------------------------------ MODULE Sessions ------------------------------
(***************************************************************************)
(* What the auth service promises about its tokens, whatever is stored     *)
(* where: a token is honoured from the moment it is issued until it is     *)
(* retired, the tokens of one client are retired together, and a settled   *)
(* token that is retired stays so.  A token is unsettled while the write   *)
(* that put it in force may be repeated, and it is never unsettled again.  *)
(* A verification accepts a token of the service only if it was honoured   *)
(* when the verification looked, and a token that the service did not      *)
(* issue only if its client had none honoured then.  It does not promise   *)
(* how long a token is honoured: it may be retired from birth.             *)
(***************************************************************************)
CONSTANTS Clients, Requests

VARIABLES
  honoured,   \* tokens in force; a token is a record with a field "sub"
  retired,    \* tokens that no longer are, or never were
  unsettled,  \* tokens that may be in force again after they are retired
  ask         \* the state of the verification each request performs

vars == <<honoured, retired, unsettled, ask>>

Of(c, T) == {t \in T : t.sub = c}

Init ==
  /\ honoured = {}
  /\ retired = {}
  /\ unsettled = {}
  /\ ask = [r \in Requests |-> "none"]

Issue(t) ==
  /\ t \notin honoured \cup retired
  /\ \/ honoured' = honoured \cup {t} /\ UNCHANGED retired
     \/ retired' = retired \cup {t} /\ UNCHANGED honoured
  /\ unsettled' \in {unsettled, unsettled \cup {t}}
  /\ UNCHANGED ask

\* Log-out, expiry of the secret, or a log-in that replaced it.  Tokens may
\* settle, with no other effect too.
Retire(T) ==
  /\ T \subseteq honoured
  /\ \A t, u \in honoured : t \in T /\ t.sub = u.sub => u \in T
  /\ honoured' = honoured \ T
  /\ retired' = retired \cup T
  /\ unsettled' \subseteq unsettled
  /\ UNCHANGED ask

\* The write of a log-in is repeated: the unsettled tokens it stood for replace
\* the others of their client.
Restore(c, T) ==
  /\ T \subseteq Of(c, retired \cap unsettled)
  /\ honoured' = (honoured \ Of(c, honoured)) \cup T
  /\ retired' = (retired \ T) \cup Of(c, honoured)
  /\ unsettled' \subseteq unsettled
  /\ UNCHANGED ask

Ask(r, t) ==
  /\ ask[r] = "none"
  /\ t \in honoured \cup retired
  /\ ask' = [ask EXCEPT ![r] = IF t \in honoured THEN "in_force" ELSE "out"]
  /\ UNCHANGED <<honoured, retired, unsettled>>

\* A token that the service did not issue, of client c.
AskUnissued(r, c) ==
  /\ ask[r] = "none"
  /\ \/ Of(c, honoured) = {} /\ ask' = [ask EXCEPT ![r] = "unknown"]
     \/ ask' = [ask EXCEPT ![r] = "out"]
  /\ UNCHANGED <<honoured, retired, unsettled>>

\* A token found in force may still be refused: it lacks the permission, or
\* its dates have passed.
Answer(r) ==
  /\ \/ ask[r] \in {"in_force", "unknown"} /\ ask' = [ask EXCEPT ![r] = "accepted"]
     \/ /\ ask[r] \in {"in_force", "unknown", "out"}
        /\ ask' = [ask EXCEPT ![r] = "refused"]
  /\ UNCHANGED <<honoured, retired, unsettled>>

Forget(r) ==
  /\ ask[r] \in {"accepted", "refused"}
  /\ ask' = [ask EXCEPT ![r] = "none"]
  /\ UNCHANGED <<honoured, retired, unsettled>>

Next ==
  \/ \E t \in honoured' \cup retired' : Issue(t)
  \/ Retire(honoured \ honoured')
  \/ \E c \in Clients : Restore(c, honoured' \ honoured)
  \/ \E r \in Requests :
       \/ \E t \in honoured \cup retired : Ask(r, t)
       \/ \E c \in Clients : AskUnissued(r, c)
       \/ Answer(r)
       \/ Forget(r)

Spec == Init /\ [][Next]_vars
=============================================================================
