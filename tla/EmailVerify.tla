---------------------------- MODULE EmailVerify -----------------------------
(***************************************************************************)
(* VerifyEmail and smtpVerify (pkg/email/verify.go): is there a mail       *)
(* server that takes mail for this address?                                *)
(*                                                                         *)
(* VerifyEmail starts one verifier goroutine per MX record and then loops  *)
(* on a select between ch, which the first successful probe closes, and    *)
(* wait, which a goroutine closes when every verifier has returned.  A     *)
(* verifier starts a probe goroutine, the SMTP conversation, and loops     *)
(* until ch is closed.                                                     *)
(***************************************************************************)
EXTENDS Naturals, FiniteSets

CONSTANT N  \* number of MX records, in the order of their preference

ASSUME NAssumption == N \in Nat

MX == 1..N

VARIABLES
  banned,    \* the MX hosts on the domain list, when that is a blacklist
  main,      \* VerifyEmail: where it is, or what it returned
  next,      \* the next MX record its loop starts a verifier for
  verifier,  \* smtpVerify of each MX
  probe,     \* the conversation of each MX
  wg,        \* the counter of the WaitGroup
  once,      \* the sync.Once: has its function run?
  ch,        \* how many times ch was closed; a second time panics
  waiter,    \* the goroutine that waits for wg
  wait       \* is the channel wait closed?

vars == <<banned, main, next, verifier, probe, wg, once, ch, waiter, wait>>

Answers == {"valid", "malformed", "no_mx", "blacklisted", "not_validated"}

-----------------------------------------------------------------------------

Init ==
  /\ banned \in SUBSET MX
  /\ main = "check"
  /\ next = 1
  /\ verifier = [m \in MX |-> "none"]
  /\ probe = [m \in MX |-> "none"]
  /\ wg = 0
  /\ once = FALSE
  /\ ch = 0
  /\ waiter = "none"
  /\ wait = FALSE

Closed == ch > 0

\* The format, the domain list and the MX lookup decide first.
Check ==
  /\ main = "check"
  /\ main' \in {"malformed", "no_mx", "launch"}
  /\ UNCHANGED <<banned, next, verifier, probe, wg, once, ch, waiter, wait>>

\* Mutant: a verifier is started before wg.Add(1), which is lost.
LaunchUncounted ==
  /\ main = "launch" /\ next \in MX
  /\ \/ /\ next \in banned
        /\ main' = "blacklisted"
        /\ UNCHANGED <<next, verifier>>
     \/ /\ next \notin banned
        /\ verifier' = [verifier EXCEPT ![next] = "started"]
        /\ next' = next + 1
        /\ UNCHANGED main
  /\ UNCHANGED <<banned, probe, wg, once, ch, waiter, wait>>

\* One turn of the loop over the MX records: a blacklisted host ends it at once
\* and leaves the verifiers already started running.
Launch ==
  /\ main = "launch" /\ next \in MX
  /\ \/ /\ next \in banned
        /\ main' = "blacklisted"
        /\ UNCHANGED <<next, verifier, wg>>
     \/ /\ next \notin banned
        /\ wg' = wg + 1
        /\ verifier' = [verifier EXCEPT ![next] = "started"]
        /\ next' = next + 1
        /\ UNCHANGED main
  /\ UNCHANGED <<banned, probe, once, ch, waiter, wait>>

Launched ==
  /\ main = "launch" /\ next \notin MX
  /\ main' = "select"
  /\ UNCHANGED <<banned, next, verifier, probe, wg, once, ch, waiter, wait>>

\* The select of VerifyEmail takes any case that is ready, and default when
\* none is; default starts the waiter the first time and spins after that.
Select ==
  /\ main = "select"
  /\ \/ Closed /\ main' = "valid" /\ UNCHANGED waiter
     \/ wait /\ main' = "not_validated" /\ UNCHANGED waiter
     \/ /\ ~ Closed /\ ~ wait /\ waiter = "none"
        /\ waiter' = "waiting"
        /\ UNCHANGED main
  /\ UNCHANGED <<banned, next, verifier, probe, wg, once, ch, wait>>

\* wg.Wait() returns and the waiter closes wait.
WaiterCloses ==
  /\ waiter = "waiting" /\ wg = 0
  /\ waiter' = "done"
  /\ wait' = TRUE
  /\ UNCHANGED <<banned, main, next, verifier, probe, wg, once, ch>>

\* Mutant: ch is only looked at before the probe is started.
VerifierReturnsEarly(m) ==
  /\ verifier[m] = "started"
  /\ Closed
  /\ verifier' = [verifier EXCEPT ![m] = "returned"]
  /\ wg' = wg - 1
  /\ UNCHANGED <<banned, main, next, probe, once, ch, waiter, wait>>

\* The loop of a verifier: it returns once ch is closed, starts the probe on
\* its first turn, and otherwise spins.
VerifierReturns(m) ==
  /\ verifier[m] \in {"started", "spinning"}
  /\ Closed
  /\ verifier' = [verifier EXCEPT ![m] = "returned"]
  /\ wg' = wg - 1
  /\ UNCHANGED <<banned, main, next, probe, once, ch, waiter, wait>>

VerifierProbes(m) ==
  /\ verifier[m] = "started"
  /\ ~ Closed
  /\ verifier' = [verifier EXCEPT ![m] = "spinning"]
  /\ probe' = [probe EXCEPT ![m] = "talking"]
  /\ UNCHANGED <<banned, main, next, wg, once, ch, waiter, wait>>

\* Mutant: a conversation that fails closes ch too.
ProbeEndsClosing(m) ==
  /\ probe[m] = "talking"
  /\ \E outcome \in {"failed", "accepted"} :
       /\ probe' = [probe EXCEPT ![m] = outcome]
       /\ once' = TRUE
       /\ ch' = IF once THEN ch ELSE ch + 1
  /\ UNCHANGED <<banned, main, next, verifier, wg, waiter, wait>>

\* The dial or any reply of the server ends the conversation, or every reply
\* is the one expected.
ProbeEnds(m) ==
  /\ probe[m] = "talking"
  /\ \E outcome \in {"failed", "accepted"} : probe' = [probe EXCEPT ![m] = outcome]
  /\ UNCHANGED <<banned, main, next, verifier, wg, once, ch, waiter, wait>>

\* Mutant: without the sync.Once.
ProbeReportsAgain(m) ==
  /\ probe[m] = "accepted"
  /\ probe' = [probe EXCEPT ![m] = "reported"]
  /\ once' = TRUE
  /\ ch' = ch + 1
  /\ UNCHANGED <<banned, main, next, verifier, wg, waiter, wait>>

\* once.Do(func() { close(ch) })
ProbeReports(m) ==
  /\ probe[m] = "accepted"
  /\ probe' = [probe EXCEPT ![m] = "reported"]
  /\ once' = TRUE
  /\ ch' = IF once THEN ch ELSE ch + 1
  /\ UNCHANGED <<banned, main, next, verifier, wg, waiter, wait>>

-----------------------------------------------------------------------------

Main == Check \/ Launch \/ Launched \/ Select

Verifier(m) == VerifierReturns(m) \/ VerifierProbes(m)

Next ==
  \/ Main
  \/ WaiterCloses
  \/ \E m \in MX : Verifier(m) \/ ProbeEnds(m) \/ ProbeReports(m)

\* Goroutines are preempted, so one that can take a step takes it.  A mail
\* server owes no answer: only FairServers assumes the conversations end.
Spec ==
  /\ Init /\ [][Next]_vars
  /\ WF_vars(Main) /\ WF_vars(WaiterCloses)
  /\ \A m \in MX : WF_vars(Verifier(m)) /\ WF_vars(ProbeReports(m))

FairServers == Spec /\ \A m \in MX : WF_vars(ProbeEnds(m))

-----------------------------------------------------------------------------
(***************************************************************************)
(* Properties.                                                             *)
(***************************************************************************)

Running == {m \in MX : verifier[m] \in {"started", "spinning"}}

\* Every variable has its type.
TypeOK ==
  /\ banned \subseteq MX
  /\ main \in {"check", "launch", "select"} \cup Answers
  /\ next \in 1..(N + 1)
  /\ verifier \in [MX -> {"none", "started", "spinning", "returned"}]
  /\ probe \in [MX -> {"none", "talking", "failed", "accepted", "reported"}]
  /\ wg \in Nat
  /\ once \in BOOLEAN
  /\ ch \in {0, 1}
  /\ waiter \in {"none", "waiting", "done"}
  /\ wait \in BOOLEAN

\* An address is reported valid (verify.go:65) only after some mail server took
\* the whole conversation.
ValidHasWitness ==
  main = "valid" => \E m \in MX : probe[m] = "reported"

\* While VerifyEmail starts verifiers others may already return
\* (verify.go:54-57): the answer "could not be validated" (verify.go:67) is
\* never given while a verifier still runs.
NotValidatedAfterAll ==
  main = "not_validated" =>
    /\ next \notin MX
    /\ Running = {}
    /\ wg = 0

\* Once a probe has succeeded VerifyEmail returns and so does every verifier
\* it started.
SuccessEndsAll ==
  Closed ~> main \in Answers /\ Running = {}

\* VerifyEmail answers, as verify.go:66-67 intends for an address no server
\* accepts.
Answered == <>(main \in Answers)
=============================================================================
