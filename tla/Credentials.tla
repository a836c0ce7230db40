---------------------------- MODULE Credentials -----------------------------
(***************************************************************************)
(* The credentials of the auth service: BloqsAuther                        *)
(* (internal/auth/auth.go) over its MySQL table, as the HTTP routes (sign  *)
(* in, log in) and the create_super command use it.                        *)
(*                                                                         *)
(* Every SELECT, INSERT, UPDATE and DELETE is a statement of its own, there *)
(* is no transaction: a check and the write it guards are separate steps.  *)
(***************************************************************************)
EXTENDS Naturals, FiniteSets

CONSTANTS
  Emails,
  Passwords,
  Requests   \* HTTP requests and runs of create_super, one operation each

VARIABLES
  rows,  \* the table; "by" names the operation that inserted the row
  req    \* the state of each operation

vars == <<rows, req>>

Ops == {"sign_in", "create_super", "log_in"}

Stages ==
  {"idle",
   \* SignInBasic
   "exists", "insert", "mail",
   \* GrantSuper and SignOutBasic, as create_super calls them
   "grant_check", "grant", "out_check", "out",
   \* LogRoute: IsSuper, then LogIn
   "super_access", "super_access2", "super_flag",
   "access", "access2", "flag",
   \* how an operation ends; a run of create_super panics before its row is
   \* inserted ("failed") or later ("panicked")
   "created", "conflict", "refused", "error", "super_made", "failed", "panicked", "token"}

Row == [email: Emails, pass: Passwords, super: BOOLEAN, by: Requests]

\* For a log-in, "ask" says what it asks for: the permissions of a client or
\* those of a super user, by name, or whatever the gRPC body says.  "super" holds
\* the flag that IsSuper, then LogIn, last read.
Op == [op: Ops, stage: Stages, email: Emails, pass: Passwords,
       ask: {"client", "manager", "grpc"}, super: BOOLEAN]

Of(e) == {w \in rows : w.email = e}

\* CheckAccessBasic: there is exactly one row and the hash matches.
HasAccess(q) ==
  /\ Cardinality(Of(q.email)) = 1
  /\ \A w \in Of(q.email) : w.pass = q.pass

-----------------------------------------------------------------------------

Init ==
  /\ rows = {}
  /\ req \in [Requests -> {q \in Op : /\ q.stage = "idle" /\ ~ q.super
                                      /\ q.op # "log_in" => q.ask = "client"}]

Go(r, from, to) ==
  /\ req[r].stage = from
  /\ req' = [req EXCEPT ![r].stage = to]

\* Mutant: a failure that is told to nobody.
FailureIgnored(r) == "ignored"

\* How a run of create_super, or an HTTP request, ends on an error before its
\* row is inserted.
Failure(r) == IF req[r].op = "create_super" THEN "failed" ELSE "error"

(***************************************************************************)
(* SignInBasic.                                                            *)
(***************************************************************************)

\* VerifyEmail accepts the address or not, the password is short enough or not.
SignIn(r) ==
  /\ req[r].op \in {"sign_in", "create_super"}
  /\ Go(r, "idle", "exists") \/ Go(r, "idle", Failure(r))
  /\ UNCHANGED rows

\* Mutant: create_super cleans up after a conflict as it does after a failed
\* GrantSuper.
ExistsCleansUp(r) ==
  /\ \/ Of(req[r].email) = {} /\ Go(r, "exists", "insert")
     \/ /\ Of(req[r].email) # {}
        /\ Go(r, "exists", IF req[r].op = "sign_in" THEN "conflict" ELSE "out_check")
  /\ UNCHANGED rows

\* Mutant: create_super promotes the credential that exists.
ExistsPromotes(r) ==
  /\ \/ Of(req[r].email) = {} /\ Go(r, "exists", "insert")
     \/ /\ Of(req[r].email) # {}
        /\ Go(r, "exists", IF req[r].op = "sign_in" THEN "conflict" ELSE "grant_check")
  /\ UNCHANGED rows

Exists(r) ==
  /\ \/ Of(req[r].email) = {} /\ Go(r, "exists", "insert")
     \/ /\ Of(req[r].email) # {}
        /\ Go(r, "exists", IF req[r].op = "sign_in" THEN "conflict" ELSE "failed")
  /\ UNCHANGED rows

NewRow(r) ==
  [email |-> req[r].email, pass |-> req[r].pass, super |-> FALSE, by |-> r]

\* Mutant: the table without UNIQUE (identifier, type).
NotUnique(r) == TRUE

\* UNIQUE (identifier, type) refuses a second row, whatever Exists saw.
Unique(r) == Of(req[r].email) = {}

Insert(r) ==
  \/ /\ Unique(r)
     /\ rows' = rows \cup {NewRow(r)}
     /\ Go(r, "insert", IF req[r].op = "sign_in" THEN "mail" ELSE "grant_check")
  \/ /\ ~ Unique(r)
     /\ UNCHANGED rows
     /\ Go(r, "insert", Failure(r))

\* The mail is sent, or no key is set; when it fails the client is told of an
\* error although the credential is there.
Mail(r) ==
  /\ Go(r, "mail", "created") \/ Go(r, "mail", "error")
  /\ UNCHANGED rows

(***************************************************************************)
(* create_super after SignInBasic: GrantSuper, and SignOutBasic if it      *)
(* fails.                                                                  *)
(***************************************************************************)

GrantCheck(r) ==
  /\ \/ HasAccess(req[r]) /\ Go(r, "grant_check", "grant")
     \/ ~ HasAccess(req[r]) /\ Go(r, "grant_check", "out_check")
  /\ UNCHANGED rows

Promoted(e) ==
  {IF w.email = e THEN [w EXCEPT !.super = TRUE] ELSE w : w \in rows}

\* The UPDATE may return an error, having taken effect or not.
Grant(r) ==
  \/ Go(r, "grant", "super_made") /\ rows' = Promoted(req[r].email)
  \/ Go(r, "grant", "out_check") /\ rows' = Promoted(req[r].email)
  \/ Go(r, "grant", "out_check") /\ UNCHANGED rows

OutCheck(r) ==
  /\ \/ HasAccess(req[r]) /\ Go(r, "out_check", "out")
     \/ ~ HasAccess(req[r]) /\ Go(r, "out_check", "panicked")
  /\ UNCHANGED rows

\* The error of SignOutBasic is not looked at.
Out(r) ==
  /\ Go(r, "out", "panicked")
  /\ rows' \in {rows, rows \ Of(req[r].email)}

(***************************************************************************)
(* LogRoute: IsSuper decides which permissions may be asked for, its error *)
(* is ignored; LogIn then checks the password and reads the flag again.    *)
(***************************************************************************)

\* Mutant: the list of permissions is the whole list, super user or not.
AskPermissionsUnlisted(r, s) ==
  req' = [req EXCEPT ![r].super = s, ![r].stage = "access"]

\* IsSuper answered s (false on an error): the names are on the list for s, or
\* there are none to look up, and LogIn begins; or the request is refused.
AskPermissions(r, s) ==
  req' = [req EXCEPT ![r].super = s,
                     ![r].stage = IF req[r].ask = "manager" /\ ~ s
                                    THEN "refused" ELSE "access"]

LogIn(r) ==
  /\ req[r].op = "log_in"
  /\ Go(r, "idle", "super_access")
  /\ UNCHANGED rows

SuperAccess(r, from, to) ==
  /\ req[r].stage = from
  /\ \/ HasAccess(req[r]) /\ Go(r, from, to)
     \/ ~ HasAccess(req[r]) /\ AskPermissions(r, FALSE)
  /\ UNCHANGED rows

IsSuperRow(e) == Cardinality(Of(e)) = 1 /\ \A w \in Of(e) : w.super

SuperFlag(r) ==
  /\ req[r].stage = "super_flag"
  /\ AskPermissions(r, IsSuperRow(req[r].email))
  /\ UNCHANGED rows

Access(r, from, to) ==
  /\ \/ HasAccess(req[r]) /\ Go(r, from, to)
     \/ ~ HasAccess(req[r]) /\ Go(r, from, "refused")
  /\ UNCHANGED rows

\* The flag goes into the token.
Flag(r) ==
  /\ \/ /\ Cardinality(Of(req[r].email)) = 1
        /\ req[r].stage = "flag"
        /\ req' = [req EXCEPT ![r].super = IsSuperRow(req[r].email),
                              ![r].stage = "token"]
     \/ /\ Cardinality(Of(req[r].email)) # 1
        /\ Go(r, "flag", "refused")
  /\ UNCHANGED rows

\* A SELECT or INSERT returns an error, the INSERT having taken effect or not;
\* a SELECT that fails after it was prepared panics instead (it closes rows that
\* are nil), which ends the request; or the process that runs create_super dies.
Fails(r) ==
  \/ /\ req[r].stage \in {"exists", "insert", "access", "access2", "flag",
                          "super_access", "super_access2", "super_flag"}
     /\ Go(r, req[r].stage, Failure(r))
     /\ UNCHANGED rows
  \/ /\ Go(r, "insert", IF req[r].op = "sign_in" THEN "error" ELSE "panicked")
     /\ Unique(r)
     /\ rows' = rows \cup {NewRow(r)}
  \/ /\ req[r].stage \in {"super_access", "super_access2", "super_flag"}
     /\ AskPermissions(r, FALSE)
     /\ UNCHANGED rows
  \/ /\ Go(r, "grant_check", "out_check")
     /\ UNCHANGED rows
  \/ /\ req[r].stage \in {"grant_check", "grant", "out_check", "out"}
     /\ Go(r, req[r].stage, "panicked")
     /\ UNCHANGED rows

Operation(r) ==
  \/ SignIn(r) \/ Exists(r) \/ Insert(r) \/ Mail(r)
  \/ GrantCheck(r) \/ Grant(r) \/ OutCheck(r) \/ Out(r)
  \/ LogIn(r)
  \/ SuperAccess(r, "super_access", "super_access2")
  \/ SuperAccess(r, "super_access2", "super_flag")
  \/ SuperFlag(r)
  \/ Access(r, "access", "access2")
  \/ Access(r, "access2", "flag")
  \/ Flag(r)
  \/ Fails(r)

Next == \E r \in Requests : Operation(r)

Spec == Init /\ [][Next]_vars

-----------------------------------------------------------------------------
(***************************************************************************)
(* Properties.                                                             *)
(***************************************************************************)

\* Every variable has its type.
TypeOK ==
  /\ rows \subseteq Row
  /\ req \in [Requests -> Op]

\* No two sign-ins of one address that run side by side leave two rows
\* (auth.go:43 against the check at auth.go:108): two would lock the client out,
\* since CheckAccessBasic wants exactly one (auth.go:270).
OneRow ==
  \A e \in Emails : Cardinality(Of(e)) <= 1

\* A credential whose sign-in was answered 201 (grpc_server.go:52) stays, with
\* its password, whatever runs of create_super for the same address conflict
\* with it, fail half-way and clean up (create_super/main.go:62).
CreatedStays ==
  \A r \in Requests : req[r].stage = "created" =>
    \E w \in rows : w.by = r /\ w.email = req[r].email /\ w.pass = req[r].pass

\* Only create_super makes super users: a row that an HTTP sign-in inserted is
\* never promoted, although GrantSuper updates by address (auth.go:175).
SuperIsDeliberate ==
  \A w \in rows : w.super => req[w.by].op = "create_super"

\* A token says super (grpc_server.go:161), or carries permissions of a super
\* user that were asked for by name (log.go:173), only for an address and password
\* with which a run of create_super inserted its row, although the password is
\* checked in one statement and the flag read in a later one; a run that ended
\* before its INSERT took effect vouches for nobody.
SuperTokenDeserved ==
  \A r \in Requests :
    /\ req[r].stage = "token"
    /\ req[r].super \/ req[r].ask = "manager"
    => \E s \in Requests :
         /\ req[s].op = "create_super"
         /\ req[s].email = req[r].email /\ req[s].pass = req[r].pass
         /\ req[s].stage \in {"grant", "out_check", "out", "super_made", "panicked"}
=============================================================================
