----------------------------- MODULE AuthRoutes -----------------------------
(***************************************************************************)
(* A request from its arrival to its answer: the routes /sign and /log of  *)
(* the auth service (pkg/auth/http), the fortunes, and the part of a REST  *)
(* call that looks at its token (internal/helpers/token.go).               *)
(*                                                                         *)
(* This module composes the components a request goes through: the         *)
(* configuration of the process (Configuration), the credentials           *)
(* (Credentials), the permissions (Permissions) and the tokens, as Sessions *)
(* promises them.                                                          *)
(***************************************************************************)
EXTENDS Naturals, FiniteSets, Permissions

CONSTANTS
  Emails, Passwords,
  Requests,    \* sign-ins, log-ins and runs of create_super
  Calls,       \* the other requests: /log and /sign with DELETE, REST, fortunes
  Hosts, Configs, NoConfig, MaxMishaps,
  NoToken,
  Nobody,      \* by whom a token was made that the service did not issue
  Names,       \* names of permissions that are asked for
  Needs,       \* sets of permissions that a REST call asks Validate about
  Claims,      \* those that a token which the service did not issue carries
  Scenes       \* how the process runs and what each request of it does

VARIABLES
  rows, req,                  \* Credentials
  file, cnf, sch, found, load, mishaps,   \* Configuration
  honoured, retired, unsettled, ask,      \* Sessions
  deployment,                             \* "server" or "serverless"
  http                                    \* each request, as its route sees it

Served == Requests \cup Calls

Creds == INSTANCE Credentials
Conf == INSTANCE Configuration
Tok == INSTANCE Sessions WITH Requests <- Calls, Clients <- Emails

confVars == <<file, cnf, sch, found, load, mishaps>>
credVars == <<rows, req>>
tokVars == <<honoured, retired, unsettled, ask>>
vars == <<confVars, credVars, tokVars, deployment, http>>

\* A token names its client, the log-in that made it and its permissions.
Token == [sub: Emails, by: Requests \cup {Nobody}, perms: SUBSET Permission]
Tokens == honoured \cup retired

\* The tokens that the service did not issue name a client and permissions too.
Unissued == [sub: Emails, by: {Nobody}, perms: Claims]

Ops == {"sign_in", "log_in", "create_super",
        "log_out", "sign_out", "call", "fortune", "absent"}

Stages == {"idle", "compile", "route", "origin", "form", "service", "cookie",
           "extract", "look", "verdict", "delete", "respond", "done"}

Answers == {"none", "ok", "bad", "refused", "forbidden", "conflict", "error",
            "not_found", "panicked"}

\* "alive" is what was in force when a call arrived, or could be again (history).
Http == [op: Ops, stage: Stages, origin: Hosts \cup {"unparsable", "unread"},
         token: Token \cup {NoToken}, need: SUBSET Permission,
         alive: SUBSET Token, answer: Answers]

Auth(x) == http[x].op \in {"sign_in", "log_in", "log_out", "sign_out"}

\* A scene says what each request does: the requests of Credentials its
\* operations, the calls the rest.
ASSUME ScenesAssumption ==
  /\ Requests \cap Calls = {}
  /\ \A s \in Scenes :
       /\ s.deployment \in {"server", "serverless"}
       /\ s.ops \in [Served -> Ops]
       /\ \A x \in Calls : s.ops[x] \notin Creds!Ops

\* What is no configuration, host, token or request is none, and the names that
\* are asked for are on the list of a super user.
ASSUME NamesAssumption ==
  /\ \A c \in Configs : Conf!IsConfig(c)
  /\ NoConfig \notin Configs /\ MaxMishaps \in Nat
  /\ {"unparsable", "unread"} \cap Hosts = {}
  /\ NoToken \notin Token /\ Nobody \notin Requests
  /\ Names \subseteq GetPermissionsList(TRUE)
  /\ Needs \cup Claims \subseteq SUBSET Permission

-----------------------------------------------------------------------------

\* create_super is a command of its own, it goes through no route.
Init ==
  /\ Creds!Init /\ Conf!Init /\ Tok!Init
  /\ \E s \in Scenes :
       /\ deployment = s.deployment
       /\ http = [x \in Served |->
            [op |-> s.ops[x],
             stage |-> IF s.ops[x] = "create_super" THEN "service" ELSE "idle",
             origin |-> "unread", token |-> NoToken, need |-> NIL,
             alive |-> {}, answer |-> "none"]]
  /\ (cnf = NoConfig) = (deployment = "serverless")
  /\ \A r \in Requests :
       /\ req[r].op = IF http[r].op = "absent" THEN "log_in" ELSE http[r].op
       \* A gRPC body needs HTTP/2, which the servers do not speak.
       /\ req[r].ask \in IF http[r].op = "log_in" THEN {"client", "manager"}
                                                  ELSE {"client"}

At(x, stage) == http[x].stage = stage

\* A step of a request ends the GetConf that it is in, if any.
Move(x, stage) ==
  /\ http' = [http EXCEPT ![x].stage = stage]
  /\ Conf!GetConfEnds(x)

\* The request is over: it is out of the process.
End(x, answer) ==
  /\ http' = [http EXCEPT ![x].stage = "done", ![x].answer = answer,
                          ![x].origin = "unread"]
  /\ Conf!Leave(x)

\* The routes of the auth service jump to their label "respond".
Respond(x, answer) ==
  /\ http' = [http EXCEPT ![x].stage = "respond", ![x].answer = answer]
  /\ Conf!GetConfEnds(x)

\* A step with one GetConf, which panics when it finds no configuration (net/http
\* recovers the panic).
Configured(x, step) == IF Conf!Missing(x) THEN End(x, "panicked") ELSE step

\* A step with several of them: the first may find one that a later one misses.
ConfiguredOften(x, step) ==
  \/ cnf = NoConfig /\ End(x, "panicked")
  \/ ~ Conf!Missing(x) /\ step

\* The request calls GetConf next.
Reading(x) ==
  \/ At(x, "origin") \/ At(x, "form") \/ At(x, "cookie")
  \/ At(x, "extract") \/ At(x, "look")
  \/ At(x, "route") /\ Auth(x)
  \/ At(x, "respond") /\ (Auth(x) \/ http[x].answer = "ok")
  \/ At(x, "service") /\ x \in Requests /\ req[x].stage = "token"

\* GetConf found a configuration and is to read it again, for the next step of the
\* request.  Nothing happens in between in a server, where nobody writes it.
GetConf(x) ==
  /\ Reading(x) /\ deployment = "serverless"
  /\ Conf!GetConfFinds(x)
  /\ UNCHANGED <<credVars, tokVars, deployment, http>>

(***************************************************************************)
(* The entry point: Compile by itself, and once more in auth.Server and    *)
(* rest.Server.                                                            *)
(***************************************************************************)

Compilations(x) ==
  IF deployment = "server" THEN 0 ELSE IF http[x].op = "fortune" THEN 1 ELSE 2

Arrive(x) ==
  /\ At(x, "idle") /\ http[x].op # "absent"
  /\ Conf!Enter(x, Compilations(x))
  /\ \E t \in {NoToken} \cup IF x \in Calls THEN Tokens \cup Unissued ELSE {},
        p \in IF http[x].op = "call" THEN Needs ELSE {NIL} :
       http' = [http EXCEPT
         ![x].stage = IF Compilations(x) = 0 THEN "route" ELSE "compile",
         ![x].token = t, ![x].need = p,
         ![x].alive = IF x \in Calls THEN honoured \cup unsettled ELSE {}]
  /\ UNCHANGED <<credVars, tokVars, deployment>>

Compile(x) ==
  /\ At(x, "compile")
  /\ Conf!Compile(x)
  /\ UNCHANGED <<credVars, tokVars, deployment, http>>

Compiled(x) ==
  /\ At(x, "compile") /\ load[x].stage = "loaded"
  /\ Move(x, "route")
  /\ UNCHANGED <<credVars, tokVars, deployment>>

\* Mutant: the first error is told to nobody.
NotCompiledSilent(x) ==
  /\ At(x, "compile")
  /\ \/ load[x].stage = "crashed" /\ End(x, "panicked")
     \/ /\ load[x].stage = "failed"
        /\ IF http[x].op = "fortune" THEN Move(x, "route")
           ELSE End(x, IF load[x].left = 2 THEN "none" ELSE "panicked")
  /\ UNCHANGED <<credVars, tokVars, deployment>>

\* Compile panicked; or the entry point answers an error of its own Compile,
\* Server panics, and api.Fortune goes on.
NotCompiled(x) ==
  /\ At(x, "compile")
  /\ \/ load[x].stage = "crashed" /\ End(x, "panicked")
     \/ /\ load[x].stage = "failed"
        /\ IF http[x].op = "fortune" THEN Move(x, "route")
           ELSE End(x, IF load[x].left = 2 THEN "error" ELSE "panicked")
  /\ UNCHANGED <<credVars, tokVars, deployment>>

(***************************************************************************)
(* The router and the Origin check.                                        *)
(***************************************************************************)

\* The path ends at the endpoint: the fortunes have a route for it, whose
\* segments are out of range; auth has none.  A REST call goes to its handler,
\* unless rest.Server panics because it has no database, or the handler because
\* it misses the configuration.
Route(x) ==
  /\ At(x, "route")
  /\ \/ http[x].op = "fortune" /\ End(x, "panicked")
     \/ http[x].op = "fortune" /\ Move(x, "origin")
     \/ Auth(x) /\ ConfiguredOften(x, End(x, "not_found") \/ Move(x, "origin"))
     \/ http[x].op = "call" /\ Move(x, "extract")
     \/ http[x].op = "call" /\ deployment = "serverless" /\ End(x, "panicked")
  /\ UNCHANGED <<credVars, tokVars, deployment>>

Judged(x, origin, stage, answer) ==
  /\ http' = [http EXCEPT ![x].origin = origin, ![x].stage = stage,
                          ![x].answer = answer]
  /\ Conf!GetConfEnds(x)

\* ValidateDomain reads the configuration once for a host.  Who is admitted reads
\* it again for the answer's header, and the routes of auth whatever the Origin:
\* that is part of their next steps, which read it anyway.
CheckOriginHeader(x) ==
  /\ At(x, "origin")
  /\ \/ Judged(x, "unparsable", "respond", "forbidden")
     \/ Configured(x, \E o \in Hosts :
          IF ~ Conf!Admits(cnf, o) THEN Judged(x, o, "respond", "forbidden")
          ELSE CASE http[x].op = "fortune" -> Judged(x, o, "respond", "ok")
                 [] http[x].op \in {"sign_in", "log_in"} -> Judged(x, o, "form", "none")
                 [] OTHER -> Judged(x, o, "extract", "none"))
  /\ UNCHANGED <<credVars, tokVars, deployment>>

(***************************************************************************)
(* POST /sign and POST /log.                                               *)
(***************************************************************************)

\* The media type, the parameter "type", the fields of the form and the method
\* "basic" are looked at, then authSrv connects to the stores.
Form(x) ==
  /\ At(x, "form")
  /\ ConfiguredOften(x,
       \/ Respond(x, "bad")
       \/ /\ cnf # NoConfig /\ cnf.basic
          /\ Move(x, "service") \/ Respond(x, "error"))
  /\ UNCHANGED <<credVars, tokVars, deployment>>

\* AuthServer at work on the credentials.
Service(r) ==
  /\ At(r, "service")
  /\ Creds!Operation(r)
  /\ UNCHANGED <<confVars, tokVars, deployment, http>>

Told == [created |-> "ok", conflict |-> "conflict", refused |-> "refused",
         error |-> "error"]

ServiceEnds(r) ==
  /\ At(r, "service") /\ http[r].op # "create_super"
  /\ req[r].stage \in DOMAIN Told
  /\ Respond(r, Told[req[r].stage])
  /\ UNCHANGED <<credVars, tokVars, deployment>>

\* The names a log-in may ask for: it asks as a manager when one of them is
\* only on the list of a super user.
Asks(r, names) ==
  (req[r].ask = "manager") = ~ (names \subseteq GetPermissionsList(FALSE))

\* GenToken: the token may be dead from birth, as Sessions says, and the write of
\* its secret may be repeated later; GenToken may fail, or panic in GetConf.
GenToken(r) ==
  /\ At(r, "service") /\ req[r].stage = "token"
  /\ \/ Respond(r, "error") /\ UNCHANGED tokVars
     \/ cnf = NoConfig /\ End(r, "panicked") /\ UNCHANGED tokVars
     \/ /\ ~ Conf!Missing(r)
        /\ \E names \in SUBSET Names :
             /\ Asks(r, names)
             /\ Tok!Issue([sub |-> req[r].email, by |-> r,
                           perms |-> Granted(names)])
        /\ Move(r, "cookie")
  /\ UNCHANGED <<credVars, deployment>>

\* SetToken reads the configuration again; the cookie itself is not modelled.
SetToken(r) ==
  /\ At(r, "cookie")
  /\ Configured(r, Respond(r, "ok"))
  /\ UNCHANGED <<credVars, tokVars, deployment>>

(***************************************************************************)
(* DELETE /log, DELETE /sign and the calls of the REST API: the token.     *)
(***************************************************************************)

\* How ExtractToken, or the body of a log-out, ends.
Refuse(x, answer) ==
  CASE http[x].op = "log_out" -> Respond(x, answer)
    \* SignRoute stores the status of an error through a nil pointer.
    [] http[x].op = "sign_out" -> End(x, "panicked")
    [] http[x].op = "call" -> End(x, answer)

\* SignRoute turns every token away; the others look at it.
Present(x) ==
  IF http[x].op = "sign_out" THEN Respond(x, "refused") ELSE Move(x, "look")

\* A cookie has no expiry when a server reads it, so it is refused; if the
\* configuration sets an expiry, that is a float64 read as an int.
BadCookie(x) ==
  IF cnf # NoConfig /\ cnf.exp THEN End(x, "panicked") ELSE Refuse(x, "bad")

\* The token is in the body of a log-out or in the Authorization header, or
\* nowhere.  All but a log-out connect to the stores first, and may fail to.
Extracted(x) ==
  \/ http[x].token # NoToken /\ Present(x)
  \/ http[x].token = NoToken /\ Refuse(x, "refused")
  \/ http[x].op = "call" /\ End(x, "error")
  \/ http[x].op = "sign_out" /\ Respond(x, "error")

\* Before it, the routes of auth look up the path of the types, and the list of
\* domains for the header.
ExtractToken(x) ==
  /\ At(x, "extract")
  /\ IF http[x].op = "call"
       THEN Extracted(x) \/ Configured(x, BadCookie(x))
       ELSE ConfiguredOften(x, Extracted(x) \/ BadCookie(x))
  /\ UNCHANGED <<credVars, tokVars, deployment>>

\* The names of the APIs that nothing is found under are no strings: ParseToken
\* panics then, too.
Unnamed == cnf = NoConfig

\* What the look of a call finds; one at a token that was not issued.
Asked(x) ==
  IF http[x].token \in Tokens THEN Tok!Ask(x, http[x].token)
                             ELSE Tok!AskUnissued(x, http[x].token.sub)

OfClient(e) == Tok!Of(e, honoured)

\* RevokeToken goes on with a token in force, or with one that was not issued when
\* the client has none: KeyDB.Get returns an empty secret then, which verifies what
\* is signed with an empty secret.
Revocable(t) ==
  \/ t \in honoured
  \/ t \notin Tokens /\ OfClient(t.sub) = {}

\* RevokeToken and VerifyToken read the secret of the token's client.  If the
\* store fails, so does the request; a log-out connects to it first.
Look(x) ==
  /\ At(x, "look")
  /\ \/ Unnamed /\ End(x, "panicked") /\ UNCHANGED tokVars
     \/ http[x].op = "log_out" /\ Refuse(x, "error") /\ UNCHANGED tokVars
     \/ /\ http[x].op = "call" /\ ~ Conf!Missing(x)
        /\ \/ Refuse(x, "refused") /\ UNCHANGED tokVars
           \/ Asked(x) /\ Move(x, "verdict")
     \/ /\ http[x].op = "log_out" /\ ~ Conf!Missing(x)
        /\ Revocable(http[x].token)
        /\ Move(x, "delete")
        /\ UNCHANGED tokVars
  /\ UNCHANGED <<credVars, deployment>>

\* Mutant: any of the permissions will do.
VerdictAny(x) ==
  /\ At(x, "verdict")
  /\ Tok!Answer(x)
  /\ LET met == http[x].token.perms \cap http[x].need # {} IN
     \/ ask'[x] = "accepted" /\ met /\ End(x, "ok")
     \/ ask[x] # "out" /\ ask'[x] = "refused" /\ ~ met /\ End(x, "forbidden")
     \/ ask'[x] = "refused" /\ End(x, "refused")
  /\ UNCHANGED <<credVars, deployment>>

\* A token that passed the look is accepted if it has the permissions; its dates
\* may have passed all the same.
Verdict(x) ==
  /\ At(x, "verdict")
  /\ Tok!Answer(x)
  /\ LET met == Allowed(http[x].token.perms, http[x].need) IN
     \/ ask'[x] = "accepted" /\ met /\ End(x, "ok")
     \/ ask[x] # "out" /\ ask'[x] = "refused" /\ ~ met /\ End(x, "forbidden")
     \/ ask'[x] = "refused" /\ End(x, "refused")
  /\ UNCHANGED <<credVars, deployment>>

\* The tokens of a client are retired.  Those that are unsettled stay so: nothing
\* tells when the last copy of a write has arrived.
Retire(e) == UNCHANGED unsettled /\ Tok!Retire(OfClient(e))

\* Mutant: the error of the command is not looked at.
DeleteUnchecked(x) ==
  /\ At(x, "delete")
  /\ Retire(http[x].token.sub) \/ UNCHANGED tokVars
  /\ Respond(x, "ok")
  /\ UNCHANGED <<credVars, deployment>>

\* The secret of the client is deleted, with every token signed with it; or the
\* command returns an error, having taken effect or not.
Delete(x) ==
  /\ At(x, "delete")
  /\ \/ /\ Retire(http[x].token.sub)
        /\ Respond(x, "ok") \/ Respond(x, "error")
     \/ Respond(x, "error") /\ UNCHANGED tokVars
  /\ UNCHANGED <<credVars, deployment>>

(***************************************************************************)
(* The end of a request.                                                   *)
(***************************************************************************)

\* At their label "respond" the routes of auth ask the configuration for the
\* name of the parameter "redirect", after what CheckOriginHeader left to do.
Answer(x) ==
  /\ At(x, "respond")
  /\ LET end == End(x, http[x].answer) IN
     IF Auth(x) THEN ConfiguredOften(x, end)
     ELSE IF http[x].answer = "ok" THEN Configured(x, end) ELSE end
  /\ UNCHANGED <<credVars, tokVars, deployment>>

\* Redis drops the secret of a client, or a log-in that overlapped another puts
\* its own in its place.
TokensEnd(e) ==
  /\ OfClient(e) # {}
  /\ Retire(e)
  /\ UNCHANGED <<confVars, credVars, deployment, http>>

\* A SET that was given up, or sent again, reaches Redis late and puts the secret
\* of a log-in back.
TokensReturn(e) ==
  /\ UNCHANGED <<unsettled, confVars, credVars, deployment, http>>
  /\ \E T \in SUBSET Tok!Of(e, retired \cap unsettled) : T # {} /\ Tok!Restore(e, T)

\* A long-running server does not look at the file again.
ChangeFile ==
  /\ deployment = "serverless"
  /\ Conf!ChangeFile
  /\ UNCHANGED <<credVars, tokVars, deployment, http>>

Next ==
  \/ ChangeFile
  \/ \E e \in Emails : TokensEnd(e) \/ TokensReturn(e)
  \/ \E x \in Served :
       \/ Arrive(x) \/ Compile(x) \/ Compiled(x) \/ NotCompiled(x) \/ GetConf(x)
       \/ Route(x) \/ CheckOriginHeader(x) \/ Form(x)
       \/ ExtractToken(x) \/ Look(x) \/ Verdict(x) \/ Delete(x) \/ Answer(x)
  \/ \E r \in Requests : Service(r) \/ ServiceEnds(r) \/ GenToken(r) \/ SetToken(r)

Spec == Init /\ [][Next]_vars

-----------------------------------------------------------------------------
(***************************************************************************)
(* Properties.                                                             *)
(***************************************************************************)

\* Every variable has its type, a token is in force or it is not, and a request
\* that is over has been told something.
TypeOK ==
  /\ Creds!TypeOK /\ Conf!TypeOK
  /\ honoured \subseteq Token /\ retired \subseteq Token
  /\ honoured \cap retired = {} /\ unsettled \subseteq Tokens
  /\ ask \in [Calls -> {"none", "in_force", "unknown", "out", "accepted", "refused"}]
  /\ deployment \in {"server", "serverless"}
  /\ http \in [Served -> Http]
  /\ \A x \in Served : At(x, "done") => http[x].answer # "none"

\* A request is admitted or forbidden (domains.go:86) by a configuration that it
\* read itself or that a request it ran beside read (conf.go:32), never by one of
\* earlier days; and it is admitted for want of one (conf.go:45) only if one of
\* these could not read the file.  But for a fortune whose Compile failed
\* (api/fortune.go:15), which goes on with whatever is there.
OriginJudgedByOverlap ==
  \A x \in Served :
    /\ http[x].origin # "unread" /\ ~ At(x, "done")
    /\ load[x].stage = "loaded"
    => \E c \in load[x].met :
         Conf!Admits(c, http[x].origin) = (http[x].answer # "forbidden")

\* The call has got past the look at its token.
Passed(x) ==
  \/ http[x].op = "call" /\ http[x].answer \in {"ok", "forbidden"}
  \/ http[x].op = "log_out" /\ http[x].answer = "ok"

\* A REST call passes (token.go:21) with a token that the service issued only if
\* that was in force when the call arrived, or unsettled, and with another only if
\* by then the client's settled tokens had all been retired, though log-outs and
\* log-ins run between its steps; it has what was asked for, and 403 is for tokens
\* that lack a permission.  So it is with a log-out that is confirmed.
AnswersAreTrue ==
  \A x \in Calls : LET h == http[x] IN Passed(x) =>
    /\ h.token \in Tokens \cup Unissued
    /\ h.token \in Tokens => h.token \in h.alive
    /\ h.token \notin Tokens =>
         \A t \in h.alive \ unsettled : t.sub = h.token.sub => t \notin honoured
    /\ h.op = "call" => (h.answer = "ok") = (h.need \subseteq h.token.perms)

\* Whoever may manage preferences (permissions.go:56) with a token that the service
\* issued has logged in with the address and password of a run of create_super
\* that inserted its row, although the flag is read three times and its first
\* error is ignored (log.go:168).
ManagersWereSuper ==
  \A x \in Calls :
    /\ http[x].op = "call" /\ At(x, "done") /\ http[x].answer = "ok"
    /\ http[x].need \cap PREFERENCE_MANAGER # {} /\ http[x].token \in Tokens
    => \E s \in Requests :
         /\ req[s].op = "create_super"
         /\ req[s].email = http[x].token.sub
         /\ req[s].pass = req[http[x].token.by].pass
         /\ req[s].stage \in {"grant", "out_check", "out", "super_made", "panicked"}

\* Once a log-out is confirmed (log.go:313), no settled token of the client that was
\* in force when it arrived is in force: not the one presented, nor those of other
\* log-ins, whatever log-ins and log-outs run beside it.
LogOutEnds ==
  \A x \in Calls :
    http[x].op = "log_out" /\ At(x, "done") /\ http[x].answer = "ok" =>
      \A t \in http[x].alive \ unsettled :
        t.sub = http[x].token.sub => t \notin honoured
=============================================================================
