-------------------------- MODULE AuthRoutesProofs --------------------------
(***************************************************************************)
(* Proofs about AuthRoutes, for any addresses, requests, configurations    *)
(* and scenes: what the composition of the components of a request         *)
(* promises, and that it leaves Credentials and Sessions their own         *)
(* promises.                                                               *)
(***************************************************************************)
EXTENDS AuthRoutes, TLAPS

\* What is proved of the credentials by themselves.
CredP == INSTANCE CredentialsProofs

-----------------------------------------------------------------------------
(***************************************************************************)
(* The inductive invariant.                                                *)
(***************************************************************************)

CredOps == {"sign_in", "log_in", "create_super"}

\* A request does what its scene says, and is only at the stages of that.
StageFits ==
  /\ \A r \in Requests :
       /\ http[r].op \in CredOps \cup {"absent"}
       /\ req[r].op = IF http[r].op = "absent" THEN "log_in" ELSE http[r].op
  /\ \A x \in Calls : http[x].op \notin CredOps
  /\ \A x \in Served :
       /\ At(x, "origin") => Auth(x) \/ http[x].op = "fortune"
       /\ At(x, "respond") => Auth(x) \/ http[x].op = "fortune"
       /\ At(x, "form") => http[x].op \in {"sign_in", "log_in"}
       /\ At(x, "service") => http[x].op \in CredOps
       /\ At(x, "cookie") => http[x].op = "log_in"
       /\ At(x, "extract") => http[x].op \in {"log_out", "sign_out", "call"}
       /\ At(x, "look") => http[x].op \in {"log_out", "call"}
       /\ At(x, "verdict") => http[x].op = "call"
       /\ At(x, "delete") => http[x].op = "log_out"

\* A request is answered at its end, and not before.
Answered ==
  \A x \in Served :
    /\ http[x].answer # "none" <=> http[x].stage \in {"respond", "done"}
    /\ http[x].stage \in {"idle", "compile"} => http[x].origin = "unread"

\* A request meets what the requests beside it read.
MetIsShared ==
  \A x, y \in Served :
    load[x].stage # "out" /\ load[y].stage # "out" => load[y].mine \subseteq load[x].met

\* What will be assigned was read, and there is a Compile to come while one runs.
GotIsMine ==
  \A x \in Served :
    /\ load[x].stage = "assign" => load[x].got \in load[x].mine
    /\ load[x].stage \in {"schema", "read", "assign", "validate"} =>
         load[x].left \in {1, 2}

\* Who has assigned a configuration, or loaded one, has met the one in force.
LoadedHasMet ==
  \A x \in Served : load[x].stage \in {"validate", "loaded"} => cnf \in load[x].met

\* A token of the service is of the log-in that made it.
TokensMade ==
  \A t \in Tokens :
    /\ t.by \in Requests
    /\ t.sub = req[t.by].email /\ req[t.by].stage = "token"
    /\ t.perms \cap PREFERENCE_MANAGER # {} => req[t.by].ask = "manager"

\* What is presented was not issued by the service, or was in force when the request
\* arrived, or is out of force for good.
PresentedWasMade ==
  \A x \in Served :
    /\ http[x].alive \subseteq Tokens
    /\ http[x].token # NoToken =>
         http[x].token \in Unissued \cup http[x].alive \cup (retired \ unsettled)

\* What the client of the token had in force when the request arrived was retired
\* since, if it has settled.
Gone(x) ==
  \A t \in http[x].alive : t.sub = http[x].token.sub => t \in retired \cup unsettled

\* The token was in force when the request arrived, or nothing of its client is left
\* that was.
Vouched(x) ==
  \/ http[x].token \in http[x].alive
  \/ http[x].token \in Unissued /\ Gone(x)

\* A token is looked at, and gets on only if it is vouched for.
LookedWasAlive ==
  \A x \in Served :
    /\ http[x].stage \in {"look", "verdict", "delete"} => http[x].token # NoToken
    /\ At(x, "verdict") /\ ask[x] \in {"in_force", "unknown"} => Vouched(x)
    /\ At(x, "delete") => Vouched(x)

\* Who has got past the look had a token that is vouched for.
ToldTrue ==
  \A x \in Calls : Passed(x) =>
    /\ Vouched(x)
    /\ http[x].op = "call" =>
         (http[x].answer = "ok") = (http[x].need \subseteq http[x].token.perms)

\* A log-out is confirmed when all tokens of the client have been retired.
OkAfterRetiring ==
  \A x \in Served : http[x].op = "log_out" /\ http[x].answer = "ok" => Gone(x)

IInv ==
  /\ TypeOK /\ StageFits /\ Answered
  /\ MetIsShared /\ GotIsMine /\ LoadedHasMet /\ OriginJudgedByOverlap
  /\ TokensMade /\ PresentedWasMade /\ LookedWasAlive
  /\ ToldTrue /\ OkAfterRetiring

-----------------------------------------------------------------------------
(***************************************************************************)
(* The components keep their own promises.                                 *)
(***************************************************************************)

\* The operations of Credentials are those that were proved about.
LEMMA SameOperation ==
  \A r \in Requests : Creds!Operation(r) <=> CredP!Operation(r)
BY DEF Creds!Operation, CredP!Operation, Creds!SignIn, CredP!SignIn,
       Creds!Exists, CredP!Exists, Creds!Insert, CredP!Insert, Creds!Mail, CredP!Mail,
       Creds!GrantCheck, CredP!GrantCheck, Creds!Grant, CredP!Grant,
       Creds!OutCheck, CredP!OutCheck, Creds!Out, CredP!Out, Creds!LogIn, CredP!LogIn,
       Creds!SuperAccess, CredP!SuperAccess, Creds!SuperFlag, CredP!SuperFlag,
       Creds!Access, CredP!Access, Creds!Flag, CredP!Flag, Creds!Fails, CredP!Fails,
       Creds!Go, CredP!Go, Creds!Failure, CredP!Failure, Creds!Of, CredP!Of,
       Creds!Unique, CredP!Unique, Creds!HasAccess, CredP!HasAccess,
       Creds!NewRow, CredP!NewRow, Creds!Promoted, CredP!Promoted,
       Creds!AskPermissions, CredP!AskPermissions,
       Creds!IsSuperRow, CredP!IsSuperRow, Creds!Cardinality, CredP!Cardinality,
       Creds!IsFiniteSet, CredP!IsFiniteSet

\* They begin as they did.
LEMMA SameInit == Creds!Init <=> CredP!Init
BY DEF Creds!Init, CredP!Init, Creds!Op, CredP!Op, Creds!Ops, CredP!Ops,
       Creds!Stages, CredP!Stages

\* A step is an operation on the credentials, or leaves them alone.
LEMMA CredentialSteps ==
  ASSUME [Next]_vars
  PROVE  \/ \E r \in Requests : Service(r)
         \/ UNCHANGED credVars
BY DEF Next, vars, ChangeFile, TokensEnd, TokensReturn, Arrive, Compile, Compiled,
       NotCompiled, GetConf, Route, CheckOriginHeader, Form, ExtractToken, Look, Verdict,
       Delete, Answer, ServiceEnds, GenToken, SetToken

\* The requests work on the credentials as Credentials says, whatever routes,
\* configurations and tokens do beside them: what is proved there holds here.
THEOREM ImplementsCredentials == Spec => Creds!Spec /\ CredP!Spec
<1>1. Init => Creds!Init /\ CredP!Init
  BY SameInit DEF Init
<1>2. [Next]_vars => [Creds!Next]_(Creds!vars) /\ [CredP!Next]_(CredP!vars)
  <2> SUFFICES ASSUME [Next]_vars
               PROVE  [Creds!Next]_(Creds!vars) /\ [CredP!Next]_(CredP!vars)
    OBVIOUS
  <2>1. CASE \E r \in Requests : Service(r)
    <3>1. PICK r \in Requests : Creds!Operation(r)
      BY <2>1 DEF Service
    <3>2. QED
      BY <3>1, SameOperation DEF Creds!Next, CredP!Next
  <2>2. CASE UNCHANGED credVars
    BY <2>2 DEF Creds!vars, CredP!vars, credVars
  <2>3. QED
    BY <2>1, <2>2, CredentialSteps
<1>3. QED
  BY <1>1, <1>2, PTL DEF Spec, Creds!Spec, CredP!Spec

-----------------------------------------------------------------------------
(***************************************************************************)
(* What a step does to the requests, as their routes see them.             *)
(***************************************************************************)

\* The request x gets these values, and nothing else changes.
Becomes(x, origin, stage, token, need, alive, answer) ==
  /\ http' \in [Served -> Http]
  /\ \A y \in Served \ {x} : http'[y] = http[y]
  /\ http'[x].op = http[x].op
  /\ http'[x].origin = origin /\ http'[x].stage = stage
  /\ http'[x].token = token /\ http'[x].need = need
  /\ http'[x].alive = alive /\ http'[x].answer = answer

\* A new value for one field of the state of a request.
LEMMA FieldTypes ==
  ASSUME NEW e \in Http
  PROVE  /\ \A v \in Stages : [e EXCEPT !.stage = v] \in Http
         /\ \A v \in Hosts \cup {"unparsable", "unread"} : [e EXCEPT !.origin = v] \in Http
         /\ \A v \in Token \cup {NoToken} : [e EXCEPT !.token = v] \in Http
         /\ \A v \in SUBSET Permission : [e EXCEPT !.need = v] \in Http
         /\ \A v \in SUBSET Token : [e EXCEPT !.alive = v] \in Http
         /\ \A v \in Answers : [e EXCEPT !.answer = v] \in Http
<1> DEFINE O == Hosts \cup {"unparsable", "unread"}
           T == Token \cup {NoToken}
           N == SUBSET Permission
           A == SUBSET Token
<1>1. Http = [op: Ops, stage: Stages, origin: O, token: T, need: N, alive: A,
              answer: Answers]
  BY DEF Http
<1> HIDE DEF O, T, N, A
<1>2. \A v \in Stages : [e EXCEPT !.stage = v] \in Http
  BY <1>1
<1>3. \A v \in O : [e EXCEPT !.origin = v] \in Http
  BY <1>1
<1>4. \A v \in T : [e EXCEPT !.token = v] \in Http
  BY <1>1
<1>5. \A v \in N : [e EXCEPT !.need = v] \in Http
  BY <1>1
<1>6. \A v \in A : [e EXCEPT !.alive = v] \in Http
  BY <1>1
<1>7. \A v \in Answers : [e EXCEPT !.answer = v] \in Http
  BY <1>1
<1>8. QED
  BY <1>2, <1>3, <1>4, <1>5, <1>6, <1>7 DEF O, T, N, A

\* An update of the state of one request.
LEMMA EntryBecomes ==
  ASSUME TypeOK, NEW x \in Served, NEW e \in Http, http' = [http EXCEPT ![x] = e],
         e.op = http[x].op
  PROVE  Becomes(x, e.origin, e.stage, e.token, e.need, e.alive, e.answer)
BY DEF TypeOK, Becomes

\* A request moves to a stage.
LEMMA MoveBecomes ==
  ASSUME TypeOK, NEW x \in Served, NEW s \in Stages,
         http' = [http EXCEPT ![x].stage = s]
  PROVE  Becomes(x, http[x].origin, s, http[x].token, http[x].need, http[x].alive,
                 http[x].answer)
<1> DEFINE e == [http[x] EXCEPT !.stage = s]
<1>1. http[x] \in Http
  BY DEF TypeOK
<1>2. e \in Http
  BY <1>1, FieldTypes
<1>3. http' = [http EXCEPT ![x] = e]
  BY DEF TypeOK, Http
<1>4. /\ e.op = http[x].op /\ e.origin = http[x].origin /\ e.stage = s
      /\ e.token = http[x].token /\ e.need = http[x].need /\ e.alive = http[x].alive
      /\ e.answer = http[x].answer
  BY <1>1 DEF Http
<1> HIDE DEF e
<1>5. Becomes(x, e.origin, e.stage, e.token, e.need, e.alive, e.answer)
  BY <1>2, <1>3, <1>4, EntryBecomes
<1>6. QED
  BY <1>4, <1>5

\* A request gets an answer at a stage.
LEMMA RespondBecomes ==
  ASSUME TypeOK, NEW x \in Served, NEW s \in Stages, NEW a \in Answers,
         http' = [http EXCEPT ![x].stage = s, ![x].answer = a]
  PROVE  Becomes(x, http[x].origin, s, http[x].token, http[x].need, http[x].alive, a)
<1> DEFINE e1 == [http[x] EXCEPT !.stage = s]
           e == [e1 EXCEPT !.answer = a]
<1>1. http[x] \in Http
  BY DEF TypeOK
<1>2. http' = [http EXCEPT ![x] = [http[x] EXCEPT !.stage = s, !.answer = a]]
  BY DEF TypeOK, Http
<1>3. http' = [http EXCEPT ![x] = e]
  BY <1>2
<1>4. /\ e.op = http[x].op /\ e.origin = http[x].origin /\ e.stage = s
      /\ e.token = http[x].token /\ e.need = http[x].need /\ e.alive = http[x].alive
      /\ e.answer = a
  BY <1>1 DEF Http
<1>5. e1 \in Http
  BY <1>1, FieldTypes
<1> HIDE DEF e1
<1>6. e \in Http
  BY <1>5, FieldTypes
<1> HIDE DEF e
<1>7. Becomes(x, e.origin, e.stage, e.token, e.need, e.alive, e.answer)
  BY <1>3, <1>4, <1>6, EntryBecomes
<1>8. QED
  BY <1>4, <1>7

\* A request gets an answer at a stage, for its origin.
LEMMA JudgedBecomes ==
  ASSUME TypeOK, NEW x \in Served, NEW s \in Stages, NEW a \in Answers,
         NEW o \in Hosts \cup {"unparsable", "unread"},
         \/ http' = [http EXCEPT ![x].stage = s, ![x].answer = a, ![x].origin = o]
         \/ http' = [http EXCEPT ![x].origin = o, ![x].stage = s, ![x].answer = a]
  PROVE  Becomes(x, o, s, http[x].token, http[x].need, http[x].alive, a)
<1> DEFINE e1 == [http[x] EXCEPT !.stage = s]
           e2 == [e1 EXCEPT !.answer = a]
           e == [e2 EXCEPT !.origin = o]
<1>1. http[x] \in Http
  BY DEF TypeOK
<1>2. [http[x] EXCEPT !.origin = o, !.stage = s, !.answer = a] = e
  BY <1>1 DEF Http
<1>3. http' = [http EXCEPT ![x] = e]
  <2>1. CASE http' = [http EXCEPT ![x].stage = s, ![x].answer = a, ![x].origin = o]
    <3>1. http' = [http EXCEPT ![x] =
                     [http[x] EXCEPT !.stage = s, !.answer = a, !.origin = o]]
      BY <2>1 DEF TypeOK, Http
    <3>2. QED
      BY <3>1
  <2>2. CASE http' = [http EXCEPT ![x].origin = o, ![x].stage = s, ![x].answer = a]
    <3>1. http' = [http EXCEPT ![x] =
                     [http[x] EXCEPT !.origin = o, !.stage = s, !.answer = a]]
      BY <2>2 DEF TypeOK, Http
    <3>2. QED
      BY <1>2, <3>1
  <2>3. QED
    BY <2>1, <2>2
<1>4. /\ e.op = http[x].op /\ e.origin = o /\ e.stage = s
      /\ e.token = http[x].token /\ e.need = http[x].need /\ e.alive = http[x].alive
      /\ e.answer = a
  BY <1>1 DEF Http
<1>5. e1 \in Http
  BY <1>1, FieldTypes
<1> HIDE DEF e1
<1>6. e2 \in Http
  BY <1>5, FieldTypes
<1> HIDE DEF e2
<1>7. e \in Http
  BY <1>6, FieldTypes
<1> HIDE DEF e
<1>8. Becomes(x, e.origin, e.stage, e.token, e.need, e.alive, e.answer)
  BY <1>3, <1>4, <1>7, EntryBecomes
<1>9. QED
  BY <1>4, <1>8

\* A request arrives with a token, asking for permissions.
LEMMA ArriveBecomes ==
  ASSUME TypeOK, NEW x \in Served, NEW s \in Stages, NEW t \in Token \cup {NoToken},
         NEW n \in SUBSET Permission, NEW l \in SUBSET Token,
         http' = [http EXCEPT ![x].stage = s, ![x].token = t, ![x].need = n,
                              ![x].alive = l]
  PROVE  Becomes(x, http[x].origin, s, t, n, l, http[x].answer)
<1> DEFINE e1 == [http[x] EXCEPT !.stage = s]
           e2 == [e1 EXCEPT !.token = t]
           e3 == [e2 EXCEPT !.need = n]
           e == [e3 EXCEPT !.alive = l]
<1>1. http[x] \in Http
  BY DEF TypeOK
<1>2. http' = [http EXCEPT ![x] =
                 [http[x] EXCEPT !.stage = s, !.token = t, !.need = n, !.alive = l]]
  BY DEF TypeOK, Http
<1>3. http' = [http EXCEPT ![x] = e]
  BY <1>2
<1>4. /\ e.op = http[x].op /\ e.origin = http[x].origin /\ e.stage = s
      /\ e.token = t /\ e.need = n /\ e.alive = l /\ e.answer = http[x].answer
  BY <1>1 DEF Http
<1>5. e1 \in Http
  BY <1>1, FieldTypes
<1> HIDE DEF e1
<1>6. e2 \in Http
  BY <1>5, FieldTypes
<1> HIDE DEF e2
<1>7. e3 \in Http
  BY <1>6, FieldTypes
<1> HIDE DEF e3
<1>8. e \in Http
  BY <1>7, FieldTypes
<1> HIDE DEF e
<1>9. Becomes(x, e.origin, e.stage, e.token, e.need, e.alive, e.answer)
  BY <1>3, <1>4, <1>8, EntryBecomes
<1>10. QED
  BY <1>4, <1>9

-----------------------------------------------------------------------------
(***************************************************************************)
(* The kinds of steps.                                                     *)
(***************************************************************************)

\* A request arrives.
Arrives(x) ==
  /\ At(x, "idle") /\ http[x].op # "absent"
  /\ \E t \in {NoToken} \cup IF x \in Calls THEN Tokens \cup Unissued ELSE {},
        n \in SUBSET Permission :
       Becomes(x, http[x].origin, IF Compilations(x) = 0 THEN "route" ELSE "compile",
               t, n, IF x \in Calls THEN honoured \cup unsettled ELSE {},
               http[x].answer)
  /\ Conf!Enter(x, Compilations(x))
  /\ UNCHANGED <<credVars, tokVars, deployment>>

\* Tokens of a client are in force again.
Returns(e) == UNCHANGED unsettled /\ \E T : Tok!Restore(e, T)

\* A component moves, and no route sees it yet.
Stays ==
  /\ UNCHANGED <<http, deployment>>
  /\ \/ (\E r \in Requests : Service(r)) /\ UNCHANGED <<confVars, tokVars>>
     \/ /\ deployment = "serverless" /\ Conf!ChangeFile
        /\ UNCHANGED <<credVars, tokVars>>
     \/ /\ \E x \in Served : At(x, "compile") /\ Conf!Compile(x)
        /\ UNCHANGED <<credVars, tokVars>>
     \/ (\E x \in Served : Conf!GetConfFinds(x)) /\ UNCHANGED <<credVars, tokVars>>
     \/ /\ \E e \in Emails : Retire(e) \/ Returns(e)
        /\ UNCHANGED <<confVars, credVars>>

\* The token of a log-in.
Issues(r) ==
  \E names \in SUBSET Names :
    /\ Asks(r, names)
    /\ Tok!Issue([sub |-> req[r].email, by |-> r, perms |-> Granted(names)])

\* A request goes on to its next stage.
Moves(x) ==
  /\ Becomes(x, http[x].origin, http'[x].stage, http[x].token, http[x].need,
             http[x].alive, http[x].answer)
  /\ Conf!GetConfEnds(x) /\ UNCHANGED <<credVars, deployment>>
  /\ LET Along(from, to) == At(x, from) /\ http'[x].stage = to IN
       \/ Along("compile", "route") /\ UNCHANGED tokVars
       \/ /\ Along("route", "origin") /\ UNCHANGED tokVars
          /\ Auth(x) \/ http[x].op = "fortune"
       \/ Along("route", "extract") /\ http[x].op = "call" /\ UNCHANGED tokVars
       \/ Along("form", "service") /\ UNCHANGED tokVars
       \/ /\ Along("service", "cookie") /\ x \in Requests
          /\ req[x].stage = "token" /\ http[x].op = "log_in" /\ Issues(x)
       \/ /\ Along("extract", "look") /\ http[x].token # NoToken
          /\ http[x].op # "sign_out" /\ UNCHANGED tokVars
       \/ /\ Along("look", "verdict") /\ http[x].op = "call"
          /\ Asked(x)
       \/ /\ Along("look", "delete") /\ http[x].op = "log_out"
          /\ Revocable(http[x].token) /\ UNCHANGED tokVars

\* The Origin is judged.
Judges(x) ==
  /\ At(x, "origin")
  /\ Becomes(x, http'[x].origin, http'[x].stage, http[x].token, http[x].need,
             http[x].alive, http'[x].answer)
  /\ Conf!GetConfEnds(x) /\ UNCHANGED <<credVars, tokVars, deployment>>
  /\ \/ http'[x].origin = "unparsable" /\ http'[x].answer = "forbidden"
     \/ Conf!Admits(cnf, http'[x].origin) <=> http'[x].answer # "forbidden"
  /\ \/ http'[x].stage = "respond" /\ http'[x].answer = "forbidden"
     \/ /\ http'[x].stage = "respond" /\ http'[x].answer = "ok"
        /\ http[x].op = "fortune"
     \/ /\ http'[x].stage = "form" /\ http'[x].answer = "none"
        /\ http[x].op \in {"sign_in", "log_in"}
     \/ /\ http'[x].stage = "extract" /\ http'[x].answer = "none"
        /\ http[x].op \in {"log_out", "sign_out"}

\* A route of the auth service jumps to "respond".
Responds(x) ==
  /\ Auth(x) /\ http[x].stage \in {"form", "service", "cookie", "extract", "look", "delete"}
  /\ http'[x].answer \in {"ok", "bad", "refused", "conflict", "error"}
  /\ Becomes(x, http[x].origin, "respond", http[x].token, http[x].need, http[x].alive,
             http'[x].answer)
  /\ Conf!GetConfEnds(x) /\ UNCHANGED <<credVars, deployment>>
  /\ \/ At(x, "delete") /\ Retire(http[x].token.sub)
     \/ UNCHANGED tokVars /\ (http[x].op = "log_out" => http'[x].answer # "ok")

\* A request is over.
Ends(x) ==
  /\ http'[x].answer \in Answers \ {"none"}
  /\ Becomes(x, "unread", "done", http[x].token, http[x].need, http[x].alive,
             http'[x].answer)
  /\ Conf!Leave(x) /\ UNCHANGED <<credVars, deployment>>
  /\ UNCHANGED tokVars \/ (At(x, "verdict") /\ Tok!Answer(x))
  /\ http[x].op = "call" /\ http'[x].answer \in {"ok", "forbidden"} =>
       /\ At(x, "verdict") /\ ask[x] \in {"in_force", "unknown"}
       /\ http'[x].answer = "ok" <=> http[x].need \subseteq http[x].token.perms
  /\ http[x].op = "log_out" /\ http'[x].answer = "ok" =>
       At(x, "respond") /\ http[x].answer = "ok"

Kind(x) == Arrives(x) \/ Moves(x) \/ Judges(x) \/ Responds(x) \/ Ends(x)

\* Move changes the stage alone.
LEMMA MoveGoes ==
  ASSUME TypeOK, NEW x \in Served, NEW s \in Stages, Move(x, s)
  PROVE  /\ Becomes(x, http[x].origin, s, http[x].token, http[x].need, http[x].alive,
                    http[x].answer)
         /\ http'[x].stage = s /\ Conf!GetConfEnds(x)
BY MoveBecomes DEF Move, Becomes

\* Respond sets the answer.
LEMMA RespondGoes ==
  ASSUME TypeOK, NEW x \in Served, NEW a \in Answers, Respond(x, a)
  PROVE  /\ Becomes(x, http[x].origin, "respond", http[x].token, http[x].need,
                    http[x].alive, a)
         /\ http'[x].answer = a /\ Conf!GetConfEnds(x)
<1>1. "respond" \in Stages
  BY DEF Stages
<1>2. Becomes(x, http[x].origin, "respond", http[x].token, http[x].need, http[x].alive, a)
  BY <1>1, RespondBecomes DEF Respond
<1>3. QED
  BY <1>2 DEF Respond, Becomes

\* End sets the answer and takes the request out of the process.
LEMMA EndGoes ==
  ASSUME TypeOK, NEW x \in Served, NEW a \in Answers, End(x, a)
  PROVE  /\ Becomes(x, "unread", "done", http[x].token, http[x].need, http[x].alive, a)
         /\ http'[x].answer = a /\ Conf!Leave(x)
<1>1. "done" \in Stages
  BY DEF Stages
<1>2. Becomes(x, "unread", "done", http[x].token, http[x].need, http[x].alive, a)
  BY <1>1, JudgedBecomes DEF End
<1>3. QED
  BY <1>2 DEF End, Becomes

\* A token that was not issued is a token.
LEMMA UnissuedTypes == Unissued \subseteq Token
BY NamesAssumption DEF Unissued, Token

\* A request that arrives presents a token that was made, or none.
LEMMA ArriveKind ==
  ASSUME TypeOK, NEW x \in Served, Arrive(x)
  PROVE  Arrives(x)
<1>1. PICK t \in {NoToken} \cup IF x \in Calls THEN Tokens \cup Unissued ELSE {},
           n \in IF http[x].op = "call" THEN Needs ELSE {NIL} :
        http' = [http EXCEPT
          ![x].stage = IF Compilations(x) = 0 THEN "route" ELSE "compile",
          ![x].token = t, ![x].need = n,
          ![x].alive = IF x \in Calls THEN honoured \cup unsettled ELSE {}]
  BY DEF Arrive
<1>2. PICK s \in Stages : s = IF Compilations(x) = 0 THEN "route" ELSE "compile"
  BY DEF Stages
<1>3. PICK l \in SUBSET Token : l = IF x \in Calls THEN honoured \cup unsettled ELSE {}
  BY DEF TypeOK, Tokens
<1>4. n \in SUBSET Permission /\ t \in Token \cup {NoToken}
  BY NamesAssumption, UnissuedTypes DEF NIL, TypeOK, Tokens
<1>5. Becomes(x, http[x].origin, s, t, n, l, http[x].answer)
  BY <1>1, <1>2, <1>3, <1>4, ArriveBecomes
<1>6. QED
  BY <1>2, <1>3, <1>4, <1>5 DEF Arrive, Arrives

\* A request that could not compile goes on if it is a fortune.
LEMMA CompiledKind ==
  ASSUME TypeOK, NEW x \in Served, Compiled(x) \/ NotCompiled(x)
  PROVE  Moves(x) \/ Ends(x)
<1>1. CASE Move(x, "route")
  <2>1. "route" \in Stages
    BY DEF Stages
  <2>2. /\ Becomes(x, http[x].origin, "route", http[x].token, http[x].need,
                   http[x].alive, http[x].answer)
        /\ http'[x].stage = "route" /\ Conf!GetConfEnds(x)
    BY <1>1, <2>1, MoveGoes
  <2>3. At(x, "compile") /\ UNCHANGED <<credVars, tokVars, deployment>>
    BY DEF Compiled, NotCompiled
  <2>4. QED
    BY <2>2, <2>3 DEF Moves
<1>2. CASE NotCompiled(x) /\ ~ Move(x, "route")
  <2>1. PICK a \in Answers : a \in {"error", "panicked"} /\ End(x, a)
    BY <1>2 DEF NotCompiled, Answers
  <2>2. /\ Becomes(x, "unread", "done", http[x].token, http[x].need, http[x].alive, a)
        /\ http'[x].answer = a /\ Conf!Leave(x)
    BY <2>1, EndGoes
  <2>3. QED
    BY <1>2, <2>1, <2>2 DEF NotCompiled, Ends
<1>3. QED
  BY <1>1, <1>2 DEF Compiled

\* The router sends a request on, or it is over.
LEMMA RouteKind ==
  ASSUME TypeOK, NEW x \in Served, Route(x)
  PROVE  Moves(x) \/ Ends(x)
<1>1. At(x, "route") /\ UNCHANGED <<credVars, tokVars, deployment>>
  BY DEF Route
<1>2. CASE Move(x, "origin") /\ (Auth(x) \/ http[x].op = "fortune")
  <2>1. "origin" \in Stages
    BY DEF Stages
  <2>2. /\ Becomes(x, http[x].origin, "origin", http[x].token, http[x].need,
                   http[x].alive, http[x].answer)
        /\ http'[x].stage = "origin" /\ Conf!GetConfEnds(x)
    BY <1>2, <2>1, MoveGoes
  <2>3. QED
    BY <1>1, <1>2, <2>2 DEF Moves
<1>3. CASE Move(x, "extract") /\ http[x].op = "call"
  <2>1. "extract" \in Stages
    BY DEF Stages
  <2>2. /\ Becomes(x, http[x].origin, "extract", http[x].token, http[x].need,
                   http[x].alive, http[x].answer)
        /\ http'[x].stage = "extract" /\ Conf!GetConfEnds(x)
    BY <1>3, <2>1, MoveGoes
  <2>3. QED
    BY <1>1, <1>3, <2>2 DEF Moves
<1>4. CASE \E a \in {"panicked", "not_found"} : End(x, a)
  <2>1. PICK a \in Answers : a \in {"panicked", "not_found"} /\ End(x, a)
    BY <1>4 DEF Answers
  <2>2. /\ Becomes(x, "unread", "done", http[x].token, http[x].need, http[x].alive, a)
        /\ http'[x].answer = a /\ Conf!Leave(x)
    BY <2>1, EndGoes
  <2>3. QED
    BY <1>1, <2>1, <2>2 DEF Ends
<1>5. QED
  BY <1>2, <1>3, <1>4 DEF Route, ConfiguredOften

\* Judged sets the origin, the stage and the answer.
LEMMA JudgedGoes ==
  ASSUME TypeOK, NEW x \in Served, NEW o \in Hosts \cup {"unparsable"},
         NEW s \in Stages, NEW a \in Answers, Judged(x, o, s, a)
  PROVE  /\ Becomes(x, http'[x].origin, http'[x].stage, http[x].token, http[x].need,
                    http[x].alive, http'[x].answer)
         /\ http'[x].origin = o /\ http'[x].stage = s /\ http'[x].answer = a
         /\ Conf!GetConfEnds(x)
<1>1. Becomes(x, o, s, http[x].token, http[x].need, http[x].alive, a)
  BY JudgedBecomes DEF Judged
<1>2. QED
  BY <1>1 DEF Judged, Becomes

\* The Origin is judged by the configuration in force, or a fortune has none.
LEMMA OriginKind ==
  ASSUME TypeOK, StageFits, NEW x \in Served, CheckOriginHeader(x)
  PROVE  Judges(x) \/ Ends(x)
<1>1. At(x, "origin") /\ UNCHANGED <<credVars, tokVars, deployment>>
  BY DEF CheckOriginHeader
<1>2. {"respond", "form", "extract"} \subseteq Stages
      /\ {"forbidden", "ok", "none", "panicked"} \subseteq Answers
  BY DEF Stages, Answers
<1>3. CASE Judged(x, "unparsable", "respond", "forbidden")
  BY <1>1, <1>2, <1>3, JudgedGoes DEF Judges
<1>4. CASE End(x, "panicked")
  BY <1>1, <1>2, <1>4, EndGoes DEF Ends
<1>5. CASE \E o \in Hosts :
             IF ~ Conf!Admits(cnf, o) THEN Judged(x, o, "respond", "forbidden")
             ELSE CASE http[x].op = "fortune" -> Judged(x, o, "respond", "ok")
                    [] http[x].op \in {"sign_in", "log_in"} -> Judged(x, o, "form", "none")
                    [] OTHER -> Judged(x, o, "extract", "none")
  <2>1. PICK o \in Hosts :
          IF ~ Conf!Admits(cnf, o) THEN Judged(x, o, "respond", "forbidden")
          ELSE CASE http[x].op = "fortune" -> Judged(x, o, "respond", "ok")
                 [] http[x].op \in {"sign_in", "log_in"} -> Judged(x, o, "form", "none")
                 [] OTHER -> Judged(x, o, "extract", "none")
    BY <1>5
  <2>2. CASE ~ Conf!Admits(cnf, o)
    <3>1. Judged(x, o, "respond", "forbidden")
      BY <2>1, <2>2
    <3>2. QED
      BY <1>1, <1>2, <1>5, <2>2, <3>1, JudgedGoes DEF Judges
  <2>3. CASE Conf!Admits(cnf, o) /\ http[x].op = "fortune"
    <3>1. Judged(x, o, "respond", "ok")
      BY <2>1, <2>3
    <3>2. QED
      BY <1>1, <1>2, <1>5, <2>3, <3>1, JudgedGoes DEF Judges
  <2>4. CASE Conf!Admits(cnf, o) /\ http[x].op \in {"sign_in", "log_in"}
    <3>1. Judged(x, o, "form", "none")
      BY <2>1, <2>4
    <3>2. QED
      BY <1>1, <1>2, <1>5, <2>4, <3>1, JudgedGoes DEF Judges
  <2>5. CASE Conf!Admits(cnf, o) /\ http[x].op \notin {"fortune", "sign_in", "log_in"}
    <3>1. Judged(x, o, "extract", "none")
      BY <2>1, <2>5
    <3>2. http[x].op \in {"log_out", "sign_out"}
      BY <1>1, <2>5 DEF StageFits, Auth
    <3>3. /\ Becomes(x, http'[x].origin, http'[x].stage, http[x].token, http[x].need,
                     http[x].alive, http'[x].answer)
          /\ http'[x].origin = o /\ http'[x].stage = "extract"
          /\ http'[x].answer = "none" /\ Conf!GetConfEnds(x)
      BY <1>2, <3>1, JudgedGoes
    <3>4. QED
      BY <1>1, <1>5, <2>5, <3>2, <3>3 DEF Judges
  <2>6. QED
    BY <2>2, <2>3, <2>4, <2>5
<1>6. QED
  BY <1>3, <1>4, <1>5 DEF CheckOriginHeader, Configured

\* A route of auth that responds without a look at the tokens.
LEMMA RespondKind ==
  ASSUME TypeOK, NEW x \in Served,
         NEW a \in {"ok", "bad", "refused", "conflict", "error"}, Respond(x, a),
         Auth(x), http[x].op = "log_out" => a # "ok",
         http[x].stage \in {"form", "service", "cookie", "extract", "look", "delete"},
         UNCHANGED <<credVars, tokVars, deployment>>
  PROVE  Responds(x)
<1>1. a \in Answers
  BY DEF Answers
<1>2. /\ Becomes(x, http[x].origin, "respond", http[x].token, http[x].need,
                 http[x].alive, a)
      /\ http'[x].answer = a /\ Conf!GetConfEnds(x)
  BY <1>1, RespondGoes
<1>3. QED
  BY <1>2 DEF Responds

\* A request that ends without a word about its token.
LEMMA EndKind ==
  ASSUME TypeOK, NEW x \in Served, NEW a \in {"bad", "refused", "error", "panicked"},
         End(x, a), UNCHANGED <<credVars, tokVars, deployment>>
  PROVE  Ends(x)
<1>1. a \in Answers \ {"none", "ok", "forbidden"}
  BY DEF Answers
<1>2. /\ Becomes(x, "unread", "done", http[x].token, http[x].need, http[x].alive, a)
      /\ http'[x].answer = a /\ Conf!Leave(x)
  BY <1>1, EndGoes
<1>3. QED
  BY <1>1, <1>2 DEF Ends

\* A form is taken to the service, or turned down.
LEMMA FormKind ==
  ASSUME TypeOK, StageFits, NEW x \in Served, Form(x)
  PROVE  Kind(x)
<1>1. /\ At(x, "form") /\ UNCHANGED <<credVars, tokVars, deployment>>
      /\ http[x].op \in {"sign_in", "log_in"}
  BY DEF Form, StageFits
<1>2. CASE Move(x, "service")
  <2>1. "service" \in Stages
    BY DEF Stages
  <2>2. /\ Becomes(x, http[x].origin, "service", http[x].token, http[x].need,
                   http[x].alive, http[x].answer)
        /\ http'[x].stage = "service" /\ Conf!GetConfEnds(x)
    BY <1>2, <2>1, MoveGoes
  <2>3. QED
    BY <1>1, <2>2 DEF Moves, Kind
<1>3. CASE Respond(x, "bad") \/ Respond(x, "error")
  BY <1>1, <1>3, RespondKind DEF Auth, At, Kind
<1>4. CASE End(x, "panicked")
  BY <1>1, <1>4, EndKind DEF Kind
<1>5. QED
  BY <1>2, <1>3, <1>4 DEF Form, ConfiguredOften

\* The service's error or success is told.
LEMMA ServiceEndsKind ==
  ASSUME TypeOK, StageFits, NEW x \in Requests, ServiceEnds(x)
  PROVE  Kind(x)
<1>1. /\ At(x, "service") /\ UNCHANGED <<credVars, tokVars, deployment>>
      /\ http[x].op \in {"sign_in", "log_in"} /\ x \in Served
  BY DEF ServiceEnds, StageFits, CredOps, Served
<1>2. PICK a \in {"ok", "conflict", "refused", "error"} : Respond(x, a)
  <2>1. Told[req[x].stage] \in {"ok", "conflict", "refused", "error"}
    BY DEF ServiceEnds, Told
  <2>2. QED
    BY <2>1 DEF ServiceEnds
<1>3. QED
  BY <1>1, <1>2, RespondKind DEF Auth, At, Kind

\* A log-in that the credentials granted gets a token, or an error.
LEMMA GenTokenKind ==
  ASSUME TypeOK, StageFits, NEW x \in Requests, GenToken(x),
         req[x].stage = "token" => req[x].op = "log_in"
  PROVE  Kind(x)
<1>1. /\ At(x, "service") /\ UNCHANGED <<credVars, deployment>>
      /\ req[x].stage = "token" /\ http[x].op = "log_in" /\ x \in Served
  BY DEF GenToken, StageFits, CredOps, Served
<1>2. CASE Respond(x, "error") /\ UNCHANGED tokVars
  BY <1>1, <1>2, RespondKind DEF Auth, At, Kind
<1>3. CASE End(x, "panicked") /\ UNCHANGED tokVars
  BY <1>1, <1>3, EndKind DEF Kind
<1>4. CASE /\ \E names \in SUBSET Names :
                /\ Asks(x, names)
                /\ Tok!Issue([sub |-> req[x].email, by |-> x, perms |-> Granted(names)])
           /\ Move(x, "cookie")
  <2>1. "cookie" \in Stages
    BY DEF Stages
  <2>2. /\ Becomes(x, http[x].origin, "cookie", http[x].token, http[x].need,
                   http[x].alive, http[x].answer)
        /\ http'[x].stage = "cookie" /\ Conf!GetConfEnds(x)
    BY <1>1, <1>4, <2>1, MoveGoes
  <2>3. Issues(x)
    BY <1>4 DEF Issues
  <2>4. QED
    BY <1>1, <2>2, <2>3 DEF Moves, Kind
<1>5. QED
  BY <1>2, <1>3, <1>4 DEF GenToken

\* The cookie is set.
LEMMA SetTokenKind ==
  ASSUME TypeOK, StageFits, NEW x \in Requests, SetToken(x)
  PROVE  Kind(x)
<1>1. /\ At(x, "cookie") /\ UNCHANGED <<credVars, tokVars, deployment>>
      /\ http[x].op = "log_in" /\ x \in Served
  BY DEF SetToken, StageFits, Served
<1>2. CASE Respond(x, "ok")
  BY <1>1, <1>2, RespondKind DEF Auth, At, Kind
<1>3. CASE End(x, "panicked")
  BY <1>1, <1>3, EndKind DEF Kind
<1>4. QED
  BY <1>2, <1>3 DEF SetToken, Configured

\* A refusal responds to a log-out and ends the rest.
LEMMA RefuseKind ==
  ASSUME TypeOK, NEW x \in Served, NEW a \in {"bad", "refused", "error"}, Refuse(x, a),
         http[x].op \in {"log_out", "sign_out", "call"},
         http[x].stage \in {"extract", "look"},
         UNCHANGED <<credVars, tokVars, deployment>>
  PROVE  Kind(x)
<1>1. CASE http[x].op = "log_out"
  <2>1. Respond(x, a)
    BY <1>1 DEF Refuse
  <2>2. QED
    BY <1>1, <2>1, RespondKind DEF Auth, Kind
<1>2. CASE http[x].op = "sign_out"
  <2>1. End(x, "panicked")
    BY <1>2 DEF Refuse
  <2>2. QED
    BY <2>1, EndKind DEF Kind
<1>3. CASE http[x].op = "call"
  <2>1. End(x, a)
    BY <1>3 DEF Refuse
  <2>2. QED
    BY <2>1, EndKind DEF Kind
<1>4. QED
  BY <1>1, <1>2, <1>3

\* A token is found and presented, or the request is refused.
LEMMA ExtractKind ==
  ASSUME TypeOK, StageFits, NEW x \in Served, ExtractToken(x)
  PROVE  Kind(x)
<1>1. /\ At(x, "extract") /\ UNCHANGED <<credVars, tokVars, deployment>>
      /\ http[x].op \in {"log_out", "sign_out", "call"}
  BY DEF ExtractToken, StageFits
<1>2. CASE http[x].token # NoToken /\ Present(x)
  <2>1. CASE http[x].op = "sign_out"
    <3>1. Respond(x, "refused")
      BY <1>2, <2>1 DEF Present
    <3>2. QED
      BY <1>1, <2>1, <3>1, RespondKind DEF Auth, At, Kind
  <2>2. CASE http[x].op # "sign_out"
    <3>1. Move(x, "look") /\ "look" \in Stages
      BY <1>2, <2>2 DEF Present, Stages
    <3>2. /\ Becomes(x, http[x].origin, "look", http[x].token, http[x].need,
                     http[x].alive, http[x].answer)
          /\ http'[x].stage = "look" /\ Conf!GetConfEnds(x)
      BY <3>1, MoveGoes
    <3>3. QED
      BY <1>1, <1>2, <2>2, <3>2 DEF Moves, Kind
  <2>3. QED
    BY <2>1, <2>2
<1>3. CASE \E a \in {"bad", "refused"} : Refuse(x, a)
  BY <1>1, <1>3, RefuseKind DEF At
<1>4. CASE End(x, "panicked") \/ End(x, "error")
  BY <1>1, <1>4, EndKind DEF Kind
<1>5. CASE http[x].op = "sign_out" /\ Respond(x, "error")
  BY <1>1, <1>5, RespondKind DEF Auth, At, Kind
<1>6. QED
  BY <1>2, <1>3, <1>4, <1>5
     DEF ExtractToken, Extracted, BadCookie, Configured, ConfiguredOften

\* The store is asked about the token, or that fails.
LEMMA LookKind ==
  ASSUME TypeOK, StageFits, NEW x \in Served, Look(x)
  PROVE  Kind(x)
<1>1. /\ At(x, "look") /\ UNCHANGED <<credVars, deployment>>
      /\ http[x].op \in {"log_out", "call"}
  BY DEF Look, StageFits
<1>2. CASE UNCHANGED tokVars /\ \E a \in {"refused", "error"} : Refuse(x, a)
  BY <1>1, <1>2, RefuseKind DEF At
<1>3. CASE UNCHANGED tokVars /\ End(x, "panicked")
  BY <1>1, <1>3, EndKind DEF Kind
<1>4. {"verdict", "delete"} \subseteq Stages
  BY DEF Stages
<1>5. CASE http[x].op = "call" /\ Asked(x) /\ Move(x, "verdict")
  <2>1. /\ Becomes(x, http[x].origin, "verdict", http[x].token, http[x].need,
                   http[x].alive, http[x].answer)
        /\ http'[x].stage = "verdict" /\ Conf!GetConfEnds(x)
    BY <1>4, <1>5, MoveGoes
  <2>2. QED
    BY <1>1, <1>5, <2>1 DEF Moves, Kind
<1>6. CASE /\ http[x].op = "log_out" /\ Revocable(http[x].token)
           /\ Move(x, "delete") /\ UNCHANGED tokVars
  <2>1. /\ Becomes(x, http[x].origin, "delete", http[x].token, http[x].need,
                   http[x].alive, http[x].answer)
        /\ http'[x].stage = "delete" /\ Conf!GetConfEnds(x)
    BY <1>4, <1>6, MoveGoes
  <2>2. QED
    BY <1>1, <1>6, <2>1 DEF Moves, Kind
<1>7. QED
  BY <1>2, <1>3, <1>5, <1>6 DEF Look

\* The verdict is by what was in force and by what the token permits.
LEMMA VerdictKind ==
  ASSUME TypeOK, StageFits, NEW x \in Served, Verdict(x)
  PROVE  Kind(x)
<1>1. /\ At(x, "verdict") /\ UNCHANGED <<credVars, deployment>>
      /\ http[x].op = "call" /\ Tok!Answer(x) /\ x \in Calls
  BY DEF Verdict, StageFits, CredOps, Served
<1>2. /\ ask'[x] = "accepted" => ask[x] \in {"in_force", "unknown"}
      /\ ask[x] # "out" => ask[x] \in {"in_force", "unknown"}
  BY <1>1 DEF Tok!Answer, TypeOK
<1>3. Allowed(http[x].token.perms, http[x].need) <=> http[x].need \subseteq http[x].token.perms
  BY DEF Allowed
<1>4. {"ok", "forbidden", "refused"} \subseteq Answers
  BY DEF Answers
<1>5. CASE /\ ask[x] \in {"in_force", "unknown"}
           /\ http[x].need \subseteq http[x].token.perms /\ End(x, "ok")
  <2>1. /\ Becomes(x, "unread", "done", http[x].token, http[x].need, http[x].alive, "ok")
        /\ http'[x].answer = "ok" /\ Conf!Leave(x)
    BY <1>4, <1>5, EndGoes
  <2>2. Ends(x)
    BY <1>1, <1>4, <1>5, <2>1 DEF Ends
  <2>3. QED
    BY <2>2 DEF Kind
<1>6. CASE /\ ask[x] \in {"in_force", "unknown"}
           /\ ~ (http[x].need \subseteq http[x].token.perms)
           /\ End(x, "forbidden")
  <2>1. /\ Becomes(x, "unread", "done", http[x].token, http[x].need, http[x].alive,
                   "forbidden")
        /\ http'[x].answer = "forbidden" /\ Conf!Leave(x)
    BY <1>4, <1>6, EndGoes
  <2>2. Ends(x)
    BY <1>1, <1>4, <1>6, <2>1 DEF Ends
  <2>3. QED
    BY <2>2 DEF Kind
<1>7. CASE End(x, "refused")
  <2>1. /\ Becomes(x, "unread", "done", http[x].token, http[x].need, http[x].alive,
                   "refused")
        /\ http'[x].answer = "refused" /\ Conf!Leave(x)
    BY <1>4, <1>7, EndGoes
  <2>2. Ends(x)
    BY <1>1, <1>4, <2>1 DEF Ends
  <2>3. QED
    BY <2>2 DEF Kind
<1>8. QED
  BY <1>2, <1>3, <1>5, <1>6, <1>7 DEF Verdict

\* A log-out is confirmed only when the tokens of the client were retired.
LEMMA DeleteKind ==
  ASSUME TypeOK, StageFits, NEW x \in Served, Delete(x)
  PROVE  Kind(x)
<1>1. /\ At(x, "delete") /\ UNCHANGED <<credVars, deployment>>
      /\ http[x].op = "log_out"
  BY DEF Delete, StageFits
<1>2. CASE Respond(x, "error") /\ UNCHANGED tokVars
  BY <1>1, <1>2, RespondKind DEF Auth, At, Kind
<1>3. CASE /\ Retire(http[x].token.sub)
           /\ Respond(x, "ok") \/ Respond(x, "error")
  <2>1. PICK a \in Answers : a \in {"ok", "error"} /\ Respond(x, a)
    BY <1>3 DEF Answers
  <2>2. /\ Becomes(x, http[x].origin, "respond", http[x].token, http[x].need,
                   http[x].alive, a)
        /\ http'[x].answer = a /\ Conf!GetConfEnds(x)
    BY <2>1, RespondGoes
  <2>3. Responds(x)
    BY <1>1, <1>3, <2>1, <2>2 DEF Responds, Auth, At
  <2>4. QED
    BY <2>3 DEF Kind
<1>4. QED
  BY <1>2, <1>3 DEF Delete

\* A request ends with what it was answered, or the configuration is missing.
LEMMA AnswerKind ==
  ASSUME TypeOK, StageFits, Answered, NEW x \in Served, Answer(x)
  PROVE  Kind(x)
<1>1. /\ At(x, "respond") /\ UNCHANGED <<credVars, tokVars, deployment>>
      /\ http[x].op # "call"
  BY DEF Answer, StageFits, Auth
<1>2. CASE End(x, "panicked")
  BY <1>1, <1>2, EndKind DEF Kind
<1>3. CASE End(x, http[x].answer)
  <2>1. PICK a \in Answers : a = http[x].answer
    BY DEF TypeOK, Http
  <2>2. a # "none"
    BY <1>1, <2>1 DEF Answered, At
  <2>3. /\ Becomes(x, "unread", "done", http[x].token, http[x].need, http[x].alive, a)
        /\ http'[x].answer = a /\ Conf!Leave(x)
    BY <1>3, <2>1, EndGoes
  <2>4. Ends(x)
    BY <1>1, <2>1, <2>2, <2>3 DEF Ends
  <2>5. QED
    BY <2>4 DEF Kind
<1>4. QED
  BY <1>2, <1>3 DEF Answer, Configured, ConfiguredOften

\* Only a log-in is given a token.
TokensAreOfLogIns ==
  \A r \in Requests : req[r].stage = "token" => req[r].op = "log_in"

\* A step of the specification is of one of the kinds, or no route sees it.
LEMMA NextKinds ==
  ASSUME TypeOK, StageFits, Answered, TokensAreOfLogIns, Next
  PROVE  Stays \/ \E x \in Served : Kind(x)
<1>1. CASE ChangeFile
  BY <1>1 DEF ChangeFile, Stays
<1>2. CASE \E e \in Emails : TokensEnd(e) \/ TokensReturn(e)
  BY <1>2 DEF TokensEnd, TokensReturn, Returns, Stays
<1>3. ASSUME NEW x \in Served, Arrive(x)
      PROVE  Kind(x)
  BY <1>3, ArriveKind DEF Kind
<1>4. CASE \E x \in Served : Compile(x) \/ GetConf(x)
  BY <1>4 DEF Compile, GetConf, Stays
<1>5. ASSUME NEW x \in Served, Compiled(x) \/ NotCompiled(x)
      PROVE  Kind(x)
  BY <1>5, CompiledKind DEF Kind
<1>6. ASSUME NEW x \in Served, Route(x) \/ CheckOriginHeader(x)
      PROVE  Kind(x)
  BY <1>6, RouteKind, OriginKind DEF Kind
<1>7. ASSUME NEW x \in Served, Form(x) \/ ExtractToken(x) \/ Look(x) \/ Verdict(x)
                                 \/ Delete(x) \/ Answer(x)
      PROVE  Kind(x)
  BY <1>7, FormKind, ExtractKind, LookKind, VerdictKind, DeleteKind, AnswerKind
<1>8. CASE \E r \in Requests : Service(r)
  BY <1>8 DEF Service, Stays
<1>9. ASSUME NEW r \in Requests, ServiceEnds(r) \/ GenToken(r) \/ SetToken(r)
      PROVE  r \in Served /\ Kind(r)
  <2>1. r \in Served
    BY DEF Served
  <2>2. QED
    BY <1>9, <2>1, ServiceEndsKind, GenTokenKind, SetTokenKind DEF TokensAreOfLogIns
<1>10. QED
  BY <1>1, <1>2, <1>3, <1>4, <1>5, <1>6, <1>7, <1>8, <1>9 DEF Next

-----------------------------------------------------------------------------
(***************************************************************************)
(* What a step does to the configuration.                                  *)
(***************************************************************************)

\* The requests but x load as they did.
OthersLoad(x) ==
  /\ load' \in [Served -> Conf!Load]
  /\ \A y \in Served \ {x} : load'[y] = load[y]

\* A request enters.
Enters(x) ==
  /\ OthersLoad(x) /\ UNCHANGED <<file, cnf, sch, found, mishaps>>
  /\ load[x].stage = "out"
  /\ load'[x].left = Compilations(x) /\ load'[x].mine = {}
  /\ load'[x].stage = IF Compilations(x) = 0 THEN "loaded" ELSE "schema"
  /\ \A y \in Served : load[y].stage # "out" => load[y].mine \subseteq load'[x].met
  /\ Compilations(x) = 0 => cnf \in load'[x].met

\* A request has the schema.
HasSchema(x) ==
  /\ OthersLoad(x) /\ UNCHANGED <<file, cnf, found>>
  /\ sch' \in BOOLEAN /\ mishaps' \in 0..MaxMishaps
  /\ load[x].stage = "schema" /\ load'[x].stage \in {"read", "failed"}
  /\ load'[x].left = load[x].left /\ load'[x].mine = load[x].mine
  /\ load'[x].met = load[x].met

\* A request has read c.
HasRead(x, c) ==
  /\ load' \in [Served -> Conf!Load]
  /\ UNCHANGED <<file, cnf, sch, found>> /\ mishaps' \in 0..MaxMishaps
  /\ load[x].stage = "read" /\ load'[x].stage = "assign"
  /\ load'[x].left = load[x].left /\ load'[x].got = c
  /\ load'[x].mine = load[x].mine \cup {c} /\ load'[x].met = load[x].met \cup {c}
  /\ \A y \in Served \ {x} :
       /\ load'[y].stage = load[y].stage /\ load'[y].left = load[y].left
       /\ load'[y].got = load[y].got /\ load'[y].mine = load[y].mine
       /\ load[y].met \subseteq load'[y].met
       /\ load[y].stage # "out" => c \in load'[y].met

\* A request has assigned what it read.
HasAssigned(x) ==
  /\ OthersLoad(x) /\ UNCHANGED <<file, sch, found, mishaps>>
  /\ load[x].stage = "assign" /\ cnf' = load[x].got
  /\ load'[x].stage \in {"failed", "validate"} /\ load'[x].left = load[x].left
  /\ load'[x].mine = load[x].mine /\ load'[x].met = load[x].met

\* A request has validated what is there.
HasValidated(x) ==
  /\ OthersLoad(x) /\ UNCHANGED <<file, cnf, sch, found, mishaps>>
  /\ load[x].stage = "validate"
  /\ load'[x].mine = load[x].mine /\ load'[x].met = load[x].met
  /\ \/ load'[x].stage \in {"failed", "crashed", "loaded"}
     \/ /\ load'[x].stage = "schema" /\ load'[x].left = load[x].left - 1
        /\ load[x].left > 1

\* A request leaves.
Leaves(x) ==
  /\ OthersLoad(x) /\ UNCHANGED <<file, cnf, sch, mishaps>>
  /\ found' \in SUBSET Served
  /\ load'[x].stage = "out"

\* Someone changes the file.
FileChanges ==
  /\ UNCHANGED <<cnf, sch, found, load>>
  /\ file' \in Configs \cup {NoConfig} /\ mishaps' \in 0..MaxMishaps

\* A request reads the configuration.
ReadsIt == UNCHANGED <<file, cnf, sch, load, mishaps>> /\ found' \in SUBSET Served

\* Enter makes an entry of its own for the request.
LEMMA EnterEnters ==
  ASSUME TypeOK, NEW x \in Served, Conf!Enter(x, Compilations(x))
  PROVE  Enters(x)
<1>1. Compilations(x) \in 0..2
  BY DEF Compilations
<1> DEFINE stage == IF Compilations(x) = 0 THEN "loaded" ELSE "schema"
           met == (UNION {load[y].mine : y \in Conf!Inside}) \cup
                  (IF Compilations(x) = 0 THEN {cnf} ELSE {})
           e == [stage |-> stage, left |-> Compilations(x), got |-> NoConfig,
                 mine |-> {}, met |-> met]
<1>2. load' = [load EXCEPT ![x] = e]
  BY DEF Conf!Enter
<1>3. met \in SUBSET (Configs \cup {NoConfig})
  <2>1. \A y \in Served : load[y].mine \subseteq Configs \cup {NoConfig}
    BY DEF TypeOK, Conf!TypeOK, Conf!Load
  <2>2. Conf!Inside \subseteq Served
    BY DEF Conf!Inside
  <2>3. cnf \in Configs \cup {NoConfig}
    BY DEF TypeOK, Conf!TypeOK
  <2>4. QED
    BY <2>1, <2>2, <2>3
<1>4. \A y \in Served : load[y].stage # "out" => load[y].mine \subseteq met
  BY DEF Conf!Inside
<1>5. Compilations(x) = 0 => cnf \in met
  OBVIOUS
<1> HIDE DEF met
<1>6. e \in Conf!Load
  BY <1>1, <1>3 DEF Conf!Load
<1>7. load' \in [Served -> Conf!Load] /\ load'[x] = e
  BY <1>2, <1>6 DEF TypeOK, Conf!TypeOK
<1>8. \A y \in Served \ {x} : load'[y] = load[y]
  BY <1>2 DEF TypeOK, Conf!TypeOK
<1>9. QED
  BY <1>4, <1>5, <1>7, <1>8 DEF Enters, OthersLoad, Conf!Enter

\* A request without a configuration of its own leaves.
LEMMA LeaveLeaves ==
  ASSUME TypeOK, NEW x \in Served, Conf!Leave(x)
  PROVE  Leaves(x)
<1>1. Conf!Out \in Conf!Load /\ Conf!Out.stage = "out"
  BY DEF Conf!Out, Conf!Load
<1>2. found' \in SUBSET Served
  BY DEF Conf!Leave, TypeOK, Conf!TypeOK
<1>3. QED
  BY <1>1, <1>2 DEF Conf!Leave, Leaves, OthersLoad, TypeOK, Conf!TypeOK

\* One more mishap is within the bound.
LEMMA MishapBound ==
  ASSUME TypeOK, Conf!Mishap \/ UNCHANGED mishaps
  PROVE  mishaps' \in 0..MaxMishaps
BY NamesAssumption DEF TypeOK, Conf!TypeOK, Conf!Mishap

\* The schema is compiled, or not.
LEMMA SchemaHasSchema ==
  ASSUME TypeOK, NEW x \in Served, Conf!CompileSchema(x)
  PROVE  HasSchema(x)
<1>1. PICK s \in {"read", "failed"} : load' = [load EXCEPT ![x].stage = s]
  BY DEF Conf!CompileSchema
<1>2. sch' \in BOOLEAN /\ mishaps' \in 0..MaxMishaps
  BY MishapBound DEF Conf!CompileSchema
<1>3. load \in [Served -> Conf!Load]
  BY DEF TypeOK, Conf!TypeOK
<1>4. load' \in [Served -> Conf!Load]
  BY <1>1, <1>3 DEF Conf!Load
<1>5. /\ load[x].stage = "schema" /\ load'[x] = [load[x] EXCEPT !.stage = s]
      /\ \A y \in Served \ {x} : load'[y] = load[y]
      /\ UNCHANGED <<file, cnf, found>>
  BY <1>1, <1>3 DEF Conf!CompileSchema
<1>6. OthersLoad(x)
  BY <1>4, <1>5 DEF OthersLoad
<1>7. load[x] \in Conf!Load
  BY <1>3
<1>8. QED
  BY <1>2, <1>5, <1>6, <1>7 DEF HasSchema, Conf!Load

\* The file is read, or cannot be.
LEMMA ReadHasRead ==
  ASSUME TypeOK, NEW x \in Served, Conf!ReadConf(x)
  PROVE  \E c \in Configs \cup {NoConfig} : HasRead(x, c)
<1>1. PICK c \in {file, NoConfig} :
        /\ IF c = file THEN UNCHANGED mishaps ELSE Conf!Mishap
        /\ load' = [y \in Served |->
             IF y = x THEN [load[x] EXCEPT !.stage = "assign", !.got = c,
                              !.mine = @ \cup {c}, !.met = @ \cup {c}]
             ELSE IF y \in Conf!Inside THEN [load[y] EXCEPT !.met = @ \cup {c}]
             ELSE load[y]]
  BY DEF Conf!ReadConf
<1>2. c \in Configs \cup {NoConfig}
  BY DEF TypeOK, Conf!TypeOK
<1>3. mishaps' \in 0..MaxMishaps
  BY <1>1, MishapBound
<1>4. \A y \in Served : load[y] \in Conf!Load
  BY DEF TypeOK, Conf!TypeOK
<1>5. load'[x] = [load[x] EXCEPT !.stage = "assign", !.got = c,
                    !.mine = load[x].mine \cup {c}, !.met = load[x].met \cup {c}]
  BY <1>1
<1>6. /\ load'[x] \in Conf!Load /\ load'[x].stage = "assign"
      /\ load'[x].left = load[x].left /\ load'[x].got = c
      /\ load'[x].mine = load[x].mine \cup {c} /\ load'[x].met = load[x].met \cup {c}
  <2> DEFINE mine == load[x].mine \cup {c}
             met == load[x].met \cup {c}
  <2>1. load[x] \in Conf!Load
    BY <1>4
  <2>2. mine \in SUBSET (Configs \cup {NoConfig}) /\ met \in SUBSET (Configs \cup {NoConfig})
    BY <1>2, <2>1 DEF Conf!Load
  <2>3. load'[x] = [load[x] EXCEPT !.stage = "assign", !.got = c, !.mine = mine, !.met = met]
    BY <1>5
  <2> HIDE DEF mine, met
  <2>4. /\ load'[x] \in Conf!Load /\ load'[x].stage = "assign"
        /\ load'[x].left = load[x].left /\ load'[x].got = c
        /\ load'[x].mine = mine /\ load'[x].met = met
    BY <1>2, <2>1, <2>2, <2>3 DEF Conf!Load
  <2>5. QED
    BY <2>4 DEF mine, met
<1>7. ASSUME NEW y \in Served \ {x}
      PROVE  /\ load'[y] \in Conf!Load
             /\ load'[y].stage = load[y].stage /\ load'[y].left = load[y].left
             /\ load'[y].got = load[y].got /\ load'[y].mine = load[y].mine
             /\ load[y].met \subseteq load'[y].met
             /\ load[y].stage # "out" => c \in load'[y].met
  <2>1. CASE y \in Conf!Inside
    <3>1. load'[y] = [load[y] EXCEPT !.met = load[y].met \cup {c}]
      BY <1>1, <2>1
    <3>2. QED
      BY <1>2, <1>4, <3>1 DEF Conf!Load
  <2>2. CASE y \notin Conf!Inside
    <3>1. load'[y] = load[y]
      BY <1>1, <2>2
    <3>2. QED
      BY <1>4, <2>2, <3>1 DEF Conf!Inside
  <2>3. QED
    BY <2>1, <2>2
<1>8. load' \in [Served -> Conf!Load]
  <2>1. load' = [y \in Served |-> load'[y]]
    BY <1>1
  <2>2. QED
    BY <1>6, <1>7, <2>1
<1>9. QED
  <2>1. UNCHANGED <<file, cnf, sch, found>> /\ load[x].stage = "read"
    BY DEF Conf!ReadConf
  <2>2. HasRead(x, c)
    BY <1>3, <1>6, <1>7, <1>8, <2>1 DEF HasRead
  <2>3. QED
    BY <1>2, <2>2

\* What was read is assigned.
LEMMA AssignHasAssigned ==
  ASSUME TypeOK, NEW x \in Served, Conf!Assign(x)
  PROVE  HasAssigned(x)
<1>1. PICK s \in {"failed", "validate"} : load' = [load EXCEPT ![x].stage = s]
  BY DEF Conf!Assign, Conf!Assigned
<1>2. load \in [Served -> Conf!Load]
  BY DEF TypeOK, Conf!TypeOK
<1>3. load' \in [Served -> Conf!Load]
  BY <1>1, <1>2 DEF Conf!Load
<1>4. /\ load[x].stage = "assign" /\ load'[x] = [load[x] EXCEPT !.stage = s]
      /\ \A y \in Served \ {x} : load'[y] = load[y]
      /\ cnf' = load[x].got /\ UNCHANGED <<file, sch, found, mishaps>>
  BY <1>1, <1>2 DEF Conf!Assign
<1>5. OthersLoad(x)
  BY <1>3, <1>4 DEF OthersLoad
<1>6. load[x] \in Conf!Load
  BY <1>2
<1>7. QED
  BY <1>4, <1>5, <1>6 DEF HasAssigned, Conf!Load

\* What is there is valid and the request goes on, or it is not.
LEMMA ValidateHasValidated ==
  ASSUME TypeOK, GotIsMine, NEW x \in Served, Conf!Validate(x)
  PROVE  HasValidated(x)
<1>1. load[x] \in Conf!Load /\ load[x].left \in {1, 2} /\ load[x].stage = "validate"
  BY DEF TypeOK, Conf!TypeOK, GotIsMine, Conf!Validate
<1>2. load \in [Served -> Conf!Load]
  BY DEF TypeOK, Conf!TypeOK
<1>3. UNCHANGED <<file, cnf, sch, found, mishaps>>
  BY DEF Conf!Validate
<1>4. CASE \E s \in {"crashed", "failed"} : load' = [load EXCEPT ![x].stage = s]
  <2>1. PICK s \in {"crashed", "failed"} : load' = [load EXCEPT ![x].stage = s]
    BY <1>4
  <2>2. load' \in [Served -> Conf!Load]
    BY <1>2, <2>1 DEF Conf!Load
  <2>3. /\ load'[x] = [load[x] EXCEPT !.stage = s]
        /\ \A y \in Served \ {x} : load'[y] = load[y]
    BY <1>2, <2>1
  <2>4. OthersLoad(x)
    BY <2>2, <2>3 DEF OthersLoad
  <2>5. QED
    BY <1>1, <1>3, <2>3, <2>4 DEF HasValidated, Conf!Load
<1>5. CASE load' = [load EXCEPT
               ![x].stage = IF load[x].left > 1 THEN "schema" ELSE "loaded",
               ![x].left = @ - 1]
  <2> DEFINE stage == IF load[x].left > 1 THEN "schema" ELSE "loaded"
             left == load[x].left - 1
             e == [load[x] EXCEPT !.stage = stage, !.left = left]
  <2>1. load' = [load EXCEPT ![x] = e]
    BY <1>2, <1>5
  <2>2. left \in 0..2 /\ stage \in {"schema", "loaded"}
    BY <1>1
  <2>3. stage = "schema" => load[x].left > 1 /\ left = load[x].left - 1
    OBVIOUS
  <2> HIDE DEF stage, left
  <2>4. /\ e \in Conf!Load /\ e.stage = stage /\ e.left = left
        /\ e.mine = load[x].mine /\ e.met = load[x].met
    BY <1>1, <2>2 DEF Conf!Load
  <2> HIDE DEF e
  <2>5. OthersLoad(x) /\ load'[x] = e
    BY <1>2, <2>1, <2>4 DEF OthersLoad
  <2>6. QED
    BY <1>1, <1>3, <2>2, <2>3, <2>4, <2>5 DEF HasValidated
<1>6. QED
  BY <1>4, <1>5 DEF Conf!Validate

\* The steps of one Compile.
CompilesOn(x) ==
  /\ At(x, "compile")
  /\ \/ HasSchema(x)
     \/ \E c \in Configs \cup {NoConfig} : HasRead(x, c)
     \/ HasAssigned(x)
     \/ HasValidated(x)

\* Whatever happens to the configuration.
ConfStep ==
  /\ UNCHANGED deployment
  /\ \/ UNCHANGED confVars \/ ReadsIt
     \/ FileChanges
     \/ \E x \in Served : Enters(x) \/ CompilesOn(x) \/ Leaves(x)

\* A step that no route sees may be one of a Compile.
LEMMA StaysConf ==
  ASSUME TypeOK, GotIsMine, Stays
  PROVE  /\ UNCHANGED deployment
         /\ \/ UNCHANGED confVars \/ ReadsIt \/ FileChanges
            \/ \E x \in Served : CompilesOn(x)
<1>1. CASE Conf!ChangeFile
  <2>1. mishaps' \in 0..MaxMishaps
    BY <1>1, MishapBound DEF Conf!ChangeFile
  <2>2. QED
    BY <1>1, <2>1 DEF Conf!ChangeFile, FileChanges, Stays
<1>2. ASSUME NEW x \in Served, At(x, "compile"), Conf!Compile(x)
      PROVE  CompilesOn(x)
  BY <1>2, SchemaHasSchema, ReadHasRead, AssignHasAssigned, ValidateHasValidated
     DEF Conf!Compile, CompilesOn
<1>3. ASSUME NEW x \in Served, Conf!GetConfFinds(x)
      PROVE  ReadsIt
  BY <1>3 DEF Conf!GetConfFinds, ReadsIt, TypeOK, Conf!TypeOK
<1>4. QED
  BY <1>1, <1>2, <1>3 DEF Stays

\* A request enters when it arrives and leaves when it ends.
LEMMA KindConf ==
  ASSUME TypeOK, NEW x \in Served, Kind(x)
  PROVE  /\ UNCHANGED deployment
         /\ \/ ReadsIt /\ ~ At(x, "idle")
            \/ Enters(x) /\ Arrives(x)
            \/ Leaves(x) /\ Ends(x)
<1>1. CASE Arrives(x)
  BY <1>1, EnterEnters DEF Arrives
<1>2. CASE Ends(x)
  BY <1>2, LeaveLeaves DEF Ends
<1>3. CASE Moves(x) \/ Judges(x) \/ Responds(x)
  <2>1. Conf!GetConfEnds(x) /\ UNCHANGED deployment /\ ~ At(x, "idle")
    BY <1>3 DEF Moves, Judges, Responds, At
  <2>2. ReadsIt
    BY <2>1 DEF Conf!GetConfEnds, ReadsIt, TypeOK, Conf!TypeOK
  <2>3. QED
    BY <2>1, <2>2
<1>4. QED
  BY <1>1, <1>2, <1>3 DEF Kind

\* Every step is one of these.
LEMMA StepConf ==
  ASSUME TypeOK, GotIsMine, Stays \/ \E x \in Served : Kind(x)
  PROVE  ConfStep
<1>1. CASE Stays
  BY <1>1, StaysConf DEF ConfStep
<1>2. CASE \E x \in Served : Kind(x)
  BY <1>2, KindConf DEF ConfStep
<1>3. QED
  BY <1>1, <1>2

\* The configuration keeps its types.
LEMMA KeptConfTypes ==
  ASSUME TypeOK, ConfStep
  PROVE  Conf!TypeOK'
<1>1. \A x \in Served : load[x].got \in Configs \cup {NoConfig}
  BY DEF TypeOK, Conf!TypeOK, Conf!Load
<1>2. CASE UNCHANGED confVars \/ ReadsIt
  BY <1>2 DEF TypeOK, Conf!TypeOK, confVars, ReadsIt
<1>3. CASE FileChanges
  BY <1>3 DEF TypeOK, Conf!TypeOK, FileChanges
<1>4. ASSUME NEW x \in Served, Enters(x) \/ CompilesOn(x) \/ Leaves(x)
      PROVE  Conf!TypeOK'
  <2>1. CASE HasAssigned(x)
    BY <1>1, <2>1 DEF TypeOK, Conf!TypeOK, HasAssigned, OthersLoad
  <2>2. CASE ~ HasAssigned(x)
    <3>1. /\ load' \in [Served -> Conf!Load] /\ UNCHANGED <<file, cnf>>
          /\ sch' \in BOOLEAN /\ found' \in SUBSET Served
          /\ mishaps' \in 0..MaxMishaps
      BY <1>4, <2>2 DEF TypeOK, Conf!TypeOK, Enters, CompilesOn, HasSchema, HasRead,
                        HasValidated, Leaves, OthersLoad
    <3>2. QED
      BY <3>1 DEF TypeOK, Conf!TypeOK
  <2>3. QED
    BY <2>1, <2>2
<1>5. QED
  BY <1>2, <1>3, <1>4 DEF ConfStep

\* A request that enters meets what is read beside it, and what is read is met by
\* all that are in the process.
LEMMA KeptMetIsShared ==
  ASSUME TypeOK, MetIsShared, ConfStep
  PROVE  MetIsShared'
<1>1. CASE UNCHANGED confVars \/ ReadsIt \/ FileChanges
  BY <1>1 DEF MetIsShared, confVars, ReadsIt, FileChanges
<1>2. ASSUME NEW x \in Served, Enters(x)
      PROVE  MetIsShared'
  BY <1>2 DEF MetIsShared, Enters, OthersLoad
<1>3. ASSUME NEW x \in Served, HasSchema(x) \/ HasAssigned(x) \/ HasValidated(x)
      PROVE  MetIsShared'
  BY <1>3 DEF MetIsShared, HasSchema, HasAssigned, HasValidated, OthersLoad
<1>4. ASSUME NEW x \in Served, NEW c, HasRead(x, c)
      PROVE  MetIsShared'
  <2> SUFFICES ASSUME NEW y \in Served, NEW z \in Served,
                      load'[y].stage # "out", load'[z].stage # "out"
               PROVE  load'[z].mine \subseteq load'[y].met
    BY DEF MetIsShared
  <2>1. load[y].stage # "out" /\ load[z].stage # "out"
    BY <1>4 DEF HasRead
  <2>2. load[z].mine \subseteq load[y].met
    BY <2>1 DEF MetIsShared
  <2>3. load[y].met \cup {c} \subseteq load'[y].met
    BY <1>4, <2>1 DEF HasRead
  <2>4. load'[z].mine \subseteq load[z].mine \cup {c}
    BY <1>4 DEF HasRead
  <2>5. QED
    BY <2>2, <2>3, <2>4
<1>5. ASSUME NEW x \in Served, Leaves(x)
      PROVE  MetIsShared'
  BY <1>5 DEF MetIsShared, Leaves, OthersLoad
<1>6. QED
  BY <1>1, <1>2, <1>3, <1>4, <1>5 DEF ConfStep, CompilesOn

\* What was read is the request's own.
LEMMA KeptGotIsMine ==
  ASSUME TypeOK, GotIsMine, ConfStep
  PROVE  GotIsMine'
<1>1. CASE UNCHANGED confVars \/ ReadsIt \/ FileChanges
  BY <1>1 DEF GotIsMine, confVars, ReadsIt, FileChanges
<1>2. ASSUME NEW x \in Served, Enters(x)
      PROVE  GotIsMine'
  <2>1. Compilations(x) \in {0, 1, 2}
    BY DEF Compilations
  <2>2. QED
    BY <1>2, <2>1 DEF GotIsMine, Enters, OthersLoad
<1>3. ASSUME NEW x \in Served, HasSchema(x)
      PROVE  GotIsMine'
  BY <1>3 DEF GotIsMine, HasSchema, OthersLoad
<1>4. ASSUME NEW x \in Served, NEW c, HasRead(x, c)
      PROVE  GotIsMine'
  BY <1>4 DEF GotIsMine, HasRead
<1>5. ASSUME NEW x \in Served, HasAssigned(x) \/ HasValidated(x)
      PROVE  GotIsMine'
  BY <1>5 DEF GotIsMine, HasAssigned, HasValidated, OthersLoad
<1>6. ASSUME NEW x \in Served, Leaves(x)
      PROVE  GotIsMine'
  BY <1>6 DEF GotIsMine, Leaves, OthersLoad
<1>7. QED
  BY <1>1, <1>2, <1>3, <1>4, <1>5, <1>6 DEF ConfStep, CompilesOn

\* A configuration that is assigned was met by all who are in the process.
LEMMA KeptLoadedHasMet ==
  ASSUME TypeOK, MetIsShared, GotIsMine, LoadedHasMet, ConfStep
  PROVE  LoadedHasMet'
<1>1. CASE UNCHANGED confVars \/ ReadsIt \/ FileChanges
  BY <1>1 DEF LoadedHasMet, confVars, ReadsIt, FileChanges
<1>2. ASSUME NEW x \in Served, Enters(x)
      PROVE  LoadedHasMet'
  BY <1>2 DEF LoadedHasMet, Enters, OthersLoad
<1>3. ASSUME NEW x \in Served, HasSchema(x) \/ HasValidated(x)
      PROVE  LoadedHasMet'
  BY <1>3 DEF LoadedHasMet, HasSchema, HasValidated, OthersLoad
<1>4. ASSUME NEW x \in Served, NEW c, HasRead(x, c)
      PROVE  LoadedHasMet'
  BY <1>4 DEF LoadedHasMet, HasRead
<1>5. ASSUME NEW x \in Served, HasAssigned(x)
      PROVE  LoadedHasMet'
  <2>1. \A y \in Served : load[y].stage # "out" => load[x].got \in load[y].met
    BY <1>5 DEF MetIsShared, GotIsMine, HasAssigned
  <2>2. \A y \in Served : load'[y].met = load[y].met
    BY <1>5 DEF HasAssigned, OthersLoad
  <2>3. \A y \in Served : load'[y].stage # "out" => load[y].stage # "out"
    BY <1>5 DEF HasAssigned, OthersLoad
  <2>4. cnf' = load[x].got
    BY <1>5 DEF HasAssigned
  <2>5. QED
    BY <2>1, <2>2, <2>3, <2>4 DEF LoadedHasMet
<1>6. ASSUME NEW x \in Served, Leaves(x)
      PROVE  LoadedHasMet'
  BY <1>6 DEF LoadedHasMet, Leaves, OthersLoad
<1>7. QED
  BY <1>1, <1>2, <1>3, <1>4, <1>5, <1>6 DEF ConfStep, CompilesOn

-----------------------------------------------------------------------------
(***************************************************************************)
(* What a step does to the tokens.                                         *)
(***************************************************************************)

\* Each name stands for permissions there are, and no name that anyone may ask for
\* stands for one of a preference manager.
LEMMA NamesMean ==
  /\ \A n \in GetPermissionsList(TRUE) : Meaning(n) \subseteq Permission
  /\ \A n \in GetPermissionsList(FALSE) : Meaning(n) \cap PREFERENCE_MANAGER = {}
<1>1. DOMAIN Permissions =
        {"create_bloq", "update_bloq", "delete_bloq", "create_offer", "update_offer",
         "delete_offer", "create_order", "delete_order", "create_profile",
         "read_profile", "update_profile", "delete_profile", "default"}
  BY DEF Permissions
<1>2. DOMAIN SuperPermissions =
        {"create_preference", "update_preference", "delete_preference"}
  BY DEF SuperPermissions
<1>3. \A n \in DOMAIN Permissions :
        /\ Permissions[n] \subseteq Permission
        /\ Permissions[n] \cap PREFERENCE_MANAGER = {}
  BY <1>1 DEF Permissions, Permission, DEFAULT_PERMISSIONS, PREFERENCE_MANAGER
<1>4. \A n \in DOMAIN SuperPermissions : SuperPermissions[n] \subseteq Permission
  BY <1>2 DEF SuperPermissions, Permission, PREFERENCE_MANAGER
<1>5. DOMAIN Permissions \cap DOMAIN SuperPermissions = {}
  BY <1>1, <1>2
<1>6. QED
  BY <1>3, <1>4, <1>5 DEF GetPermissionsList, Meaning

\* What is granted are permissions, and those of a manager only if one of the
\* names is of a super user.
LEMMA GrantedPermissions ==
  ASSUME NEW names \in SUBSET Names
  PROVE  /\ Granted(names) \subseteq Permission
         /\ names \subseteq GetPermissionsList(FALSE) =>
              Granted(names) \cap PREFERENCE_MANAGER = {}
<1>1. names \subseteq GetPermissionsList(TRUE)
  BY NamesAssumption
<1>2. CASE names = {}
  BY <1>2 DEF Granted, Permission, DEFAULT_PERMISSIONS, PREFERENCE_MANAGER
<1>3. CASE names # {}
  <2>1. Granted(names) = UNION {Meaning(n) : n \in names}
    BY <1>3 DEF Granted
  <2>2. QED
    BY <1>1, <2>1, NamesMean
<1>4. QED
  BY <1>2, <1>3

\* Whatever happens to the tokens.
TokenStep ==
  \/ UNCHANGED tokVars
  \/ \E r \in Requests : Issues(r) /\ req[r].stage = "token" /\ UNCHANGED credVars
  \/ \E e \in Emails : Retire(e) \/ Returns(e)
  \/ \E x \in Calls : (http[x].token \in Token /\ Asked(x)) \/ Tok!Answer(x)

\* Every step is one of these.
LEMMA StepTokens ==
  ASSUME TypeOK, StageFits, LookedWasAlive, Stays \/ \E x \in Served : Kind(x)
  PROVE  TokenStep
<1>1. CASE Stays
  BY <1>1 DEF Stays, TokenStep
<1>2. ASSUME NEW x \in Served, Kind(x)
      PROVE  TokenStep
  <2>1. http[x].op = "call" => x \in Calls
    BY DEF StageFits, CredOps, Served
  <2>2. CASE Arrives(x) \/ Judges(x)
    BY <2>2 DEF Arrives, Judges, TokenStep
  <2>3. CASE Moves(x)
    <3>1. At(x, "look") => http[x].token \in Token
      BY DEF LookedWasAlive, TypeOK, Http, At
    <3>2. QED
      BY <2>1, <2>3, <3>1 DEF Moves, TokenStep
  <2>4. CASE Responds(x)
    <3>1. CASE At(x, "delete") /\ Retire(http[x].token.sub)
      <4>1. http[x].token \in Token
        BY <3>1 DEF LookedWasAlive, TypeOK, Http, At
      <4>2. PICK e \in Emails : e = http[x].token.sub
        BY <4>1 DEF Token
      <4>3. QED
        BY <3>1, <4>2 DEF TokenStep
    <3>2. QED
      BY <2>4, <3>1 DEF Responds, TokenStep
  <2>5. CASE Ends(x)
    <3>1. At(x, "verdict") => x \in Calls
      BY <2>1 DEF StageFits
    <3>2. QED
      BY <2>5, <3>1 DEF Ends, TokenStep
  <2>6. QED
    BY <1>2, <2>2, <2>3, <2>4, <2>5 DEF Kind
<1>3. QED
  BY <1>1, <1>2

\* A token that is issued is of the log-in, and of a manager only if that asked as
\* one.
LEMMA IssuedToken ==
  ASSUME TypeOK, NEW r \in Requests, NEW names \in SUBSET Names, Asks(r, names),
         NEW t, t = [sub |-> req[r].email, by |-> r, perms |-> Granted(names)]
  PROVE  /\ t \in Token /\ t.sub = req[r].email /\ t.by = r
         /\ t.perms \cap PREFERENCE_MANAGER # {} => req[r].ask = "manager"
<1>1. req[r].email \in Emails
  BY DEF TypeOK, Creds!TypeOK, Creds!Op
<1>2. Granted(names) \in SUBSET Permission
  BY GrantedPermissions
<1>3. t \in Token
  BY <1>1, <1>2 DEF Token
<1>4. QED
  BY <1>3, GrantedPermissions DEF Asks

ASKED == {"none", "in_force", "unknown", "out", "accepted", "refused"}

\* Tokens are made and retired, and come back only while they are unsettled.
LEMMA TokensStay ==
  ASSUME TypeOK, TokenStep
  PROVE  /\ honoured' \subseteq Token /\ retired' \subseteq Token
         /\ honoured' \cap retired' = {} /\ unsettled' \subseteq Tokens'
         /\ ask' \in [Calls -> ASKED]
         /\ retired \ unsettled \subseteq retired' \ unsettled'
         /\ retired \cup unsettled \subseteq retired' \cup unsettled'
         /\ Tokens \subseteq Tokens'
<1> DEFINE Stay ==
      /\ honoured' \subseteq Token /\ retired' \subseteq Token
      /\ honoured' \cap retired' = {} /\ unsettled' \subseteq honoured' \cup retired'
      /\ retired \ unsettled \subseteq retired' \ unsettled'
      /\ retired \cup unsettled \subseteq retired' \cup unsettled'
      /\ honoured \cup retired \subseteq honoured' \cup retired'
<1>1. /\ honoured \subseteq Token /\ retired \subseteq Token /\ honoured \cap retired = {}
      /\ unsettled \subseteq honoured \cup retired /\ ask \in [Calls -> ASKED]
  BY DEF TypeOK, Tokens, ASKED
<1>2. CASE UNCHANGED tokVars
  BY <1>1, <1>2 DEF tokVars, Tokens
<1>3. ASSUME NEW r \in Requests, Issues(r)
      PROVE  Stay /\ UNCHANGED ask
  <2>1. PICK names \in SUBSET Names :
          /\ Asks(r, names)
          /\ Tok!Issue([sub |-> req[r].email, by |-> r, perms |-> Granted(names)])
    BY <1>3 DEF Issues
  <2>2. PICK t : t = [sub |-> req[r].email, by |-> r, perms |-> Granted(names)]
    OBVIOUS
  <2>3. t \in Token /\ Tok!Issue(t)
    BY <2>1, <2>2, IssuedToken
  <2>4. QED
    BY <1>1, <2>3 DEF Tok!Issue
<1>4. ASSUME NEW e \in Emails, Retire(e)
      PROVE  Stay /\ UNCHANGED ask
  BY <1>1, <1>4 DEF Retire, Tok!Retire
<1>5. ASSUME NEW e \in Emails, Returns(e)
      PROVE  Stay /\ UNCHANGED ask
  <2>1. PICK T : Tok!Restore(e, T)
    BY <1>5 DEF Returns
  <2>2. T \subseteq retired \cap unsettled /\ Tok!Of(e, honoured) \subseteq honoured
    BY <2>1 DEF Tok!Restore, Tok!Of
  <2>3. /\ honoured' = (honoured \ Tok!Of(e, honoured)) \cup T
        /\ retired' = (retired \ T) \cup Tok!Of(e, honoured)
        /\ UNCHANGED <<unsettled, ask>>
    BY <1>5, <2>1 DEF Returns, Tok!Restore
  <2>4. QED
    BY <1>1, <2>2, <2>3
<1>6. ASSUME NEW x \in Calls, Asked(x) \/ Tok!Answer(x)
      PROVE  /\ ask' \in [Calls -> ASKED]
             /\ UNCHANGED <<honoured, retired, unsettled>>
  <2>1. UNCHANGED <<honoured, retired, unsettled>>
    BY <1>6 DEF Asked, Tok!Ask, Tok!AskUnissued, Tok!Answer
  <2>2. PICK a \in ASKED : ask' = [ask EXCEPT ![x] = a]
    BY <1>6 DEF Asked, Tok!Ask, Tok!AskUnissued, Tok!Answer, ASKED
  <2>3. QED
    BY <1>1, <2>1, <2>2
<1>7. QED
  BY <1>1, <1>2, <1>3, <1>4, <1>5, <1>6 DEF TokenStep, Tokens

\* A token that was not issued is none of those of the service.
LEMMA UnissuedApart ==
  ASSUME TokensMade
  PROVE  Unissued \cap Tokens = {}
BY NamesAssumption DEF TokensMade, Unissued

\* A token stays vouched for.
LEMMA VouchedStays ==
  ASSUME TypeOK, TokenStep, NEW x, http'[x].token = http[x].token,
         http'[x].alive = http[x].alive
  PROVE  /\ Gone(x) => Gone(x)'
         /\ Vouched(x) => Vouched(x)'
<1>1. retired \cup unsettled \subseteq retired' \cup unsettled'
  BY TokensStay
<1>2. Gone(x) => Gone(x)'
  BY <1>1 DEF Gone
<1>3. QED
  BY <1>2 DEF Vouched, Unissued

-----------------------------------------------------------------------------
(***************************************************************************)
(* What a step does to the credentials.                                    *)
(***************************************************************************)

\* What an operation asks for stays, and a log-in with a token has come to its end.
CredStep ==
  /\ Creds!TypeOK'
  /\ \A r \in Requests :
       /\ req'[r].op = req[r].op /\ req'[r].ask = req[r].ask
       /\ req'[r].email = req[r].email /\ req'[r].pass = req[r].pass
       /\ req[r].stage = "token" => req'[r].stage = "token"

\* A log-in with a token has no operation left.
LEMMA TokenIsLast ==
  ASSUME NEW r \in Requests, CredP!Operation(r)
  PROVE  req[r].stage # "token"
BY DEF CredP!Operation, CredP!SignIn, CredP!Exists, CredP!Insert, CredP!Mail,
       CredP!GrantCheck, CredP!Grant, CredP!OutCheck, CredP!Out, CredP!LogIn,
       CredP!SuperAccess, CredP!SuperFlag, CredP!Access, CredP!Flag, CredP!Fails, CredP!Go

\* The types of the credentials are those that were proved.
LEMMA SameTypes == Creds!TypeOK <=> CredP!TypeOK
BY DEF Creds!TypeOK, CredP!TypeOK, Creds!Row, CredP!Row, Creds!Op, CredP!Op,
       Creds!Ops, CredP!Ops, Creds!Stages, CredP!Stages

\* An operation is a step of Credentials, and so are the steps of others.
LEMMA StepCredentials ==
  ASSUME CredP!IInv, [Next]_vars
  PROVE  CredStep
<1>1. CredP!TypeOK /\ CredP!StageFits
  BY DEF CredP!IInv
<1>2. ASSUME NEW r \in Requests, Service(r)
      PROVE  CredStep
  <2>1. CredP!Operation(r)
    BY <1>2, SameOperation DEF Service
  <2>2. CredP!Kind(r)
    BY <1>1, <2>1, CredP!Kinds DEF CredP!Kind
  <2>3. CredP!TypeOK'
    BY <1>1, <2>2, CredP!TypeKept
  <2>4. CredP!Frame(r)
    BY <2>2 DEF CredP!Kind, CredP!Quiet, CredP!LogInStep, CredP!Inserts, CredP!Promotes,
                CredP!Removes
  <2>5. req[r].stage # "token"
    BY <2>1, TokenIsLast
  <2>6. Creds!TypeOK'
    BY <2>3 DEF Creds!TypeOK, CredP!TypeOK, Creds!Row, CredP!Row, Creds!Op, CredP!Op,
                Creds!Ops, CredP!Ops, Creds!Stages, CredP!Stages
  <2>7. QED
    BY <2>4, <2>5, <2>6 DEF CredStep, CredP!Frame
<1>3. CASE UNCHANGED credVars
  <2>1. Creds!TypeOK
    BY <1>1, SameTypes
  <2>2. QED
    BY <1>3, <2>1 DEF credVars, CredStep, Creds!TypeOK
<1>4. QED
  BY <1>2, <1>3, CredentialSteps

-----------------------------------------------------------------------------
(***************************************************************************)
(* What a step keeps of the requests.                                      *)
(***************************************************************************)

\* The requests but x are as they were, and x does what it did.
LEMMA KindFrame ==
  ASSUME TypeOK, NEW x \in Served, Kind(x)
  PROVE  /\ http' \in [Served -> Http]
         /\ \A y \in Served \ {x} : http'[y] = http[y]
         /\ http'[x].op = http[x].op
BY DEF Kind, Arrives, Moves, Judges, Responds, Ends, Becomes

\* A request that gets on stays within the stages of its operation.
LEMMA KeptStages ==
  ASSUME TypeOK, StageFits, NEW x \in Served, Kind(x)
  PROVE  /\ http'[x].stage = "origin" => Auth(x) \/ http[x].op = "fortune"
         /\ http'[x].stage = "respond" => Auth(x) \/ http[x].op = "fortune"
         /\ http'[x].stage = "form" => http[x].op \in {"sign_in", "log_in"}
         /\ http'[x].stage = "service" => http[x].op \in CredOps
         /\ http'[x].stage = "cookie" => http[x].op = "log_in"
         /\ http'[x].stage = "extract" => http[x].op \in {"log_out", "sign_out", "call"}
         /\ http'[x].stage = "look" => http[x].op \in {"log_out", "call"}
         /\ http'[x].stage = "verdict" => http[x].op = "call"
         /\ http'[x].stage = "delete" => http[x].op = "log_out"
<1>1. CASE Arrives(x)
  BY <1>1 DEF Arrives, Becomes
<1>2. CASE Moves(x)
  <2>1. /\ At(x, "form") => http[x].op \in {"sign_in", "log_in"}
        /\ At(x, "extract") => http[x].op \in {"log_out", "sign_out", "call"}
    BY DEF StageFits
  <2>2. QED
    BY <1>2, <2>1 DEF Moves, CredOps, At
<1>3. CASE Judges(x)
  <2>1. Auth(x) \/ http[x].op = "fortune"
    BY <1>3 DEF Judges, StageFits
  <2>2. QED
    BY <1>3, <2>1 DEF Judges
<1>4. CASE Responds(x)
  BY <1>4 DEF Responds, Becomes
<1>5. CASE Ends(x)
  BY <1>5 DEF Ends, Becomes
<1>6. QED
  BY <1>1, <1>2, <1>3, <1>4, <1>5 DEF Kind

\* Requests stay within the stages of their operations.
LEMMA KeptStageFits ==
  ASSUME TypeOK, StageFits, CredStep, Stays \/ \E x \in Served : Kind(x)
  PROVE  StageFits'
<1>1. \A r \in Requests : req'[r].op = req[r].op
  BY DEF CredStep
<1>2. CASE Stays
  BY <1>1, <1>2 DEF Stays, StageFits, At, Auth
<1>3. ASSUME NEW x \in Served, Kind(x)
      PROVE  StageFits'
  <2>1. \A y \in Served : http'[y].op = http[y].op
    BY <1>3, KindFrame
  <2>2. \A y \in Served \ {x} : http'[y] = http[y]
    BY <1>3, KindFrame
  <2>3. Requests \subseteq Served /\ Calls \subseteq Served
    BY DEF Served
  <2>4. /\ \A r \in Requests :
             /\ http'[r].op \in CredOps \cup {"absent"}
             /\ req'[r].op = IF http'[r].op = "absent" THEN "log_in" ELSE http'[r].op
        /\ \A y \in Calls : http'[y].op \notin CredOps
    BY <1>1, <2>1, <2>3 DEF StageFits
  <2> DEFINE Fits(y) ==
         /\ http'[y].stage = "origin" => Auth(y)' \/ http'[y].op = "fortune"
         /\ http'[y].stage = "respond" => Auth(y)' \/ http'[y].op = "fortune"
         /\ http'[y].stage = "form" => http'[y].op \in {"sign_in", "log_in"}
         /\ http'[y].stage = "service" => http'[y].op \in CredOps
         /\ http'[y].stage = "cookie" => http'[y].op = "log_in"
         /\ http'[y].stage = "extract" => http'[y].op \in {"log_out", "sign_out", "call"}
         /\ http'[y].stage = "look" => http'[y].op \in {"log_out", "call"}
         /\ http'[y].stage = "verdict" => http'[y].op = "call"
         /\ http'[y].stage = "delete" => http'[y].op = "log_out"
  <2>5. Fits(x)
    BY <1>3, <2>1, KeptStages DEF Auth
  <2>6. \A y \in Served \ {x} : Fits(y)
    BY <2>2 DEF StageFits, At, Auth
  <2>7. \A y \in Served : Fits(y)
    BY <2>5, <2>6
  <2>8. QED
    BY <2>4, <2>7 DEF StageFits, At
<1>4. QED
  BY <1>2, <1>3

\* A request is answered when it responds or ends, and keeps that answer.
LEMMA KeptAnswered ==
  ASSUME TypeOK, Answered, Stays \/ \E x \in Served : Kind(x)
  PROVE  Answered'
<1>1. CASE Stays
  BY <1>1 DEF Stays, Answered
<1>2. ASSUME NEW x \in Served, Kind(x)
      PROVE  Answered'
  <2> DEFINE Fits(y) ==
         /\ http'[y].answer # "none" <=> http'[y].stage \in {"respond", "done"}
         /\ http'[y].stage \in {"idle", "compile"} => http'[y].origin = "unread"
  <2>1. \A y \in Served \ {x} : Fits(y)
    BY <1>2, KindFrame DEF Answered
  <2>2. /\ http[x].answer # "none" <=> http[x].stage \in {"respond", "done"}
        /\ http[x].stage \in {"idle", "compile"} => http[x].origin = "unread"
    BY DEF Answered
  <2>3. Fits(x)
    <3>1. CASE Arrives(x)
      BY <2>2, <3>1 DEF Arrives, Becomes, At
    <3>2. CASE Moves(x)
      BY <2>2, <3>2 DEF Moves, Becomes, At
    <3>3. CASE Judges(x)
      BY <2>2, <3>3 DEF Judges, Becomes
    <3>4. CASE Responds(x)
      BY <2>2, <3>4 DEF Responds, Becomes
    <3>5. CASE Ends(x)
      BY <2>2, <3>5 DEF Ends, Becomes
    <3>6. QED
      BY <1>2, <3>1, <3>2, <3>3, <3>4, <3>5 DEF Kind
  <2>4. QED
    BY <2>1, <2>3 DEF Answered
<1>3. QED
  BY <1>1, <1>2

\* The configuration that judged an Origin stays among those that were met.
LEMMA KeptOriginJudged ==
  ASSUME TypeOK, Answered, GotIsMine, LoadedHasMet, OriginJudgedByOverlap,
         Stays \/ \E x \in Served : Kind(x)
  PROVE  OriginJudgedByOverlap'
<1> DEFINE ByMet(y) ==
      \E c \in load'[y].met :
        Conf!Admits(c, http'[y].origin) = (http'[y].answer # "forbidden")
    Fits(y) == /\ http'[y].origin # "unread" /\ http'[y].stage # "done"
               /\ load'[y].stage = "loaded"
               => ByMet(y)
<1>1. ASSUME NEW y \in Served, http'[y] = http[y], load[y].met \subseteq load'[y].met,
             load'[y].stage = "loaded" => load[y].stage = "loaded"
      PROVE  Fits(y)
  BY <1>1 DEF OriginJudgedByOverlap, At
<1>2. CASE Stays
  <2>1. http' = http
    BY <1>2 DEF Stays
  <2>2. CASE UNCHANGED confVars \/ ReadsIt \/ FileChanges
    <3>1. load' = load
      BY <2>2 DEF confVars, ReadsIt, FileChanges
    <3>2. QED
      BY <1>1, <2>1, <3>1 DEF OriginJudgedByOverlap, At
  <2>3. ASSUME NEW x \in Served, CompilesOn(x)
        PROVE  \A y \in Served : Fits(y)
    <3>1. http'[x].origin = "unread"
      BY <2>1, <2>3 DEF CompilesOn, Answered, At
    <3>2. \A y \in Served \ {x} : /\ load[y].met \subseteq load'[y].met
                                  /\ load'[y].stage = load[y].stage
      BY <2>3 DEF CompilesOn, HasSchema, HasRead, HasAssigned, HasValidated, OthersLoad
    <3>3. QED
      BY <1>1, <2>1, <3>1, <3>2
  <2>4. QED
    BY <1>2, <2>2, <2>3, StaysConf DEF OriginJudgedByOverlap, At
<1>3. ASSUME NEW x \in Served, Kind(x)
      PROVE  OriginJudgedByOverlap'
  <2>1. \A y \in Served \ {x} : http'[y] = http[y] /\ load'[y] = load[y]
    BY <1>3, KindFrame, KindConf DEF Enters, Leaves, OthersLoad, ReadsIt
  <2>2. Fits(x)
    <3>1. CASE Arrives(x)
      BY <3>1 DEF Arrives, Becomes, Answered, At
    <3>2. CASE Moves(x)
      <4>1. /\ http'[x].origin = http[x].origin /\ http'[x].answer = http[x].answer
            /\ http[x].stage # "done" /\ load' = load
        BY <3>2 DEF Moves, Becomes, At, Conf!GetConfEnds
      <4>2. QED
        BY <4>1 DEF OriginJudgedByOverlap, At
    <3>3. CASE Judges(x)
      <4>1. load' = load
        BY <3>3 DEF Judges, Conf!GetConfEnds
      <4>2. CASE Conf!Admits(cnf, http'[x].origin) <=> http'[x].answer # "forbidden"
        <5>1. Conf!Admits(cnf, http'[x].origin) \in BOOLEAN
          BY DEF Conf!Admits
        <5>2. QED
          BY <4>1, <4>2, <5>1 DEF LoadedHasMet
      <4>3. CASE http'[x].origin = "unparsable" /\ http'[x].answer = "forbidden"
        <5>1. \A c : Conf!Admits(c, "unparsable") = FALSE
          BY NamesAssumption DEF Conf!Admits
        <5>2. QED
          BY <4>1, <4>3, <5>1 DEF LoadedHasMet
      <4>4. QED
        BY <3>3, <4>2, <4>3 DEF Judges
    <3>4. CASE Responds(x)
      <4>1. /\ http'[x].origin = http[x].origin /\ http'[x].answer # "forbidden"
            /\ http[x].stage \notin {"respond", "done"} /\ load' = load
        BY <3>4 DEF Responds, Becomes, Conf!GetConfEnds
      <4>2. http[x].answer = "none"
        BY <4>1 DEF Answered
      <4>3. QED
        BY <4>1, <4>2 DEF OriginJudgedByOverlap, At
    <3>5. CASE Ends(x)
      BY <3>5 DEF Ends, Becomes
    <3>6. QED
      BY <1>3, <3>1, <3>2, <3>3, <3>4, <3>5 DEF Kind
  <2>3. \A y \in Served : Fits(y)
    BY <1>1, <2>1, <2>2
  <2>4. QED
    BY <2>3 DEF OriginJudgedByOverlap, At
<1>4. QED
  BY <1>2, <1>3

\* The types.
LEMMA KeptTypes ==
  ASSUME TypeOK, Answered', GotIsMine, CredStep, TokenStep,
         Stays \/ \E x \in Served : Kind(x)
  PROVE  TypeOK'
<1>1. Creds!TypeOK'
  BY DEF CredStep
<1>2. ConfStep
  BY StepConf
<1>3. Conf!TypeOK'
  BY <1>2, KeptConfTypes
<1>4. /\ honoured' \subseteq Token /\ retired' \subseteq Token
      /\ honoured' \cap retired' = {} /\ unsettled' \subseteq Tokens'
      /\ ask' \in [Calls -> {"none", "in_force", "unknown", "out", "accepted", "refused"}]
  BY TokensStay DEF ASKED
<1>5. http' \in [Served -> Http]
  BY KindFrame DEF Stays, TypeOK
<1>6. deployment' \in {"server", "serverless"}
  BY <1>2 DEF ConfStep, TypeOK
<1>7. \A x \in Served : http'[x].stage = "done" => http'[x].answer # "none"
  BY DEF Answered
<1>8. QED
  BY <1>1, <1>3, <1>4, <1>5, <1>6, <1>7 DEF TypeOK, At

\* A token is of the log-in that made it, and that log-in stays as it was.
LEMMA KeptTokensMade ==
  ASSUME TypeOK, TokensMade, CredStep, TokenStep
  PROVE  TokensMade'
<1> DEFINE Made(t) == /\ t.by \in Requests
                      /\ t.sub = req'[t.by].email /\ req'[t.by].stage = "token"
                      /\ t.perms \cap PREFERENCE_MANAGER # {} => req'[t.by].ask = "manager"
<1>1. \A t \in Tokens : Made(t)
  BY DEF TokensMade, CredStep
<1>2. CASE Tokens' = Tokens
  BY <1>1, <1>2 DEF TokensMade
<1>3. ASSUME NEW r \in Requests, Issues(r), req[r].stage = "token", UNCHANGED credVars
      PROVE  TokensMade'
  <2>1. PICK names \in SUBSET Names :
          /\ Asks(r, names)
          /\ Tok!Issue([sub |-> req[r].email, by |-> r, perms |-> Granted(names)])
    BY <1>3 DEF Issues
  <2>2. PICK t : t = [sub |-> req[r].email, by |-> r, perms |-> Granted(names)]
    OBVIOUS
  <2>3. /\ t.sub = req[r].email /\ t.by = r
        /\ t.perms \cap PREFERENCE_MANAGER # {} => req[r].ask = "manager"
    BY <2>1, <2>2, IssuedToken
  <2>4. Tokens' = Tokens \cup {t}
    BY <2>1, <2>2 DEF Tok!Issue, Tokens
  <2>5. Made(t)
    BY <1>3, <2>3 DEF credVars
  <2>6. QED
    BY <1>1, <2>4, <2>5 DEF TokensMade
<1>4. ASSUME NEW e \in Emails, Retire(e) \/ Returns(e)
      PROVE  TokensMade'
  <2>1. Tok!Of(e, honoured) \subseteq honoured /\ Tok!Of(e, retired \cap unsettled) \subseteq retired
    BY DEF Tok!Of
  <2>2. Tokens' = Tokens
    <3>1. CASE Retire(e)
      BY <3>1 DEF Retire, Tok!Retire, Tokens
    <3>2. ASSUME NEW T, Tok!Restore(e, T)
          PROVE  Tokens' = Tokens
      BY <2>1, <3>2 DEF Tok!Restore, Tokens
    <3>3. QED
      BY <1>4, <3>1, <3>2 DEF Returns
  <2>3. QED
    BY <1>2, <2>2
<1>5. CASE UNCHANGED tokVars \/ \E x \in Calls : Asked(x) \/ Tok!Answer(x)
  <2>1. Tokens' = Tokens
    BY <1>5 DEF Asked, Tok!Ask, Tok!AskUnissued, Tok!Answer, Tokens, tokVars
  <2>2. QED
    BY <1>2, <2>1
<1>6. QED
  BY <1>3, <1>4, <1>5 DEF TokenStep

\* What a request presents was made before it arrived, or not by the service.
LEMMA KeptPresented ==
  ASSUME TypeOK, PresentedWasMade, TokenStep, Stays \/ \E x \in Served : Kind(x)
  PROVE  PresentedWasMade'
<1> DEFINE Made(y) ==
      /\ http'[y].alive \subseteq Tokens'
      /\ http'[y].token # NoToken =>
           http'[y].token \in Unissued \cup http'[y].alive \cup (retired' \ unsettled')
<1>1. retired \ unsettled \subseteq retired' \ unsettled' /\ Tokens \subseteq Tokens'
  BY TokensStay
<1>2. ASSUME NEW y \in Served,
             http'[y].token = http[y].token /\ http'[y].alive = http[y].alive
      PROVE  Made(y)
  BY <1>1, <1>2 DEF PresentedWasMade
<1>3. CASE Stays
  BY <1>2, <1>3 DEF Stays, PresentedWasMade, Unissued
<1>4. ASSUME NEW x \in Served, Kind(x)
      PROVE  PresentedWasMade'
  <2>1. Made(x)
    <3>1. CASE Arrives(x)
      <4>1. UNCHANGED tokVars
        BY <3>1 DEF Arrives
      <4>2. /\ http'[x].alive = IF x \in Calls THEN honoured \cup unsettled ELSE {}
            /\ http'[x].token \in
                 {NoToken} \cup IF x \in Calls THEN Tokens \cup Unissued ELSE {}
        BY <3>1 DEF Arrives, Becomes
      <4>3. unsettled \subseteq Tokens
        BY DEF TypeOK
      <4>4. QED
        BY <4>1, <4>2, <4>3 DEF tokVars, Tokens
    <3>2. CASE Moves(x) \/ Judges(x) \/ Responds(x) \/ Ends(x)
      BY <1>2, <3>2 DEF Moves, Judges, Responds, Ends, Becomes
    <3>3. QED
      BY <1>4, <3>1, <3>2 DEF Kind
  <2>2. \A y \in Served \ {x} : http'[y] = http[y]
    BY <1>4, KindFrame
  <2>3. \A y \in Served : Made(y)
    BY <1>2, <2>1, <2>2
  <2>4. QED
    BY <2>3 DEF PresentedWasMade, Unissued
<1>5. QED
  BY <1>3, <1>4

\* What a step does to the verification of a request: only its own does.
LEMMA AskFrame ==
  ASSUME TypeOK, NEW x \in Served, Kind(x)
  PROVE  \A y \in Calls \ {x} : ask'[y] = ask[y]
<1>1. CASE Arrives(x) \/ Judges(x)
  BY <1>1 DEF Arrives, Judges, tokVars
<1>2. CASE Moves(x)
  BY <1>2 DEF Moves, tokVars, Issues, Tok!Issue, Asked, Tok!Ask, Tok!AskUnissued, TypeOK
<1>3. CASE Responds(x)
  BY <1>3 DEF Responds, tokVars, Retire, Tok!Retire
<1>4. CASE Ends(x)
  BY <1>4 DEF Ends, tokVars, Tok!Answer, TypeOK
<1>5. QED
  BY <1>1, <1>2, <1>3, <1>4 DEF Kind

\* A token in force when it is looked at was so when the request arrived; and when its
\* client has none in force then, those it had are retired.
LEMMA KeptLooked ==
  ASSUME TypeOK, StageFits, TokensMade, PresentedWasMade, LookedWasAlive, TokenStep,
         Stays \/ \E x \in Served : Kind(x)
  PROVE  LookedWasAlive'
<1> DEFINE Fits(y) ==
      /\ http'[y].stage \in {"look", "verdict", "delete"} => http'[y].token # NoToken
      /\ http'[y].stage = "verdict" /\ ask'[y] \in {"in_force", "unknown"} => Vouched(y)'
      /\ http'[y].stage = "delete" => Vouched(y)'
<1>1. ASSUME NEW y \in Served, http'[y] = http[y], y \in Calls => ask'[y] = ask[y]
      PROVE  Fits(y)
  <2>1. http[y].stage = "verdict" => y \in Calls
    BY DEF StageFits, CredOps, Served, At
  <2>2. Vouched(y) => Vouched(y)'
    BY <1>1, VouchedStays
  <2>3. QED
    BY <1>1, <2>1, <2>2 DEF LookedWasAlive, At
<1>2. CASE Stays
  <2>1. http' = http /\ ask' = ask
    BY <1>2 DEF Stays, tokVars, Retire, Tok!Retire, Returns, Tok!Restore
  <2>2. \A y \in Served : Fits(y)
    BY <1>1, <2>1
  <2>3. QED
    BY <2>2 DEF LookedWasAlive, At
<1>3. ASSUME NEW x \in Served, Kind(x)
      PROVE  LookedWasAlive'
  <2>1. Fits(x)
    <3>1. CASE Arrives(x)
      BY <3>1 DEF Arrives, Becomes
    <3>2. CASE Moves(x)
      <4>1. http'[x].token = http[x].token /\ http'[x].alive = http[x].alive
        BY <3>2 DEF Moves, Becomes
      <4>2. Vouched(x) => Vouched(x)'
        BY <4>1, VouchedStays
      <4>3. CASE http'[x].stage = "look"
        BY <3>2, <4>1, <4>3 DEF Moves
      <4>4. CASE http'[x].stage \in {"verdict", "delete"}
        <5>1. At(x, "look") /\ http[x].token # NoToken
          BY <3>2, <4>4 DEF Moves, LookedWasAlive, At
        <5>2. /\ http[x].token \in Unissued \cup http[x].alive \cup (retired \ unsettled)
              /\ http[x].alive \subseteq honoured \cup retired
              /\ honoured \cap retired = {} /\ Unissued \cap (honoured \cup retired) = {}
          BY <5>1, UnissuedApart DEF PresentedWasMade, Tokens, TypeOK
        <5>3. http[x].token \in honoured => Vouched(x)
          BY <5>2 DEF Vouched
        <5>4. http[x].token \notin Tokens /\ OfClient(http[x].token.sub) = {} => Vouched(x)
          <6> SUFFICES ASSUME http[x].token \notin Tokens, OfClient(http[x].token.sub) = {}
                       PROVE  Vouched(x)
            OBVIOUS
          <6>1. \A t \in honoured : t.sub # http[x].token.sub
            BY DEF OfClient, Tok!Of
          <6>2. Gone(x)
            BY <5>2, <6>1 DEF Gone
          <6>3. http[x].token \in Unissued
            BY <5>2 DEF Tokens
          <6>4. QED
            BY <6>2, <6>3 DEF Vouched
        <5>5. CASE http'[x].stage = "delete"
          <6>1. Revocable(http[x].token)
            BY <3>2, <5>5 DEF Moves
          <6>2. QED
            BY <4>1, <4>2, <5>1, <5>3, <5>4, <5>5, <6>1 DEF Revocable
        <5>6. CASE http'[x].stage = "verdict"
          <6>1. Asked(x) /\ http[x].op = "call"
            BY <3>2, <5>6 DEF Moves
          <6>2. x \in Calls
            BY <6>1 DEF StageFits, CredOps, Served
          <6>3. ask'[x] \in {"in_force", "unknown"} =>
                  \/ http[x].token \in honoured
                  \/ http[x].token \notin Tokens /\ OfClient(http[x].token.sub) = {}
            BY <6>1, <6>2 DEF Asked, Tok!Ask, Tok!AskUnissued, OfClient, TypeOK
          <6>4. QED
            BY <4>1, <4>2, <5>1, <5>3, <5>4, <5>6, <6>3
        <5>7. QED
          BY <4>4, <5>5, <5>6
      <4>5. QED
        BY <4>3, <4>4
    <3>3. CASE Judges(x)
      BY <3>3 DEF Judges
    <3>4. CASE Responds(x)
      BY <3>4 DEF Responds, Becomes
    <3>5. CASE Ends(x)
      BY <3>5 DEF Ends, Becomes
    <3>6. QED
      BY <1>3, <3>1, <3>2, <3>3, <3>4, <3>5 DEF Kind
  <2>2. \A y \in Served \ {x} : Fits(y)
    BY <1>1, <1>3, KindFrame, AskFrame
  <2>3. QED
    BY <2>1, <2>2 DEF LookedWasAlive, At
<1>4. QED
  BY <1>2, <1>3

\* Who gets past the look had a token that is vouched for, and is told what it permits.
LEMMA KeptToldTrue ==
  ASSUME TypeOK, StageFits, Answered, LookedWasAlive, ToldTrue, TokenStep,
         Stays \/ \E x \in Served : Kind(x)
  PROVE  ToldTrue'
<1> DEFINE Fits(y) ==
      Passed(y)' =>
        /\ Vouched(y)'
        /\ http'[y].op = "call" =>
             (http'[y].answer = "ok") = (http'[y].need \subseteq http'[y].token.perms)
<1>1. ASSUME NEW y \in Calls, http'[y].op = http[y].op, http'[y].answer = http[y].answer,
             http'[y].token = http[y].token, http'[y].alive = http[y].alive,
             http'[y].need = http[y].need
      PROVE  Fits(y)
  <2>1. Vouched(y) => Vouched(y)'
    BY <1>1, VouchedStays
  <2>2. QED
    BY <1>1, <2>1 DEF ToldTrue, Passed
<1>2. CASE Stays
  <2>1. \A y \in Calls : Fits(y)
    BY <1>1, <1>2 DEF Stays
  <2>2. QED
    BY <2>1 DEF ToldTrue
<1>3. ASSUME NEW x \in Served, Kind(x)
      PROVE  ToldTrue'
  <2>1. x \in Calls => Fits(x)
    <3> SUFFICES ASSUME x \in Calls
                 PROVE  Fits(x)
      OBVIOUS
    <3>1. http'[x].op = http[x].op
      BY <1>3, KindFrame
    <3>2. CASE Arrives(x)
      BY <3>2 DEF Arrives, Becomes, Answered, At, Passed
    <3>3. CASE Moves(x)
      BY <1>1, <3>1, <3>3 DEF Moves, Becomes
    <3>4. CASE Judges(x)
      <4>1. http[x].op # "call"
        BY <3>4 DEF Judges, StageFits, Auth
      <4>2. http[x].op = "log_out" => http'[x].answer # "ok"
        BY <3>4 DEF Judges
      <4>3. QED
        BY <3>1, <4>1, <4>2 DEF Passed
    <3>5. CASE Responds(x)
      <4>1. http[x].op # "call"
        BY <3>5 DEF Responds, Auth
      <4>2. http[x].op = "log_out" /\ http'[x].answer = "ok" => At(x, "delete")
        BY <3>5 DEF Responds
      <4>3. Vouched(x) => Vouched(x)'
        BY <3>5, VouchedStays DEF Responds, Becomes
      <4>4. QED
        BY <3>1, <4>1, <4>2, <4>3 DEF LookedWasAlive, Passed
    <3>6. CASE Ends(x)
      <4>1. /\ http'[x].token = http[x].token /\ http'[x].alive = http[x].alive
            /\ http'[x].need = http[x].need
        BY <3>6 DEF Ends, Becomes
      <4>2. Vouched(x) => Vouched(x)'
        BY <4>1, VouchedStays
      <4>3. CASE http[x].op = "call" /\ http'[x].answer \in {"ok", "forbidden"}
        <5>1. /\ At(x, "verdict") /\ ask[x] \in {"in_force", "unknown"}
              /\ http'[x].answer = "ok" <=> http[x].need \subseteq http[x].token.perms
          BY <3>6, <4>3 DEF Ends
        <5>2. Vouched(x)
          BY <5>1 DEF LookedWasAlive
        <5>3. QED
          BY <3>1, <4>1, <4>2, <4>3, <5>1, <5>2
      <4>4. CASE http[x].op = "log_out" /\ http'[x].answer = "ok"
        <5>1. http[x].answer = "ok"
          BY <3>6, <4>4 DEF Ends
        <5>2. Passed(x)
          BY <4>4, <5>1 DEF Passed
        <5>3. QED
          BY <3>1, <4>2, <4>4, <5>2 DEF ToldTrue
      <4>5. QED
        BY <3>1, <4>3, <4>4 DEF Passed
    <3>7. QED
      BY <1>3, <3>2, <3>3, <3>4, <3>5, <3>6 DEF Kind
  <2>2. \A y \in Calls \ {x} : Fits(y)
    BY <1>1, <1>3, KindFrame DEF Served
  <2>3. QED
    BY <2>1, <2>2 DEF ToldTrue
<1>4. QED
  BY <1>2, <1>3

\* A log-out that is confirmed has retired what was in force when it arrived.
LEMMA KeptOkAfterRetiring ==
  ASSUME TypeOK, Answered, PresentedWasMade, OkAfterRetiring, TokenStep,
         Stays \/ \E x \in Served : Kind(x)
  PROVE  OkAfterRetiring'
<1> DEFINE Fits(y) == http'[y].op = "log_out" /\ http'[y].answer = "ok" => Gone(y)'
<1>1. ASSUME NEW y \in Served, http'[y].op = http[y].op, http'[y].answer = http[y].answer,
             http'[y].alive = http[y].alive, http'[y].token = http[y].token
      PROVE  Fits(y)
  <2>1. Gone(y) => Gone(y)'
    BY <1>1, VouchedStays
  <2>2. QED
    BY <1>1, <2>1 DEF OkAfterRetiring
<1>2. CASE Stays
  <2>1. \A y \in Served : Fits(y)
    BY <1>1, <1>2 DEF Stays
  <2>2. QED
    BY <2>1 DEF OkAfterRetiring
<1>3. ASSUME NEW x \in Served, Kind(x)
      PROVE  OkAfterRetiring'
  <2>1. Fits(x)
    <3>1. http'[x].op = http[x].op
      BY <1>3, KindFrame
    <3>2. CASE Arrives(x)
      BY <3>2 DEF Arrives, Becomes, Answered, At
    <3>3. CASE Moves(x)
      BY <1>1, <3>1, <3>3 DEF Moves, Becomes
    <3>4. CASE Judges(x)
      BY <3>1, <3>4 DEF Judges
    <3>5. CASE Responds(x)
      <4>1. http'[x].token = http[x].token /\ http'[x].alive = http[x].alive
        BY <3>5 DEF Responds, Becomes
      <4>2. CASE Retire(http[x].token.sub)
        <5>1. http[x].alive \subseteq honoured \cup retired
          BY DEF PresentedWasMade, Tokens
        <5>2. \A t \in honoured : t.sub = http[x].token.sub => t \in retired'
          BY <4>2 DEF Retire, Tok!Retire, OfClient, Tok!Of
        <5>3. retired \subseteq retired'
          BY <4>2 DEF Retire, Tok!Retire
        <5>4. QED
          BY <4>1, <5>1, <5>2, <5>3 DEF Gone
      <4>3. QED
        BY <3>1, <3>5, <4>2 DEF Responds
    <3>6. CASE Ends(x)
      <4>1. Gone(x) => Gone(x)'
        BY <3>6, VouchedStays DEF Ends, Becomes
      <4>2. http[x].op = "log_out" /\ http'[x].answer = "ok" => http[x].answer = "ok"
        BY <3>6 DEF Ends
      <4>3. QED
        BY <3>1, <4>1, <4>2 DEF OkAfterRetiring
    <3>7. QED
      BY <1>3, <3>2, <3>3, <3>4, <3>5, <3>6 DEF Kind
  <2>2. \A y \in Served \ {x} : Fits(y)
    BY <1>1, <1>3, KindFrame
  <2>3. QED
    BY <2>1, <2>2 DEF OkAfterRetiring
<1>4. QED
  BY <1>2, <1>3

-----------------------------------------------------------------------------
(***************************************************************************)
(* The theorems.                                                           *)
(***************************************************************************)

\* Before any request arrives, nothing is loaded, made or answered.
LEMMA InitInvariant ==
  ASSUME Init
  PROVE  IInv
<1>1. PICK s \in Scenes :
        /\ deployment = s.deployment
        /\ http = [x \in Served |->
             [op |-> s.ops[x],
              stage |-> IF s.ops[x] = "create_super" THEN "service" ELSE "idle",
              origin |-> "unread", token |-> NoToken, need |-> NIL,
              alive |-> {}, answer |-> "none"]]
  BY DEF Init
<1>2. \A x \in Served :
        /\ http[x].op = s.ops[x] /\ http[x].op \in Ops
        /\ http[x].stage = IF http[x].op = "create_super" THEN "service" ELSE "idle"
        /\ http[x].origin = "unread" /\ http[x].token = NoToken
        /\ http[x].alive = {} /\ http[x].answer = "none"
  BY <1>1, ScenesAssumption
<1>3. http \in [Served -> Http]
  <2>1. \A x \in Served : s.ops[x] \in Ops
    BY ScenesAssumption
  <2>2. "none" \in Answers /\ {"service", "idle"} \subseteq Stages /\ NIL \in SUBSET Permission
    BY DEF Answers, Stages, NIL
  <2>3. QED
    BY <1>1, <2>1, <2>2 DEF Http
<1>4. Creds!TypeOK
  BY DEF Init, Creds!Init, Creds!TypeOK, Creds!Op
<1>5. Conf!TypeOK
  <2>1. load \in [Served -> Conf!Load]
    BY DEF Init, Conf!Init, Conf!Out, Conf!Load
  <2>2. QED
    BY <2>1, NamesAssumption DEF Init, Conf!Init, Conf!TypeOK
<1>6. deployment \in {"server", "serverless"}
  BY <1>1, ScenesAssumption
<1>7. honoured = {} /\ retired = {} /\ unsettled = {} /\ ask = [x \in Calls |-> "none"]
  BY DEF Init, Tok!Init
<1>8. TypeOK
  BY <1>2, <1>3, <1>4, <1>5, <1>6, <1>7 DEF TypeOK, At, Tokens
<1>9. StageFits
  <2>1. \A r \in Requests : req[r].op = IF http[r].op = "absent" THEN "log_in" ELSE http[r].op
    BY DEF Init
  <2>2. \A r \in Requests : req[r].op \in CredOps
    BY <1>4 DEF Creds!TypeOK, Creds!Op, Creds!Ops, CredOps
  <2>3. \A x \in Calls : http[x].op \notin CredOps
    BY <1>2, ScenesAssumption DEF Creds!Ops, CredOps, Served
  <2>4. \A r \in Requests : http[r].op \in CredOps \cup {"absent"}
    BY <2>1, <2>2
  <2>5. QED
    BY <1>2, <2>1, <2>3, <2>4 DEF StageFits, At, CredOps
<1>10. Answered /\ OriginJudgedByOverlap /\ ToldTrue /\ OkAfterRetiring
  BY <1>2 DEF Answered, OriginJudgedByOverlap, ToldTrue, Passed, OkAfterRetiring, Served
<1>11. \A x \in Served : load[x].stage = "out"
  BY DEF Init, Conf!Init, Conf!Out
<1>12. MetIsShared /\ GotIsMine /\ LoadedHasMet
  BY <1>11 DEF MetIsShared, GotIsMine, LoadedHasMet
<1>13. TokensMade /\ PresentedWasMade /\ LookedWasAlive
  BY <1>2, <1>7 DEF TokensMade, PresentedWasMade, LookedWasAlive, Tokens, At
<1>14. QED
  BY <1>8, <1>9, <1>10, <1>12, <1>13 DEF IInv

\* The conjuncts of the invariant hold each other up, and what is proved of the
\* credentials does the rest.
LEMMA KeptInvariant ==
  ASSUME IInv, CredP!IInv, [Next]_vars
  PROVE  IInv'
<1>1. CredStep
  BY StepCredentials
<1>2. CASE Next
  <2>1. TokensAreOfLogIns
    BY DEF CredP!IInv, CredP!StageFits, TokensAreOfLogIns
  <2>2. Stays \/ \E x \in Served : Kind(x)
    BY <1>2, <2>1, NextKinds DEF IInv
  <2>3. ConfStep /\ TokenStep
    BY <2>2, StepConf, StepTokens DEF IInv
  <2>4. StageFits' /\ Answered'
    BY <1>1, <2>2, KeptStageFits, KeptAnswered DEF IInv
  <2>5. TypeOK'
    BY <1>1, <2>2, <2>3, <2>4, KeptTypes DEF IInv
  <2>6. MetIsShared' /\ GotIsMine' /\ LoadedHasMet'
    BY <2>3, KeptMetIsShared, KeptGotIsMine, KeptLoadedHasMet DEF IInv
  <2>7. OriginJudgedByOverlap'
    BY <2>2, KeptOriginJudged DEF IInv
  <2>8. TokensMade' /\ PresentedWasMade' /\ LookedWasAlive'
    BY <1>1, <2>2, <2>3, KeptTokensMade, KeptPresented, KeptLooked DEF IInv
  <2>9. ToldTrue' /\ OkAfterRetiring'
    BY <2>2, <2>3, KeptToldTrue, KeptOkAfterRetiring DEF IInv
  <2>10. QED
    BY <2>4, <2>5, <2>6, <2>7, <2>8, <2>9 DEF IInv
<1>3. CASE UNCHANGED vars
  <2>1. /\ UNCHANGED <<rows, req, file, cnf, sch, found, load, mishaps>>
        /\ UNCHANGED <<honoured, retired, unsettled, ask, deployment, http>>
    BY <1>3 DEF vars, confVars, credVars, tokVars
  <2>2. TypeOK'
    BY <2>1 DEF IInv, TypeOK, Creds!TypeOK, Conf!TypeOK, Tokens, At
  <2>3. StageFits' /\ Answered'
    BY <2>1 DEF IInv, StageFits, Answered, At, Auth
  <2>4. MetIsShared' /\ GotIsMine' /\ LoadedHasMet'
    BY <2>1 DEF IInv, MetIsShared, GotIsMine, LoadedHasMet
  <2>5. OriginJudgedByOverlap'
    BY <2>1 DEF IInv, OriginJudgedByOverlap, At
  <2>6. TokensMade' /\ PresentedWasMade' /\ LookedWasAlive'
    BY <2>1 DEF IInv, TokensMade, PresentedWasMade, LookedWasAlive, Vouched, Gone,
                Unissued, Tokens, At
  <2>7. ToldTrue' /\ OkAfterRetiring'
    BY <2>1 DEF IInv, ToldTrue, Passed, OkAfterRetiring, Vouched, Gone, Unissued
  <2>8. QED
    BY <2>2, <2>3, <2>4, <2>5, <2>6, <2>7 DEF IInv
<1>4. QED
  BY <1>2, <1>3

\* The invariant holds in every reachable state, given that of the credentials.
THEOREM Invariance == Spec => []IInv
<1>1. Spec => []CredP!IInv
  BY ImplementsCredentials, CredP!Invariance, PTL
<1>2. Init => IInv
  BY InitInvariant
<1>3. IInv /\ CredP!IInv /\ [Next]_vars => IInv'
  BY KeptInvariant
<1>4. QED
  BY <1>1, <1>2, <1>3, PTL DEF Spec

\* Every variable keeps its type, and who is over has been told something.
THEOREM TypeCorrect == Spec => []TypeOK
<1>1. IInv => TypeOK
  BY DEF IInv
<1>2. QED
  BY <1>1, Invariance, PTL

\* An Origin (domains.go:86) is judged by a configuration that was read while the
\* request ran, however many requests compile (conf.go:32) beside it, and by none only
\* if one of these could not read the file.
THEOREM OriginsJudgedByOverlap == Spec => []OriginJudgedByOverlap
<1>1. IInv => OriginJudgedByOverlap
  BY DEF IInv
<1>2. QED
  BY <1>1, Invariance, PTL

\* Who gets past the look at a token of the service had one that was in force on
\* arrival or unsettled, and with another token only once the settled tokens of its
\* client were retired; and what is said of the permissions (token.go:21) is so.
THEOREM CallsToldTrue == Spec => []AnswersAreTrue
<1>1. IInv => AnswersAreTrue
  <2> SUFFICES ASSUME IInv, NEW x \in Calls, Passed(x)
               PROVE  LET h == http[x] IN
                      /\ h.token \in Tokens \cup Unissued
                      /\ h.token \in Tokens => h.token \in h.alive
                      /\ h.token \notin Tokens =>
                           \A t \in h.alive \ unsettled :
                             t.sub = h.token.sub => t \notin honoured
                      /\ h.op = "call" =>
                           (h.answer = "ok") = (h.need \subseteq h.token.perms)
    BY DEF AnswersAreTrue
  <2>1. /\ Vouched(x)
        /\ http[x].op = "call" =>
             (http[x].answer = "ok") = (http[x].need \subseteq http[x].token.perms)
    BY DEF IInv, ToldTrue
  <2>2. http[x].alive \subseteq Tokens /\ Unissued \cap Tokens = {}
    BY UnissuedApart DEF IInv, PresentedWasMade, Served
  <2>3. honoured \cap retired = {}
    BY DEF IInv, TypeOK
  <2>4. QED
    BY <2>1, <2>2, <2>3 DEF Vouched, Gone
<1>2. QED
  BY <1>1, Invariance, PTL

\* A confirmed log-out (log.go:313) ends every session that the client had when it
\* arrived, whoever signed the token it presented; unsettled tokens may return.
THEOREM LogOutsEnd == Spec => []LogOutEnds
<1>1. IInv => LogOutEnds
  <2> SUFFICES ASSUME IInv, NEW x \in Calls, http[x].op = "log_out",
                      http[x].answer = "ok", NEW t \in http[x].alive \ unsettled,
                      t.sub = http[x].token.sub
               PROVE  t \notin honoured
    BY DEF LogOutEnds
  <2>1. Gone(x)
    BY DEF IInv, OkAfterRetiring, Served
  <2>2. t \in retired
    BY <2>1 DEF Gone
  <2>3. QED
    BY <2>2 DEF IInv, TypeOK
<1>2. QED
  BY <1>1, Invariance, PTL

\* Among the tokens that the service issued, only those of who logged in with the
\* address and password of a run of create_super that inserted its row manage
\* preferences (permissions.go:56).
THEOREM ManagersAreSuper == Spec => []ManagersWereSuper
<1>1. Spec => []CredP!SuperTokenDeserved
  BY ImplementsCredentials, CredP!TokenDeserved, PTL
<1>2. IInv /\ CredP!SuperTokenDeserved => ManagersWereSuper
  <2> SUFFICES ASSUME IInv, CredP!SuperTokenDeserved, NEW x \in Calls,
                      http[x].op = "call", http[x].answer = "ok",
                      http[x].need \cap PREFERENCE_MANAGER # {},
                      http[x].token \in Tokens
               PROVE  \E s \in Requests :
                        /\ req[s].op = "create_super"
                        /\ req[s].email = http[x].token.sub
                        /\ req[s].pass = req[http[x].token.by].pass
                        /\ req[s].stage \in {"grant", "out_check", "out", "super_made",
                                             "panicked"}
    BY DEF ManagersWereSuper
  <2> DEFINE t == http[x].token
  <2>1. Passed(x)
    BY DEF Passed
  <2>2. http[x].need \subseteq t.perms
    BY <2>1 DEF IInv, ToldTrue
  <2>3. /\ t.by \in Requests /\ t.sub = req[t.by].email /\ req[t.by].stage = "token"
        /\ req[t.by].ask = "manager"
    BY <2>2 DEF IInv, TokensMade
  <2>4. QED
    BY <2>3 DEF CredP!SuperTokenDeserved
<1>3. QED
  BY <1>1, <1>2, Invariance, PTL

\* The routes issue, retire, restore and look at tokens as Sessions says, whatever the
\* credentials and the configuration do.
THEOREM ImplementsSessions == Spec => Tok!Spec
<1>1. Init => Tok!Init
  BY DEF Init
<1>2. Spec => []CredP!IInv
  BY ImplementsCredentials, CredP!Invariance, PTL
<1>3. IInv /\ CredP!IInv /\ [Next]_vars => [Tok!Next]_(Tok!vars)
  <2> SUFFICES ASSUME IInv, CredP!IInv, [Next]_vars
               PROVE  [Tok!Next]_(Tok!vars)
    OBVIOUS
  <2>1. CASE UNCHANGED vars
    BY <2>1 DEF vars, tokVars, Tok!vars
  <2>2. CASE Next
    <3>1. TokensAreOfLogIns
      BY DEF CredP!IInv, CredP!StageFits, TokensAreOfLogIns
    <3>2. Stays \/ \E x \in Served : Kind(x)
      BY <2>2, <3>1, NextKinds DEF IInv
    <3>3. TokenStep
      BY <3>2, StepTokens DEF IInv
    <3>4. CASE UNCHANGED tokVars
      BY <3>4 DEF tokVars, Tok!vars
    <3>5. ASSUME NEW r \in Requests, Issues(r)
          PROVE  Tok!Next
      <4>1. PICK t : Tok!Issue(t)
        BY <3>5 DEF Issues
      <4>2. t \in honoured' \cup retired'
        BY <4>1 DEF Tok!Issue
      <4>3. QED
        BY <4>1, <4>2 DEF Tok!Next
    <3>6. ASSUME NEW e \in Emails, Retire(e)
          PROVE  Tok!Next
      <4>1. OfClient(e) = honoured \ honoured'
        BY <3>6 DEF Retire, Tok!Retire
      <4>2. QED
        BY <3>6, <4>1 DEF Retire, Tok!Next
    <3>7. ASSUME NEW e \in Emails, Returns(e)
          PROVE  Tok!Next
      <4>1. PICK T : Tok!Restore(e, T)
        BY <3>7 DEF Returns
      <4>2. T \subseteq retired /\ honoured \cap retired = {}
        BY <4>1 DEF Tok!Restore, Tok!Of, IInv, TypeOK
      <4>3. T = honoured' \ honoured
        BY <4>1, <4>2 DEF Tok!Restore
      <4>4. Tok!Restore(e, honoured' \ honoured)
        BY <4>1, <4>3
      <4>5. QED
        BY <4>4 DEF Tok!Next
    <3>8. ASSUME NEW x \in Calls, http[x].token \in Token, Asked(x)
          PROVE  Tok!Next
      <4>1. CASE http[x].token \in Tokens
        BY <3>8, <4>1 DEF Asked, Tok!Next, Tokens
      <4>2. CASE http[x].token \notin Tokens
        <5>1. http[x].token.sub \in Emails
          BY <3>8 DEF Token
        <5>2. QED
          BY <3>8, <4>2, <5>1 DEF Asked, Tok!Next
      <4>3. QED
        BY <4>1, <4>2
    <3>9. ASSUME NEW x \in Calls, Tok!Answer(x)
          PROVE  Tok!Next
      BY <3>9 DEF Tok!Next
    <3>10. QED
      BY <3>3, <3>4, <3>5, <3>6, <3>7, <3>8, <3>9 DEF TokenStep
  <2>3. QED
    BY <2>1, <2>2
<1>4. QED
  BY <1>1, <1>2, <1>3, Invariance, PTL DEF Spec, Tok!Spec
=============================================================================
