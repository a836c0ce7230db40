---------------------------- MODULE TokensProofs ----------------------------
(***************************************************************************)
(* Proofs about Tokens, for any sets of clients, requests and secrets and  *)
(* any clock, however often commands are sent again and however late they  *)
(* arrive: the types, and what rests on a secret being put by one log-in.  *)
(***************************************************************************)
EXTENDS Tokens, TLAPS

-----------------------------------------------------------------------------
(***************************************************************************)
(* Dates.                                                                  *)
(***************************************************************************)

\* Truncating to the second stays in Nat, and loses less than a second.
LEMMA NumericDateBounds ==
  ASSUME NEW t \in Nat
  PROVE  /\ NumericDate(t) \in Nat
         /\ NumericDate(t) <= t
         /\ t < NumericDate(t) + Second
BY TimeAssumption DEF NumericDate

\* A request that holds nothing has the type of a request.
LEMMA IdleIsRequest == Idle \in Request
<1>1. (CHOOSE c \in Clients : TRUE) \in Clients
  BY ClientsAssumption
<1>2. QED
  BY <1>1, TimeAssumption DEF Idle, Request, Stages

\* A request at rest holds no secret.
LEMMA IdleFields == Idle.stage = "idle" /\ Idle.secret = NoSecret
BY DEF Idle

-----------------------------------------------------------------------------
(***************************************************************************)
(* Types.                                                                  *)
(***************************************************************************)

\* TypeOK without its last conjunct, the types proper.
Types ==
  /\ now \in Nat
  /\ store \in [Clients -> [secret: Secrets \cup {NoSecret}, until: Nat]]
  /\ drawn \subseteq Secrets
  /\ tokens \subseteq Token
  /\ req \in [Requests -> Request]
  /\ late \subseteq Command
  /\ ended \subseteq tokens /\ early \subseteq tokens

\* TypeOK, and the facts a request's stage implies about what it holds.
Held ==
  \A r \in Requests :
    /\ req[r].stage \in {"put", "sign"} => req[r].secret \in Secrets
    /\ req[r].stage \in {"verify", "accepted", "forbidden", "rejected",
                         "revoke"} => req[r].tok \in Token \cup Unissued

LiveInTime ==
  \A c \in Clients : Current(c) # NoSecret =>
    now < store[c].until /\ store[c].until <= now + Life

\* TypeOK is these two.
LEMMA TypeOKParts == TypeOK <=> Types /\ LiveInTime
BY DEF TypeOK, Types, LiveInTime

\* What SET, DEL and the end of a request leave has its type.
LEMMA SetType ==
  ASSUME Types, NEW c \in Clients, NEW k \in Secrets, Set(c, k)
  PROVE  /\ store' \in [Clients -> [secret: Secrets \cup {NoSecret}, until: Nat]]
         /\ store'[c].secret = k /\ store'[c].until = now + Life
         /\ \A d \in Clients \ {c} : store'[d] = store[d]
BY TimeAssumption DEF Types, Set

\* DEL empties the place of one client.
LEMMA DelType ==
  ASSUME Types, NEW c \in Clients, Del(c)
  PROVE  /\ store' \in [Clients -> [secret: Secrets \cup {NoSecret}, until: Nat]]
         /\ store'[c].secret = NoSecret
         /\ \A d \in Clients \ {c} : store'[d] = store[d]
BY DEF Types, Del, Nothing

\* A request that has finished is at rest.
LEMMA FinishType ==
  ASSUME Types, Held, NEW r \in Requests, NEW s, Finish(r, s)
  PROVE  req' \in [Requests -> Request] /\ Held'
BY IdleIsRequest DEF Types, Held, Finish, Idle

\* The command of a request that is writing.
LEMMA CommandType ==
  ASSUME Types, Held, NEW r \in Requests, req[r].stage \in {"put", "delete"}
  PROVE  CommandOf(req[r]) \in Command
BY DEF Types, Held, Request, CommandOf, Command

\* What SET EX stores expires within Life ticks.
LEMMA SetLive ==
  ASSUME Types, LiveInTime, NEW c \in Clients, NEW k \in Secrets, Set(c, k),
         now' = now
  PROVE  LiveInTime'
BY SetType, TimeAssumption DEF Types, LiveInTime, Current

\* DEL leaves the other secrets as they expire.
LEMMA DelLive ==
  ASSUME Types, LiveInTime, NEW c \in Clients, Del(c), now' = now
  PROVE  LiveInTime'
BY DelType DEF Types, LiveInTime, Current

\* The types hold initially, ...
LEMMA TypesInit == Init => Types /\ Held /\ LiveInTime
<1> SUFFICES ASSUME Init PROVE Types /\ Held /\ LiveInTime
  OBVIOUS
<1>1. Types
  BY IdleIsRequest DEF Init, Types, Nothing
<1>2. Held
  BY DEF Init, Held, Idle
<1>3. LiveInTime
  BY DEF Init, LiveInTime, Current, Nothing
<1>4. QED
  BY <1>1, <1>2, <1>3

\* ... and every step keeps them.
LEMMA TypesStep ==
  ASSUME Types, Held, LiveInTime, [Next]_vars
  PROVE  Types' /\ Held' /\ LiveInTime'
<1>1. CASE Tick
  <2>1. Types' /\ Held'
    BY <1>1 DEF Tick, Types, Held, Nothing
  <2>2. ASSUME NEW c \in Clients, Current(c)' # NoSecret
        PROVE  now' < store'[c].until /\ store'[c].until <= now' + Life
    <3>1. /\ now \in Nat /\ store[c].until \in Nat /\ now' = now + 1
          /\ store'[c] = store[c] /\ ~ (store[c].until <= now + 1)
      BY <1>1, <2>2 DEF Tick, Types, Current, Nothing
    <3>2. store[c].until <= now + Life
      BY <2>2, <3>1 DEF LiveInTime, Current
    <3>3. QED
      BY <3>1, <3>2, TimeAssumption
  <2>3. QED
    BY <2>1, <2>2 DEF LiveInTime
<1>2. ASSUME NEW r \in Requests, NEW c \in Clients, NEW p \in SUBSET Permissions,
             GenReuse(r, c, p)
      PROVE  Types' /\ Held' /\ LiveInTime'
  <2>1. Current(c) \in Secrets
    BY <1>2 DEF GenReuse, Types, Current
  <2>2. Types'
    BY <1>2, <2>1, IdleIsRequest
       DEF GenReuse, Start, Types, Request, Stages, Idle
  <2>3. Held'
    BY <1>2, <2>1, IdleIsRequest DEF GenReuse, Start, Types, Held, Idle
  <2>4. LiveInTime'
    BY <1>2 DEF GenReuse, LiveInTime, Current
  <2>5. QED
    BY <2>2, <2>3, <2>4
<1>3. ASSUME NEW r \in Requests, NEW c \in Clients, NEW p \in SUBSET Permissions,
             NEW k \in Secrets, GenDraw(r, c, p, k)
      PROVE  Types' /\ Held' /\ LiveInTime'
  <2>1. Types'
    BY <1>3, IdleIsRequest
       DEF GenDraw, Start, Types, Request, Stages, Idle
  <2>2. Held'
    BY <1>3, IdleIsRequest DEF GenDraw, Start, Types, Held, Idle
  <2>3. LiveInTime'
    BY <1>3 DEF GenDraw, LiveInTime, Current
  <2>4. QED
    BY <2>1, <2>2, <2>3
<1>4. ASSUME NEW r \in Requests, GenPut(r)
      PROVE  Types' /\ Held' /\ LiveInTime'
  <2>1. req[r].client \in Clients /\ req[r].secret \in Secrets
    BY <1>4 DEF GenPut, Go, Types, Held, Request
  <2>2. Types'
    <3>1. [req[r] EXCEPT !.stage = "sign"] \in Request
      BY DEF Types, Request, Stages
    <3>2. req' \in [Requests -> Request]
      BY <1>4, <3>1 DEF GenPut, Go, Types
    <3>3. QED
      BY <1>4, <2>1, <3>2, SetType DEF GenPut, Types
  <2>3. Held'
    BY <1>4 DEF GenPut, Go, Types, Held
  <2>4. LiveInTime'
    BY <1>4, <2>1, SetLive DEF GenPut
  <2>5. QED
    BY <2>2, <2>3, <2>4
<1>5. ASSUME NEW r \in Requests, GenSign(r)
      PROVE  Types' /\ Held' /\ LiveInTime'
  <2>1. Signed(r) \in Token
    <3>1. now + Life \in Nat /\ now \in Nat
      BY TimeAssumption DEF Types
    <3>2. /\ req[r].client \in Clients /\ req[r].secret \in Secrets
          /\ req[r].perms \in SUBSET Permissions
      BY <1>5 DEF GenSign, Finish, Types, Held, Request
    <3>3. QED
      BY <3>1, <3>2, NumericDateBounds DEF Signed, Token
  <2>2. req' \in [Requests -> Request] /\ Held'
    BY <1>5, FinishType DEF GenSign
  <2>3. Types'
    BY <1>5, <2>1, <2>2 DEF GenSign, Types
  <2>4. LiveInTime'
    BY <1>5 DEF GenSign, LiveInTime, Current
  <2>5. QED
    BY <2>2, <2>3, <2>4
<1>6. ASSUME NEW r \in Requests, NEW t \in tokens \cup Unissued,
             NEW p \in SUBSET Permissions, VerifyRead(r, t, p)
      PROVE  Types' /\ Held' /\ LiveInTime'
  <2>1. /\ t \in Token \cup Unissued /\ t.sub \in Clients
        /\ Current(t.sub) \in Secrets \cup {NoSecret}
    BY DEF Types, Token, Unissued, Current
  <2>2. Types'
    BY <1>6, <2>1, IdleIsRequest
       DEF VerifyRead, Start, Types, Request, Stages, Idle
  <2>3. Held'
    BY <1>6, <2>1, IdleIsRequest DEF VerifyRead, Start, Types, Held, Idle
  <2>4. LiveInTime'
    BY <1>6 DEF VerifyRead, LiveInTime, Current
  <2>5. QED
    BY <2>2, <2>3, <2>4
<1>7. ASSUME NEW r \in Requests, VerifyCheck(r)
      PROVE  Types' /\ Held' /\ LiveInTime'
  <2>1. PICK v \in {"accepted", "forbidden", "rejected"} : Go(r, "verify", v)
    BY <1>7 DEF VerifyCheck, Verdict
  <2>2. Types'
    <3>1. [req[r] EXCEPT !.stage = v] \in Request
      BY DEF Types, Request, Stages
    <3>2. req' \in [Requests -> Request]
      BY <2>1, <3>1 DEF Go, Types
    <3>3. QED
      BY <1>7, <3>2 DEF VerifyCheck, Types
  <2>3. Held'
    BY <2>1 DEF Go, Types, Held
  <2>4. LiveInTime'
    BY <1>7 DEF VerifyCheck, LiveInTime, Current
  <2>5. QED
    BY <2>2, <2>3, <2>4
<1>8. ASSUME NEW r \in Requests, NEW t \in tokens \cup Unissued, RevokeRead(r, t)
      PROVE  Types' /\ Held' /\ LiveInTime'
  <2>1. /\ t \in Token \cup Unissued /\ t.sub \in Clients
        /\ Current(t.sub) \in Secrets \cup {NoSecret}
    BY DEF Types, Token, Unissued, Current
  <2>2. Types'
    BY <1>8, <2>1, IdleIsRequest
       DEF RevokeRead, Start, Types, Request, Stages, Idle
  <2>3. Held'
    BY <1>8, <2>1, IdleIsRequest DEF RevokeRead, Start, Types, Held, Idle
  <2>4. LiveInTime'
    BY <1>8 DEF RevokeRead, LiveInTime, Current
  <2>5. QED
    BY <2>2, <2>3, <2>4
<1>9. ASSUME NEW r \in Requests, RevokeCheck(r)
      PROVE  Types' /\ Held' /\ LiveInTime'
  <2>1. req' \in [Requests -> Request] /\ Held'
    <3>1. CASE Finish(r, "revoke")
      BY <3>1, FinishType
    <3>2. CASE req' = [req EXCEPT ![r] = [Idle EXCEPT !.stage = "delete",
                                                    !.client = req[r].client]]
      <4>1. req[r].client \in Clients
        BY DEF Types, Request
      <4>2. QED
        BY <3>2, <4>1, IdleIsRequest DEF Types, Held, Request, Stages, Idle
    <3>3. QED
      BY <1>9, <3>1, <3>2 DEF RevokeCheck
  <2>2. QED
    BY <1>9, <2>1 DEF RevokeCheck, Types, LiveInTime, Current
<1>10. ASSUME NEW r \in Requests, RevokeDelete(r)
       PROVE  Types' /\ Held' /\ LiveInTime'
  <2>1. req[r].client \in Clients
    BY DEF Types, Request
  <2>2. req' \in [Requests -> Request] /\ Held'
    BY <1>10, FinishType DEF RevokeDelete
  <2>3. Types'
    BY <1>10, <2>1, <2>2, DelType DEF RevokeDelete, DeleteKey, Types
  <2>4. LiveInTime'
    BY <1>10, <2>1, DelLive DEF RevokeDelete, DeleteKey
  <2>5. QED
    BY <2>2, <2>3, <2>4
<1>11. ASSUME NEW r \in Requests, Resend(r) \/ WriteFails(r)
       PROVE  Types' /\ Held' /\ LiveInTime'
  <2>1. req' \in [Requests -> Request] /\ Held'
    BY <1>11, FinishType DEF Resend, WriteFails, Types, Held
  <2>2. late' \subseteq Command
    BY <1>11, CommandType DEF Resend, WriteFails, Finish, Types
  <2>3. QED
    BY <1>11, <2>1, <2>2 DEF Resend, WriteFails, Types, LiveInTime, Current
<1>12. ASSUME NEW m \in late, Arrive(m) \/ Lose(m)
       PROVE  Types' /\ Held' /\ LiveInTime'
  <2>1. late' \subseteq late /\ req' = req /\ now' = now /\ UNCHANGED <<drawn, tokens, early>>
    BY <1>12 DEF Arrive, Lose
  <2>2. m.client \in Clients /\ m.secret \in Secrets \cup {NoSecret}
    BY DEF Types, Command
  <2>3. CASE UNCHANGED <<store, ended>>
    BY <2>1, <2>3 DEF Types, Held, LiveInTime, Current
  <2>4. CASE m.secret # NoSecret /\ Set(m.client, m.secret) /\ UNCHANGED ended
    BY <2>1, <2>2, <2>4, SetType, SetLive DEF Types, Held
  <2>5. CASE DeleteKey(m.client)
    BY <2>1, <2>2, <2>5, DelType, DelLive DEF DeleteKey, Types, Held
  <2>6. QED
    BY <1>12, <2>3, <2>4, <2>5 DEF Arrive, Lose
<1>13. ASSUME NEW r \in Requests, Return(r)
       PROVE  Types' /\ Held' /\ LiveInTime'
  <2>1. req' \in [Requests -> Request] /\ Held'
    BY <1>13, FinishType DEF Return
  <2>2. QED
    BY <1>13, <2>1 DEF Return, Types, LiveInTime, Current
<1>14. CASE UNCHANGED vars
  BY <1>14 DEF vars, Types, Held, LiveInTime, Current
<1>15. QED
  BY <1>1, <1>2, <1>3, <1>4, <1>5, <1>6, <1>7, <1>8, <1>9, <1>10, <1>11,
     <1>12, <1>13, <1>14 DEF Next, GenToken, VerifyToken, RevokeToken

\* Every variable of the tokener keeps its type, and Redis holds no secret that
\* has expired or that lives longer than seven minutes.
THEOREM TypeCorrect == Spec => []TypeOK
<1>1. Init => Types /\ Held /\ LiveInTime
  BY TypesInit
<1>2. Types /\ Held /\ LiveInTime /\ [Next]_vars
        => (Types /\ Held /\ LiveInTime)'
  BY TypesStep
<1>3. Types /\ Held /\ LiveInTime => TypeOK
  BY TypeOKParts
<1>4. QED
  BY <1>1, <1>2, <1>3, PTL DEF Spec
-----------------------------------------------------------------------------
(***************************************************************************)
(* What rests on a secret being put by the one log-in that drew it.  The   *)
(* inductive invariant is the conjunction of the following.                *)
(***************************************************************************)

\* Everything that holds a secret holds one that was drawn.
Known ==
  /\ \A c \in Clients : Current(c) \in drawn \cup {NoSecret}
  /\ \A t \in tokens : t.secret \in drawn
  /\ \A r \in Requests : req[r].secret \in drawn \cup {NoSecret}
  /\ \A m \in late : m.secret \in drawn \cup {NoSecret}

\* The tokens whose secret may be put again are early ones: no SET of a secret
\* is sent once the log-in that drew it has sent its last.
SettledUnlessEarly ==
  \A t \in tokens : Outstanding(t.secret) => t \in early

\* A secret in Redis expires less than a second after the ExpiresAt of every
\* token it signed, but the early ones.
DiesWithToken ==
  \A t \in tokens \ early :
    Current(t.sub) = t.secret => store[t.sub].until < t.exp + Second

\* A verification that may still accept read the secret in time.
ReadInTime ==
  \A r \in Requests :
    /\ req[r].stage \in {"verify", "accepted"}
    /\ req[r].secret = req[r].tok.secret
    /\ req[r].secret # NoSecret
    /\ req[r].tok \notin early
    => req[r].readAt < req[r].tok.exp + Second

AcceptedMatches ==
  \A r \in Requests : req[r].stage = "accepted" => req[r].secret = req[r].tok.secret

PutByOne ==
  /\ Known /\ SettledUnlessEarly /\ DiesWithToken
  /\ ReadInTime /\ AcceptedMatches /\ LogOutIsFinal

TypeInv == Types /\ Held /\ LiveInTime

\* Initially nothing is written, ...
LEMMA PutByOneInit == Init => PutByOne
BY IdleFields
   DEF Init, PutByOne, Known, SettledUnlessEarly, DiesWithToken, ReadInTime,
       AcceptedMatches, LogOutIsFinal, Current, Nothing

\* A step that only moves a request, to a stage where it is about to store no
\* secret.
LEMMA RequestMoves ==
  ASSUME TypeInv, PutByOne, NEW r \in Requests, NEW q,
         req' = [req EXCEPT ![r] = q],
         UNCHANGED <<store, tokens, drawn, late, ended, early>>,
         q.stage # "put", q.secret \in drawn \cup {NoSecret},
         q.stage = "accepted" => q.secret = q.tok.secret,
         /\ q.stage \in {"verify", "accepted"} /\ q.secret = q.tok.secret
         /\ q.secret # NoSecret /\ q.tok \notin early
         => q.readAt < q.tok.exp + Second
  PROVE  PutByOne'
<1> USE DEF TypeInv, Types
<1>1. \A s \in Requests : req'[s] = IF s = r THEN q ELSE req[s]
  OBVIOUS
<1>2. Known'
  BY <1>1 DEF PutByOne, Known, Current
<1>3. SettledUnlessEarly'
  BY <1>1 DEF PutByOne, SettledUnlessEarly, Outstanding
<1>4. DiesWithToken' /\ LogOutIsFinal'
  BY DEF PutByOne, DiesWithToken, LogOutIsFinal, Current
<1>5. ReadInTime' /\ AcceptedMatches'
  BY <1>1 DEF PutByOne, ReadInTime, AcceptedMatches
<1>6. QED
  BY <1>2, <1>3, <1>4, <1>5 DEF PutByOne

\* A step that leaves the requests alone, or ends some, and sends no new SET but
\* those of requests at "put": a secret is dropped or deleted, a command is
\* given up, sent again or lost.
LEMMA SecretsGo ==
  ASSUME TypeInv, PutByOne, UNCHANGED <<tokens, drawn, early>>,
         \A c \in Clients : store'[c] = store[c] \/ Current(c)' = NoSecret,
         \A s \in Requests : req'[s] = req[s] \/ req'[s] = Idle,
         \A m \in late' : \/ m \in late
                          \/ m.secret = NoSecret
                          \/ \E s \in Requests : req[s].stage = "put"
                                                   /\ m.secret = req[s].secret,
         \A t \in ended' : t \in tokens /\ (t \in ended \/ Current(t.sub)' = NoSecret)
  PROVE  PutByOne'
<1> USE NoSecretAssumption, IdleFields DEF TypeInv, Types
<1>1. \A t \in tokens : t.secret # NoSecret /\ t.sub \in Clients
  BY DEF Token
<1>2. Known'
  BY DEF PutByOne, Known, Current
<1>3. SettledUnlessEarly'
  <2> SUFFICES ASSUME NEW t \in tokens, Outstanding(t.secret)'
               PROVE  Outstanding(t.secret)
    BY DEF PutByOne, SettledUnlessEarly
  <2>1. CASE \E s \in Requests : req'[s].stage = "put" /\ req'[s].secret = t.secret
    BY <2>1 DEF Outstanding
  <2>2. CASE \E m \in late' : m.secret = t.secret /\ t.secret # NoSecret
    BY <2>2 DEF Outstanding
  <2>3. QED
    BY <2>1, <2>2 DEF Outstanding
<1>4. DiesWithToken' /\ LogOutIsFinal'
  BY <1>1 DEF PutByOne, DiesWithToken, LogOutIsFinal, Current
<1>5. ReadInTime' /\ AcceptedMatches'
  BY DEF PutByOne, ReadInTime, AcceptedMatches
<1>6. QED
  BY <1>2, <1>3, <1>4, <1>5 DEF PutByOne

\* A secret whose SET is outstanding is put in Redis, for the first time or
\* again: the tokens that it signed are early ones.
LEMMA SecretIsPut ==
  ASSUME TypeInv, PutByOne, NEW c \in Clients, NEW k \in Secrets,
         Outstanding(k), Set(c, k), UNCHANGED <<tokens, drawn, ended, early>>,
         late' \subseteq late,
         \A s \in Requests : \/ req'[s] = req[s]
                             \/ req'[s] = [req[s] EXCEPT !.stage = "sign"]
  PROVE  PutByOne'
<1> USE NoSecretAssumption DEF TypeInv, Types
<1>1. /\ k \in drawn /\ \A t \in tokens : t.sub \in Clients
      /\ \A t \in tokens : t.secret = k => t \in early
  BY DEF PutByOne, Known, SettledUnlessEarly, Outstanding, Token
<1>2. Current(c)' = k /\ \A d \in Clients \ {c} : store'[d] = store[d]
  BY SetType DEF Current
<1>3. \A s \in Requests :
        /\ req'[s].secret = req[s].secret
        /\ req'[s] = req[s] \/ req'[s].stage = "sign"
  <2>1. \A s \in Requests : req[s] \in Request
    OBVIOUS
  <2>2. \A q \in Request : LET p == [q EXCEPT !.stage = "sign"]
                           IN  p.secret = q.secret /\ p.stage = "sign"
    BY DEF Request
  <2>3. TAKE s \in Requests
  <2>4. PICK q \in Request : q = req[s]
    BY <2>1
  <2>5. QED
    BY <2>2, <2>4
<1>4. Known'
  BY <1>1, <1>2, <1>3 DEF PutByOne, Known, Current
<1>5. SettledUnlessEarly'
  BY <1>3 DEF PutByOne, SettledUnlessEarly, Outstanding
<1>6. DiesWithToken' /\ LogOutIsFinal'
  BY <1>1, <1>2 DEF PutByOne, DiesWithToken, LogOutIsFinal, Current
<1>7. ReadInTime' /\ AcceptedMatches'
  BY <1>3 DEF PutByOne, ReadInTime, AcceptedMatches
<1>8. QED
  BY <1>4, <1>5, <1>6, <1>7 DEF PutByOne

\* A key is deleted, by the request that logs out or by a late copy of its DEL.
LEMMA KeyIsDeleted ==
  ASSUME TypeInv, PutByOne, NEW c \in Clients, DeleteKey(c),
         UNCHANGED <<tokens, drawn, early>>, late' \subseteq late,
         \A s \in Requests : req'[s] = req[s] \/ req'[s] = Idle
  PROVE  PutByOne'
<1>1. /\ Current(c)' = NoSecret
      /\ \A d \in Clients \ {c} : store'[d] = store[d]
  BY DelType DEF DeleteKey, TypeInv, Current
<1>2. \A t \in ended' : t \in tokens /\ (t \in ended \/ Current(t.sub)' = NoSecret)
  BY <1>1 DEF DeleteKey, TypeInv, Types
<1>3. QED
  BY <1>1, <1>2, SecretsGo DEF Current

\* ... and every step keeps what rests on it.
LEMMA PutByOneStep ==
  ASSUME TypeInv, PutByOne, [Next]_vars
  PROVE  PutByOne'
<1> USE NoSecretAssumption, IdleFields
<1>1. CASE Tick
  <2>1. \A c \in Clients : store'[c] = store[c] \/ Current(c)' = NoSecret
    BY <1>1 DEF Tick, Current, Nothing
  <2>2. QED
    BY <1>1, <2>1, SecretsGo DEF Tick, TypeInv, Types
<1>2. ASSUME NEW r \in Requests, NEW c \in Clients, NEW p \in SUBSET Permissions,
             GenReuse(r, c, p)
      PROVE  PutByOne'
  <2> DEFINE q == [Idle EXCEPT !.stage = "sign", !.client = c, !.perms = p,
                               !.secret = Current(c)]
  <2>1. /\ req' = [req EXCEPT ![r] = q]
        /\ UNCHANGED <<store, tokens, drawn, late, ended, early>>
    BY <1>2 DEF GenReuse, Start
  <2>2. q.stage = "sign" /\ q.secret = Current(c)
    BY DEF Idle
  <2>3. q.secret \in drawn \cup {NoSecret}
    BY <2>2 DEF PutByOne, Known
  <2>4. QED
    BY <2>1, <2>2, <2>3, RequestMoves
<1>3. ASSUME NEW r \in Requests, NEW c \in Clients, NEW p \in SUBSET Permissions,
             NEW k \in Secrets, GenDraw(r, c, p, k)
      PROVE  PutByOne'
  <2> USE <1>3 DEF GenDraw, Start, TypeInv, Types
  <2>1. /\ req'[r].stage = "put" /\ req'[r].secret = k /\ k \notin drawn
        /\ \A s \in Requests \ {r} : req'[s] = req[s]
    BY DEF Idle
  <2>2. Known'
    BY <2>1 DEF PutByOne, Known, Current
  <2>3. SettledUnlessEarly'
    BY <2>1 DEF PutByOne, SettledUnlessEarly, Outstanding, Known
  <2>4. DiesWithToken' /\ LogOutIsFinal'
    BY DEF PutByOne, DiesWithToken, LogOutIsFinal, Current
  <2>5. ReadInTime' /\ AcceptedMatches'
    BY <2>1 DEF PutByOne, ReadInTime, AcceptedMatches
  <2>6. QED
    BY <2>2, <2>3, <2>4, <2>5 DEF PutByOne
<1>4. ASSUME NEW r \in Requests, GenPut(r)
      PROVE  PutByOne'
  <2>1. req[r].client \in Clients /\ req[r].secret \in Secrets
    BY <1>4 DEF GenPut, Go, TypeInv, Types, Held, Request
  <2>2. \A s \in Requests : \/ req'[s] = req[s]
                            \/ req'[s] = [req[s] EXCEPT !.stage = "sign"]
    BY <1>4 DEF GenPut, Go, TypeInv, Types
  <2>3. Outstanding(req[r].secret)
    BY <1>4 DEF GenPut, Go, Outstanding
  <2>4. QED
    BY <1>4, <2>1, <2>2, <2>3, SecretIsPut DEF GenPut
<1>5. ASSUME NEW r \in Requests, GenSign(r)
      PROVE  PutByOne'
  <2>1. PICK t : t = Signed(r)
    OBVIOUS
  <2>2. /\ t.sub = req[r].client /\ t.secret = req[r].secret
        /\ t.exp = NumericDate(now + Life) /\ t.sub \in Clients
        /\ t.secret \in Secrets
    BY <1>5, <2>1 DEF Signed, GenSign, Finish, TypeInv, Types, Held, Request
  <2>3. /\ tokens' = tokens \cup {t}
        /\ UNCHANGED <<store, drawn, late, ended, now>>
        /\ early' = early \cup {u \in {t} : Outstanding(u.secret)}
        /\ req' = [req EXCEPT ![r] = Idle] /\ req[r].stage = "sign"
    BY <1>5, <2>1 DEF GenSign, Finish
  <2>4. \A s \in Requests : req'[s] = req[s] \/ req'[s] = Idle
    BY <2>3 DEF TypeInv, Types
  <2>5. Known'
    BY <2>2, <2>3, <2>4 DEF PutByOne, Known, Current, TypeInv, Types
  <2>6. SettledUnlessEarly'
    BY <2>3, <2>4 DEF PutByOne, SettledUnlessEarly, Outstanding
  <2>7. Current(t.sub) = t.secret => store[t.sub].until < t.exp + Second
    <3>1. now + Life < t.exp + Second
      BY <2>2, NumericDateBounds, TimeAssumption DEF TypeInv, Types
    <3>2. t.exp \in Nat /\ now + Life \in Nat /\ store[t.sub].until \in Nat
      BY <2>2, NumericDateBounds, TimeAssumption DEF TypeInv, Types
    <3>3. Current(t.sub) = t.secret => store[t.sub].until <= now + Life
      BY <2>2 DEF TypeInv, LiveInTime
    <3>4. QED
      BY <3>1, <3>2, <3>3, TimeAssumption
  <2>8. DiesWithToken' /\ LogOutIsFinal'
    BY <2>3, <2>7 DEF PutByOne, DiesWithToken, LogOutIsFinal, Current
  <2>9. ReadInTime' /\ AcceptedMatches'
    BY <2>3, <2>4 DEF PutByOne, ReadInTime, AcceptedMatches
  <2>10. QED
    BY <2>5, <2>6, <2>8, <2>9 DEF PutByOne
<1>6. ASSUME NEW r \in Requests, NEW t \in tokens \cup Unissued,
             NEW p \in SUBSET Permissions, VerifyRead(r, t, p)
      PROVE  PutByOne'
  <2> DEFINE q == [Idle EXCEPT !.stage = "verify", !.client = t.sub, !.perms = p,
                               !.secret = Current(t.sub), !.tok = t, !.readAt = now]
  <2>1. /\ req' = [req EXCEPT ![r] = q]
        /\ UNCHANGED <<store, tokens, drawn, late, ended, early>>
    BY <1>6 DEF VerifyRead, Start
  <2>2. /\ q.stage = "verify" /\ q.secret = Current(t.sub)
        /\ q.tok = t /\ q.readAt = now
    BY DEF Idle
  <2>3. t.sub \in Clients /\ (t.secret # NoSecret => t \in tokens)
    BY DEF TypeInv, Types, Token, Unissued
  <2>4. q.secret \in drawn \cup {NoSecret}
    BY <2>2, <2>3 DEF PutByOne, Known
  <2>5. ASSUME q.secret = q.tok.secret, q.secret # NoSecret, q.tok \notin early
        PROVE  q.readAt < q.tok.exp + Second
    <3>1. t \in tokens \ early /\ Current(t.sub) = t.secret
      BY <2>2, <2>3, <2>5
    <3>2. now \in Nat /\ store[t.sub].until \in Nat /\ t.exp \in Nat
      BY <2>3, <3>1 DEF TypeInv, Types, Token
    <3>3. now < store[t.sub].until /\ store[t.sub].until < t.exp + Second
      BY <2>2, <2>3, <2>5, <3>1 DEF TypeInv, LiveInTime, PutByOne, DiesWithToken
    <3>4. QED
      BY <2>2, <3>2, <3>3, TimeAssumption
  <2>6. QED
    BY <2>1, <2>2, <2>4, <2>5, RequestMoves
<1>7. ASSUME NEW r \in Requests, VerifyCheck(r)
      PROVE  PutByOne'
  <2>1. PICK v \in {"accepted", "forbidden", "rejected"} :
          Go(r, "verify", v) /\ (v = "accepted" => req[r].secret = req[r].tok.secret)
    BY <1>7 DEF VerifyCheck, Verdict, Parses
  <2> DEFINE q == [req[r] EXCEPT !.stage = v]
  <2>2. /\ req' = [req EXCEPT ![r] = q] /\ req[r].stage = "verify"
        /\ UNCHANGED <<store, tokens, drawn, late, ended, early>>
    BY <1>7, <2>1 DEF VerifyCheck, Go
  <2>3. /\ q.stage = v /\ q.secret = req[r].secret
        /\ q.tok = req[r].tok /\ q.readAt = req[r].readAt
    BY DEF TypeInv, Types, Request
  <2>4. q.secret \in drawn \cup {NoSecret}
    BY <2>2, <2>3 DEF PutByOne, Known
  <2>5. q.secret = q.tok.secret /\ q.secret # NoSecret /\ q.tok \notin early
          => q.readAt < q.tok.exp + Second
    BY <2>2, <2>3 DEF PutByOne, ReadInTime
  <2>6. QED
    BY <2>1, <2>2, <2>3, <2>4, <2>5, RequestMoves
<1>8. ASSUME NEW r \in Requests, NEW t \in tokens \cup Unissued, RevokeRead(r, t)
      PROVE  PutByOne'
  <2> DEFINE q == [Idle EXCEPT !.stage = "revoke", !.client = t.sub,
                               !.secret = Current(t.sub), !.tok = t]
  <2>1. /\ req' = [req EXCEPT ![r] = q]
        /\ UNCHANGED <<store, tokens, drawn, late, ended, early>>
    BY <1>8 DEF RevokeRead, Start
  <2>2. q.stage = "revoke" /\ q.secret = Current(t.sub)
    BY DEF Idle
  <2>3. t.sub \in Clients
    BY DEF TypeInv, Types, Token, Unissued
  <2>4. q.secret \in drawn \cup {NoSecret}
    BY <2>2, <2>3 DEF PutByOne, Known
  <2>5. QED
    BY <2>1, <2>2, <2>4, RequestMoves
<1>9. ASSUME NEW r \in Requests, RevokeCheck(r)
      PROVE  PutByOne'
  <2> DEFINE q == [Idle EXCEPT !.stage = "delete", !.client = req[r].client]
  <2>1. CASE req' = [req EXCEPT ![r] = q]
    <3>1. q.stage = "delete" /\ q.secret = NoSecret
      BY DEF Idle
    <3>2. QED
      BY <1>9, <2>1, <3>1, RequestMoves DEF RevokeCheck
  <2>2. CASE Finish(r, "revoke")
    BY <1>9, <2>2, SecretsGo DEF RevokeCheck, Finish, TypeInv, Types
  <2>3. QED
    BY <1>9, <2>1, <2>2 DEF RevokeCheck
<1>10. ASSUME NEW r \in Requests, RevokeDelete(r)
       PROVE  PutByOne'
  <2>1. req[r].client \in Clients
    BY DEF TypeInv, Types, Request
  <2>2. QED
    BY <1>10, <2>1, KeyIsDeleted DEF RevokeDelete, Finish, TypeInv, Types
<1>11. ASSUME NEW r \in Requests, Resend(r) \/ WriteFails(r)
       PROVE  PutByOne'
  <2>1. \A m \in late' : \/ m \in late \/ m.secret = NoSecret
                         \/ req[r].stage = "put" /\ m.secret = req[r].secret
    BY <1>11 DEF Resend, WriteFails, CommandOf
  <2>2. \A s \in Requests : req'[s] = req[s] \/ req'[s] = Idle
    BY <1>11 DEF Resend, WriteFails, Finish, TypeInv, Types
  <2>3. UNCHANGED <<store, tokens, drawn, ended, early>>
    BY <1>11 DEF Resend, WriteFails
  <2>4. QED
    BY <2>1, <2>2, <2>3, SecretsGo DEF TypeInv, Types
<1>12. ASSUME NEW m \in late, Arrive(m)
       PROVE  PutByOne'
  <2>1. /\ late' \subseteq late /\ UNCHANGED <<tokens, drawn, early, req>>
        /\ m.client \in Clients /\ m.secret \in Secrets \cup {NoSecret}
    BY <1>12 DEF Arrive, TypeInv, Types, Command
  <2>2. CASE m.secret # NoSecret /\ Set(m.client, m.secret) /\ UNCHANGED ended
    <3>1. Outstanding(m.secret)
      BY <2>2 DEF Outstanding
    <3>2. QED
      BY <2>1, <2>2, <3>1, SecretIsPut
  <2>3. CASE DeleteKey(m.client)
    BY <2>1, <2>3, KeyIsDeleted
  <2>4. QED
    BY <1>12, <2>2, <2>3 DEF Arrive
<1>13. ASSUME NEW m \in late, Lose(m)
       PROVE  PutByOne'
  BY <1>13, SecretsGo DEF Lose, TypeInv, Types
<1>14. ASSUME NEW r \in Requests, Return(r)
       PROVE  PutByOne'
  BY <1>14, SecretsGo DEF Return, Finish, TypeInv, Types
<1>15. CASE UNCHANGED vars
  BY <1>15, SecretsGo DEF vars, TypeInv, Types
<1>16. QED
  BY <1>1, <1>2, <1>3, <1>4, <1>5, <1>6, <1>7, <1>8, <1>9, <1>10, <1>11, <1>12,
     <1>13, <1>14, <1>15 DEF Next, GenToken, VerifyToken, RevokeToken

\* The inductive invariant holds, however often commands are sent again.
THEOREM Invariance == Spec => [](TypeInv /\ PutByOne)
<1>1. Init => TypeInv /\ PutByOne
  BY TypesInit, PutByOneInit DEF TypeInv
<1>2. TypeInv /\ PutByOne /\ [Next]_vars => (TypeInv /\ PutByOne)'
  BY TypesStep, PutByOneStep DEF TypeInv
<1>3. QED
  BY <1>1, <1>2, PTL DEF Spec

\* Logging out is final for every token that was signed once no SET of its
\* secret could still reach Redis, however log-ins, log-outs and late commands
\* interleave.
THEOREM LogOutFinal == Spec => []LogOutIsFinal
<1>1. TypeInv /\ PutByOne => LogOutIsFinal
  BY DEF PutByOne
<1>2. QED
  BY <1>1, Invariance, PTL

\* No verification of such a token that starts a second past its ExpiresAt
\* accepts, whatever the leeway.
THEOREM LeewayIdle == Spec => []LeewayNeverExtends
<1>1. ASSUME TypeInv, PutByOne
      PROVE  LeewayNeverExtends
  <2> SUFFICES ASSUME NEW r \in Requests, req[r].stage = "accepted",
                      req[r].tok \in tokens \ early
               PROVE  req[r].readAt < req[r].tok.exp + Second
    BY DEF LeewayNeverExtends
  <2>1. req[r].tok.secret # NoSecret
    BY <1>1, NoSecretAssumption DEF TypeInv, Types, Token
  <2>2. req[r].secret = req[r].tok.secret
    BY <1>1 DEF PutByOne, AcceptedMatches
  <2>3. QED
    BY <1>1, <2>1, <2>2 DEF PutByOne, ReadInTime
<1>2. QED
  BY <1>1, Invariance, PTL

-----------------------------------------------------------------------------
(***************************************************************************)
(* Tokens implements Sessions.                                             *)
(***************************************************************************)

Quiet == {"idle", "put", "sign", "revoke", "delete"}

\* A request that verifies nothing asks nothing.
LEMMA AskOfQuiet ==
  ASSUME NEW q, q.stage \in Quiet
  PROVE  AskOf(q) = "none"
BY DEF AskOf, Quiet

\* A step that moves requests between stages of no verification.
LEMMA AskUnchanged ==
  ASSUME \A s \in Requests : \/ req'[s] = req[s]
                             \/ req[s].stage \in Quiet /\ req'[s].stage \in Quiet
  PROVE  Ask' = Ask
<1>1. \A s \in Requests : AskOf(req'[s]) = AskOf(req[s])
  BY AskOfQuiet
<1>2. Ask' = [s \in Requests |-> AskOf(req'[s])]
  BY DEF Ask
<1>3. QED
  BY <1>1, <1>2 DEF Ask

\* A step after which fewer tokens are in force.  Those of a client share its
\* secret, hence leave together.
LEMMA TokensRetire ==
  ASSUME tokens' = tokens, Honoured' \subseteq Honoured,
         Unsettled' \subseteq Unsettled, Ask' = Ask
  PROVE  [S!Next]_(S!vars)
<1> DEFINE R == Honoured \ Honoured'
<1>1. \A t, u \in Honoured : t \in R /\ t.sub = u.sub => u \in R
  BY DEF Honoured
<1>2. Honoured' = Honoured \ R
  OBVIOUS
<1>3. (tokens \ Honoured)' = (tokens \ Honoured) \cup R
  BY DEF Honoured
<1>4. S!Retire(R)
  BY <1>1, <1>2, <1>3 DEF S!Retire
<1>5. QED
  BY <1>4 DEF S!Next

\* A secret whose SET is outstanding is put: the tokens that it signed replace
\* the others of the client.
LEMMA TokensRestored ==
  ASSUME TypeInv, NEW c \in Clients, NEW k \in Secrets, Outstanding(k), Set(c, k),
         tokens' = tokens, Unsettled' \subseteq Unsettled, Ask' = Ask
  PROVE  [S!Next]_(S!vars)
<1>1. store'[c].secret = k /\ \A d \in Clients \ {c} : store'[d] = store[d]
  BY SetType DEF TypeInv
<1>2. \A t \in tokens : t.sub \in Clients
  BY DEF TypeInv, Types, Token
<1>3. CASE store[c].secret = k
  <2>1. Honoured' \subseteq Honoured
    BY <1>1, <1>2, <1>3 DEF Honoured
  <2>2. QED
    BY <2>1, TokensRetire
<1>4. CASE store[c].secret # k
  <2> DEFINE R == Honoured' \ Honoured
  <2>1. R = {t \in tokens : t.sub = c /\ t.secret = k}
    BY <1>1, <1>2, <1>4 DEF Honoured
  <2>2. R \subseteq S!Of(c, (tokens \ Honoured) \cap Unsettled)
    BY <2>1 DEF S!Of, Honoured, Unsettled
  <2>3. Honoured' = (Honoured \ S!Of(c, Honoured)) \cup R
    BY <1>1, <1>2, <1>4 DEF S!Of, Honoured
  <2>4. (tokens \ Honoured)' = ((tokens \ Honoured) \ R) \cup S!Of(c, Honoured)
    BY <1>1, <1>2, <1>4 DEF S!Of, Honoured
  <2>5. S!Restore(c, R)
    BY <2>2, <2>3, <2>4 DEF S!Restore
  <2>6. QED
    BY <2>5 DEF S!Next
<1>5. QED
  BY <1>3, <1>4

\* A step that leaves tokens, Redis and the commands on the way alone, and puts
\* no request at "put".
LEMMA TokensUnchanged ==
  ASSUME TypeInv, PutByOne, UNCHANGED <<store, tokens>>, late' \subseteq late,
         \A s \in Requests : \/ req'[s] = req[s]
                             \/ req[s].stage # "put" /\ req'[s].stage # "put"
  PROVE  /\ Honoured' = Honoured /\ (tokens \ Honoured)' = tokens \ Honoured
         /\ Unsettled' \subseteq Unsettled
         /\ late' = late => Unsettled' = Unsettled
BY DEF Honoured, Unsettled, Outstanding

\* The initial states are those of Sessions.
LEMMA SessionsInit == Init => S!Init
<1> SUFFICES ASSUME Init PROVE S!Init
  OBVIOUS
<1>1. Honoured = {} /\ tokens \ Honoured = {} /\ Unsettled = {}
  BY DEF Init, Honoured, Unsettled
<1>2. Ask = [r \in Requests |-> "none"]
  BY AskOfQuiet, IdleFields DEF Init, Ask, Quiet
<1>3. QED
  BY <1>1, <1>2 DEF S!Init

\* A step that asks or answers is a step of one request.
LEMMA AskMoves ==
  ASSUME TypeInv, NEW r \in Requests, NEW q, req' = [req EXCEPT ![r] = q]
  PROVE  Ask' = [Ask EXCEPT ![r] = AskOf(q)]
<1>1. Ask' = [s \in Requests |-> AskOf(req'[s])]
  BY DEF Ask
<1>2. /\ req'[r] = q
      /\ \A s \in Requests \ {r} : req'[s] = req[s]
  BY DEF TypeInv, Types
<1>3. /\ AskOf(req'[r]) = AskOf(q)
      /\ \A s \in Requests \ {r} : AskOf(req'[s]) = AskOf(req[s])
  BY <1>2
<1>4. QED
  BY <1>1, <1>3 DEF Ask

\* Every step is one of Sessions, or a stutter.
LEMMA SessionsStep ==
  ASSUME TypeInv, PutByOne, [Next]_vars
  PROVE  [S!Next]_(S!vars)
<1> USE IdleFields DEF Quiet
<1>1. CASE Tick
  <2>1. Honoured' \subseteq Honoured
    BY <1>1, NoSecretAssumption
       DEF Tick, Honoured, Current, Nothing, TypeInv, Types, Token
  <2>2. Unsettled' \subseteq Unsettled /\ Ask' = Ask
    BY <1>1, AskUnchanged DEF Tick, Unsettled, Outstanding
  <2>3. QED
    BY <1>1, <2>1, <2>2, TokensRetire DEF Tick
<1>2. ASSUME NEW r \in Requests, NEW q, req' = [req EXCEPT ![r] = q],
             UNCHANGED <<store, tokens, late>>,
             req[r].stage \in Quiet \ {"put"}, q.stage \in Quiet \ {"put"}
      PROVE  [S!Next]_(S!vars)
  <2>1. \A s \in Requests : req'[s] = IF s = r THEN q ELSE req[s]
    BY <1>2 DEF TypeInv, Types
  <2>2. Ask' = Ask
    BY <1>2, <2>1, AskUnchanged
  <2>3. QED
    BY <1>2, <2>1, <2>2, TokensUnchanged DEF S!vars
<1>3. ASSUME NEW r \in Requests, NEW c \in Clients, NEW p \in SUBSET Permissions,
             GenReuse(r, c, p)
      PROVE  [S!Next]_(S!vars)
  <2> DEFINE q == [Idle EXCEPT !.stage = "sign", !.client = c, !.perms = p,
                               !.secret = Current(c)]
  <2>1. q.stage = "sign" /\ req' = [req EXCEPT ![r] = q] /\ req[r].stage = "idle"
    BY <1>3 DEF GenReuse, Start, Idle
  <2>2. QED
    BY <1>2, <1>3, <2>1 DEF GenReuse
<1>4. ASSUME NEW r \in Requests, NEW c \in Clients, NEW p \in SUBSET Permissions,
             NEW k \in Secrets, GenDraw(r, c, p, k)
      PROVE  [S!Next]_(S!vars)
  <2>1. /\ req'[r].stage = "put" /\ req'[r].secret = k /\ k \notin drawn
        /\ req[r].stage = "idle"
        /\ \A s \in Requests \ {r} : req'[s] = req[s]
    BY <1>4 DEF GenDraw, Start, Idle, TypeInv, Types
  <2>2. \A t \in tokens : t.secret # k
    BY <2>1 DEF PutByOne, Known
  <2>3. Unsettled' = Unsettled
    BY <1>4, <2>1, <2>2 DEF GenDraw, Unsettled, Outstanding
  <2>4. Honoured' = Honoured /\ (tokens \ Honoured)' = tokens \ Honoured
    BY <1>4 DEF GenDraw, Honoured
  <2>5. Ask' = Ask
    BY <2>1, AskUnchanged
  <2>6. QED
    BY <2>3, <2>4, <2>5 DEF S!vars
<1>5. ASSUME NEW r \in Requests, GenPut(r)
      PROVE  [S!Next]_(S!vars)
  <2>1. /\ req[r].client \in Clients /\ req[r].secret \in Secrets
        /\ req[r].stage = "put" /\ req'[r].stage = "sign"
        /\ \A s \in Requests \ {r} : req'[s] = req[s]
    BY <1>5 DEF GenPut, Go, TypeInv, Types, Held, Request
  <2>2. Outstanding(req[r].secret)
    BY <2>1 DEF Outstanding
  <2>3. Unsettled' \subseteq Unsettled
    BY <1>5, <2>1 DEF GenPut, Unsettled, Outstanding
  <2>4. Ask' = Ask
    BY <2>1, AskUnchanged
  <2>5. QED
    BY <1>5, <2>1, <2>2, <2>3, <2>4, TokensRestored DEF GenPut
<1>6. ASSUME NEW r \in Requests, GenSign(r)
      PROVE  [S!Next]_(S!vars)
  <2>1. PICK t : t = Signed(r)
    OBVIOUS
  <2>2. /\ tokens' = tokens \cup {t} /\ store' = store /\ late' = late
        /\ req[r].stage = "sign" /\ req' = [req EXCEPT ![r] = Idle]
    BY <1>6, <2>1 DEF GenSign, Finish
  <2>3. \A s \in Requests : req'[s] = IF s = r THEN Idle ELSE req[s]
    BY <2>2 DEF TypeInv, Types
  <2>4. Ask' = Ask
    BY <2>2, <2>3, AskUnchanged
  <2>5. Honoured' = IF Current(t.sub) = t.secret THEN Honoured \cup {t} ELSE Honoured
    BY <2>2 DEF Honoured, Current
  <2>6. Unsettled' = IF Outstanding(t.secret) THEN Unsettled \cup {t} ELSE Unsettled
    <3>1. \A k : Outstanding(k)' <=> Outstanding(k)
      BY <2>2, <2>3 DEF Outstanding
    <3>2. QED
      BY <2>2, <3>1 DEF Unsettled
  <2>7. CASE t \in tokens
    BY <2>2, <2>4, <2>5, <2>6, <2>7 DEF S!vars, Honoured, Unsettled, Current
  <2>8. CASE t \notin tokens
    <3>1. t \notin Honoured \cup (tokens \ Honoured)
      BY <2>8 DEF Honoured
    <3>2. \/ /\ Honoured' = Honoured \cup {t}
             /\ (tokens \ Honoured)' = tokens \ Honoured
          \/ /\ Honoured' = Honoured
             /\ (tokens \ Honoured)' = (tokens \ Honoured) \cup {t}
      BY <2>2, <2>5, <2>8, <3>1
    <3>3. S!Issue(t)
      BY <2>4, <2>6, <3>1, <3>2 DEF S!Issue
    <3>4. t \in Honoured' \cup (tokens \ Honoured)'
      BY <2>2
    <3>5. QED
      BY <3>3, <3>4 DEF S!Next
  <2>9. QED
    BY <2>7, <2>8
<1>7. ASSUME NEW r \in Requests, NEW t \in tokens \cup Unissued,
             NEW p \in SUBSET Permissions, VerifyRead(r, t, p)
      PROVE  [S!Next]_(S!vars)
  <2> DEFINE q == [Idle EXCEPT !.stage = "verify", !.client = t.sub, !.perms = p,
                               !.secret = Current(t.sub), !.tok = t, !.readAt = now]
  <2>1. /\ q.stage = "verify" /\ q.secret = Current(t.sub) /\ q.tok = t
        /\ req' = [req EXCEPT ![r] = q] /\ req[r].stage = "idle"
    BY <1>7 DEF VerifyRead, Start, Idle
  <2>2. AskOf(req[r]) = "none"
    BY <2>1, AskOfQuiet
  <2>3. Ask' = [Ask EXCEPT ![r] = AskOf(q)]
    BY <2>1, AskMoves
  <2>4. /\ Honoured' = Honoured /\ (tokens \ Honoured)' = tokens \ Honoured
        /\ Unsettled' = Unsettled
    <3>1. \A s \in Requests : req'[s] = IF s = r THEN q ELSE req[s]
      BY <2>1 DEF TypeInv, Types
    <3>2. QED
      BY <1>7, <2>1, <3>1, TokensUnchanged DEF VerifyRead
  <2>5. CASE t \in tokens
    <3>1. t.secret # NoSecret
      BY <2>5, NoSecretAssumption DEF TypeInv, Types, Token
    <3>2. AskOf(q) = IF Current(t.sub) # t.secret THEN "out"
                     ELSE IF Current(t.sub) = NoSecret THEN "unknown" ELSE "in_force"
      BY <2>1 DEF AskOf
    <3>3. t \in Honoured <=> Current(t.sub) = t.secret
      BY <2>5 DEF Honoured, Current
    <3>4. AskOf(q) = IF t \in Honoured THEN "in_force" ELSE "out"
      BY <3>1, <3>2, <3>3
    <3>5. S!Ask(r, t)
      BY <2>2, <2>3, <2>4, <2>5, <3>4 DEF Ask, S!Ask
    <3>6. t \in Honoured \cup (tokens \ Honoured)
      BY <2>5
    <3>7. QED
      BY <3>5, <3>6 DEF S!Next
  <2>6. CASE t \in Unissued
    <3>1. t.secret = NoSecret /\ t.sub \in Clients
      BY <2>6 DEF Unissued
    <3>2. AskOf(q) = IF Current(t.sub) = NoSecret THEN "unknown" ELSE "out"
      BY <2>1, <3>1 DEF AskOf
    <3>3. Current(t.sub) = NoSecret => S!Of(t.sub, Honoured) = {}
      BY NoSecretAssumption DEF S!Of, Honoured, Current, TypeInv, Types, Token
    <3>4. S!AskUnissued(r, t.sub)
      BY <2>2, <2>3, <2>4, <3>2, <3>3 DEF Ask, S!AskUnissued
    <3>5. QED
      BY <3>1, <3>4 DEF S!Next
  <2>7. QED
    BY <2>5, <2>6
<1>8. ASSUME NEW r \in Requests, VerifyCheck(r)
      PROVE  [S!Next]_(S!vars)
  <2>1. PICK v \in {"accepted", "forbidden", "rejected"} :
          Go(r, "verify", v) /\ (v = "accepted" => req[r].secret = req[r].tok.secret)
    BY <1>8 DEF VerifyCheck, Verdict, Parses
  <2> DEFINE q == [req[r] EXCEPT !.stage = v]
  <2>2. /\ q.stage = v /\ req[r].stage = "verify" /\ req' = [req EXCEPT ![r] = q]
        /\ \A s \in Requests : req'[s] = IF s = r THEN q ELSE req[s]
    BY <2>1 DEF Go, TypeInv, Types, Request
  <2>3. /\ AskOf(req[r]) \in {"in_force", "unknown", "out"}
        /\ v = "accepted" => AskOf(req[r]) \in {"in_force", "unknown"}
    BY <2>1, <2>2 DEF AskOf
  <2>4. AskOf(q) = IF v = "accepted" THEN "accepted" ELSE "refused"
    BY <2>2 DEF AskOf
  <2>5. Ask' = [Ask EXCEPT ![r] = AskOf(q)]
    BY <2>2, AskMoves
  <2>6. /\ Honoured' = Honoured /\ (tokens \ Honoured)' = tokens \ Honoured
        /\ Unsettled' = Unsettled
    BY <1>8, <2>2, TokensUnchanged DEF VerifyCheck
  <2>7. S!Answer(r)
    BY <2>3, <2>4, <2>5, <2>6 DEF Ask, S!Answer
  <2>8. QED
    BY <2>7 DEF S!Next
<1>9. ASSUME NEW r \in Requests, NEW t \in tokens \cup Unissued, RevokeRead(r, t)
      PROVE  [S!Next]_(S!vars)
  <2> DEFINE q == [Idle EXCEPT !.stage = "revoke", !.client = t.sub,
                               !.secret = Current(t.sub), !.tok = t]
  <2>1. q.stage = "revoke" /\ req' = [req EXCEPT ![r] = q] /\ req[r].stage = "idle"
    BY <1>9 DEF RevokeRead, Start, Idle
  <2>2. QED
    BY <1>2, <1>9, <2>1 DEF RevokeRead
<1>10. ASSUME NEW r \in Requests, RevokeCheck(r)
       PROVE  [S!Next]_(S!vars)
  <2> DEFINE q == [Idle EXCEPT !.stage = "delete", !.client = req[r].client]
  <2>1. CASE req' = [req EXCEPT ![r] = q]
    <3>1. q.stage = "delete"
      BY DEF Idle
    <3>2. QED
      BY <1>2, <1>10, <2>1, <3>1 DEF RevokeCheck
  <2>2. CASE Finish(r, "revoke")
    BY <1>2, <1>10, <2>2 DEF RevokeCheck, Finish
  <2>3. QED
    BY <1>10, <2>1, <2>2 DEF RevokeCheck
<1>11. ASSUME NEW c \in Clients, DeleteKey(c), tokens' = tokens,
              Unsettled' \subseteq Unsettled, Ask' = Ask
       PROVE  [S!Next]_(S!vars)
  <2>1. /\ Current(c)' = NoSecret
        /\ \A d \in Clients \ {c} : store'[d] = store[d]
    BY <1>11, DelType DEF DeleteKey, TypeInv, Current
  <2>2. Honoured' \subseteq Honoured
    BY <1>11, <2>1, NoSecretAssumption DEF Honoured, Current, TypeInv, Types, Token
  <2>3. QED
    BY <1>11, <2>2, TokensRetire
<1>12. ASSUME NEW r \in Requests, RevokeDelete(r)
       PROVE  [S!Next]_(S!vars)
  <2>1. /\ req[r].stage = "delete" /\ req[r].client \in Clients
        /\ \A s \in Requests : req'[s] = IF s = r THEN Idle ELSE req[s]
    BY <1>12 DEF RevokeDelete, Finish, TypeInv, Types, Request
  <2>2. Unsettled' \subseteq Unsettled /\ Ask' = Ask
    BY <1>12, <2>1, AskUnchanged DEF RevokeDelete, Unsettled, Outstanding
  <2>3. QED
    BY <1>11, <1>12, <2>1, <2>2 DEF RevokeDelete
<1>13. ASSUME NEW r \in Requests, Resend(r) \/ WriteFails(r)
       PROVE  [S!Next]_(S!vars)
  <2>1. /\ req[r].stage \in {"put", "delete"}
        /\ \A s \in Requests : req'[s] = req[s] \/ (s = r /\ req'[s] = Idle)
    BY <1>13 DEF Resend, WriteFails, Finish, TypeInv, Types
  <2>2. Ask' = Ask
    BY <2>1, AskUnchanged
  <2>3. /\ UNCHANGED <<store, tokens>>
        /\ \A m \in late' : \/ m \in late \/ m.secret = NoSecret
                            \/ req[r].stage = "put" /\ m.secret = req[r].secret
    BY <1>13 DEF Resend, WriteFails, CommandOf
  <2>4. \A k : Outstanding(k)' => Outstanding(k)
    BY <2>1, <2>3 DEF Outstanding
  <2>5. Unsettled' \subseteq Unsettled
    BY <2>3, <2>4 DEF Unsettled
  <2>6. Honoured' \subseteq Honoured
    BY <2>3 DEF Honoured
  <2>7. QED
    BY <2>2, <2>3, <2>5, <2>6, TokensRetire
<1>14. ASSUME NEW m \in late, Arrive(m)
       PROVE  [S!Next]_(S!vars)
  <2>1. /\ late' \subseteq late /\ UNCHANGED <<tokens, req>>
        /\ m.client \in Clients /\ m.secret \in Secrets \cup {NoSecret}
    BY <1>14 DEF Arrive, TypeInv, Types, Command
  <2>2. Unsettled' \subseteq Unsettled /\ Ask' = Ask
    BY <2>1, AskUnchanged DEF Unsettled, Outstanding
  <2>3. CASE m.secret # NoSecret /\ Set(m.client, m.secret)
    <3>1. Outstanding(m.secret)
      BY <2>3 DEF Outstanding
    <3>2. QED
      BY <2>1, <2>2, <2>3, <3>1, TokensRestored
  <2>4. CASE DeleteKey(m.client)
    BY <1>11, <2>1, <2>2, <2>4
  <2>5. QED
    BY <1>14, <2>3, <2>4 DEF Arrive
<1>15. ASSUME NEW m \in late, Lose(m)
       PROVE  [S!Next]_(S!vars)
  <2>1. late' \subseteq late /\ UNCHANGED <<store, tokens, req>>
    BY <1>15 DEF Lose
  <2>2. Ask' = Ask
    BY <2>1, AskUnchanged
  <2>3. Honoured' \subseteq Honoured /\ Unsettled' \subseteq Unsettled
    BY <2>1, TokensUnchanged
  <2>4. QED
    BY <2>1, <2>2, <2>3, TokensRetire
<1>16. ASSUME NEW r \in Requests, Return(r)
       PROVE  [S!Next]_(S!vars)
  <2>1. /\ req[r].stage \in {"accepted", "forbidden", "rejected"}
        /\ req' = [req EXCEPT ![r] = Idle]
        /\ \A s \in Requests : req'[s] = IF s = r THEN Idle ELSE req[s]
    BY <1>16 DEF Return, Finish, TypeInv, Types
  <2>2. AskOf(req[r]) \in {"accepted", "refused"} /\ AskOf(Idle) = "none"
    BY <2>1, AskOfQuiet DEF AskOf
  <2>3. Ask' = [Ask EXCEPT ![r] = "none"]
    <3>1. Ask' = [Ask EXCEPT ![r] = AskOf(Idle)]
      BY <2>1, AskMoves
    <3>2. QED
      BY <2>2, <3>1
  <2>4. /\ Honoured' = Honoured /\ (tokens \ Honoured)' = tokens \ Honoured
        /\ Unsettled' = Unsettled
    BY <1>16, <2>1, TokensUnchanged DEF Return
  <2>5. S!Forget(r)
    BY <2>2, <2>3, <2>4 DEF Ask, S!Forget
  <2>6. QED
    BY <2>5 DEF S!Next
<1>17. CASE UNCHANGED vars
  BY <1>17, TokensUnchanged, AskUnchanged DEF vars, S!vars
<1>18. QED
  BY <1>1, <1>3, <1>4, <1>5, <1>6, <1>7, <1>8, <1>9, <1>10, <1>12, <1>13, <1>14,
     <1>15, <1>16, <1>17 DEF Next, GenToken, VerifyToken, RevokeToken

\* The tokener implements Sessions: a settled token out of force stays out, and
\* verifications accept a token of the service only if it was in force when
\* they looked, another only while its client has none in force.
THEOREM SessionsImplemented == Spec => SessionsKept
<1>1. Init => S!Init
  BY SessionsInit
<1>2. TypeInv /\ PutByOne /\ [Next]_vars => [S!Next]_(S!vars)
  BY SessionsStep
<1>3. QED
  BY <1>1, <1>2, Invariance, PTL DEF Spec, SessionsKept, S!Spec
=============================================================================
