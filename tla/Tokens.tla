------------------------------- MODULE Tokens -------------------------------
(***************************************************************************)
(* The bearer tokens of the auth service: BloqsTokener                     *)
(* (internal/auth/token.go) over the secrets kept in Redis                 *)
(* (internal/db/redis.go).                                                 *)
(*                                                                         *)
(* A token is signed with the secret of its subject.  There is one secret  *)
(* per client, created by the first log-in that finds none, which Redis    *)
(* drops after seven minutes; logging out deletes it.  GenToken,           *)
(* VerifyToken and RevokeToken run in HTTP handlers, one goroutine each,   *)
(* with no lock and no transaction: every Redis command is a step of its   *)
(* own and steps of different requests interleave.                         *)
(*                                                                         *)
(* A command whose reply does not come is sent again by go-redis, up to    *)
(* three times unless the DSN says otherwise (pkg/auth/http/sign.go:261),  *)
(* and the copy that was given up may still reach Redis, even after the    *)
(* request has ended.                                                      *)
(***************************************************************************)
EXTENDS Integers

CONSTANTS
  Clients,      \* subjects of tokens, the key "token:jwt:<client>" of each
  Requests,     \* handlers that may be running at the same time
  Secrets,      \* the values rand.Read may draw
  Permissions,  \* the permission bits
  NoSecret,     \* the empty secret, which Get returns for a missing key
  NoToken,
  Life,         \* seven minutes, in ticks: the TTL of a secret and of a token
  Second,       \* ticks of a second, the precision of a jwt.NumericDate
  Leeway,       \* the five seconds of jwt.WithLeeway, in ticks
  MaxTime       \* bound of the clock

ASSUME TimeAssumption ==
  /\ Life \in Nat \ {0} /\ Second \in Nat \ {0} /\ Leeway \in Nat
  /\ MaxTime \in Nat
ASSUME NoSecretAssumption == NoSecret \notin Secrets
ASSUME ClientsAssumption == Clients # {}

VARIABLES
  now,     \* the clock the servers and Redis share
  store,   \* Redis: the secret of each client and the time it expires at
  drawn,   \* the secrets rand.Read has returned so far
  tokens,  \* the tokens signed so far
  req,     \* the state of each request
  late,    \* the commands that were given up and may still reach Redis
  ended,   \* history: the tokens of a client that existed when a LogOut
           \* deleted the client's secret
  early    \* history: the tokens signed while a SET of their secret could
           \* still reach Redis

vars == <<now, store, drawn, tokens, req, late, ended, early>>

-----------------------------------------------------------------------------

Token == [sub: Clients, secret: Secrets, perms: SUBSET Permissions,
          nbf: Nat, exp: Nat]

\* A token that the service did not sign, made with the empty secret.  Its
\* dates are what its maker wrote: it is valid all the time.
Unissued == [sub: Clients, secret: {NoSecret}, perms: SUBSET Permissions,
             nbf: {0}, exp: {MaxTime}]

\* SET of a secret, and DEL, which names none.
Command == [client: Clients, secret: Secrets \cup {NoSecret}]

Stages == {"idle", "put", "sign",
           "verify", "accepted", "forbidden", "rejected",
           "revoke", "delete"}

Request == [stage: Stages, client: Clients, perms: SUBSET Permissions,
            secret: Secrets \cup {NoSecret}, tok: Token \cup Unissued \cup {NoToken},
            readAt: Nat]

\* A request that holds nothing.  The client is a don't-care.
Idle == [stage |-> "idle", client |-> CHOOSE c \in Clients : TRUE,
         perms |-> {}, secret |-> NoSecret, tok |-> NoToken,
         readAt |-> 0]

Nothing == [secret |-> NoSecret, until |-> 0]

\* jwt.NewNumericDate truncates to the second.
NumericDate(t) == t - (t % Second)

\* SET key secret EX 420, GET key and DEL key.
Set(c, k) == store' = [store EXCEPT ![c] = [secret |-> k, until |-> now + Life]]
Current(c) == store[c].secret
Del(c) == store' = [store EXCEPT ![c] = Nothing]

\* The command of a request at "put" or "delete".
CommandOf(q) == [client |-> q.client,
                 secret |-> IF q.stage = "put" THEN q.secret ELSE NoSecret]

\* A SET of k may still reach Redis.
Outstanding(k) ==
  \/ \E r \in Requests : req[r].stage = "put" /\ req[r].secret = k
  \/ \E m \in late : m.secret = k /\ k # NoSecret

\* Mutant: the signature is not looked at.
ParsesUnsigned(q) ==
  /\ q.tok.nbf - Leeway <= now
  /\ now < q.tok.exp + Leeway

\* ParseToken: the signature matches the secret keyfunc read, the empty one if
\* there was none, and the clock is within [nbf - Leeway, exp + Leeway).
Parses(q) ==
  /\ q.secret = q.tok.secret
  /\ q.tok.nbf - Leeway <= now
  /\ now < q.tok.exp + Leeway

-----------------------------------------------------------------------------

Init ==
  /\ now = 0
  /\ store = [c \in Clients |-> Nothing]
  /\ drawn = {}
  /\ tokens = {}
  /\ req = [r \in Requests |-> Idle]
  /\ late = {}
  /\ ended = {}
  /\ early = {}

\* Mutant: a secret is put without a TTL.
TickForever ==
  /\ now < MaxTime
  /\ now' = now + 1
  /\ UNCHANGED <<store, drawn, tokens, req, late, ended, early>>

\* Time passes, and Redis drops the secrets that expire.
Tick ==
  /\ now < MaxTime
  /\ now' = now + 1
  /\ store' = [c \in Clients |-> IF store[c].until <= now + 1 THEN Nothing
                                                             ELSE store[c]]
  /\ UNCHANGED <<drawn, tokens, req, late, ended, early>>

Start(r, q) ==
  /\ req[r].stage = "idle"
  /\ req' = [req EXCEPT ![r] = q]

Go(r, from, to) ==
  /\ req[r].stage = from
  /\ req' = [req EXCEPT ![r].stage = to]

Finish(r, from) ==
  /\ req[r].stage = from
  /\ req' = [req EXCEPT ![r] = Idle]

(***************************************************************************)
(* GenToken.                                                               *)
(***************************************************************************)

\* Mutant: the secret that was found is put again.
GenReusePuttingBack(r, c, p) ==
  /\ Current(c) # NoSecret
  /\ Start(r, [Idle EXCEPT !.stage = "put", !.client = c, !.perms = p,
                           !.secret = Current(c)])
  /\ UNCHANGED <<now, store, drawn, tokens, late, ended, early>>

\* The client has a secret: the token will be signed with it.
GenReuse(r, c, p) ==
  /\ Current(c) # NoSecret
  /\ Start(r, [Idle EXCEPT !.stage = "sign", !.client = c, !.perms = p,
                           !.secret = Current(c)])
  /\ UNCHANGED <<now, store, drawn, tokens, late, ended, early>>

\* The client has none: the request draws a new one.
GenDraw(r, c, p, k) ==
  /\ Current(c) = NoSecret
  /\ k \notin drawn
  /\ drawn' = drawn \cup {k}
  /\ Start(r, [Idle EXCEPT !.stage = "put", !.client = c, !.perms = p,
                           !.secret = k])
  /\ UNCHANGED <<now, store, tokens, late, ended, early>>

GenPut(r) ==
  /\ Go(r, "put", "sign")
  /\ Set(req[r].client, req[r].secret)
  /\ UNCHANGED <<now, drawn, tokens, late, ended, early>>

Signed(r) ==
  [sub |-> req[r].client, secret |-> req[r].secret, perms |-> req[r].perms,
   nbf |-> NumericDate(now), exp |-> NumericDate(now + Life)]

GenSign(r) ==
  /\ Finish(r, "sign")
  /\ tokens' = tokens \cup {Signed(r)}
  /\ early' = early \cup {t \in {Signed(r)} : Outstanding(t.secret)}
  /\ UNCHANGED <<now, store, drawn, late, ended>>

(***************************************************************************)
(* VerifyToken.                                                            *)
(***************************************************************************)

\* keyfunc reads the secret of the token's subject.  Get leaves a nil under a
\* missing key, so that keyfunc finds the key in the map and returns an empty
\* secret.
VerifyRead(r, t, p) ==
  /\ Start(r, [Idle EXCEPT !.stage = "verify", !.client = t.sub, !.perms = p,
                           !.secret = Current(t.sub), !.tok = t,
                           !.readAt = now])
  /\ UNCHANGED <<now, store, drawn, tokens, late, ended, early>>

Verdict(q) ==
  IF ~ Parses(q) THEN "rejected"
  ELSE IF q.perms \subseteq q.tok.perms THEN "accepted" ELSE "forbidden"

VerifyCheck(r) ==
  /\ Go(r, "verify", Verdict(req[r]))
  /\ UNCHANGED <<now, store, drawn, tokens, late, ended, early>>

(***************************************************************************)
(* RevokeToken.                                                            *)
(***************************************************************************)

RevokeRead(r, t) ==
  /\ Start(r, [Idle EXCEPT !.stage = "revoke", !.client = t.sub,
                           !.secret = Current(t.sub), !.tok = t])
  /\ UNCHANGED <<now, store, drawn, tokens, late, ended, early>>

RevokeCheck(r) ==
  /\ req[r].stage = "revoke"
  /\ \/ /\ Parses(req[r])
        /\ req' = [req EXCEPT ![r] = [Idle EXCEPT !.stage = "delete",
                                                 !.client = req[r].client]]
     \/ ~ Parses(req[r]) /\ Finish(r, "revoke")
  /\ UNCHANGED <<now, store, drawn, tokens, late, ended, early>>

\* The key of the subject is deleted, whatever secret it holds by now.
DeleteKey(c) ==
  /\ Del(c)
  /\ ended' = ended \cup {t \in tokens : t.sub = c}

RevokeDelete(r) ==
  /\ Finish(r, "delete")
  /\ DeleteKey(req[r].client)
  /\ UNCHANGED <<now, drawn, tokens, late, early>>

(***************************************************************************)
(* What the network does to a command.                                     *)
(***************************************************************************)

\* The reply does not come: go-redis sends the command again, and the first
\* copy has reached Redis, will, or never does.  The model lets it do so any
\* number of times.
Resend(r) ==
  /\ req[r].stage \in {"put", "delete"}
  /\ late' = late \cup {CommandOf(req[r])}
  /\ UNCHANGED <<now, store, drawn, tokens, req, ended, early>>

\* Put or Delete gives up and returns an error.
WriteFails(r) ==
  /\ \E s \in {"put", "delete"} : Finish(r, s)
  /\ late' = late \cup {CommandOf(req[r])}
  /\ UNCHANGED <<now, store, drawn, tokens, ended, early>>

\* A command that was given up reaches Redis.  Another copy of it may remain.
Arrive(m) ==
  /\ late' \in {late, late \ {m}}
  /\ \/ m.secret # NoSecret /\ Set(m.client, m.secret) /\ UNCHANGED ended
     \/ m.secret = NoSecret /\ DeleteKey(m.client)
  /\ UNCHANGED <<now, drawn, tokens, req, early>>

\* No copy of a command is left on the way.
Lose(m) ==
  /\ late' = late \ {m}
  /\ UNCHANGED <<now, store, drawn, tokens, req, ended, early>>

\* A verification has answered.  A request that ends in another way, or fails
\* before its first write (the token is malformed, Get or rand.Read returns an
\* error), leaves nothing behind and is idle at once.
Return(r) ==
  /\ \E s \in {"accepted", "forbidden", "rejected"} : Finish(r, s)
  /\ UNCHANGED <<now, store, drawn, tokens, late, ended, early>>

-----------------------------------------------------------------------------

GenToken(r) ==
  \/ \E c \in Clients, p \in SUBSET Permissions :
       \/ GenReuse(r, c, p)
       \/ \E k \in Secrets : GenDraw(r, c, p, k)
  \/ GenPut(r)
  \/ GenSign(r)

VerifyToken(r) ==
  \/ \E t \in tokens \cup Unissued, p \in SUBSET Permissions : VerifyRead(r, t, p)
  \/ VerifyCheck(r)

RevokeToken(r) ==
  \/ \E t \in tokens \cup Unissued : RevokeRead(r, t)
  \/ RevokeCheck(r)
  \/ RevokeDelete(r)

Next ==
  \/ Tick
  \/ \E m \in late : Arrive(m) \/ Lose(m)
  \/ \E r \in Requests :
       \/ GenToken(r)
       \/ VerifyToken(r)
       \/ RevokeToken(r)
       \/ Resend(r)
       \/ WriteFails(r)
       \/ Return(r)

Spec == Init /\ [][Next]_vars

-----------------------------------------------------------------------------
(***************************************************************************)
(* The refinement mapping: a token is in force while Redis holds the       *)
(* secret that signed it.                                                  *)
(***************************************************************************)

Honoured == {t \in tokens : store[t.sub].secret = t.secret}
Unsettled == {t \in tokens : Outstanding(t.secret)}

\* The state of the verification a request performs.
AskOf(q) ==
  IF q.stage = "verify"
    THEN IF q.secret # q.tok.secret THEN "out"
         ELSE IF q.secret = NoSecret THEN "unknown" ELSE "in_force"
  ELSE IF q.stage = "accepted" THEN "accepted"
  ELSE IF q.stage \in {"forbidden", "rejected"} THEN "refused"
  ELSE "none"

Ask == [r \in Requests |-> AskOf(req[r])]

S == INSTANCE Sessions
       WITH honoured <- Honoured, retired <- tokens \ Honoured,
            unsettled <- Unsettled, ask <- Ask

-----------------------------------------------------------------------------
(***************************************************************************)
(* Properties.                                                             *)
(***************************************************************************)

\* Every variable has its type.  A secret that Redis holds has not expired and
\* expires within seven minutes.
TypeOK ==
  /\ now \in Nat
  /\ store \in [Clients -> [secret: Secrets \cup {NoSecret}, until: Nat]]
  /\ drawn \subseteq Secrets
  /\ tokens \subseteq Token
  /\ req \in [Requests -> Request]
  /\ late \subseteq Command
  /\ ended \subseteq tokens /\ early \subseteq tokens
  /\ \A c \in Clients : Current(c) # NoSecret =>
       now < store[c].until /\ store[c].until <= now + Life

\* The leeway of five seconds (token.go:147) does not lengthen a session: a
\* verification (token.go:78) that reads the secret a second or more after the
\* token's ExpiresAt never accepts, because the secret was stored before the
\* token was dated and dies with it.  The exception are the tokens signed while
\* a SET of their secret could still reach Redis, by another log-in that found
\* the secret: a later copy of the SET gives it seven more minutes.
LeewayNeverExtends ==
  \A r \in Requests :
    req[r].stage = "accepted" /\ req[r].tok \in tokens \ early =>
      req[r].readAt < req[r].tok.exp + Second

\* LogOut is final for the tokens signed once no SET of their secret could
\* still reach Redis: after the key of a client is deleted (token.go:125), their
\* secret is never in Redis again, whatever log-ins were under way, however
\* often commands are sent again and however late they arrive.
LogOutIsFinal ==
  \A t \in ended \ early : Current(t.sub) # t.secret

\* The tokener keeps the promises of Sessions: a token once out of force stays
\* out (token.go:115), unless a SET of its secret is outstanding, a client's
\* tokens leave together, VerifyToken accepts a token of the service only if it
\* was in force when keyfunc looked (token.go:178), and any other only while
\* its subject has no token in force.
SessionsKept == S!Spec

\* DELETE "log out" (pkg/auth/http/log.go:204): a token is never honoured again
\* after a log-out of its client.  This is not so.
LoggedOut ==
  \A t \in ended : Current(t.sub) # t.secret

\* What a token says of itself (token.go:61): until ExpiresAt, it is honoured
\* unless its client logs out.
HonouredUntilExpiry ==
  \A t \in tokens :
    /\ now < t.exp
    /\ \A u \in ended : u.sub # t.sub
    => Current(t.sub) = t.secret
=============================================================================
