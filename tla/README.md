# bloqsenjin, modelled in TLA+

bloqsenjin is the backend of a marketplace: people sign in with an e-mail
address, keep profiles, publish bloqs (products), offer them and order them.
This directory holds its TLA+ models, the TLC runs that check them and the
proofs TLAPS checks. Source references are relative to the repository
(`src/...` in `PROJECT.json`). The repository has no tests and a README of one
line: the code is the only reference.

## 1. The system

```
            HTTP                          statements, one by one
 client ──► /log /sign /types ──► AuthServer ──► BloqsAuther ──► MySQL (credentials)
                                     │    └────► VerifyEmail ──► DNS, mail servers
                                     └──► BloqsTokener ──► Redis (secrets of tokens)
 client ──► /preference /profile /bloq /offer /order ──► RESTServer ──► handlers ──► MySQL
                                                              │  └──► Save (pictures, `convert`)
                                                              └──► AuthServer.Validate
 operator ─► create_super ──► BloqsAuther
```

Every HTTP request runs in a goroutine of its own. **No operation uses a
transaction or a lock**: a handler is a sequence of commands to MySQL and Redis,
and the commands of different handlers interleave. `net/http` recovers a panic
of a handler; a panic in any other goroutine ends the process. The long-running
servers (`cmd/rest`, `cmd/auth`, `cmd/serveall`) serve all requests with one
handler object; the serverless entry points (`api/*.go`) build a new one for each
request.

| part | state | operations | hard behaviour | what makes it correct |
|---|---|---|---|---|
| Tokener (`internal/auth/token.go`), secrets in Redis (`internal/db/redis.go`) | one secret per client with a TTL of 7 minutes; tokens are signed with it and live 7 minutes plus 5 s of leeway | GenToken, VerifyToken, RevokeToken | read–decide–write over Redis by many requests; expiry; commands resent or given up | a log-out is final for the tokens whose secret no late command can bring back; the leeway never lengthens a session; what is accepted was in force |
| Credentials (`internal/auth/auth.go`), `create_super` | a row per address: hash, super flag | SignInBasic, SignOutBasic, GrantSuper, CheckAccessBasic, IsSuperBasic | check, then act, in separate statements; a command that fails half-way and cleans up by address | one row per address; a created credential stays; nobody becomes super by accident |
| Auth service and routes (`pkg/auth`) | none of their own | SignIn, LogIn, LogOut, IsSuper, Validate | the flag is read three times, an error is ignored | a token says what its credential is |
| E-mail verification (`pkg/email/verify.go`) | goroutines, two channels, a WaitGroup, a Once | VerifyEmail | a verifier and a probe per MX record, a select over ready channels, spinning, servers that never answer | no false "valid"; an answer in the end |
| Image upload (`pkg/image/image.go`) | files, a variable shared by three workers, a channel, a WaitGroup | Save | a data race on the command; a send nobody receives | a name only for a finished picture; Save returns |
| REST dispatch (`pkg/rest/server.go`, `pkg/http/router.go`) | the field `segments` of the server | AttachHandler's handler, Seg, SegLen | the field is shared by all requests | a request acts on its own path |
| Orders | a table | Create, Read, Delete | n inserts for one order; Delete without an id deletes all of the client's | an order is whole; a delete takes what it names |
| Profiles | profile, credential_profiles, likes, follows, shares | Create, Read, Delete, YourProfile | a limit checked before the insert; hand-written roll-backs; ten deletes in a row; goroutines that append to one slice | a profile has its owner; nothing dangles; the limit holds |
| Bloqs, Offers, Preferences | their tables | Create, Read | ownership checked before use; roll-backs; weights read, incremented, written | offers name the seller's bloqs; every pair of preferences has a share |
| Permissions, Domains, Cookies, Router, Pages | none | pure functions | boundaries | a call passes only with what it needs |
| Configuration (`pkg/conf`) | two package variables, the configuration and its schema | Compile, GetConf | recompiled per serverless request while others read, each variable more than once | a request is judged by a configuration of its time |

Not attached, unused or generated: `models/org.go`, `internal/db/d1.go`,
`proto/*.pb.go`, `pkg/pages`. `PROJECT.json` lists every component with its status
and the hazards at their lines.

## 2. The modules

| module | models | composed with |
|---|---|---|
| `Tokens` | the tokener over Redis | maps to `Sessions` |
| `Sessions` | what the auth service promises about tokens, abstractly | |
| `Credentials` | `BloqsAuther`, sign-in, log-in up to the token, `create_super` | |
| `EmailVerify` | `VerifyEmail` and its goroutines | |
| `ImageSave` | `Save` and its workers | |
| `RestServer` | a request from path to answer, with the `/order` handlers, beside those for other resources | |
| `Marketplace` | preferences, profiles, bloqs, offers and orders, made and deleted | |
| `MarketReads` | GET /profile and GET /offer beside them, goroutines and all | extends `Marketplace` |
| `Permissions` | the names of permissions and what they stand for | |
| `Configuration` | Compile, GetConf and the Origin check that calls it | |
| `AuthRoutes` | a request from its arrival to its answer, through /sign, /log, a REST call or a fortune | composes `Configuration`, `Credentials`, `Permissions` and `Sessions` |
| `TokensProofs`, `CredentialsProofs`, `EmailVerifyProofs`, `ImageSaveProofs`, `RestServerProofs`, `MarketplaceProofs` | the proofs about these modules | each extends its module |
| `MarketReadsProofs` | the proofs about `MarketReads` | extends it and `MarketplaceProofs` |
| `AuthRoutesProofs` | the proofs about `AuthRoutes` | extends it, instantiates `CredentialsProofs` |
| `MCTokens`, `MCCredentials`, `MCRestServer`, `MCMarketplace`, `MCAuthRoutes` | symmetry sets and scenes for TLC | |

An operation marked "Mutant" in a module is a plausible bug in the definition that
follows it. It is part of no specification; it is there so that one can see that
each property notices something.

### Tokens

`store` is Redis: for each client a secret and the time it expires at. `drawn`
holds what `rand.Read` has returned, `tokens` the tokens signed, `req` the handlers.
GenToken is four steps (`GenReuse` or `GenDraw` for the GET, `GenPut` for the SET
EX, `GenSign`); VerifyToken is `VerifyRead` (the GET in keyfunc) and `VerifyCheck`;
RevokeToken is `RevokeRead`, `RevokeCheck` and `RevokeDelete` (the DEL). `Tick` moves
the clock and drops what expired. The part of LogIn before GenToken (the password) is in
`Credentials`; the only state that passes between the two is the request itself. The
composition with the credentials and the routes is `AuthRoutes`.

go-redis sends a command again when no reply comes, up to three times unless its URL says
otherwise (`sign.go:261`), and a copy that it gave up may still be on its way. `Resend` puts such
a copy in `late`, any number of times; `WriteFails` is a command that returns an error and may
take effect later; `Arrive` applies a late command, even after its request has ended and leaving
another copy behind, and `Lose` is that it never arrives.

`KeyDB.Get` stores a nil under a key that Redis does not have (`redis.go:39`), so the check of
keyfunc for a missing secret (`token.go:184`) is never taken and the token is verified under an
empty secret. `Unissued` are the tokens that the service did not issue, made with that; they can be
presented like any other, and `Parses` accepts them while their subject has no secret.

`ended` and `early` are history variables: the tokens of a client that existed when a log-out
deleted its secret, and the tokens that were signed while a SET of their secret could still
reach Redis. The latter are another log-in's, which found the secret that the first SET had stored,
or those of a log-in whose first SET was given up: a late copy of it restarts the TTL and
undoes a log-out (run `tokens_resend`), so `LogOutIsFinal` and `LeewayNeverExtends` speak of the others.

Assumptions: one clock for the servers and Redis; `rand.Read` never returns the same secret
twice; the signature of one secret never verifies under another.

`Sessions` says what is promised: a token is honoured from its issue, or is dead from birth; the
honoured tokens of a client die together; what is dead stays dead, unless it is *unsettled*, that is a
write of its secret is outstanding; a verification accepts a token of the service only if it was
honoured when it looked, and another only if its client had none honoured then. It deliberately does
not promise how long a token is honoured, because the code does not keep the promise a token makes of
itself (run `tokens_race`). Under the mapping, the honoured tokens are those whose secret is in Redis,
and the unsettled ones those whose secret a request at `put` or a late SET may still store.

### Credentials

`rows` is the table, with a history field `by` that names the operation that inserted
the row. Each request performs one operation: an HTTP sign-in, a log-in, or a run of
`create_super` (SignInBasic, GrantSuper, and SignOutBasic when that fails). Each SELECT,
INSERT, UPDATE and DELETE is a step. A log-in goes through CheckAccessBasic, again
within IsSuperBasic, then the flag: once for IsSuper, whose error the route ignores, and
once more in LogIn. A log-in asks for permissions by name, looked up in the list that
IsSuper's answer selects, or states them in a gRPC body, where no list is consulted; the
property about permissions is about names. `Fails` covers statements that return an
error, the INSERT that took effect nevertheless, the panic of a SELECT that fails as a
query (`internal/db/mariadb.go:91` closes rows that are nil), and `create_super` dying
between two statements. A run of `create_super` that dies before its row is inserted ends as `failed`, a
later one as `panicked`: only the latter vouches for a super user.

### EmailVerify

`main` is VerifyEmail's own position, `verifier` and `probe` the two goroutines of each
MX record, `wg`, `once`, `ch` and `wait` what their names say (`ch` counts its closings,
for the second one would panic). The domain list is a blacklist of any of the hosts.
The SMTP conversation is one step that ends as accepted or failed, and may never be
taken. Since the waiter closes `wait` once the verifiers have returned, both channels can be ready after
a success, and `Select` takes either, as `select` does: an address that a server took may be answered
"could not be validated" (`verify.go:66-67`). No property says otherwise.

### ImageSave

`save` is Save's own position, `cmd` the shared variable, `run` what each worker took
out of it. The race is modelled by its outcomes: a worker runs its own conversion (the
build kept it in a register) or what the variable holds; two workers that run one
conversion may both pass the check that it is fresh, and both may succeed or fail.
The suffix of the upload is one more format; when it equals a supported one two workers
write one file, which changes nothing that is checked.

### RestServer

`header` is the slice header in `s.segments` of each server: its pointer and its length,
each tagged with the request that stored it, for they are stored separately.
`StoreWord` is the assignment, `Copy` the argument `*s`, `Read`/`Delete` the handlers of
`/order`, `ReadLen`, `ReadLast` and `Answer` the three looks at the field after Read. One server serves
/preference, /profile, /bloq, /offer and /order (`rest/http/server.go:26-32`), and all store into its one
field: `Elsewhere` is a request for another resource, which matters here only by the words it stores.
Read with `?myself` shows the client's orders only, if the token is good.

A path has any number of segments, each an identifier, a name or empty. A mix of one request's
pointer with another's length may reach beyond the array of the pointer, where there may be
anything (`SegAt`); the first segment is always within it, since the segments of a path without any
are the end of a slice of two parts (`Array`). Any requests may share a server, which covers both
deployments.

### Marketplace

`table` holds the identifiers in each table, `weight` the table shares, `orders` how many
rows each order has. A request makes at most one thing and is its identifier, so a
thing's owner, creator and items are fields of the request that made it. Every statement is a
step: `Insert` and `Check` are the common forms, `Delete` goes through `Doomed`, the tables
of Profile.Delete in their order, and `Undo` and `UndoRest` are the roll-backs. An
INSERT, UPDATE or DELETE may fail with or without having taken effect, and `Abandon` is the
client that goes away: the statements use its context, so no roll-back works after that.

What is kept although it looks wrong, because the code does it: `Limit` never refuses (the
SELECT names no column, and `internal/db/mariadb.go:47` returns no row for it, so the
"maximum limit of this resource" of `profile.go:259` is never reached); `UndoRest` never
removes the owner of a profile whose likes failed (the column `account_id` does not
exist); `Person` accepts an owned profile that is gone; a deletion takes every order of the
client, not those of the profile; `Order` accepts an offer that does not exist; a list of
bloqs fails as a whole when one has no picture row, and stays so when the roll-back of that
bloq fails.

`List` and `Look` are Bloq.Read and personMakesOffer: the two differ in the bloqs they list
(`Listed`) and in that the second asks YourProfile first and, alone among its callers, finds that
an owned profile is gone.

Abstracted: texts, prices, dates and colours; levels of profiles; filters of lists; a category
after it was checked. The tables languages, follows, related and reviews are never written to.

`Cancel` is DELETE /order: one DELETE by customer, and by identifier if the path has one, so it takes
all rows of the client's orders or at most one, also of an order that is being inserted.
`WeightBacked` counts the profiles that were answered 201 with the likes of a pair, and goes on counting
them when they are deleted: Profile.Delete removes likes and lowers no share (`profile.go:606-652`).

### MarketReads

`read` is the state of each reader. GET /profile/@ reads the rows of credential_profiles
(`Mine`) and starts a goroutine for each, whose position is `go`. `SelectProfile` stores the error
of its SELECT in the one variable of all goroutines, so `CheckError` may look at another's: a
profile that was found can be left out, and one that was not is never added, for its rows are
its own. `append` is three steps, `ReadLen`, `WriteSlot` and `StoreLen`, and overlapping ones lose
profiles. `MineShown` is the return of `wait.Wait`; the error is shadowed and the answer always
200. A SELECT that fails as a query panics in the goroutine, where nobody recovers it:
`ProcessEnds` then cuts off every request of the process.

`Person1` and `Person2` are GET /profile/<id>, which panics when the client owns a profile that is
gone; `People` is GET /profile, where every row is scanned into the same variables and the list
shows its last row as often as there are rows; `OfferRows` and `OfferRow` are GET /offer.
A reader sees rows that other requests have inserted and not answered yet: `ShownStays` says what
becomes of them.

### Permissions, Configuration

`Permissions` has no state: bits are members of a set. The name `read_profile` stands for
CREATE_PROFILE, as in the code, so READ_PROFILE is only had by asking for nothing, or for `default`.

`Configuration` has the file (`file`), the two package variables, `cnf` and the schema `sch`, and what
each request in the process has done about them (`load`). A long-running server compiles at its start and
never looks at the file again. A serverless entry point compiles for each request, and `auth.Server` and
`rest.Server` once more, while the requests beside it read. Compile is four steps. `CompileSchema` assigns
`sch`, nil if it fails; `ReadConf` reads the file; `Assign` stores what was read, a nil map included; and
`Validate` reads both variables again: it may judge another request's configuration, or panic because the
schema is nil by then. A configuration that passes no schema is in force until the next Compile.

GetConf looks at `cnf` twice, to see that it is not nil (`conf.go:40`) and to take it (`conf.go:45`).
`GetConfFinds` is the first look when it finds one, and `GetConfEnds`, a part of the step that uses
the value, the second: a Compile in between that could not read the file leaves none, the look-up
falls to its default, and any Origin is admitted. A build may merge the two loads; the model allows both.
`mine` and `met` are history: the configurations a request read, and those read by requests it
overlapped, the lack of one included.

### AuthRoutes

`http` is each request as its route sees it: its position, how its Origin was judged, the token it
presents, the permissions it needs, its answer. `alive` is history, the tokens in force when it
arrived. The work on credentials is `Credentials` (`Service` is any step of it); the tokens are
`Sessions`, the specification that `Tokens` is proved to implement: `GenToken` issues one,
`Look` and `Verdict` are VerifyToken, `Look` and `Delete` RevokeToken, `TokensEnd` stands for an
expired secret or one replaced by an overlapping log-in, `TokensReturn` for a SET that arrives late. A
call presents a token of the service or one that the service did not issue (`Unissued`); such a one is
looked at as `Sessions` says, and passes only while its client has no token in force. The properties
that relate a token to a log-in speak of tokens of the service.

What is kept because the code does it: DELETE /sign turns every token away, and without one stores
a status through a nil pointer (`sign.go:162`): no credential is ever deleted by a request. A request
with a cookie is always refused, for a cookie that is received has no MaxAge (`cookie.go:74`), and panics
if the configuration sets an expiry (`cookie.go:66`). A route reads the configuration once more when it
answers, and panics if there is none by then, although its work is done. A fortune whose Compile
failed goes on.

Abstracted: gRPC bodies need HTTP/2, which Go serves only over TLS, and the servers speak plain HTTP;
calls of GetConf that follow each other in one step of a route may be merged, but a later one may find
no configuration where the first found one (`ConfiguredOften`); the keys that the schema
requires are there; the cookie that SetToken writes expires within a millisecond and comes back from
nobody. A REST call is only what its handler does about the token; the rest is `Marketplace`.

## 3. The runs

| run | checks | bounds | shows |
|---|---|---|---|
| `tokens` | TypeOK, LogOutIsFinal, LeewayNeverExtends, SessionsKept | 1 client, 2 requests, 2 secrets, TTL 1 tick, second 2, leeway 3, clock to 2; at most 2 tokens signed and 1 late command at a time (`Few`) | about 800 000 states: secrets expire, are replaced and come back with late commands while requests hold them |
| `tokens_resend` | LoggedOut, violated | no bound on late commands, clock to 3 | a SET that arrives after a log-out undoes it |
| `tokens_race` | HonouredUntilExpiry, violated | clock at 0: nothing expires | of two overlapping log-ins one token is dead from birth |
| `email` | TypeOK, ValidHasWitness, NotValidatedAfterAll, SuccessEndsAll | 3 MX records | all interleavings of 8 goroutines |
| `email_stuck` | Answered, violated | 2 MX records, conversations end | an address that every server refuses is never answered |
| `credentials` | TypeOK, OneRow, CreatedStays, SuperIsDeliberate, SuperTokenDeserved | 1 address, 2 passwords, 3 operations | the checks survive the statements between them and their use |
| `image` | TypeOK, NamedAfterAll, DistinctRunsComplete, ReturnsUnlessFailed | the 3 formats of the code | the race loses a format only when a conversion is run twice |
| `image_stuck` | Returns, violated | the same | one failed conversion and Save never returns |
| `rest` | TypeOK, NeverStale, OneWasAskedFor, OwnServerOwnPath | 2 requests for any resource, 2 servers, 2 orders, 2 customers, paths of up to 3 segments | what sharing a server can and cannot do |
| `rest_shared` | DeletesOnlyNamed, violated | 2 requests, 1 customer, paths with an order or without a segment | a word stored by a GET /order without a segment makes DELETE /order/<id> delete all orders of the client |
| `market` | TypeOK, CreatedStays, InOnesOwnName, OffersOwnBloqs, ListNeedsPictures, DeletedIsGone, WeightBacked, LikesLeaveTrace, and of readers ReadsTypeOK, MineIsMine, ShownStays | 3 requests and a reader in 16 scenes, 2 clients, 2 things of each kind from before | about 2.4 million states: what a client was told or shown has happened, though no statement is safe from failing |
| `routes` | TypeOK, OriginJudgedByOverlap, AnswersAreTrue, ManagersWereSuper, LogOutEnds | 3 operations on one credential, 2 other calls, in 8 scenes (of two log-ins beside a log-out, both after the sign-in: `AfterSignIn`); 3 configurations, 2 mishaps | about 950 000 states: a request is judged by a configuration, and answered by credentials and tokens, of its own time |

Why the bounds are enough. *Tokens*: clients do not interact, since every key is
per client; a second secret shows a replacement and a second request the
interleaving; two ticks allow a second lifetime, and a late SET starts a third; the leeway is
longer than a second, so it would show any token it lengthens, and a second is longer than a
lifetime, so that the truncation of dates loses time; two tokens of one secret are signed with and
without a SET outstanding; a command on its way may arrive any number of times, and which one is on
its way changes as often as a command is lost. *Credentials*: addresses do not interact; two operations race and a third
observes or cleans up; two passwords tell a row from its replacement. *EmailVerify*: three
records suffice for one blacklisted host, one success and one failure, in any order.
*ImageSave*: no bound, three workers is what the code starts. *RestServer*: two requests
race on one server or have one each; two orders tell "the order" from "all orders"; paths of none to
three segments have an even and an odd number of them beyond the first. *Marketplace*: the scenes name three operations
at a time, one scene for each hazard; a request that changed nothing is forgotten and may come again;
two clients tell one's own from another's, two preferences make a pair, a weight of one is
the limit so that it is reached, two rows make an order that can be half there; the reader of one's
own profiles has two or three goroutines, and two already lose each other's append. *AuthRoutes*:
two log-ins overlap with a log-out, and a REST call with a log-in by a super user or another and
with the end and the return of its token; a call and a log-out with tokens that were not issued
overlap too; in all but one of the serverless scenes two requests compile side by side; the configurations are a
blacklist, a whitelist and one that passes no schema; two mishaps let the file change and
one Compile fail in any order. The theorems of section 4 state
every invariant above without these bounds. Deadlock
is not checked: every operation ends, or, in the findings, hangs, and that is what the
liveness properties are about.

Fairness. `EmailVerify` and `ImageSave` assume weak fairness of each goroutine: the Go
scheduler preempts goroutines, so one that can take a step takes it, and a spinning one
starves nobody. A mail server owes nothing: `Spec` of `EmailVerify` has no fairness of
`ProbeEnds`, and only the run that shows the hang grants it (`FairServers`), to show that
slow servers are not the reason. A conversion is a local process and ends. No other
module states liveness.

## 4. What is proved

`TokensProofs`, for any clients, requests, secrets, permissions, TTL, leeway, length of a
second and clock, from the assumptions named in `Tokens`:

- `TypeCorrect`: `Spec => []TypeOK`. TypeOK is not inductive; `Held` adds what a request's
  stage says about what it holds.
- `Invariance`: the inductive invariant `TypeInv /\ PutByOne`, however often commands are sent again
  and however late they arrive. Its heart is `SettledUnlessEarly`: a token whose secret a SET may still
  store is an early one, for SETs of a secret are sent by the one log-in that drew it, which signs last.
  Hence a command that arrives brings back only early tokens, whatever Redis dropped or a log-out
  deleted in between. `DiesWithToken` relates the two clocks: the secret of a token that is not early
  was stored before the token was dated and is not stored again, so it expires less than a second
  after the token's ExpiresAt. `Known` makes a secret that is drawn a new one.
- `LogOutFinal`, `LeewayIdle`: `[]LogOutIsFinal` and `[]LeewayNeverExtends` follow.
- `SessionsImplemented`: `Spec => SessionsKept`, the refinement, by classifying what each
  action does to the honoured and the unsettled tokens: it signs one, retires all of a client,
  restores unsettled ones, or looks at one.

`CredentialsProofs`, for any addresses, passwords and number of operations, and from no
assumption on them:

- `Invariance`: the inductive invariant
  `TypeOK /\ StageFits /\ Unicity /\ RowsMatch /\ Kept /\ LogInsVouched`. `Kinds` first sorts the
  steps: one that leaves the table alone, a step of a log-in, an INSERT, the UPDATE of
  GrantSuper, the DELETE of SignOutBasic. UNIQUE alone gives `Unicity`. `RowsMatch` says a row
  is as the operation that inserted it asked, `Kept` that the row of an operation is there as
  long as it relies on it. The UPDATE and the DELETE are by address, not by row; from the
  three together the row they hit is the one that this run of create_super inserted
  (`OwnRow`), so no roll-back takes another's row, which is `Kept` again.
- `OneRowPerAddress`, `CreatedForGood`, `SuperDeliberate`: `[]OneRow`, `[]CreatedStays` and
  `[]SuperIsDeliberate` follow.
- `TokenDeserved`: `[]SuperTokenDeserved`. LogIn checks the password in one statement and reads
  the flag in a later one, so the row may be another by then. `Vouched` says what stays: the
  row that passed the check is there still, or the run of create_super that inserted it,
  with that very password, has panicked after its INSERT (`VouchedStays`); a later row that says super is then
  enough (`SuperDeserved`).

`EmailVerifyProofs`, for any number of MX records (`NAssumption`: a natural number; 0 is a domain
without records):

- `Invariance`: TypeOK with, among others, `Counted` (the counter of the WaitGroup is the number of
  verifiers that run), `ClosedByOnce` and `Witnessed`. TypeOK alone is not inductive: that `ch` is not closed twice needs `ClosedByOnce`.
- `ValidWitnessed`, `GivesUpAfterAll`: `wait` is closed only when no verifier runs
  (`WaitedForAll`), and the waiter starts only when all are started (`SelectsLast`); so the Adds cannot
  race the Wait.

`ImageSaveProofs`, for any finite set of formats (`FormatsAssumption`):

- `Invariance`: `Counted` again, `Assigned` (a worker that is about to run what `cmd` holds finds a
  conversion there), `Converted` (the file of the conversion it ran is there when it returns).
- `NamedLast`; `RaceLosesNothing`: runs that differ map the formats injectively into themselves, hence onto,
  and each value of the map is written.

`RestServerProofs`, for any requests, servers, orders, customers and finite paths
(`SegmentsAssumption`: the kinds of segments differ):

- `Invariance`: `WordsAreRecent` is its heart: what is found over a word that a request stored, it stored
  itself or a request that had not stored it when it began. Words are never taken away, only stored over,
  so this survives any interleaving; `NeverStale` is not inductive without it. `OwnWords` and `OwnForm`
  say of a request alone on its server that it finds its own path at each of its three looks.
- `NeverActsOnStale`, `AnswersWereAskedFor`, `AloneForItself` follow. `AnswersWereAskedFor` says no more than
  the code does: the identifier that is answered begins the path of some request, to whatever resource.

`MarketplaceProofs`, for any clients, requests and things from before, any scenes, and any limits
(`SceneAssumption`, `LimitsAssumption`: the column of weights holds at least 1):

- `Invariance`. Each property is about ends of requests, so each has a conjunct that follows the
  requests from statement to statement: `ProfileMade`, `BloqMade`, `OfferMade`, `PreferenceMade` and
  `OrderMade` say which rows are there from the first INSERT on; `OwnProfile` and `ItemsChecked` what a
  request has checked and goes on relying on, although the rows may go; `PicturesStay` that no roll-back
  takes the picture of a bloq that is listed; `LeftUnderWay` what a deletion has cleared after each of its
  ten statements, and that nobody begins to write in the name of a profile that lost its owner; `Backed`
  and `Traced` that a weight read is as good as one stored. `RowsSettled` ties rows to requests: one that
  was not there before is of a request past its checks. The lemmas before the theorem classify the steps
  (what a request at one stage may insert, remove or count) and are used for all conjuncts.
- `CreatedThingsStay`, `OwnNames`, `ItemsAreOwn`, `ListsHavePictures`, `DeletedProfilesAreGone`,
  `WeightsAreBacked`, `LikesAreTraced` follow. `WeightsAreBacked` compares a weight to the cardinality of
  the set of profiles that may have counted, which is why `Backed` says that this set is finite.

`MarketReadsProofs`, for any readers beside these, from finitely many things from before
(`IdentifiersAssumption`) and views that are operations of readers (`ViewsAssumption`):

- `ReadsInvariance`: the invariant of `Marketplace`, which the end of the process keeps (`Stops` is what it
  leaves: all requests cut off at once), with what each reader holds (`ReaderFits`), the slice its goroutines
  share (`SliceFits`) and what of it can be shown (`ShowsSlice`). `StoreLen` stores a length that was read earlier,
  so that the slice has room is not evident: `RoomLeft` maps the elements of the slice injectively to
  goroutines that have written, and one that has not written yet is none of these.
- `ReadsTypeCorrect`, `OwnProfilesShown`, `ShownIsKept` follow.
- `PromisesOutliveProcess`: all invariants of `Marketplace` hold of `ReadsSpec` too, by the same lemmas.

`AuthRoutesProofs`, for any addresses, passwords, requests, calls, configurations and mishaps
(`ScenesAssumption`: operations on credentials are not calls; `NamesAssumption`: what stands for
"none" is not a value, and names of permissions are known ones):

- `ImplementsCredentials`: `Spec => Creds!Spec`. Each step is one of `Credentials` or leaves its variables
  alone. `CredentialsProofs` is instantiated, so its invariant holds here without being proved again.
- `ImplementsSessions`: `Spec => Tok!Spec`. So the chain closes: `Tokens` implements `Sessions`, late commands and tokens that
  were not issued included, and the routes use no more of it.
- `Invariance`, which assumes the invariant of the credentials in the step. `MetIsShared` and `LoadedHasMet` are
  what makes the configuration in force one that all who run have met; `PresentedWasMade` and
  `LookedWasAlive` follow a token from its arrival to the verdict; `OkAfterRetiring` says that a
  confirmed log-out has retired what was alive, but for the unsettled tokens. `SchemaHasSchema` and the lemmas
  after it follow Compile through both variables.
- `LogOutsEnd` needs in addition that nothing retired is honoured (`TypeOK`). `ManagersAreSuper`
  joins `TokensMade` (a token is of the log-in that made it) with `SuperTokenDeserved` of the credentials.

Every invariant that a passing run checks is thus stated by a theorem, and so is the refinement
`SessionsKept`. Only model-checked, and why: `SuccessEndsAll` and `ReturnsUnlessFailed` are liveness under
fairness, out of the prover's reach. The properties of the five `violation` runs are false of the
code. No theorem needs induction over data: no module declares a recursive operator.

## 5. The plan

What is left, the most important first.

1. An abstract specification of `Marketplace`: an entity exists as a whole with its maker, or not at
   all, or belongs to a request that failed; `IInv` of `MarketplaceProofs` says what each step does to it, so
   that the refinement can be proved in that module.
2. AttachHandler's creation of tables, when serverless requests run it side by side.

## 6. Not modelled, and why

Request bodies, media types, redirects and texts: data the properties do not tell apart; of the status
codes only the classes in `Answers` are kept. The level of a profile: logarithms of durations,
on which nothing but the answer depends. The connections that every request opens and leaves
(`sign.go:256`): they belong to the libraries. `pkg/pages`: nothing uses it. `org.go`: attached to no
server. `d1.go`: empty methods. Generated code. The program a fortune runs: no state. The picture
server: reads files. Deployment of TLS, ports and flags.
