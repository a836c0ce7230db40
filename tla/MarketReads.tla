---------------------------- MODULE MarketReads -----------------------------
(***************************************************************************)
(* GET /profile and GET /offer beside the requests of Marketplace: readers *)
(* of several SELECTs each, which see what other requests have half done.  *)
(*                                                                         *)
(* GET /profile/@ starts a goroutine for every profile of the client.  They *)
(* share one error and one slice without a lock, and nobody recovers a     *)
(* panic in them: it ends the process, with all requests in it.            *)
(***************************************************************************)
EXTENDS Marketplace

CONSTANTS
  Readers,
  Views    \* what the requests and the readers ask for

VARIABLE read   \* the state of each reader

readVars == <<vars, read>>

ReadOps == {"mine", "person", "people", "offers", "none"}

ReadStages == {"idle", "search", "profile", "offer_rows", "shown", "over"}

\* Where a goroutine of GET /profile/@ is; "off" is none.
Goroutine == {"off", "select", "check", "append", "write", "store", "added", "done"}

\* at      the profile asked for, once one is
\* yours   the client owns it
\* err     the error the goroutines share
\* hit     the profiles whose row was found, until that is looked at
\* go      the goroutine of each profile
\* len0    the length of the slice when that goroutine read it
\* slots   the array of the slice, len its length
\* rows    the offers still to be looked up
\* shown   what the answer shows
Reading ==
  [op: ReadOps, stage: ReadStages, at: Ids \cup {NoRow}, yours: BOOLEAN, err: BOOLEAN,
   hit: SUBSET Ids, go: [Ids -> Goroutine], len0: [Ids -> Nat],
   slots: Seq(Ids \cup {NoRow}), len: Nat, rows: SUBSET Ids, shown: SUBSET Ids]

ASSUME ViewsAssumption == \A v \in Views : v.reads \in ReadOps

\* What is there before is finite, and -1 identifies nothing.
ASSUME IdentifiersAssumption == IsFiniteSet(Known) /\ NoRow \notin Ids

Unread(op) ==
  [op |-> op, stage |-> "idle", at |-> NoRow, yours |-> FALSE,
   err |-> FALSE, hit |-> {}, go |-> [i \in Ids |-> "off"],
   len0 |-> [i \in Ids |-> 0], slots |-> <<>>, len |-> 0, rows |-> {}, shown |-> {}]

ReadsInit ==
  /\ Init
  /\ \E v \in Views :
       /\ \A r \in Requests : req[r].op = v.ops[r]
       /\ read = [q \in Readers |-> Unread(v.reads)]

Shows(q, things) ==
  read' = [read EXCEPT ![q] = [Unread(@.op) EXCEPT !.stage = "shown", !.shown = things]]

\* An error, or a panic the HTTP server recovers.
Over(q) == read' = [read EXCEPT ![q] = [Unread(@.op) EXCEPT !.stage = "over"]]

Owned(c) == {p \in table.credential_profiles : Client(p) = c}

(***************************************************************************)
(* GET /profile/@.                                                         *)
(***************************************************************************)

\* Mutant: the slice is made with a length instead of a capacity.
MineMadeLong(q) ==
  /\ read[q].op = "mine" /\ read[q].stage = "idle"
  /\ \E c \in Clients :
       read' = [read EXCEPT ![q].stage = "search",
                  ![q].go = [p \in Ids |-> IF p \in Owned(c) THEN "select" ELSE "off"],
                  ![q].slots = [i \in 1..Cardinality(Owned(c)) |-> NoRow],
                  ![q].len = Cardinality(Owned(c))]

\* A goroutine for each row that says the client owns a profile; the slice is
\* empty and has room for all of them.
Mine(q) ==
  /\ read[q].op = "mine" /\ read[q].stage = "idle"
  /\ \E c \in Clients :
       read' = [read EXCEPT ![q].stage = "search",
                  ![q].go = [p \in Ids |-> IF p \in Owned(c) THEN "select" ELSE "off"],
                  ![q].slots = [i \in 1..Cardinality(Owned(c)) |-> NoRow]]

\* The SELECT of the profile stores its error where all of them do.
SelectProfile(q, p) ==
  /\ read[q].go[p] = "select"
  /\ \/ read' = [read EXCEPT ![q].go[p] = "check", ![q].err = FALSE,
                             ![q].hit = @ \cup ({p} \cap table.profile)]
     \/ read' = [read EXCEPT ![q].go[p] = "check", ![q].err = TRUE]

\* The error that is looked at may be another's.  personalAccount, which follows, reads
\* the likes, and only prints its errors.
CheckError(q, p) ==
  /\ read[q].go[p] = "check"
  /\ read' = [read EXCEPT ![q].hit = @ \ {p},
               ![q].go[p] = IF ~ read[q].err /\ p \in read[q].hit THEN "append" ELSE "done"]

\* append reads the slice, writes behind its end and stores the longer slice.
ReadLen(q, p) ==
  /\ read[q].go[p] = "append"
  /\ read' = [read EXCEPT ![q].go[p] = "write", ![q].len0[p] = read[q].len]

WriteSlot(q, p) ==
  /\ read[q].go[p] = "write"
  /\ read' = [read EXCEPT ![q].go[p] = "store", ![q].slots[read[q].len0[p] + 1] = p]

StoreLen(q, p) ==
  /\ read[q].go[p] = "store"
  /\ read' = [read EXCEPT ![q].go[p] = "added", ![q].len = read[q].len0[p] + 1,
                          ![q].len0[p] = 0]

\* Mutant: nobody waits for the goroutines.
MineShownEarly(q) ==
  /\ read[q].stage = "search"
  /\ read' = [read EXCEPT ![q].stage = "shown",
                          ![q].shown = {read[q].slots[i] : i \in 1..read[q].len}]

\* wait.Wait returns.
MineShown(q) ==
  /\ read[q].stage = "search"
  /\ \A p \in Ids : read[q].go[p] \in {"off", "added", "done"}
  /\ read' = [read EXCEPT ![q].stage = "shown",
                          ![q].shown = {read[q].slots[i] : i \in 1..read[q].len}]

(***************************************************************************)
(* GET /profile/<id>, GET /profile and GET /offer.                         *)
(***************************************************************************)

\* Is the profile the client's?  Without a token, or on an error, it is not.
Person1(q) ==
  /\ read[q].op = "person" /\ read[q].stage = "idle"
  /\ \E p \in Named("profile"), yours \in BOOLEAN :
       /\ yours => p \in table.credential_profiles
       /\ read' = [read EXCEPT ![q].stage = "profile", ![q].at = p, ![q].yours = yours]

\* The first of no rows is asked for when the client owns a profile that is gone.
Person2(q) ==
  /\ read[q].stage = "profile"
  /\ \/ (read[q].at \in table.profile \/ ~ read[q].yours)
          /\ Shows(q, {read[q].at} \cap table.profile)
     \/ Over(q)

\* All rows are scanned into the same variables: every entry of the list shows the
\* last profile.
People(q) ==
  /\ read[q].op = "people" /\ read[q].stage = "idle"
  /\ \/ \E p \in table.profile : Shows(q, {p})
     \/ table.profile = {} /\ Shows(q, {})
     \/ Over(q)

\* The rows of items name the offers.
OfferRows(q) ==
  /\ read[q].op = "offers" /\ read[q].stage = "idle"
  /\ \/ read' = [read EXCEPT ![q].stage = "offer_rows", ![q].rows = table.offersItems]
     \/ Over(q)

\* Each offer is read, and then its items; one that is gone, or whose time it is
\* not, is left out.
OfferRow(q) ==
  /\ read[q].stage = "offer_rows"
  /\ \/ \E o \in read[q].rows :
          \E found \in SUBSET ({o} \cap table.offers) :
            read' = [read EXCEPT ![q].rows = @ \ {o}, ![q].shown = @ \cup found]
     \/ read[q].rows = {} /\ Shows(q, read[q].shown)
     \/ Over(q)

(***************************************************************************)
(* A goroutine panics: a SELECT that fails as a query closes rows that are *)
(* nil.  The process ends, and another is started.                         *)
(***************************************************************************)

Cut(r) ==
  IF req[r].stage \in Writing THEN [req[r] EXCEPT !.stage = "error"]
  ELSE IF req[r].stage \in Checking THEN Idle(r, req[r].op) ELSE req[r]

ProcessEnds ==
  /\ \E q \in Readers, p \in Ids : read[q].go[p] \in {"select", "append"}
  /\ req' = [r \in Requests |-> Cut(r)]
  /\ read' = [q \in Readers |->
       IF read[q].stage \in {"shown", "over"} THEN read[q]
                                              ELSE [Unread(read[q].op) EXCEPT !.stage = "over"]]
  /\ UNCHANGED <<table, orders, weight>>

-----------------------------------------------------------------------------

Reads(q) ==
  \/ Mine(q) \/ MineShown(q)
  \/ \E p \in Ids :
       \/ SelectProfile(q, p) \/ CheckError(q, p)
       \/ ReadLen(q, p) \/ WriteSlot(q, p) \/ StoreLen(q, p)
  \/ Person1(q) \/ Person2(q) \/ People(q) \/ OfferRows(q) \/ OfferRow(q)

ReadsNext ==
  \/ Next /\ UNCHANGED read
  \/ ProcessEnds
  \/ \E q \in Readers : Reads(q) /\ UNCHANGED vars

ReadsSpec == ReadsInit /\ [][ReadsNext]_readVars

-----------------------------------------------------------------------------
(***************************************************************************)
(* Properties.                                                             *)
(***************************************************************************)

\* Every reader has its type, and a slice has room for what is appended to it.
ReadsTypeOK ==
  /\ read \in [Readers -> Reading]
  /\ \A q \in Readers : read[q].stage = "search" => read[q].len <= Len(read[q].slots)

\* GET /profile/@ (profile.go:468) shows only profiles that a goroutine found to be
\* the client's and added, none of them twice and none empty; appends that overlap
\* may lose some, never all.
MineIsMine ==
  \A q \in Readers : read[q].op = "mine" /\ read[q].stage = "shown" =>
    LET added == {p \in Ids : read[q].go[p] = "added"} IN
    /\ read[q].shown \subseteq added
    /\ Cardinality(read[q].shown) = read[q].len
    /\ added # {} => read[q].shown # {}

\* What a reader was shown without any transaction (profile.go:522, offer.go:342) is
\* there for good, unless its profile is deleted or, for what was shown before it
\* was answered, its creation failed.
ShownStays ==
  \A q \in Readers : \A x \in read[q].shown :
    LET offers == read[q].op = "offers" IN
    \/ x \in IF offers THEN table.offers ELSE table.profile
    \/ Deleting(IF offers THEN Creator(x) ELSE x)
    \/ x \in Requests /\ req[x].stage \in {"undo", "undo_all", "undo_rest", "error"}
=============================================================================
