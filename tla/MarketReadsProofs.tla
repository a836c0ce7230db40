-------------------------- MODULE MarketReadsProofs --------------------------
(***************************************************************************)
(* Proofs about MarketReads, for any number of requests, readers and       *)
(* profiles: what Marketplace promises survives the end of the process,    *)
(* and a reader shows nothing that the tables never held.                  *)
(***************************************************************************)
EXTENDS MarketReads, MarketplaceProofs

-----------------------------------------------------------------------------
(***************************************************************************)
(* The inductive invariant.                                                *)
(***************************************************************************)

\* The requests under way or ended.
Busy == {r \in Requests : req[r].stage # "idle"}

\* Only finitely many requests have come.
FinitelyMany == IsFiniteSet(Busy)

\* A reader is only at stages of its own, and its goroutines run while it waits.
ReaderFits(v) ==
  /\ v.stage = "idle" => v.len = 0
  /\ v.stage = "search" => v.op = "mine"
  /\ v.stage = "profile" => v.op = "person"
  /\ v.stage = "offer_rows" => v.op = "offers"
  /\ v.stage # "search" => \A p \in Ids : v.go[p] \in {"off", "added", "done"}

Running(v) == {p \in Ids : v.go[p] # "off"}

\* The first n slots hold profiles.
Filled(v, n) == n <= Len(v.slots) /\ \A i \in 1..n : v.slots[i] # NoRow

\* The array has a slot for each goroutine.  A goroutine writes one slot, once it has
\* read a length; what a length covers is written, though perhaps by another.
SliceFits(v) ==
  /\ IsFiniteSet(Running(v)) /\ Len(v.slots) = Cardinality(Running(v))
  /\ \A i \in 1..Len(v.slots) :
       v.slots[i] # NoRow => v.go[v.slots[i]] \in {"store", "added"}
  /\ \A i, j \in 1..Len(v.slots) :
       v.slots[i] = v.slots[j] /\ v.slots[i] # NoRow => i = j
  /\ Filled(v, v.len)
  /\ \A p \in Ids :
       /\ v.go[p] = "write" => Filled(v, v.len0[p]) /\ v.len0[p] < Len(v.slots)
       /\ v.go[p] = "store" => Filled(v, v.len0[p] + 1)
       /\ v.go[p] = "added" => v.len > 0

\* GET /profile/@ shows its slice.
ShowsSlice(v) ==
  v.op = "mine" /\ v.stage = "shown" => v.shown = {v.slots[i] : i \in 1..v.len}

ReadersFit ==
  \A q \in Readers : ReaderFits(read[q]) /\ SliceFits(read[q]) /\ ShowsSlice(read[q])

\* The creation of x failed.
Failed(x) == x \in Requests /\ req[x].stage \in {"undo", "undo_all", "undo_rest", "error"}

\* A profile, or an offer, that was there stays, unless it is deleted or undone.
ProfileLasts(p) == p \in table.profile \/ Deleting(p) \/ Failed(p)

OfferLasts(o) == Fixed(o) /\ (o \in table.offers \/ Deleting(Creator(o)) \/ Failed(o))

\* Goroutines that found their profile.
Found == {"append", "write", "store", "added"}

\* So do those that a reader has found.
FoundLast ==
  \A q \in Readers : LET v == read[q] IN
    /\ \A p \in v.hit : ProfileLasts(p)
    /\ \A p \in Ids : v.go[p] \in Found => ProfileLasts(p)
    /\ \A x \in v.shown : IF v.op = "offers" THEN OfferLasts(x) ELSE ProfileLasts(x)

ReadsIInv ==
  IInv /\ FinitelyMany /\ ReadsTypeOK /\ ReadersFit /\ FoundLast

-----------------------------------------------------------------------------
(***************************************************************************)
(* The process ends: every request is cut off at once.                     *)
(***************************************************************************)

\* What each request is left with.
Stops ==
  /\ UNCHANGED <<table, orders, weight>>
  /\ req' \in [Requests -> Request]
  /\ \A r \in Requests :
       /\ req'[r].op = req[r].op
       /\ Settled(r) =>
            /\ req'[r].client = req[r].client /\ req'[r].at = req[r].at
            /\ req'[r].picks = req[r].picks
            /\ req'[r].seen = req[r].seen /\ req'[r].n = req[r].n
            /\ req'[r].stage = IF req[r].stage \in Writing THEN "error" ELSE req[r].stage
       /\ ~ Settled(r) => req'[r].stage = "idle" /\ req'[r].n \in {0, req[r].n}

\* Cut leaves it so.
LEMMA CutStops ==
  ASSUME TypeOK, req' = [r \in Requests |-> Cut(r)], UNCHANGED <<table, orders, weight>>
  PROVE  Stops
<1>1. ASSUME NEW r \in Requests
      PROVE  /\ req'[r] \in Request /\ req'[r].op = req[r].op
             /\ Settled(r) =>
                  /\ req'[r].client = req[r].client /\ req'[r].at = req[r].at
                  /\ req'[r].picks = req[r].picks
                  /\ req'[r].seen = req[r].seen /\ req'[r].n = req[r].n
                  /\ req'[r].stage = IF req[r].stage \in Writing THEN "error" ELSE req[r].stage
             /\ ~ Settled(r) => req'[r].stage = "idle" /\ req'[r].n \in {0, req[r].n}
  <2>1. req[r] \in Request /\ req'[r] = Cut(r)
    BY DEF TypeOK
  <2>2. CASE req[r].stage \in Writing
    <3>1. req'[r] = [req[r] EXCEPT !.stage = "error"]
      BY <2>1, <2>2 DEF Cut
    <3>2. "error" \in Ended
      BY DEF Ended
    <3>3. QED
      BY <2>1, <2>2, <3>1, <3>2 DEF Request, Settled
  <2>3. CASE req[r].stage \in Checking
    <3>1. req'[r] = Idle(r, req[r].op) /\ ~ Settled(r)
      BY <2>1, <2>3, Groups DEF Cut, Settled
    <3>2. Idle(r, req[r].op) \in Request
      BY <2>1, SceneAssumption DEF Request, Idle, Ids
    <3>3. QED
      BY <3>1, <3>2 DEF Idle
  <2>4. CASE req[r].stage \notin Writing \cup Checking
    <3>1. req'[r] = req[r]
      BY <2>1, <2>4 DEF Cut
    <3>2. req[r].stage \in {"idle"} \cup Ended
      BY <2>1, <2>4 DEF Request
    <3>3. QED
      BY <2>1, <2>4, <3>1, <3>2 DEF Settled
  <2>5. QED
    BY <2>2, <2>3, <2>4
<1>2. QED
  BY <1>1 DEF Stops

\* It is at rest then, with what it had come to.
LEMMA StopsRests ==
  ASSUME TypeOK, Stops, NEW r \in Requests
  PROVE  /\ Settled(r)' <=> Settled(r)
         /\ \/ req'[r].stage \in {"error", "idle"}
            \/ req[r].stage \in Ended /\ req'[r].stage = req[r].stage /\ Settled(r)
         /\ req[r].stage \in Ended => req'[r].stage = req[r].stage
         /\ req'[r].stage \in Ended => Settled(r)
<1>1. "error" \in Ended /\ "idle" \notin Ended \cup Writing /\ "error" \notin Writing
  BY DEF Ended, Writing
<1>2. CASE Settled(r)
  <2>1. req'[r].stage = IF req[r].stage \in Writing THEN "error" ELSE req[r].stage
    BY <1>2 DEF Stops
  <2>2. QED
    BY <1>1, <1>2, <2>1, Groups DEF Settled
<1>3. CASE ~ Settled(r)
  <2>1. req'[r].stage = "idle"
    BY <1>3 DEF Stops
  <2>2. QED
    BY <1>1, <1>3, <2>1 DEF Settled
<1>4. QED
  BY <1>2, <1>3

\* Columns stay, and deletions that began.
LEMMA StopsColumns ==
  ASSUME TypeOK, StageFits, OwnProfile, Stops
  PROVE  /\ \A x : Fixed(x) => Fixed(x)' /\ Client(x)' = Client(x) /\ Creator(x)' = Creator(x)
         /\ \A p : Deleting(p) => Deleting(p)'
         /\ \A p : OwnerWritten(p) => OwnerWritten(p)'
         /\ \A c : ClientDeletes(c) => ClientDeletes(c)'
<1>1. ASSUME NEW x, Fixed(x)
      PROVE  Fixed(x)' /\ Client(x)' = Client(x) /\ Creator(x)' = Creator(x)
  <2>1. CASE x \in Known
    BY <2>1 DEF Fixed, Client, Creator
  <2>2. CASE x \notin Known
    BY <1>1, <2>2, StopsRests DEF Fixed, Client, Creator, Stops
  <2>3. QED
    BY <2>1, <2>2
<1>2. ASSUME NEW p, Deleting(p)
      PROVE  Deleting(p)' /\ Fixed(p)
  <2>1. PICK q \in Requests : /\ req[q].op = "delete" /\ req[q].at = p
                              /\ req[q].stage \in {"delete", "deleted", "error"}
    BY <1>2 DEF Deleting
  <2>2. Settled(q)
    BY <2>1 DEF Settled, Writing, Ended
  <2>3. req'[q].op = "delete" /\ req'[q].at = p /\ req'[q].stage \in {"deleted", "error"}
    BY <2>1, <2>2 DEF Stops, Writing
  <2>4. Fixed(p)
    BY <2>1, <2>2 DEF OwnProfile, ActsForProfile, OwnerWritten, Fixed
  <2>5. QED
    BY <2>3, <2>4 DEF Deleting
<1>3. ASSUME NEW p, OwnerWritten(p)
      PROVE  OwnerWritten(p)'
  BY <1>3, StopsRests DEF OwnerWritten, Stops
<1>4. ASSUME NEW c, ClientDeletes(c)
      PROVE  ClientDeletes(c)'
  <2>1. PICK p \in Ids : Client(p) = c /\ Deleting(p)
    BY <1>4 DEF ClientDeletes
  <2>2. QED
    BY <1>1, <1>2, <2>1 DEF ClientDeletes, Ids
<1>5. QED
  BY <1>1, <1>2, <1>3, <1>4

\* What was promised to requests outlives the process.
LEMMA StopsKept ==
  ASSUME IInv, Stops
  PROVE  IInv'
<1>1. /\ TypeOK /\ StageFits /\ HoldsFit
      /\ RowsSettled /\ OrdersCounted /\ OwnProfile /\ ItemsChecked
      /\ ProfileMade /\ BloqMade /\ OfferMade /\ PreferenceMade /\ OrderMade
      /\ PicturesStay /\ LeftUnderWay /\ Backed /\ Traced
  BY DEF IInv
<1>2. TypeOK'
  BY <1>1 DEF Stops, TypeOK
<1>3. \A r \in Requests :
        /\ Settled(r)' <=> Settled(r)
        /\ \/ req'[r].stage \in {"error", "idle"}
           \/ req[r].stage \in Ended /\ req'[r].stage = req[r].stage /\ Settled(r)
        /\ req[r].stage \in Ended => req'[r].stage = req[r].stage
        /\ req'[r].stage \in Ended => Settled(r)
  BY <1>1, StopsRests
<1>4. \A r \in Requests :
        /\ req'[r].op = req[r].op
        /\ Settled(r) =>
             /\ req'[r].client = req[r].client /\ req'[r].at = req[r].at
             /\ req'[r].picks = req[r].picks
             /\ req'[r].seen = req[r].seen /\ req'[r].n = req[r].n
        /\ ~ Settled(r) => req'[r].stage = "idle" /\ req'[r].n \in {0, req[r].n}
  BY DEF Stops
<1>5. /\ \A x : Fixed(x) => Fixed(x)' /\ Client(x)' = Client(x) /\ Creator(x)' = Creator(x)
      /\ \A p : Deleting(p) => Deleting(p)'
      /\ \A p : OwnerWritten(p) => OwnerWritten(p)'
      /\ \A c : ClientDeletes(c) => ClientDeletes(c)'
  BY <1>1, StopsColumns
<1>6. \A r \in Requests : req'[r].stage \in {"created", "uncounted", "deleted", "cancelled",
                                             "error", "idle"}
  BY <1>3 DEF Ended
<1>7. UNCHANGED <<table, orders, weight>>
  BY DEF Stops
<1>8. \A r \in Requests :
        /\ req'[r].stage \in {"created", "uncounted", "deleted", "cancelled"} =>
             req'[r].stage = req[r].stage /\ Settled(r)
        /\ req[r].stage \in {"created", "uncounted", "deleted", "cancelled", "error"} =>
             req'[r].stage = req[r].stage
  BY <1>3 DEF Ended
<1>9. StageFits'
  BY <1>1, <1>4, <1>6, <1>8 DEF StageFits
<1>10. HoldsFit'
  BY <1>1, <1>3, <1>4, <1>6, <1>8 DEF HoldsFit
<1>11. RowsSettled'
  BY <1>1, <1>2, <1>3, <1>4, <1>5, <1>7 DEF RowsSettled, TypeOK, Ids, Tables
<1>12. OrdersCounted'
  BY <1>1, <1>3, <1>6, <1>7 DEF OrdersCounted
<1>13. OwnProfile'
  <2> SUFFICES ASSUME NEW r \in Requests, ActsForProfile(r)'
               PROVE  /\ req'[r].at \in Known \/ OwnerWritten(req[r].at)'
                      /\ Client(req[r].at)' = req'[r].client
    BY DEF OwnProfile
  <2>1. Settled(r) /\ req[r].op \in {"delete", "bloq", "offer"}
    BY <1>3, <1>4, <1>6 DEF ActsForProfile
  <2>2. /\ req[r].at \in Known \/ OwnerWritten(req[r].at)
        /\ Client(req[r].at) = req[r].client
    BY <1>1, <2>1 DEF OwnProfile, ActsForProfile
  <2>3. PICK p : p = req[r].at
    OBVIOUS
  <2>4. Fixed(p) /\ (p \in Known \/ OwnerWritten(p)) /\ Client(p) = req[r].client
    BY <2>2, <2>3 DEF Fixed, OwnerWritten
  <2>5. Client(p)' = req[r].client /\ (p \in Known \/ OwnerWritten(p)')
    BY <1>5, <2>4
  <2>6. p = req'[r].at /\ req[r].client = req'[r].client
    BY <1>4, <2>1, <2>3
  <2>7. QED
    BY <2>5, <2>6 DEF OwnerWritten, Client
<1>14. ItemsChecked'
  <2> SUFFICES ASSUME NEW r \in Requests, req'[r].op = "offer", ActsForProfile(r)',
                      NEW b \in req'[r].picks \ req'[r].seen
               PROVE  /\ b \in Known \/ (b \in Requests /\ Settled(b)')
                      /\ Creator(b)' = req'[r].at
    BY DEF ItemsChecked
  <2>1. Settled(r) /\ req[r].op = "offer"
    BY <1>3, <1>4, <1>6 DEF ActsForProfile
  <2>2. ActsForProfile(r) /\ req[r].stage # "person"
    BY <2>1 DEF ActsForProfile, Settled, Writing, Ended
  <2>3. b \in req[r].picks \ req[r].seen
    BY <1>4, <2>1
  <2>4. Fixed(b) /\ Creator(b) = req[r].at
    BY <1>1, <2>1, <2>2, <2>3 DEF ItemsChecked, Fixed
  <2>5. Fixed(b)' /\ Creator(b)' = req[r].at
    BY <1>5, <2>4
  <2>6. QED
    BY <1>4, <2>1, <2>5 DEF Fixed
<1>15. ProfileMade'
  BY <1>1, <1>4, <1>5, <1>6, <1>7, <1>8 DEF ProfileMade, Answered
<1>16. BloqMade' /\ OfferMade'
  <2>1. ASSUME NEW r \in Requests, req'[r].stage = "created", Deleting(req[r].at)
        PROVE  Deleting(req[r].at)'
    <3>1. PICK p : p = req[r].at
      OBVIOUS
    <3>2. Deleting(p)' /\ p = req'[r].at
      BY <1>4, <1>5, <1>8, <2>1, <3>1
    <3>3. QED
      BY <3>2 DEF Deleting
  <2>2. QED
    BY <1>1, <1>4, <1>6, <1>7, <1>8, <2>1 DEF BloqMade, OfferMade
<1>17. PreferenceMade'
  BY <1>1, <1>4, <1>6, <1>7, <1>8 DEF PreferenceMade
<1>18. OrderMade'
  <2>1. ASSUME NEW r \in Requests, req'[r].stage = "created", ClientDeletes(req[r].client)
        PROVE  ClientDeletes(req[r].client)'
    <3>1. PICK c : c = req[r].client
      OBVIOUS
    <3>2. ClientDeletes(c)' /\ c = req'[r].client
      BY <1>4, <1>5, <1>8, <2>1, <3>1
    <3>3. QED
      BY <3>2 DEF ClientDeletes
  <2>2. ASSUME NEW r \in Requests, req'[r].stage = "created", Cancelling(r)
        PROVE  Cancelling(r)'
    <3>1. PICK d \in Requests : /\ req[d].op = "cancel" /\ req[d].client = req[r].client
                                /\ req[d].stage \in {"cancelled", "error"}
                                /\ req[d].picks = {} \/ r \in req[d].picks
      BY <2>2 DEF Cancelling
    <3>2. Settled(d) /\ Settled(r)
      BY <1>8, <2>2, <3>1 DEF Settled, Ended
    <3>3. /\ req'[d].op = "cancel" /\ req'[d].stage = req[d].stage
          /\ req'[d].client = req[d].client /\ req'[d].picks = req[d].picks
          /\ req'[r].client = req[r].client
      BY <1>4, <1>8, <3>1, <3>2
    <3>4. QED
      BY <3>1, <3>3 DEF Cancelling
  <2>3. ASSUME NEW r \in Requests, req'[r].stage = "created", req[r].op = "order"
        PROVE  \/ ClientDeletes(req[r].client)' \/ Cancelling(r)'
               \/ orders'[r] = Quantity
    <3>1. req[r].stage = "created"
      BY <1>8, <2>3
    <3>2. QED
      BY <1>1, <1>7, <2>1, <2>2, <2>3, <3>1 DEF OrderMade
  <2>4. QED
    BY <1>4, <1>6, <2>3 DEF OrderMade
<1>19. PicturesStay'
  BY <1>1, <1>4, <1>6, <1>7, <1>8 DEF PicturesStay
<1>20. LeftUnderWay'
  <2> SUFFICES ASSUME NEW r \in Requests, req'[r].stage \in {"delete", "deleted"},
                      req'[r].n >= 2
               PROVE  /\ req'[r].at \notin table'.credential_profiles
                      /\ \A x \in Requests \ req'[r].seen :
                           req'[x].stage \notin Writing \cup {"person", "items"}
                      /\ req'[r].n >= 5 =>
                           \A x \in table'.offers :
                             Creator(x)' = req'[r].at => x \in req'[r].seen
                      /\ req'[r].n >= 6 =>
                           \A x \in table'.bloq :
                             Creator(x)' = req'[r].at => x \in req'[r].seen
    BY DEF LeftUnderWay
  <2>1. /\ Settled(r) /\ req[r].stage \in {"delete", "deleted"}
        /\ req'[r].at = req[r].at /\ req'[r].seen = req[r].seen /\ req'[r].n = req[r].n
    BY <1>4, <1>6, <1>8
  <2>2. \A x \in Requests : req'[x].stage \notin Writing \cup {"person", "items"}
    BY <1>6 DEF Writing
  <2>3. \A x \in table.offers \cup table.bloq : Fixed(x) /\ Creator(x)' = Creator(x)
    <3>1. \A x \in table.offers \cup table.bloq : Fixed(x)
      BY <1>1 DEF RowsSettled, TypeOK, Tables, Ids, Fixed
    <3>2. QED
      BY <1>5, <3>1
  <2>4. QED
    BY <1>1, <1>7, <2>1, <2>2, <2>3 DEF LeftUnderWay
<1>21. Backed'
  <2> SUFFICES ASSUME NEW p \in Pairs
               PROVE  IsFiniteSet(Backers(p)') /\ weight'[p] <= Cardinality(Backers(p)')
    BY <1>6 DEF Backed
  <2>1. \A q \in Requests :
          /\ req'[q].op = req[q].op
          /\ req'[q].stage \in Answered <=> req[q].stage \in Answered
          /\ req[q].stage \in Answered => req'[q].picks = req[q].picks
    BY <1>4, <1>8 DEF Answered, Settled, Ended
  <2>2. Backers(p)' = Backers(p)
    BY <2>1 DEF Backers
  <2>3. QED
    BY <1>1, <1>7, <2>2 DEF Backed
<1>22. Traced'
  BY <1>1, <1>4, <1>6, <1>7, <1>8 DEF Traced, LikesLeaveTrace
<1>23. QED
  BY <1>2, <1>9, <1>10, <1>11, <1>12, <1>13, <1>14, <1>15, <1>16, <1>17, <1>18, <1>19,
     <1>20, <1>21, <1>22 DEF IInv

\* A request more, or none, is under way.
LEMMA FinitelyManyKept ==
  ASSUME IInv, FinitelyMany, Next
  PROVE  FinitelyMany'
<1>1. PICK r \in Requests : Kind(r)
  BY Kinds
<1>2. Busy' \subseteq Busy \cup {r}
  BY <1>1, OnlyOne DEF Others, Busy
<1>3. IsFiniteSet(Busy \cup {r})
  BY FS_AddElement DEF FinitelyMany
<1>4. QED
  BY <1>2, <1>3, FS_Subset DEF FinitelyMany

\* None is when the process ends that was not before.
LEMMA FinitelyManyStop ==
  ASSUME TypeOK, FinitelyMany, Stops
  PROVE  FinitelyMany'
<1>1. Busy' \subseteq Busy
  BY StopsRests DEF Busy, Ended, Settled, Writing, Stops
<1>2. QED
  BY <1>1, FS_Subset DEF FinitelyMany

-----------------------------------------------------------------------------
(***************************************************************************)
(* The goroutines of GET /profile/@ and their slice.                       *)
(***************************************************************************)

\* While a goroutine has not written, there is room behind the end of the slice.
LEMMA RoomLeft ==
  ASSUME NEW v \in Reading, SliceFits(v), NEW p \in Ids,
         v.go[p] \notin {"off", "store", "added"}
  PROVE  v.len < Len(v.slots)
<1> DEFINE Rest == Running(v) \ {p}
           f == [i \in 1..v.len |-> v.slots[i]]
<1>1. /\ v.len \in Nat /\ v.go \in [Ids -> Goroutine]
      /\ v.slots \in Seq(Ids \cup {NoRow}) /\ Len(v.slots) \in Nat
  BY DEF Reading
<1>2. IsFiniteSet(Running(v)) /\ p \in Running(v)
  BY DEF SliceFits, Running
<1>3. /\ IsFiniteSet(Rest) /\ Cardinality(Rest) = Cardinality(Running(v)) - 1
      /\ Cardinality(Rest) \in Nat
  BY <1>2, FS_RemoveElement, FS_CardinalityType
<1>4. \A i \in 1..v.len : /\ i \in 1..Len(v.slots) /\ v.slots[i] # NoRow
                          /\ v.slots[i] \in Ids
                          /\ v.go[v.slots[i]] \in {"store", "added"}
  BY <1>1 DEF SliceFits, Filled
<1>5. \A i \in 1..v.len : f[i] \in Rest
  BY <1>4 DEF Running
<1>6. f \in Injection(1..v.len, Rest)
  <2>1. \A i, j \in 1..v.len : f[i] = f[j] => i = j
    BY <1>4 DEF SliceFits
  <2>2. f \in [1..v.len -> Rest]
    BY <1>5
  <2>3. QED
    BY <2>1, <2>2 DEF Injection, IsInjective
<1>7. Cardinality(1..v.len) <= Cardinality(Rest) /\ IsFiniteSet(1..v.len)
  BY <1>3, <1>6, FS_Injection
<1>8. Cardinality(1..v.len) = v.len
  BY <1>1, FS_Interval
<1>9. Cardinality(Running(v)) = Len(v.slots)
  BY DEF SliceFits
<1> HIDE DEF Rest, f
<1>10. QED
  BY <1>1, <1>3, <1>7, <1>8, <1>9

\* Nothing of it changes.
LEMMA SliceSame ==
  ASSUME NEW v, SliceFits(v), NEW w,
         w.go = v.go, w.slots = v.slots, w.len = v.len, w.len0 = v.len0
  PROVE  SliceFits(w)
<1>1. Running(w) = Running(v)
  BY DEF Running
<1>2. QED
  BY <1>1 DEF SliceFits, Filled

\* A goroutine moves on without touching the slice.
LEMMA SliceLeftAlone ==
  ASSUME NEW v \in Reading, SliceFits(v), NEW w \in Reading, NEW p \in Ids,
         NEW t \in {"check", "append", "done"},
         v.go[p] \in {"select", "check"}, w.go = [v.go EXCEPT ![p] = t],
         w.slots = v.slots, w.len = v.len, w.len0 = v.len0
  PROVE  SliceFits(w)
<1>1. v.go \in [Ids -> Goroutine]
  BY DEF Reading
<1>2. Running(w) = Running(v)
  BY <1>1 DEF Running
<1>3. \A x \in Ids : v.go[x] \in {"store", "added"} => w.go[x] = v.go[x]
  BY <1>1
<1>4. \A x \in Ids : w.go[x] \in {"write", "store", "added"} => w.go[x] = v.go[x]
  BY <1>1
<1>5. \A i \in 1..Len(v.slots) : v.slots[i] # NoRow => v.slots[i] \in Ids
  BY DEF Reading
<1>6. QED
  BY <1>2, <1>3, <1>4, <1>5 DEF SliceFits, Filled

\* It reads the length.
LEMMA SliceRead ==
  ASSUME NEW v \in Reading, SliceFits(v), NEW w \in Reading, NEW p \in Ids,
         v.go[p] = "append", w.go = [v.go EXCEPT ![p] = "write"],
         w.slots = v.slots, w.len = v.len, w.len0 = [v.len0 EXCEPT ![p] = v.len]
  PROVE  SliceFits(w)
<1>1. v.go \in [Ids -> Goroutine] /\ v.len0 \in [Ids -> Nat]
  BY DEF Reading
<1>2. Running(w) = Running(v)
  BY <1>1 DEF Running
<1>3. \A x \in Ids : v.go[x] \in {"store", "added"} => w.go[x] = v.go[x]
  BY <1>1
<1>4. \A x \in Ids \ {p} : w.go[x] = v.go[x] /\ w.len0[x] = v.len0[x]
  BY <1>1
<1>5. \A i \in 1..Len(v.slots) : v.slots[i] # NoRow => v.slots[i] \in Ids
  BY DEF Reading
<1>6. w.go[p] = "write" /\ w.len0[p] = v.len /\ v.len < Len(v.slots)
  BY <1>1, RoomLeft
<1>7. QED
  BY <1>2, <1>3, <1>4, <1>5, <1>6 DEF SliceFits, Filled

\* It writes its profile behind the end it read.
LEMMA SliceWritten ==
  ASSUME NEW v \in Reading, SliceFits(v), NEW w \in Reading, NEW p \in Ids,
         v.go[p] = "write", w.go = [v.go EXCEPT ![p] = "store"],
         w.slots = [v.slots EXCEPT ![v.len0[p] + 1] = p],
         w.len = v.len, w.len0 = v.len0
  PROVE  SliceFits(w)
<1>1. /\ v.go \in [Ids -> Goroutine] /\ v.len0 \in [Ids -> Nat] /\ v.len \in Nat
      /\ v.slots \in Seq(Ids \cup {NoRow}) /\ Len(v.slots) \in Nat
  BY DEF Reading
<1>2. PICK k : k = v.len0[p] + 1
  OBVIOUS
<1>3. k \in 1..Len(v.slots) /\ p # NoRow
  BY <1>1, <1>2, IdentifiersAssumption DEF SliceFits
<1>4. /\ Len(w.slots) = Len(v.slots) /\ w.slots[k] = p
      /\ \A i \in 1..Len(v.slots) : i # k => w.slots[i] = v.slots[i]
  BY <1>1, <1>2, <1>3
<1>5. \A i \in 1..Len(v.slots) : v.slots[i] # NoRow => v.slots[i] \in Ids /\ v.slots[i] # p
  BY <1>1 DEF SliceFits
<1>6. /\ w.go[p] = "store"
      /\ \A x \in Ids \ {p} : w.go[x] = v.go[x]
  BY <1>1
<1>7. Running(w) = Running(v)
  BY <1>1 DEF Running
<1>8. \A n \in Nat : Filled(v, n) => Filled(w, n)
  BY <1>1, <1>3, <1>4 DEF Filled
<1>9. /\ \A i \in 1..Len(w.slots) :
           w.slots[i] # NoRow => w.go[w.slots[i]] \in {"store", "added"}
      /\ \A i, j \in 1..Len(w.slots) :
           w.slots[i] = w.slots[j] /\ w.slots[i] # NoRow => i = j
  BY <1>3, <1>4, <1>5, <1>6 DEF SliceFits
<1>10. Filled(w, w.len0[p] + 1)
  <2>1. Filled(v, v.len0[p])
    BY DEF SliceFits
  <2>2. QED
    BY <1>1, <1>2, <1>3, <1>4, <2>1 DEF Filled
<1>11. Filled(w, w.len)
  BY <1>1, <1>8 DEF SliceFits
<1>12. ASSUME NEW x \in Ids
       PROVE  /\ w.go[x] = "write" => Filled(w, w.len0[x]) /\ w.len0[x] < Len(w.slots)
              /\ w.go[x] = "store" => Filled(w, w.len0[x] + 1)
              /\ w.go[x] = "added" => w.len > 0
  <2>1. CASE x = p
    BY <1>6, <1>10, <2>1
  <2>2. CASE x # p
    <3>1. w.go[x] = v.go[x] /\ w.len0[x] = v.len0[x] /\ v.len0[x] \in Nat
      BY <1>1, <1>6, <2>2
    <3>2. /\ v.go[x] = "write" => Filled(v, v.len0[x]) /\ v.len0[x] < Len(v.slots)
          /\ v.go[x] = "store" => Filled(v, v.len0[x] + 1)
          /\ v.go[x] = "added" => v.len > 0
      BY DEF SliceFits
    <3>3. QED
      BY <1>4, <1>8, <3>1, <3>2
  <2>3. QED
    BY <2>1, <2>2
<1>13. QED
  BY <1>4, <1>7, <1>9, <1>11, <1>12 DEF SliceFits

\* It stores the longer slice, which covers what it wrote or another did.
LEMMA SliceStored ==
  ASSUME NEW v \in Reading, SliceFits(v), NEW w \in Reading, NEW p \in Ids,
         v.go[p] = "store", w.go = [v.go EXCEPT ![p] = "added"],
         w.slots = v.slots, w.len = v.len0[p] + 1, w.len0 = [v.len0 EXCEPT ![p] = 0]
  PROVE  SliceFits(w)
<1>1. /\ v.go \in [Ids -> Goroutine] /\ v.len0 \in [Ids -> Nat]
  BY DEF Reading
<1>2. Running(w) = Running(v)
  BY <1>1 DEF Running
<1>3. \A x \in Ids \ {p} : w.go[x] = v.go[x] /\ w.len0[x] = v.len0[x]
  BY <1>1
<1>4. w.go[p] = "added" /\ w.len > 0
  BY <1>1
<1>5. \A i \in 1..Len(v.slots) : v.slots[i] # NoRow => v.slots[i] \in Ids
  BY DEF Reading
<1>6. Filled(w, w.len)
  BY DEF SliceFits, Filled
<1>7. QED
  BY <1>2, <1>3, <1>4, <1>5, <1>6 DEF SliceFits, Filled

-----------------------------------------------------------------------------
(***************************************************************************)
(* What a step of a reader does.                                           *)
(***************************************************************************)

\* Only q moves.
OnlyReader(q) ==
  /\ read' \in [Readers -> Reading]
  /\ \A x \in Readers \ {q} : read'[x] = read[x]

\* What a reader w has found was found before, or is there.
Finds(v, w) ==
  /\ w.op = v.op
  /\ w.hit \subseteq v.hit \cup table.profile
  /\ \A p \in Ids : w.go[p] \in Found => v.go[p] \in Found \/ p \in v.hit
  /\ \A x \in w.shown :
       \/ x \in v.shown
       \/ v.op = "offers" /\ x \in table.offers
       \/ v.op # "offers" /\ (x \in table.profile \/ v.go[x] \in Found)

Fit(v) == ReaderFits(v) /\ SliceFits(v) /\ ShowsSlice(v)

Moves(q) == OnlyReader(q) /\ Fit(read'[q]) /\ Finds(read[q], read'[q])

\* The state of one reader is replaced.
LEMMA Replace ==
  ASSUME read \in [Readers -> Reading], NEW q \in Readers, NEW w \in Reading,
         read' = [read EXCEPT ![q] = w]
  PROVE  OnlyReader(q) /\ read'[q] = w
BY DEF OnlyReader


Rest(op, s, x) == [Unread(op) EXCEPT !.stage = s, !.shown = x]

\* A reader that does not look anything up.
LEMMA RestFits ==
  ASSUME NEW op \in ReadOps, NEW s \in {"idle", "shown", "over"}, NEW x \in SUBSET Ids,
         NEW w, w = Rest(op, s, x), op # "mine" \/ s # "shown"
  PROVE  /\ w \in Reading /\ Fit(w) /\ w.stage = s
         /\ w.op = op /\ w.hit = {} /\ w.shown = x /\ \A p \in Ids : w.go[p] = "off"
<1>1. PICK go \in [Ids -> Goroutine] : go = [i \in Ids |-> "off"]
  BY DEF Goroutine
<1>2. PICK len0 \in [Ids -> Nat] : len0 = [i \in Ids |-> 0]
  OBVIOUS
<1>3. <<>> \in Seq(Ids \cup {NoRow}) /\ Len(<<>>) = 0
  OBVIOUS
<1>4. w = [op |-> op, stage |-> s, at |-> NoRow, yours |-> FALSE,
           err |-> FALSE, hit |-> {}, go |-> go,
           len0 |-> len0, slots |-> <<>>, len |-> 0, rows |-> {}, shown |-> x]
  BY <1>1, <1>2 DEF Rest, Unread
<1>5. w \in Reading
  BY <1>3, <1>4 DEF Reading, ReadStages
<1>6. /\ w.op = op /\ w.hit = {} /\ w.shown = x /\ w.stage = s /\ w.len = 0
      /\ Len(w.slots) = 0 /\ \A p \in Ids : w.go[p] = "off"
  BY <1>1, <1>3, <1>4
<1>7. Running(w) = {}
  BY <1>6 DEF Running
<1>8. IsFiniteSet({}) /\ Cardinality({}) = 0
  BY FS_EmptySet
<1>9. SliceFits(w)
  BY <1>6, <1>7, <1>8 DEF SliceFits, Filled
<1>10. ReaderFits(w) /\ ShowsSlice(w)
  BY <1>6 DEF ReaderFits, ShowsSlice
<1>11. QED
  BY <1>5, <1>6, <1>9, <1>10 DEF Fit

\* A reader over shows nothing.
LEMMA RestIsOver ==
  ASSUME NEW op, NEW w, w = Rest(op, "over", {})
  PROVE  w = [Unread(op) EXCEPT !.stage = "over"]
<1>1. PICK go : go = [i \in Ids |-> "off"]
  OBVIOUS
<1>2. PICK len0 : len0 = [i \in Ids |-> 0]
  OBVIOUS
<1>3. w = [op |-> op, stage |-> "over", at |-> NoRow, yours |-> FALSE,
           err |-> FALSE, hit |-> {}, go |-> go, len0 |-> len0,
           slots |-> <<>>, len |-> 0, rows |-> {}, shown |-> {}]
  BY <1>1, <1>2 DEF Rest, Unread
<1>4. PICK u : u = [Unread(op) EXCEPT !.stage = "over"]
  OBVIOUS
<1>5. u = [op |-> op, stage |-> "over", at |-> NoRow, yours |-> FALSE,
           err |-> FALSE, hit |-> {}, go |-> go, len0 |-> len0,
           slots |-> <<>>, len |-> 0, rows |-> {}, shown |-> {}]
  BY <1>1, <1>2, <1>4 DEF Unread
<1>6. QED
  BY <1>3, <1>4, <1>5

\* A reader is answered.
LEMMA ShowsMoves ==
  ASSUME read \in [Readers -> Reading], NEW q \in Readers, NEW x \in SUBSET Ids,
         read[q].op # "mine", Shows(q, x),
         \A y \in x : \/ y \in read[q].shown
                      \/ read[q].op = "offers" /\ y \in table.offers
                      \/ read[q].op # "offers" /\ y \in table.profile
  PROVE  Moves(q)
<1>2. PICK op \in ReadOps : op = read[q].op
  BY DEF Reading
<1>1. PICK w : w = Rest(op, "shown", x)
  OBVIOUS
<1>3. /\ w \in Reading /\ Fit(w)
      /\ w.op = op /\ w.hit = {} /\ w.shown = x /\ \A p \in Ids : w.go[p] = "off"
  BY <1>1, <1>2, RestFits
<1>4. OnlyReader(q) /\ read'[q] = w
  BY <1>1, <1>2, <1>3, Replace DEF Shows, Rest
<1>5. Finds(read[q], w)
  BY <1>2, <1>3 DEF Finds, Found
<1>6. QED
  BY <1>3, <1>4, <1>5 DEF Moves

\* A reader fails.
LEMMA OverMoves ==
  ASSUME read \in [Readers -> Reading], NEW q \in Readers, Over(q)
  PROVE  Moves(q)
<1>2. PICK op \in ReadOps : op = read[q].op
  BY DEF Reading
<1>1. PICK w : w = Rest(op, "over", {})
  OBVIOUS
<1>3. w = [Unread(op) EXCEPT !.stage = "over"]
  BY <1>1, RestIsOver
<1>4. /\ w \in Reading /\ Fit(w)
      /\ w.op = op /\ w.hit = {} /\ w.shown = {} /\ \A p \in Ids : w.go[p] = "off"
  BY <1>1, <1>2, RestFits
<1>5. OnlyReader(q) /\ read'[q] = w
  BY <1>2, <1>3, <1>4, Replace DEF Over
<1>6. Finds(read[q], w)
  BY <1>2, <1>4 DEF Finds, Found
<1>7. QED
  BY <1>4, <1>5, <1>6 DEF Moves

\* The goroutines begin, one for each profile of the client: finitely many.
LEMMA MineMoves ==
  ASSUME IInv, FinitelyMany, read \in [Readers -> Reading], NEW q \in Readers,
         Fit(read[q]), Mine(q)
  PROVE  Moves(q)
<1>1. PICK v \in Reading : v = read[q]
  OBVIOUS
<1>2. PICK c \in Clients :
       read' = [read EXCEPT ![q].stage = "search",
                  ![q].go = [p \in Ids |-> IF p \in Owned(c) THEN "select" ELSE "off"],
                  ![q].slots = [i \in 1..Cardinality(Owned(c)) |-> NoRow]]
  BY DEF Mine
<1>3. PICK go : go = [p \in Ids |-> IF p \in Owned(c) THEN "select" ELSE "off"]
  OBVIOUS
<1>4. PICK slots : slots = [i \in 1..Cardinality(Owned(c)) |-> NoRow]
  OBVIOUS
<1>5. PICK w : w = [v EXCEPT !.stage = "search", !.go = go, !.slots = slots]
  OBVIOUS
<1>6. Owned(c) \subseteq Ids /\ IsFiniteSet(Owned(c)) /\ Cardinality(Owned(c)) \in Nat
  <2>1. Owned(c) \subseteq Known \cup Busy
    <3>1. \A p \in table.credential_profiles \ Known : p \in Requests /\ Settled(p)
      BY DEF IInv, RowsSettled, OwnerWritten
    <3>2. QED
      BY <3>1 DEF Owned, Busy, Settled, Writing, Ended
  <2>2. IsFiniteSet(Known \cup Busy)
    BY IdentifiersAssumption, FS_Union DEF FinitelyMany
  <2>3. QED
    BY <2>1, <2>2, FS_Subset, FS_CardinalityType DEF Busy, Ids
<1>7. go \in [Ids -> Goroutine]
  BY <1>3 DEF Goroutine
<1>8. /\ slots \in Seq(Ids \cup {NoRow}) /\ Len(slots) = Cardinality(Owned(c))
      /\ \A i \in 1..Len(slots) : slots[i] = NoRow
  BY <1>4, <1>6
<1>9. v.op = "mine" /\ v.stage = "idle" /\ v.len = 0
  BY <1>1 DEF Mine, Fit, ReaderFits
<1>10. /\ w \in Reading /\ w.go = go /\ w.slots = slots /\ w.stage = "search"
       /\ w.op = v.op /\ w.hit = v.hit /\ w.len = v.len /\ w.shown = v.shown
  BY <1>5, <1>7, <1>8 DEF Reading, ReadStages
<1>11. OnlyReader(q) /\ read'[q] = w
  BY <1>1, <1>2, <1>3, <1>4, <1>5, <1>10, Replace
<1>12. Running(w) = Owned(c)
  BY <1>3, <1>6, <1>10 DEF Running
<1>13. SliceFits(w)
  BY <1>3, <1>6, <1>8, <1>9, <1>10, <1>12 DEF SliceFits, Filled
<1>14. ReaderFits(w) /\ ShowsSlice(w)
  BY <1>9, <1>10 DEF ReaderFits, ShowsSlice
<1>15. Finds(v, w)
  BY <1>3, <1>10 DEF Finds, Found
<1>16. QED
  BY <1>1, <1>11, <1>13, <1>14, <1>15 DEF Moves, Fit

\* A goroutine only runs while its reader waits.
LEMMA OnlyWhileWaiting ==
  ASSUME NEW v \in Reading, Fit(v), NEW p \in Ids, v.go[p] \notin {"off", "added", "done"}
  PROVE  v.stage = "search" /\ v.op = "mine"
BY DEF Fit, ReaderFits

\* A goroutine goes on, and its reader goes on waiting.
LEMMA GoMoves ==
  ASSUME read \in [Readers -> Reading], NEW q \in Readers,
         NEW v \in Reading, v = read[q], Fit(v),
         NEW p \in Ids, v.go[p] \notin {"off", "added", "done"},
         NEW w \in Reading, read' = [read EXCEPT ![q] = w], SliceFits(w),
         w.op = v.op, w.stage = v.stage, w.shown = v.shown,
         w.hit \subseteq v.hit \cup table.profile,
         \A x \in Ids \ {p} : w.go[x] = v.go[x],
         w.go[p] \in Found => v.go[p] \in Found \/ p \in v.hit
  PROVE  Moves(q)
<1>1. OnlyReader(q) /\ read'[q] = w
  BY Replace
<1>2. w.stage = "search" /\ w.op = "mine"
  BY OnlyWhileWaiting
<1>3. ReaderFits(w) /\ ShowsSlice(w)
  BY <1>2 DEF ReaderFits, ShowsSlice
<1>4. Finds(v, w)
  BY DEF Finds
<1>5. QED
  BY <1>1, <1>3, <1>4 DEF Moves, Fit

\* The row of a profile is looked for.
LEMMA SelectMoves ==
  ASSUME TypeOK, read \in [Readers -> Reading], NEW q \in Readers, Fit(read[q]),
         NEW p \in Ids, SelectProfile(q, p)
  PROVE  Moves(q)
<1>1. PICK v \in Reading : v = read[q]
  OBVIOUS
<1>2. /\ v.go \in [Ids -> Goroutine] /\ v.hit \in SUBSET Ids /\ v.err \in BOOLEAN
      /\ v.len0 \in [Ids -> Nat] /\ v.len \in Nat /\ v.slots \in Seq(Ids \cup {NoRow})
      /\ v.go[p] = "select"
  BY <1>1 DEF SelectProfile, Reading
<1>3. PICK go \in [Ids -> Goroutine] : go = [v.go EXCEPT ![p] = "check"]
  BY <1>2 DEF Goroutine
<1>4. PICK hit \in SUBSET Ids, err \in BOOLEAN :
        /\ hit \subseteq v.hit \cup table.profile
        /\ read' = [read EXCEPT ![q] = [v EXCEPT !.go = go, !.hit = hit, !.err = err]]
  <2>1. table.profile \subseteq Ids
    BY DEF TypeOK, Tables
  <2>2. PICK more \in SUBSET Ids : more = v.hit \cup ({p} \cap table.profile)
    BY <1>2
  <2>3. CASE read' = [read EXCEPT ![q].go[p] = "check", ![q].err = FALSE,
                                  ![q].hit = @ \cup ({p} \cap table.profile)]
    <3>1. PICK w : w = [v EXCEPT !.go[p] = "check", !.err = FALSE, !.hit = more]
      OBVIOUS
    <3>2. read' = [read EXCEPT ![q] = w]
      BY <1>1, <2>2, <2>3, <3>1 DEF Reading
    <3>3. w = [v EXCEPT !.go = go, !.hit = more, !.err = FALSE]
      BY <1>3, <3>1 DEF Reading
    <3>4. QED
      BY <2>2, <3>2, <3>3
  <2>4. CASE read' = [read EXCEPT ![q].go[p] = "check", ![q].err = TRUE]
    <3>1. read' = [read EXCEPT ![q] = [v EXCEPT !.go = go, !.hit = v.hit, !.err = TRUE]]
      BY <1>1, <1>3, <2>4 DEF Reading
    <3>2. QED
      BY <1>2, <3>1
  <2>5. QED
    BY <2>3, <2>4 DEF SelectProfile
<1>5. PICK w : w = [v EXCEPT !.go = go, !.hit = hit, !.err = err]
  OBVIOUS
<1>6. /\ w \in Reading /\ w.go = go /\ w.hit = hit /\ w.len0 = v.len0 /\ w.slots = v.slots
      /\ w.len = v.len /\ w.op = v.op /\ w.stage = v.stage /\ w.shown = v.shown
  BY <1>5 DEF Reading
<1>7. SliceFits(w)
  <2>1. SliceFits(v)
    BY <1>1 DEF Fit
  <2>2. w.go = [v.go EXCEPT ![p] = "check"]
    BY <1>3, <1>6
  <2>3. QED
    BY <1>2, <1>6, <2>1, <2>2, SliceLeftAlone
<1>8. go[p] = "check" /\ \A x \in Ids \ {p} : go[x] = v.go[x]
  BY <1>2, <1>3
<1>9. read' = [read EXCEPT ![q] = w]
  BY <1>4, <1>5
<1>10. /\ w.hit \subseteq v.hit \cup table.profile /\ w.go[p] \notin Found
       /\ \A x \in Ids \ {p} : w.go[x] = v.go[x]
       /\ v.go[p] \notin {"off", "added", "done"}
  BY <1>2, <1>4, <1>6, <1>8 DEF Found
<1>11. QED
  BY <1>1, <1>6, <1>7, <1>9, <1>10, GoMoves

\* It is found, or the goroutine gives up.
LEMMA CheckMoves ==
  ASSUME read \in [Readers -> Reading], NEW q \in Readers, Fit(read[q]),
         NEW p \in Ids, CheckError(q, p)
  PROVE  Moves(q)
<1>1. PICK v \in Reading : v = read[q]
  OBVIOUS
<1>2. v.go \in [Ids -> Goroutine] /\ v.hit \in SUBSET Ids /\ v.go[p] = "check"
  BY <1>1 DEF CheckError, Reading
<1>3. PICK t \in {"check", "append", "done"} :
        t = IF ~ v.err /\ p \in v.hit THEN "append" ELSE "done"
  OBVIOUS
<1>4. PICK go \in [Ids -> Goroutine] : go = [v.go EXCEPT ![p] = t]
  BY <1>2 DEF Goroutine
<1>5. PICK hit \in SUBSET Ids : hit = v.hit \ {p}
  BY <1>2
<1>6. PICK w : w = [v EXCEPT !.go = go, !.hit = hit]
  OBVIOUS
<1>7. read' = [read EXCEPT ![q] = w]
  <2>1. read' = [read EXCEPT ![q].hit = @ \ {p}, ![q].go[p] = t]
    BY <1>1, <1>3 DEF CheckError
  <2>2. QED
    BY <1>1, <1>4, <1>5, <1>6, <2>1 DEF Reading
<1>8. /\ w \in Reading /\ w.go = go /\ w.hit = hit /\ w.len0 = v.len0 /\ w.slots = v.slots
      /\ w.len = v.len /\ w.op = v.op /\ w.stage = v.stage /\ w.shown = v.shown
  BY <1>6 DEF Reading
<1>9. SliceFits(w)
  <2>1. SliceFits(v) /\ v.go[p] \in {"select", "check"}
    BY <1>1, <1>2 DEF Fit
  <2>2. w.go = [v.go EXCEPT ![p] = t]
    BY <1>4, <1>8
  <2>3. QED
    BY <1>8, <2>1, <2>2, SliceLeftAlone
<1>10. go[p] = t /\ \A x \in Ids \ {p} : go[x] = v.go[x]
  BY <1>2, <1>4
<1>11. /\ w.hit \subseteq v.hit \cup table.profile
       /\ w.go[p] \in Found => p \in v.hit
       /\ \A x \in Ids \ {p} : w.go[x] = v.go[x]
       /\ v.go[p] \notin {"off", "added", "done"}
  BY <1>2, <1>3, <1>5, <1>8, <1>10 DEF Found
<1>12. QED
  BY <1>1, <1>7, <1>8, <1>9, <1>11, GoMoves

\* The length is read.
LEMMA ReadLenMoves ==
  ASSUME read \in [Readers -> Reading], NEW q \in Readers, Fit(read[q]),
         NEW p \in Ids, ReadLen(q, p)
  PROVE  Moves(q)
<1>1. PICK v \in Reading : v = read[q]
  OBVIOUS
<1>2. /\ v.go \in [Ids -> Goroutine] /\ v.len0 \in [Ids -> Nat] /\ v.len \in Nat
      /\ v.go[p] = "append"
  BY <1>1 DEF ReadLen, Reading
<1>3. PICK go \in [Ids -> Goroutine] : go = [v.go EXCEPT ![p] = "write"]
  BY <1>2 DEF Goroutine
<1>4. PICK len0 \in [Ids -> Nat] : len0 = [v.len0 EXCEPT ![p] = v.len]
  BY <1>2
<1>5. PICK w : w = [v EXCEPT !.go = go, !.len0 = len0]
  OBVIOUS
<1>6. read' = [read EXCEPT ![q] = w]
  BY <1>1, <1>3, <1>4, <1>5 DEF ReadLen, Reading
<1>7. /\ w \in Reading /\ w.go = go /\ w.hit = v.hit /\ w.len0 = len0 /\ w.slots = v.slots
      /\ w.len = v.len /\ w.op = v.op /\ w.stage = v.stage /\ w.shown = v.shown
  BY <1>5 DEF Reading
<1>8. SliceFits(w)
  BY <1>1, <1>2, <1>3, <1>4, <1>7, SliceRead DEF Fit
<1>9. \A x \in Ids \ {p} : go[x] = v.go[x]
  BY <1>2, <1>3
<1>10. /\ w.hit \subseteq v.hit \cup table.profile /\ v.go[p] \in Found
       /\ \A x \in Ids \ {p} : w.go[x] = v.go[x]
  BY <1>2, <1>7, <1>9 DEF Found
<1>11. QED
  BY <1>1, <1>2, <1>6, <1>7, <1>8, <1>10, GoMoves

\* A slot is written.
LEMMA WriteMoves ==
  ASSUME read \in [Readers -> Reading], NEW q \in Readers, Fit(read[q]),
         NEW p \in Ids, WriteSlot(q, p)
  PROVE  Moves(q)
<1>1. PICK v \in Reading : v = read[q]
  OBVIOUS
<1>2. /\ v.go \in [Ids -> Goroutine] /\ v.slots \in Seq(Ids \cup {NoRow})
      /\ v.len0 \in [Ids -> Nat] /\ v.go[p] = "write"
  BY <1>1 DEF WriteSlot, Reading
<1>3. PICK go \in [Ids -> Goroutine] : go = [v.go EXCEPT ![p] = "store"]
  BY <1>2 DEF Goroutine
<1>4. v.len0[p] < Len(v.slots)
  BY <1>1, <1>2 DEF Fit, SliceFits
<1>5. PICK slots \in Seq(Ids \cup {NoRow}) : slots = [v.slots EXCEPT ![v.len0[p] + 1] = p]
  <2>1. PICK k : k = v.len0[p] + 1
    OBVIOUS
  <2>2. k \in 1..Len(v.slots)
    BY <1>2, <1>4, <2>1
  <2>3. [v.slots EXCEPT ![k] = p] \in Seq(Ids \cup {NoRow})
    BY <1>2, <2>2
  <2>4. QED
    BY <2>1, <2>3
<1>6. PICK w : w = [v EXCEPT !.go = go, !.slots = slots]
  OBVIOUS
<1>7. read' = [read EXCEPT ![q] = w]
  BY <1>1, <1>3, <1>5, <1>6 DEF WriteSlot, Reading
<1>8. /\ w \in Reading /\ w.go = go /\ w.hit = v.hit /\ w.len0 = v.len0 /\ w.slots = slots
      /\ w.len = v.len /\ w.op = v.op /\ w.stage = v.stage /\ w.shown = v.shown
  BY <1>6 DEF Reading
<1>9. SliceFits(w)
  <2>1. SliceFits(v)
    BY <1>1 DEF Fit
  <2>2. /\ w.go = [v.go EXCEPT ![p] = "store"]
        /\ w.slots = [v.slots EXCEPT ![v.len0[p] + 1] = p]
    BY <1>3, <1>5, <1>8
  <2>3. QED
    BY <1>2, <1>8, <2>1, <2>2, SliceWritten
<1>10. \A x \in Ids \ {p} : go[x] = v.go[x]
  BY <1>2, <1>3
<1>11. /\ w.hit \subseteq v.hit \cup table.profile /\ v.go[p] \in Found
       /\ \A x \in Ids \ {p} : w.go[x] = v.go[x]
  BY <1>2, <1>8, <1>10 DEF Found
<1>12. QED
  BY <1>1, <1>2, <1>7, <1>8, <1>9, <1>11, GoMoves

\* The longer slice is stored.
LEMMA StoreMoves ==
  ASSUME read \in [Readers -> Reading], NEW q \in Readers, Fit(read[q]),
         NEW p \in Ids, StoreLen(q, p)
  PROVE  Moves(q)
<1>1. PICK v \in Reading : v = read[q]
  OBVIOUS
<1>2. /\ v.go \in [Ids -> Goroutine] /\ v.len0 \in [Ids -> Nat] /\ v.go[p] = "store"
  BY <1>1 DEF StoreLen, Reading
<1>3. PICK go \in [Ids -> Goroutine] : go = [v.go EXCEPT ![p] = "added"]
  BY <1>2 DEF Goroutine
<1>4. PICK len0 \in [Ids -> Nat] : len0 = [v.len0 EXCEPT ![p] = 0]
  BY <1>2
<1>5. PICK len \in Nat : len = v.len0[p] + 1
  BY <1>2
<1>6. PICK w : w = [v EXCEPT !.go = go, !.len0 = len0, !.len = len]
  OBVIOUS
<1>7. read' = [read EXCEPT ![q] = w]
  <2>1. read' = [read EXCEPT ![q].go[p] = "added", ![q].len = len, ![q].len0[p] = 0]
    BY <1>1, <1>5 DEF StoreLen
  <2>2. PICK u : u = [v EXCEPT !.go[p] = "added", !.len = len, !.len0[p] = 0]
    OBVIOUS
  <2>3. read' = [read EXCEPT ![q] = u]
    BY <1>1, <2>1, <2>2 DEF Reading
  <2>4. w = u
    BY <1>3, <1>4, <1>6, <2>2 DEF Reading
  <2>5. QED
    BY <2>3, <2>4
<1>8. /\ w \in Reading /\ w.go = go /\ w.hit = v.hit /\ w.len0 = len0 /\ w.slots = v.slots
      /\ w.len = len /\ w.op = v.op /\ w.stage = v.stage /\ w.shown = v.shown
  BY <1>6 DEF Reading
<1>9. SliceFits(w)
  BY <1>1, <1>2, <1>3, <1>4, <1>5, <1>8, SliceStored DEF Fit
<1>10. \A x \in Ids \ {p} : go[x] = v.go[x]
  BY <1>2, <1>3
<1>11. /\ w.hit \subseteq v.hit \cup table.profile /\ v.go[p] \in Found
       /\ \A x \in Ids \ {p} : w.go[x] = v.go[x]
  BY <1>2, <1>8, <1>10 DEF Found
<1>12. QED
  BY <1>1, <1>2, <1>7, <1>8, <1>9, <1>11, GoMoves

\* The slice is shown once no goroutine runs.
LEMMA MineShownMoves ==
  ASSUME read \in [Readers -> Reading], NEW q \in Readers, Fit(read[q]), MineShown(q)
  PROVE  Moves(q)
<1>1. PICK v \in Reading : v = read[q]
  OBVIOUS
<1>2. /\ v.go \in [Ids -> Goroutine] /\ v.slots \in Seq(Ids \cup {NoRow}) /\ v.len \in Nat
      /\ v.stage = "search" /\ \A p \in Ids : v.go[p] \in {"off", "added", "done"}
  BY <1>1 DEF MineShown, Reading
<1>3. \A i \in 1..v.len : v.slots[i] \in Ids /\ v.go[v.slots[i]] = "added"
  <2>1. \A i \in 1..v.len : i \in 1..Len(v.slots) /\ v.slots[i] # NoRow
    BY <1>1, <1>2 DEF Fit, SliceFits, Filled
  <2>2. \A i \in 1..v.len : v.go[v.slots[i]] \in {"store", "added"} /\ v.slots[i] \in Ids
    BY <1>1, <1>2, <2>1 DEF Fit, SliceFits
  <2>3. QED
    BY <1>2, <2>2
<1>4. PICK shown \in SUBSET Ids : shown = {v.slots[i] : i \in 1..v.len}
  BY <1>3
<1>5. PICK w : w = [v EXCEPT !.stage = "shown", !.shown = shown]
  OBVIOUS
<1>6. /\ w \in Reading /\ w.go = v.go /\ w.hit = v.hit /\ w.len0 = v.len0 /\ w.slots = v.slots
      /\ w.len = v.len /\ w.op = v.op /\ w.stage = "shown" /\ w.shown = shown
  BY <1>5 DEF Reading, ReadStages
<1>7. read' = [read EXCEPT ![q] = w]
  <2>1. shown = {read[q].slots[i] : i \in 1..read[q].len}
    BY <1>1, <1>4
  <2>2. read' = [read EXCEPT ![q].stage = "shown", ![q].shown = shown]
    BY <2>1 DEF MineShown
  <2>3. QED
    BY <1>1, <1>5, <2>2
<1>8. OnlyReader(q) /\ read'[q] = w
  BY <1>6, <1>7, Replace
<1>9. SliceFits(w)
  BY <1>1, <1>6, SliceSame DEF Fit
<1>10. ReaderFits(w) /\ ShowsSlice(w)
  BY <1>2, <1>4, <1>6 DEF ReaderFits, ShowsSlice
<1>11. Finds(v, w)
  <2>1. v.op = "mine"
    BY <1>1, <1>2 DEF Fit, ReaderFits
  <2>2. \A x \in w.shown : v.go[x] \in Found
    BY <1>3, <1>4, <1>6 DEF Found
  <2>3. QED
    BY <1>6, <2>1, <2>2 DEF Finds
<1>12. QED
  BY <1>1, <1>8, <1>9, <1>10, <1>11 DEF Moves, Fit

\* GET /profile/<id> begins.
LEMMA Person1Moves ==
  ASSUME read \in [Readers -> Reading], NEW q \in Readers, Fit(read[q]), Person1(q)
  PROVE  Moves(q)
<1>1. PICK v \in Reading : v = read[q]
  OBVIOUS
<1>2. PICK p \in Named("profile"), yours \in BOOLEAN :
        read' = [read EXCEPT ![q].stage = "profile", ![q].at = p, ![q].yours = yours]
  BY DEF Person1
<1>3. p \in Ids
  BY DEF Named, Ids
<1>4. PICK w : w = [v EXCEPT !.stage = "profile", !.at = p, !.yours = yours]
  OBVIOUS
<1>5. /\ w \in Reading /\ w.go = v.go /\ w.hit = v.hit /\ w.len0 = v.len0 /\ w.slots = v.slots
      /\ w.len = v.len /\ w.op = v.op /\ w.stage = "profile" /\ w.shown = v.shown
  BY <1>3, <1>4 DEF Reading, ReadStages
<1>6. OnlyReader(q) /\ read'[q] = w
  BY <1>1, <1>2, <1>4, <1>5, Replace
<1>7. SliceFits(w)
  BY <1>1, <1>5, SliceSame DEF Fit
<1>8. v.stage = "idle" /\ v.op = "person"
  BY <1>1 DEF Person1
<1>9. ReaderFits(w) /\ ShowsSlice(w)
  BY <1>1, <1>5, <1>8 DEF Fit, ReaderFits, ShowsSlice
<1>10. Finds(v, w)
  BY <1>5 DEF Finds
<1>11. QED
  BY <1>1, <1>6, <1>7, <1>9, <1>10 DEF Moves, Fit

\* GET /profile/<id>, GET /profile and GET /offer.
LEMMA AnswersMove ==
  ASSUME TypeOK, read \in [Readers -> Reading], NEW q \in Readers, Fit(read[q]),
         Person2(q) \/ People(q) \/ OfferRows(q) \/ OfferRow(q)
  PROVE  Moves(q)
<1>1. PICK v \in Reading : v = read[q]
  OBVIOUS
<1>2. /\ table.profile \subseteq Ids /\ table.offersItems \subseteq Ids
      /\ table.offers \subseteq Ids
  BY DEF TypeOK, Tables
<1>3. CASE Over(q)
  BY <1>3, OverMoves
<1>4. CASE Person2(q) /\ ~ Over(q)
  <2>1. v.op = "person"
    BY <1>1, <1>4 DEF Person2, Fit, ReaderFits
  <2>2. PICK x \in SUBSET Ids : x = {v.at} \cap table.profile
    BY <1>2
  <2>3. Shows(q, x)
    BY <1>1, <1>4, <2>2 DEF Person2
  <2>4. QED
    BY <1>1, <2>1, <2>2, <2>3, ShowsMoves
<1>5. CASE People(q) /\ ~ Over(q)
  <2>1. PICK x \in SUBSET table.profile : Shows(q, x)
    BY <1>5 DEF People
  <2>2. x \in SUBSET Ids /\ read[q].op = "people"
    BY <1>2, <1>5 DEF People
  <2>3. QED
    BY <2>1, <2>2, ShowsMoves
<1>6. CASE OfferRows(q) /\ ~ Over(q)
  <2>1. PICK w : w = [v EXCEPT !.stage = "offer_rows", !.rows = table.offersItems]
    OBVIOUS
  <2>2. read' = [read EXCEPT ![q] = w]
    BY <1>1, <1>6, <2>1 DEF OfferRows
  <2>3. /\ w \in Reading /\ w.go = v.go /\ w.hit = v.hit /\ w.len0 = v.len0
        /\ w.slots = v.slots /\ w.len = v.len /\ w.op = v.op /\ w.stage = "offer_rows"
        /\ w.shown = v.shown
    BY <1>2, <2>1 DEF Reading, ReadStages
  <2>4. OnlyReader(q) /\ read'[q] = w
    BY <2>2, <2>3, Replace
  <2>5. v.stage = "idle" /\ v.op = "offers"
    BY <1>1, <1>6 DEF OfferRows
  <2>6. SliceFits(w) /\ ReaderFits(w) /\ ShowsSlice(w)
    <3>1. SliceFits(w)
      BY <1>1, <2>3, SliceSame DEF Fit
    <3>2. QED
      BY <1>1, <2>3, <2>5, <3>1 DEF Fit, ReaderFits, ShowsSlice
  <2>7. Finds(v, w)
    BY <2>3 DEF Finds
  <2>8. QED
    BY <1>1, <2>4, <2>6, <2>7 DEF Moves, Fit
<1>7. CASE OfferRow(q) /\ ~ Over(q)
  <2>1. v.stage = "offer_rows" /\ v.op = "offers"
    BY <1>1, <1>7 DEF OfferRow, Fit, ReaderFits
  <2>2. CASE Shows(q, v.shown)
    <3>1. PICK x \in SUBSET Ids : x = v.shown
      BY DEF Reading
    <3>2. QED
      BY <1>1, <2>1, <2>2, <3>1, ShowsMoves
  <2>3. CASE ~ Shows(q, v.shown)
    <3>1. PICK o, found :
            /\ found \subseteq table.offers
            /\ read' = [read EXCEPT ![q].rows = @ \ {o}, ![q].shown = @ \cup found]
      BY <1>1, <1>7, <2>3 DEF OfferRow
    <3>2. PICK rows \in SUBSET Ids : rows = v.rows \ {o}
      BY DEF Reading
    <3>3. PICK shown \in SUBSET Ids : shown = v.shown \cup found
      BY <1>2, <3>1 DEF Reading
    <3>4. PICK w : w = [v EXCEPT !.rows = rows, !.shown = shown]
      OBVIOUS
    <3>5. read' = [read EXCEPT ![q] = w]
      BY <1>1, <3>1, <3>2, <3>3, <3>4 DEF Reading
    <3>6. /\ w \in Reading /\ w.go = v.go /\ w.hit = v.hit /\ w.len0 = v.len0
          /\ w.slots = v.slots /\ w.len = v.len /\ w.op = v.op /\ w.stage = v.stage
          /\ w.shown = shown
      BY <3>4 DEF Reading
    <3>7. OnlyReader(q) /\ read'[q] = w
      BY <3>5, <3>6, Replace
    <3>8. SliceFits(w) /\ ReaderFits(w) /\ ShowsSlice(w)
      BY <1>1, <2>1, <3>6, SliceSame DEF Fit, ReaderFits, ShowsSlice
    <3>9. Finds(v, w)
      BY <2>1, <3>1, <3>3, <3>6 DEF Finds
    <3>10. QED
      BY <1>1, <3>7, <3>8, <3>9 DEF Moves, Fit
  <2>4. QED
    BY <2>2, <2>3
<1>8. QED
  BY <1>3, <1>4, <1>5, <1>6, <1>7

\* Any step of a reader.
LEMMA ReadsMove ==
  ASSUME IInv, FinitelyMany, read \in [Readers -> Reading], NEW q \in Readers,
         Fit(read[q]), Reads(q)
  PROVE  Moves(q)
<1>1. TypeOK
  BY DEF IInv
<1>2. CASE Mine(q)
  BY <1>2, MineMoves
<1>3. CASE MineShown(q)
  BY <1>3, MineShownMoves
<1>4. ASSUME NEW p \in Ids,
             \/ SelectProfile(q, p) \/ CheckError(q, p)
             \/ ReadLen(q, p) \/ WriteSlot(q, p) \/ StoreLen(q, p)
      PROVE  Moves(q)
  BY <1>1, <1>4, SelectMoves, CheckMoves, ReadLenMoves, WriteMoves, StoreMoves
<1>5. CASE Person1(q)
  BY <1>5, Person1Moves
<1>6. CASE Person2(q) \/ People(q) \/ OfferRows(q) \/ OfferRow(q)
  BY <1>1, <1>6, AnswersMove
<1>7. QED
  BY <1>2, <1>3, <1>4, <1>5, <1>6 DEF Reads

-----------------------------------------------------------------------------
(***************************************************************************)
(* What was found lasts.                                                   *)
(***************************************************************************)

\* A creation that failed stays so.
LEMMA FailedStays ==
  ASSUME StageFits, NEW r \in Requests, Kind(r), NEW x, Failed(x)
  PROVE  Failed(x)'
<1>1. CASE x # r
  BY <1>1, OnlyOne DEF Others, Failed
<1>2. CASE x = r
  <2>1. req[r].stage \in {"undo", "undo_all", "undo_rest"}
    BY <1>2, EndedRests DEF Failed, Ended
  <2>2. Fails(r)
    BY <2>1 DEF Kind, Forgets, Arrives, Passes, Inserts, Row, Weighs, Clears, Orders, Cancels,
                Checking
  <2>3. QED
    BY <1>2, <2>2 DEF Fails, Failed
<1>3. QED
  BY <1>1, <1>2

\* A profile that disappears is deleted or undone.
LEMMA ProfilesLast ==
  ASSUME TypeOK, StageFits, NEW r \in Requests, Kind(r), NEW p, ProfileLasts(p)
  PROVE  ProfileLasts(p)'
<1>1. CASE Deleting(p)
  BY <1>1, DeletingStays DEF ProfileLasts
<1>2. CASE Failed(p)
  BY <1>2, FailedStays DEF ProfileLasts
<1>3. CASE p \in table.profile
  <2>1. CASE p \in table'.profile
    BY <2>1 DEF ProfileLasts
  <2>2. CASE p \notin table'.profile
    <3>1. "profile" \in Tables /\ p \in table["profile"] \ table'["profile"]
      BY <1>3, <2>2 DEF Tables
    <3>2. \/ p = r /\ req'[r].stage \in {"error", "undo_rest"}
          \/ Deleting(p)'
      BY <3>1, Losses
    <3>3. QED
      BY <3>2 DEF ProfileLasts, Failed
  <2>3. QED
    BY <2>1, <2>2
<1>4. QED
  BY <1>1, <1>2, <1>3 DEF ProfileLasts

\* An offer too.
LEMMA OffersLast ==
  ASSUME TypeOK, StageFits, NEW r \in Requests, Kind(r), NEW o, OfferLasts(o)
  PROVE  OfferLasts(o)'
<1>1. Fixed(o)' /\ Creator(o)' = Creator(o)
  BY ColumnsStay DEF OfferLasts
<1>2. ASSUME Deleting(Creator(o))
      PROVE  Deleting(Creator(o))'
  <2>1. PICK p : p = Creator(o)
    OBVIOUS
  <2>2. Deleting(p)'
    BY <1>2, <2>1, DeletingStays
  <2>3. p = Creator(o)'
    BY <1>1, <2>1
  <2>4. QED
    BY <2>2, <2>3 DEF Deleting
<1>3. CASE Deleting(Creator(o))
  BY <1>1, <1>2, <1>3 DEF OfferLasts
<1>4. CASE Failed(o)
  BY <1>1, <1>4, FailedStays DEF OfferLasts
<1>5. CASE o \in table.offers
  <2>1. CASE o \in table'.offers
    BY <1>1, <2>1 DEF OfferLasts
  <2>2. CASE o \notin table'.offers
    <3>1. "offers" \in Tables /\ o \in table["offers"] \ table'["offers"]
      BY <1>5, <2>2 DEF Tables
    <3>2. \/ o = r /\ req'[r].stage \in {"error", "undo_rest"}
          \/ \E p \in Ids : Creator(o) = p /\ Deleting(p)'
      BY <3>1, Losses
    <3>3. CASE o = r /\ req'[r].stage \in {"error", "undo_rest"}
      BY <1>1, <3>3 DEF OfferLasts, Failed
    <3>4. CASE \E p \in Ids : Creator(o) = p /\ Deleting(p)'
      <4>1. PICK p \in Ids : Creator(o) = p /\ Deleting(p)'
        BY <3>4
      <4>2. p = Creator(o)'
        BY <1>1, <4>1
      <4>3. Deleting(Creator(o))'
        BY <4>1, <4>2 DEF Deleting
      <4>4. QED
        BY <1>1, <4>3 DEF OfferLasts
    <3>5. QED
      BY <3>2, <3>3, <3>4
  <2>3. QED
    BY <2>1, <2>2
<1>6. QED
  BY <1>3, <1>4, <1>5 DEF OfferLasts

\* Whatever the requests do.
LEMMA LastsOnNext ==
  ASSUME IInv, Next
  PROVE  /\ \A p : ProfileLasts(p) => ProfileLasts(p)'
         /\ \A o : OfferLasts(o) => OfferLasts(o)'
<1>1. PICK r \in Requests : Kind(r)
  BY Kinds
<1>2. TypeOK /\ StageFits
  BY DEF IInv
<1>3. QED
  BY <1>1, <1>2, ProfilesLast, OffersLast

\* When the process ends.
LEMMA LastsOnStop ==
  ASSUME IInv, Stops
  PROVE  /\ \A p : ProfileLasts(p) => ProfileLasts(p)'
         /\ \A o : OfferLasts(o) => OfferLasts(o)'
<1>1. TypeOK /\ StageFits /\ OwnProfile
  BY DEF IInv
<1>2. ASSUME NEW x, Failed(x)
      PROVE  Failed(x)'
  BY <1>2 DEF Failed, Stops, Settled, Writing, Ended
<1>3. ASSUME NEW p, ProfileLasts(p)
      PROVE  ProfileLasts(p)'
  BY <1>1, <1>2, <1>3, StopsColumns DEF ProfileLasts, Stops
<1>4. ASSUME NEW o, OfferLasts(o)
      PROVE  OfferLasts(o)'
  <2>1. Fixed(o)' /\ Creator(o)' = Creator(o)
    BY <1>1, <1>4, StopsColumns DEF OfferLasts
  <2>2. ASSUME Deleting(Creator(o))
        PROVE  Deleting(Creator(o))'
    <3>1. PICK p : p = Creator(o)
      OBVIOUS
    <3>2. Deleting(p)' /\ p = Creator(o)'
      BY <1>1, <2>1, <2>2, <3>1, StopsColumns
    <3>3. QED
      BY <3>2 DEF Deleting
  <2>3. QED
    BY <1>2, <1>4, <2>1, <2>2 DEF OfferLasts, Stops
<1>5. QED
  BY <1>3, <1>4

-----------------------------------------------------------------------------
(***************************************************************************)
(* The invariant.                                                          *)
(***************************************************************************)

\* It holds at first.
LEMMA ReadsInitInv ==
  ASSUME ReadsInit
  PROVE  ReadsIInv
<1>1. IInv /\ Init
  BY InitInv DEF ReadsInit
<1>2. FinitelyMany
  <2>1. Busy = {}
    BY <1>1 DEF Init, Idle, Busy
  <2>2. QED
    BY <2>1, FS_EmptySet DEF FinitelyMany
<1>3. PICK op \in ReadOps : read = [q \in Readers |-> Unread(op)]
  BY ViewsAssumption DEF ReadsInit
<1>4. PICK w : w = Rest(op, "idle", {})
  OBVIOUS
<1>5. w = Unread(op)
  <2>1. PICK go : go = [i \in Ids |-> "off"]
    OBVIOUS
  <2>2. PICK len0 : len0 = [i \in Ids |-> 0]
    OBVIOUS
  <2>3. w = [op |-> op, stage |-> "idle", at |-> NoRow, yours |-> FALSE,
             err |-> FALSE, hit |-> {}, go |-> go, len0 |-> len0,
             slots |-> <<>>, len |-> 0, rows |-> {}, shown |-> {}]
    BY <1>4, <2>1, <2>2 DEF Rest, Unread
  <2>4. PICK u : u = Unread(op)
    OBVIOUS
  <2>5. u = [op |-> op, stage |-> "idle", at |-> NoRow, yours |-> FALSE,
             err |-> FALSE, hit |-> {}, go |-> go, len0 |-> len0,
             slots |-> <<>>, len |-> 0, rows |-> {}, shown |-> {}]
    BY <2>1, <2>2, <2>4 DEF Unread
  <2>6. QED
    BY <2>3, <2>4, <2>5
<1>6. /\ w \in Reading /\ Fit(w) /\ w.stage = "idle"
      /\ w.op = op /\ w.hit = {} /\ w.shown = {} /\ \A p \in Ids : w.go[p] = "off"
  BY <1>4, RestFits
<1>7. \A q \in Readers : read[q] = w
  BY <1>3, <1>5
<1>8. ReadsTypeOK
  BY <1>3, <1>5, <1>6, <1>7 DEF ReadsTypeOK
<1>9. ReadersFit /\ FoundLast
  BY <1>6, <1>7 DEF ReadersFit, FoundLast, Fit, Found
<1>10. QED
  BY <1>1, <1>2, <1>8, <1>9 DEF ReadsIInv

\* The slice of a reader that fits has room.
LEMMA FitTypes ==
  ASSUME read \in [Readers -> Reading], ReadersFit
  PROVE  ReadsTypeOK
BY DEF ReadsTypeOK, ReadersFit, SliceFits, Filled

\* A request's step leaves the readers, and what they found lasts.
LEMMA RequestsKeep ==
  ASSUME ReadsIInv, Next, UNCHANGED read
  PROVE  ReadsIInv'
<1>1. IInv /\ FinitelyMany /\ ReadsTypeOK /\ ReadersFit /\ FoundLast
  BY DEF ReadsIInv
<1>2. IInv' /\ FinitelyMany'
  BY <1>1, NextInv, FinitelyManyKept
<1>3. ReadsTypeOK' /\ ReadersFit'
  BY <1>1 DEF ReadsTypeOK, ReadersFit
<1>4. FoundLast'
  BY <1>1, LastsOnNext DEF FoundLast
<1>5. QED
  BY <1>2, <1>3, <1>4 DEF ReadsIInv

\* So does the end of the process, after which no reader waits.
LEMMA EndKeeps ==
  ASSUME ReadsIInv, ProcessEnds
  PROVE  ReadsIInv'
<1>1. IInv /\ FinitelyMany /\ ReadsTypeOK /\ ReadersFit /\ FoundLast
  BY DEF ReadsIInv
<1>2. TypeOK
  BY <1>1 DEF IInv
<1>3. Stops
  BY <1>2, CutStops DEF ProcessEnds
<1>4. IInv' /\ FinitelyMany'
  BY <1>1, <1>2, <1>3, StopsKept, FinitelyManyStop
<1>5. ASSUME NEW q \in Readers
      PROVE  /\ read'[q] \in Reading /\ Fit(read'[q])
             /\ \/ read'[q] = read[q]
                \/ /\ read'[q].hit = {} /\ read'[q].shown = {}
                   /\ \A p \in Ids : read'[q].go[p] = "off"
  <2>1. CASE read[q].stage \in {"shown", "over"}
    <3>1. read'[q] = read[q]
      BY <2>1 DEF ProcessEnds
    <3>2. QED
      BY <1>1, <3>1 DEF ReadsTypeOK, ReadersFit, Fit
  <2>2. CASE read[q].stage \notin {"shown", "over"}
    <3>1. PICK op \in ReadOps : op = read[q].op
      BY <1>1 DEF ReadsTypeOK, Reading
    <3>2. PICK w : w = Rest(op, "over", {})
      OBVIOUS
    <3>3. read'[q] = [Unread(op) EXCEPT !.stage = "over"]
      BY <2>2, <3>1 DEF ProcessEnds
    <3>4. read'[q] = w
      BY <3>2, <3>3, RestIsOver
    <3>5. QED
      BY <3>1, <3>2, <3>4, RestFits
  <2>3. QED
    BY <2>1, <2>2
<1>6. ReadersFit'
  BY <1>5 DEF ReadersFit, Fit
<1>7. read' \in [Readers -> Reading]
  <2>1. read' = [q \in Readers |-> read'[q]]
    BY DEF ProcessEnds
  <2>2. QED
    BY <1>5, <2>1
<1>8. ReadsTypeOK'
  BY <1>6, <1>7 DEF ReadsTypeOK, ReadersFit, SliceFits, Filled
<1>9. FoundLast'
  <2>1. /\ \A p : ProfileLasts(p) => ProfileLasts(p)'
        /\ \A o : OfferLasts(o) => OfferLasts(o)'
    BY <1>1, <1>3, LastsOnStop
  <2>2. QED
    BY <1>1, <1>5, <2>1 DEF FoundLast, Found
<1>10. QED
  BY <1>4, <1>6, <1>8, <1>9 DEF ReadsIInv

\* And the step of a reader: what it finds is there.
LEMMA ReadersKeep ==
  ASSUME ReadsIInv, NEW q \in Readers, Reads(q), UNCHANGED vars
  PROVE  ReadsIInv'
<1>1. IInv /\ FinitelyMany /\ ReadsTypeOK /\ ReadersFit /\ FoundLast
  BY DEF ReadsIInv
<1>2. TypeOK /\ RowsSettled
  BY <1>1 DEF IInv
<1>3. read \in [Readers -> Reading] /\ Fit(read[q])
  BY <1>1 DEF ReadsTypeOK, ReadersFit, Fit
<1>4. Moves(q)
  BY <1>1, <1>3, ReadsMove
<1>5. IInv'
  BY <1>1, NextInv
<1>6. FinitelyMany'
  BY <1>1 DEF FinitelyMany, Busy, vars
<1>7. ReadersFit' /\ read' \in [Readers -> Reading]
  BY <1>1, <1>4 DEF ReadersFit, Moves, OnlyReader, Fit
<1>8. ReadsTypeOK'
  BY <1>7 DEF ReadsTypeOK, ReadersFit, SliceFits, Filled
<1>9. /\ \A p : ProfileLasts(p) => ProfileLasts(p)'
      /\ \A o : OfferLasts(o) => OfferLasts(o)'
  BY DEF ProfileLasts, OfferLasts, Deleting, Failed, Fixed, Settled, Creator, vars
<1>10. /\ \A p \in table.profile : ProfileLasts(p)
       /\ \A o \in table.offers : OfferLasts(o)
  <2>1. \A o \in table.offers : Fixed(o)
    BY <1>2 DEF RowsSettled, TypeOK, Tables, Ids, Fixed
  <2>2. QED
    BY <2>1 DEF ProfileLasts, OfferLasts
<1>11. FoundLast'
  <2>1. ASSUME NEW x \in Readers \ {q}
        PROVE  /\ \A p \in read'[x].hit : ProfileLasts(p)'
               /\ \A p \in Ids : read'[x].go[p] \in Found => ProfileLasts(p)'
               /\ \A y \in read'[x].shown :
                    IF read'[x].op = "offers" THEN OfferLasts(y)' ELSE ProfileLasts(y)'
    BY <1>1, <1>4, <1>9 DEF Moves, OnlyReader, FoundLast
  <2>2. PICK v, w : v = read[q] /\ w = read'[q]
    OBVIOUS
  <2>3. /\ \A p \in v.hit : ProfileLasts(p)
        /\ \A p \in Ids : v.go[p] \in Found => ProfileLasts(p)
        /\ \A y \in v.shown : IF v.op = "offers" THEN OfferLasts(y) ELSE ProfileLasts(y)
    BY <1>1, <2>2 DEF FoundLast
  <2>4. Finds(v, w) /\ w.shown \subseteq Ids
    BY <1>4, <1>7, <2>2 DEF Moves, Reading
  <2>5. /\ \A p \in w.hit : ProfileLasts(p)
        /\ \A p \in Ids : w.go[p] \in Found => ProfileLasts(p)
        /\ \A y \in w.shown : IF w.op = "offers" THEN OfferLasts(y) ELSE ProfileLasts(y)
    BY <1>10, <2>3, <2>4 DEF Finds
  <2>6. QED
    BY <1>9, <2>1, <2>2, <2>5 DEF FoundLast
<1>12. QED
  BY <1>5, <1>6, <1>7, <1>8, <1>11 DEF ReadsIInv

\* Every step keeps it.
LEMMA ReadsNextInv ==
  ASSUME ReadsIInv, [ReadsNext]_readVars
  PROVE  ReadsIInv'
<1>1. CASE Next /\ UNCHANGED read
  BY <1>1, RequestsKeep
<1>2. CASE ProcessEnds
  BY <1>2, EndKeeps
<1>3. ASSUME NEW q \in Readers, Reads(q) /\ UNCHANGED vars
      PROVE  ReadsIInv'
  BY <1>3, ReadersKeep
<1>4. CASE UNCHANGED readVars
  <2>1. UNCHANGED vars /\ UNCHANGED read
    BY <1>4 DEF readVars
  <2>2. IInv'
    BY <2>1, NextInv DEF ReadsIInv
  <2>3. FinitelyMany' /\ ReadsTypeOK' /\ ReadersFit'
    BY <2>1 DEF ReadsIInv, FinitelyMany, Busy, vars, ReadsTypeOK, ReadersFit
  <2>4. FoundLast'
    BY <2>1 DEF ReadsIInv, FoundLast, ProfileLasts, OfferLasts, Deleting, Failed, Fixed,
                Settled, Creator, vars
  <2>5. QED
    BY <2>2, <2>3, <2>4 DEF ReadsIInv
<1>5. QED
  BY <1>1, <1>2, <1>3, <1>4 DEF ReadsNext

-----------------------------------------------------------------------------
(***************************************************************************)
(* The theorems.                                                           *)
(***************************************************************************)

\* The inductive invariant holds in every state.
THEOREM ReadsInvariance == ReadsSpec => []ReadsIInv
BY ReadsInitInv, ReadsNextInv, PTL DEF ReadsSpec

\* Every reader has its type, and a slice has room for what is appended to it.
THEOREM ReadsTypeCorrect == ReadsSpec => []ReadsTypeOK
BY ReadsInvariance, PTL DEF ReadsIInv

\* GET /profile/@ shows profiles of the client only, each once, and some if any was found.
THEOREM OwnProfilesShown == ReadsSpec => []MineIsMine
<1>1. ASSUME ReadsIInv PROVE MineIsMine
  <2> SUFFICES ASSUME NEW q \in Readers, read[q].op = "mine", read[q].stage = "shown",
                      NEW added, added = {p \in Ids : read[q].go[p] = "added"}
               PROVE  /\ read[q].shown \subseteq added
                      /\ Cardinality(read[q].shown) = read[q].len
                      /\ added # {} => read[q].shown # {}
    BY DEF MineIsMine
  <2>1. PICK v \in Reading : v = read[q]
    BY <1>1 DEF ReadsIInv, ReadsTypeOK
  <2>2. /\ v.shown = {v.slots[i] : i \in 1..v.len}
        /\ SliceFits(v) /\ \A p \in Ids : v.go[p] \in {"off", "added", "done"}
    BY <1>1, <2>1 DEF ReadsIInv, ReadersFit, ShowsSlice, ReaderFits
  <2>3. v.len \in Nat /\ v.slots \in Seq(Ids \cup {NoRow}) /\ Len(v.slots) \in Nat
    BY DEF Reading
  <2>4. \A i \in 1..v.len : /\ i \in 1..Len(v.slots) /\ v.slots[i] # NoRow
                            /\ v.slots[i] \in Ids /\ v.go[v.slots[i]] \in {"store", "added"}
    BY <2>2, <2>3 DEF SliceFits, Filled
  <2>5. v.shown \subseteq added
    BY <2>1, <2>2, <2>4
  <2>6. Cardinality(v.shown) = v.len
    <3> DEFINE f == [i \in 1..v.len |-> v.slots[i]]
    <3>1. \A i, j \in 1..v.len : f[i] = f[j] => i = j
      BY <2>2, <2>4 DEF SliceFits
    <3>2. \A x \in v.shown : \E i \in 1..v.len : f[i] = x
      BY <2>2
    <3>3. f \in [1..v.len -> v.shown]
      BY <2>2
    <3>4. f \in Bijection(1..v.len, v.shown)
      BY <3>1, <3>2, <3>3 DEF Bijection, Injection, Surjection, IsInjective
    <3> HIDE DEF f
    <3>5. ExistsBijection(1..v.len, v.shown)
      BY <3>4 DEF ExistsBijection
    <3>6. QED
      BY <2>3, <3>5, FS_CountingElements
  <2>7. added # {} => v.shown # {}
    <3>1. added # {} => v.len > 0
      BY <2>1, <2>2 DEF SliceFits
    <3>2. v.len > 0 => v.slots[1] \in v.shown
      BY <2>2, <2>3
    <3>3. QED
      BY <3>1, <3>2
  <2>8. QED
    BY <2>1, <2>5, <2>6, <2>7
<1>2. QED
  BY <1>1, ReadsInvariance, PTL

\* What a reader showed is there, unless its profile is deleted or its creation failed.
THEOREM ShownIsKept == ReadsSpec => []ShownStays
<1>1. ASSUME ReadsIInv PROVE ShownStays
  BY <1>1 DEF ReadsIInv, FoundLast, ShownStays, ProfileLasts, OfferLasts, Failed
<1>2. QED
  BY <1>1, ReadsInvariance, PTL

\* What Marketplace promises holds beside readers, and when the process ends.
THEOREM PromisesOutliveProcess ==
  ReadsSpec => [](/\ TypeOK /\ CreatedStays /\ InOnesOwnName /\ OffersOwnBloqs
                  /\ ListNeedsPictures /\ DeletedIsGone /\ WeightBacked /\ LikesLeaveTrace)
<1>1. ASSUME ReadsIInv
      PROVE  /\ TypeOK /\ CreatedStays /\ InOnesOwnName /\ OffersOwnBloqs
             /\ ListNeedsPictures /\ DeletedIsGone /\ WeightBacked /\ LikesLeaveTrace
  <2>1. IInv
    BY <1>1 DEF ReadsIInv
  <2>2. TypeOK /\ LikesLeaveTrace
    BY <2>1 DEF IInv, Traced
  <2>3. QED
    BY <2>1, <2>2, CreatedThingsStayInv, OwnNamesInv, ItemsAreOwnInv, ListsHavePicturesInv,
       DeletedProfilesAreGoneInv, WeightsAreBackedInv
<1>2. QED
  BY <1>1, ReadsInvariance, PTL
=============================================================================
