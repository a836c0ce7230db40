-------------------------- MODULE MarketplaceProofs --------------------------
(***************************************************************************)
(* Proofs about Marketplace, for any number of requests and clients, any   *)
(* things from before and any limits: what requests were told stays true,  *)
(* whatever others check, insert, roll back and delete in between.         *)
(***************************************************************************)
EXTENDS Marketplace, FiniteSetTheorems, TLAPS

-----------------------------------------------------------------------------
(***************************************************************************)
(* The inductive invariant.                                                *)
(***************************************************************************)

\* Past its checks: the request writes, or has ended having written.  What it asks
\* for no longer changes.
Settled(r) == req[r].stage \in Writing \cup Ended

\* A request is only at stages of its own.
StageFits ==
  \A r \in Requests : LET s == req[r].stage  o == req[r].op IN
    /\ s \in {"limit", "profile", "owner", "likes", "share", "bump", "new_share",
              "uncounted"} => o = "profile"
    /\ s \in {"delete", "deleted"} => o = "delete"
    /\ s \in {"category", "bloq", "image", "keywords"} => o = "bloq"
    /\ s \in {"items", "offer", "offer_items"} => o = "offer"
    /\ s = "order" => o = "order"
    /\ s \in {"cancel", "cancelled"} => o = "cancel"
    /\ s \in {"known", "preference", "shares"} => o = "preference"
    /\ s \in {"yours", "person"} => o \in {"delete", "makes_offer", "bloq", "offer"}
    /\ s = "list" => o \in {"browse", "makes_offer"}
    /\ s = "undo" => o \in {"profile", "bloq", "offer", "preference"}
    /\ s \in {"undo_all", "undo_rest"} => o \in {"profile", "bloq"}
    /\ s = "created" => o \in {"profile", "bloq", "offer", "order", "preference"}

\* What a request holds, by the stage it is at.
HoldsFit ==
  \A r \in Requests : LET s == req[r].stage  o == req[r].op IN
    /\ s = "likes" => req[r].picks # {}
    /\ s \in {"share", "bump", "new_share"} => req[r].picks \in Pairs
    /\ s = "bump" => req[r].n \in Nat
    /\ s = "delete" => req[r].n \in 0..5
    /\ s = "deleted" => req[r].n = 6
    /\ s = "order" => req[r].n \in 0..Quantity
    /\ o = "bloq" => req[r].n \in {0, 1}
    /\ o = "delete" /\ ~ Settled(r) => req[r].n = 0
    /\ o = "offer" /\ Settled(r) => req[r].seen = {}

\* The operation that makes the rows of a table.
Maker(t) ==
  CASE t \in {"profile", "credential_profiles", "profile_likes"} -> "profile"
    [] t \in {"bloq", "bloq_image", "bloq_keywords"} -> "bloq"
    [] t \in {"offers", "offersItems"} -> "offer"
    [] t = "preference" -> "preference"

\* A profile whose owner was written, perhaps undone since.
OwnerWritten(p) ==
  /\ p \in Requests
  /\ req[p].op = "profile" /\ Settled(p) /\ req[p].stage \notin {"profile", "owner"}

\* A row that was not there before belongs to a settled request of the right kind.
RowsSettled ==
  /\ \A t \in Tables : \A x \in table[t] \ Known :
       Settled(x) /\ req[x].op = Maker(t)
  /\ \A p \in table.credential_profiles \ Known : OwnerWritten(p)
  /\ table.offers \cap Known = {} /\ table.offersItems \cap Known = {}

\* Only the order of a request that came to ordering is there, as often as counted.
OrdersCounted ==
  \A r \in Requests :
    /\ ~ Settled(r) => orders[r] = 0
    /\ req[r].stage = "order" => orders[r] <= req[r].n

\* The request acts in the name of a profile it found to be its client's.
ActsForProfile(r) ==
  \/ req[r].stage \in {"person", "items"}
  \/ Settled(r) /\ req[r].op \in {"delete", "bloq", "offer"}

OwnProfile ==
  \A r \in Requests : ActsForProfile(r) =>
    /\ req[r].at \in Known \/ OwnerWritten(req[r].at)
    /\ Client(req[r].at) = req[r].client

\* The items checked so far are, or were, bloqs of the profile that offers them.
ItemsChecked ==
  \A r \in Requests : req[r].op = "offer" /\ ActsForProfile(r) =>
    /\ req[r].stage = "person" \/
       \A b \in req[r].picks \ req[r].seen :
         /\ b \in Known \/ (b \in Requests /\ Settled(b))
         /\ Creator(b) = req[r].at

\* CreatedStays, from the first row of a thing on.
ProfileMade ==
  \A r \in Requests : LET s == req[r].stage IN
    /\ req[r].op = "profile"
    /\ s \in {"owner", "likes", "share", "bump", "new_share"} \cup Answered
    => \/ Deleting(r)
       \/ /\ r \in table.profile
          /\ s # "owner" => r \in table.credential_profiles
          /\ s \notin {"owner", "likes"} => req[r].picks = {} \/ r \in table.profile_likes

BloqMade ==
  \A r \in Requests : LET s == req[r].stage IN
    req[r].op = "bloq" /\ s \in {"image", "keywords", "created"}
    => \/ Deleting(req[r].at)
       \/ /\ r \in table.bloq
          /\ s = "created" => req[r].n = 0 \/ r \in table.bloq_keywords

OfferMade ==
  \A r \in Requests : LET s == req[r].stage IN
    req[r].op = "offer" /\ s \in {"offer_items", "created"}
    => \/ Deleting(req[r].at)
       \/ r \in table.offers /\ (s = "created" => r \in table.offersItems)

PreferenceMade ==
  \A r \in Requests :
    req[r].op = "preference" /\ req[r].stage \in {"shares", "created"}
    => r \in table.preference

OrderMade ==
  \A r \in Requests : req[r].op = "order" =>
    /\ req[r].stage = "order" =>
         ClientDeletes(req[r].client) \/ Cancelling(r) \/ orders[r] = req[r].n
    /\ req[r].stage = "created" =>
         ClientDeletes(req[r].client) \/ Cancelling(r) \/ orders[r] = Quantity

\* Pictures stay, even those of bloqs that are gone; a list is of bloqs that were made.
PicturesStay ==
  /\ Known \subseteq table.bloq_image
  /\ \A r \in Requests :
       /\ req[r].op = "bloq" /\ req[r].stage \in {"keywords", "created"} =>
            r \in table.bloq_image
       /\ req[r].stage = "look" =>
            \A b \in req[r].seen \ Known :
              b \in Requests /\ Settled(b) /\ req[b].op = "bloq"

\* Once a profile has lost its owner nobody begins to write in its name, and after
\* their tables were cleared only what was under way then can be there.
LeftUnderWay ==
  \A r \in Requests :
    req[r].stage \in {"delete", "deleted"} /\ req[r].n >= 2 =>
      /\ req[r].at \notin table.credential_profiles
      /\ \A x \in Requests \ req[r].seen :
           req[x].op \in {"bloq", "offer"} /\ req[x].at = req[r].at =>
             req[x].stage \notin Writing \cup {"person", "items"}
      /\ req[r].n >= 5 =>
           \A x \in table.offers : Creator(x) = req[r].at => x \in req[r].seen
      /\ req[r].n >= 6 =>
           \A x \in table.bloq : Creator(x) = req[r].at => x \in req[r].seen

\* The profiles answered 201 with the likes of a pair.
Backers(p) ==
  {q \in Requests : /\ req[q].op = "profile" /\ req[q].picks = p
                    /\ req[q].stage \in Answered}

\* A weight that was read is backed as one that is stored.
Backed ==
  /\ \A p \in Pairs : IsFiniteSet(Backers(p)) /\ weight[p] <= Cardinality(Backers(p))
  /\ \A r \in Requests : req[r].stage = "bump" =>
       req[r].n <= Cardinality(Backers(req[r].picks))

\* A request that is to insert the row of a settled pair did not find one of weight 0.
Traced ==
  /\ \A r \in Requests :
       req[r].stage = "new_share" /\ req[r].picks \subseteq Known =>
         weight[req[r].picks] # 0
  /\ LikesLeaveTrace

IInv ==
  /\ TypeOK /\ StageFits /\ HoldsFit
  /\ RowsSettled /\ OrdersCounted /\ OwnProfile /\ ItemsChecked
  /\ ProfileMade /\ BloqMade /\ OfferMade /\ PreferenceMade /\ OrderMade
  /\ PicturesStay /\ LeftUnderWay /\ Backed /\ Traced

-----------------------------------------------------------------------------
(***************************************************************************)
(* What a step can change.                                                 *)
(***************************************************************************)

\* Only r moves, and it stays the operation it is.
Others(r) ==
  /\ req' \in [Requests -> Request]
  /\ \A q \in Requests \ {r} : req'[q] = req[q]
  /\ req'[r].op = req[r].op

\* What it asks for stays.
Keeps(r) ==
  /\ Others(r)
  /\ req'[r].client = req[r].client
  /\ req'[r].at = req[r].at /\ req'[r].picks = req[r].picks

\* It goes on, or ends, and nothing else of it changes.
Goes(r, to) ==
  /\ Keeps(r)
  /\ req'[r].seen = req[r].seen /\ req'[r].n = req[r].n
  /\ req'[r].stage = to

Stages == {"idle"} \cup Checking \cup Writing \cup Ended

\* Step only changes the stage.
LEMMA StepGoes ==
  ASSUME TypeOK, NEW r \in Requests, NEW to \in Stages, Step(r, to)
  PROVE  Goes(r, to)
BY DEF TypeOK, Request, Step, Goes, Keeps, Others, Stages

\* Nothing was written, and the request is forgotten.
Forgets(r) ==
  /\ Others(r) /\ UNCHANGED <<table, orders, weight>>
  /\ req[r].stage \in Checking
  /\ req'[r] = Idle(r, req[r].op)

\* Forget leaves the idle request.
LEMMA ForgetForgets ==
  ASSUME TypeOK, NEW r \in Requests, Forget(r), UNCHANGED <<table, orders, weight>>,
         req[r].stage \in Checking
  PROVE  Forgets(r)
<1>1. Idle(r, req[r].op) \in Request
  BY SceneAssumption DEF TypeOK, Request, Idle, Ids
<1>2. QED
  BY <1>1 DEF TypeOK, Forget, Forgets, Others, Idle

\* A request arrives.
Arrives(r) ==
  /\ Others(r) /\ UNCHANGED <<table, orders, weight>>
  /\ req[r].stage = "idle" /\ req'[r].seen = {}
  /\ LET s == req'[r].stage  o == req[r].op IN
       \/ s = "limit" /\ o = "profile" /\ req'[r].n = 0
       \/ s = "yours" /\ o \in {"delete", "makes_offer", "offer"} /\ req'[r].n = 0
       \/ s = "category" /\ o = "bloq" /\ req'[r].n \in {0, 1}
       \/ s = "order" /\ o = "order" /\ req'[r].n = 0
       \/ s = "cancel" /\ o = "cancel" /\ req'[r].n = 0
       \/ s = "known" /\ o = "preference" /\ req'[r].n = 0
       \/ s = "list" /\ o = "browse" /\ req'[r].n = 0

\* A check is passed.
Passes(r) ==
  /\ Others(r) /\ UNCHANGED <<table, orders, weight>>
  /\ req'[r].client = req[r].client /\ req'[r].at = req[r].at
  /\ req'[r].n = req[r].n
  /\ LET s == req[r].stage  t == req'[r].stage IN
       \/ s = "category" /\ t = "yours"
       \/ s = "yours" /\ t = "person" /\ IsYours(r)
       \/ /\ s = "person" /\ req'[r].seen = req'[r].picks
          /\ \/ t = "items" /\ req[r].op = "offer"
             \/ t = "list" /\ req[r].op = "makes_offer"
             \/ t = "delete" /\ req[r].op = "delete"
             \/ t = "bloq" /\ req[r].op = "bloq"
       \/ s = "limit" /\ t = "profile"
       \/ s = "items" /\ t = "offer" /\ req'[r].picks = req[r].picks
            /\ req[r].seen = {} /\ req'[r].seen = {}
       \/ /\ s = "items" /\ t = "items" /\ req'[r].picks = req[r].picks
          /\ \E b \in req[r].seen : /\ IsProductCreator(b, req[r].at)
                                    /\ req'[r].seen = req[r].seen \ {b}
       \/ s = "known" /\ t = "preference"
       \/ s = "list" /\ t = "look" /\ req'[r].seen \subseteq table.bloq
       \/ s = "look" /\ t = "look" /\ req'[r].seen \subseteq req[r].seen

\* The row of a request in the table t is inserted, and it goes on, or perhaps not.
Row(r, from, t, goes, bad) ==
  /\ req[r].stage = from
  /\ \A u \in Tables \ {t} : table'[u] = table[u]
  /\ (req'[r].stage = goes /\ r \in table'[t]) \/ req'[r].stage = bad

Inserts(r) ==
  /\ Goes(r, req'[r].stage) /\ UNCHANGED <<orders, weight>>
  /\ table' \in [Tables -> SUBSET Ids]
  /\ \A t \in Tables : table[t] \subseteq table'[t] /\ table'[t] \subseteq table[t] \cup {r}
  /\ \/ Row(r, "profile", "profile", "owner", "error")
     \/ Row(r, "owner", "credential_profiles",
            IF req[r].picks = {} THEN "created" ELSE "likes", "undo")
     \/ Row(r, "likes", "profile_likes",
            IF req[r].picks \in Pairs THEN "share" ELSE "created", "undo_all")
     \/ Row(r, "bloq", "bloq", "image", "error")
     \/ Row(r, "image", "bloq_image",
            IF req[r].n = 1 THEN "keywords" ELSE "created", "undo")
     \/ Row(r, "keywords", "bloq_keywords", "created", "undo_all")
     \/ Row(r, "offer", "offers", "offer_items", "error")
     \/ Row(r, "offer_items", "offersItems", "created", "undo")
     \/ Row(r, "preference", "preference",
            IF req[r].seen = {} THEN "created" ELSE "shares", "error")

\* A share is read or written.
Weighs(r) ==
  /\ Keeps(r) /\ UNCHANGED <<table, orders>>
  /\ LET s == req[r].stage  t == req'[r].stage  p == req[r].picks
         Bumped == /\ req[r].n < MaxWeight
                   /\ weight' = [weight EXCEPT ![p] = req[r].n + 1]
         First == IF weight[p] = NoRow
                    THEN weight' = [weight EXCEPT ![p] = 1] ELSE UNCHANGED weight
         Zeros == /\ weight' \in [Pairs -> {NoRow} \cup 0..MaxWeight]
                  /\ \A q \in Pairs : \/ weight'[q] = weight[q]
                                      \/ /\ weight[q] = NoRow /\ weight'[q] = 0
                                         /\ ~ q \subseteq Known
     IN
       \/ s = "share" /\ UNCHANGED weight
            /\ \/ t = "bump" /\ weight[p] # NoRow /\ req'[r].n = weight[p]
               \/ t = "new_share" /\ weight[p] = NoRow
               \/ t \in {"uncounted", "error"}
       \/ s = "bump" /\ ((t = "created" /\ Bumped)
                          \/ (t = "uncounted" /\ (Bumped \/ UNCHANGED weight)))
       \/ s = "new_share" /\ ((t = "created" /\ First)
                               \/ (t = "uncounted" /\ (First \/ UNCHANGED weight)))
       \/ s = "shares" /\ t \in {"created", "undo"} /\ Zeros

\* A table lost rows of the profile that r deletes, or the orders of its client.
Cleared(r) ==
  /\ table' \in [Tables -> SUBSET Ids]
  /\ \A t \in Tables : /\ table'[t] \subseteq table[t]
                       /\ t \in {"bloq_image", "bloq_keywords", "offersItems", "preference"}
                            => table'[t] = table[t]
  /\ \A t \in {"profile", "credential_profiles", "profile_likes"} :
       \A x \in table[t] \ table'[t] : x = req[r].at
  /\ \A t \in {"bloq", "offers"} :
       \A x \in table[t] \ table'[t] : Creator(x) = req[r].at
  /\ orders' \in [Requests -> 0..Quantity]
  /\ \A q \in Requests :
       orders'[q] = orders[q] \/ (orders'[q] = 0 /\ req[q].client = req[r].client)

\* A table loses rows of the profile that is deleted.
Clears(r) ==
  /\ Keeps(r) /\ UNCHANGED weight
  /\ req[r].stage = "delete"
  /\ Cleared(r)
  /\ \/ req'[r].stage = "error"
     \/ LET n == req'[r].n IN
          /\ n = req[r].n + 1
          /\ req'[r].stage = IF n = 6 THEN "deleted" ELSE "delete"
          /\ req'[r].seen = IF n = 2 THEN UnderWay(req[r].at) ELSE req[r].seen
          /\ n = 2 => req[r].at \notin table'.credential_profiles
          /\ n = 5 => \A x \in table'.offers : Creator(x) # req[r].at
          /\ n = 6 => \A x \in table'.bloq : Creator(x) # req[r].at

\* A row of an order.
Orders(r) ==
  /\ Keeps(r) /\ UNCHANGED <<table, weight>>
  /\ req[r].stage = "order"
  /\ orders' \in [Requests -> Int]
  /\ \A q \in Requests \ {r} : orders'[q] = orders[q]
  /\ LET t == req'[r].stage IN
       \/ /\ req[r].n < Quantity /\ orders'[r] = orders[r] + 1
          /\ t = "order" /\ req'[r].n = req[r].n + 1
       \/ req[r].n = Quantity /\ orders'[r] = orders[r] /\ t = "created"
       \/ /\ req[r].n < Quantity /\ orders'[r] \in {orders[r], orders[r] + 1}
          /\ t = "error"

\* Orders of the client go, all of them or one row of one.
Cancels(r) ==
  /\ Goes(r, req'[r].stage) /\ UNCHANGED <<table, weight>>
  /\ req[r].stage = "cancel" /\ req'[r].stage \in {"cancelled", "error"}
  /\ orders' \in [Requests -> 0..Quantity]
  /\ \A q \in Requests :
       \/ orders'[q] = orders[q]
       \/ /\ orders'[q] <= orders[q]
          /\ req[q].client = req[r].client /\ (req[r].picks = {} \/ q \in req[r].picks)

\* The request gives up, or rolls back a row of its own.
Fails(r) ==
  /\ Goes(r, req'[r].stage) /\ UNCHANGED <<orders, weight>>
  /\ req[r].stage \in Writing
  /\ \/ req'[r].stage = "error"
     \/ req[r].stage = "undo_all" /\ req'[r].stage = "undo_rest"
  /\ table' \in [Tables -> SUBSET Ids]
  /\ \A t \in Tables : table'[t] \subseteq table[t] /\ table[t] \subseteq table'[t] \cup {r}

Kind(r) ==
  \/ Forgets(r) \/ Arrives(r) \/ Passes(r)
  \/ Inserts(r) \/ Weighs(r) \/ Clears(r) \/ Orders(r) \/ Cancels(r) \/ Fails(r)

-----------------------------------------------------------------------------
(***************************************************************************)
(* Each action is of one of these kinds.                                   *)
(***************************************************************************)

\* A request arrives and says what it asks for.
LEMMA ArriveKind ==
  ASSUME TypeOK, NEW r \in Requests, Arrive(r)
  PROVE  Arrives(r)
<1>1. ASSUME NEW stage \in Stages, NEW c \in Clients, NEW at \in Ids,
             NEW picks \in SUBSET Ids, NEW n \in Int,
             Begin(r, stage, c, at, picks, n)
      PROVE  /\ Others(r) /\ UNCHANGED <<table, orders, weight>>
             /\ req'[r].stage = stage /\ req'[r].seen = {} /\ req'[r].n = n
  BY <1>1 DEF Begin, TypeOK, Request, Others, Stages
<1>2. r \in Ids /\ Founder \in Clients /\ {} \in SUBSET Ids /\ 0 \in Int
  BY SceneAssumption DEF Ids
<1>3. \A op : Named(op) \subseteq Ids /\ \A few \in AFew(op) : few \subseteq Ids
  BY DEF Named, AFew, Ids
<1>4. {"limit", "yours", "category", "order", "cancel", "known", "list"} \subseteq Stages
  BY DEF Stages, Checking, Writing
<1>0. req[r].stage = "idle"
  BY DEF Arrive
<1>5. CASE req[r].op = "profile"
  <2>1. PICK c \in Clients, likes \in {{}} \cup (Pairs \cap AFew("preference")) :
          Begin(r, "limit", c, r, likes, 0)
    BY <1>5 DEF Arrive
  <2>2. likes \in SUBSET Ids
    BY <1>3
  <2>3. QED
    BY <1>1, <1>2, <1>4, <1>5, <2>1, <2>2 DEF Arrive, Arrives
<1>6. CASE req[r].op \in {"delete", "makes_offer"}
  BY <1>1, <1>2, <1>3, <1>4, <1>6 DEF Arrive, Arrives
<1>7. CASE req[r].op = "bloq"
  <2>1. PICK c \in Clients, p \in Named("profile"), k \in Named("preference"), n \in {0, 1} :
          Begin(r, "category", c, p, {k}, n)
    BY <1>7 DEF Arrive
  <2>2. p \in Ids /\ {k} \in SUBSET Ids /\ n \in Int
    BY <1>3
  <2>3. QED
    BY <1>1, <1>4, <1>7, <2>1, <2>2 DEF Arrive, Arrives
<1>8. CASE req[r].op = "offer"
  <2>1. PICK c \in Clients, p \in Named("profile"), items \in AFew("bloq") :
          Begin(r, "yours", c, p, items, 0)
    BY <1>8 DEF Arrive
  <2>2. p \in Ids /\ items \in SUBSET Ids
    BY <1>3
  <2>3. QED
    BY <1>1, <1>4, <1>8, <2>1, <2>2 DEF Arrive, Arrives
<1>9. CASE req[r].op = "order"
  <2>1. PICK c \in Clients : Begin(r, "order", c, r, {}, 0)
    BY <1>9 DEF Arrive
  <2>2. /\ Others(r) /\ UNCHANGED <<table, orders, weight>>
        /\ req'[r].stage = "order" /\ req'[r].seen = {} /\ req'[r].n = 0
    BY <1>1, <1>2, <1>4, <2>1
  <2>3. QED
    BY <1>0, <1>9, <2>2 DEF Arrives
<1>10. CASE req[r].op = "preference"
  <2>1. Begin(r, "known", Founder, r, {}, 0)
    BY <1>10 DEF Arrive
  <2>2. /\ Others(r) /\ UNCHANGED <<table, orders, weight>>
        /\ req'[r].stage = "known" /\ req'[r].seen = {} /\ req'[r].n = 0
    BY <1>1, <1>2, <1>4, <2>1
  <2>3. QED
    BY <1>0, <1>10, <2>2 DEF Arrives
<1>11. CASE req[r].op = "browse"
  <2>1. Begin(r, "list", Founder, r, {}, 0)
    BY <1>11 DEF Arrive
  <2>2. /\ Others(r) /\ UNCHANGED <<table, orders, weight>>
        /\ req'[r].stage = "list" /\ req'[r].seen = {} /\ req'[r].n = 0
    BY <1>1, <1>2, <1>4, <2>1
  <2>3. QED
    BY <1>0, <1>11, <2>2 DEF Arrives
<1>12. CASE req[r].op = "cancel"
  <2>1. PICK c \in Clients, some \in {{}} \cup {{q} : q \in {q \in Requests : req[q].op = "order"}} :
          Begin(r, "cancel", c, r, some, 0)
    BY <1>12 DEF Arrive
  <2>2. some \in SUBSET Ids
    BY DEF Ids
  <2>3. /\ Others(r) /\ UNCHANGED <<table, orders, weight>>
        /\ req'[r].stage = "cancel" /\ req'[r].seen = {} /\ req'[r].n = 0
    BY <1>1, <1>2, <1>4, <2>1, <2>2
  <2>4. QED
    BY <1>0, <1>12, <2>3 DEF Arrives
<1>13. QED
  BY <1>5, <1>6, <1>7, <1>8, <1>9, <1>10, <1>11, <1>12 DEF Arrive

\* A check on which the request goes on or is forgotten.
LEMMA CheckKind ==
  ASSUME TypeOK, NEW r \in Requests, NEW from \in Checking, NEW condition,
         NEW to \in Stages, Check(r, from, condition, to)
  PROVE  \/ Forgets(r)
         \/ /\ req[r].stage = from /\ condition /\ Goes(r, to)
            /\ UNCHANGED <<table, orders, weight>>
BY StepGoes, ForgetForgets DEF Check

\* The state of a request after an update of the stage and one more field.
LEMMA EntryTypes ==
  ASSUME TypeOK, NEW r \in Requests, NEW to \in Stages
  PROVE  /\ \A seen \in SUBSET Ids : [req[r] EXCEPT !.stage = to, !.seen = seen] \in Request
         /\ \A n \in Int : [req[r] EXCEPT !.stage = to, !.n = n] \in Request
         /\ [req[r] EXCEPT !.stage = to, !.picks = {}] \in Request
BY DEF TypeOK, Request, Stages

\* An update of the state of one request.
LEMMA EntryFrame ==
  ASSUME TypeOK, NEW r \in Requests, NEW entry \in Request,
         req' = [req EXCEPT ![r] = entry], entry.op = req[r].op
  PROVE  Others(r) /\ req'[r] = entry
BY DEF TypeOK, Others

\* An update of the stage and what was seen.
LEMMA SeenFrame ==
  ASSUME TypeOK, NEW r \in Requests, NEW to \in Stages, NEW seen \in SUBSET Ids,
         \/ req' = [req EXCEPT ![r].stage = to, ![r].seen = seen]
         \/ req' = [req EXCEPT ![r].seen = seen, ![r].stage = to]
  PROVE  /\ Keeps(r) /\ req'[r].stage = to
         /\ req'[r].seen = seen /\ req'[r].n = req[r].n
<1> DEFINE entry == [req[r] EXCEPT !.stage = to, !.seen = seen]
<1>1. req' = [req EXCEPT ![r] = entry]
  <2>1. CASE req' = [req EXCEPT ![r].stage = to, ![r].seen = seen]
    BY <2>1 DEF TypeOK, Request
  <2>2. CASE req' = [req EXCEPT ![r].seen = seen, ![r].stage = to]
    BY <2>2 DEF TypeOK, Request
  <2>3. QED
    BY <2>1, <2>2
<1>2. entry \in Request
  BY EntryTypes
<1>3. /\ entry.op = req[r].op /\ entry.client = req[r].client /\ entry.at = req[r].at
      /\ entry.picks = req[r].picks /\ entry.n = req[r].n
      /\ entry.seen = seen /\ entry.stage = to
  BY DEF TypeOK, Request
<1> HIDE DEF entry
<1>4. Others(r) /\ req'[r] = entry
  BY <1>1, <1>2, <1>3, EntryFrame
<1>5. QED
  BY <1>3, <1>4 DEF Keeps

\* An update that notes the weight that was read.
LEMMA BumpFrame ==
  ASSUME TypeOK, NEW r \in Requests, weight[req[r].picks] \in Int,
         req' = [req EXCEPT ![r].stage = "bump", ![r].n = weight[req[r].picks]]
  PROVE  Keeps(r) /\ req'[r].stage = "bump" /\ req'[r].n = weight[req[r].picks]
<1>1. PICK w \in Int : w = weight[req[r].picks]
  OBVIOUS
<1>2. req' = [req EXCEPT ![r].stage = "bump", ![r].n = w]
  BY <1>1, Zenon
<1> DEFINE entry == [req[r] EXCEPT !.stage = "bump", !.n = w]
<1>3. req' = [req EXCEPT ![r] = entry]
  BY <1>2 DEF TypeOK, Request
<1>4. entry \in Request
  BY EntryTypes DEF Stages, Writing
<1>5. /\ entry.op = req[r].op /\ entry.client = req[r].client /\ entry.at = req[r].at
      /\ entry.picks = req[r].picks /\ entry.n = w /\ entry.stage = "bump"
  BY DEF TypeOK, Request
<1> HIDE DEF entry
<1>6. Others(r) /\ req'[r] = entry
  BY <1>3, <1>4, <1>5, EntryFrame
<1>7. QED
  BY <1>1, <1>5, <1>6 DEF Keeps

\* An update that forgets the category that was checked.
LEMMA PicksFrame ==
  ASSUME TypeOK, NEW r \in Requests, NEW to \in Stages,
         req' = [req EXCEPT ![r].stage = to, ![r].picks = {}]
  PROVE  /\ Others(r) /\ req'[r].stage = to /\ req'[r].picks = {}
         /\ req'[r].client = req[r].client /\ req'[r].at = req[r].at
         /\ req'[r].n = req[r].n /\ req'[r].seen = req[r].seen
<1> DEFINE entry == [req[r] EXCEPT !.stage = to, !.picks = {}]
<1>1. req' = [req EXCEPT ![r] = entry]
  BY DEF TypeOK, Request
<1>2. entry \in Request
  BY EntryTypes
<1>3. /\ entry.op = req[r].op /\ entry.client = req[r].client /\ entry.at = req[r].at
      /\ entry.n = req[r].n /\ entry.seen = req[r].seen
      /\ entry.picks = {} /\ entry.stage = to
  BY DEF TypeOK, Request
<1> HIDE DEF entry
<1>4. Others(r) /\ req'[r] = entry
  BY <1>1, <1>2, <1>3, EntryFrame
<1>5. QED
  BY <1>3, <1>4

\* The checks.
LEMMA PassesKind ==
  ASSUME TypeOK, StageFits, NEW r \in Requests,
         \/ Yours(r) \/ Person(r) \/ Limit(r) \/ Category(r) \/ Items(r)
         \/ KnownPreferences(r) \/ List(r) \/ Look(r)
  PROVE  Forgets(r) \/ Passes(r)
<1> Checking \cup {"profile", "offer", "preference", "delete", "bloq"} \subseteq Stages
  BY DEF Stages, Writing
<1> {"yours", "limit", "category", "items", "known", "list", "look", "person"} = Checking
  BY DEF Checking
<1> USE DEF Passes
<1>1. CASE Yours(r)
  <2>1. \/ Forgets(r)
        \/ /\ req[r].stage = "yours" /\ IsYours(r) /\ Goes(r, "person")
           /\ UNCHANGED <<table, orders, weight>>
    BY <1>1, CheckKind DEF Yours
  <2>2. QED
    BY <2>1 DEF Goes, Keeps
<1>2. CASE Limit(r)
  <2>1. \/ Forgets(r)
        \/ /\ req[r].stage = "limit" /\ Goes(r, "profile")
           /\ UNCHANGED <<table, orders, weight>>
    BY <1>2, CheckKind DEF Limit
  <2>2. QED
    BY <2>1 DEF Goes, Keeps
<1>3. CASE Person(r)
  <2>1. CASE Forget(r)
    BY <1>3, <2>1, ForgetForgets DEF Person
  <2>2. CASE /\ req[r].op = "makes_offer" => req[r].at \in table.profile
             /\ req' = [req EXCEPT
                  ![r].seen = req[r].picks,
                  ![r].stage = CASE req[r].op = "offer" -> "items"
                                 [] req[r].op = "makes_offer" -> "list"
                                 [] OTHER -> req[r].op]
    <3> DEFINE to == CASE req[r].op = "offer" -> "items"
                       [] req[r].op = "makes_offer" -> "list"
                       [] OTHER -> req[r].op
    <3>1. req[r].stage = "person" /\ req[r].op \in {"delete", "makes_offer", "bloq", "offer"}
      BY <1>3 DEF Person, StageFits
    <3>2. /\ req[r].op = "offer" => to = "items"
          /\ req[r].op = "makes_offer" => to = "list"
          /\ req[r].op = "delete" => to = "delete"
          /\ req[r].op = "bloq" => to = "bloq"
      OBVIOUS
    <3>3. to \in Stages /\ req[r].picks \in SUBSET Ids
      BY <3>1, <3>2 DEF TypeOK, Request
    <3> HIDE DEF to
    <3>4. /\ Keeps(r) /\ req'[r].stage = to
          /\ req'[r].seen = req[r].picks /\ req'[r].n = req[r].n
      <4>1. req' = [req EXCEPT ![r].seen = req[r].picks, ![r].stage = to]
        BY <2>2 DEF to
      <4>2. QED
        BY <3>3, <4>1, SeenFrame
    <3>5. QED
      BY <1>3, <3>1, <3>2, <3>4 DEF Person, Keeps
  <2>3. QED
    BY <1>3, <2>1, <2>2 DEF Person
<1>4. CASE Category(r)
  <2>1. CASE Forget(r)
    BY <1>4, <2>1, ForgetForgets DEF Category
  <2>2. CASE req' = [req EXCEPT ![r].stage = "yours", ![r].picks = {}]
    BY <1>4, <2>2, PicksFrame DEF Category
  <2>3. QED
    BY <1>4, <2>1, <2>2 DEF Category
<1>5. CASE Items(r)
  <2>1. CASE Forget(r)
    BY <1>5, <2>1, ForgetForgets DEF Items
  <2>2. CASE req[r].seen = {} /\ Step(r, "offer")
    BY <1>5, <2>2, StepGoes DEF Items, Goes, Keeps
  <2>3. ASSUME NEW b \in req[r].seen, IsProductCreator(b, req[r].at),
               req' = [req EXCEPT ![r].seen = @ \ {b}]
        PROVE  Passes(r)
    <3>1. /\ Keeps(r) /\ req'[r].stage = req[r].stage
          /\ req'[r].seen = req[r].seen \ {b} /\ req'[r].n = req[r].n
      BY <2>3 DEF TypeOK, Request, Keeps, Others
    <3>2. QED
      BY <1>5, <2>3, <3>1 DEF Items, Keeps
  <2>4. QED
    BY <1>5, <2>1, <2>2, <2>3 DEF Items
<1>6. CASE KnownPreferences(r)
  <2>1. CASE Forget(r)
    BY <1>6, <2>1, ForgetForgets DEF KnownPreferences
  <2>2. CASE req' = [req EXCEPT ![r].stage = "preference", ![r].seen = table.preference]
    <3>1. table.preference \in SUBSET Ids
      BY DEF TypeOK, Tables
    <3>2. Keeps(r) /\ req'[r].stage = "preference" /\ req'[r].n = req[r].n
      BY <2>2, <3>1, SeenFrame
    <3>3. QED
      BY <1>6, <3>2 DEF KnownPreferences, Keeps
  <2>3. QED
    BY <1>6, <2>1, <2>2 DEF KnownPreferences
<1>7. CASE List(r)
  <2>1. CASE Forget(r)
    BY <1>7, <2>1, ForgetForgets DEF List
  <2>2. CASE req' = [req EXCEPT ![r].stage = "look", ![r].seen = Listed(r)]
    <3>1. Listed(r) \subseteq table.bloq /\ Listed(r) \in SUBSET Ids
      BY DEF TypeOK, Tables, Listed
    <3>2. /\ Keeps(r) /\ req'[r].stage = "look"
          /\ req'[r].seen = Listed(r) /\ req'[r].n = req[r].n
      BY <2>2, <3>1, SeenFrame
    <3>3. QED
      BY <1>7, <3>1, <3>2 DEF List, Keeps
  <2>3. QED
    BY <1>7, <2>1, <2>2 DEF List
<1>8. CASE Look(r)
  <2>1. CASE Forget(r)
    BY <1>8, <2>1, ForgetForgets DEF Look
  <2>2. ASSUME NEW b, req' = [req EXCEPT ![r].seen = @ \ {b}]
        PROVE  Passes(r)
    BY <1>8, <2>2 DEF Look, TypeOK, Request, Others
  <2>3. QED
    BY <1>8, <2>1, <2>2 DEF Look
<1>9. QED
  BY <1>1, <1>2, <1>3, <1>4, <1>5, <1>6, <1>7, <1>8

\* An INSERT.
LEMMA InsertKind ==
  ASSUME TypeOK, NEW r \in Requests, NEW from, NEW t \in Tables,
         NEW ok \in Stages, NEW bad \in Stages, Insert(r, from, t, ok, bad)
  PROVE  /\ Goes(r, req'[r].stage)
         /\ UNCHANGED <<orders, weight>> /\ table' \in [Tables -> SUBSET Ids]
         /\ \A u \in Tables : table[u] \subseteq table'[u] /\ table'[u] \subseteq table[u] \cup {r}
         /\ Row(r, from, t, ok, bad)
<1>1. /\ req[r].stage = from /\ UNCHANGED <<orders, weight>>
      /\ (Goes(r, ok) /\ table' = With(t, {r}))
           \/ (Goes(r, bad) /\ table' \in {table, With(t, {r})})
  BY StepGoes DEF Insert
<1>2. r \in Ids
  BY DEF Ids
<1>3. /\ With(t, {r}) \in [Tables -> SUBSET Ids]
      /\ With(t, {r})[t] = table[t] \cup {r}
      /\ \A u \in Tables \ {t} : With(t, {r})[u] = table[u]
  BY <1>2 DEF With, TypeOK
<1>4. table \in [Tables -> SUBSET Ids]
  BY DEF TypeOK
<1>5. Goes(r, req'[r].stage)
  BY <1>1 DEF Goes
<1>6. table' \in {table, With(t, {r})}
  BY <1>1
<1>7. (req'[r].stage = ok /\ r \in table'[t]) \/ req'[r].stage = bad
  BY <1>1, <1>3 DEF Goes
<1>8. Row(r, from, t, ok, bad)
  BY <1>1, <1>3, <1>6, <1>7 DEF Row
<1>9. QED
  BY <1>1, <1>3, <1>4, <1>5, <1>6, <1>8

\* The INSERTs of a request's own row.
LEMMA InsertsKind ==
  ASSUME TypeOK, NEW r \in Requests,
         \/ NewProfile(r) \/ NewOwner(r) \/ NewLikes(r)
         \/ NewBloq(r) \/ NewImage(r) \/ NewKeywords(r)
         \/ NewOffer(r) \/ NewItems(r) \/ NewPreference(r)
  PROVE  Inserts(r)
<1>1. /\ {"profile", "owner", "likes", "share", "bloq", "image", "keywords", "offer",
          "offer_items", "preference", "shares", "undo", "undo_all"} \subseteq Stages
      /\ {"created", "error"} \subseteq Stages
  BY DEF Stages, Writing, Ended
<1>2. {"profile", "credential_profiles", "profile_likes", "bloq", "bloq_image",
       "bloq_keywords", "offers", "offersItems", "preference"} = Tables
  BY DEF Tables
<1>3. ASSUME NewProfile(r) PROVE Inserts(r)
  <2> DEFINE ok == "owner"
  <2>1. ok \in Stages
    BY <1>1
  <2>2. Insert(r, "profile", "profile", ok, "error")
    BY <1>3 DEF NewProfile
  <2>3. /\ Goes(r, req'[r].stage)
        /\ UNCHANGED <<orders, weight>> /\ table' \in [Tables -> SUBSET Ids]
        /\ \A u \in Tables : table[u] \subseteq table'[u] /\ table'[u] \subseteq table[u] \cup {r}
        /\ Row(r, "profile", "profile", ok, "error")
    BY <1>1, <1>2, <2>1, <2>2, InsertKind
  <2>4. QED
    BY <2>3 DEF Inserts
<1>4. ASSUME NewOwner(r) PROVE Inserts(r)
  <2> DEFINE ok == IF req[r].picks = {} THEN "created" ELSE "likes"
  <2>1. ok \in Stages
    BY <1>1
  <2>2. Insert(r, "owner", "credential_profiles", ok, "undo")
    BY <1>4 DEF NewOwner
  <2>3. /\ Goes(r, req'[r].stage)
        /\ UNCHANGED <<orders, weight>> /\ table' \in [Tables -> SUBSET Ids]
        /\ \A u \in Tables : table[u] \subseteq table'[u] /\ table'[u] \subseteq table[u] \cup {r}
        /\ Row(r, "owner", "credential_profiles", ok, "undo")
    BY <1>1, <1>2, <2>1, <2>2, InsertKind
  <2>4. QED
    BY <2>3 DEF Inserts
<1>5. ASSUME NewLikes(r) PROVE Inserts(r)
  <2> DEFINE ok == IF req[r].picks \in Pairs THEN "share" ELSE "created"
  <2>1. ok \in Stages
    BY <1>1
  <2>2. Insert(r, "likes", "profile_likes", ok, "undo_all")
    BY <1>5 DEF NewLikes
  <2>3. /\ Goes(r, req'[r].stage)
        /\ UNCHANGED <<orders, weight>> /\ table' \in [Tables -> SUBSET Ids]
        /\ \A u \in Tables : table[u] \subseteq table'[u] /\ table'[u] \subseteq table[u] \cup {r}
        /\ Row(r, "likes", "profile_likes", ok, "undo_all")
    BY <1>1, <1>2, <2>1, <2>2, InsertKind
  <2>4. QED
    BY <2>3 DEF Inserts
<1>6. ASSUME NewBloq(r) PROVE Inserts(r)
  <2> DEFINE ok == "image"
  <2>1. ok \in Stages
    BY <1>1
  <2>2. Insert(r, "bloq", "bloq", ok, "error")
    BY <1>6 DEF NewBloq
  <2>3. /\ Goes(r, req'[r].stage)
        /\ UNCHANGED <<orders, weight>> /\ table' \in [Tables -> SUBSET Ids]
        /\ \A u \in Tables : table[u] \subseteq table'[u] /\ table'[u] \subseteq table[u] \cup {r}
        /\ Row(r, "bloq", "bloq", ok, "error")
    BY <1>1, <1>2, <2>1, <2>2, InsertKind
  <2>4. QED
    BY <2>3 DEF Inserts
<1>7. ASSUME NewImage(r) PROVE Inserts(r)
  <2> DEFINE ok == IF req[r].n = 1 THEN "keywords" ELSE "created"
  <2>1. ok \in Stages
    BY <1>1
  <2>2. Insert(r, "image", "bloq_image", ok, "undo")
    BY <1>7 DEF NewImage
  <2>3. /\ Goes(r, req'[r].stage)
        /\ UNCHANGED <<orders, weight>> /\ table' \in [Tables -> SUBSET Ids]
        /\ \A u \in Tables : table[u] \subseteq table'[u] /\ table'[u] \subseteq table[u] \cup {r}
        /\ Row(r, "image", "bloq_image", ok, "undo")
    BY <1>1, <1>2, <2>1, <2>2, InsertKind
  <2>4. QED
    BY <2>3 DEF Inserts
<1>8. ASSUME NewKeywords(r) PROVE Inserts(r)
  <2> DEFINE ok == "created"
  <2>1. ok \in Stages
    BY <1>1
  <2>2. Insert(r, "keywords", "bloq_keywords", ok, "undo_all")
    BY <1>8 DEF NewKeywords
  <2>3. /\ Goes(r, req'[r].stage)
        /\ UNCHANGED <<orders, weight>> /\ table' \in [Tables -> SUBSET Ids]
        /\ \A u \in Tables : table[u] \subseteq table'[u] /\ table'[u] \subseteq table[u] \cup {r}
        /\ Row(r, "keywords", "bloq_keywords", ok, "undo_all")
    BY <1>1, <1>2, <2>1, <2>2, InsertKind
  <2>4. QED
    BY <2>3 DEF Inserts
<1>9. ASSUME NewOffer(r) PROVE Inserts(r)
  <2> DEFINE ok == "offer_items"
  <2>1. ok \in Stages
    BY <1>1
  <2>2. Insert(r, "offer", "offers", ok, "error")
    BY <1>9 DEF NewOffer
  <2>3. /\ Goes(r, req'[r].stage)
        /\ UNCHANGED <<orders, weight>> /\ table' \in [Tables -> SUBSET Ids]
        /\ \A u \in Tables : table[u] \subseteq table'[u] /\ table'[u] \subseteq table[u] \cup {r}
        /\ Row(r, "offer", "offers", ok, "error")
    BY <1>1, <1>2, <2>1, <2>2, InsertKind
  <2>4. QED
    BY <2>3 DEF Inserts
<1>10. ASSUME NewItems(r) PROVE Inserts(r)
  <2> DEFINE ok == "created"
  <2>1. ok \in Stages
    BY <1>1
  <2>2. Insert(r, "offer_items", "offersItems", ok, "undo")
    BY <1>10 DEF NewItems
  <2>3. /\ Goes(r, req'[r].stage)
        /\ UNCHANGED <<orders, weight>> /\ table' \in [Tables -> SUBSET Ids]
        /\ \A u \in Tables : table[u] \subseteq table'[u] /\ table'[u] \subseteq table[u] \cup {r}
        /\ Row(r, "offer_items", "offersItems", ok, "undo")
    BY <1>1, <1>2, <2>1, <2>2, InsertKind
  <2>4. QED
    BY <2>3 DEF Inserts
<1>11. ASSUME NewPreference(r) PROVE Inserts(r)
  <2> DEFINE ok == IF req[r].seen = {} THEN "created" ELSE "shares"
  <2>1. ok \in Stages
    BY <1>1
  <2>2. Insert(r, "preference", "preference", ok, "error")
    BY <1>11 DEF NewPreference
  <2>3. /\ Goes(r, req'[r].stage)
        /\ UNCHANGED <<orders, weight>> /\ table' \in [Tables -> SUBSET Ids]
        /\ \A u \in Tables : table[u] \subseteq table'[u] /\ table'[u] \subseteq table[u] \cup {r}
        /\ Row(r, "preference", "preference", ok, "error")
    BY <1>1, <1>2, <2>1, <2>2, InsertKind
  <2>4. QED
    BY <2>3 DEF Inserts
<1>12. QED
  BY <1>3, <1>4, <1>5, <1>6, <1>7, <1>8, <1>9, <1>10, <1>11

\* A share is read or written.
LEMMA WeighsKind ==
  ASSUME TypeOK, HoldsFit, NEW r \in Requests,
         Share(r) \/ Bump(r) \/ NewShare(r) \/ NewShares(r)
  PROVE  Weighs(r)
<1>1. {"bump", "new_share", "uncounted", "error", "created", "undo"} \subseteq Stages
  BY DEF Stages, Writing, Ended
<1>2. CASE Share(r)
  <2>1. CASE \E to \in {"uncounted", "error"} : Step(r, to)
    BY <1>1, <1>2, <2>1, StepGoes DEF Share, Weighs, Goes
  <2>2. CASE weight[req[r].picks] = NoRow /\ Step(r, "new_share")
    BY <1>1, <1>2, <2>2, StepGoes DEF Share, Weighs, Goes
  <2>3. CASE /\ weight[req[r].picks] # NoRow
             /\ req' = [req EXCEPT ![r].stage = "bump", ![r].n = weight[req[r].picks]]
    <3>1. weight[req[r].picks] \in Int
      BY <1>2, LimitsAssumption DEF Share, TypeOK, NoRow, HoldsFit
    <3>2. /\ Keeps(r) /\ req'[r].stage = "bump" /\ req'[r].n = weight[req[r].picks]
      BY <2>3, <3>1, BumpFrame, Zenon
    <3>3. QED
      BY <1>2, <2>3, <3>2 DEF Share, Weighs
  <2>4. QED
    BY <1>2, <2>1, <2>2, <2>3 DEF Share
<1>3. CASE Bump(r)
  <2>1. PICK to \in {"created", "uncounted"} : Step(r, to)
    BY <1>3 DEF Bump
  <2>2. Goes(r, to)
    BY <1>1, <2>1, StepGoes
  <2>3. to = "created" \/ to = "uncounted"
    OBVIOUS
  <2>4. req'[r].stage = to /\ Keeps(r)
    BY <2>2 DEF Goes
  <2>5. ASSUME Step(r, "created") PROVE to = "created"
    BY <1>1, <2>4, <2>5, StepGoes DEF Goes
  <2>6. ASSUME Step(r, "uncounted") PROVE to = "uncounted"
    BY <1>1, <2>4, <2>6, StepGoes DEF Goes
  <2>7. QED
    BY <1>3, <2>4, <2>5, <2>6 DEF Bump, Weighs
<1>4. CASE NewShare(r)
  <2>1. CASE Step(r, "created")
    BY <1>1, <1>4, <2>1, StepGoes DEF NewShare, Weighs, Goes
  <2>2. CASE Step(r, "uncounted")
    BY <1>1, <1>4, <2>2, StepGoes DEF NewShare, Weighs, Goes
  <2>3. QED
    BY <1>4, <2>1, <2>2 DEF NewShare
<1>5. CASE NewShares(r)
  <2> DEFINE pairs == {{r, p} : p \in req[r].seen}
             new == [p \in Pairs |-> IF p \in pairs THEN 0 ELSE weight[p]]
             free == \A p \in pairs : weight[p] = NoRow
             Zeros == /\ weight' \in [Pairs -> {NoRow} \cup 0..MaxWeight]
                      /\ \A q \in Pairs : \/ weight'[q] = weight[q]
                                          \/ /\ weight[q] = NoRow /\ weight'[q] = 0
                                             /\ ~ q \subseteq Known
  <2>1. /\ req[r].stage = "shares" /\ UNCHANGED <<table, orders>>
        /\ weight' = weight \/ (free /\ weight' = new)
        /\ Step(r, "created") \/ Step(r, "undo")
    BY <1>5 DEF NewShares, FirstWeight
  <2>2. Keeps(r) /\ req'[r].stage \in {"created", "undo"}
    BY <1>1, <2>1, StepGoes DEF Goes
  <2>3. \A q \in pairs : ~ q \subseteq Known
    BY SceneAssumption
  <2>4. Zeros
    BY <2>1, <2>3, LimitsAssumption DEF TypeOK
  <2>5. QED
    BY <2>1, <2>2, <2>4 DEF Weighs
<1>6. QED
  BY <1>2, <1>3, <1>4, <1>5

\* The effects of the DELETEs.
LEMMA CascadeClears ==
  ASSUME TypeOK, NEW r \in Requests, NEW n \in 1..6, Cascade(r, Doomed[n])
  PROVE  /\ Cleared(r)
         /\ n = 2 => req[r].at \notin table'.credential_profiles
         /\ n = 5 => \A x \in table'.offers : Creator(x) # req[r].at
         /\ n = 6 => \A x \in table'.bloq : Creator(x) # req[r].at
<1> DEFINE t == Doomed[n]
<1>1. /\ n = 1 => t = "profile"
      /\ n = 2 => t = "credential_profiles"
      /\ n = 3 => t = "profile_likes"
      /\ n = 4 => t = "order"
      /\ n = 5 => t = "offers"
      /\ n = 6 => t = "bloq"
  BY DEF Doomed
<1>2. n \in {1, 2, 3, 4, 5, 6}
  OBVIOUS
<1> HIDE DEF t
<1>3. Cascade(r, t)
  BY DEF t
<1>4. CASE n = 4
  <2>1. table' = table /\ orders' = [q \in Requests |->
                            IF req[q].client = req[r].client THEN 0 ELSE orders[q]]
    BY <1>1, <1>3, <1>4 DEF Cascade
  <2>2. orders' \in [Requests -> 0..Quantity]
    BY <2>1, LimitsAssumption DEF TypeOK
  <2>3. QED
    BY <1>4, <2>1, <2>2 DEF Cleared, TypeOK
<1>5. CASE n # 4
  <2>1. /\ t \in Tables /\ t # "order"
        /\ t \notin {"bloq_image", "bloq_keywords", "offersItems", "preference"}
    BY <1>1, <1>2, <1>5 DEF Tables
  <2>2. table' = [table EXCEPT ![t] = @ \ OfProfile(t, req[r].at)] /\ orders' = orders
    BY <1>3, <2>1 DEF Cascade, Without
  <2>3. /\ table' \in [Tables -> SUBSET Ids]
        /\ table'[t] = table[t] \ OfProfile(t, req[r].at)
        /\ \A u \in Tables \ {t} : table'[u] = table[u]
    BY <2>1, <2>2 DEF TypeOK
  <2>4. {"profile", "credential_profiles", "profile_likes", "bloq", "offers"} \subseteq Tables
    BY DEF Tables
  <2>5. \A u \in {"profile", "credential_profiles", "profile_likes"} :
          \A x \in table[u] \ table'[u] : x = req[r].at
    BY <2>3, <2>4 DEF OfProfile
  <2>6. \A u \in {"bloq", "offers"} :
          \A x \in table[u] \ table'[u] : Creator(x) = req[r].at
    BY <2>3, <2>4 DEF OfProfile
  <2>7. Cleared(r)
    BY <2>1, <2>2, <2>3, <2>5, <2>6 DEF Cleared, TypeOK
  <2>8. QED
    BY <1>1, <2>3, <2>7 DEF OfProfile
<1>6. QED
  BY <1>4, <1>5

\* The steps of a profile's deletion.
LEMMA ClearsKind ==
  ASSUME TypeOK, HoldsFit, NEW r \in Requests, Delete(r)
  PROVE  Clears(r)
<1> DEFINE n == req[r].n + 1
<1>1. n \in 1..6 /\ req[r].stage = "delete" /\ weight' = weight
  BY DEF Delete, HoldsFit
<1>2. Len(Doomed) = 6 /\ (Doomed[n] = "credential_profiles" <=> n = 2)
  BY <1>1 DEF Doomed
<1>3. CASE /\ Cascade(r, Doomed[n]) \/ UNCHANGED <<table, orders>>
           /\ Step(r, "error")
  <2>1. Keeps(r) /\ req'[r].stage = "error"
    BY <1>3, StepGoes DEF Goes, Stages, Ended
  <2>2. Cleared(r)
    BY <1>1, <1>3, CascadeClears DEF Cleared, TypeOK
  <2>3. QED
    BY <1>1, <2>1, <2>2 DEF Clears, Cleared
<1>4. CASE /\ Cascade(r, Doomed[n])
           /\ req' = [req EXCEPT
                ![r].n = n,
                ![r].stage = IF n = Len(Doomed) THEN "deleted" ELSE "delete",
                ![r].seen = IF Doomed[n] = "credential_profiles"
                              THEN UnderWay(req[r].at) ELSE @]
  <2> DEFINE to == IF n = 6 THEN "deleted" ELSE "delete"
             seen == IF n = 2 THEN UnderWay(req[r].at) ELSE req[r].seen
  <2>1. to \in Stages /\ seen \in SUBSET Ids
    BY DEF Stages, Writing, Ended, UnderWay, Ids, TypeOK, Request
  <2>2. req' = [req EXCEPT ![r] = [req[r] EXCEPT !.n = n, !.stage = to, !.seen = seen]]
    <3>1. req' = [req EXCEPT ![r].n = n, ![r].stage = to, ![r].seen = seen]
      BY <1>2, <1>4
    <3> HIDE DEF n, to, seen
    <3>2. QED
      BY <3>1 DEF TypeOK, Request
  <2>3. /\ Keeps(r)
        /\ req'[r].n = n /\ req'[r].stage = to /\ req'[r].seen = seen
    <3>1. n \in Int
      BY <1>1
    <3> HIDE DEF n, to, seen
    <3>2. QED
      BY <2>1, <2>2, <3>1 DEF Keeps, Others, TypeOK, Request, Stages
  <2>4. /\ Cleared(r)
        /\ n = 2 => req[r].at \notin table'.credential_profiles
        /\ n = 5 => \A x \in table'.offers : Creator(x) # req[r].at
        /\ n = 6 => \A x \in table'.bloq : Creator(x) # req[r].at
    BY <1>1, <1>4, CascadeClears
  <2>5. QED
    BY <1>1, <2>3, <2>4 DEF Clears, Cleared
<1>5. QED
  BY <1>3, <1>4 DEF Delete

\* The rows of an order.
LEMMA OrdersKind ==
  ASSUME TypeOK, HoldsFit, OrdersCounted, NEW r \in Requests, Order(r)
  PROVE  Orders(r)
<1> DEFINE one == [orders EXCEPT ![r] = @ + 1]
<1>1. req[r].stage = "order" /\ UNCHANGED <<table, weight>> /\ req[r].n \in 0..Quantity
  BY DEF Order, HoldsFit
<1>2. /\ orders \in [Requests -> Int] /\ one \in [Requests -> Int]
      /\ one[r] = orders[r] + 1 /\ \A q \in Requests \ {r} : one[q] = orders[q]
  BY DEF TypeOK
<1>3. {"created", "error"} \subseteq Stages
  BY DEF Stages, Ended
<1>4. CASE /\ req[r].n < Quantity
           /\ orders' = one /\ req' = [req EXCEPT ![r].n = @ + 1]
  <2>1. Keeps(r) /\ req'[r].stage = "order" /\ req'[r].n = req[r].n + 1
    BY <1>1, <1>4, LimitsAssumption DEF TypeOK, Request, Keeps, Others
  <2>2. QED
    BY <1>1, <1>2, <1>4, <2>1 DEF Orders
<1>5. CASE req[r].n = Quantity /\ Step(r, "created") /\ UNCHANGED orders
  BY <1>1, <1>2, <1>3, <1>5, StepGoes DEF Orders, Goes
<1>6. CASE req[r].n < Quantity /\ orders' \in {orders, one} /\ Step(r, "error")
  BY <1>1, <1>2, <1>3, <1>6, StepGoes DEF Orders, Goes
<1>7. QED
  BY <1>4, <1>5, <1>6 DEF Order

\* What a DELETE of orders leaves.
LEMMA FewerOrders ==
  ASSUME TypeOK, NEW r \in Requests, NEW left \in Fewer(r)
  PROVE  /\ left \in [Requests -> 0..Quantity]
         /\ \A q \in Requests :
              \/ left[q] = orders[q]
              \/ /\ left[q] <= orders[q]
                 /\ req[q].client = req[r].client
                 /\ req[r].picks = {} \/ q \in req[r].picks
<1> DEFINE mine == {q \in Requests : req[q].client = req[r].client}
           one == {q \in mine \cap req[r].picks : orders[q] > 0}
<1>1. orders \in [Requests -> 0..Quantity] /\ Quantity \in Nat
  BY LimitsAssumption DEF TypeOK
<1>2. CASE req[r].picks = {}
  <2>1. left = [q \in Requests |-> IF q \in mine THEN 0 ELSE orders[q]]
    BY <1>2 DEF Fewer
  <2>2. QED
    BY <1>1, <1>2, <2>1
<1>3. CASE left = orders
  BY <1>1, <1>3
<1>4. CASE /\ req[r].picks # {}
           /\ left = [q \in Requests |-> IF q \in one THEN orders[q] - 1 ELSE orders[q]]
  <2>1. ASSUME NEW q \in Requests
        PROVE  /\ left[q] \in 0..Quantity
               /\ \/ left[q] = orders[q]
                  \/ left[q] <= orders[q] /\ q \in one
    <3>1. orders[q] \in 0..Quantity
      BY <1>1
    <3>2. CASE q \in one
      BY <1>1, <1>4, <3>1, <3>2
    <3>3. CASE q \notin one
      BY <1>4, <3>1, <3>3
    <3>4. QED
      BY <3>2, <3>3
  <2>2. \A q \in one : req[q].client = req[r].client /\ q \in req[r].picks
    OBVIOUS
  <2>3. left \in [Requests -> 0..Quantity]
    <3> HIDE DEF one
    <3>1. \A q \in Requests : left[q] \in 0..Quantity
      BY <2>1
    <3>2. QED
      BY <1>4, <3>1
  <2>4. QED
    BY <2>1, <2>2, <2>3
<1>5. QED
  BY <1>2, <1>3, <1>4 DEF Fewer

\* A DELETE of orders.
LEMMA CancelsKind ==
  ASSUME TypeOK, NEW r \in Requests, Cancel(r)
  PROVE  Cancels(r)
<1>1. {"cancelled", "error"} \subseteq Stages
  BY DEF Stages, Ended
<1>2. /\ req[r].stage = "cancel" /\ UNCHANGED <<table, weight>>
      /\ orders' \in {orders} \cup Fewer(r)
      /\ Step(r, "cancelled") \/ Step(r, "error")
  BY DEF Cancel
<1>3. /\ orders' \in [Requests -> 0..Quantity]
      /\ \A q \in Requests :
           \/ orders'[q] = orders[q]
           \/ /\ orders'[q] <= orders[q]
              /\ req[q].client = req[r].client
              /\ req[r].picks = {} \/ q \in req[r].picks
  <2>1. CASE orders' = orders
    BY <2>1 DEF TypeOK
  <2>2. CASE orders' \in Fewer(r)
    BY <2>2, FewerOrders
  <2>3. QED
    BY <1>2, <2>1, <2>2
<1>4. /\ Goes(r, req'[r].stage) /\ req'[r].stage \in {"cancelled", "error"}
  BY <1>1, <1>2, StepGoes DEF Goes
<1>5. QED
  BY <1>2, <1>3, <1>4 DEF Cancels

\* The roll-backs.
LEMMA FailsKind ==
  ASSUME TypeOK, StageFits, NEW r \in Requests,
         \/ Undo(r, "undo", "error") \/ Undo(r, "undo_all", "undo_rest")
         \/ UndoRest(r) \/ Abandon(r)
  PROVE  Fails(r)
<1>1. /\ {"error", "undo_rest"} \subseteq Stages
      /\ {"undo", "undo_all", "undo_rest"} \subseteq Writing
  BY DEF Stages, Ended, Writing
<1>2. /\ table \in [Tables -> SUBSET Ids]
      /\ \A t \in Tables :
           /\ Without(t, {r}) \in [Tables -> SUBSET Ids]
           /\ \A u \in Tables : /\ Without(t, {r})[u] \subseteq table[u]
                                /\ table[u] \subseteq Without(t, {r})[u] \cup {r}
  BY DEF TypeOK, Without
<1>3. ASSUME NEW from \in {"undo", "undo_all"}, NEW to \in {"error", "undo_rest"},
             Undo(r, from, to)
      PROVE  /\ Goes(r, to) /\ req[r].stage = from /\ UNCHANGED <<orders, weight>>
             /\ \E t \in Tables : table' \in {table, Without(t, {r})}
  <2>1. req[r].op \in {"profile", "bloq", "offer", "preference"}
    BY <1>3 DEF Undo, StageFits
  <2>2. QED
    BY <1>1, <1>3, <2>1, StepGoes DEF Undo, Tables
<1>4. CASE Undo(r, "undo", "error")
  BY <1>1, <1>2, <1>3, <1>4 DEF Fails, Goes
<1>5. CASE Undo(r, "undo_all", "undo_rest")
  BY <1>1, <1>2, <1>3, <1>5 DEF Fails, Goes
<1>6. CASE UndoRest(r)
  <2>1. "bloq_image" \in Tables
    BY DEF Tables
  <2>2. QED
    BY <1>1, <1>2, <1>6, <2>1, StepGoes DEF UndoRest, Fails, Goes
<1>7. CASE Abandon(r)
  BY <1>1, <1>2, <1>7, StepGoes DEF Abandon, Fails, Goes
<1>8. QED
  BY <1>4, <1>5, <1>6, <1>7

\* Every step is of one of the kinds.
LEMMA Kinds ==
  ASSUME IInv, Next
  PROVE  \E r \in Requests : Kind(r)
<1>1. PICK r \in Requests :
        \/ Arrive(r)
        \/ Yours(r) \/ Person(r)
        \/ Limit(r) \/ NewProfile(r) \/ NewOwner(r) \/ NewLikes(r)
        \/ Share(r) \/ Bump(r) \/ NewShare(r)
        \/ Delete(r)
        \/ Category(r) \/ NewBloq(r) \/ NewImage(r) \/ NewKeywords(r)
        \/ List(r) \/ Look(r)
        \/ Items(r) \/ NewOffer(r) \/ NewItems(r)
        \/ Order(r) \/ Cancel(r)
        \/ KnownPreferences(r) \/ NewPreference(r) \/ NewShares(r)
        \/ Undo(r, "undo", "error") \/ Undo(r, "undo_all", "undo_rest") \/ UndoRest(r)
        \/ Abandon(r)
  BY DEF Next
<1>2. TypeOK /\ StageFits /\ HoldsFit /\ OrdersCounted
  BY DEF IInv
<1>3. Kind(r)
  BY <1>1, <1>2, ArriveKind, PassesKind, InsertsKind, WeighsKind, ClearsKind, OrdersKind,
     CancelsKind, FailsKind DEF Kind
<1>4. QED
  BY <1>3

-----------------------------------------------------------------------------
(***************************************************************************)
(* What every step leaves as it is.                                        *)
(***************************************************************************)

\* No stage is of two groups.
LEMMA Groups ==
  /\ \A s \in Checking : s \notin Writing \cup Ended \cup {"idle"}
  /\ \A s \in Ended : s \notin Writing \cup {"idle"}
  /\ "idle" \notin Writing
BY DEF Checking, Writing, Ended

\* Only the request of the step moves, and as the operation it is.
LEMMA OnlyOne ==
  ASSUME NEW r, Kind(r)
  PROVE  Others(r)
BY DEF Kind, Forgets, Arrives, Passes, Inserts, Weighs, Clears, Orders, Cancels, Fails, Goes, Keeps

\* A settled request keeps what it asks for and stays settled.
LEMMA SettledStays ==
  ASSUME StageFits, NEW r \in Requests, Kind(r), NEW q \in Requests, Settled(q)
  PROVE  /\ Settled(q)' /\ req'[q].op = req[q].op /\ req'[q].client = req[q].client
         /\ req'[q].at = req[q].at /\ req'[q].picks = req[q].picks
<1>1. CASE q # r
  BY <1>1, OnlyOne DEF Others, Settled
<1>2. CASE q = r
  <2>1. ~ (Forgets(r) \/ Arrives(r))
    BY <1>2, Groups DEF Settled, Forgets, Arrives
  <2>2. ~ Passes(r)
    <3>1. Passes(r) => req[r].stage \in {"category", "yours", "person", "limit",
                                         "items", "known", "list", "look"}
      BY DEF Passes
    <3>2. QED
      BY <1>2, <3>1 DEF Settled, Writing, Ended
  <2>3. CASE Inserts(r)
    BY <1>2, <2>3 DEF Inserts, Row, Goes, Keeps, Others, Settled, Writing, Ended
  <2>4. CASE Weighs(r)
    BY <1>2, <2>4 DEF Weighs, Keeps, Others, Settled, Writing, Ended
  <2>5. CASE Clears(r)
    BY <1>2, <2>5 DEF Clears, Keeps, Others, Settled, Writing, Ended
  <2>6. CASE Orders(r)
    BY <1>2, <2>6 DEF Orders, Keeps, Others, Settled, Writing, Ended
  <2>7. CASE Cancels(r)
    BY <1>2, <2>7 DEF Cancels, Goes, Keeps, Others, Settled, Writing, Ended
  <2>8. CASE Fails(r)
    BY <1>2, <2>8 DEF Fails, Goes, Keeps, Others, Settled, Writing, Ended
  <2>9. QED
    BY <2>1, <2>2, <2>3, <2>4, <2>5, <2>6, <2>7, <2>8 DEF Kind
<1>3. QED
  BY <1>1, <1>2

\* An owner that was written stays written, if only to be deleted.
LEMMA OwnerStays ==
  ASSUME StageFits, NEW r \in Requests, Kind(r), NEW p, OwnerWritten(p)
  PROVE  OwnerWritten(p)'
<1>1. p \in Requests /\ Settled(p) /\ req[p].op = "profile"
  BY DEF OwnerWritten
<1>2. Settled(p)' /\ req'[p].op = "profile"
  BY <1>1, SettledStays
<1>3. CASE p # r
  BY <1>1, <1>2, <1>3, OnlyOne DEF Others, OwnerWritten
<1>4. CASE p = r
  <2>1. req[r].stage \in Writing \cup Ended /\ req[r].stage \notin {"profile", "owner"}
    BY <1>4 DEF OwnerWritten, Settled
  <2>2. ~ (Forgets(r) \/ Arrives(r))
    BY <2>1, Groups DEF Forgets, Arrives
  <2>3. ~ Passes(r)
    <3>1. Passes(r) => req[r].stage \in {"category", "yours", "person", "limit",
                                         "items", "known", "list", "look"}
      BY DEF Passes
    <3>2. QED
      BY <2>1, <3>1 DEF Writing, Ended
  <2>4. Kind(r) => req'[r].stage \notin {"profile", "owner"}
    BY <2>1, <2>2, <2>3 DEF Kind, Inserts, Row, Weighs, Clears, Orders, Cancels, Fails, Goes
  <2>5. QED
    BY <1>1, <1>2, <1>4, <2>4 DEF OwnerWritten
<1>5. QED
  BY <1>3, <1>4

\* A deletion that began is never unsaid.
LEMMA DeletingStays ==
  ASSUME StageFits, NEW r \in Requests, Kind(r), NEW p, Deleting(p)
  PROVE  Deleting(p)'
<1>1. PICK q \in Requests : /\ req[q].op = "delete" /\ req[q].at = p
                            /\ req[q].stage \in {"delete", "deleted", "error"}
  BY DEF Deleting
<1>2. Settled(q)
  BY <1>1 DEF Settled, Writing, Ended
<1>3. req'[q].op = "delete" /\ req'[q].at = p
  BY <1>1, <1>2, SettledStays
<1>4. req'[q].stage \in {"delete", "deleted", "error"}
  <2>1. CASE q # r
    BY <1>1, <2>1, OnlyOne DEF Others
  <2>2. CASE q = r
    <3>1. ~ (Forgets(r) \/ Arrives(r) \/ Passes(r) \/ Inserts(r) \/ Weighs(r)
             \/ Orders(r) \/ Cancels(r))
      BY <1>1, <2>2 DEF Forgets, Arrives, Passes, Inserts, Row, Weighs, Orders, Cancels, Checking
    <3>2. QED
      BY <1>1, <2>2, <3>1 DEF Kind, Clears, Fails
  <2>3. QED
    BY <2>1, <2>2
<1>5. QED
  BY <1>3, <1>4 DEF Deleting

\* What is known, or was asked for and settled.
Fixed(x) == x \in Known \/ (x \in Requests /\ Settled(x))

\* The columns of such a thing do not change.
LEMMA ColumnsStay ==
  ASSUME StageFits, NEW r \in Requests, Kind(r), NEW x, Fixed(x)
  PROVE  Fixed(x)' /\ Client(x)' = Client(x) /\ Creator(x)' = Creator(x)
<1>1. CASE x \in Known
  BY <1>1 DEF Fixed, Client, Creator
<1>2. CASE x \notin Known /\ x \in Requests /\ Settled(x)
  BY <1>2, SettledStays DEF Fixed, Client, Creator
<1>3. QED
  BY <1>1, <1>2 DEF Fixed

\* A deletion begun in the name of one of the profiles of a client.
LEMMA ClientDeletesStays ==
  ASSUME StageFits, OwnProfile, NEW r \in Requests, Kind(r), NEW c, ClientDeletes(c)
  PROVE  ClientDeletes(c)'
<1>1. PICK p \in Ids : Client(p) = c /\ Deleting(p)
  BY DEF ClientDeletes
<1>2. Deleting(p)'
  BY <1>1, DeletingStays
<1>3. Fixed(p)
  <2>1. PICK q \in Requests : /\ req[q].op = "delete" /\ req[q].at = p
                              /\ req[q].stage \in {"delete", "deleted", "error"}
    BY <1>1 DEF Deleting
  <2>2. ActsForProfile(q)
    BY <2>1 DEF ActsForProfile, Settled, Writing, Ended
  <2>3. QED
    BY <2>1, <2>2 DEF OwnProfile, OwnerWritten, Fixed
<1>4. Client(p)' = c
  BY <1>1, <1>3, ColumnsStay
<1>5. QED
  BY <1>2, <1>4 DEF ClientDeletes, Ids

\* A row that appears is the request's own, in a table it may write.
LEMMA Gains ==
  ASSUME TypeOK, StageFits, NEW r \in Requests, Kind(r),
         NEW t \in Tables, NEW x \in table'[t] \ table[t]
  PROVE  /\ x = r /\ Inserts(r) /\ Settled(r) /\ req[r].op = Maker(t)
         /\ t = "credential_profiles" => req[r].stage = "owner" /\ OwnerWritten(r)'
         /\ t = "bloq" => req[r].stage = "bloq"
         /\ t = "offers" => req[r].stage = "offer"
<1>1. Inserts(r)
  BY DEF Kind, Forgets, Arrives, Passes, Weighs, Clears, Cleared, Orders, Cancels, Fails
<1>2. x = r
  BY <1>1 DEF Inserts
<1>3. req[r].stage \in Writing
  BY <1>1 DEF Inserts, Row, Writing
<1>5. \/ t = "profile" /\ req[r].stage = "profile"
      \/ t = "credential_profiles" /\ req[r].stage = "owner"
           /\ req'[r].stage \in {"created", "likes", "undo"}
      \/ t = "profile_likes" /\ req[r].stage = "likes"
      \/ t = "bloq" /\ req[r].stage = "bloq"
      \/ t = "bloq_image" /\ req[r].stage = "image"
      \/ t = "bloq_keywords" /\ req[r].stage = "keywords"
      \/ t = "offers" /\ req[r].stage = "offer"
      \/ t = "offersItems" /\ req[r].stage = "offer_items"
      \/ t = "preference" /\ req[r].stage = "preference"
  BY <1>1 DEF Inserts, Row
<1>6. req[r].op = Maker(t)
  BY <1>5 DEF StageFits, Maker
<1>7. Settled(r) /\ Settled(r)' /\ req'[r].op = req[r].op
  BY <1>3, SettledStays DEF Settled
<1>8. t = "credential_profiles" => req[r].stage = "owner" /\ OwnerWritten(r)'
  BY <1>5, <1>6, <1>7 DEF OwnerWritten, Maker
<1>9. QED
  BY <1>1, <1>2, <1>5, <1>6, <1>7, <1>8

\* A row that disappears is one of the profile that is deleted, or it is rolled back.
LEMMA Losses ==
  ASSUME TypeOK, StageFits, NEW r \in Requests, Kind(r),
         NEW t \in Tables, NEW x \in table[t] \ table'[t]
  PROVE  \/ x = r /\ Fails(r) /\ req'[r].stage \in {"error", "undo_rest"}
         \/ \E p \in Ids :
            /\ Clears(r) /\ p = req[r].at /\ Deleting(p)'
            /\ t \in {"profile", "credential_profiles", "profile_likes"} => x = p
            /\ t \in {"bloq", "offers"} => Creator(x) = p
            /\ t \notin {"bloq_image", "bloq_keywords", "offersItems", "preference"}
<1>1. Clears(r) \/ Fails(r)
  BY DEF Kind, Forgets, Arrives, Passes, Inserts, Weighs, Orders, Cancels
<1>2. CASE Fails(r)
  BY <1>2 DEF Fails
<1>3. CASE Clears(r)
  <2>1. req[r].op = "delete" /\ req[r].stage = "delete"
    BY <1>3 DEF Clears, StageFits
  <2>2. PICK p \in Ids : p = req[r].at
    BY DEF TypeOK, Request
  <2>3. Deleting(p)'
    BY <2>1, <2>2, DeletingStays DEF Deleting
  <2>4. QED
    BY <1>3, <2>2, <2>3 DEF Clears, Cleared
<1>4. QED
  BY <1>1, <1>2, <1>3

-----------------------------------------------------------------------------
(***************************************************************************)
(* The parts of the invariant are kept.                                    *)
(***************************************************************************)

\* Counts stay in their bounds: an order by its count, a weight by the UPDATE's condition.
LEMMA TypeKept ==
  ASSUME IInv, NEW r \in Requests, Kind(r)
  PROVE  TypeOK'
<1>1. TypeOK /\ StageFits /\ HoldsFit /\ OrdersCounted
  BY DEF IInv
<1>2. req' \in [Requests -> Request]
  BY OnlyOne DEF Others
<1>3. table' \in [Tables -> SUBSET Ids]
  BY <1>1 DEF Kind, TypeOK, Forgets, Arrives, Passes, Inserts, Weighs, Clears, Cleared,
                Orders, Cancels, Fails
<1>4. orders' \in [Requests -> 0..Quantity]
  <2>1. CASE Orders(r)
    <3>1. orders[r] <= req[r].n /\ req[r].n \in 0..Quantity
      BY <1>1, <2>1 DEF Orders, OrdersCounted, HoldsFit
    <3>2. orders'[r] \in 0..Quantity
      BY <1>1, <2>1, <3>1, LimitsAssumption DEF Orders, TypeOK
    <3>3. QED
      BY <1>1, <2>1, <3>2 DEF Orders, TypeOK
  <2>2. QED
    BY <1>1, <2>1 DEF Kind, TypeOK, Forgets, Arrives, Passes, Inserts, Weighs, Clears, Cleared,
                      Cancels, Fails
<1>5. weight' \in [Pairs -> {NoRow} \cup 0..MaxWeight]
  <2>1. CASE Weighs(r)
    <3>1. req[r].stage \in {"bump", "new_share"} => req[r].picks \in Pairs
      BY <1>1 DEF HoldsFit
    <3>2. req[r].stage = "bump" => req[r].n \in Nat
      BY <1>1 DEF HoldsFit
    <3>3. QED
      BY <1>1, <2>1, <3>1, <3>2, LimitsAssumption DEF Weighs, TypeOK
  <2>2. QED
    BY <1>1, <2>1 DEF Kind, TypeOK, Forgets, Arrives, Passes, Inserts, Clears, Orders, Cancels, Fails
<1>6. QED
  BY <1>2, <1>3, <1>4, <1>5 DEF TypeOK

\* A request goes on to stages of its own.
LEMMA StageFitsKept ==
  ASSUME StageFits, NEW r \in Requests, Kind(r)
  PROVE  StageFits'
<1>1. Others(r)
  BY OnlyOne
<1>2. CASE Forgets(r) \/ Arrives(r)
  BY <1>1, <1>2 DEF StageFits, Forgets, Arrives, Others, Idle
<1>3. CASE Passes(r)
  BY <1>1, <1>3 DEF StageFits, Passes, Others
<1>4. CASE Inserts(r)
  BY <1>1, <1>4 DEF StageFits, Inserts, Row, Others
<1>5. CASE Weighs(r)
  BY <1>1, <1>5 DEF StageFits, Weighs, Others
<1>6. CASE Clears(r)
  BY <1>1, <1>6 DEF StageFits, Clears, Others
<1>7. CASE Orders(r) \/ Cancels(r) \/ Fails(r)
  BY <1>1, <1>7 DEF StageFits, Orders, Cancels, Fails, Others
<1>8. QED
  BY <1>2, <1>3, <1>4, <1>5, <1>6, <1>7 DEF Kind

\* What a request holds fits the stage it goes on to.
LEMMA HoldsFitKept ==
  ASSUME TypeOK, StageFits, HoldsFit, NEW r \in Requests, Kind(r)
  PROVE  HoldsFit'
<1>1. Others(r) /\ req'[r].op = req[r].op
  BY OnlyOne DEF Others
<1>2. CASE Forgets(r)
  BY <1>1, <1>2 DEF HoldsFit, Forgets, Others, Idle, Settled, Writing, Ended
<1>3. CASE Arrives(r)
  BY <1>1, <1>3, LimitsAssumption DEF HoldsFit, Arrives, Others, Settled, Writing, Ended
<1>4. CASE Passes(r)
  <2>1. req[r].stage \in Checking /\ ~ Settled(r)
    BY <1>4 DEF Passes, Checking, Settled, Writing, Ended
  <2>2. req[r].op = "offer" /\ Settled(r)' => req'[r].seen = {}
    BY <1>1, <1>4 DEF Passes, StageFits, Settled, Writing, Ended
  <2>3. req[r].op = "delete" => req'[r].n = 0
    BY <1>4, <2>1 DEF HoldsFit, Passes
  <2>4. /\ req[r].op = "bloq" => req'[r].n \in {0, 1}
        /\ req'[r].stage \notin {"likes", "share", "bump", "new_share", "deleted", "order"}
        /\ req'[r].stage = "delete" => req[r].op = "delete"
    BY <1>4 DEF HoldsFit, Passes
  <2>5. QED
    BY <1>1, <2>2, <2>3, <2>4 DEF HoldsFit, Others, Settled
<1>5. CASE Inserts(r)
  <2>1. Settled(r) /\ Settled(r)' /\ req'[r].picks = req[r].picks
        /\ req'[r].seen = req[r].seen /\ req'[r].n = req[r].n
    BY <1>5 DEF Inserts, Row, Goes, Keeps, Settled, Writing, Ended
  <2>2. /\ req'[r].stage \notin {"bump", "new_share", "deleted", "delete", "order"}
        /\ req'[r].stage = "likes" => req[r].picks # {}
        /\ req'[r].stage = "share" => req[r].picks \in Pairs
    BY <1>5 DEF Inserts, Row
  <2>3. QED
    BY <1>1, <2>1, <2>2 DEF HoldsFit, Others, Settled
<1>6. CASE Weighs(r)
  <2>1. /\ Settled(r) /\ Settled(r)' /\ req'[r].picks = req[r].picks
        /\ req[r].op \in {"profile", "preference"}
    BY <1>6 DEF Weighs, Keeps, Settled, Writing, Ended, StageFits
  <2>2. /\ req'[r].stage \notin {"likes", "share", "deleted", "delete", "order"}
        /\ req'[r].stage \in {"bump", "new_share"} => req[r].stage = "share"
    BY <1>6 DEF Weighs
  <2>3. ASSUME req'[r].stage = "bump"
        PROVE  req'[r].n \in Nat
    <3>1. /\ req[r].picks \in Pairs /\ weight[req[r].picks] # NoRow
          /\ req'[r].n = weight[req[r].picks]
      BY <1>6, <2>2, <2>3 DEF Weighs, HoldsFit
    <3>2. QED
      BY <3>1, LimitsAssumption DEF TypeOK
  <2>4. req[r].stage = "share" => req[r].picks \in Pairs
    BY DEF HoldsFit
  <2>5. QED
    BY <1>1, <2>1, <2>2, <2>3, <2>4 DEF HoldsFit, Others, Settled
<1>7. CASE Clears(r)
  <2>1. Settled(r) /\ Settled(r)' /\ req[r].op = "delete" /\ req[r].n \in 0..5
    BY <1>7 DEF Clears, Settled, Writing, Ended, StageFits, HoldsFit
  <2>2. /\ req'[r].stage \in {"error", "delete", "deleted"}
        /\ req'[r].stage = "delete" => req'[r].n \in 0..5
        /\ req'[r].stage = "deleted" => req'[r].n = 6
    BY <1>7, <2>1 DEF Clears
  <2>3. QED
    BY <1>1, <2>1, <2>2 DEF HoldsFit, Others, Settled
<1>8. CASE Orders(r)
  <2>1. Settled(r) /\ Settled(r)' /\ req[r].op = "order" /\ req[r].n \in 0..Quantity
    BY <1>8 DEF Orders, Settled, Writing, Ended, StageFits, HoldsFit
  <2>2. /\ req'[r].stage \in {"error", "order", "created"}
        /\ req'[r].stage = "order" => req'[r].n \in 0..Quantity
    BY <1>8, <2>1, LimitsAssumption DEF Orders
  <2>3. QED
    BY <1>1, <2>1, <2>2 DEF HoldsFit, Others, Settled
<1>9. CASE Cancels(r) \/ Fails(r)
  <2>1. Settled(r) /\ Settled(r)' /\ req'[r].stage \in {"cancelled", "error", "undo_rest"}
        /\ req'[r].seen = req[r].seen /\ req'[r].n = req[r].n
    BY <1>9 DEF Cancels, Fails, Goes, Settled, Writing, Ended
  <2>2. QED
    BY <1>1, <2>1 DEF HoldsFit, Others, Settled
<1>10. QED
  BY <1>2, <1>3, <1>4, <1>5, <1>6, <1>7, <1>8, <1>9 DEF Kind

\* Rows are inserted by settled requests only, owners after their profile.
LEMMA RowsSettledKept ==
  ASSUME TypeOK, StageFits, RowsSettled, NEW r \in Requests, Kind(r),
         table' \in [Tables -> SUBSET Ids]
  PROVE  RowsSettled'
<1>1. ASSUME NEW t \in Tables, NEW x \in table'[t] \ Known
      PROVE  Settled(x)' /\ req'[x].op = Maker(t)
  <2>1. x \in Requests
    BY <1>1 DEF Ids
  <2>2. CASE x \in table[t]
    BY <1>1, <2>1, <2>2, SettledStays DEF RowsSettled
  <2>3. CASE x \notin table[t]
    BY <1>1, <2>3, Gains, SettledStays
  <2>4. QED
    BY <2>2, <2>3
<1>2. ASSUME NEW p \in table'.credential_profiles \ Known
      PROVE  OwnerWritten(p)'
  <2>1. CASE p \in table.credential_profiles
    BY <1>2, <2>1, OwnerStays DEF RowsSettled
  <2>2. CASE p \notin table.credential_profiles
    BY <1>2, <2>2, Gains DEF Tables
  <2>3. QED
    BY <2>1, <2>2
<1>3. ASSUME NEW t \in {"offers", "offersItems"}, NEW x \in table'[t]
      PROVE  x \notin Known
  <2>1. t \in Tables
    BY DEF Tables
  <2>2. CASE x \in table[t]
    BY <1>3, <2>2 DEF RowsSettled
  <2>3. CASE x \notin table[t]
    BY <1>3, <2>1, <2>3, Gains, SceneAssumption
  <2>4. QED
    BY <2>2, <2>3
<1>4. QED
  BY <1>1, <1>2, <1>3 DEF RowsSettled

\* Rows of an order come one at a time, with the count, and otherwise only go.
LEMMA OrdersCountedKept ==
  ASSUME TypeOK, StageFits, HoldsFit, OrdersCounted, NEW r \in Requests, Kind(r)
  PROVE  OrdersCounted'
<1> SUFFICES ASSUME NEW q \in Requests
             PROVE  /\ ~ Settled(q)' => orders'[q] = 0
                    /\ req'[q].stage = "order" => orders'[q] <= req'[q].n
  BY DEF OrdersCounted
<1>1. Others(r) /\ (Settled(q) => Settled(q)')
  BY OnlyOne, SettledStays
<1>2. CASE Orders(r)
  <2>1. Settled(r)' /\ orders[r] <= req[r].n /\ req[r].n \in 0..Quantity
    BY <1>2 DEF Orders, Settled, Writing, Ended, OrdersCounted, HoldsFit
  <2>2. QED
    BY <1>1, <1>2, <2>1, LimitsAssumption DEF Orders, Others, OrdersCounted, TypeOK, Settled
<1>3. CASE Clears(r) \/ Cancels(r)
  <2>1. orders'[q] \in 0..Quantity /\ orders[q] \in 0..Quantity /\ orders'[q] <= orders[q]
    BY <1>3, LimitsAssumption DEF Clears, Cleared, Cancels, TypeOK
  <2>2. req'[q].stage = "order" => req'[q] = req[q] /\ req[q].n \in 0..Quantity
    BY <1>1, <1>3 DEF Clears, Cancels, Others, HoldsFit
  <2>3. QED
    BY <1>1, <2>1, <2>2, LimitsAssumption DEF OrdersCounted
<1>4. CASE ~ Orders(r) /\ ~ Clears(r) /\ ~ Cancels(r)
  <2>1. orders' = orders
    BY <1>4 DEF Kind, Forgets, Arrives, Passes, Inserts, Weighs, Fails
  <2>2. CASE q # r
    BY <1>1, <2>1, <2>2 DEF OrdersCounted, Others
  <2>3. CASE q = r /\ req'[r].stage = "order"
    <3>1. Arrives(r) /\ req'[r].n = 0 /\ req[r].stage = "idle"
      BY <1>4, <2>3 DEF Kind, Forgets, Idle, Passes, Inserts, Row, Weighs, Fails, Arrives
    <3>2. orders[r] = 0
      BY <3>1, Groups DEF OrdersCounted, Settled, Ended
    <3>3. QED
      BY <2>1, <2>3, <3>1, <3>2 DEF Settled, Writing
  <2>4. CASE q = r /\ req'[r].stage # "order"
    BY <1>1, <2>1, <2>4 DEF OrdersCounted
  <2>5. QED
    BY <2>2, <2>3, <2>4
<1>5. QED
  BY <1>2, <1>3, <1>4

\* Who acts for a profile found it to be its client's, or did already.
LEMMA BeginsToAct ==
  ASSUME StageFits, NEW r \in Requests, Kind(r), NEW q \in Requests, ActsForProfile(q)'
  PROVE  /\ ActsForProfile(q) \/ (q = r /\ Passes(r) /\ IsYours(r) /\ req'[r].stage = "person")
         /\ req'[q].at = req[q].at /\ req'[q].client = req[q].client
         /\ req'[q].op = req[q].op
<1>1. Others(r)
  BY OnlyOne
<1>2. CASE q # r
  BY <1>1, <1>2 DEF Others, ActsForProfile, Settled
<1>3. CASE q = r
  <2>1. CASE Settled(r)
    <3>1. /\ req'[r].at = req[r].at /\ req'[r].client = req[r].client
          /\ req'[r].op = req[r].op /\ Settled(r)'
      BY <2>1, SettledStays
    <3>2. req'[r].stage \notin {"person", "items"}
      BY <3>1 DEF Settled, Writing, Ended
    <3>3. QED
      BY <1>3, <2>1, <3>1, <3>2 DEF ActsForProfile
  <2>2. CASE ~ Settled(r)
    <3>1. ~ (Inserts(r) \/ Weighs(r) \/ Clears(r) \/ Orders(r) \/ Cancels(r) \/ Fails(r))
      BY <2>2 DEF Inserts, Row, Weighs, Clears, Orders, Cancels, Fails, Settled, Writing, Ended
    <3>2. ~ Forgets(r)
      BY <1>3 DEF Forgets, Idle, ActsForProfile, Settled, Writing, Ended
    <3>3. ~ Arrives(r)
      BY <1>1, <1>3 DEF Arrives, Others, ActsForProfile, Settled, Writing, Ended
    <3>4. Passes(r)
      BY <3>1, <3>2, <3>3 DEF Kind
    <3>5. /\ req'[r].at = req[r].at /\ req'[r].client = req[r].client
          /\ req'[r].op = req[r].op
      BY <1>1, <3>4 DEF Passes, Others
    <3>6. \/ req[r].stage \in {"person", "items"}
          \/ IsYours(r) /\ req'[r].stage = "person"
      BY <1>3, <3>4, <3>5 DEF Passes, ActsForProfile, StageFits, Settled, Writing, Ended
    <3>7. QED
      BY <1>3, <3>4, <3>5, <3>6 DEF ActsForProfile
  <2>3. QED
    BY <2>1, <2>2
<1>4. QED
  BY <1>2, <1>3

\* A profile that was found to be the client's stays so.
LEMMA OwnProfileKept ==
  ASSUME TypeOK, StageFits, RowsSettled, OwnProfile, NEW r \in Requests, Kind(r)
  PROVE  OwnProfile'
<1> SUFFICES ASSUME NEW q \in Requests, ActsForProfile(q)'
             PROVE  (/\ req[q].at \in Known \/ OwnerWritten(req[q].at)
                     /\ Client(req[q].at) = req[q].client)'
  BY DEF OwnProfile
<1>1. PICK p \in Ids : p = req[q].at
  BY DEF TypeOK, Request
<1>2. /\ p \in Known \/ OwnerWritten(p)
      /\ Client(p) = req[q].client
  <2>1. CASE ActsForProfile(q)
    BY <1>1, <2>1 DEF OwnProfile
  <2>2. CASE q = r /\ IsYours(r)
    BY <1>1, <2>2 DEF IsYours, RowsSettled
  <2>3. QED
    BY <2>1, <2>2, BeginsToAct
<1>3. Fixed(p)
  BY <1>2 DEF Fixed, OwnerWritten
<1>4. p \in Known \/ OwnerWritten(p)'
  BY <1>2, OwnerStays
<1>5. Client(p)' = req[q].client
  BY <1>2, <1>3, ColumnsStay
<1>6. req'[q].at = p /\ req'[q].client = req[q].client
  BY <1>1, BeginsToAct
<1>7. QED
  BY <1>4, <1>5, <1>6 DEF Client, OwnerWritten, Settled

\* Checked items do not change hands.
LEMMA ItemsCheckedKept ==
  ASSUME TypeOK, StageFits, HoldsFit, RowsSettled, ItemsChecked, NEW r \in Requests, Kind(r)
  PROVE  ItemsChecked'
<1> SUFFICES ASSUME NEW q \in Requests, req'[q].op = "offer", ActsForProfile(q)',
                    req'[q].stage # "person", NEW b \in req'[q].picks \ req'[q].seen
             PROVE  (/\ b \in Known \/ (b \in Requests /\ Settled(b))
                     /\ Creator(b) = req[q].at)'
  BY DEF ItemsChecked
<1>1. /\ ActsForProfile(q) /\ req[q].op = "offer" /\ req'[q].at = req[q].at
  BY BeginsToAct
<1>2. SUFFICES Fixed(b) /\ Creator(b) = req[q].at
  BY <1>1, ColumnsStay DEF Fixed
<1>3. CASE q # r
  <2>1. req'[q] = req[q]
    BY <1>3, OnlyOne DEF Others
  <2>2. QED
    BY <1>1, <2>1 DEF ItemsChecked, Fixed
<1>4. CASE q = r /\ Settled(r)
  <2>1. /\ req[r].seen = {} /\ req'[r].picks = req[r].picks
    BY <1>1, <1>4, SettledStays DEF HoldsFit
  <2>2. req[r].stage # "person"
    BY <1>4 DEF Settled, Writing, Ended
  <2>3. QED
    BY <1>1, <1>4, <2>1, <2>2 DEF ItemsChecked, Fixed
<1>5. CASE q = r /\ ~ Settled(r)
  <2>1. req[r].stage \in {"person", "items"}
    BY <1>1, <1>5 DEF ActsForProfile
  <2>2. Passes(r)
    <3>1. ~ (Inserts(r) \/ Weighs(r) \/ Clears(r) \/ Orders(r) \/ Cancels(r) \/ Fails(r))
      BY <1>5 DEF Inserts, Row, Weighs, Clears, Orders, Cancels, Fails, Settled, Writing, Ended
    <3>2. ~ Forgets(r)
      BY <1>5 DEF Forgets, Idle, ActsForProfile, Settled, Writing, Ended
    <3>3. ~ Arrives(r)
      BY <2>1 DEF Arrives
    <3>4. QED
      BY <3>1, <3>2, <3>3 DEF Kind
  <2>3. CASE req[r].stage = "person"
    BY <1>5, <2>2, <2>3, OnlyOne DEF Passes, Others
  <2>4. CASE req[r].stage = "items"
    <3>1. /\ req'[r].picks = req[r].picks
          /\ \/ req'[r].seen = req[r].seen
             \/ \E x \in req[r].seen : /\ IsProductCreator(x, req[r].at)
                                       /\ req'[r].seen = req[r].seen \ {x}
      BY <2>2, <2>4 DEF Passes
    <3>2. CASE b \notin req[r].seen
      BY <1>1, <1>5, <2>4, <3>1, <3>2 DEF ItemsChecked, Fixed
    <3>3. CASE b \in req[r].seen
      <4>1. b \in table.bloq /\ Creator(b) = req[r].at
        BY <1>5, <3>1, <3>3 DEF IsProductCreator
      <4>2. Fixed(b)
        BY <4>1 DEF RowsSettled, TypeOK, Tables, Ids, Fixed
      <4>3. QED
        BY <1>5, <4>1, <4>2
    <3>4. QED
      BY <3>2, <3>3
  <2>5. QED
    BY <2>1, <2>3, <2>4
<1>6. QED
  BY <1>3, <1>4, <1>5

\* The rows of a profile go only when it is deleted, or it is rolled back itself.
LEMMA ProfileMadeKept ==
  ASSUME TypeOK, StageFits, ProfileMade, NEW r \in Requests, Kind(r)
  PROVE  ProfileMade'
<1> SUFFICES ASSUME NEW q \in Requests, req'[q].op = "profile",
                    req'[q].stage \in {"owner", "likes", "share", "bump", "new_share"} \cup Answered,
                    ~ Deleting(q)'
             PROVE  /\ q \in table'.profile
                    /\ req'[q].stage # "owner" => q \in table'.credential_profiles
                    /\ req'[q].stage \notin {"owner", "likes"} =>
                         req'[q].picks = {} \/ q \in table'.profile_likes
  BY DEF ProfileMade
<1>1. Others(r) /\ ~ Deleting(q) /\ req[q].op = "profile"
  BY OnlyOne, DeletingStays DEF Others
<1>2. ASSUME NEW t \in {"profile", "credential_profiles", "profile_likes"}, q \in table[t]
      PROVE  q \in table'[t]
  <2>1. t \in Tables
    BY DEF Tables
  <2>2. SUFFICES ASSUME q \notin table'[t] PROVE FALSE
    OBVIOUS
  <2>3. \/ q = r /\ req'[r].stage \in {"error", "undo_rest"}
        \/ \E p \in Ids : Deleting(p)' /\ q = p
    BY <1>2, <2>1, <2>2, Losses
  <2>4. QED
    BY <2>3 DEF Answered
<1>3. CASE q # r
  BY <1>1, <1>2, <1>3 DEF ProfileMade, Others
<1>4. CASE q = r
  <2>1. ~ (Forgets(r) \/ Arrives(r) \/ Passes(r) \/ Clears(r) \/ Orders(r) \/ Cancels(r) \/ Fails(r))
    BY <1>1, <1>4 DEF Forgets, Idle, Arrives, Passes, Clears, Orders, Cancels, Fails, Answered, StageFits
  <2>2. CASE Weighs(r)
    <3>1. /\ req[r].stage \in {"share", "bump", "new_share"} /\ req'[r].picks = req[r].picks
      BY <1>1, <1>4, <2>2 DEF Weighs, Keeps, StageFits
    <3>2. QED
      BY <1>1, <1>2, <1>4, <3>1 DEF ProfileMade
  <2>3. CASE Inserts(r)
    <3>1. req'[r].picks = req[r].picks
      BY <2>3 DEF Inserts, Goes, Keeps
    <3>2. \/ req'[r].stage = "owner" /\ r \in table'.profile
          \/ req[r].stage = "owner" /\ r \in table'.credential_profiles
               /\ (IF req[r].picks = {} THEN req'[r].stage = "created"
                                        ELSE req'[r].stage = "likes")
          \/ req[r].stage = "likes" /\ r \in table'.profile_likes
      BY <1>1, <1>4, <2>3 DEF Inserts, Row, StageFits, Answered
    <3>3. QED
      BY <1>1, <1>2, <1>4, <3>1, <3>2 DEF ProfileMade
  <2>4. QED
    BY <2>1, <2>2, <2>3 DEF Kind
<1>5. QED
  BY <1>3, <1>4

\* The rows of a bloq go only with its profile, or it is rolled back itself.
LEMMA BloqMadeKept ==
  ASSUME TypeOK, StageFits, HoldsFit, BloqMade, NEW r \in Requests, Kind(r)
  PROVE  BloqMade'
<1> SUFFICES ASSUME NEW q \in Requests, req'[q].op = "bloq",
                    req'[q].stage \in {"image", "keywords", "created"},
                    ~ Deleting(req[q].at)'
             PROVE  /\ q \in table'.bloq
                    /\ req'[q].stage = "created" => req'[q].n = 0 \/ q \in table'.bloq_keywords
  BY DEF BloqMade
<1>1. Others(r) /\ req[q].op = "bloq"
  BY OnlyOne DEF Others
<1>2. PICK p \in Ids : p = req'[q].at
  BY <1>1 DEF Others, Request
<1>3. ~ Deleting(p) /\ ~ Deleting(p)'
  BY <1>2, DeletingStays DEF Deleting
<1>4. ASSUME q \in table.bloq, Creator(q) = p
      PROVE  q \in table'.bloq
  <2>1. "bloq" \in Tables
    BY DEF Tables
  <2>2. SUFFICES ASSUME q \notin table'.bloq PROVE FALSE
    OBVIOUS
  <2>3. \/ q = r /\ req'[r].stage \in {"error", "undo_rest"}
        \/ \E x \in Ids : Deleting(x)' /\ Creator(q) = x
    BY <1>4, <2>1, <2>2, Losses
  <2>4. QED
    BY <1>3, <1>4, <2>3
<1>5. ASSUME q \in table.bloq_keywords
      PROVE  q \in table'.bloq_keywords
  <2>1. "bloq_keywords" \in Tables
    BY DEF Tables
  <2>2. SUFFICES ASSUME q \notin table'.bloq_keywords PROVE FALSE
    OBVIOUS
  <2>3. q = r /\ req'[r].stage \in {"error", "undo_rest"}
    BY <1>5, <2>1, <2>2, Losses
  <2>4. QED
    BY <2>3
<1>6. CASE q # r
  <2>1. req'[q] = req[q] /\ q \notin Known
    BY <1>1, <1>6, SceneAssumption DEF Others
  <2>2. QED
    BY <1>2, <1>3, <1>4, <1>5, <2>1 DEF BloqMade, Creator
<1>7. CASE q = r
  <2>1. ~ (Forgets(r) \/ Arrives(r) \/ Passes(r) \/ Clears(r) \/ Orders(r) \/ Cancels(r)
            \/ Fails(r) \/ Weighs(r))
    BY <1>1, <1>7 DEF Forgets, Idle, Arrives, Passes, Clears, Orders, Cancels, Fails, Weighs, StageFits
  <2>2. Inserts(r)
    BY <2>1 DEF Kind
  <2>3. req'[r].at = req[r].at /\ req'[r].n = req[r].n
    BY <2>2 DEF Inserts, Goes, Keeps
  <2>4. \/ req'[r].stage = "image" /\ r \in table'.bloq
        \/ req[r].stage = "image" /\ (req'[r].stage = "created" => req[r].n # 1)
        \/ req[r].stage = "keywords" /\ r \in table'.bloq_keywords
    BY <1>1, <1>7, <2>2 DEF Inserts, Row, StageFits
  <2>5. req[r].n \in {0, 1} /\ r \notin Known
    BY <1>1, <1>7, SceneAssumption DEF HoldsFit
  <2>6. QED
    BY <1>1, <1>2, <1>3, <1>4, <1>7, <2>3, <2>4, <2>5 DEF BloqMade, Creator
<1>8. QED
  BY <1>6, <1>7

\* The rows of an offer go only with its profile, or it is rolled back itself.
LEMMA OfferMadeKept ==
  ASSUME TypeOK, StageFits, OfferMade, NEW r \in Requests, Kind(r)
  PROVE  OfferMade'
<1> SUFFICES ASSUME NEW q \in Requests, req'[q].op = "offer",
                    req'[q].stage \in {"offer_items", "created"},
                    ~ Deleting(req[q].at)'
             PROVE  /\ q \in table'.offers
                    /\ req'[q].stage = "created" => q \in table'.offersItems
  BY DEF OfferMade
<1>1. Others(r) /\ req[q].op = "offer"
  BY OnlyOne DEF Others
<1>2. PICK p \in Ids : p = req'[q].at
  BY <1>1 DEF Others, Request
<1>3. ~ Deleting(p) /\ ~ Deleting(p)'
  BY <1>2, DeletingStays DEF Deleting
<1>4. ASSUME q \in table.offers, Creator(q) = p
      PROVE  q \in table'.offers
  <2>1. "offers" \in Tables
    BY DEF Tables
  <2>2. SUFFICES ASSUME q \notin table'.offers PROVE FALSE
    OBVIOUS
  <2>3. \/ q = r /\ req'[r].stage \in {"error", "undo_rest"}
        \/ \E x \in Ids : Deleting(x)' /\ Creator(q) = x
    BY <1>4, <2>1, <2>2, Losses
  <2>4. QED
    BY <1>3, <1>4, <2>3
<1>5. ASSUME q \in table.offersItems
      PROVE  q \in table'.offersItems
  <2>1. "offersItems" \in Tables
    BY DEF Tables
  <2>2. SUFFICES ASSUME q \notin table'.offersItems PROVE FALSE
    OBVIOUS
  <2>3. q = r /\ req'[r].stage \in {"error", "undo_rest"}
    BY <1>5, <2>1, <2>2, Losses
  <2>4. QED
    BY <2>3
<1>6. CASE q # r
  <2>1. req'[q] = req[q] /\ q \notin Known
    BY <1>1, <1>6, SceneAssumption DEF Others
  <2>2. QED
    BY <1>2, <1>3, <1>4, <1>5, <2>1 DEF OfferMade, Creator
<1>7. CASE q = r
  <2>1. ~ (Forgets(r) \/ Arrives(r) \/ Passes(r) \/ Clears(r) \/ Orders(r) \/ Cancels(r)
            \/ Fails(r) \/ Weighs(r))
    BY <1>1, <1>7 DEF Forgets, Idle, Arrives, Passes, Clears, Orders, Cancels, Fails, Weighs, StageFits
  <2>2. Inserts(r)
    BY <2>1 DEF Kind
  <2>3. req'[r].at = req[r].at /\ r \notin Known
    BY <2>2, SceneAssumption DEF Inserts, Goes, Keeps
  <2>4. \/ req'[r].stage = "offer_items" /\ r \in table'.offers
        \/ req[r].stage = "offer_items" /\ r \in table'.offersItems
    BY <1>1, <1>7, <2>2 DEF Inserts, Row, StageFits
  <2>5. QED
    BY <1>1, <1>2, <1>3, <1>4, <1>7, <2>3, <2>4 DEF OfferMade, Creator
<1>8. QED
  BY <1>6, <1>7

\* The row of a preference goes only when it is rolled back itself.
LEMMA PreferenceMadeKept ==
  ASSUME TypeOK, StageFits, PreferenceMade, NEW r \in Requests, Kind(r)
  PROVE  PreferenceMade'
<1> SUFFICES ASSUME NEW q \in Requests, req'[q].op = "preference",
                    req'[q].stage \in {"shares", "created"}
             PROVE  q \in table'.preference
  BY DEF PreferenceMade
<1>1. Others(r) /\ req[q].op = "preference" /\ "preference" \in Tables
  BY OnlyOne DEF Others, Tables
<1>2. ASSUME q \in table.preference
      PROVE  q \in table'.preference
  <2>1. SUFFICES ASSUME q \notin table'.preference PROVE FALSE
    OBVIOUS
  <2>2. q = r /\ req'[r].stage \in {"error", "undo_rest"}
    BY <1>1, <1>2, <2>1, Losses
  <2>3. QED
    BY <2>2
<1>3. CASE q # r
  BY <1>1, <1>2, <1>3 DEF Others, PreferenceMade
<1>4. CASE q = r
  <2>1. ~ (Forgets(r) \/ Arrives(r) \/ Passes(r) \/ Clears(r) \/ Orders(r) \/ Cancels(r) \/ Fails(r))
    BY <1>1, <1>4 DEF Forgets, Idle, Arrives, Passes, Clears, Orders, Cancels, Fails, StageFits
  <2>2. CASE Weighs(r)
    <3>1. req[r].stage = "shares"
      BY <1>1, <1>4, <2>2 DEF Weighs, StageFits
    <3>2. QED
      BY <1>1, <1>2, <1>4, <3>1 DEF PreferenceMade
  <2>3. CASE Inserts(r)
    BY <1>1, <1>4, <2>3 DEF Inserts, Row, StageFits
  <2>4. QED
    BY <2>1, <2>2, <2>3 DEF Kind
<1>5. QED
  BY <1>3, <1>4

\* A request that has ended takes no step.
LEMMA EndedRests ==
  ASSUME NEW r \in Requests, Kind(r)
  PROVE  req[r].stage \notin Ended
BY DEF Kind, Forgets, Arrives, Passes, Inserts, Row, Weighs, Clears, Orders, Cancels, Fails,
       Checking, Writing, Ended

\* A DELETE of an order that began is never unsaid.
LEMMA CancellingStays ==
  ASSUME StageFits, NEW r \in Requests, Kind(r), NEW q \in Requests, Settled(q), Cancelling(q)
  PROVE  Cancelling(q)'
<1>1. PICK d \in Requests : /\ req[d].op = "cancel" /\ req[d].client = req[q].client
                            /\ req[d].stage \in {"cancelled", "error"}
                            /\ req[d].picks = {} \/ q \in req[d].picks
  BY DEF Cancelling
<1>2. d # r
  BY <1>1, EndedRests DEF Ended
<1>3. req'[d] = req[d] /\ req'[q].client = req[q].client
  BY <1>2, OnlyOne, SettledStays DEF Others
<1>4. QED
  BY <1>1, <1>3 DEF Cancelling

\* The rows of an order go only when its client deletes it or a profile.
LEMMA OrderMadeKept ==
  ASSUME TypeOK, StageFits, HoldsFit, OwnProfile, OrdersCounted, OrderMade,
         NEW r \in Requests, Kind(r)
  PROVE  OrderMade'
<1> SUFFICES ASSUME NEW q \in Requests, req'[q].op = "order",
                    req'[q].stage \in {"order", "created"},
                    ~ ClientDeletes(req[q].client)', ~ Cancelling(q)'
             PROVE  /\ req'[q].stage = "order" => orders'[q] = req'[q].n
                    /\ req'[q].stage = "created" => orders'[q] = Quantity
  BY DEF OrderMade
<1>1. Others(r) /\ req[q].op = "order"
  BY OnlyOne DEF Others
<1>2. PICK c \in Clients : c = req'[q].client
  BY <1>1 DEF Others, Request
<1>3. ~ ClientDeletes(c) /\ ~ ClientDeletes(c)'
  BY <1>2, ClientDeletesStays DEF ClientDeletes, Client, Deleting
<1>4. CASE q # r
  <2>1. req'[q] = req[q]
    BY <1>1, <1>4 DEF Others
  <2>2. CASE orders'[q] = orders[q]
    <3>1. ~ Cancelling(q)
      BY <2>1, CancellingStays DEF Settled, Writing, Ended
    <3>2. QED
      BY <1>1, <1>2, <1>3, <2>1, <2>2, <3>1 DEF OrderMade
  <2>3. CASE orders'[q] # orders[q] /\ Cancels(r)
    <3>1. /\ req'[r].op = "cancel" /\ req'[r].stage \in {"cancelled", "error"}
          /\ req'[r].client = req'[q].client
          /\ req'[r].picks = {} \/ q \in req'[r].picks
      BY <1>1, <2>1, <2>3 DEF Cancels, Goes, Keeps, Others, StageFits
    <3>2. QED
      BY <3>1 DEF Cancelling
  <2>4. CASE orders'[q] # orders[q] /\ ~ Cancels(r)
    <3>1. Clears(r) /\ req[q].client = req[r].client
      BY <1>4, <2>4 DEF Kind, Forgets, Arrives, Passes, Inserts, Weighs, Clears, Cleared, Orders, Fails
    <3>2. ActsForProfile(r) /\ req[r].op = "delete" /\ req[r].stage = "delete"
      BY <3>1 DEF Clears, StageFits, ActsForProfile, Settled, Writing
    <3>3. PICK p \in Ids : p = req[r].at
      BY DEF TypeOK, Request
    <3>4. Client(p) = c /\ Deleting(p)
      BY <1>2, <2>1, <3>1, <3>2, <3>3 DEF OwnProfile, Deleting
    <3>5. QED
      BY <1>3, <3>4 DEF ClientDeletes
  <2>5. QED
    BY <2>2, <2>3, <2>4
<1>5. CASE q = r
  <2>1. ~ (Forgets(r) \/ Passes(r) \/ Clears(r) \/ Inserts(r) \/ Cancels(r) \/ Fails(r)
            \/ Weighs(r))
    BY <1>1, <1>5 DEF Forgets, Idle, Passes, Clears, Inserts, Row, Cancels, Fails, Weighs,
                      StageFits
  <2>2. CASE Arrives(r)
    <3>1. /\ req'[r].stage = "order" /\ req'[r].n = 0 /\ orders' = orders
          /\ ~ Settled(r)
      BY <1>1, <1>5, <2>2 DEF Arrives, Settled, Writing, Ended
    <3>2. QED
      BY <1>5, <3>1 DEF OrdersCounted
  <2>3. CASE Orders(r)
    <3>1. req'[r].client = req[r].client /\ req[r].stage = "order"
      BY <2>3 DEF Orders, Keeps
    <3>2. ~ Cancelling(r)
      BY <1>5, <3>1, CancellingStays DEF Settled, Writing
    <3>3. orders[r] = req[r].n
      BY <1>1, <1>2, <1>3, <1>5, <3>1, <3>2 DEF OrderMade
    <3>4. QED
      BY <1>5, <2>3, <3>1, <3>3 DEF Orders
  <2>4. QED
    BY <2>1, <2>2, <2>3 DEF Kind
<1>6. QED
  BY <1>4, <1>5

\* No deletion takes a picture.
LEMMA PicturesStayKept ==
  ASSUME TypeOK, StageFits, RowsSettled, PicturesStay, NEW r \in Requests, Kind(r)
  PROVE  PicturesStay'
<1>1. Others(r) /\ "bloq_image" \in Tables
  BY OnlyOne DEF Tables
<1>2. ASSUME NEW x \in table.bloq_image,
             x # r \/ req'[r].stage \notin {"error", "undo_rest"}
      PROVE  x \in table'.bloq_image
  BY <1>1, <1>2, Losses
<1>3. Known \subseteq table'.bloq_image
  BY <1>2, SceneAssumption DEF PicturesStay
<1>4. ASSUME NEW q \in Requests, req'[q].op = "bloq", req'[q].stage \in {"keywords", "created"}
      PROVE  q \in table'.bloq_image
  <2>1. req[q].op = "bloq"
    BY <1>1, <1>4 DEF Others
  <2>2. CASE q # r
    BY <1>1, <1>2, <1>4, <2>2 DEF Others, PicturesStay
  <2>3. CASE q = r
    <3>1. Inserts(r)
      BY <1>4, <2>1, <2>3 DEF Kind, Forgets, Idle, Arrives, Passes, Clears, Orders, Cancels, Fails,
                              Weighs, StageFits
    <3>2. \/ req[r].stage = "image" /\ r \in table'.bloq_image
          \/ req[r].stage = "keywords"
      BY <1>4, <2>1, <2>3, <3>1 DEF Inserts, Row, StageFits
    <3>3. QED
      BY <1>2, <1>4, <2>1, <2>3, <3>2 DEF PicturesStay
  <2>4. QED
    BY <2>2, <2>3
<1>5. ASSUME NEW q \in Requests, req'[q].stage = "look", NEW b \in req'[q].seen \ Known
      PROVE  b \in Requests /\ Settled(b)' /\ req'[b].op = "bloq"
  <2>1. SUFFICES b \in Requests /\ Settled(b) /\ req[b].op = "bloq"
    BY SettledStays
  <2>2. CASE q # r
    BY <1>1, <1>5, <2>2 DEF Others, PicturesStay
  <2>3. CASE q = r
    <3>1. Passes(r)
      BY <1>5, <2>3 DEF Kind, Forgets, Idle, Arrives, Inserts, Row, Clears, Orders, Cancels, Fails, Weighs
    <3>2. CASE req[r].stage = "look"
      BY <1>5, <2>3, <3>1, <3>2 DEF Passes, PicturesStay
    <3>3. CASE req[r].stage # "look"
      <4>1. b \in table.bloq /\ "bloq" \in Tables
        BY <1>5, <2>3, <3>1, <3>3 DEF Passes, Tables
      <4>2. QED
        BY <1>5, <4>1 DEF RowsSettled, Maker, TypeOK, Ids
    <3>4. QED
      BY <3>2, <3>3
  <2>4. QED
    BY <2>2, <2>3
<1>6. QED
  BY <1>3, <1>4, <1>5 DEF PicturesStay

\* To begin to write in the name of a profile, one finds its owner there.
LEMMA BeginsUnderWay ==
  ASSUME StageFits, NEW r \in Requests, Kind(r),
         req[r].op \in {"bloq", "offer"},
         req'[r].stage \in Writing \cup {"person", "items"}
  PROVE  /\ req'[r].at = req[r].at
         /\ req[r].stage \in Writing \cup {"person", "items"} \/ IsYours(r)
<1>1. Others(r)
  BY OnlyOne
<1>2. ~ (Forgets(r) \/ Arrives(r))
  BY <1>1 DEF Forgets, Idle, Arrives, Writing
<1>3. CASE Passes(r)
  BY <1>3 DEF Passes, StageFits, Writing
<1>4. CASE ~ Passes(r)
  BY <1>2, <1>4 DEF Kind, Inserts, Row, Weighs, Clears, Orders, Cancels, Fails, Goes, Keeps, Writing
<1>5. QED
  BY <1>3, <1>4

\* With the owner gone nobody begins to write in the name of a profile.
LEMMA LeftUnderWayKept ==
  ASSUME TypeOK, StageFits, HoldsFit, RowsSettled, OwnProfile, LeftUnderWay,
         NEW r \in Requests, Kind(r)
  PROVE  LeftUnderWay'
<1> SUFFICES ASSUME NEW q \in Requests, req'[q].stage \in {"delete", "deleted"},
                    req'[q].n >= 2
             PROVE  /\ req'[q].at \notin table'.credential_profiles
                    /\ \A x \in Requests \ req'[q].seen :
                         req'[x].op \in {"bloq", "offer"} /\ req'[x].at = req'[q].at =>
                           req'[x].stage \notin Writing \cup {"person", "items"}
                    /\ req'[q].n >= 5 =>
                         \A x \in table'.offers : Creator(x)' = req'[q].at => x \in req'[q].seen
                    /\ req'[q].n >= 6 =>
                         \A x \in table'.bloq : Creator(x)' = req'[q].at => x \in req'[q].seen
  BY DEF LeftUnderWay
<1>1. Others(r) /\ {"credential_profiles", "offers", "bloq"} \subseteq Tables
  BY OnlyOne DEF Tables
<1>2. ASSUME NEW x \in table.offers \cup table.bloq
      PROVE  Creator(x)' = Creator(x)
  <2>1. Fixed(x)
    BY <1>1 DEF RowsSettled, TypeOK, Ids, Fixed
  <2>2. QED
    BY <2>1, ColumnsStay
<1>3. CASE q # r
  <2>1. req'[q] = req[q]
    BY <1>1, <1>3 DEF Others
  <2>2. PICK p \in Ids : p = req[q].at
    BY DEF TypeOK, Request
  <2>3. p \in Known \/ OwnerWritten(p)
    <3>1. ActsForProfile(q)
      BY <2>1 DEF ActsForProfile, Settled, Writing, Ended, StageFits
    <3>2. QED
      BY <2>2, <3>1 DEF OwnProfile
  <2>4. p \notin table'.credential_profiles
    <3>1. SUFFICES ASSUME p \in table'.credential_profiles PROVE FALSE
      OBVIOUS
    <3>2. p \notin table.credential_profiles
      BY <2>1, <2>2 DEF LeftUnderWay
    <3>3. p = r /\ req[r].stage = "owner"
      BY <1>1, <3>1, <3>2, Gains
    <3>4. QED
      BY <2>3, <3>3, SceneAssumption DEF OwnerWritten
  <2>5. ASSUME NEW x \in Requests \ req[q].seen, req[x].op \in {"bloq", "offer"},
               req[x].at = p
        PROVE  req[x].stage \notin Writing \cup {"person", "items"}
    BY <2>1, <2>2, <2>5 DEF LeftUnderWay
  <2>6. ASSUME NEW x \in Requests \ req[q].seen, req'[x].op \in {"bloq", "offer"},
               req'[x].at = p
        PROVE  req'[x].stage \notin Writing \cup {"person", "items"}
    <3>1. CASE x # r
      BY <1>1, <2>5, <2>6, <3>1 DEF Others
    <3>2. CASE x = r
      <4>1. SUFFICES ASSUME req'[r].stage \in Writing \cup {"person", "items"} PROVE FALSE
        BY <3>2
      <4>2. /\ req[r].op \in {"bloq", "offer"} /\ req[r].at = p
            /\ req[r].stage \in Writing \cup {"person", "items"} \/ IsYours(r)
        BY <1>1, <2>6, <3>2, <4>1, BeginsUnderWay DEF Others
      <4>3. IsYours(r)
        BY <2>5, <2>6, <3>2, <4>2
      <4>4. QED
        BY <2>1, <2>2, <4>2, <4>3 DEF IsYours, LeftUnderWay
    <3>3. QED
      BY <3>1, <3>2
  <2>7. ASSUME NEW t \in {"offers", "bloq"}, NEW x \in table'[t], Creator(x)' = p,
               \A y \in table[t] : Creator(y) = p => y \in req[q].seen
        PROVE  x \in req[q].seen
    <3>1. CASE x \in table[t]
      BY <1>2, <2>7, <3>1
    <3>2. CASE x \notin table[t]
      <4>1. /\ x = r /\ Settled(r) /\ req[r].op \in {"bloq", "offer"}
            /\ req[r].stage \in Writing
        BY <1>1, <2>7, <3>2, Gains DEF Maker, Writing
      <4>2. req[r].at = p
        BY <2>7, <4>1, SettledStays, SceneAssumption DEF Creator
      <4>3. QED
        BY <2>5, <4>1, <4>2
    <3>3. QED
      BY <3>1, <3>2
  <2>8. /\ req[q].n >= 5 => \A y \in table.offers : Creator(y) = p => y \in req[q].seen
        /\ req[q].n >= 6 => \A y \in table.bloq : Creator(y) = p => y \in req[q].seen
    BY <2>1, <2>2 DEF LeftUnderWay
  <2>9. QED
    BY <2>1, <2>2, <2>4, <2>6, <2>7, <2>8
<1>4. CASE q = r
  <2>1. Clears(r) /\ req[r].stage = "delete" /\ req[r].op = "delete" /\ req[r].n \in 0..5
    <3>1. ~ (Forgets(r) \/ Arrives(r) \/ Inserts(r) \/ Weighs(r) \/ Orders(r) \/ Cancels(r) \/ Fails(r))
      BY <1>4 DEF Forgets, Idle, Arrives, Inserts, Row, Weighs, Orders, Cancels, Fails
    <3>2. ~ Passes(r)
      <4>1. SUFFICES ASSUME Passes(r) PROVE FALSE
        OBVIOUS
      <4>2. req[r].stage = "person" /\ req[r].op = "delete" /\ req'[r].n = req[r].n
        BY <1>4, <4>1 DEF Passes
      <4>3. req[r].n = 0
        BY <4>2 DEF HoldsFit, Settled, Writing, Ended
      <4>4. QED
        BY <1>4, <4>2, <4>3
    <3>3. QED
      BY <3>1, <3>2 DEF Kind, Clears, StageFits, HoldsFit
  <2>2. /\ req'[r].at = req[r].at /\ req'[r].n = req[r].n + 1
        /\ req'[r].seen = IF req'[r].n = 2 THEN UnderWay(req[r].at) ELSE req[r].seen
        /\ req'[r].n = 2 => req[r].at \notin table'.credential_profiles
        /\ req'[r].n = 5 => \A x \in table'.offers : Creator(x) # req[r].at
        /\ req'[r].n = 6 => \A x \in table'.bloq : Creator(x) # req[r].at
    BY <1>4, <2>1 DEF Clears, Keeps
  <2>3. \A t \in Tables : table'[t] \subseteq table[t]
    BY <2>1 DEF Clears, Cleared
  <2>4. \A x \in Requests : req'[x].op \in {"bloq", "offer"} => x # r /\ req'[x] = req[x]
    BY <1>1, <2>1 DEF Others
  <2>5. CASE req'[r].n = 2
    BY <1>4, <2>2, <2>4, <2>5 DEF UnderWay
  <2>6. CASE req'[r].n > 2
    <3>1. /\ req[r].n >= 2 /\ req'[r].seen = req[r].seen
          /\ req'[r].n >= 5 => req'[r].n = 5 \/ (req[r].n >= 5 /\ req'[r].n = 6)
      BY <2>1, <2>2, <2>6
    <3>2. /\ req[r].at \notin table.credential_profiles
          /\ \A x \in Requests \ req[r].seen :
               req[x].op \in {"bloq", "offer"} /\ req[x].at = req[r].at =>
                 req[x].stage \notin Writing \cup {"person", "items"}
          /\ req[r].n >= 5 =>
               \A x \in table.offers : Creator(x) = req[r].at => x \in req[r].seen
      BY <2>1, <3>1 DEF LeftUnderWay
    <3>3. req'[r].n >= 5 =>
            \A x \in table'.offers : Creator(x)' = req'[r].at => x \in req'[r].seen
      BY <1>1, <1>2, <2>2, <2>3, <3>1, <3>2
    <3>4. req'[r].n >= 6 =>
            \A x \in table'.bloq : Creator(x)' = req'[r].at => x \in req'[r].seen
      BY <1>1, <1>2, <2>1, <2>2, <2>3, <3>1
    <3>5. QED
      BY <1>1, <1>4, <2>2, <2>3, <2>4, <3>1, <3>2, <3>3, <3>4
  <2>7. QED
    BY <1>4, <2>1, <2>2, <2>5, <2>6
<1>5. QED
  BY <1>3, <1>4

\* The profiles behind a pair only become more, one at a time.
LEMMA BackersGrow ==
  ASSUME StageFits, Backed, NEW r \in Requests, Kind(r), NEW p \in Pairs
  PROVE  /\ IsFiniteSet(Backers(p)') /\ Cardinality(Backers(p)) \in Nat
         /\ Cardinality(Backers(p)') \in Nat
         /\ Cardinality(Backers(p)) <= Cardinality(Backers(p)')
         /\ r \in Backers(p)' => Cardinality(Backers(p)') = Cardinality(Backers(p)) + 1
<1>1. req[r].stage \notin Ended /\ Others(r)
  BY EndedRests, OnlyOne
<1>2. r \notin Backers(p)
  BY <1>1 DEF Backers, Answered, Ended
<1>3. IsFiniteSet(Backers(p))
  BY DEF Backed
<1>4. \A q \in Requests \ {r} : q \in Backers(p) <=> q \in Backers(p)'
  BY <1>1 DEF Backers, Others
<1>5. Backers(p) \subseteq Requests /\ Backers(p)' \subseteq Requests
  BY DEF Backers
<1>6. CASE r \in Backers(p)'
  <2>1. Backers(p)' = Backers(p) \cup {r}
    BY <1>2, <1>4, <1>5, <1>6
  <2>2. /\ IsFiniteSet(Backers(p) \cup {r})
        /\ Cardinality(Backers(p) \cup {r}) = Cardinality(Backers(p)) + 1
    BY <1>2, <1>3, FS_AddElement
  <2>3. Cardinality(Backers(p)) \in Nat
    BY <1>3, FS_CardinalityType
  <2>4. QED
    BY <2>1, <2>2, <2>3
<1>7. CASE r \notin Backers(p)'
  <2>1. Backers(p)' = Backers(p)
    BY <1>2, <1>4, <1>5, <1>7
  <2>2. Cardinality(Backers(p)) \in Nat
    BY <1>3, FS_CardinalityType
  <2>3. QED
    BY <1>3, <1>7, <2>1, <2>2
<1>8. QED
  BY <1>6, <1>7

\* A weight grows by a profile that is counted with it, from a weight that was backed.
LEMMA BackedKept ==
  ASSUME TypeOK, StageFits, HoldsFit, Backed, NEW r \in Requests, Kind(r),
         TypeOK', HoldsFit'
  PROVE  Backed'
<1> DEFINE C(p) == Cardinality(Backers(p))
<1>1. Others(r)
  BY OnlyOne
<1>2. ASSUME NEW p \in Pairs
      PROVE  /\ IsFiniteSet(Backers(p)') /\ C(p) \in Nat /\ C(p)' \in Nat /\ C(p) <= C(p)'
             /\ r \in Backers(p)' => C(p)' = C(p) + 1
             /\ weight[p] \in Int /\ weight[p] <= C(p)
  <2>1. weight[p] \in Int /\ weight[p] <= C(p)
    BY <1>2, LimitsAssumption DEF TypeOK, NoRow, Backed
  <2>2. QED
    BY <1>2, <2>1, BackersGrow
<1> HIDE DEF C
<1>3. ASSUME NEW p \in Pairs
      PROVE  weight'[p] <= C(p)'
  <2>1. CASE weight'[p] = weight[p]
    BY <1>2, <2>1
  <2>2. CASE weight'[p] # weight[p]
    <3>1. Weighs(r)
      BY <2>2 DEF Kind, Forgets, Arrives, Passes, Inserts, Clears, Orders, Cancels, Fails
    <3>2. CASE req[r].stage = "shares"
      BY <1>2, <2>2, <3>1, <3>2 DEF Weighs
    <3>3. CASE req[r].stage \in {"bump", "new_share"}
      <4>1. /\ req[r].picks \in Pairs /\ req[r].op = "profile"
            /\ req[r].stage = "bump" => req[r].n \in Nat
        BY <3>3 DEF HoldsFit, StageFits
      <4>2. /\ req'[r].stage \in {"created", "uncounted"}
            /\ req'[r].picks = req[r].picks /\ req'[r].op = "profile"
        BY <1>1, <3>1, <3>3, <4>1 DEF Weighs, Keeps, Others
      <4>3. /\ p = req[r].picks
            /\ weight'[p] = IF req[r].stage = "bump" THEN req[r].n + 1 ELSE 1
        BY <2>2, <3>1, <3>3, <4>1 DEF Weighs, TypeOK
      <4>4. C(p)' = C(p) + 1
        BY <1>2, <4>2, <4>3 DEF Backers, Answered
      <4>5. req[r].stage = "bump" => req[r].n <= C(p)
        BY <4>3 DEF Backed, C
      <4>6. QED
        BY <1>2, <4>1, <4>3, <4>4, <4>5
    <3>4. QED
      BY <2>2, <3>1, <3>2, <3>3 DEF Weighs
  <2>3. QED
    BY <2>1, <2>2
<1>4. ASSUME NEW q \in Requests, req'[q].stage = "bump", NEW p \in Pairs, p = req'[q].picks
      PROVE  req'[q].n <= C(p)'
  <2>1. CASE q # r
    <3>1. req[q].stage = "bump" /\ req'[q] = req[q]
      BY <1>1, <1>4, <2>1 DEF Others
    <3>2. req[q].n <= C(p) /\ req[q].n \in Nat
      BY <1>4, <3>1 DEF Backed, HoldsFit, C
    <3>3. QED
      BY <1>2, <1>4, <3>1, <3>2
  <2>2. CASE q = r
    <3>1. Weighs(r)
      BY <1>4, <2>2 DEF Kind, Forgets, Idle, Arrives, Passes, Inserts, Row, Clears, Orders, Cancels, Fails
    <3>2. req'[r].n = weight[p]
      BY <1>4, <2>2, <3>1 DEF Weighs, Keeps
    <3>3. QED
      BY <1>2, <1>4, <2>2, <3>2
  <2>3. QED
    BY <2>1, <2>2
<1>5. ASSUME NEW q \in Requests, req'[q].stage = "bump"
      PROVE  req'[q].n <= Cardinality(Backers(req[q].picks))'
  <2>1. PICK p \in Pairs : p = req'[q].picks
    BY <1>5 DEF HoldsFit
  <2>2. req'[q].n <= Cardinality(Backers(p))'
    BY <1>4, <1>5, <2>1 DEF C
  <2>3. Backers(p)' = Backers(req[q].picks)'
    BY <2>1 DEF Backers
  <2>4. QED
    BY <2>2, <2>3
<1>6. \A p \in Pairs : IsFiniteSet(Backers(p)') /\ weight'[p] <= Cardinality(Backers(p))'
  BY <1>2, <1>3 DEF C
<1>7. QED
  BY <1>5, <1>6 DEF Backed

\* A settled pair's weight, once written, is one at least.
LEMMA TracedKept ==
  ASSUME TypeOK, StageFits, HoldsFit, Traced, NEW r \in Requests, Kind(r)
  PROVE  Traced'
<1>1. Others(r)
  BY OnlyOne
<1>2. \A p \in Pairs : weight[p] = NoRow \/ weight[p] \in Nat
  BY LimitsAssumption DEF TypeOK
<1>3. ASSUME NEW p \in Pairs, p \subseteq Known
      PROVE  weight'[p] = weight[p] \/ weight'[p] \in Nat \ {0}
  <2>1. CASE Weighs(r)
    <3>1. /\ req[r].stage = "bump" => req[r].n \in Nat
          /\ req[r].stage \in {"bump", "new_share"} => req[r].picks \in Pairs
      BY DEF HoldsFit
    <3>2. QED
      BY <1>3, <2>1, <3>1 DEF Weighs, TypeOK
  <2>2. CASE ~ Weighs(r)
    BY <2>2 DEF Kind, Forgets, Arrives, Passes, Inserts, Clears, Orders, Cancels, Fails
  <2>3. QED
    BY <2>1, <2>2
<1>4. ASSUME NEW q \in Requests, req'[q].stage = "new_share", req'[q].picks \in Pairs,
             req'[q].picks \subseteq Known
      PROVE  weight'[req'[q].picks] # 0
  <2>1. weight[req'[q].picks] # 0
    <3>1. CASE q # r
      BY <1>1, <1>4, <3>1 DEF Others, Traced
    <3>2. CASE q = r
      <4>1. Weighs(r)
        BY <1>4, <3>2 DEF Kind, Forgets, Idle, Arrives, Passes, Inserts, Row, Clears, Orders, Cancels, Fails
      <4>2. QED
        BY <1>4, <3>2, <4>1 DEF Weighs, Keeps, NoRow
    <3>3. QED
      BY <3>1, <3>2
  <2>2. QED
    BY <1>3, <1>4, <2>1
<1>5. ASSUME NEW q \in Requests, req'[q].op = "profile", req'[q].stage = "created",
             req'[q].picks \in Pairs, req'[q].picks \subseteq Known
      PROVE  weight'[req'[q].picks] > 0
  <2>1. CASE q # r \/ req[r].stage = "created"
    <3>1. q # r
      BY <2>1, EndedRests DEF Ended
    <3>2. req'[q] = req[q]
      BY <1>1, <3>1 DEF Others
    <3>3. weight[req[q].picks] > 0
      BY <1>5, <3>2 DEF Traced, LikesLeaveTrace
    <3>4. QED
      BY <1>2, <1>3, <1>5, <3>2, <3>3
  <2>2. CASE q = r
    <3>1. req[r].op = "profile" /\ req'[r].picks \in Pairs
      BY <1>1, <1>5, <2>2 DEF Others
    <3>2. ~ Inserts(r)
      <4>1. {} \notin Pairs
        BY FS_EmptySet DEF Pairs
      <4>2. QED
        BY <1>5, <2>2, <3>1, <4>1 DEF Inserts, Row, Goes, Keeps, StageFits
    <3>3. Weighs(r)
      BY <1>5, <2>2, <3>1, <3>2 DEF Kind, Forgets, Idle, Arrives, Passes, Clears, Orders, Cancels, Fails,
                                    StageFits
    <3>4. req[r].picks = req'[r].picks /\ req[r].stage \in {"bump", "new_share"}
      BY <1>5, <2>2, <3>1, <3>3 DEF Weighs, Keeps, StageFits
    <3>5. CASE req[r].stage = "bump"
      BY <1>5, <2>2, <3>3, <3>4, <3>5 DEF Weighs, HoldsFit, TypeOK
    <3>6. CASE req[r].stage = "new_share"
      <4>1. weight[req[r].picks] # 0
        BY <1>5, <2>2, <3>4, <3>6 DEF Traced
      <4>2. QED
        BY <1>2, <1>5, <2>2, <3>3, <3>4, <3>6, <4>1 DEF Weighs, TypeOK
    <3>7. QED
      BY <3>4, <3>5, <3>6
  <2>3. QED
    BY <2>1, <2>2
<1>6. \A q \in Requests : req'[q].stage = "new_share" => req'[q].picks \in Pairs
  <2>1. \A q \in Requests \ {r} : req'[q] = req[q]
    BY <1>1 DEF Others
  <2>2. req'[r].stage = "new_share" => req[r].stage = "share" /\ req'[r].picks = req[r].picks
    BY DEF Kind, Forgets, Idle, Arrives, Passes, Inserts, Row, Clears, Orders, Cancels, Fails, Weighs, Keeps
  <2>3. QED
    BY <2>1, <2>2 DEF HoldsFit
<1>7. LikesLeaveTrace'
  BY <1>5 DEF LikesLeaveTrace
<1>8. QED
  BY <1>4, <1>6, <1>7 DEF Traced

-----------------------------------------------------------------------------
(***************************************************************************)
(* The invariant.                                                          *)
(***************************************************************************)

\* The invariant holds at first.
LEMMA InitInv ==
  ASSUME Init
  PROVE  IInv
<1>1. PICK ops \in Scenes : req = [r \in Requests |-> Idle(r, ops[r])]
  BY DEF Init
<1>2. \A r \in Requests : /\ ops[r] \in Ops /\ Idle(r, ops[r]) \in Request
                          /\ req[r] = Idle(r, ops[r])
  BY <1>1, SceneAssumption DEF Idle, Request, Ids
<1>3. \A r \in Requests : /\ req[r].stage = "idle" /\ req[r].n = 0
                          /\ ~ Settled(r) /\ ~ ActsForProfile(r)
  <2>1. ASSUME NEW r \in Requests PROVE req[r].stage = "idle" /\ req[r].n = 0
    <3>1. req[r] = Idle(r, ops[r])
      BY <1>2
    <3>2. QED
      BY <3>1 DEF Idle
  <2>2. QED
    BY <2>1 DEF Settled, ActsForProfile, Writing, Ended
<1>4. table \in [Tables -> {{}, Known}]
  BY DEF Init
<1>5. TypeOK
  <2>1. req \in [Requests -> Request]
    BY <1>1, <1>2
  <2>2. orders \in [Requests -> 0..Quantity]
    BY LimitsAssumption DEF Init
  <2>3. weight \in [Pairs -> {NoRow} \cup 0..MaxWeight]
    BY LimitsAssumption DEF Init
  <2>4. table \in [Tables -> SUBSET Ids]
    BY <1>4 DEF Ids
  <2>5. QED
    BY <2>1, <2>2, <2>3, <2>4 DEF TypeOK
<1>6. StageFits
  BY <1>3 DEF StageFits
<1>7. HoldsFit
  BY <1>3 DEF HoldsFit
<1>8. RowsSettled
  <2>1. \A t \in Tables : table[t] \subseteq Known
    BY <1>4
  <2>2. /\ table.offers = {} /\ table.offersItems = {}
        /\ "credential_profiles" \in Tables
    BY DEF Init, Tables
  <2>3. QED
    BY <2>1, <2>2 DEF RowsSettled
<1>9. OrdersCounted
  BY <1>3 DEF OrdersCounted, Init
<1>10. OwnProfile /\ ItemsChecked
  BY <1>3 DEF OwnProfile, ItemsChecked
<1>11. ProfileMade /\ BloqMade /\ OfferMade /\ PreferenceMade /\ OrderMade
  BY <1>3 DEF ProfileMade, BloqMade, OfferMade, PreferenceMade, OrderMade, Answered
<1>12. PicturesStay
  <2>1. table.bloq_image = Known
    BY DEF Init, Tables
  <2>2. QED
    BY <1>3, <2>1 DEF PicturesStay
<1>13. LeftUnderWay
  BY <1>3 DEF LeftUnderWay
<1>14. Backed
  <2>1. \A p \in Pairs : Backers(p) = {}
    BY <1>3 DEF Backers, Answered
  <2>2. \A p \in Pairs : weight[p] <= 0
    BY DEF Init, NoRow
  <2>3. QED
    BY <1>3, <2>1, <2>2, FS_EmptySet DEF Backed
<1>15. Traced
  BY <1>3 DEF Traced, LikesLeaveTrace
<1>16. QED
  BY <1>5, <1>6, <1>7, <1>8, <1>9, <1>10, <1>11, <1>12, <1>13, <1>14, <1>15 DEF IInv

\* Every step keeps it.
LEMMA NextInv ==
  ASSUME IInv, [Next]_vars
  PROVE  IInv'
<1>1. CASE Next
  <2>1. PICK r \in Requests : Kind(r)
    BY <1>1, Kinds
  <2>2. /\ TypeOK /\ StageFits /\ HoldsFit
        /\ RowsSettled /\ OrdersCounted /\ OwnProfile /\ ItemsChecked
        /\ ProfileMade /\ BloqMade /\ OfferMade /\ PreferenceMade /\ OrderMade
        /\ PicturesStay /\ LeftUnderWay /\ Backed /\ Traced
    BY DEF IInv
  <2>3. TypeOK' /\ StageFits' /\ HoldsFit'
    BY <2>1, <2>2, TypeKept, StageFitsKept, HoldsFitKept
  <2>4. table' \in [Tables -> SUBSET Ids]
    BY <2>3 DEF TypeOK
  <2>5. RowsSettled' /\ OrdersCounted' /\ OwnProfile' /\ ItemsChecked'
    BY <2>1, <2>2, <2>4, RowsSettledKept, OrdersCountedKept, OwnProfileKept, ItemsCheckedKept
  <2>6. ProfileMade' /\ BloqMade' /\ OfferMade' /\ PreferenceMade' /\ OrderMade'
    BY <2>1, <2>2, ProfileMadeKept, BloqMadeKept, OfferMadeKept, PreferenceMadeKept, OrderMadeKept
  <2>7. PicturesStay' /\ LeftUnderWay' /\ Backed' /\ Traced'
    BY <2>1, <2>2, <2>3, PicturesStayKept, LeftUnderWayKept, BackedKept, TracedKept
  <2>8. QED
    BY <2>3, <2>5, <2>6, <2>7 DEF IInv
<1>2. CASE UNCHANGED vars
  <2>1. table' = table /\ orders' = orders /\ weight' = weight /\ req' = req
    BY <1>2 DEF vars
  <2>2. TypeOK' /\ StageFits' /\ HoldsFit' /\ RowsSettled' /\ OrdersCounted'
    BY <2>1 DEF IInv, TypeOK, StageFits, HoldsFit, RowsSettled, OrdersCounted, Settled,
                OwnerWritten
  <2>3. OwnProfile' /\ ItemsChecked' /\ LeftUnderWay' /\ PicturesStay'
    BY <2>1 DEF IInv, OwnProfile, ItemsChecked, LeftUnderWay, PicturesStay, Settled,
                OwnerWritten, ActsForProfile, Client, Creator
  <2>4. ProfileMade' /\ BloqMade' /\ OfferMade' /\ PreferenceMade'
    BY <2>1 DEF IInv, ProfileMade, BloqMade, OfferMade, PreferenceMade, Deleting
  <2>5. OrderMade'
    <3>1. \A c \in Clients : ClientDeletes(c)' <=> ClientDeletes(c)
      BY <2>1 DEF ClientDeletes, Deleting, Client
    <3>2. \A q \in Requests : Cancelling(q)' <=> Cancelling(q)
      BY <2>1 DEF Cancelling
    <3>3. \A q \in Requests : req[q].client \in Clients /\ req'[q] = req[q]
      BY <2>1 DEF IInv, TypeOK, Request
    <3>4. QED
      BY <2>1, <3>1, <3>2, <3>3 DEF IInv, OrderMade
  <2>6. Backed' /\ Traced'
    BY <2>1 DEF IInv, Backed, Traced, LikesLeaveTrace, Backers
  <2>7. QED
    BY <2>2, <2>3, <2>4, <2>5, <2>6 DEF IInv
<1>3. QED
  BY <1>1, <1>2

-----------------------------------------------------------------------------
(***************************************************************************)
(* What follows from the invariant.                                        *)
(***************************************************************************)

\* What was answered 201 is there with all its rows, unless its profile is deleted, or for
\* an order it is deleted by its client, as DELETE /order does, or with one of its client's
\* profiles.
LEMMA CreatedThingsStayInv ==
  ASSUME IInv
  PROVE  CreatedStays
<1> SUFFICES ASSUME NEW r \in Requests, req[r].stage \in Answered
             PROVE
  CASE req[r].op = "profile" ->
         Deleting(r) \/ /\ r \in table.profile \cap table.credential_profiles
                        /\ req[r].picks = {} \/ r \in table.profile_likes
    [] req[r].op = "bloq" ->
         Deleting(req[r].at) \/ /\ r \in table.bloq \cap table.bloq_image
                                /\ req[r].n = 0 \/ r \in table.bloq_keywords
    [] req[r].op = "offer" ->
         Deleting(req[r].at) \/ r \in table.offers \cap table.offersItems
    [] req[r].op = "preference" -> r \in table.preference
    [] OTHER -> \/ ClientDeletes(req[r].client) \/ Cancelling(r)
                \/ orders[r] = Quantity
  BY DEF CreatedStays
<1>1. CASE req[r].op = "profile"
  BY <1>1 DEF IInv, ProfileMade, Answered
<1>2. CASE req[r].op # "profile"
  <2>1. req[r].stage = "created" /\ req[r].op \in {"bloq", "offer", "order", "preference"}
    BY <1>2 DEF IInv, StageFits, Answered
  <2>2. CASE req[r].op = "bloq"
    BY <2>1, <2>2 DEF IInv, BloqMade, PicturesStay
  <2>3. CASE req[r].op = "offer"
    BY <2>1, <2>3 DEF IInv, OfferMade
  <2>4. CASE req[r].op = "preference"
    BY <2>1, <2>4 DEF IInv, PreferenceMade
  <2>5. CASE req[r].op = "order"
    BY <2>1, <2>5 DEF IInv, OrderMade
  <2>6. QED
    BY <2>1, <2>2, <2>3, <2>4, <2>5
<1>3. QED
  BY <1>1, <1>2

\* A bloq or an offer names a profile that its client made.
LEMMA OwnNamesInv ==
  ASSUME IInv
  PROVE  InOnesOwnName
<1> SUFFICES ASSUME NEW x \in (table.bloq \cup table.offers) \ Known
             PROVE  /\ req[x].at \in Known \/ req[req[x].at].op = "profile"
                    /\ Client(req[x].at) = req[x].client
  BY DEF InOnesOwnName
<1>1. x \in Requests /\ Settled(x) /\ req[x].op \in {"bloq", "offer"}
  BY DEF IInv, RowsSettled, Maker, TypeOK, Tables, Ids
<1>2. QED
  BY <1>1 DEF IInv, OwnProfile, ActsForProfile, OwnerWritten

\* The items of an offer that exist are bloqs of the profile that offers them.
LEMMA ItemsAreOwnInv ==
  ASSUME IInv
  PROVE  OffersOwnBloqs
<1> SUFFICES ASSUME NEW o \in table.offersItems, NEW b \in req[o].picks \cap table.bloq
             PROVE  Creator(b) = req[o].at
  BY DEF OffersOwnBloqs
<1>1. /\ o \in Requests /\ Settled(o) /\ req[o].op = "offer"
  BY DEF IInv, RowsSettled, Maker, TypeOK, Tables, Ids
<1>2. req[o].seen = {} /\ req[o].stage # "person" /\ ActsForProfile(o)
  BY <1>1 DEF IInv, HoldsFit, ActsForProfile, Settled, Writing, Ended
<1>3. QED
  BY <1>1, <1>2 DEF IInv, ItemsChecked

\* A list lacks the picture only of a bloq under way or that failed.
LEMMA ListsHavePicturesInv ==
  ASSUME IInv
  PROVE  ListNeedsPictures
<1> SUFFICES ASSUME NEW r \in Requests, req[r].stage = "look",
                    NEW b \in req[r].seen \ table.bloq_image
             PROVE  b \in Requests /\ req[b].stage \in Writing \cup {"error"}
  BY DEF ListNeedsPictures
<1>1. b \in Requests /\ Settled(b) /\ req[b].op = "bloq"
  BY DEF IInv, PicturesStay
<1>2. req[b].stage \notin {"created", "uncounted", "deleted", "cancelled"}
  BY <1>1 DEF IInv, PicturesStay, StageFits
<1>3. QED
  BY <1>1, <1>2 DEF Settled, Ended

\* What is left in the name of a deleted profile was under way when it lost its owner.
LEMMA DeletedProfilesAreGoneInv ==
  ASSUME IInv
  PROVE  DeletedIsGone
<1> SUFFICES ASSUME NEW r \in Requests, req[r].stage = "deleted",
                    NEW x \in table.bloq \cup table.offers, Creator(x) = req[r].at
             PROVE  x \in req[r].seen
  BY DEF DeletedIsGone
<1>1. req[r].n = 6
  BY DEF IInv, HoldsFit
<1>2. QED
  BY <1>1 DEF IInv, LeftUnderWay

\* A share never weighs more than the profiles answered 201 with the likes of the pair,
\* those deleted since among them.
LEMMA WeightsAreBackedInv ==
  ASSUME IInv
  PROVE  WeightBacked
BY DEF IInv, Backed, Backers, WeightBacked

-----------------------------------------------------------------------------
(***************************************************************************)
(* The theorems.                                                           *)
(***************************************************************************)

\* The inductive invariant holds in every state.
THEOREM Invariance == Spec => []IInv
BY InitInv, NextInv, PTL DEF Spec

\* Every variable has its type, and no share weighs more than its column holds.
THEOREM TypeCorrect == Spec => []TypeOK
BY Invariance, PTL DEF IInv

\* What was answered 201 is there with all its rows, unless its profile is deleted, or for
\* an order it is deleted by its client, as DELETE /order does, or with one of its client's
\* profiles.
THEOREM CreatedThingsStay == Spec => []CreatedStays
BY CreatedThingsStayInv, Invariance, PTL

\* A bloq or an offer names a profile that its client made.
THEOREM OwnNames == Spec => []InOnesOwnName
BY OwnNamesInv, Invariance, PTL

\* The items of an offer that exist are bloqs of the profile that offers them.
THEOREM ItemsAreOwn == Spec => []OffersOwnBloqs
BY ItemsAreOwnInv, Invariance, PTL

\* A list lacks the picture only of a bloq under way or that failed.
THEOREM ListsHavePictures == Spec => []ListNeedsPictures
BY ListsHavePicturesInv, Invariance, PTL

\* What is left in the name of a deleted profile was under way when it lost its owner.
THEOREM DeletedProfilesAreGone == Spec => []DeletedIsGone
BY DeletedProfilesAreGoneInv, Invariance, PTL

\* A share never weighs more than the profiles answered 201 with the likes of the pair,
\* those deleted since among them.
THEOREM WeightsAreBacked == Spec => []WeightBacked
BY WeightsAreBackedInv, Invariance, PTL

\* Lost updates of the share of two settled preferences never lose all.
THEOREM LikesAreTraced == Spec => []LikesLeaveTrace
BY Invariance, PTL DEF IInv, Traced
=============================================================================
