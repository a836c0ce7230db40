---------------------------- MODULE Marketplace -----------------------------
(***************************************************************************)
(* The marketplace behind /preference, /profile, /bloq, /offer and /order  *)
(* (internal/models): handlers over tables, with hand-written roll-backs   *)
(* and checks instead of transactions and foreign keys.                    *)
(*                                                                         *)
(* Each SELECT, INSERT, UPDATE and DELETE is a step.  An INSERT or DELETE  *)
(* that returns an error may have taken effect.  A client that goes away   *)
(* takes the context with it, and every later statement of the request,    *)
(* roll-backs included, fails.                                             *)
(*                                                                         *)
(* A request makes at most one thing, so the identifier of a thing, never  *)
(* given twice, is the request that makes it; its columns are then those   *)
(* the request names.  A request that ends without having changed anything *)
(* is forgotten, and another may come in its place.                        *)
(***************************************************************************)
EXTENDS Integers, FiniteSets, Sequences

CONSTANTS
  Requests,
  Clients,
  Founder,      \* the client whose profiles and bloqs are there before
  Known,        \* what is there before: profiles, preferences, and of each
                \* profile a bloq
  MaxProfiles,  \* "REST", "profiles", "max"
  MaxWeight,    \* the greatest weight a share can have
  Quantity,     \* how many times an order orders its offer
  Scenes        \* what the requests ask for

VARIABLES
  table,   \* the identifiers in each table, or those its rows belong to
  orders,  \* the table order: how many rows of each request
  weight,  \* the table shares: the weight of a pair of preferences
  req      \* the state of each request

vars == <<table, orders, weight, req>>

Ids == Known \cup Requests

\* preference1_id < preference2_id: a pair has no direction.
Pairs == {p \in SUBSET Ids : Cardinality(p) = 2}
NoRow == -1

Tables == {"profile", "credential_profiles", "profile_likes",
           "bloq", "bloq_image", "bloq_keywords",
           "offers", "offersItems", "preference"}

\* "delete" deletes a profile and "cancel" orders; "browse" lists the bloqs,
\* "makes_offer" those of one profile of the client; "none" stands for no request.
Ops == {"profile", "delete", "bloq", "browse", "makes_offer", "offer", "order",
        "cancel", "preference", "none"}

ASSUME SceneAssumption ==
  /\ Known \cap Requests = {}
  /\ Founder \in Clients
  /\ Scenes \subseteq [Requests -> Ops]

ASSUME LimitsAssumption == MaxWeight \in Nat \ {0} /\ Quantity \in Nat

Checking == {"limit", "category", "yours", "person", "items", "known", "list", "look"}
Writing ==
  {"undo", "undo_all", "undo_rest",
   "profile", "owner", "likes", "share", "bump", "new_share", "delete", "bloq",
    "image", "keywords", "offer", "offer_items", "order", "cancel", "preference", "shares"}

\* How a request that changed something ends: answered 201, perhaps with a share
\* that could not be written; a profile deleted, or orders; with an error, or
\* without its client.
Ended == {"created", "uncounted", "deleted", "cancelled", "error"}

\* at     the profile that the request deletes, or in whose name it acts
\* picks  the likes, the items, (until it is checked) the category or the order
\*        it names
\* seen   the preferences found, the items to check, the bloqs to show; of a delete
\*        (history), the requests under way for the profile when it lost its owner
\* n      the weight read; the deletes done; the rows of an order; has keywords
Request == [op: Ops, stage: {"idle"} \cup Checking \cup Writing \cup Ended,
            client: Clients, at: Ids, picks: SUBSET Ids, seen: SUBSET Ids, n: Int]

Answered == {"created", "uncounted"}

\* The columns credential_id of credential_profiles and customer of order.
Client(x) == IF x \in Known THEN Founder ELSE req[x].client

\* The columns creator of bloq and offeredBy of offers.
Creator(x) == IF x \in Known THEN x ELSE req[x].at

Idle(r, op) == [op |-> op, stage |-> "idle", client |-> Founder,
                at |-> r, picks |-> {}, seen |-> {}, n |-> 0]

-----------------------------------------------------------------------------

Init ==
  /\ table = [t \in Tables |->
                IF t \in {"offers", "offersItems", "profile_likes", "bloq_keywords"}
                  THEN {} ELSE Known]
  /\ orders = [r \in Requests |-> 0]
  /\ weight \in [Pairs -> {NoRow, 0}]
  /\ \A p \in Pairs : ~ p \subseteq Known => weight[p] = NoRow
  /\ \E ops \in Scenes : req = [r \in Requests |-> Idle(r, ops[r])]

Step(r, to) == req' = [req EXCEPT ![r].stage = to]

\* Refused, or answered after nothing but SELECTs.
Forget(r) == req' = [req EXCEPT ![r] = Idle(r, req[r].op)]

With(t, ids) == [table EXCEPT ![t] = @ \cup ids]
Without(t, ids) == [table EXCEPT ![t] = @ \ ids]

\* An INSERT of the row, or rows, of r.
Insert(r, from, t, ok, bad) ==
  /\ req[r].stage = from
  /\ \/ Step(r, ok) /\ table' = With(t, {r})
     \/ Step(r, bad) /\ table' \in {table, With(t, {r})}
  /\ UNCHANGED <<orders, weight>>

\* A SELECT on which the request goes on if the condition holds.
Check(r, from, condition, to) ==
  /\ req[r].stage = from
  /\ (condition /\ Step(r, to)) \/ Forget(r)
  /\ UNCHANGED <<table, orders, weight>>

(***************************************************************************)
(* A request arrives, its form and token are accepted.                     *)
(***************************************************************************)

Begin(r, stage, client, at, picks, n) ==
  /\ req' = [req EXCEPT ![r] =
       [op |-> req[r].op, stage |-> stage, client |-> client,
        at |-> at, picks |-> picks, seen |-> {}, n |-> n]]
  /\ UNCHANGED <<table, orders, weight>>

\* Bound: a request names things that are there or may come, and two likes or items
\* at most.
Named(op) == Known \cup {q \in Requests : req[q].op = op}
AFew(op) == {few \in Pairs \cup {{i} : i \in Ids} : few \subseteq Named(op)}

Arrive(r) ==
  /\ req[r].stage = "idle"
  /\ \E c \in Clients :
       \/ /\ req[r].op = "profile"
          /\ \E likes \in {{}} \cup (Pairs \cap AFew("preference")) :
               Begin(r, "limit", c, r, likes, 0)
       \/ /\ req[r].op \in {"delete", "makes_offer"}
          /\ \E p \in Named("profile") : Begin(r, "yours", c, p, {}, 0)
       \/ /\ req[r].op = "bloq"
          /\ \E p \in Named("profile"), k \in Named("preference"), n \in {0, 1} :
               Begin(r, "category", c, p, {k}, n)
       \/ /\ req[r].op = "offer"
          /\ \E p \in Named("profile"), items \in AFew("bloq") :
               Begin(r, "yours", c, p, items, 0)
       \/ req[r].op = "order" /\ Begin(r, "order", c, r, {}, 0)
       \/ /\ req[r].op = "cancel"
          /\ \E some \in {{}} \cup {{q} : q \in {q \in Requests : req[q].op = "order"}} :
               Begin(r, "cancel", c, r, some, 0)
       \/ req[r].op = "preference" /\ Begin(r, "known", Founder, r, {}, 0)
       \/ req[r].op = "browse" /\ Begin(r, "list", Founder, r, {}, 0)

(***************************************************************************)
(* YourProfile, before a profile is deleted or named.                      *)
(***************************************************************************)

\* Mutant: any profile that has an owner will do.
IsYoursOrAnothers(r) == req[r].at \in table.credential_profiles

IsYours(r) ==
  /\ req[r].at \in table.credential_profiles
  /\ Client(req[r].at) = req[r].client

\* The first of no rows is asked for: a panic, which the HTTP server recovers.
Yours(r) == Check(r, "yours", IsYours(r), "person")

\* The row of the profile is read; that there is none is an error only to
\* personMakesOffer.  The level of the profile, which may be raised here, is not
\* modelled.
Person(r) ==
  /\ req[r].stage = "person"
  /\ \/ /\ req[r].op = "makes_offer" => req[r].at \in table.profile
        /\ req' = [req EXCEPT
             ![r].seen = req[r].picks,
             ![r].stage = CASE req[r].op = "offer" -> "items"
                            [] req[r].op = "makes_offer" -> "list"
                            [] OTHER -> req[r].op]
     \/ Forget(r)
  /\ UNCHANGED <<table, orders, weight>>

(***************************************************************************)
(* Profile.Create.                                                         *)
(***************************************************************************)

\* The SELECT names no column, and the adapter then returns no row.
Limit(r) == Check(r, "limit", 0 < MaxProfiles, "profile")

NewProfile(r) == Insert(r, "profile", "profile", "owner", "error")

NewOwner(r) ==
  Insert(r, "owner", "credential_profiles",
         IF req[r].picks = {} THEN "created" ELSE "likes", "undo")

\* Likes that repeat a preference are refused as well.
NewLikes(r) ==
  Insert(r, "likes", "profile_likes",
         IF req[r].picks \in Pairs THEN "share" ELSE "created", "undo_all")

\* The weight of the pair is read.  On an error the pair is skipped; a like that is
\* a number to MySQL and not to Go ends the request here.
Share(r) ==
  /\ req[r].stage = "share"
  /\ LET w == weight[req[r].picks] IN
       \/ w # NoRow /\ req' = [req EXCEPT ![r].stage = "bump", ![r].n = w]
       \/ w = NoRow /\ Step(r, "new_share")
       \/ Step(r, "uncounted") \/ Step(r, "error")
  /\ UNCHANGED <<table, orders, weight>>

\* Mutant: the weight goes past what the column holds.
BumpUnlimited(r) ==
  /\ req[r].stage = "bump"
  /\ weight' = [weight EXCEPT ![req[r].picks] = req[r].n + 1]
  /\ Step(r, "created")
  /\ UNCHANGED <<table, orders>>

\* Mutant: the weight is written as it was read.
BumpForgotten(r) ==
  /\ req[r].stage = "bump"
  /\ weight' = [weight EXCEPT ![req[r].picks] = req[r].n]
  /\ Step(r, "created")
  /\ UNCHANGED <<table, orders>>

\* The UPDATE sets the weight read plus one; its error is ignored.
Bump(r) ==
  /\ req[r].stage = "bump"
  /\ LET heavier == [weight EXCEPT ![req[r].picks] = req[r].n + 1] IN
       \/ /\ req[r].n < MaxWeight
          /\ weight' = heavier /\ Step(r, "created")
       \/ /\ weight' \in {weight} \cup {w \in {heavier} : req[r].n < MaxWeight}
          /\ Step(r, "uncounted")
  /\ UNCHANGED <<table, orders>>

\* UNIQUE refuses a second row of the pair; that error is ignored too.
NewShare(r) ==
  /\ req[r].stage = "new_share"
  /\ LET new == IF weight[req[r].picks] = NoRow
                  THEN [weight EXCEPT ![req[r].picks] = 1] ELSE weight
     IN \/ weight' = new /\ Step(r, "created")
        \/ weight' \in {weight, new} /\ Step(r, "uncounted")
  /\ UNCHANGED <<table, orders>>

(***************************************************************************)
(* Profile.Delete.                                                         *)
(***************************************************************************)

\* Mutant: the pictures go with the bloqs.
DoomedPictures ==
  <<"profile", "credential_profiles", "profile_likes", "order", "offers",
    "bloq_image", "bloq">>

\* Mutant: the owner goes last.
DoomedOwnerLast ==
  <<"profile", "profile_likes", "order", "offers", "bloq", "credential_profiles">>

\* The tables in the order of their DELETEs.  Four more are never written to:
\* languages, follows (twice) and reviews.
Doomed ==
  <<"profile", "credential_profiles", "profile_likes", "order", "offers", "bloq">>

\* Mutant: the deletes go by the client that owns the profile.
OfProfileOfClient(t, p) ==
  IF t \in {"profile", "credential_profiles", "profile_likes"}
    THEN {x \in table[t] : Client(x) = Client(p)}
    ELSE {x \in table[t] : Client(Creator(x)) = Client(p)}

OfProfile(t, p) ==
  IF t \in {"profile", "credential_profiles", "profile_likes"} THEN {p}
  ELSE {x \in table[t] : Creator(x) = p}

\* All orders of the client, whichever of its profiles it deletes.
Cascade(r, t) ==
  IF t = "order"
    THEN /\ orders' = [q \in Requests |->
                         IF req[q].client = req[r].client THEN 0 ELSE orders[q]]
         /\ UNCHANGED table
    ELSE table' = Without(t, OfProfile(t, req[r].at)) /\ UNCHANGED orders

UnderWay(p) ==
  {q \in Requests : /\ req[q].op \in {"bloq", "offer"} /\ req[q].at = p
                    /\ req[q].stage \in Writing \cup {"person", "items"}}

Delete(r) ==
  /\ req[r].stage = "delete"
  /\ LET n == req[r].n + 1 IN
       \/ /\ Cascade(r, Doomed[n])
          /\ req' = [req EXCEPT
               ![r].n = n,
               ![r].stage = IF n = Len(Doomed) THEN "deleted" ELSE "delete",
               ![r].seen = IF Doomed[n] = "credential_profiles"
                             THEN UnderWay(req[r].at) ELSE @]
       \/ /\ Cascade(r, Doomed[n]) \/ UNCHANGED <<table, orders>>
          /\ Step(r, "error")
  /\ UNCHANGED weight

(***************************************************************************)
(* Bloq.Create, Bloq.Read and personMakesOffer.                            *)
(***************************************************************************)

Category(r) ==
  /\ req[r].stage = "category"
  /\ \/ /\ req[r].picks \subseteq table.preference
        /\ req' = [req EXCEPT ![r].stage = "yours", ![r].picks = {}]
     \/ Forget(r)
  /\ UNCHANGED <<table, orders, weight>>

NewBloq(r) == Insert(r, "bloq", "bloq", "image", "error")

\* A picture that was uploaded is not a value for the column: the INSERT fails.
NewImage(r) ==
  Insert(r, "image", "bloq_image",
         IF req[r].n = 1 THEN "keywords" ELSE "created", "undo")

NewKeywords(r) == Insert(r, "keywords", "bloq_keywords", "created", "undo_all")

Listed(r) ==
  {b \in table.bloq : req[r].op = "makes_offer" => Creator(b) = req[r].at}

List(r) ==
  /\ req[r].stage = "list"
  /\ \/ req' = [req EXCEPT ![r].stage = "look", ![r].seen = Listed(r)]
     \/ Forget(r)
  /\ UNCHANGED <<table, orders, weight>>

\* Each bloq is completed with its picture.  The list is answered, or a SELECT fails,
\* or there is no row to take the first of: a panic.
Look(r) ==
  /\ req[r].stage = "look"
  /\ \/ \E b \in req[r].seen \cap table.bloq_image :
          req' = [req EXCEPT ![r].seen = @ \ {b}]
     \/ Forget(r)
  /\ UNCHANGED <<table, orders, weight>>

(***************************************************************************)
(* Offer.Create, Order.Create and Order.Delete.                            *)
(***************************************************************************)

\* Mutant: that the bloq exists is enough.
IsProduct(b, p) == b \in table.bloq

IsProductCreator(b, p) == b \in table.bloq /\ Creator(b) = p

\* One SELECT for each item.
Items(r) ==
  /\ req[r].stage = "items"
  /\ \/ req[r].seen = {} /\ Step(r, "offer")
     \/ \E b \in req[r].seen : /\ IsProductCreator(b, req[r].at)
                               /\ req' = [req EXCEPT ![r].seen = @ \ {b}]
     \/ Forget(r)
  /\ UNCHANGED <<table, orders, weight>>

NewOffer(r) == Insert(r, "offer", "offers", "offer_items", "error")

NewItems(r) == Insert(r, "offer_items", "offersItems", "created", "undo")

\* One INSERT for each of the quantity; nobody looks whether the offer exists.
Order(r) ==
  /\ req[r].stage = "order"
  /\ LET one == [orders EXCEPT ![r] = @ + 1] IN
       \/ /\ req[r].n < Quantity
          /\ orders' = one /\ req' = [req EXCEPT ![r].n = @ + 1]
       \/ /\ req[r].n = Quantity
          /\ Step(r, "created") /\ UNCHANGED orders
       \/ /\ req[r].n < Quantity
          /\ orders' \in {orders, one} /\ Step(r, "error")
  /\ UNCHANGED <<table, weight>>

\* What one DELETE by customer, and perhaps by id, leaves: the row with that id
\* may be gone already.
Fewer(r) ==
  LET mine == {q \in Requests : req[q].client = req[r].client}
      one == {q \in mine \cap req[r].picks : orders[q] > 0}
  IN IF req[r].picks = {}
       THEN {[q \in Requests |-> IF q \in mine THEN 0 ELSE orders[q]]}
       ELSE {orders, [q \in Requests |-> IF q \in one THEN orders[q] - 1 ELSE orders[q]]}

Cancel(r) ==
  /\ req[r].stage = "cancel"
  /\ \/ orders' \in Fewer(r) /\ Step(r, "cancelled")
     \/ orders' \in {orders} \cup Fewer(r) /\ Step(r, "error")
  /\ UNCHANGED <<table, weight>>

(***************************************************************************)
(* Preference.Create.                                                      *)
(***************************************************************************)

KnownPreferences(r) ==
  /\ req[r].stage = "known"
  /\ \/ req' = [req EXCEPT ![r].stage = "preference", ![r].seen = table.preference]
     \/ Forget(r)
  /\ UNCHANGED <<table, orders, weight>>

NewPreference(r) ==
  Insert(r, "preference", "preference",
         IF req[r].seen = {} THEN "created" ELSE "shares", "error")

\* Mutant: a share weighs one from the start.
FirstWeightOne == 1

FirstWeight == 0

\* One INSERT for all pairs with a preference it saw; a row that is there already
\* makes it fail.
NewShares(r) ==
  /\ req[r].stage = "shares"
  /\ LET pairs == {{r, p} : p \in req[r].seen}
         new == [p \in Pairs |-> IF p \in pairs THEN FirstWeight ELSE weight[p]]
         free == \A p \in pairs : weight[p] = NoRow
     IN \/ free /\ weight' = new /\ Step(r, "created")
        \/ weight' \in {weight} \cup {w \in {new} : free} /\ Step(r, "undo")
  /\ UNCHANGED <<table, orders>>

(***************************************************************************)
(* Roll-backs: the errors of their DELETEs are ignored.                    *)
(***************************************************************************)

Undo(r, from, to) ==
  LET mine == CASE req[r].op = "offer" -> "offers" [] OTHER -> req[r].op IN
    /\ req[r].stage = from
    /\ table' \in {table, Without(mine, {r})}
    /\ Step(r, to)
    /\ UNCHANGED <<orders, weight>>

\* Mutant: the owner's rows go, of whatever profile.
UndoRestOfClient(r) ==
  /\ req[r].stage = "undo_rest"
  /\ table' \in {table, IF req[r].op = "bloq" THEN Without("bloq_image", {r})
                 ELSE Without("credential_profiles",
                              {p \in Ids : Client(p) = req[r].client})}
  /\ Step(r, "error")
  /\ UNCHANGED <<orders, weight>>

\* The picture of a bloq.  For the owner of a profile the DELETE names a column that
\* the table does not have: it never deletes anything.
UndoRest(r) ==
  /\ req[r].stage = "undo_rest"
  /\ table' \in {table, IF req[r].op = "bloq" THEN Without("bloq_image", {r})
                                              ELSE table}
  /\ Step(r, "error")
  /\ UNCHANGED <<orders, weight>>

\* The client goes away, or the process dies.
Abandon(r) ==
  /\ req[r].stage \in Writing
  /\ Step(r, "error")
  /\ UNCHANGED <<table, orders, weight>>

-----------------------------------------------------------------------------

Next ==
  \E r \in Requests :
    \/ Arrive(r)
    \/ Yours(r) \/ Person(r)
    \/ Limit(r) \/ NewProfile(r) \/ NewOwner(r) \/ NewLikes(r)
    \/ Share(r) \/ Bump(r) \/ NewShare(r)
    \/ Delete(r)
    \/ Category(r) \/ NewBloq(r) \/ NewImage(r) \/ NewKeywords(r)
    \/ List(r) \/ Look(r)
    \/ Items(r) \/ NewOffer(r) \/ NewItems(r)
    \/ Order(r) \/ Cancel(r)
    \/ KnownPreferences(r) \/ NewPreference(r) \/ NewShares(r)
    \/ Undo(r, "undo", "error") \/ Undo(r, "undo_all", "undo_rest") \/ UndoRest(r)
    \/ Abandon(r)

Spec == Init /\ [][Next]_vars

-----------------------------------------------------------------------------
(***************************************************************************)
(* Properties.                                                             *)
(***************************************************************************)

\* Every variable has its type, and no share weighs more than its column holds.
TypeOK ==
  /\ table \in [Tables -> SUBSET Ids]
  /\ orders \in [Requests -> 0..Quantity]
  /\ weight \in [Pairs -> {NoRow} \cup 0..MaxWeight]
  /\ req \in [Requests -> Request]

Deleting(p) ==
  \E q \in Requests : /\ req[q].op = "delete" /\ req[q].at = p
                      /\ req[q].stage \in {"delete", "deleted", "error"}

ClientDeletes(c) == \E p \in Ids : Client(p) = c /\ Deleting(p)

\* The client deletes all its orders, or one of those that r made.
Cancelling(r) ==
  \E q \in Requests : /\ req[q].op = "cancel" /\ req[q].client = req[r].client
                      /\ req[q].stage \in {"cancelled", "error"}
                      /\ req[q].picks = {} \/ r \in req[q].picks

\* What was answered 201 (profile.go:398, bloq.go:309, offer.go:307,
\* preferences.go:219, order.go:147) is there with all its rows, whatever other
\* requests fail and roll back, unless its profile is deleted, or, for an order,
\* its client deletes it (order.go:201) or some profile.
CreatedStays ==
  \A r \in Requests : req[r].stage \in Answered =>
    CASE req[r].op = "profile" ->
           Deleting(r) \/ /\ r \in table.profile \cap table.credential_profiles
                          /\ req[r].picks = {} \/ r \in table.profile_likes
      [] req[r].op = "bloq" ->
           Deleting(req[r].at) \/ /\ r \in table.bloq \cap table.bloq_image
                                  /\ req[r].n = 0 \/ r \in table.bloq_keywords
      [] req[r].op = "offer" ->
           Deleting(req[r].at) \/ r \in table.offers \cap table.offersItems
      [] req[r].op = "preference" -> r \in table.preference
      [] OTHER -> \/ ClientDeletes(req[r].client) \/ Cancelling(r)
                      \/ orders[r] = Quantity

\* A bloq or an offer names a profile that its client made (profile.go:781),
\* although profiles come, go and are rolled back between the check and the INSERT.
InOnesOwnName ==
  \A x \in (table.bloq \cup table.offers) \ Known :
    /\ req[x].at \in Known \/ req[req[x].at].op = "profile"
    /\ Client(req[x].at) = req[x].client

\* An offer's items that exist are bloqs of the profile that offers them
\* (offer.go:260), though items and offer are stored after the check.
OffersOwnBloqs ==
  \A o \in table.offersItems : \A b \in req[o].picks \cap table.bloq :
    Creator(b) = req[o].at

\* A list of bloqs lacks the picture of one, and fails (bloq.go:426, bloq.go:640),
\* only while that bloq is being created or after its creation failed: to delete
\* profiles, and their bloqs, does not make lists fail.
ListNeedsPictures ==
  \A r \in Requests : req[r].stage = "look" =>
    \A b \in req[r].seen \ table.bloq_image :
      b \in Requests /\ req[b].stage \in Writing \cup {"error"}

\* When a profile was deleted with 204 (profile.go:654), the bloqs and offers in its
\* name that are left were under way when it lost its owner: none is made later,
\* and none that was answered before is left.
DeletedIsGone ==
  \A r \in Requests : req[r].stage = "deleted" =>
    \A x \in (table.bloq \cup table.offers) :
      Creator(x) = req[r].at => x \in req[r].seen

\* A share never weighs more than the profiles that were answered 201 with just the
\* two likes of the pair (profile.go:380), whichever requests write stale weights or
\* fail.  Those that were deleted since count: no share is ever lowered
\* (profile.go:606-652).
WeightBacked ==
  \A p \in Pairs :
    weight[p] <= Cardinality({q \in Requests :
                   /\ req[q].op = "profile" /\ req[q].picks = p
                   /\ req[q].stage \in Answered})

\* Once a profile that likes two settled preferences is created, with no error, their
\* share weighs one at least (profile.go:378-393): lost updates never lose all.
LikesLeaveTrace ==
  \A r \in Requests :
    /\ req[r].op = "profile" /\ req[r].stage = "created"
    /\ req[r].picks \in Pairs /\ req[r].picks \subseteq Known
    => weight[req[r].picks] > 0
=============================================================================
