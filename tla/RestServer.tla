----------------------------- MODULE RestServer -----------------------------
(***************************************************************************)
(* RESTServer (pkg/rest/server.go): from the path of a request to the      *)
(* answer, with the handler of /order (internal/models/order.go) behind.   *)
(*                                                                         *)
(* The handler that AttachHandler registers for each resource stores the   *)
(* segments of the path in the field segments of the server and passes a   *)
(* copy of the server on; Read and Delete, and AttachHandler itself after  *)
(* Read, look the segments up there.  cmd/rest and cmd/serveall serve      *)
(* every request of every resource with one server, api/rest.go makes a    *)
(* server for each request: here any requests may share one.               *)
(*                                                                         *)
(* A slice is a pointer and a length, stored one after the other without a *)
(* lock.  A copy is one step here: every mix of words that a slower copy   *)
(* may see, it sees between two stores.                                    *)
(***************************************************************************)
EXTENDS Integers, Sequences

CONSTANTS
  Requests,
  Servers,
  Orders,     \* identifiers; those of other resources are the same numbers
  Customers,
  Nobody,     \* who stored the segments of a new server
  Blank,      \* the empty segment
  Name,       \* a segment that is neither empty nor an identifier
  Paths       \* the segments of a path, without the route

Segment == Orders \cup {Blank, Name}

\* The special values are nobody's, and a path has identifiers and names.
ASSUME SegmentsAssumption ==
  /\ Nobody \notin Requests
  /\ Blank \notin Orders \cup {Name} /\ Name \notin Orders
  /\ Paths \subseteq Seq(Segment)

VARIABLES
  server,  \* the server that serves each request
  header,  \* the field segments of each server: of its pointer and of its
           \* length, the request that stored it
  owner,   \* the customer of each order
  orders,  \* the table
  req,     \* the state of each request
  past     \* history: for each request, those that had stored both words
           \* of their segments when it stored its first

vars == <<server, header, owner, orders, req, past>>

Word == Requests \cup {Nobody}
Segments == [ptr: Word, len: Word]
NoSegments == [ptr |-> Nobody, len |-> Nobody]

\* GET /order, DELETE /order, and all that goes to other resources.
Methods == {"GET", "DELETE", "other"}

Request == [method: Methods, path: Paths, myself: BOOLEAN, client: Customers,
            stage: {"store", "copy", "act", "len", "last", "odd", "done"},
            todo: SUBSET {"ptr", "len"}, segs: Segments,
            found: SUBSET Orders, unique: BOOLEAN, n: Nat, named: BOOLEAN,
            answer: {"none", "one", "list", "not_found", "deleted"}]

\* Where a request is dispatched from.
Fresh(m, p, own, c) ==
  [method |-> m, path |-> p, myself |-> own, client |-> c, stage |-> "store",
   todo |-> {"ptr", "len"}, segs |-> NoSegments, found |-> {},
   unique |-> FALSE, n |-> 0, named |-> FALSE, answer |-> "none"]

\* The path a word comes from.
PathOf(w) == IF w = Nobody THEN <<>> ELSE req[w].path

SegLen(h) == Len(PathOf(h.len))

\* What lies at a pointer: parts[2:], or for two parts, whose slice has no
\* room, the empty part before the first slash and the route.
Array(w) == IF PathOf(w) = <<>> THEN <<Blank, Name>> ELSE PathOf(w)

\* What *Seg(i) may be: beyond the array there may be anything, and no handler
\* tells nil, beyond the length, from the empty segment.
SegAt(h, i) ==
  IF i \notin 0 .. SegLen(h) - 1 THEN {Blank}
  ELSE IF i < Len(Array(h.ptr)) THEN {Array(h.ptr)[i + 1]} ELSE Segment

\* *Seg(0), which no header finds beyond an array.
First(h) == Array(h.ptr)[1]

\* Mutant: the handlers look for the identifier one place too far.
NamedTooFar(h) == SegLen(h) > 1 /\ First(h) # Blank

\* (id != nil) && (*id != ""), of id := Seg(0).
Named(h) == SegLen(h) > 0 /\ First(h) # Blank

-----------------------------------------------------------------------------

Init ==
  /\ server \in [Requests -> Servers]
  /\ header = [s \in Servers |-> NoSegments]
  /\ owner \in [Orders -> Customers]
  /\ orders = Orders
  /\ req \in [Requests -> {Fresh(m, p, own, c) : m \in Methods, p \in Paths,
                              own \in BOOLEAN, c \in Customers}]
  /\ \A r \in Requests : req[r].myself => req[r].method = "GET"
  /\ past = [r \in Requests |-> {}]

Stored == {r \in Requests : req[r].todo = {}}

\* Mutant: segments are only stored when there are some.
StoreWordIfAny(r, w) ==
  /\ req[r].stage = "store" /\ w \in req[r].todo
  /\ header' = [header EXCEPT ![server[r]] =
                  IF req[r].path = <<>> THEN @
                  ELSE IF w = "ptr" THEN [@ EXCEPT !.ptr = r]
                                    ELSE [@ EXCEPT !.len = r]]
  /\ req' = [req EXCEPT ![r].todo = @ \ {w},
                        ![r].stage = IF req[r].todo = {w} THEN "copy" ELSE @]
  /\ past' = [past EXCEPT ![r] = IF req[r].todo = {"ptr", "len"} THEN Stored
                                                                 ELSE @]
  /\ UNCHANGED <<server, owner, orders>>

\* s.segments = segs, one word at a time, in the order the build chooses.
StoreWord(r, w) ==
  /\ req[r].stage = "store" /\ w \in req[r].todo
  /\ header' = [header EXCEPT ![server[r]] =
                  IF w = "ptr" THEN [@ EXCEPT !.ptr = r]
                               ELSE [@ EXCEPT !.len = r]]
  /\ req' = [req EXCEPT ![r].todo = @ \ {w},
                        ![r].stage = IF req[r].todo = {w} THEN "copy" ELSE @]
  /\ past' = [past EXCEPT ![r] = IF req[r].todo = {"ptr", "len"} THEN Stored
                                                                 ELSE @]
  /\ UNCHANGED <<server, owner, orders>>

\* *s, the argument of the handler; or the origin is not allowed.
Copy(r) ==
  /\ req[r].stage = "copy"
  /\ \/ req' = [req EXCEPT ![r].stage = "act", ![r].segs = header[server[r]]]
     \/ req' = [req EXCEPT ![r].stage = "done"] /\ req[r].method # "DELETE"
  /\ UNCHANGED <<server, header, owner, orders, past>>

\* The handlers of the other resources have no part in orders.
Elsewhere(r) ==
  /\ req[r].stage = "act" /\ req[r].method = "other"
  /\ req' = [req EXCEPT ![r].stage = "done"]
  /\ UNCHANGED <<server, header, owner, orders, past>>

\* Mutant: what is found is the segment, be it an order or not.
ReadUnchecked(r) ==
  /\ req[r].stage = "act" /\ req[r].method = "GET"
  /\ req' = [req EXCEPT ![r].stage = "len", ![r].found = {First(req[r].segs)},
                        ![r].unique = Named(req[r].segs)]
  /\ UNCHANGED <<server, header, owner, orders, past>>

\* Order.Read: the order of the segment, or all orders, of all customers or
\* with ?myself of the client; or its token is refused, or the SELECT fails.
Read(r) ==
  /\ req[r].stage = "act" /\ req[r].method = "GET"
  /\ LET h == req[r].segs IN
       \/ req' = [req EXCEPT
            ![r].stage = "len",
            ![r].found = {o \in orders :
                            /\ Named(h) => o = First(h)
                            /\ req[r].myself => owner[o] = req[r].client},
            ![r].unique = Named(h)]
       \/ req' = [req EXCEPT ![r].stage = "done"]
  /\ UNCHANGED <<server, header, owner, orders, past>>

\* s.SegLen(), s.Seg(...) and s.SegLen() again, on the server's own field.
ReadLen(r) ==
  /\ req[r].stage = "len"
  /\ req' = [req EXCEPT ![r].stage = "last", ![r].n = SegLen(header[server[r]])]
  /\ UNCHANGED <<server, header, owner, orders, past>>

ReadLast(r) ==
  /\ req[r].stage = "last"
  /\ \E last \in SegAt(header[server[r]], req[r].n - 1) :
       req' = [req EXCEPT ![r].stage = "odd", ![r].named = last # Blank]
  /\ UNCHANGED <<server, header, owner, orders, past>>

\* Mutant: the form does not depend on what was read.
AnswerByPathOnly(r) ==
  /\ req[r].stage = "odd"
  /\ LET one == SegLen(header[server[r]]) % 2 = 1 /\ req[r].named IN
       req' = [req EXCEPT
         ![r].stage = "done",
         ![r].answer = IF ~ one THEN "list"
                       ELSE IF req[r].found = {} THEN "not_found" ELSE "one"]
  /\ UNCHANGED <<server, header, owner, orders, past>>

\* One resource, or a list of them.
Answer(r) ==
  /\ req[r].stage = "odd"
  /\ LET one == SegLen(header[server[r]]) % 2 = 1 /\ req[r].named /\ req[r].unique IN
       req' = [req EXCEPT
         ![r].stage = "done",
         ![r].answer = IF ~ one THEN "list"
                       ELSE IF req[r].found = {} THEN "not_found" ELSE "one"]
  /\ UNCHANGED <<server, header, owner, orders, past>>

\* Order.Delete: the client's orders, only the one of the segment if there is
\* one.  A client that cannot be told from its token deletes nothing.
Delete(r) ==
  /\ req[r].stage = "act" /\ req[r].method = "DELETE"
  /\ LET h == req[r].segs
         gone == {o \in orders : /\ owner[o] = req[r].client
                                 /\ Named(h) => o = First(h)}
     IN \/ /\ orders' = orders \ gone
           /\ req' = [req EXCEPT ![r].stage = "done", ![r].answer = "deleted",
                                 ![r].found = gone]
        \/ /\ UNCHANGED orders
           /\ req' = [req EXCEPT ![r].stage = "done"]
  /\ UNCHANGED <<server, header, owner, past>>

-----------------------------------------------------------------------------

Next ==
  \E r \in Requests :
    \/ \E w \in {"ptr", "len"} : StoreWord(r, w)
    \/ Copy(r) \/ Elsewhere(r)
    \/ Read(r) \/ ReadLen(r) \/ ReadLast(r) \/ Answer(r)
    \/ Delete(r)

Spec == Init /\ [][Next]_vars

-----------------------------------------------------------------------------
(***************************************************************************)
(* Properties.                                                             *)
(***************************************************************************)

\* Every variable has its type.
TypeOK ==
  /\ server \in [Requests -> Servers]
  /\ header \in [Servers -> Segments]
  /\ owner \in [Orders -> Customers]
  /\ orders \subseteq Orders
  /\ req \in [Requests -> Request]
  /\ past \in [Requests -> SUBSET Requests]

\* A handler never acts on segments that were replaced before its own request
\* arrived (server.go:43): each word of its copy is its own or was stored after
\* it began to store them.
NeverStale ==
  \A r \in Requests :
    req[r].stage = "act" =>
      /\ req[r].segs.ptr \notin past[r] \cup {Nobody}
      /\ req[r].segs.len \notin past[r] \cup {Nobody}

\* The path names an order, as /order/<id> does, ...
Names(p) == p # <<>> /\ p[1] # Blank

\* ... and asks for that one alone.
AsksForOne(p) == Names(p) /\ Len(p) % 2 = 1 /\ p[Len(p)] # Blank

\* DELETE /order/<id> deletes no other order than <id> (order.go:214).
DeletesOnlyNamed ==
  \A r \in Requests :
    req[r].method = "DELETE" /\ Names(req[r].path) =>
      req[r].found \subseteq {req[r].path[1]}

\* A request that has its server for itself is answered for its own path: for
\* one that asks for one, an order or none, and a list for the rest
\* (server.go:145); only the order it names; and it deletes that order, or all
\* those of the client (order.go:212-216).
OwnServerOwnPath ==
  \A r \in Requests :
    (\A q \in Requests : server[q] = server[r] => q = r) =>
      /\ req[r].answer \in {"one", "not_found"} => AsksForOne(req[r].path)
      /\ req[r].answer = "list" => ~ AsksForOne(req[r].path)
      /\ req[r].answer # "none" /\ Names(req[r].path) =>
           req[r].found \subseteq {req[r].path[1]}
      /\ req[r].answer = "deleted" =>
           \A o \in orders : owner[o] = req[r].client =>
             Names(req[r].path) /\ o # req[r].path[1]

\* An answer about one order (server.go:157) is about an order whose identifier
\* the path of some request began with, to whatever resource it went and
\* whatever mix of words the handler found.
OneWasAskedFor ==
  \A r \in Requests :
    req[r].answer = "one" =>
      \E q \in Requests : /\ req[q].path # <<>>
                          /\ req[r].found = {req[q].path[1]}
=============================================================================
