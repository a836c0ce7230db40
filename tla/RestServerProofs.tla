-------------------------- MODULE RestServerProofs --------------------------
(***************************************************************************)
(* Proofs about RestServer, for any requests, servers, orders, customers   *)
(* and paths of any length: whichever requests share a server and in whatever order the  *)
(* words of their segments are stored and read, what a handler acts on is  *)
(* not older than its request, and a request alone is answered for itself. *)
(***************************************************************************)
EXTENDS RestServer, SequenceTheorems, TLAPS

-----------------------------------------------------------------------------
(***************************************************************************)
(* The inductive invariant.                                                *)
(***************************************************************************)

Words == {"ptr", "len"}

\* A request is past its store when both words are stored, and not before.
StoresFirst ==
  \A r \in Requests : req[r].stage = "store" <=> req[r].todo # {}

\* Who was there before had stored everything, and is not the request itself.
PastIsStored ==
  \A r \in Requests :
    /\ req[r].todo = Words => past[r] = {}
    /\ r \notin past[r]
    /\ \A q \in past[r] : req[q].todo = {}

\* What is found over a word that r stored, r stored or a request that had not
\* stored it yet when r began.
WordsAreRecent ==
  \A r \in Requests :
    /\ "ptr" \notin req[r].todo => header[server[r]].ptr \notin past[r] \cup {Nobody}
    /\ "len" \notin req[r].todo => header[server[r]].len \notin past[r] \cup {Nobody}

\* What was found as one thing is what a request asked for.
FoundWasAskedFor ==
  \A r \in Requests : req[r].unique =>
    \E q \in Requests : req[q].path # <<>> /\ req[r].found \subseteq {req[q].path[1]}

\* Nothing is answered before the end, and nothing is one thing before it is read.
Unanswered ==
  \A r \in Requests :
    /\ req[r].stage # "done" => req[r].answer = "none"
    /\ req[r].stage \in {"store", "copy", "act"} => ~ req[r].unique

\* The last segment of the path is not empty.
EndsNamed(p) == p # <<>> /\ p[Len(p)] # Blank

Alone(r) == \A q \in Requests : server[q] = server[r] => q = r

\* Alone, a request finds its own words in its server, ...
OwnWords ==
  \A r \in Requests : Alone(r) =>
    /\ "ptr" \notin req[r].todo => header[server[r]].ptr = r
    /\ "len" \notin req[r].todo => header[server[r]].len = r
    /\ req[r].stage = "act" => req[r].segs.ptr = r /\ req[r].segs.len = r

\* ... and judges its own path by them.
OwnForm ==
  \A r \in Requests : Alone(r) =>
    /\ req[r].stage \in {"len", "last", "odd"} =>
         /\ req[r].unique <=> Names(req[r].path)
         /\ Names(req[r].path) => req[r].found \subseteq {req[r].path[1]}
    /\ req[r].stage \in {"last", "odd"} => req[r].n = Len(req[r].path)
    /\ req[r].stage = "odd" => (req[r].named <=> EndsNamed(req[r].path))

IInv ==
  /\ TypeOK /\ StoresFirst /\ PastIsStored /\ WordsAreRecent
  /\ NeverStale
  /\ Unanswered /\ FoundWasAskedFor /\ OneWasAskedFor
  /\ OwnWords /\ OwnForm /\ OwnServerOwnPath

-----------------------------------------------------------------------------
(***************************************************************************)
(* What each action changes.                                               *)
(***************************************************************************)

\* Only r moves, and what it asks for stays.
Others(r) ==
  /\ req' \in [Requests -> Request]
  /\ \A q \in Requests \ {r} : req'[q] = req[q]
  /\ req'[r].method = req[r].method
  /\ req'[r].path = req[r].path /\ req'[r].client = req[r].client
  /\ req'[r].myself = req[r].myself

Stages == {"store", "copy", "act", "len", "last", "odd", "done"}
Kinds == {"none", "one", "list", "not_found", "deleted"}

\* A new value for one field of the state of a request.
LEMMA FieldTypes ==
  ASSUME NEW e \in Request
  PROVE  /\ \A x \in Stages : [e EXCEPT !.stage = x] \in Request
         /\ \A x \in SUBSET Words : [e EXCEPT !.todo = x] \in Request
         /\ \A x \in Segments : [e EXCEPT !.segs = x] \in Request
         /\ \A x \in SUBSET Orders : [e EXCEPT !.found = x] \in Request
         /\ \A x \in BOOLEAN : /\ [e EXCEPT !.unique = x] \in Request
                               /\ [e EXCEPT !.named = x] \in Request
         /\ \A x \in Nat : [e EXCEPT !.n = x] \in Request
         /\ \A x \in Kinds : [e EXCEPT !.answer = x] \in Request
<1> DEFINE T == SUBSET Words
           F == SUBSET Orders
           N == Nat
<1>1. Request = [method: Methods, path: Paths, myself: BOOLEAN,
                 client: Customers, stage: Stages, todo: T, segs: Segments,
                 found: F, unique: BOOLEAN, n: N, named: BOOLEAN, answer: Kinds]
  BY DEF Request, Stages, Words, Kinds
<1> HIDE DEF T, F, N
<1>2. \A x \in Stages : [e EXCEPT !.stage = x] \in Request
  BY <1>1
<1>3. \A x \in T : [e EXCEPT !.todo = x] \in Request
  BY <1>1
<1>4. \A x \in Segments : [e EXCEPT !.segs = x] \in Request
  BY <1>1
<1>5. \A x \in F : [e EXCEPT !.found = x] \in Request
  BY <1>1
<1>6. \A x \in BOOLEAN : /\ [e EXCEPT !.unique = x] \in Request
                         /\ [e EXCEPT !.named = x] \in Request
  BY <1>1
<1>7. \A x \in N : [e EXCEPT !.n = x] \in Request
  BY <1>1
<1>8. \A x \in Kinds : [e EXCEPT !.answer = x] \in Request
  BY <1>1
<1>9. QED
  BY <1>2, <1>3, <1>4, <1>5, <1>6, <1>7, <1>8 DEF T, F, N

\* An update of the state of one request that keeps what it asks for.
LEMMA EntryFrame ==
  ASSUME TypeOK, NEW r \in Requests, NEW entry \in Request,
         req' = [req EXCEPT ![r] = entry],
         entry.method = req[r].method, entry.path = req[r].path,
         entry.client = req[r].client, entry.myself = req[r].myself
  PROVE  Others(r) /\ req'[r] = entry
BY DEF TypeOK, Others

\* A request that ends unanswered keeps the rest of its state.
LEMMA EndFrame ==
  ASSUME TypeOK, NEW r \in Requests, req' = [req EXCEPT ![r].stage = "done"]
  PROVE  /\ Others(r) /\ req'[r].todo = req[r].todo /\ req'[r].stage = "done"
         /\ req'[r].found = req[r].found /\ req'[r].unique = req[r].unique
         /\ req'[r].answer = req[r].answer
<1> DEFINE entry == [req[r] EXCEPT !.stage = "done"]
<1>1. req' = [req EXCEPT ![r] = entry]
  BY DEF TypeOK, Request
<1>2. entry \in Request
  BY FieldTypes DEF TypeOK, Stages
<1>3. /\ entry.method = req[r].method /\ entry.path = req[r].path
      /\ entry.client = req[r].client /\ entry.myself = req[r].myself
      /\ entry.todo = req[r].todo /\ entry.stage = "done"
      /\ entry.found = req[r].found /\ entry.unique = req[r].unique
      /\ entry.answer = req[r].answer
  BY DEF TypeOK, Request
<1> HIDE DEF entry
<1>4. QED
  BY <1>1, <1>2, <1>3, EntryFrame

\* One word is stored.
Stores(r, w) ==
  /\ Others(r) /\ UNCHANGED <<server, owner, orders>>
  /\ req[r].stage = "store" /\ w \in req[r].todo
  /\ header' \in [Servers -> Segments]
  /\ \A s \in Servers \ {server[r]} : header'[s] = header[s]
  /\ header'[server[r]].ptr = IF w = "ptr" THEN r ELSE header[server[r]].ptr
  /\ header'[server[r]].len = IF w = "len" THEN r ELSE header[server[r]].len
  /\ req'[r].todo = req[r].todo \ {w}
  /\ req'[r].stage = IF req[r].todo = {w} THEN "copy" ELSE "store"
  /\ req'[r].segs = req[r].segs /\ req'[r].found = req[r].found
  /\ req'[r].unique = req[r].unique /\ req'[r].answer = req[r].answer
  /\ past' \in [Requests -> SUBSET Requests]
  /\ \A q \in Requests \ {r} : past'[q] = past[q]
  /\ past'[r] = IF req[r].todo = Words THEN Stored ELSE past[r]

\* A word of the segments is stored in the server, and nothing else changes there.
LEMMA StoreWordStores ==
  ASSUME TypeOK, NEW r \in Requests, NEW w \in Words, StoreWord(r, w)
  PROVE  Stores(r, w)
<1> DEFINE entry == [req[r] EXCEPT !.todo = req[r].todo \ {w},
                       !.stage = IF req[r].todo = {w} THEN "copy" ELSE req[r].stage]
<1>1. req' = [req EXCEPT ![r] = entry]
  <2> DEFINE todo == req[r].todo \ {w}
  <2>1. CASE req[r].todo = {w}
    <3>1. req' = [req EXCEPT ![r].todo = todo, ![r].stage = "copy"]
      BY <2>1 DEF StoreWord
    <3>2. QED
      BY <2>1, <3>1 DEF TypeOK, Request
  <2>2. CASE req[r].todo # {w}
    <3>1. req' = [req EXCEPT ![r].todo = todo]
      BY <2>2 DEF StoreWord, TypeOK, Request
    <3>2. QED
      BY <2>2, <3>1 DEF TypeOK, Request
  <2>3. QED
    BY <2>1, <2>2
<1>2. entry \in Request
  <2> DEFINE e1 == [req[r] EXCEPT !.todo = req[r].todo \ {w}]
  <2>1. req[r] \in Request /\ req[r].todo \ {w} \in SUBSET Words
    BY DEF TypeOK, Request, Words
  <2>2. e1 \in Request
    BY <2>1, FieldTypes
  <2>3. (IF req[r].todo = {w} THEN "copy" ELSE req[r].stage) \in Stages
    BY <2>1 DEF Request, Stages
  <2> HIDE DEF e1
  <2>4. [e1 EXCEPT !.stage = IF req[r].todo = {w} THEN "copy" ELSE req[r].stage] \in Request
    BY <2>2, <2>3, FieldTypes
  <2>5. QED
    BY <2>4 DEF e1
<1>3. /\ entry.method = req[r].method /\ entry.path = req[r].path
      /\ entry.client = req[r].client /\ entry.myself = req[r].myself
      /\ entry.todo = req[r].todo \ {w}
      /\ entry.stage = IF req[r].todo = {w} THEN "copy" ELSE req[r].stage
      /\ entry.segs = req[r].segs /\ entry.found = req[r].found
      /\ entry.unique = req[r].unique /\ entry.answer = req[r].answer
  BY DEF TypeOK, Request
<1> HIDE DEF entry
<1>4. Others(r) /\ req'[r] = entry
  BY <1>1, <1>2, <1>3, EntryFrame
<1>5. /\ UNCHANGED <<server, owner, orders>>
      /\ req[r].stage = "store" /\ w \in req[r].todo
  BY DEF StoreWord
<1>6. /\ header' \in [Servers -> Segments]
      /\ \A s \in Servers \ {server[r]} : header'[s] = header[s]
      /\ header'[server[r]].ptr = IF w = "ptr" THEN r ELSE header[server[r]].ptr
      /\ header'[server[r]].len = IF w = "len" THEN r ELSE header[server[r]].len
  <2>1. server[r] \in Servers /\ header[server[r]] \in Segments /\ r \in Word
    BY DEF TypeOK, Word
  <2>2. CASE w = "ptr"
    <3>1. header' = [header EXCEPT ![server[r]] = [header[server[r]] EXCEPT !.ptr = r]]
      BY <2>2 DEF StoreWord, TypeOK
    <3>2. QED
      BY <2>1, <2>2, <3>1 DEF TypeOK, Segments
  <2>3. CASE w = "len"
    <3>1. header' = [header EXCEPT ![server[r]] = [header[server[r]] EXCEPT !.len = r]]
      BY <2>3 DEF StoreWord, TypeOK
    <3>2. QED
      BY <2>1, <2>3, <3>1 DEF TypeOK, Segments
  <2>4. QED
    BY <2>2, <2>3 DEF Words
<1>7. /\ past' \in [Requests -> SUBSET Requests]
      /\ \A q \in Requests \ {r} : past'[q] = past[q]
      /\ past'[r] = IF req[r].todo = Words THEN Stored ELSE past[r]
  BY DEF StoreWord, TypeOK, Stored, Words
<1>8. QED
  BY <1>3, <1>4, <1>5, <1>6, <1>7 DEF Stores

\* A handler goes on without storing: what was stored stays.
Handles(r) ==
  /\ Others(r) /\ UNCHANGED <<server, header, owner, past>>
  /\ req[r].stage # "store"
  /\ req'[r].todo = req[r].todo /\ req'[r].stage # "store"
  /\ orders' \subseteq orders

\* The server is copied, or the request has no more part in orders.
Copies(r) ==
  /\ Handles(r) /\ UNCHANGED orders
  /\ req'[r].found = req[r].found /\ req'[r].unique = req[r].unique
  /\ req'[r].answer = req[r].answer
  /\ \/ /\ req[r].stage = "copy" /\ req'[r].stage = "act"
        /\ req'[r].segs = header[server[r]]
     \/ req[r].stage \in {"copy", "act"} /\ req'[r].stage = "done"

\* The orders are read, or that fails.
Reads(r) ==
  /\ Handles(r) /\ UNCHANGED orders /\ req[r].stage = "act"
  /\ req'[r].answer = req[r].answer
  /\ LET h == req[r].segs IN
       \/ /\ req'[r].stage = "len" /\ (req'[r].unique <=> Named(h))
          /\ req'[r].found \subseteq orders
          /\ Named(h) => req'[r].found \subseteq {First(h)}
       \/ /\ req'[r].stage = "done"
          /\ req'[r].found = req[r].found /\ (req'[r].unique <=> req[r].unique)

\* The server is looked at again.
Looks(r) ==
  /\ Handles(r) /\ UNCHANGED orders
  /\ req'[r].found = req[r].found /\ (req'[r].unique <=> req[r].unique)
  /\ req'[r].answer = req[r].answer
  /\ LET h == header[server[r]] IN
       \/ /\ req[r].stage = "len" /\ req'[r].stage = "last"
          /\ req'[r].n = SegLen(h)
       \/ /\ req[r].stage = "last" /\ req'[r].stage = "odd"
          /\ req'[r].n = req[r].n
          /\ \E last \in SegAt(h, req[r].n - 1) : req'[r].named <=> last # Blank

\* The answer is given.
Answers(r) ==
  /\ Handles(r) /\ UNCHANGED orders /\ req[r].stage = "odd" /\ req'[r].stage = "done"
  /\ req'[r].found = req[r].found /\ (req'[r].unique <=> req[r].unique)
  /\ LET one == SegLen(header[server[r]]) % 2 = 1 /\ req[r].named /\ req[r].unique IN
       req'[r].answer = IF ~ one THEN "list"
                        ELSE IF req[r].found = {} THEN "not_found" ELSE "one"

\* Orders are deleted, or not.
Deletes(r) ==
  /\ Handles(r) /\ req[r].stage = "act" /\ req'[r].stage = "done"
  /\ req'[r].unique <=> req[r].unique
  /\ LET h == req[r].segs
         gone == {o \in orders : /\ owner[o] = req[r].client
                                 /\ Named(h) => o = First(h)}
     IN \/ /\ orders' = orders \ gone
           /\ req'[r].answer = "deleted" /\ req'[r].found = gone
        \/ /\ orders' = orders
           /\ req'[r].answer = req[r].answer /\ req'[r].found = req[r].found

\* A copy of the server holds the header as it is, or the request is over.
LEMMA CopyCopies ==
  ASSUME TypeOK, NEW r \in Requests, Copy(r)
  PROVE  Copies(r)
<1>1. CASE req' = [req EXCEPT ![r].stage = "act", ![r].segs = header[server[r]]]
  <2> DEFINE entry == [req[r] EXCEPT !.stage = "act", !.segs = header[server[r]]]
  <2>1. req' = [req EXCEPT ![r] = entry]
    BY <1>1 DEF TypeOK, Request
  <2>2. entry \in Request
    <3>1. req[r] \in Request /\ "act" \in Stages /\ header[server[r]] \in Segments
      BY DEF TypeOK, Stages
    <3> DEFINE e1 == [req[r] EXCEPT !.stage = "act"]
    <3>2. e1 \in Request
      BY <3>1, FieldTypes
    <3> HIDE DEF e1
    <3> DEFINE e2 == [e1 EXCEPT !.segs = header[server[r]]]
    <3>3. e2 \in Request
      BY <3>1, <3>2, FieldTypes
    <3> HIDE DEF e2
    <3>4. QED
      BY <3>3 DEF e1, e2
  <2>3. /\ entry.method = req[r].method /\ entry.path = req[r].path
        /\ entry.client = req[r].client /\ entry.myself = req[r].myself
        /\ entry.todo = req[r].todo
        /\ entry.stage = "act" /\ entry.segs = header[server[r]]
        /\ entry.found = req[r].found /\ entry.unique = req[r].unique
        /\ entry.answer = req[r].answer
    BY DEF TypeOK, Request
  <2> HIDE DEF entry
  <2>4. Others(r) /\ req'[r] = entry
    BY <2>1, <2>2, <2>3, EntryFrame
  <2>5. QED
    BY <2>3, <2>4 DEF Copy, Copies, Handles
<1>2. CASE req' = [req EXCEPT ![r].stage = "done"]
  <2>1. /\ Others(r) /\ req'[r].todo = req[r].todo
        /\ req'[r].stage = "done"
        /\ req'[r].found = req[r].found /\ req'[r].unique = req[r].unique
        /\ req'[r].answer = req[r].answer
    BY <1>2, EndFrame
  <2>2. QED
    BY <2>1 DEF Copy, Copies, Handles
<1>3. QED
  BY <1>1, <1>2 DEF Copy

\* Order.Read finds the order of the segment, or all of them, or fails.
LEMMA ReadReads ==
  ASSUME TypeOK, NEW r \in Requests, Read(r)
  PROVE  Reads(r)
<1> DEFINE named == Named(req[r].segs)
           found == {o \in orders :
                       /\ named => o = First(req[r].segs)
                       /\ req[r].myself => owner[o] = req[r].client}
<1>1. CASE req' = [req EXCEPT ![r].stage = "len", ![r].found = found, ![r].unique = named]
  <2>1. found \in SUBSET Orders /\ named \in BOOLEAN
    BY DEF TypeOK, Named
  <2> HIDE DEF found, named
  <2> DEFINE entry == [req[r] EXCEPT !.stage = "len", !.found = found, !.unique = named]
  <2>2. req' = [req EXCEPT ![r] = entry]
    BY <1>1 DEF TypeOK, Request
  <2>3. entry \in Request
    <3>1. req[r] \in Request /\ "len" \in Stages /\ found \in SUBSET Orders /\ named \in BOOLEAN
      BY <2>1 DEF TypeOK, Stages
    <3> DEFINE e1 == [req[r] EXCEPT !.stage = "len"]
    <3>2. e1 \in Request
      BY <3>1, FieldTypes
    <3> HIDE DEF e1
    <3> DEFINE e2 == [e1 EXCEPT !.found = found]
    <3>3. e2 \in Request
      BY <3>1, <3>2, FieldTypes
    <3> HIDE DEF e2
    <3> DEFINE e3 == [e2 EXCEPT !.unique = named]
    <3>4. e3 \in Request
      BY <3>1, <3>3, FieldTypes
    <3> HIDE DEF e3
    <3>5. QED
      BY <3>4 DEF e1, e2, e3
  <2>4. /\ entry.method = req[r].method /\ entry.path = req[r].path
        /\ entry.client = req[r].client /\ entry.myself = req[r].myself
        /\ entry.todo = req[r].todo
        /\ entry.stage = "len" /\ entry.found = found /\ entry.unique = named
        /\ entry.answer = req[r].answer
    BY DEF TypeOK, Request
  <2> HIDE DEF entry
  <2>5. Others(r) /\ req'[r] = entry
    BY <2>2, <2>3, <2>4, EntryFrame
  <2>6. Handles(r) /\ UNCHANGED orders /\ req[r].stage = "act"
    BY <2>4, <2>5 DEF Read, Handles
  <2>7. /\ req'[r].answer = req[r].answer /\ req'[r].stage = "len"
        /\ req'[r].found = found /\ req'[r].unique = named
    BY <2>4, <2>5
  <2>8. QED
    BY <2>6, <2>7 DEF Reads, found, named
<1>2. CASE req' = [req EXCEPT ![r].stage = "done"]
  <2>1. /\ Others(r) /\ req'[r].todo = req[r].todo
        /\ req'[r].stage = "done"
        /\ req'[r].found = req[r].found /\ req'[r].unique = req[r].unique
        /\ req'[r].answer = req[r].answer
    BY <1>2, EndFrame
  <2>2. QED
    BY <2>1 DEF Read, Reads, Handles
<1>3. QED
  BY <1>1, <1>2 DEF Read

\* A header has the length of a path, or none.
LEMMA PathLengths ==
  ASSUME TypeOK
  PROVE  /\ \A r \in Requests : /\ req[r].path \in Seq(Segment)
                                /\ Len(req[r].path) \in Nat
                                /\ req[r].path = <<>> <=> Len(req[r].path) = 0
         /\ \A h \in Segments : SegLen(h) \in Nat
<1>1. \A r \in Requests : /\ req[r].path \in Seq(Segment)
                          /\ Len(req[r].path) \in Nat
                          /\ req[r].path = <<>> <=> Len(req[r].path) = 0
  <2>1. \A r \in Requests : req[r].path \in Seq(Segment)
    BY SegmentsAssumption DEF TypeOK, Request
  <2>2. QED
    BY <2>1, EmptySeq, LenProperties
<1>2. ASSUME NEW h \in Segments
      PROVE  SegLen(h) \in Nat
  <2>1. h.len \in Word
    BY DEF Segments
  <2>2. QED
    BY <1>1, <2>1 DEF SegLen, PathOf, Word
<1>3. QED
  BY <1>1, <1>2

\* The first s.SegLen() reads the header of the server and changes only the request.
LEMMA ReadLenLooks ==
  ASSUME TypeOK, NEW r \in Requests, ReadLen(r)
  PROVE  Looks(r)
<1> DEFINE n == SegLen(header[server[r]])
<1>1. n \in Nat
  BY PathLengths DEF TypeOK
<1>2. req' = [req EXCEPT ![r].stage = "last", ![r].n = n]
  BY DEF ReadLen
<1> HIDE DEF n
<1> DEFINE entry == [req[r] EXCEPT !.stage = "last", !.n = n]
<1>3. req' = [req EXCEPT ![r] = entry]
  BY <1>2 DEF TypeOK, Request
<1>4. entry \in Request
  <2>1. req[r] \in Request /\ "last" \in Stages /\ n \in Nat
    BY <1>1 DEF TypeOK, Stages
  <2> DEFINE e1 == [req[r] EXCEPT !.stage = "last"]
  <2>2. e1 \in Request
    BY <2>1, FieldTypes
  <2> HIDE DEF e1
  <2> DEFINE e2 == [e1 EXCEPT !.n = n]
  <2>3. e2 \in Request
    BY <2>1, <2>2, FieldTypes
  <2> HIDE DEF e2
  <2>4. QED
    BY <2>3 DEF e1, e2
<1>5. /\ entry.method = req[r].method /\ entry.path = req[r].path
      /\ entry.client = req[r].client /\ entry.myself = req[r].myself
      /\ entry.todo = req[r].todo
      /\ entry.stage = "last" /\ entry.found = req[r].found
      /\ entry.unique = req[r].unique /\ entry.n = n /\ entry.answer = req[r].answer
  BY DEF TypeOK, Request
<1> HIDE DEF entry
<1>6. Others(r) /\ req'[r] = entry
  BY <1>3, <1>4, <1>5, EntryFrame
<1>7. QED
  BY <1>5, <1>6 DEF ReadLen, Looks, Handles, n

\* s.Seg() after it does the same.
LEMMA ReadLastLooks ==
  ASSUME TypeOK, NEW r \in Requests, ReadLast(r)
  PROVE  Looks(r)
<1>0. PICK last \in SegAt(header[server[r]], req[r].n - 1) :
        req' = [req EXCEPT ![r].stage = "odd", ![r].named = last # Blank]
  BY DEF ReadLast
<1> DEFINE named == last # Blank
<1>1. named \in BOOLEAN
  OBVIOUS
<1>2. req' = [req EXCEPT ![r].stage = "odd", ![r].named = named]
  BY <1>0
<1> HIDE DEF named
<1> DEFINE entry == [req[r] EXCEPT !.stage = "odd", !.named = named]
<1>3. req' = [req EXCEPT ![r] = entry]
  BY <1>2 DEF TypeOK, Request
<1>4. entry \in Request
  <2>1. req[r] \in Request /\ "odd" \in Stages /\ named \in BOOLEAN
    BY <1>1 DEF TypeOK, Stages
  <2> DEFINE e1 == [req[r] EXCEPT !.stage = "odd"]
  <2>2. e1 \in Request
    BY <2>1, FieldTypes
  <2> HIDE DEF e1
  <2> DEFINE e2 == [e1 EXCEPT !.named = named]
  <2>3. e2 \in Request
    BY <2>1, <2>2, FieldTypes
  <2> HIDE DEF e2
  <2>4. QED
    BY <2>3 DEF e1, e2
<1>5. /\ entry.method = req[r].method /\ entry.path = req[r].path
      /\ entry.client = req[r].client /\ entry.myself = req[r].myself
      /\ entry.todo = req[r].todo
      /\ entry.stage = "odd" /\ entry.found = req[r].found
      /\ entry.unique = req[r].unique /\ entry.n = req[r].n
      /\ entry.named = named /\ entry.answer = req[r].answer
  BY DEF TypeOK, Request
<1> HIDE DEF entry
<1>6. Others(r) /\ req'[r] = entry
  BY <1>3, <1>4, <1>5, EntryFrame
<1>7. Handles(r) /\ UNCHANGED orders /\ req[r].stage = "last"
  BY <1>5, <1>6 DEF ReadLast, Handles
<1>8. QED
  BY <1>5, <1>6, <1>7 DEF Looks, named

\* The form of the answer follows what was looked at.
LEMMA AnswerAnswers ==
  ASSUME TypeOK, NEW r \in Requests, Answer(r)
  PROVE  Answers(r)
<1> DEFINE one == SegLen(header[server[r]]) % 2 = 1 /\ req[r].named /\ req[r].unique
           answer == IF ~ one THEN "list"
                     ELSE IF req[r].found = {} THEN "not_found" ELSE "one"
<1>1. answer \in {"one", "list", "not_found"}
  OBVIOUS
<1>2. req' = [req EXCEPT ![r].stage = "done", ![r].answer = answer]
  BY DEF Answer
<1> HIDE DEF answer
<1> DEFINE entry == [req[r] EXCEPT !.stage = "done", !.answer = answer]
<1>3. req' = [req EXCEPT ![r] = entry]
  BY <1>2 DEF TypeOK, Request
<1>4. entry \in Request
  <2>1. req[r] \in Request /\ "done" \in Stages /\ answer \in Kinds
    BY <1>1 DEF TypeOK, Stages, Kinds
  <2> DEFINE e1 == [req[r] EXCEPT !.stage = "done"]
  <2>2. e1 \in Request
    BY <2>1, FieldTypes
  <2> HIDE DEF e1
  <2> DEFINE e2 == [e1 EXCEPT !.answer = answer]
  <2>3. e2 \in Request
    BY <2>1, <2>2, FieldTypes
  <2> HIDE DEF e2
  <2>4. QED
    BY <2>3 DEF e1, e2
<1>5. /\ entry.method = req[r].method /\ entry.path = req[r].path
      /\ entry.client = req[r].client /\ entry.myself = req[r].myself
      /\ entry.todo = req[r].todo
      /\ entry.stage = "done" /\ entry.found = req[r].found
      /\ entry.unique = req[r].unique /\ entry.answer = answer
  BY DEF TypeOK, Request
<1> HIDE DEF entry
<1>6. Others(r) /\ req'[r] = entry
  BY <1>3, <1>4, <1>5, EntryFrame
<1>7. Handles(r) /\ UNCHANGED orders /\ req[r].stage = "odd"
  BY <1>5, <1>6 DEF Answer, Handles
<1>8. QED
  BY <1>5, <1>6, <1>7 DEF Answers, answer

\* Order.Delete removes what it reports, or nothing.
LEMMA DeleteDeletes ==
  ASSUME TypeOK, NEW r \in Requests, Delete(r)
  PROVE  Deletes(r)
<1> DEFINE gone == {o \in orders : /\ owner[o] = req[r].client
                                   /\ Named(req[r].segs) => o = First(req[r].segs)}
<1>1. CASE /\ orders' = orders \ gone
           /\ req' = [req EXCEPT ![r].stage = "done", ![r].answer = "deleted",
                                 ![r].found = gone]
  <2>1. gone \in SUBSET Orders
    BY DEF TypeOK
  <2> HIDE DEF gone
  <2> DEFINE entry == [req[r] EXCEPT !.stage = "done", !.answer = "deleted", !.found = gone]
  <2>2. req' = [req EXCEPT ![r] = entry]
    BY <1>1 DEF TypeOK, Request
  <2>3. entry \in Request
    <3>1. req[r] \in Request /\ "done" \in Stages /\ "deleted" \in Kinds /\ gone \in SUBSET Orders
      BY <2>1 DEF TypeOK, Stages, Kinds
    <3> DEFINE e1 == [req[r] EXCEPT !.stage = "done"]
    <3>2. e1 \in Request
      BY <3>1, FieldTypes
    <3> HIDE DEF e1
    <3> DEFINE e2 == [e1 EXCEPT !.answer = "deleted"]
    <3>3. e2 \in Request
      BY <3>1, <3>2, FieldTypes
    <3> HIDE DEF e2
    <3> DEFINE e3 == [e2 EXCEPT !.found = gone]
    <3>4. e3 \in Request
      BY <3>1, <3>3, FieldTypes
    <3> HIDE DEF e3
    <3>5. QED
      BY <3>4 DEF e1, e2, e3
  <2>4. /\ entry.method = req[r].method /\ entry.path = req[r].path
        /\ entry.client = req[r].client /\ entry.myself = req[r].myself
        /\ entry.todo = req[r].todo
        /\ entry.stage = "done" /\ entry.found = gone /\ entry.unique = req[r].unique
        /\ entry.answer = "deleted"
    BY DEF TypeOK, Request
  <2> HIDE DEF entry
  <2>5. Others(r) /\ req'[r] = entry
    BY <2>2, <2>3, <2>4, EntryFrame
  <2>6. /\ Handles(r) /\ req[r].stage = "act" /\ orders' = orders \ gone
        /\ req'[r].stage = "done" /\ req'[r].unique = req[r].unique
        /\ req'[r].answer = "deleted" /\ req'[r].found = gone
    BY <1>1, <2>4, <2>5 DEF Delete, Handles
  <2>7. QED
    BY <2>6 DEF Deletes, gone
<1>2. CASE UNCHANGED orders /\ req' = [req EXCEPT ![r].stage = "done"]
  <2>1. /\ Others(r) /\ req'[r].todo = req[r].todo
        /\ req'[r].stage = "done"
        /\ req'[r].found = req[r].found /\ req'[r].unique = req[r].unique
        /\ req'[r].answer = req[r].answer
    BY <1>2, EndFrame
  <2>2. QED
    BY <1>2, <2>1 DEF Delete, Deletes, Handles
<1>3. QED
  BY <1>1, <1>2 DEF Delete

\* A request for another resource ends.
LEMMA ElsewhereCopies ==
  ASSUME TypeOK, NEW r \in Requests, Elsewhere(r)
  PROVE  Copies(r)
<1>1. req' = [req EXCEPT ![r].stage = "done"] /\ req[r].stage = "act"
  BY DEF Elsewhere
<1>2. /\ Others(r) /\ req'[r].todo = req[r].todo /\ req'[r].stage = "done"
      /\ req'[r].found = req[r].found /\ req'[r].unique = req[r].unique
      /\ req'[r].answer = req[r].answer
  BY <1>1, EndFrame
<1>3. QED
  BY <1>1, <1>2 DEF Elsewhere, Copies, Handles

-----------------------------------------------------------------------------
(***************************************************************************)
(* Every step is one of these.                                             *)
(***************************************************************************)

Step(r) ==
  \/ \E w \in Words : Stores(r, w)
  \/ Copies(r) \/ Reads(r) \/ Looks(r) \/ Answers(r) \/ Deletes(r)

\* A step of the specification stores a word or goes on with one request.
LEMMA NextSteps ==
  ASSUME TypeOK, Next
  PROVE  \E r \in Requests : Step(r)
<1>1. PICK r \in Requests :
        \/ \E w \in {"ptr", "len"} : StoreWord(r, w)
        \/ Copy(r) \/ Elsewhere(r)
        \/ Read(r) \/ ReadLen(r) \/ ReadLast(r) \/ Answer(r) \/ Delete(r)
  BY DEF Next
<1>2. CASE \E w \in {"ptr", "len"} : StoreWord(r, w)
  BY <1>2, StoreWordStores DEF Step, Words
<1>3. CASE Copy(r)
  BY <1>3, CopyCopies DEF Step
<1>4. CASE Read(r)
  BY <1>4, ReadReads DEF Step
<1>5. CASE ReadLen(r)
  BY <1>5, ReadLenLooks DEF Step
<1>6. CASE ReadLast(r)
  BY <1>6, ReadLastLooks DEF Step
<1>7. CASE Answer(r)
  BY <1>7, AnswerAnswers DEF Step
<1>8. CASE Delete(r)
  BY <1>8, DeleteDeletes DEF Step
<1>9. CASE Elsewhere(r)
  BY <1>9, ElsewhereCopies DEF Step
<1>10. QED
  BY <1>1, <1>2, <1>3, <1>4, <1>5, <1>6, <1>7, <1>8, <1>9

\* Whatever the step, nobody changes server or path, and orders only go.
LEMMA StepFrame ==
  ASSUME TypeOK, NEW r \in Requests, Step(r)
  PROVE  /\ Others(r) /\ UNCHANGED <<server, owner>> /\ orders' \subseteq orders
         /\ \A q \in Requests : req'[q].path = req[q].path
BY DEF Step, Stores, Copies, Reads, Looks, Answers, Deletes, Handles, Others

\* A step that is no store is a step of a handler.
LEMMA StepHandles ==
  ASSUME NEW r \in Requests, Step(r), ~ \E w \in Words : Stores(r, w)
  PROVE  Handles(r)
BY DEF Step, Copies, Reads, Looks, Answers, Deletes

-----------------------------------------------------------------------------
(***************************************************************************)
(* What a header says.                                                     *)
(***************************************************************************)

\* A header that names an order points to a path that begins with it.
LEMMA NamedWasAskedFor ==
  ASSUME TypeOK, NEW h \in Segments, Named(h)
  PROVE  /\ h.ptr \in Requests /\ req[h.ptr].path # <<>>
         /\ First(h) = req[h.ptr].path[1]
<1>1. h.ptr \in Word
  BY DEF Segments
<1>2. First(h) # Blank
  BY DEF Named
<1>3. PathOf(h.ptr) # <<>>
  <2>1. ASSUME PathOf(h.ptr) = <<>>
        PROVE  FALSE
    <3>1. Array(h.ptr) = <<Blank, Name>>
      BY <2>1 DEF Array
    <3>2. QED
      BY <1>2, <3>1 DEF First
  <2>2. QED
    BY <2>1
<1>4. h.ptr # Nobody
  BY <1>3 DEF PathOf
<1>5. QED
  BY <1>1, <1>3, <1>4 DEF First, Array, PathOf, Word

\* A header of one request says what the path of that request says.
LEMMA OwnHeader ==
  ASSUME TypeOK, NEW r \in Requests, NEW h \in Segments, h.ptr = r, h.len = r
  PROVE  /\ SegLen(h) = Len(req[r].path)
         /\ Named(h) <=> Names(req[r].path)
         /\ Named(h) => First(h) = req[r].path[1]
         /\ \A last \in SegAt(h, Len(req[r].path) - 1) :
              last # Blank <=> EndsNamed(req[r].path)
<1> DEFINE p == req[r].path
<1>1. r # Nobody
  BY SegmentsAssumption
<1>2. PathOf(h.ptr) = p /\ PathOf(h.len) = p
  BY <1>1 DEF PathOf
<1>3. Len(p) \in Nat /\ (p = <<>> <=> Len(p) = 0)
  BY PathLengths
<1>4. SegLen(h) = Len(p)
  BY <1>2 DEF SegLen
<1> HIDE DEF p
<1>5. CASE p = <<>>
  <2>1. ~ Named(h) /\ ~ Names(p) /\ ~ EndsNamed(p)
    BY <1>3, <1>4, <1>5 DEF Named, Names, EndsNamed
  <2>2. SegAt(h, Len(p) - 1) = {Blank}
    BY <1>3, <1>4, <1>5 DEF SegAt
  <2>3. QED
    BY <1>4, <2>1, <2>2 DEF p
<1>6. CASE p # <<>>
  <2>1. Array(h.ptr) = p
    BY <1>2, <1>6 DEF Array
  <2>2. First(h) = p[1] /\ (Named(h) <=> Names(p))
    BY <1>3, <1>4, <1>6, <2>1 DEF First, Named, Names
  <2>3. /\ Len(p) - 1 \in 0 .. SegLen(h) - 1 /\ Len(p) - 1 < Len(Array(h.ptr))
        /\ (Len(p) - 1) + 1 = Len(p)
    BY <1>3, <1>4, <1>6, <2>1
  <2>4. SegAt(h, Len(p) - 1) = {p[Len(p)]}
    BY <2>1, <2>3 DEF SegAt
  <2>5. QED
    BY <1>4, <1>6, <2>2, <2>4 DEF p, EndsNamed
<1>7. QED
  BY <1>5, <1>6

-----------------------------------------------------------------------------
(***************************************************************************)
(* What a step keeps.                                                      *)
(***************************************************************************)

\* The types.
LEMMA KeptTypes ==
  ASSUME TypeOK, NEW r \in Requests, Step(r)
  PROVE  TypeOK'
<1>1. /\ req' \in [Requests -> Request] /\ UNCHANGED <<server, owner>>
      /\ orders' \subseteq orders
  BY StepFrame DEF Others
<1>2. header' \in [Servers -> Segments] /\ past' \in [Requests -> SUBSET Requests]
  <2>1. CASE \E w \in Words : Stores(r, w)
    BY <2>1 DEF Stores
  <2>2. CASE ~ \E w \in Words : Stores(r, w)
    BY <2>2, StepHandles DEF Handles, TypeOK
  <2>3. QED
    BY <2>1, <2>2
<1>3. QED
  BY <1>1, <1>2 DEF TypeOK

\* A request stores first.
LEMMA KeptStoresFirst ==
  ASSUME TypeOK, StoresFirst, NEW r \in Requests, Step(r)
  PROVE  StoresFirst'
<1>1. \A q \in Requests \ {r} : req'[q] = req[q]
  BY StepFrame DEF Others
<1>2. req'[r].stage = "store" <=> req'[r].todo # {}
  <2>1. CASE \E w \in Words : Stores(r, w)
    <3>1. PICK w \in Words : Stores(r, w)
      BY <2>1
    <3>2. /\ w \in req[r].todo /\ req'[r].todo = req[r].todo \ {w}
          /\ req'[r].stage = IF req[r].todo = {w} THEN "copy" ELSE "store"
      BY <3>1 DEF Stores
    <3>3. req[r].todo = {w} <=> req'[r].todo = {}
      BY <3>2
    <3>4. QED
      BY <3>2, <3>3
  <2>2. CASE ~ \E w \in Words : Stores(r, w)
    BY <2>2, StepHandles DEF Handles, StoresFirst
  <2>3. QED
    BY <2>1, <2>2
<1>3. QED
  BY <1>1, <1>2 DEF StoresFirst

\* Who was there before has stored everything.
LEMMA KeptPastIsStored ==
  ASSUME TypeOK, PastIsStored, NEW r \in Requests, Step(r)
  PROVE  PastIsStored'
<1>1. CASE \E w \in Words : Stores(r, w)
  <2>1. PICK w \in Words : Stores(r, w)
    BY <1>1
  <2>2. /\ \A q \in Requests \ {r} : req'[q] = req[q] /\ past'[q] = past[q]
        /\ w \in req[r].todo /\ req'[r].todo = req[r].todo \ {w}
        /\ past'[r] = IF req[r].todo = Words THEN Stored ELSE past[r]
    BY <2>1 DEF Stores, Others
  <2>3. \A q \in Requests : r \notin past[q]
    BY <2>2 DEF PastIsStored
  <2>4. \A q \in Requests : past[q] \subseteq Requests
    BY DEF TypeOK
  <2>5. ASSUME NEW q \in Requests \ {r}
        PROVE  /\ req'[q].todo = Words => past'[q] = {}
               /\ q \notin past'[q]
               /\ \A p \in past'[q] : req'[p].todo = {}
    BY <2>2, <2>3, <2>4 DEF PastIsStored
  <2>6. req'[r].todo # Words
    BY <2>2
  <2>7. r \notin past'[r] /\ \A p \in past'[r] : req'[p].todo = {}
    <3>1. CASE req[r].todo = Words
      <4>1. past'[r] = Stored /\ r \notin Stored
        BY <2>2, <3>1 DEF Stored
      <4>2. QED
        BY <2>2, <4>1 DEF Stored
    <3>2. CASE req[r].todo # Words
      BY <2>2, <2>3, <2>4, <3>2 DEF PastIsStored
    <3>3. QED
      BY <3>1, <3>2
  <2>8. QED
    BY <2>5, <2>6, <2>7 DEF PastIsStored
<1>2. CASE ~ \E w \in Words : Stores(r, w)
  <2>1. past' = past /\ \A q \in Requests : req'[q].todo = req[q].todo
    BY <1>2, StepHandles DEF Handles, Others
  <2>2. \A q \in Requests : past[q] \subseteq Requests
    BY DEF TypeOK
  <2>3. QED
    BY <2>1, <2>2 DEF PastIsStored
<1>3. QED
  BY <1>1, <1>2

\* A word that is stored over another is not of the past.
LEMMA KeptWordsAreRecent ==
  ASSUME TypeOK, PastIsStored, PastIsStored', WordsAreRecent,
         NEW r \in Requests, Step(r)
  PROVE  WordsAreRecent'
<1>1. CASE \E w \in Words : Stores(r, w)
  <2>1. PICK w \in Words : Stores(r, w)
    BY <1>1
  <2>2. /\ \A q \in Requests \ {r} : req'[q] = req[q] /\ past'[q] = past[q]
        /\ w \in req[r].todo /\ req'[r].todo = req[r].todo \ {w}
        /\ past'[r] = IF req[r].todo = Words THEN Stored ELSE past[r]
    BY <2>1 DEF Stores, Others
  <2>3. /\ server' = server
        /\ \A s \in Servers \ {server[r]} : header'[s] = header[s]
        /\ header'[server[r]].ptr = IF w = "ptr" THEN r ELSE header[server[r]].ptr
        /\ header'[server[r]].len = IF w = "len" THEN r ELSE header[server[r]].len
    BY <2>1 DEF Stores
  <2>4. \A q \in Requests : server[q] \in Servers
    BY DEF TypeOK
  <2>5. r # Nobody /\ \A q \in Requests : r \notin past[q]
    BY <2>2, SegmentsAssumption DEF PastIsStored
  <2>6. ASSUME NEW q \in Requests \ {r}
        PROVE  /\ "ptr" \notin req'[q].todo =>
                    header'[server'[q]].ptr \notin past'[q] \cup {Nobody}
               /\ "len" \notin req'[q].todo =>
                    header'[server'[q]].len \notin past'[q] \cup {Nobody}
    <3>1. CASE server[q] = server[r]
      BY <2>2, <2>3, <2>5, <3>1 DEF WordsAreRecent
    <3>2. CASE server[q] # server[r]
      BY <2>2, <2>3, <2>4, <3>2 DEF WordsAreRecent
    <3>3. QED
      BY <3>1, <3>2
  <2>7. r \notin past'[r]
    BY DEF PastIsStored
  <2>8. ASSUME "ptr" \notin req'[r].todo
        PROVE  header'[server'[r]].ptr \notin past'[r] \cup {Nobody}
    BY <2>2, <2>3, <2>5, <2>7, <2>8 DEF WordsAreRecent, Words
  <2>9. ASSUME "len" \notin req'[r].todo
        PROVE  header'[server'[r]].len \notin past'[r] \cup {Nobody}
    BY <2>2, <2>3, <2>5, <2>7, <2>9 DEF WordsAreRecent, Words
  <2>10. QED
    BY <2>6, <2>8, <2>9 DEF WordsAreRecent
<1>2. CASE ~ \E w \in Words : Stores(r, w)
  <2>1. /\ UNCHANGED <<past, header, server>>
        /\ \A q \in Requests : req'[q].todo = req[q].todo
    BY <1>2, StepHandles DEF Handles, Others
  <2>2. QED
    BY <2>1 DEF WordsAreRecent
<1>3. QED
  BY <1>1, <1>2

\* What is copied is what is in the server, and that is not of the past.
LEMMA KeptNeverStale ==
  ASSUME TypeOK, StoresFirst, WordsAreRecent, NeverStale, NEW r \in Requests, Step(r)
  PROVE  NeverStale'
<1>1. \A q \in Requests \ {r} : req'[q] = req[q]
  BY StepFrame DEF Others
<1>2. \A q \in Requests \ {r} : past'[q] = past[q]
  <2>1. CASE \E w \in Words : Stores(r, w)
    BY <2>1 DEF Stores
  <2>2. CASE ~ \E w \in Words : Stores(r, w)
    BY <2>2, StepHandles DEF Handles
  <2>3. QED
    BY <2>1, <2>2
<1>3. ASSUME req'[r].stage = "act"
      PROVE  /\ req'[r].segs.ptr \notin past'[r] \cup {Nobody}
             /\ req'[r].segs.len \notin past'[r] \cup {Nobody}
  <2>1. ~ \E w \in Words : Stores(r, w)
    BY <1>3 DEF Stores
  <2>2. Copies(r)
    BY <1>3, <2>1 DEF Step, Reads, Looks, Answers, Deletes
  <2>3. /\ req[r].stage = "copy" /\ req'[r].segs = header[server[r]]
        /\ past' = past
    BY <1>3, <2>2 DEF Copies, Handles
  <2>4. req[r].todo = {}
    BY <2>3 DEF StoresFirst
  <2>5. QED
    BY <2>3, <2>4 DEF WordsAreRecent
<1>4. QED
  BY <1>1, <1>2, <1>3 DEF NeverStale

\* Only the last step of a request answers it, and only a read makes it unique.
LEMMA KeptUnanswered ==
  ASSUME TypeOK, Unanswered, NEW r \in Requests, Step(r)
  PROVE  Unanswered'
<1>1. \A q \in Requests \ {r} : req'[q] = req[q]
  BY StepFrame DEF Others
<1>2. ASSUME req'[r].stage # "done"
      PROVE  req'[r].answer = "none"
  BY <1>2 DEF Unanswered, Step, Stores, Copies, Reads, Looks, Answers, Deletes
<1>3. ASSUME req'[r].stage \in {"store", "copy", "act"}
      PROVE  ~ req'[r].unique
  BY <1>3 DEF Unanswered, Step, Stores, Copies, Reads, Looks, Answers, Deletes
<1>4. QED
  BY <1>1, <1>2, <1>3 DEF Unanswered

\* What is found for a header that names an order is that order.
LEMMA KeptFoundWasAskedFor ==
  ASSUME TypeOK, Unanswered, FoundWasAskedFor, NEW r \in Requests, Step(r)
  PROVE  FoundWasAskedFor'
<1>1. /\ \A q \in Requests \ {r} : req'[q] = req[q]
      /\ \A q \in Requests : req'[q].path = req[q].path
  BY StepFrame DEF Others
<1>2. ASSUME req'[r].unique
      PROVE  \E q \in Requests : /\ req[q].path # <<>>
                                 /\ req'[r].found \subseteq {req[q].path[1]}
  <2>1. CASE req'[r].found = req[r].found /\ req'[r].unique = req[r].unique
    BY <1>2, <2>1 DEF FoundWasAskedFor
  <2>2. CASE Reads(r) /\ req'[r].stage = "len"
    <3>1. /\ Named(req[r].segs)
          /\ req'[r].found \subseteq {First(req[r].segs)}
      BY <1>2, <2>2 DEF Reads
    <3>2. req[r].segs \in Segments
      BY DEF TypeOK, Request
    <3>3. /\ req[r].segs.ptr \in Requests /\ req[req[r].segs.ptr].path # <<>>
          /\ First(req[r].segs) = req[req[r].segs.ptr].path[1]
      BY <3>1, <3>2, NamedWasAskedFor
    <3>4. QED
      BY <3>1, <3>3
  <2>3. CASE Deletes(r)
    BY <1>2, <2>3 DEF Deletes, Unanswered
  <2>4. QED
    <3>1. req[r].unique \in BOOLEAN /\ req'[r].unique \in BOOLEAN
      BY StepFrame DEF TypeOK, Request, Others
    <3>2. CASE \E w \in Words : Stores(r, w)
      BY <2>1, <3>2 DEF Stores
    <3>3. CASE Copies(r)
      BY <2>1, <3>3 DEF Copies
    <3>4. CASE Reads(r)
      BY <2>1, <2>2, <3>1, <3>4 DEF Reads
    <3>5. CASE Looks(r)
      BY <2>1, <3>1, <3>5 DEF Looks
    <3>6. CASE Answers(r)
      BY <2>1, <3>1, <3>6 DEF Answers
    <3>7. QED
      BY <2>3, <3>2, <3>3, <3>4, <3>5, <3>6 DEF Step
<1>3. QED
  BY <1>1, <1>2 DEF FoundWasAskedFor

\* An answer about one order is about the one that was found.
LEMMA KeptOneWasAskedFor ==
  ASSUME TypeOK, Unanswered, Unanswered', FoundWasAskedFor, OneWasAskedFor,
         NEW r \in Requests, Step(r)
  PROVE  OneWasAskedFor'
<1>1. /\ \A q \in Requests \ {r} : req'[q] = req[q]
      /\ \A q \in Requests : req'[q].path = req[q].path
  BY StepFrame DEF Others
<1>2. ASSUME req'[r].answer = "one"
      PROVE  \E q \in Requests : /\ req[q].path # <<>>
                                 /\ req'[r].found = {req[q].path[1]}
  <2>1. req'[r].stage = "done"
    BY <1>2 DEF Unanswered
  <2>2. req[r].stage # "done"
    BY DEF Step, Stores, Copies, Reads, Looks, Answers, Deletes
  <2>3. req[r].answer = "none"
    BY <2>2 DEF Unanswered
  <2>4. Answers(r)
    BY <1>2, <2>3 DEF Step, Stores, Copies, Reads, Looks, Answers, Deletes
  <2>5. req'[r].found = req[r].found /\ req[r].unique /\ req[r].found # {}
    BY <1>2, <2>4 DEF Answers
  <2>6. QED
    BY <2>5 DEF FoundWasAskedFor
<1>3. QED
  BY <1>1, <1>2 DEF OneWasAskedFor

\* Nobody else stores in the server of a request that is alone.
LEMMA KeptOwnWords ==
  ASSUME TypeOK, StoresFirst, OwnWords, NEW r \in Requests, Step(r)
  PROVE  OwnWords'
<1>1. /\ \A q \in Requests \ {r} : req'[q] = req[q]
      /\ server' = server
  BY StepFrame DEF Others
<1>2. \A q \in Requests : Alone(q)' <=> Alone(q)
  BY <1>1 DEF Alone
<1>3. \A q \in Requests \ {r} : Alone(q) => header'[server[q]] = header[server[q]]
  <2>1. CASE \E w \in Words : Stores(r, w)
    BY <2>1 DEF Stores, Alone, TypeOK
  <2>2. CASE ~ \E w \in Words : Stores(r, w)
    BY <2>2, StepHandles DEF Handles
  <2>3. QED
    BY <2>1, <2>2
<1>4. ASSUME Alone(r)
      PROVE  /\ "ptr" \notin req'[r].todo => header'[server[r]].ptr = r
             /\ "len" \notin req'[r].todo => header'[server[r]].len = r
             /\ req'[r].stage = "act" => req'[r].segs.ptr = r /\ req'[r].segs.len = r
  <2>1. CASE \E w \in Words : Stores(r, w)
    <3>1. PICK w \in Words : Stores(r, w)
      BY <2>1
    <3>2. /\ req'[r].todo = req[r].todo \ {w} /\ req'[r].stage # "act"
          /\ header'[server[r]].ptr = IF w = "ptr" THEN r ELSE header[server[r]].ptr
          /\ header'[server[r]].len = IF w = "len" THEN r ELSE header[server[r]].len
      BY <3>1 DEF Stores
    <3>3. QED
      BY <1>4, <3>2 DEF OwnWords
  <2>2. CASE ~ \E w \in Words : Stores(r, w)
    <3>1. /\ header' = header /\ req'[r].todo = req[r].todo
          /\ req[r].stage # "store"
      BY <2>2, StepHandles DEF Handles
    <3>2. req[r].todo = {}
      BY <3>1 DEF StoresFirst
    <3>3. header[server[r]].ptr = r /\ header[server[r]].len = r
      BY <1>4, <3>2 DEF OwnWords
    <3>4. req'[r].stage = "act" => req'[r].segs = header[server[r]]
      BY <2>2 DEF Step, Copies, Reads, Looks, Answers, Deletes
    <3>5. QED
      BY <3>1, <3>3, <3>4
  <2>3. QED
    BY <2>1, <2>2
<1>5. QED
  BY <1>1, <1>2, <1>3, <1>4 DEF OwnWords

\* Alone, what is read and looked at is of the request's own path.
LEMMA KeptOwnForm ==
  ASSUME TypeOK, StoresFirst, OwnWords, OwnForm, NEW r \in Requests, Step(r)
  PROVE  OwnForm'
<1>1. /\ \A q \in Requests \ {r} : req'[q] = req[q]
      /\ server' = server /\ req'[r].path = req[r].path
  BY StepFrame DEF Others
<1>2. \A q \in Requests : Alone(q)' <=> Alone(q)
  BY <1>1 DEF Alone
<1> DEFINE Form(q) ==
      /\ req'[q].stage \in {"len", "last", "odd"} =>
           /\ req'[q].unique <=> Names(req[q].path)
           /\ Names(req[q].path) => req'[q].found \subseteq {req[q].path[1]}
      /\ req'[q].stage \in {"last", "odd"} => req'[q].n = Len(req[q].path)
      /\ req'[q].stage = "odd" => (req'[q].named <=> EndsNamed(req[q].path))
<1>3. ASSUME Alone(r)
      PROVE  Form(r)
  <2>1. CASE req'[r].stage \notin {"len", "last", "odd"}
    BY <2>1
  <2>2. CASE Reads(r) /\ req'[r].stage = "len"
    <3>1. /\ req[r].stage = "act" /\ (req'[r].unique <=> Named(req[r].segs))
          /\ Named(req[r].segs) => req'[r].found \subseteq {First(req[r].segs)}
      BY <2>2 DEF Reads
    <3>2. /\ req[r].segs \in Segments
          /\ req[r].segs.ptr = r /\ req[r].segs.len = r
      BY <1>3, <3>1 DEF OwnWords, TypeOK, Request
    <3>3. /\ Named(req[r].segs) <=> Names(req[r].path)
          /\ Named(req[r].segs) => First(req[r].segs) = req[r].path[1]
      BY <3>2, OwnHeader
    <3>4. QED
      BY <2>2, <3>1, <3>3
  <2>3. CASE Looks(r)
    <3>1. /\ req[r].stage # "store"
          /\ req'[r].found = req[r].found /\ (req'[r].unique <=> req[r].unique)
          /\ \/ /\ req[r].stage = "len" /\ req'[r].stage = "last"
                /\ req'[r].n = SegLen(header[server[r]])
             \/ /\ req[r].stage = "last" /\ req'[r].stage = "odd"
                /\ req'[r].n = req[r].n
                /\ \E last \in SegAt(header[server[r]], req[r].n - 1) :
                     req'[r].named <=> last # Blank
      BY <2>3 DEF Looks, Handles
    <3>2. req[r].todo = {}
      BY <3>1 DEF StoresFirst
    <3>3. /\ header[server[r]] \in Segments
          /\ header[server[r]].ptr = r /\ header[server[r]].len = r
      BY <1>3, <3>2 DEF OwnWords, TypeOK
    <3>4. /\ SegLen(header[server[r]]) = Len(req[r].path)
          /\ \A last \in SegAt(header[server[r]], Len(req[r].path) - 1) :
               last # Blank <=> EndsNamed(req[r].path)
      BY <3>3, OwnHeader
    <3>5. /\ req[r].unique <=> Names(req[r].path)
          /\ Names(req[r].path) => req[r].found \subseteq {req[r].path[1]}
          /\ req[r].stage = "last" => req[r].n = Len(req[r].path)
      BY <1>3, <3>1 DEF OwnForm
    <3>7. CASE req[r].stage = "len"
      BY <3>1, <3>4, <3>5, <3>7
    <3>8. CASE req[r].stage = "last"
      BY <3>1, <3>4, <3>5, <3>8
    <3>9. QED
      BY <3>1, <3>7, <3>8
  <2>4. QED
    BY <2>1, <2>2, <2>3 DEF Step, Stores, Copies, Reads, Answers, Deletes
<1>4. ASSUME NEW q \in Requests \ {r}, Alone(q)
      PROVE  Form(q)
  BY <1>1, <1>4 DEF OwnForm
<1>5. ASSUME NEW q \in Requests, Alone(q)'
      PROVE  Form(q) /\ req'[q].path = req[q].path
  <2>1. Alone(q)
    BY <1>2, <1>5
  <2>2. QED
    BY <1>1, <1>3, <1>4, <2>1
<1>6. QED
  BY <1>5 DEF OwnForm

\* Alone, the answer is of the request's own path, and stays so.
LEMMA KeptOwnServerOwnPath ==
  ASSUME TypeOK, StoresFirst, Unanswered, OwnWords, OwnForm, OwnServerOwnPath,
         NEW r \in Requests, Step(r)
  PROVE  OwnServerOwnPath'
<1>1. /\ \A q \in Requests \ {r} : req'[q] = req[q]
      /\ UNCHANGED <<server, owner>> /\ orders' \subseteq orders
      /\ req'[r].path = req[r].path /\ req'[r].client = req[r].client
  BY StepFrame DEF Others
<1>2. \A q \in Requests : Alone(q)' <=> Alone(q)
  BY <1>1 DEF Alone
<1> DEFINE Own(q) ==
      /\ req'[q].answer \in {"one", "not_found"} => AsksForOne(req[q].path)
      /\ req'[q].answer = "list" => ~ AsksForOne(req[q].path)
      /\ req'[q].answer # "none" /\ Names(req[q].path) =>
           req'[q].found \subseteq {req[q].path[1]}
      /\ req'[q].answer = "deleted" =>
           \A o \in orders' : owner[o] = req[q].client =>
             Names(req[q].path) /\ o # req[q].path[1]
<1>3. req[r].stage # "done" /\ req[r].answer = "none"
  <2>1. req[r].stage # "done"
    BY DEF Step, Stores, Copies, Reads, Looks, Answers, Deletes
  <2>2. QED
    BY <2>1 DEF Unanswered
<1>4. ASSUME Alone(r)
      PROVE  Own(r)
  <2>1. CASE req'[r].answer = "none"
    BY <2>1
  <2>2. CASE Answers(r)
    <3>1. /\ req[r].stage = "odd" /\ req[r].stage # "store"
          /\ req'[r].found = req[r].found
          /\ req'[r].answer =
               IF ~ (SegLen(header[server[r]]) % 2 = 1 /\ req[r].named /\ req[r].unique)
               THEN "list"
               ELSE IF req[r].found = {} THEN "not_found" ELSE "one"
      BY <2>2 DEF Answers
    <3>2. req[r].todo = {}
      BY <3>1 DEF StoresFirst
    <3>3. /\ header[server[r]] \in Segments
          /\ header[server[r]].ptr = r /\ header[server[r]].len = r
      BY <1>4, <3>2 DEF OwnWords, TypeOK
    <3>4. SegLen(header[server[r]]) = Len(req[r].path)
      BY <3>3, OwnHeader
    <3>5. /\ req[r].unique <=> Names(req[r].path)
          /\ Names(req[r].path) => req[r].found \subseteq {req[r].path[1]}
          /\ req[r].named <=> EndsNamed(req[r].path)
      BY <1>4, <3>1 DEF OwnForm
    <3>6. SegLen(header[server[r]]) % 2 = 1 /\ req[r].named /\ req[r].unique
            <=> AsksForOne(req[r].path)
      BY <3>4, <3>5 DEF AsksForOne, EndsNamed, Names
    <3>7. QED
      BY <3>1, <3>5, <3>6
  <2>3. CASE Deletes(r) /\ req'[r].answer # "none"
    <3> DEFINE h == req[r].segs
               gone == {o \in orders : /\ owner[o] = req[r].client
                                       /\ Named(h) => o = First(h)}
    <3>1. /\ req[r].stage = "act" /\ orders' = orders \ gone
          /\ req'[r].answer = "deleted" /\ req'[r].found = gone
      BY <1>3, <2>3 DEF Deletes
    <3>2. h \in Segments /\ h.ptr = r /\ h.len = r
      BY <1>4, <3>1 DEF OwnWords, TypeOK, Request
    <3>3. /\ Named(h) <=> Names(req[r].path)
          /\ Named(h) => First(h) = req[r].path[1]
      BY <3>2, OwnHeader
    <3>4. QED
      BY <3>1, <3>3
  <2>4. QED
    BY <1>3, <2>1, <2>2, <2>3 DEF Step, Stores, Copies, Reads, Looks
<1>5. ASSUME NEW q \in Requests \ {r}, Alone(q)
      PROVE  Own(q)
  BY <1>1, <1>5 DEF OwnServerOwnPath, Alone
<1>6. ASSUME NEW q \in Requests, Alone(q)'
      PROVE  Own(q) /\ req'[q].path = req[q].path /\ req'[q].client = req[q].client
  <2>1. Alone(q)
    BY <1>2, <1>6
  <2>2. QED
    BY <1>1, <1>4, <1>5, <2>1
<1>7. owner' = owner
  BY <1>1
<1>8. QED
  BY <1>6, <1>7 DEF OwnServerOwnPath, Alone

-----------------------------------------------------------------------------
(***************************************************************************)
(* The theorems.                                                           *)
(***************************************************************************)

\* Before any request, nothing is stored, read or answered.
LEMMA InitInvariant ==
  ASSUME Init
  PROVE  IInv
<1>1. \A r \in Requests :
        /\ req[r] \in Request
        /\ req[r].stage = "store" /\ req[r].todo = Words
        /\ ~ req[r].unique /\ req[r].answer = "none" /\ req[r].found = {}
  <2> TAKE r \in Requests
  <2>1. PICK m \in Methods, p \in Paths, own \in BOOLEAN, c \in Customers :
          req[r] = Fresh(m, p, own, c)
    BY DEF Init
  <2>2. NoSegments \in Segments
    BY DEF NoSegments, Segments, Word
  <2>3. Fresh(m, p, own, c) \in Request
    BY <2>2 DEF Fresh, Request
  <2>4. QED
    BY <2>1, <2>3 DEF Fresh, Words
<1>2. \A r \in Requests : past[r] = {}
  BY DEF Init
<1>3. TypeOK
  <2>1. NoSegments \in Segments
    BY DEF NoSegments, Segments, Word
  <2>2. header \in [Servers -> Segments] /\ past \in [Requests -> SUBSET Requests]
    BY <2>1 DEF Init
  <2>3. req \in [Requests -> Request]
    BY <1>1 DEF Init
  <2>4. QED
    BY <2>2, <2>3 DEF Init, TypeOK
<1>4. StoresFirst /\ PastIsStored /\ WordsAreRecent
  BY <1>1, <1>2 DEF StoresFirst, PastIsStored, WordsAreRecent, Words
<1>5. NeverStale /\ Unanswered /\ FoundWasAskedFor /\ OneWasAskedFor
  BY <1>1 DEF NeverStale, Unanswered, FoundWasAskedFor, OneWasAskedFor
<1>6. OwnWords /\ OwnForm /\ OwnServerOwnPath
  BY <1>1 DEF OwnWords, OwnForm, OwnServerOwnPath, Words
<1>7. QED
  BY <1>3, <1>4, <1>5, <1>6 DEF IInv

\* The conjuncts of the invariant hold each other up, whatever step is taken.
LEMMA KeptInvariant ==
  ASSUME IInv, [Next]_vars
  PROVE  IInv'
<1>1. CASE Next
  <2>1. PICK r \in Requests : Step(r)
    BY <1>1, NextSteps DEF IInv
  <2>2. TypeOK' /\ StoresFirst' /\ PastIsStored'
    BY <2>1, KeptTypes, KeptStoresFirst, KeptPastIsStored DEF IInv
  <2>3. WordsAreRecent'
    BY <2>1, <2>2, KeptWordsAreRecent DEF IInv
  <2>4. NeverStale' /\ Unanswered' /\ FoundWasAskedFor'
    BY <2>1, KeptNeverStale, KeptUnanswered, KeptFoundWasAskedFor DEF IInv
  <2>5. OneWasAskedFor'
    BY <2>1, <2>4, KeptOneWasAskedFor DEF IInv
  <2>6. OwnWords' /\ OwnForm' /\ OwnServerOwnPath'
    BY <2>1, KeptOwnWords, KeptOwnForm, KeptOwnServerOwnPath DEF IInv
  <2>7. QED
    BY <2>2, <2>3, <2>4, <2>5, <2>6 DEF IInv
<1>2. CASE UNCHANGED vars
  BY <1>2 DEF vars, IInv, TypeOK, StoresFirst, PastIsStored, WordsAreRecent, NeverStale,
              Unanswered, FoundWasAskedFor, OneWasAskedFor, OwnWords, OwnForm,
              OwnServerOwnPath, Alone
<1>3. QED
  BY <1>1, <1>2

\* The invariant holds in every reachable state.
THEOREM Invariance == Spec => []IInv
<1>1. Init => IInv
  BY InitInvariant
<1>2. IInv /\ [Next]_vars => IInv'
  BY KeptInvariant
<1>3. QED
  BY <1>1, <1>2, PTL DEF Spec

\* Every variable of the model keeps its type.
THEOREM TypeCorrect == Spec => []TypeOK
<1>1. IInv => TypeOK
  BY DEF IInv
<1>2. QED
  BY <1>1, Invariance, PTL

\* However many requests write the field segments of one server (server.go:43),
\* no handler acts on a word stored by a request that was through before its own
\* began to store.
THEOREM NeverActsOnStale == Spec => []NeverStale
<1>1. IInv => NeverStale
  BY DEF IInv
<1>2. QED
  BY <1>1, Invariance, PTL

\* Whatever mix of words is found, one order is answered (server.go:157) only
\* when the path of some request, to whatever resource, began with its identifier.
THEOREM AnswersWereAskedFor == Spec => []OneWasAskedFor
<1>1. IInv => OneWasAskedFor
  BY DEF IInv
<1>2. QED
  BY <1>1, Invariance, PTL

\* With a server for each request, as in api/rest.go, a request is answered for
\* its own path and deletes what its path says.
THEOREM AloneForItself == Spec => []OwnServerOwnPath
<1>1. IInv => OwnServerOwnPath
  BY DEF IInv
<1>2. QED
  BY <1>1, Invariance, PTL
=============================================================================
