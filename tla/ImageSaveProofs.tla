--------------------------- MODULE ImageSaveProofs ---------------------------
(***************************************************************************)
(* Proofs about ImageSave, for any finite set of formats: Save names a     *)
(* picture only when every worker has returned, and the race on cmd loses  *)
(* no format as long as the workers run different conversions.             *)
(***************************************************************************)
EXTENDS ImageSave, FiniteSetTheorems, TLAPS

-----------------------------------------------------------------------------
(***************************************************************************)
(* The inductive invariant.                                                *)
(***************************************************************************)

\* The workers whose wg.Done() is still to come.
Unreturned == {f \in Formats : worker[f] # "returned"}

\* Before the workers are started, and when Save returns early, there are none.
NotStarted ==
  save \notin {"wait", "named"} => \A f \in Formats : worker[f] = "none"

\* Afterwards the WaitGroup counts those that have not returned.
Counted ==
  save \in {"wait", "named"} =>
    /\ wg = Cardinality(Unreturned)
    /\ \A f \in Formats : worker[f] # "none"

\* A worker that is about to run what cmd holds finds some conversion there: its
\* own or one assigned after it.
Assigned == \A f \in Formats : worker[f] = "take" => cmd \in Formats

\* A worker past that point holds a conversion, and its file is there when it returns
\* without an error.
Converted ==
  \A f \in Formats :
    /\ worker[f] \in {"convert", "send", "return", "returned"} => run[f] \in Formats
    /\ worker[f] \in {"return", "returned"} => run[f] \in written

IInv == TypeOK /\ NotStarted /\ Counted /\ Assigned /\ Converted /\ NamedAfterAll

-----------------------------------------------------------------------------
(***************************************************************************)
(* The counter.                                                            *)
(***************************************************************************)

\* There are finitely many workers.
LEMMA UnreturnedFinite ==
  IsFiniteSet(Unreturned) /\ Cardinality(Unreturned) \in Nat
<1>1. Unreturned \in SUBSET Formats
  BY DEF Unreturned
<1>2. QED
  BY <1>1, FormatsAssumption, FS_Subset, FS_CardinalityType

\* A worker that moves, but does not return, is counted as before.
LEMMA MoveKeepsCount ==
  ASSUME IInv, NEW f \in Formats, NEW s, NEW t, Move(f, s, t),
         s \notin {"none", "returned"}, t \notin {"none", "returned"},
         UNCHANGED <<save, wg>>
  PROVE  NotStarted' /\ Counted' /\ NamedAfterAll'
<1>1. Unreturned' = Unreturned
  BY DEF Move, IInv, TypeOK, Unreturned
<1>2. save = "wait"
  BY DEF Move, IInv, TypeOK, NotStarted, NamedAfterAll, Returned
<1>3. \A g \in Formats : worker'[g] = "none" => worker[g] = "none"
  BY DEF Move, IInv, TypeOK
<1>4. QED
  BY <1>1, <1>2, <1>3 DEF IInv, NotStarted, Counted, NamedAfterAll

\* Its deferred wg.Done() takes it off.
LEMMA ReturnCounts ==
  ASSUME IInv, NEW f \in Formats, Return(f)
  PROVE  NotStarted' /\ Counted' /\ NamedAfterAll' /\ wg' \in Nat
<1>1. f \in Unreturned
  BY DEF Return, Move, Unreturned
<1>2. Unreturned' = Unreturned \ {f}
  BY DEF Return, Move, IInv, TypeOK, Unreturned
<1>3. save = "wait" /\ save' = save
  BY DEF Return, Move, IInv, TypeOK, NotStarted, NamedAfterAll, Returned
<1>4. Cardinality(Unreturned') = Cardinality(Unreturned) - 1
  BY <1>1, <1>2, UnreturnedFinite, FS_RemoveElement
<1>5. Cardinality(Unreturned') \in Nat
  BY <1>2, UnreturnedFinite, FS_RemoveElement, FS_CardinalityType
<1>6. wg' = Cardinality(Unreturned')
  BY <1>3, <1>4 DEF Return, IInv, Counted
<1>7. \A g \in Formats : worker'[g] = "none" => worker[g] = "none"
  BY DEF Return, Move, IInv, TypeOK
<1>8. QED
  BY <1>3, <1>5, <1>6, <1>7 DEF IInv, NotStarted, Counted, NamedAfterAll

-----------------------------------------------------------------------------
(***************************************************************************)
(* The steps.                                                              *)
(***************************************************************************)

\* Save starts its workers, or returns early.
LEMMA PrepareKeeps ==
  ASSUME IInv, Prepare
  PROVE  IInv'
<1>1. CASE save' \in {"error", "no_name"} /\ UNCHANGED <<worker, wg>>
  BY <1>1 DEF Prepare, IInv, TypeOK, Returned, NotStarted, Counted, Assigned,
              Converted, NamedAfterAll
<1>2. CASE /\ save' = "wait" /\ wg' = Cardinality(Formats)
           /\ worker' = [f \in Formats |-> "assign"]
  <2>1. Unreturned' = Formats
    BY <1>2 DEF Unreturned
  <2>2. wg' \in Nat
    BY <1>2, FormatsAssumption, FS_CardinalityType
  <2>3. QED
    BY <1>2, <2>1, <2>2
       DEF Prepare, IInv, TypeOK, Returned, NotStarted, Counted, Assigned,
           Converted, NamedAfterAll
<1>3. QED
  BY <1>1, <1>2 DEF Prepare

\* wg.Wait() returns when the counter is zero, when all workers have returned.
LEMMA WaitKeeps ==
  ASSUME IInv, Wait
  PROVE  IInv'
<1>1. Unreturned = {}
  BY UnreturnedFinite, FS_EmptySet DEF Wait, IInv, Counted
<1>2. \A f \in Formats : worker[f] = "returned"
  BY <1>1 DEF Unreturned
<1>3. QED
  BY <1>2 DEF Wait, IInv, TypeOK, Returned, NotStarted, Counted, Unreturned, Assigned,
              Converted, NamedAfterAll

\* The steps of a worker.
LEMMA WorkerKeeps ==
  ASSUME IInv, NEW f \in Formats, Worker(f)
  PROVE  IInv'
<1>1. CASE Assign(f)
  <2>1. NotStarted' /\ Counted' /\ NamedAfterAll'
    BY <1>1, MoveKeepsCount DEF Assign
  <2>2. QED
    BY <1>1, <2>1 DEF Assign, Move, IInv, TypeOK, Assigned, Converted
<1>2. CASE Take(f)
  <2>1. PICK c \in {f, cmd} :
          /\ Move(f, "take", "send") \/ Move(f, "take", "convert")
          /\ run' = [run EXCEPT ![f] = c]
          /\ UNCHANGED <<save, cmd, started, written, wg>>
    BY <1>2 DEF Take
  <2>2. c \in Formats
    BY <2>1 DEF Move, IInv, Assigned
  <2>3. NotStarted' /\ Counted' /\ NamedAfterAll'
    BY <2>1, MoveKeepsCount
  <2>4. QED
    BY <2>1, <2>2, <2>3 DEF Move, IInv, TypeOK, Assigned, Converted
<1>3. CASE Convert(f)
  <2>1. run[f] \in Formats
    BY <1>3 DEF Convert, Move, IInv, Converted
  <2>2. NotStarted' /\ Counted' /\ NamedAfterAll'
    BY <1>3, MoveKeepsCount DEF Convert
  <2>3. CASE Move(f, "convert", "return") /\ written' = written \cup {run[f]}
    BY <1>3, <2>1, <2>2, <2>3 DEF Convert, Move, IInv, TypeOK, Assigned, Converted
  <2>4. CASE Move(f, "convert", "send") /\ UNCHANGED written
    BY <1>3, <2>1, <2>2, <2>4 DEF Convert, Move, IInv, TypeOK, Assigned, Converted
  <2>5. QED
    BY <1>3, <2>3, <2>4 DEF Convert
<1>4. CASE Return(f)
  <2>1. NotStarted' /\ Counted' /\ NamedAfterAll' /\ wg' \in Nat
    BY <1>4, ReturnCounts
  <2>2. QED
    BY <1>4, <2>1 DEF Return, Move, IInv, TypeOK, Assigned, Converted
<1>5. QED
  BY <1>1, <1>2, <1>3, <1>4 DEF Worker

-----------------------------------------------------------------------------
(***************************************************************************)
(* The theorems.                                                           *)
(***************************************************************************)

\* The invariant holds initially and is inductive.
THEOREM Invariance == Spec => []IInv
<1>1. Init => IInv
  BY DEF Init, IInv, TypeOK, Returned, NotStarted, Counted, Assigned, Converted,
         NamedAfterAll
<1>2. IInv /\ [Next]_vars => IInv'
  <2>1. ASSUME IInv, UNCHANGED vars
        PROVE  IInv'
    BY <2>1 DEF vars, IInv, TypeOK, NotStarted, Counted, Unreturned, Assigned,
                Converted, NamedAfterAll
  <2>2. QED
    BY <2>1, PrepareKeeps, WaitKeeps, WorkerKeeps DEF Next
<1>3. QED
  BY <1>1, <1>2, PTL DEF Spec

\* The variables have their types.
THEOREM TypeCorrect == Spec => []TypeOK
<1>1. IInv => TypeOK
  BY DEF IInv
<1>2. QED
  BY <1>1, Invariance, PTL

\* A picture has a name only when every worker has returned without an error.
THEOREM NamedLast == Spec => []NamedAfterAll
<1>1. IInv => NamedAfterAll
  BY DEF IInv
<1>2. QED
  BY <1>1, Invariance, PTL

\* The race on cmd loses no format when the workers run different conversions: by
\* the pigeonhole principle these are then all of them.
THEOREM RaceLosesNothing == Spec => []DistinctRunsComplete
<1>1. IInv => DistinctRunsComplete
  <2> SUFFICES ASSUME IInv, save = "named",
                      \A f, g \in Formats : run[f] = run[g] => f = g
               PROVE  written = Formats
    BY DEF DistinctRunsComplete
  <2>1. /\ written \subseteq Formats
        /\ \A f \in Formats : run[f] \in written /\ run[f] \in Formats
    BY DEF IInv, TypeOK, Converted, NamedAfterAll
  <2>2. run \in [Formats -> Formats]
    BY <2>1 DEF IInv, TypeOK
  <2>3. run \in Injection(Formats, Formats)
    BY <2>2 DEF Injection, IsInjective
  <2>4. run \in Surjection(Formats, Formats)
    BY <2>3, FormatsAssumption, FS_Injection
  <2>5. QED
    BY <2>1, <2>4 DEF Surjection
<1>2. QED
  BY <1>1, Invariance, PTL
=============================================================================
