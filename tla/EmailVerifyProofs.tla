-------------------------- MODULE EmailVerifyProofs --------------------------
(***************************************************************************)
(* Proofs about EmailVerify, for any number of MX records: the WaitGroup   *)
(* counts the verifiers that run, ch is closed once and by a probe that a  *)
(* mail server accepted, and each answer of VerifyEmail means what it says. *)
(***************************************************************************)
EXTENDS EmailVerify, FiniteSetTheorems, TLAPS

-----------------------------------------------------------------------------
(***************************************************************************)
(* The inductive invariant.                                                *)
(***************************************************************************)

\* The counter of the WaitGroup is the number of verifiers that run.
Counted == wg = Cardinality(Running)

\* The function of the sync.Once is what closes ch.
ClosedByOnce == once <=> Closed

\* ch is closed on account of a conversation that went through.
Witnessed == Closed => \E m \in MX : probe[m] = "reported"

\* The verifiers that were started are those of the records before next.
StartedInOrder == \A m \in MX : verifier[m] # "none" <=> m < next

\* VerifyEmail selects, and has a waiter, only when every verifier is started.
SelectsLast ==
  main \in {"select", "valid", "not_validated"} \/ waiter # "none" => next = N + 1

\* wait is closed only when no verifier runs.
WaitedForAll ==
  /\ wait => waiter = "done"
  /\ waiter = "done" => Running = {}
  /\ main = "not_validated" => wait

\* VerifyEmail says valid only after it saw ch closed.
ValidSawClosed == main = "valid" => Closed

IInv ==
  /\ TypeOK
  /\ Counted
  /\ ClosedByOnce
  /\ Witnessed
  /\ StartedInOrder
  /\ SelectsLast
  /\ WaitedForAll
  /\ ValidSawClosed

-----------------------------------------------------------------------------
(***************************************************************************)
(* The counter.                                                            *)
(***************************************************************************)

\* There are finitely many verifiers.
LEMMA RunningFinite == IsFiniteSet(Running) /\ Cardinality(Running) \in Nat
<1>1. IsFiniteSet(MX)
  BY NAssumption, FS_Interval DEF MX
<1>2. Running \in SUBSET MX
  BY DEF Running
<1>3. QED
  BY <1>1, <1>2, FS_Subset, FS_CardinalityType

\* A verifier starts after wg.Add(1).
LEMMA LaunchCounts ==
  ASSUME IInv, Launch
  PROVE  Counted' /\ wg' \in Nat
<1>1. CASE UNCHANGED <<verifier, wg>>
  BY <1>1 DEF IInv, Counted, Running, TypeOK
<1>2. CASE /\ next \in MX /\ wg' = wg + 1
           /\ verifier' = [verifier EXCEPT ![next] = "started"]
  <2>1. next \notin Running
    BY <1>2 DEF IInv, StartedInOrder, Running, TypeOK
  <2>2. Running' = Running \cup {next}
    BY <1>2 DEF IInv, TypeOK, Running
  <2>3. Cardinality(Running') = Cardinality(Running) + 1
    BY <2>1, <2>2, RunningFinite, FS_AddElement
  <2>4. QED
    BY <1>2, <2>3, RunningFinite DEF IInv, Counted
<1>3. QED
  BY <1>1, <1>2 DEF Launch

\* Its deferred wg.Done() takes it off.
LEMMA ReturnCounts ==
  ASSUME IInv, NEW m \in MX, VerifierReturns(m)
  PROVE  Counted' /\ wg' \in Nat
<1>1. m \in Running
  BY DEF VerifierReturns, Running
<1>2. Running' = Running \ {m}
  BY DEF VerifierReturns, IInv, TypeOK, Running
<1>3. Cardinality(Running') = Cardinality(Running) - 1
  BY <1>1, <1>2, RunningFinite, FS_RemoveElement
<1>4. Cardinality(Running') \in Nat
  BY <1>2, RunningFinite, FS_RemoveElement, FS_CardinalityType
<1>5. QED
  BY <1>3, <1>4 DEF VerifierReturns, IInv, Counted

-----------------------------------------------------------------------------
(***************************************************************************)
(* The steps.                                                              *)
(***************************************************************************)

\* Steps of VerifyEmail itself.
LEMMA MainKeeps ==
  ASSUME IInv, Main
  PROVE  IInv'
<1> USE NAssumption DEF MX
<1>1. CASE Check
  BY <1>1 DEF Check, IInv, TypeOK, Answers, Counted, Running, ClosedByOnce, Closed,
              Witnessed, StartedInOrder, SelectsLast,
              WaitedForAll, ValidSawClosed
<1>2. CASE Launch
  <2>1. Counted' /\ wg' \in Nat
    BY <1>2, LaunchCounts
  <2>2. TypeOK' /\ StartedInOrder'
    BY <1>2, <2>1 DEF Launch, IInv, TypeOK, Answers, StartedInOrder
  <2>3. SelectsLast' /\ WaitedForAll'
    <3>1. waiter = "none"
      BY <1>2 DEF Launch, IInv, SelectsLast, TypeOK
    <3>2. QED
      BY <1>2, <3>1 DEF Launch, IInv, SelectsLast, WaitedForAll, TypeOK
  <2>4. ClosedByOnce' /\ Witnessed' /\ ValidSawClosed'
    BY <1>2 DEF Launch, IInv, TypeOK, ClosedByOnce, Closed, Witnessed,
                ValidSawClosed
  <2>5. QED
    BY <2>1, <2>2, <2>3, <2>4 DEF IInv
<1>3. CASE Launched
  BY <1>3 DEF Launched, IInv, TypeOK, Answers, Counted, Running, ClosedByOnce, Closed,
              Witnessed, StartedInOrder, SelectsLast,
              WaitedForAll, ValidSawClosed
<1>4. CASE Select
  BY <1>4 DEF Select, IInv, TypeOK, Answers, Counted, Running, ClosedByOnce, Closed,
              Witnessed, StartedInOrder, SelectsLast,
              WaitedForAll, ValidSawClosed
<1>5. QED
  BY <1>1, <1>2, <1>3, <1>4 DEF Main

\* The waiter closes wait when the counter is zero, when no verifier runs.
LEMMA WaiterKeeps ==
  ASSUME IInv, WaiterCloses
  PROVE  IInv'
<1>1. Running = {}
  BY RunningFinite, FS_EmptySet DEF WaiterCloses, IInv, Counted
<1>2. QED
  BY <1>1 DEF WaiterCloses, IInv, TypeOK, Counted, Running, ClosedByOnce, Closed,
              Witnessed, StartedInOrder, SelectsLast,
              WaitedForAll, ValidSawClosed

\* Steps of a verifier and of its probe.
LEMMA VerifierKeeps ==
  ASSUME IInv, NEW m \in MX, Verifier(m) \/ ProbeEnds(m) \/ ProbeReports(m)
  PROVE  IInv'
<1>1. CASE VerifierReturns(m)
  <2>1. Counted' /\ wg' \in Nat
    BY <1>1, ReturnCounts
  <2>2. Running' \subseteq Running
    BY <1>1 DEF VerifierReturns, IInv, TypeOK, Running
  <2>3. WaitedForAll'
    BY <1>1, <2>2 DEF VerifierReturns, IInv, WaitedForAll
  <2>4. QED
    BY <1>1, <2>1, <2>3
       DEF VerifierReturns, IInv, TypeOK, ClosedByOnce, Closed, Witnessed,
           StartedInOrder, SelectsLast, ValidSawClosed
<1>2. CASE VerifierProbes(m)
  <2>1. Running' = Running
    BY <1>2 DEF VerifierProbes, IInv, TypeOK, Running
  <2>2. QED
    BY <1>2, <2>1
       DEF VerifierProbes, IInv, TypeOK, Counted, ClosedByOnce, Closed, Witnessed,
           StartedInOrder, SelectsLast, WaitedForAll,
           ValidSawClosed
<1>3. CASE ProbeEnds(m)
  BY <1>3 DEF ProbeEnds, IInv, TypeOK, Counted, Running, ClosedByOnce, Closed,
              Witnessed, StartedInOrder, SelectsLast,
              WaitedForAll, ValidSawClosed
<1>4. CASE ProbeReports(m)
  <2>1. Closed' /\ ch' \in {0, 1}
    BY <1>4 DEF ProbeReports, IInv, TypeOK, ClosedByOnce, Closed
  <2>2. QED
    BY <1>4, <2>1
       DEF ProbeReports, IInv, TypeOK, Counted, Running, ClosedByOnce, Witnessed,
           StartedInOrder, SelectsLast, WaitedForAll,
           ValidSawClosed
<1>5. QED
  BY <1>1, <1>2, <1>3, <1>4 DEF Verifier

-----------------------------------------------------------------------------
(***************************************************************************)
(* The theorems.                                                           *)
(***************************************************************************)

\* The invariant holds initially and is inductive.
THEOREM Invariance == Spec => []IInv
<1>1. Init => IInv
  <2> SUFFICES ASSUME Init PROVE IInv
    OBVIOUS
  <2>1. Running = {}
    BY DEF Init, Running
  <2>2. Counted
    BY <2>1, FS_EmptySet DEF Init, Counted
  <2>3. TypeOK
    <3>1. 1 \in 1..(N + 1)
      BY NAssumption
    <3>2. QED
      BY <3>1 DEF Init, TypeOK
  <2>4. StartedInOrder
    BY NAssumption DEF Init, StartedInOrder, MX
  <2>5. QED
    BY <2>2, <2>3, <2>4
       DEF Init, IInv, ClosedByOnce, Closed, Witnessed, 
           SelectsLast, WaitedForAll, ValidSawClosed
<1>2. IInv /\ [Next]_vars => IInv'
  <2>1. ASSUME IInv, UNCHANGED vars
        PROVE  IInv'
    BY <2>1 DEF vars, IInv, TypeOK, Counted, Running, ClosedByOnce, Closed,
                Witnessed, StartedInOrder, SelectsLast,
                WaitedForAll, ValidSawClosed
  <2>2. QED
    BY <2>1, MainKeeps, WaiterKeeps, VerifierKeeps DEF Next
<1>3. QED
  BY <1>1, <1>2, PTL DEF Spec

\* The variables have their types; ch in particular is never closed twice.
THEOREM TypeCorrect == Spec => []TypeOK
<1>1. IInv => TypeOK
  BY DEF IInv
<1>2. QED
  BY <1>1, Invariance, PTL

\* An address is valid only when some mail server took a whole conversation.
THEOREM ValidWitnessed == Spec => []ValidHasWitness
<1>1. IInv => ValidHasWitness
  BY DEF IInv, ValidSawClosed, Witnessed, ValidHasWitness
<1>2. QED
  BY <1>1, Invariance, PTL

\* No verifier runs when VerifyEmail gives up.
THEOREM GivesUpAfterAll == Spec => []NotValidatedAfterAll
<1>1. IInv => NotValidatedAfterAll
  BY FS_EmptySet, NAssumption
     DEF IInv, SelectsLast, WaitedForAll, Counted, NotValidatedAfterAll, MX
<1>2. QED
  BY <1>1, Invariance, PTL
=============================================================================
