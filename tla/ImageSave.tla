----------------------------- MODULE ImageSave ------------------------------
(***************************************************************************)
(* Save (pkg/image/image.go), which stores an uploaded picture: one worker *)
(* goroutine per format converts it, Save waits for all of them and then   *)
(* returns the name of the picture.                                        *)
(*                                                                         *)
(* The workers share the variable cmd of Save: each assigns the conversion *)
(* it built to cmd and then runs what cmd holds, which may by then be the  *)
(* conversion of another worker.  A worker that fails sends its error on a *)
(* channel without a buffer, which Save reads only when every worker has   *)
(* returned.                                                               *)
(***************************************************************************)
EXTENDS Naturals, FiniteSets

CONSTANTS
  Formats,  \* one worker per format: the upload's own and supported_formats
  None

ASSUME FormatsAssumption == IsFiniteSet(Formats) /\ None \notin Formats

VARIABLES
  save,     \* where Save is, or what it returned
  cmd,      \* the conversion the shared variable holds, named by its format
  worker,   \* where the worker of each format is
  run,      \* the conversion each worker took out of cmd
  started,  \* the conversions with a process or an output attached
  written,  \* the formats whose file is in the uploads directory
  wg        \* the counter of the WaitGroup

vars == <<save, cmd, worker, run, started, written, wg>>

-----------------------------------------------------------------------------

Init ==
  /\ save = "prepare"
  /\ cmd = None
  /\ worker = [f \in Formats |-> "none"]
  /\ run = [f \in Formats |-> None]
  /\ started = {}
  /\ written = {}
  /\ wg = 0

\* Mutant: wg.Add(len(supported_formats)).
PrepareMiscounted ==
  /\ save = "prepare"
  /\ \/ save' \in {"error", "no_name"} /\ UNCHANGED <<worker, wg>>
     \/ /\ save' = "wait"
        /\ wg' = Cardinality(Formats) - 1
        /\ worker' = [f \in Formats |-> "assign"]
  /\ UNCHANGED <<cmd, run, started, written>>

\* The upload is copied, made square and given a fresh name, or an error ends
\* Save; an upload that cannot be copied ends it with no name and no error.
Prepare ==
  /\ save = "prepare"
  /\ \/ save' \in {"error", "no_name"} /\ UNCHANGED <<worker, wg>>
     \/ /\ save' = "wait"
        /\ wg' = Cardinality(Formats)
        /\ worker' = [f \in Formats |-> "assign"]
  /\ UNCHANGED <<cmd, run, started, written>>

\* wg.Wait() returns only when every worker has; then ch is closed and empty.
Wait ==
  /\ save = "wait" /\ wg = 0
  /\ save' = "named"
  /\ UNCHANGED <<cmd, worker, run, started, written, wg>>

Move(f, from, to) ==
  /\ worker[f] = from
  /\ worker' = [worker EXCEPT ![f] = to]

\* cmd = exec.CommandContext(...)
Assign(f) ==
  /\ Move(f, "assign", "take")
  /\ cmd' = f
  /\ UNCHANGED <<save, run, started, written, wg>>

\* cmd.CombinedOutput() runs what cmd holds, or what the worker assigned when
\* the build keeps that in a register, and refuses a conversion that has an
\* output already.  That check is not synchronised with another worker that
\* runs the same conversion: both may pass it.
Take(f) ==
  \E c \in {f, cmd} :
    /\ \/ c \in started /\ Move(f, "take", "send")
       \/ c \notin started /\ Move(f, "take", "convert")
    /\ run' = [run EXCEPT ![f] = c]
    /\ UNCHANGED <<save, cmd, started, written, wg>>

\* Mutant: a conversion leaves nothing attached to it.
ConvertDetached(f) ==
  /\ \/ Move(f, "convert", "return") /\ written' = written \cup {run[f]}
     \/ Move(f, "convert", "send") /\ UNCHANGED written
  /\ UNCHANGED <<save, cmd, run, started, wg>>

\* Mutant: the error of a conversion is not looked at.
ConvertUnchecked(f) ==
  /\ started' = started \cup {run[f]}
  /\ Move(f, "convert", "return")
  /\ written' \in {written, written \cup {run[f]}}
  /\ UNCHANGED <<save, cmd, run, wg>>

\* The conversion runs and writes its file, or fails.  A second start of the
\* same conversion may fail or not.
Convert(f) ==
  /\ started' = started \cup {run[f]}
  /\ \/ Move(f, "convert", "return") /\ written' = written \cup {run[f]}
     \/ Move(f, "convert", "send") /\ UNCHANGED written
  /\ UNCHANGED <<save, cmd, run, wg>>

\* Mutant: wg.Done() is forgotten.
ReturnUncounted(f) ==
  /\ Move(f, "return", "returned")
  /\ UNCHANGED <<save, cmd, run, started, written, wg>>

\* defer wg.Done().  A worker at "send" has no such step: nobody receives from
\* ch before every worker has returned.
Return(f) ==
  /\ Move(f, "return", "returned")
  /\ wg' = wg - 1
  /\ UNCHANGED <<save, cmd, run, started, written>>

-----------------------------------------------------------------------------

Worker(f) == Assign(f) \/ Take(f) \/ Convert(f) \/ Return(f)

Next == Prepare \/ Wait \/ \E f \in Formats : Worker(f)

\* Goroutines are scheduled, and a conversion ends: it is a local process.
Spec ==
  /\ Init /\ [][Next]_vars
  /\ WF_vars(Prepare) /\ WF_vars(Wait) /\ \A f \in Formats : WF_vars(Worker(f))

-----------------------------------------------------------------------------
(***************************************************************************)
(* Properties.                                                             *)
(***************************************************************************)

Failed == {f \in Formats : worker[f] = "send"}

Returned == {"error", "no_name", "named"}

\* Every variable has its type.
TypeOK ==
  /\ save \in {"prepare", "wait"} \cup Returned
  /\ cmd \in Formats \cup {None}
  /\ worker \in [Formats ->
       {"none", "assign", "take", "convert", "send", "return", "returned"}]
  /\ run \in [Formats -> Formats \cup {None}]
  /\ started \subseteq Formats
  /\ written \subseteq started
  /\ wg \in Nat

\* A picture has a name (image.go:134) only when every worker has returned
\* without an error: no conversion is still writing, none has failed.
NamedAfterAll ==
  save = "named" => \A f \in Formats : worker[f] = "returned"

\* The race on cmd (image.go:98) loses no format as long as the workers run
\* different conversions: then each format of a named picture is written, if
\* not by its own worker.
DistinctRunsComplete ==
  /\ save = "named"
  /\ \A f, g \in Formats : run[f] = run[g] => f = g
  => written = Formats

\* Save answers, unless a conversion failed.
ReturnsUnlessFailed == <>(save \in Returned \/ Failed # {})

\* Save answers even then: it removes the files and returns the error
\* (image.go:123-130).
Returns == <>(save \in Returned)
=============================================================================
