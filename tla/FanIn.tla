--------------------------------- MODULE FanIn ---------------------------------
(***************************************************************************)
(* fanInWorkUnits of packages/core/src/work-unit.ts: runs a task per       *)
(* input, a bounded number at once, and reduces the partial results in the *)
(* order of the inputs.                                                    *)
(*                                                                         *)
(* The caller's loop ("main") and the tasks are continuations of one event *)
(* loop; a step is what runs between two awaits.  Tasks are asynchronous:  *)
(* a task that fails does so after its first await, as those of            *)
(* packages/parquet/src/aggregate-task.ts do.                              *)
(***************************************************************************)
EXTENDS Integers, FiniteSets

CONSTANTS
    N,              \* inputs.length
    MaxConcurrent,  \* maxConcurrentTasks
    MaxBuffered     \* maxBufferedPartials

ASSUME FanInAssumption ==
    /\ N \in Nat
    /\ MaxConcurrent \in Nat \ {0} /\ MaxBuffered \in Nat \ {0}

VARIABLES
    running,    \* inputs whose task has started and not ended
    active,     \* the counter kept of them
    partials,   \* inputs whose partial result waits to be reduced
    nextInput,  \* the first input not started
    nextReduce, \* the first input not reduced
    failure,    \* whether a task has failed
    main        \* where the caller's loop is; "wait" is where notify is set

vars == <<running, active, partials, nextInput, nextReduce, failure, main>>

Inputs == 0 .. N - 1

TypeOK ==
    /\ running \in SUBSET Inputs
    /\ active \in Int
    /\ partials \in SUBSET Inputs
    /\ nextInput \in 0 .. N
    /\ nextReduce \in 0 .. N
    /\ failure \in BOOLEAN
    /\ main \in {"start", "run", "reduce", "wait", "done", "threw"}

Init ==
    /\ running = {}
    /\ active = 0
    /\ partials = {}
    /\ nextInput = 0
    /\ nextReduce = 0
    /\ failure = FALSE
    /\ main = "start"

(* Fault: partial results take no room.                                     *)
RoomRunning(n) ==
    /\ ~failure
    /\ n <= N
    /\ active + (n - nextInput) <= MaxConcurrent
    /\ active + (n - nextInput) <= MaxBuffered

(* There is room to start the inputs before n.                              *)
Room(n) ==
    /\ ~failure
    /\ n <= N
    /\ active + (n - nextInput) <= MaxConcurrent
    /\ active + Cardinality(partials) + (n - nextInput) <= MaxBuffered

(* launchReadyInputs: start inputs, in order, as long as there is room.     *)
Launch ==
    \E n \in nextInput .. nextInput + MaxConcurrent :
        /\ n = nextInput \/ Room(n)
        /\ ~Room(n + 1)
        /\ nextInput' = n
        /\ running' = running \cup (nextInput .. n - 1)
        /\ active' = active + (n - nextInput)

Start ==
    /\ main = "start"
    /\ Launch
    /\ main' = IF N = 0 THEN "done" ELSE "wait"
    /\ UNCHANGED <<partials, nextReduce, failure>>

(* The loop: reduce what is next ...                                        *)
Reduce ==
    /\ main = "run"
    /\ nextReduce \in partials
    /\ partials' = partials \ {nextReduce}
    /\ main' = "reduce"
    /\ UNCHANGED <<running, active, nextInput, nextReduce, failure>>

ReduceDone ==
    /\ main = "reduce"
    /\ nextReduce' = nextReduce + 1
    /\ main' = "run"
    /\ UNCHANGED <<running, active, partials, nextInput, failure>>

ReduceFails ==
    /\ main = "reduce"
    /\ main' = "threw"
    /\ UNCHANGED <<running, active, partials, nextInput, nextReduce, failure>>

(* Fault: a failure is passed on only while other tasks run.                *)
ThrowWhileRunning ==
    /\ main = "run"
    /\ nextReduce \notin partials
    /\ failure /\ active > 0
    /\ main' = "threw"
    /\ UNCHANGED <<running, active, partials, nextInput, nextReduce, failure>>

(* ... then pass on the failure of a task ...                               *)
Throw ==
    /\ main = "run"
    /\ nextReduce \notin partials
    /\ failure
    /\ main' = "threw"
    /\ UNCHANGED <<running, active, partials, nextInput, nextReduce, failure>>

(* Fault: the loop ends when every input is started.                        *)
WaitForStarts ==
    /\ main = "run"
    /\ nextReduce \notin partials
    /\ ~failure
    /\ Launch
    /\ main' = IF nextInput' >= N THEN "done" ELSE "wait"
    /\ UNCHANGED <<partials, nextReduce, failure>>

(* ... or start more and wait for a task to end.                            *)
Wait ==
    /\ main = "run"
    /\ nextReduce \notin partials
    /\ ~failure
    /\ Launch
    /\ main' = IF nextReduce >= N THEN "done" ELSE "wait"
    /\ UNCHANGED <<partials, nextReduce, failure>>

(* A task ends: wake() resolves the promise main waits for, if it does.     *)
EndTask(i) ==
    /\ i \in running
    /\ running' = running \ {i}
    /\ active' = active - 1
    /\ main' = IF main = "wait" THEN "run" ELSE main
    /\ UNCHANGED <<nextInput, nextReduce>>

TaskDone(i) ==
    /\ EndTask(i)
    /\ partials' = partials \cup {i}
    /\ UNCHANGED failure

TaskFails(i) ==
    /\ EndTask(i)
    /\ failure' = TRUE
    /\ UNCHANGED partials

Main == Start \/ Reduce \/ ReduceDone \/ ReduceFails \/ Throw \/ Wait

Next == Main \/ \E i \in Inputs : TaskDone(i) \/ TaskFails(i)

Spec == Init /\ [][Next]_vars

(* The event loop runs every continuation, and every task ends.             *)
Fairness == WF_vars(Main) /\ \A i \in Inputs : WF_vars(TaskDone(i) \/ TaskFails(i))

FairSpec == Spec /\ Fairness
--------------------------------------------------------------------------------
(* Memory and fan-out stay bounded: no more than maxConcurrentTasks tasks   *)
(* run, and no more than maxBufferedPartials run or wait to be reduced.     *)
Bounded ==
    /\ active = Cardinality(running)
    /\ active <= MaxConcurrent
    /\ active + Cardinality(partials) <= MaxBuffered

(* The loop waits only for the task it reduces next: a full buffer of later *)
(* partials never keeps that one from being started, and its end is never   *)
(* missed.                                                                  *)
WaitsForNext == main = "wait" => nextReduce \in running

(* The accumulator is returned only with every input reduced and no task    *)
(* left running behind it.                                                  *)
DoneIsComplete ==
    main = "done" => nextReduce = N /\ running = {} /\ partials = {} /\ ~failure

(* The call returns or throws once its tasks end.                           *)
Settles == <>(main \in {"done", "threw"})
================================================================================
