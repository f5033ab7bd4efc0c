------------------------------ MODULE FanIn_proofs ------------------------------
(***************************************************************************)
(* fanInWorkUnits never waits for what it has not started and never runs   *)
(* or buffers more than it is told, for any number of inputs and any       *)
(* limits.                                                                 *)
(***************************************************************************)
EXTENDS FanIn, FiniteSetTheorems, TLAPS

(* The inputs started and not yet taken for reduction are the running ones  *)
(* and the buffered ones; a task or a reduce that fails loses its own.      *)
First == IF main = "reduce" THEN nextReduce + 1 ELSE nextReduce

InFlight ==
    /\ First <= nextInput
    /\ running \cap partials = {}
    /\ running \cup partials \subseteq First .. nextInput - 1
    /\ ~failure /\ main # "threw" => running \cup partials = First .. nextInput - 1

Settled ==
    /\ main = "wait" => ~failure
    /\ main = "start" => nextReduce = 0 /\ nextInput = 0 /\ ~failure

Sound == /\ TypeOK /\ InFlight /\ Settled
         /\ Bounded /\ WaitsForNext /\ DoneIsComplete

(* What is counted is finite.                                               *)
LEMMA TasksFinite ==
    ASSUME TypeOK
    PROVE  /\ IsFiniteSet(running) /\ Cardinality(running) \in Nat
           /\ IsFiniteSet(partials) /\ Cardinality(partials) \in Nat
           /\ active \in Int
<1>1. IsFiniteSet(Inputs)
  BY FanInAssumption, FS_Interval DEF Inputs
<1> QED
  BY <1>1, FS_Subset, FS_CardinalityType DEF TypeOK

(* The fan-in starts sound: nothing runs and nothing is buffered.           *)
LEMMA SoundInit == Init => Sound
<1> SUFFICES ASSUME Init PROVE Sound
  OBVIOUS
<1>1. failure \in BOOLEAN
  BY Zenon DEF Init
<1>2. TypeOK
  BY <1>1, FanInAssumption DEF Init, TypeOK, Inputs
<1>3. InFlight /\ Settled
  BY DEF Init, InFlight, First, Settled
<1>4. Bounded
  BY FanInAssumption, FS_EmptySet DEF Init, Bounded
<1>5. WaitsForNext /\ DoneIsComplete
  BY DEF Init, WaitsForNext, DoneIsComplete
<1> QED
  BY <1>2, <1>3, <1>4, <1>5 DEF Sound

(* Launching keeps the limits, and starts the input that is reduced next    *)
(* if nothing of it is running or buffered.                                 *)
LEMMA LaunchSound ==
    ASSUME Sound, Launch, main # "threw", First = nextReduce, nextReduce \notin partials, ~failure,
           UNCHANGED <<partials, nextReduce, failure>>
    PROVE  /\ running' \in SUBSET Inputs /\ active' \in Int /\ nextInput' \in 0 .. N
           /\ nextReduce <= nextInput'
           /\ running' \cap partials = {}
           /\ running' \cup partials = nextReduce .. nextInput' - 1
           /\ Bounded'
           /\ nextReduce < N => nextReduce \in running'
<1> USE FanInAssumption DEF Sound, TypeOK, Inputs
<1>1. PICK n \in nextInput .. nextInput + MaxConcurrent :
         /\ n = nextInput \/ Room(n)
         /\ ~Room(n + 1)
         /\ nextInput' = n
         /\ running' = running \cup (nextInput .. n - 1)
         /\ active' = active + (n - nextInput)
  BY DEF Launch
<1>2. /\ nextReduce <= nextInput
      /\ running \cup partials = nextReduce .. nextInput - 1
      /\ running \cap partials = {}
  BY DEF InFlight
<1>3. running' \cup partials = nextReduce .. nextInput' - 1
  <2>1. (nextReduce .. nextInput - 1) \cup (nextInput .. n - 1) = nextReduce .. n - 1
    BY <1>2
  <2> QED
    BY <1>1, <1>2, <2>1
<1>4. running' \cap partials = {}
  <2>1. \A i \in nextInput .. n - 1 : i \notin partials /\ i \notin running
    BY <1>2
  <2> QED
    BY <1>1, <1>2, <2>1
<1>5. Bounded'
  <2>1. /\ IsFiniteSet(nextInput .. n - 1)
        /\ Cardinality(nextInput .. n - 1) = n - nextInput
    <3>1. nextInput \in Int /\ n - 1 \in Int /\ nextInput <= n
      BY <1>1
    <3>2. /\ IsFiniteSet(nextInput .. n - 1)
          /\ Cardinality(nextInput .. n - 1) =
                IF nextInput > n - 1 THEN 0 ELSE (n - 1) - nextInput + 1
      BY <3>1, FS_Interval
    <3> QED
      BY <3>1, <3>2
  <2>2. running \cap (nextInput .. n - 1) = {}
    BY <1>2
  <2>3. Cardinality(running') = Cardinality(running) + (n - nextInput)
    <3>1. Cardinality(running \cup (nextInput .. n - 1)) =
             Cardinality(running) + Cardinality(nextInput .. n - 1) - Cardinality({})
      BY <2>1, <2>2, TasksFinite, FS_Union
    <3> QED
      BY <1>1, <2>1, <3>1, TasksFinite, FS_EmptySet
  <2>4. active' = Cardinality(running')
    BY <1>1, <2>3 DEF Bounded
  <2>5. CASE n = nextInput
    BY <1>1, <2>4, <2>5, TasksFinite DEF Bounded
  <2>6. CASE Room(n)
    BY <1>1, <2>4, <2>6, TasksFinite DEF Bounded, Room
  <2> QED
    BY <1>1, <2>5, <2>6
<1>6. ASSUME nextReduce < N PROVE nextReduce \in running'
  <2>1. CASE nextReduce < nextInput
    <3>1. nextReduce \in running
      BY <1>2, <2>1
    <3> QED
      BY <1>1, <3>1
  <2>2. CASE nextReduce = nextInput
    <3>1. running = {} /\ partials = {}
      BY <1>2, <2>2
    <3>2. active = 0 /\ Cardinality(partials) = 0
      BY <3>1, FS_EmptySet DEF Bounded
    <3>3. Room(nextInput + 1)
      BY <1>6, <2>2, <3>2 DEF Room
    <3>4. n # nextInput
      BY <1>1, <3>3
    <3> QED
      BY <1>1, <2>2, <3>4
  <2> QED
    BY <1>2, <2>1, <2>2
<1>7. /\ running' \in SUBSET Inputs /\ active' \in Int /\ nextInput' \in 0 .. N
      /\ nextReduce <= nextInput'
  BY <1>1, <1>2 DEF Room
<1> QED
  BY <1>3, <1>4, <1>5, <1>6, <1>7

(* Every step of the loop and of a task keeps it sound.                     *)
LEMMA SoundStep == Sound /\ [Next]_vars => Sound'
<1> SUFFICES ASSUME Sound, [Next]_vars PROVE Sound'
  OBVIOUS
<1> USE FanInAssumption DEF Sound, TypeOK, Inputs
<1>1. CASE UNCHANGED vars
  BY <1>1 DEF vars, InFlight, First, Settled, Bounded, WaitsForNext, DoneIsComplete
<1>2. CASE Start
  <2>1. /\ nextReduce = 0 /\ nextInput = 0 /\ First = nextReduce
        /\ ~failure /\ nextReduce \notin partials /\ Launch /\ main # "threw"
        /\ UNCHANGED <<partials, nextReduce, failure>>
    BY <1>2 DEF Start, Settled, First, InFlight
  <2>2. main' = IF nextReduce >= N THEN "done" ELSE "wait"
    BY <1>2, <2>1 DEF Start
  <2> QED
    BY <2>1, <2>2, LaunchSound DEF InFlight, First, Settled, WaitsForNext, DoneIsComplete
<1>3. CASE Wait
  <2>1. /\ First = nextReduce /\ ~failure /\ nextReduce \notin partials
        /\ Launch /\ main # "threw"
        /\ UNCHANGED <<partials, nextReduce, failure>>
    BY <1>3 DEF Wait, First
  <2>2. main' = IF nextReduce >= N THEN "done" ELSE "wait"
    BY <1>3 DEF Wait
  <2> QED
    BY <2>1, <2>2, LaunchSound DEF InFlight, First, Settled, WaitsForNext, DoneIsComplete
<1>4. CASE Reduce
  <2>1. /\ main = "run" /\ main' = "reduce" /\ nextReduce \in partials
        /\ partials' = partials \ {nextReduce}
        /\ UNCHANGED <<running, active, nextInput, nextReduce, failure>>
    BY <1>4 DEF Reduce
  <2>2. InFlight'
    BY <2>1 DEF InFlight, First
  <2>3. Cardinality(partials') = Cardinality(partials) - 1
    BY <2>1, TasksFinite, FS_RemoveElement
  <2>4. Bounded'
    BY <2>1, <2>3, TasksFinite DEF Bounded
  <2> QED
    BY <2>1, <2>2, <2>4 DEF Settled, WaitsForNext, DoneIsComplete
<1>5. CASE ReduceDone
  <2>1. /\ main = "reduce" /\ main' = "run" /\ nextReduce' = nextReduce + 1
        /\ UNCHANGED <<running, active, partials, nextInput, failure>>
    BY <1>5 DEF ReduceDone
  <2> QED
    BY <2>1 DEF InFlight, First, Settled, Bounded, WaitsForNext, DoneIsComplete
<1>6. CASE ReduceFails
  <2>1. /\ main = "reduce" /\ main' = "threw"
        /\ UNCHANGED <<running, active, partials, nextInput, nextReduce, failure>>
    BY <1>6 DEF ReduceFails
  <2> QED
    BY <2>1 DEF InFlight, First, Settled, Bounded, WaitsForNext, DoneIsComplete
<1>7. CASE Throw
  BY <1>7 DEF Throw, InFlight, First, Settled, Bounded, WaitsForNext, DoneIsComplete
<1>8. ASSUME NEW i \in Inputs, EndTask(i)
      PROVE  /\ Cardinality(running') = Cardinality(running) - 1
             /\ active' = Cardinality(running')
  BY <1>8, TasksFinite, FS_RemoveElement DEF EndTask, Bounded
<1>9. ASSUME NEW i \in Inputs, TaskDone(i) PROVE Sound'
  <2>1. /\ i \in running /\ running' = running \ {i} /\ partials' = partials \cup {i}
        /\ active' = active - 1 /\ main' = (IF main = "wait" THEN "run" ELSE main)
        /\ UNCHANGED <<nextInput, nextReduce, failure>>
    BY <1>9 DEF TaskDone, EndTask
  <2>2. InFlight'
    BY <2>1 DEF InFlight, First
  <2>3. Cardinality(partials') = Cardinality(partials) + 1
    BY <2>1, TasksFinite, FS_AddElement DEF InFlight
  <2>4. Bounded'
    BY <1>8, <1>9, <2>1, <2>3, TasksFinite DEF Bounded, TaskDone
  <2> QED
    BY <2>1, <2>2, <2>4 DEF Settled, WaitsForNext, DoneIsComplete
<1>10. ASSUME NEW i \in Inputs, TaskFails(i) PROVE Sound'
  <2>1. /\ i \in running /\ running' = running \ {i} /\ failure'
        /\ active' = active - 1 /\ main' = (IF main = "wait" THEN "run" ELSE main)
        /\ UNCHANGED <<nextInput, nextReduce, partials>>
    BY <1>10 DEF TaskFails, EndTask
  <2>2. InFlight'
    BY <2>1 DEF InFlight, First
  <2>3. Bounded'
    <3>1. active' = Cardinality(running')
      BY <1>8, <1>10 DEF TaskFails
    <3> QED
      BY <2>1, <3>1, TasksFinite DEF Bounded
  <2>4. failure' \in BOOLEAN
    BY <1>10, Zenon DEF TaskFails
  <2>5. TypeOK'
    BY <2>1, <2>4
  <2>6. WaitsForNext' /\ Settled'
    BY <2>1 DEF Settled, WaitsForNext, InFlight, First
  <2>7. DoneIsComplete'
    BY <2>1 DEF DoneIsComplete
  <2> QED
    BY <2>2, <2>3, <2>5, <2>6, <2>7
<1> QED
  BY <1>1, <1>2, <1>3, <1>4, <1>5, <1>6, <1>7, <1>9, <1>10 DEF Next, Main

(* The fan-out and the buffer of partial results keep their limits.         *)
THEOREM FanInIsBounded == Spec => []Bounded
<1>1. Spec => []Sound
  BY SoundInit, SoundStep, PTL DEF Spec
<1> QED
  BY <1>1, PTL DEF Sound

(* The loop never waits for a task that is not running: the buffer of later *)
(* partials cannot keep the next one from being started.                    *)
THEOREM FanInWaitsForNext == Spec => []WaitsForNext
<1>1. Spec => []Sound
  BY SoundInit, SoundStep, PTL DEF Spec
<1> QED
  BY <1>1, PTL DEF Sound

(* A returned accumulator has every input in it.                            *)
THEOREM FanInIsComplete == Spec => []DoneIsComplete
<1>1. Spec => []Sound
  BY SoundInit, SoundStep, PTL DEF Spec
<1> QED
  BY <1>1, PTL DEF Sound
================================================================================
