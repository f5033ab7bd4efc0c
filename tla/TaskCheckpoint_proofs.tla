-------------------------- MODULE TaskCheckpoint_proofs --------------------------
(***************************************************************************)
(* Safety of task checkpoints for any workers, keys, files, timeouts and   *)
(* crashes: what a checkpoint records is in the store, and a worker loses  *)
(* its task only to one that found it stale.                               *)
(***************************************************************************)
EXTENDS TaskCheckpoint, TLAPS

Written == {"output-written", "manifest-recorded", "complete"}
Writing == {"head", "put"}

Typing ==
    /\ checkpoint \in Checkpoints \cup {None}
    /\ now \in Nat
    /\ pc \in [Workers -> {"idle", "read"} \cup StateSet \cup Writing]
    /\ keyOf \in [Workers -> Keys]
    /\ started \in [Workers -> Nat]
    /\ existing \in [Workers -> Checkpoints \cup {None}]
    /\ got \in [Workers -> Checkpoints \cup {None, Unread}]
    /\ ordinal \in [Workers -> Nat]
    /\ outcome \in [Workers -> [how : {"none", "done", "notAllowed", "mismatch", "exists", "crashed"},
                                entries : {None} \cup SUBSET Files]]

(* A checkpoint names the files of its key, all of them in the store, from  *)
(* output-written on, and none before.                                      *)
Records(c) ==
    /\ c.state \in Written => c.outputs = FilesOf(c.key) /\ FilesOf(c.key) \subseteq files
    /\ c.state \notin Written => c.outputs = None

(* So does every copy of a checkpoint that a run has read.                  *)
Recorded ==
    /\ checkpoint # None => Records(checkpoint)
    /\ \A w \in Workers :
          /\ existing[w] # None => Records(existing[w])
          /\ got[w] \notin {None, Unread} => Records(got[w])

(* A run has put what its place in the program says: the checkpoint before  *)
(* its files, its files in their order, and its files before its outputs.   *)
InOrder(w) ==
    /\ pc[w] \notin {"idle", "read", "planned"} => checkpoint # None
    /\ got[w] = None => pc[w] \in {"idle", "planned"}
    /\ pc[w] \in {"read", "planned", "running"} => ordinal[w] = 0
    /\ pc[w] \in Writing => /\ ordinal[w] < NumFiles
                            /\ {keyOf[w]} \X (1 .. ordinal[w]) \subseteq files
    /\ pc[w] \in Written \/ outcome[w].how = "done" => FilesOf(keyOf[w]) \subseteq files
    /\ outcome[w].how = "done" => pc[w] = "idle" /\ outcome[w].entries = FilesOf(keyOf[w])

Progress == \A w \in Workers : InOrder(w)

Safe == Typing /\ Recorded /\ Progress
--------------------------------------------------------------------------------
(* The states of a checkpoint.                                              *)
LEMMA StatesAre ==
    StateSet = {"planned", "running", "output-written", "manifest-recorded", "complete"}
BY DEF StateSet, States

(* The order of the states.                                                 *)
LEMMA RanksAre ==
    /\ Rank("planned") = 1 /\ Rank("running") = 2 /\ Rank("output-written") = 3
    /\ Rank("manifest-recorded") = 4 /\ Rank("complete") = 5
<1>1. ASSUME NEW n \in 1 .. 5 PROVE Rank(States[n]) = n
  BY DEF Rank, States
<1> QED
  BY <1>1 DEF States

(* The outputs of a file's key are files of the task.                       *)
LEMMA FilesOfKey ==
    ASSUME NEW k \in Keys
    PROVE  FilesOf(k) \in SUBSET Files /\ FilesOf(k) # None
BY TaskAssumption DEF FilesOf, Files

(* A run answers with the files of its key, whether it wrote them or found  *)
(* them recorded.                                                           *)
LEMMA EntriesAreOfKey ==
    ASSUME Safe, NEW w \in Workers
    PROVE  EntriesOf(w) = FilesOf(keyOf[w])
BY StatesAre DEF Safe, Typing, Recorded, Records, EntriesOf, Resumable, OwnOutputs, Written

(* The task has no checkpoint yet.                                          *)
LEMMA SafeInit == Init => Safe
<1> SUFFICES ASSUME Init PROVE Safe
  OBVIOUS
<1>1. Typing
  BY TaskAssumption DEF Init, Typing
<1>2. Recorded /\ Progress
  BY TaskAssumption, StatesAre DEF Init, Recorded, Progress, InOrder, Written, Writing
<1> QED
  BY <1>1, <1>2 DEF Safe

(* What transitionTaskCheckpoint makes of a true checkpoint it does not     *)
(* refuse is true: outputs are carried from a state to the next, and a      *)
(* requeued task starts with none.                                          *)
LEMMA TransitionRecords ==
    ASSUME Safe, NEW w \in Workers, pc[w] \in StateSet, got[w] # Unread, ~Refused(w),
           NEW c, c = Transitioned(got[w], pc[w], keyOf[w], started[w],
                          IF pc[w] = "output-written" THEN EntriesOf(w) ELSE None)
    PROVE  c \in Checkpoints /\ Records(c)
<1> DEFINE e == got[w]
           k == keyOf[w]
           s == pc[w]
           outputs == IF s = "output-written" THEN EntriesOf(w) ELSE None
<1>1. /\ k \in Keys /\ started[w] \in Nat /\ e \in Checkpoints \cup {None}
      /\ e # None => Records(e)
      /\ e = None => s = "planned"
      /\ s \in Written => FilesOf(k) \subseteq files
  BY StatesAre DEF Safe, Typing, Recorded, Progress, InOrder, Written
<1>2. outputs = IF s = "output-written" THEN FilesOf(k) ELSE None
  BY EntriesAreOfKey
<1>3. FilesOf(k) \in SUBSET Files /\ FilesOf(k) # None
  BY <1>1, FilesOfKey
<1>4. CASE IsReplay(e, s, k)
  BY <1>1, <1>4, TaskAssumption DEF Transitioned, IsReplay
<1>5. CASE e = None
  <2>1. c = [state |-> "planned", key |-> k, updatedAt |-> started[w], outputs |-> None]
    BY <1>1, <1>2, <1>5 DEF Transitioned, IsReplay, CarriedOutputs
  <2> QED
    BY <1>1, <2>1, StatesAre DEF Checkpoints, Records, Written
<1>6. CASE e # None /\ ~IsReplay(e, s, k)
  <2>1. /\ e \in Checkpoints /\ e.state \in StateSet
        /\ e.key = k \/ ChecksStale(w)
        /\ (s = "running" /\ ChecksStale(w)) \/ Rank(s) = Rank(e.state) + 1
    BY <1>1, <1>6 DEF Refused, NotAllowed, KeyMismatch, TransitionAllowed, IsStale, Checkpoints
  <2>2. c = [state |-> s, key |-> k, updatedAt |-> started[w],
             outputs |-> CarriedOutputs(e, s, outputs)]
    BY <1>6 DEF Transitioned
  <2>3. CASE s = "running"
    <3>1. CarriedOutputs(e, s, outputs) = None
      BY <1>1, <1>2, <2>1, <2>3, RanksAre, StatesAre DEF CarriedOutputs, Records, Written
    <3> QED
      BY <1>1, <2>2, <2>3, <3>1, StatesAre DEF Checkpoints, Records, Written
  <2>4. CASE s # "running"
    <3>1. Rank(s) = Rank(e.state) + 1
      BY <2>1, <2>4
    <3>2. /\ s \in Written /\ e.key = k
          /\ s = "output-written" \/ e.state \in Written
      BY <2>1, <2>4, <3>1, RanksAre, StatesAre DEF ChecksStale, Written
    <3>3. Rank(s) > Rank(e.state)
      BY <2>1, <3>1, RanksAre, StatesAre
    <3>4. CarriedOutputs(e, s, outputs) = FilesOf(k)
      BY <1>1, <1>2, <1>3, <1>6, <3>2, <3>3 DEF CarriedOutputs, Records
    <3> QED
      BY <1>1, <1>3, <2>2, <3>2, <3>4 DEF Checkpoints, Records
  <2> QED
    BY <2>3, <2>4
<1> QED
  BY <1>4, <1>5, <1>6

(* Other workers keep their place when one of them adds files and leaves    *)
(* the checkpoint there.                                                    *)
LEMMA OthersInOrder ==
    ASSUME NEW v \in Workers, InOrder(v),
           files \subseteq files', checkpoint # None => checkpoint' # None,
           pc'[v] = pc[v], got'[v] = got[v], ordinal'[v] = ordinal[v],
           keyOf'[v] = keyOf[v], outcome'[v] = outcome[v]
    PROVE  InOrder(v)'
BY DEF InOrder

(* A run that puts a file adds the next one of its key.                     *)
LEMMA PutFileSafe ==
    ASSUME Safe, NEW w \in Workers, PutFile(w)
    PROVE  Safe'
<1>1. /\ pc[w] = "put" /\ ordinal[w] \in Nat /\ ordinal[w] < NumFiles
      /\ keyOf[w] \in Keys /\ checkpoint # None /\ got[w] # None
      /\ outcome[w].how # "done"
      /\ {keyOf[w]} \X (1 .. ordinal[w]) \subseteq files
  BY StatesAre DEF PutFile, Safe, Typing, Progress, InOrder, Writing
<1>2. /\ files' = files \cup {<<keyOf[w], ordinal[w] + 1>>}
      /\ ordinal' = [ordinal EXCEPT ![w] = ordinal[w] + 1]
      /\ pc' = [pc EXCEPT ![w] = IF ordinal[w] + 1 = NumFiles THEN "output-written" ELSE "head"]
      /\ UNCHANGED <<checkpoint, now, keyOf, started, existing, got, crashes, outcome>>
  BY DEF PutFile, NextFile, Goto
<1>3. Typing'
  BY <1>1, <1>2, StatesAre DEF Safe, Typing, Writing
<1>4. Recorded'
  BY <1>2 DEF Safe, Recorded, Records
<1>5. {keyOf[w]} \X (1 .. ordinal[w] + 1) \subseteq files'
  BY <1>1, <1>2
<1>6. InOrder(w)'
  <2>1. ordinal'[w] = ordinal[w] + 1 /\ keyOf'[w] = keyOf[w]
    BY <1>2 DEF Safe, Typing
  <2>2. CASE ordinal[w] + 1 = NumFiles
    <3>1. pc'[w] = "output-written" /\ FilesOf(keyOf'[w]) \subseteq files'
      BY <1>2, <1>5, <2>1, <2>2 DEF Safe, Typing, FilesOf
    <3> QED
      BY <1>1, <1>2, <3>1 DEF InOrder, Written, Writing
  <2>3. CASE ordinal[w] + 1 # NumFiles
    <3>1. pc'[w] = "head" /\ ordinal[w] + 1 < NumFiles
      BY <1>1, <1>2, <2>3, TaskAssumption DEF Safe, Typing
    <3>2. {keyOf'[w]} \X (1 .. ordinal'[w]) \subseteq files'
      BY <1>5, <2>1
    <3> QED
      BY <1>1, <1>2, <2>1, <3>1, <3>2 DEF InOrder, Written, Writing
  <2> QED
    BY <2>2, <2>3
<1>7. ASSUME NEW v \in Workers \ {w} PROVE InOrder(v)'
  BY <1>2, OthersInOrder DEF Safe, Typing, Progress
<1> QED
  BY <1>3, <1>4, <1>6, <1>7 DEF Safe, Progress

(* A run that puts the checkpoint moves on to what its state allows.        *)
LEMMA AdvancePutSafe ==
    ASSUME Safe, NEW w \in Workers, AdvancePut(w)
    PROVE  Safe'
<1>1. /\ pc[w] \in StateSet /\ got[w] # Unread /\ ~Refused(w)
      /\ checkpoint' = Transitioned(got[w], pc[w], keyOf[w], started[w],
                          IF pc[w] = "output-written" THEN EntriesOf(w) ELSE None)
      /\ got' = [got EXCEPT ![w] = Unread]
      /\ UNCHANGED <<files, now, keyOf, started, existing, ordinal, crashes>>
  BY DEF AdvancePut
<1>2. checkpoint' \in Checkpoints /\ Records(checkpoint')
  BY <1>1, TransitionRecords
<1>3. checkpoint' # None
  BY <1>2, TaskAssumption
<1>4. EntriesOf(w) = FilesOf(keyOf[w]) /\ FilesOf(keyOf[w]) \in SUBSET Files
  BY EntriesAreOfKey, FilesOfKey DEF Safe, Typing
<1>5. \/ /\ pc[w] = "complete" /\ pc' = [pc EXCEPT ![w] = "idle"]
         /\ outcome' = [outcome EXCEPT ![w] =
                           [how |-> "done", entries |-> FilesOf(keyOf[w])]]
      \/ /\ outcome' = outcome
         /\ \E label \in {"running", "head", "manifest-recorded", "complete"} :
               /\ pc' = [pc EXCEPT ![w] = label]
               /\ label = "running" => pc[w] = "planned"
               /\ label = "head" => pc[w] = "running"
               /\ label \in Written => pc[w] \in Written
  BY <1>1, <1>4 DEF AdvancePut, Goto, End, AfterOutputs, Written
<1>6. Typing'
  <2>1. pc' \in [Workers -> {"idle", "read"} \cup StateSet \cup Writing]
    BY <1>5, StatesAre DEF Safe, Typing, Writing
  <2>2. outcome' \in [Workers -> [how : {"none", "done", "notAllowed", "mismatch", "exists", "crashed"},
                                 entries : {None} \cup SUBSET Files]]
    BY <1>4, <1>5 DEF Safe, Typing
  <2> QED
    BY <1>1, <1>2, <2>1, <2>2 DEF Safe, Typing
<1>7. Recorded'
  BY <1>1, <1>2 DEF Safe, Typing, Recorded, Records
<1>8. InOrder(w)'
  <2>1. InOrder(w) /\ got'[w] = Unread
    BY <1>1 DEF Safe, Typing, Progress
  <2>2. CASE pc'[w] = "idle" /\ pc[w] = "complete" /\ outcome'[w] = [how |-> "done", entries |-> FilesOf(keyOf[w])]
    BY <1>1, <2>1, <2>2, TaskAssumption DEF InOrder, Written, Writing
  <2>3. CASE outcome'[w] = outcome[w] /\ pc'[w] \in {"running", "head", "manifest-recorded", "complete"}
    <3>1. /\ pc'[w] = "running" => pc[w] = "planned"
          /\ pc'[w] = "head" => pc[w] = "running"
          /\ pc'[w] \in Written => pc[w] \in Written
      BY <1>5, <2>3 DEF Safe, Typing, Written
    <3>2. outcome[w].how # "done"
      BY <1>1, <2>1, StatesAre DEF InOrder
    <3>3. pc[w] = "running" => ordinal[w] = 0
      BY <2>1 DEF InOrder
    <3>4. {keyOf[w]} \X (1 .. 0) \subseteq files /\ 0 < NumFiles
      BY TaskAssumption
    <3> QED
      BY <1>1, <1>3, <2>1, <2>3, <3>1, <3>2, <3>3, <3>4, TaskAssumption
         DEF InOrder, Written, Writing
  <2> QED
    BY <1>5, <2>2, <2>3 DEF Safe, Typing
<1>9. ASSUME NEW v \in Workers \ {w} PROVE InOrder(v)'
  BY <1>1, <1>3, <1>5, OthersInOrder DEF Safe, Typing, Progress
<1> QED
  BY <1>6, <1>7, <1>8, <1>9 DEF Safe, Progress

(* Every call of a run, a delivery, a crash and the clock keep Safe.        *)
LEMMA SafeStep == Safe /\ [Next]_vars => Safe'
<1> SUFFICES ASSUME Safe, [Next]_vars PROVE Safe'
  OBVIOUS
<1> USE StatesAre DEF Safe, local, Goto, End
<1>1. CASE UNCHANGED vars
  BY <1>1 DEF vars, Typing, Recorded, Records, Progress, InOrder
<1>2. CASE Tick
  BY <1>2, TaskAssumption DEF Tick, Typing, Recorded, Records, Progress, InOrder
<1>3. ASSUME NEW w \in Workers, Deliver(w) PROVE Safe'
  <2>1. Typing' /\ Recorded'
    BY <1>3, TaskAssumption DEF Deliver, Typing, Recorded, Records
  <2>2. InOrder(w)'
    BY <1>3, TaskAssumption DEF Deliver, Typing, Progress, InOrder, Written, Writing
  <2>3. ASSUME NEW v \in Workers \ {w} PROVE InOrder(v)'
    BY <1>3, OthersInOrder DEF Deliver, Typing, Progress
  <2> QED
    BY <2>1, <2>2, <2>3 DEF Progress
<1>4. ASSUME NEW w \in Workers, ReplayDone(w) PROVE Safe'
  <2>1. OwnOutputs(checkpoint, w) = FilesOf(keyOf[w]) /\ FilesOf(keyOf[w]) \subseteq files
    BY <1>4 DEF ReplayDone, OwnOutputs, Recorded, Records, Written
  <2>2. Typing' /\ Recorded'
    BY <1>4, <2>1, FilesOfKey DEF ReplayDone, Typing, Recorded, Records
  <2>3. InOrder(w)'
    BY <1>4, <2>1 DEF ReplayDone, Typing, Progress, InOrder, Written, Writing
  <2>4. ASSUME NEW v \in Workers \ {w} PROVE InOrder(v)'
    BY <1>4, OthersInOrder DEF ReplayDone, Typing, Progress
  <2> QED
    BY <2>2, <2>3, <2>4 DEF Progress
<1>5. ASSUME NEW w \in Workers, ReadExisting(w) PROVE Safe'
  <2>1. /\ StartsAt(checkpoint, w) \in {"planned", "running", "manifest-recorded", "complete"}
        /\ StartsAt(checkpoint, w) # "planned" => checkpoint # None
        /\ StartsAt(checkpoint, w) \in Written =>
              checkpoint.key = keyOf[w] /\ checkpoint.state \in Written
    BY DEF StartsAt, Resumable, AfterOutputs, OwnOutputs, Written
  <2>2. Typing' /\ Recorded'
    BY <1>5, <2>1 DEF ReadExisting, Typing, Recorded, Records
  <2>3. InOrder(w)'
    BY <1>5, <2>1 DEF ReadExisting, Typing, Recorded, Records, Progress, InOrder, Written, Writing
  <2>4. ASSUME NEW v \in Workers \ {w} PROVE InOrder(v)'
    BY <1>5, OthersInOrder DEF ReadExisting, Typing, Progress
  <2> QED
    BY <2>2, <2>3, <2>4 DEF Progress
<1>6. ASSUME NEW w \in Workers, AdvanceGet(w) PROVE Safe'
  <2>1. Typing' /\ Recorded'
    BY <1>6, TaskAssumption DEF AdvanceGet, Typing, Recorded, Records
  <2>2. InOrder(w)'
    BY <1>6, TaskAssumption DEF AdvanceGet, Typing, Progress, InOrder, Written, Writing
  <2>3. ASSUME NEW v \in Workers \ {w} PROVE InOrder(v)'
    BY <1>6, OthersInOrder DEF AdvanceGet, Typing, Progress
  <2> QED
    BY <2>1, <2>2, <2>3 DEF Progress
<1>7. ASSUME NEW w \in Workers, AdvancePut(w) PROVE Safe'
  BY <1>7, AdvancePutSafe
<1>8. ASSUME NEW w \in Workers, PutFile(w) PROVE Safe'
  BY <1>8, PutFileSafe
<1>9. ASSUME NEW w \in Workers, HeadFile(w) PROVE Safe'
  <2>1. Typing' /\ Recorded'
    BY <1>9 DEF HeadFile, Typing, Writing, Recorded, Records
  <2>2. InOrder(w)'
    BY <1>9 DEF HeadFile, Typing, Progress, InOrder, Written, Writing
  <2>3. ASSUME NEW v \in Workers \ {w} PROVE InOrder(v)'
    BY <1>9, OthersInOrder DEF HeadFile, Typing, Progress
  <2> QED
    BY <2>1, <2>2, <2>3 DEF Progress
(* A run that ends without an answer leaves everything else as it is.       *)
<1>10. ASSUME NEW w \in Workers, NEW how \in {"notAllowed", "mismatch", "exists", "crashed"},
              End(w, how, None), UNCHANGED <<checkpoint, files, now, local>>
       PROVE  Safe'
  <2>1. Typing' /\ Recorded'
    BY <1>10 DEF Typing, Recorded, Records
  <2>2. InOrder(w)'
    BY <1>10 DEF Typing, Progress, InOrder, Written, Writing
  <2>3. ASSUME NEW v \in Workers \ {w} PROVE InOrder(v)'
    BY <1>10, OthersInOrder DEF Typing, Progress
  <2> QED
    BY <2>1, <2>2, <2>3 DEF Progress
<1>11. ASSUME NEW w \in Workers, AdvanceRefused(w) PROVE Safe'
  BY <1>10, <1>11 DEF AdvanceRefused
<1>12. ASSUME NEW w \in Workers, FileExists(w) PROVE Safe'
  BY <1>10, <1>12 DEF FileExists
<1>13. ASSUME NEW w \in Workers, Crash(w) PROVE Safe'
  BY <1>10, <1>13 DEF Crash
<1> QED
  BY <1>1, <1>2, <1>3, <1>4, <1>5, <1>6, <1>7, <1>8, <1>9, <1>11, <1>12, <1>13
     DEF Next, Run

(* Whatever workers race for a task, die in it or are given it again, a     *)
(* checkpoint from output-written on names the files of its key, all of     *)
(* them in the store, one before it names none, and a run that ends well    *)
(* answers with files that are there.                                       *)
THEOREM OutputsAreWritten == Spec => []OutputsWritten
<1>1. Safe => OutputsWritten
  BY StatesAre, RanksAre
     DEF Safe, Typing, Checkpoints, Recorded, Records, Progress, InOrder, Written,
         OutputsWritten, Reached
<1> QED
  BY <1>1, SafeInit, SafeStep, PTL DEF Spec

(* A checkpoint changes its key only under a worker that found it stale, or *)
(* found none, or found its own.                                            *)
THEOREM TakeoversAreOfStale == Spec => TakeoverOnlyWhenStale
<1> DEFINE Rightful ==
      checkpoint # None /\ checkpoint'.key # checkpoint.key =>
          \E w \in Workers :
             /\ keyOf[w] = checkpoint'.key /\ got[w] # Unread
             /\ \/ got[w] # None /\ got[w].key = keyOf[w]
                \/ got[w] = None
                \/ started[w] - got[w].updatedAt > StaleTimeout
<1>1. ASSUME Safe, [Next]_vars PROVE [Rightful]_vars
  <2>1. CASE checkpoint' = checkpoint
    BY <2>1
  <2>2. ASSUME NEW w \in Workers, AdvancePut(w) PROVE Rightful
    <3>1. checkpoint'.key = keyOf[w]
      BY <2>2 DEF AdvancePut, Transitioned, IsReplay
    <3>2. \/ got[w] # None /\ got[w].key = keyOf[w]
          \/ got[w] = None
          \/ started[w] - got[w].updatedAt > StaleTimeout
      BY <2>2 DEF AdvancePut, Refused, NotAllowed, KeyMismatch, IsStale, IsReplay
    <3> QED
      BY <2>2, <3>1, <3>2 DEF AdvancePut
  <2> QED
    BY <1>1, <2>1, <2>2
       DEF Next, Run, vars, Tick, Deliver, Crash, ReplayDone, ReadExisting, AdvanceGet,
           AdvanceRefused, HeadFile, FileExists, PutFile
<1> QED
  BY <1>1, SafeInit, SafeStep, PTL DEF Spec, TakeoverOnlyWhenStale
================================================================================
