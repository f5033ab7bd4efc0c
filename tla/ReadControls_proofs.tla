--------------------------- MODULE ReadControls_proofs ---------------------------
(***************************************************************************)
(* The semaphore of withObjectStoreReadControls leaks no slot and loses no *)
(* wake-up, for any number of reads and any limit.                         *)
(***************************************************************************)
EXTENDS ReadControls, FiniteSetTheorems, SequenceTheorems, TLAPS

(* After the abort nobody waits, and nobody starts to.                      *)
AbortEmptiesQueue == aborted => queue = <<>>

Slots == TypeOK /\ QueueIsWaiting /\ AbortEmptiesQueue /\ SlotsHeld /\ WaitOnlyWhenFull

USE DEF Holding

(* The sets that are counted, finite as Reads is.                           *)
LEMMA CountedFinite ==
    /\ IsFiniteSet(Holders) /\ Cardinality(Holders) \in Nat
    /\ IsFiniteSet(Woken) /\ Cardinality(Woken) \in Nat
<1>1. Holders \in SUBSET Reads /\ Woken \in SUBSET Reads
  BY DEF Holders, Woken
<1> QED
  BY <1>1, ReadAssumption, FS_Subset, FS_CardinalityType

(* No slot is held and nothing waits at the start.                          *)
LEMMA SlotsInit == Init => Slots
<1> SUFFICES ASSUME Init PROVE Slots
  OBVIOUS
<1>1. TypeOK
  <2>1. queue \in Seq(Reads)
    BY EmptySeq DEF Init
  <2>2. active \in Nat
    BY DEF Init
  <2>3. aborted \in BOOLEAN
    BY Zenon DEF Init
  <2>4. /\ pc \in [Reads -> PCs]
        /\ result \in [Reads -> {"none", "value", "error", "aborted"}]
    BY DEF Init, PCs
  <2> QED
    BY <2>1, <2>2, <2>3, <2>4 DEF TypeOK
<1>2. queue = <<>> /\ Len(queue) = 0 /\ \A r \in Reads : pc[r] = "idle"
  BY DEF Init
<1>3. QueueIsWaiting /\ AbortEmptiesQueue /\ WaitOnlyWhenFull
  BY <1>2 DEF QueueIsWaiting, AbortEmptiesQueue, WaitOnlyWhenFull
<1>4. Holders = {}
  BY DEF Init, Holders
<1>5. SlotsHeld
  BY <1>4, FS_EmptySet DEF Init, SlotsHeld
<1> QED
  BY <1>1, <1>3, <1>5 DEF Slots

(* Release keeps the count and passes the slot on: what one read gives back *)
(* the first waiter is woken for.                                           *)
LEMMA ReleaseKeepsSlots ==
    ASSUME Slots, NEW r \in Reads, pc[r] \in Holding,
           Release([pc EXCEPT ![r] = "idle"]), UNCHANGED aborted,
           result' \in [Reads -> {"none", "value", "error", "aborted"}]
    PROVE  Slots'
<1> USE DEF Slots, TypeOK
<1>0. Cardinality(Holders \ {r}) = active - 1 /\ active - 1 \in Nat
  <2>1. r \in Holders
    BY DEF Holders
  <2>2. /\ Cardinality(Holders \ {r}) = Cardinality(Holders) - 1
        /\ IsFiniteSet(Holders \ {r})
    BY <2>1, CountedFinite, FS_RemoveElement
  <2> QED
    BY <2>2, FS_CardinalityType DEF SlotsHeld
<1>1. CASE queue = <<>>
  <2>1. /\ active' = active - 1 /\ queue' = <<>>
        /\ pc' = [pc EXCEPT ![r] = "idle"]
    BY <1>1 DEF Release
  <2>2. TypeOK' /\ AbortEmptiesQueue' /\ WaitOnlyWhenFull'
    BY <1>0, <2>1 DEF PCs, AbortEmptiesQueue, WaitOnlyWhenFull
  <2>3. QueueIsWaiting'
    BY <1>1, <2>1 DEF QueueIsWaiting
  <2>4. Holders' = Holders \ {r}
    BY <2>1 DEF Holders
  <2>5. SlotsHeld'
    BY <1>0, <2>1, <2>4 DEF SlotsHeld
  <2> QED
    BY <2>2, <2>3, <2>5
<1>2. CASE queue # <<>>
  <2> DEFINE h == Head(queue)
  <2>1. /\ active' = active - 1 /\ queue' = Tail(queue)
        /\ pc' = [[pc EXCEPT ![r] = "idle"] EXCEPT ![h] = "woken"]
    BY <1>2 DEF Release
  <2>2. h \in Reads /\ pc[h] = "waiting" /\ h # r /\ ~aborted
    BY <1>2 DEF QueueIsWaiting, AbortEmptiesQueue
  <2>3. /\ pc' \in [Reads -> PCs]
        /\ pc'[r] = "idle" /\ pc'[h] = "woken"
        /\ \A s \in Reads \ {r, h} : pc'[s] = pc[s]
    BY <2>1, <2>2 DEF PCs
  <2>4. TypeOK' /\ AbortEmptiesQueue'
    BY <1>0, <1>2, <2>1, <2>2, <2>3 DEF AbortEmptiesQueue
  <2>5. QueueIsWaiting'
    <3>1. /\ Len(queue') = Len(queue) - 1
          /\ \A i \in 1 .. Len(queue') : queue'[i] = queue[i + 1]
          /\ h = queue[1] /\ Len(queue) \in Nat \ {0}
      BY <1>2, <2>1
    <3>2. \A i, j \in 1 .. Len(queue') : queue'[i] = queue'[j] => i = j
      BY <3>1 DEF QueueIsWaiting
    <3>3. ASSUME NEW s \in Reads
          PROVE  pc'[s] = "waiting" <=> \E i \in 1 .. Len(queue') : queue'[i] = s
      <4>1. CASE s = h
        <5>1. \A i \in 1 .. Len(queue') : queue'[i] # h
          BY <3>1 DEF QueueIsWaiting
        <5> QED
          BY <2>3, <4>1, <5>1
      <4>2. CASE s # h
        <5>1. (\E i \in 1 .. Len(queue) : queue[i] = s)
              <=> (\E i \in 1 .. Len(queue') : queue'[i] = s)
          <6>1. ASSUME NEW i \in 1 .. Len(queue), queue[i] = s
                PROVE  i - 1 \in 1 .. Len(queue') /\ queue'[i - 1] = s
            BY <3>1, <4>2, <6>1
          <6>2. ASSUME NEW i \in 1 .. Len(queue'), queue'[i] = s
                PROVE  i + 1 \in 1 .. Len(queue) /\ queue[i + 1] = s
            BY <3>1, <6>2
          <6> QED
            BY <6>1, <6>2
        <5>2. pc'[s] = "waiting" <=> pc[s] = "waiting"
          BY <2>3, <4>2
        <5> QED
          BY <5>1, <5>2 DEF QueueIsWaiting
      <4> QED
        BY <4>1, <4>2
    <3> QED
      BY <3>2, <3>3 DEF QueueIsWaiting
  <2>6. Holders' = Holders \ {r}
    BY <2>2, <2>3 DEF Holders
  <2>7. Woken' = Woken \cup {h} /\ h \notin Woken
    BY <2>2, <2>3 DEF Woken
  <2>8. SlotsHeld'
    BY <1>0, <2>1, <2>6 DEF SlotsHeld
  <2>9. Cardinality(Woken') = Cardinality(Woken) + 1
    BY <2>7, CountedFinite, FS_AddElement
  <2>10. WaitOnlyWhenFull'
    <3>1. active + Cardinality(Woken) >= Limit
      BY <1>2 DEF WaitOnlyWhenFull
    <3>2. active' + Cardinality(Woken)' = active + Cardinality(Woken)
      BY <2>1, <2>9, CountedFinite
    <3> QED
      BY <3>1, <3>2 DEF WaitOnlyWhenFull
  <2> QED
    BY <2>4, <2>5, <2>8, <2>10
<1> QED
  BY <1>1, <1>2

(* Every step of a read keeps the account of the slots.                     *)
LEMMA SlotsStep == Slots /\ [Next]_vars => Slots'
<1> SUFFICES ASSUME Slots, [Next]_vars PROVE Slots'
  OBVIOUS
<1> USE DEF Slots, TypeOK, Settle
<1>1. CASE UNCHANGED vars
  BY <1>1 DEF vars, QueueIsWaiting, AbortEmptiesQueue, SlotsHeld, WaitOnlyWhenFull,
              Holders, Woken
<1>2. CASE Abort
  <2>1. /\ queue' = <<>> /\ active' = active /\ aborted'
        /\ pc' = [r \in Reads |-> IF pc[r] = "waiting" THEN "idle" ELSE pc[r]]
    BY <1>2 DEF Abort
  <2>2. TypeOK' /\ AbortEmptiesQueue' /\ WaitOnlyWhenFull'
    BY <1>2, <2>1 DEF Abort, PCs, AbortEmptiesQueue, WaitOnlyWhenFull
  <2>3. QueueIsWaiting'
    <3>1. Len(queue') = 0 /\ \A r \in Reads : pc'[r] # "waiting"
      BY <2>1
    <3> QED
      BY <3>1 DEF QueueIsWaiting
  <2>4. Holders' = Holders
    BY <2>1 DEF Holders
  <2> QED
    BY <2>1, <2>2, <2>3, <2>4 DEF SlotsHeld
<1>3. ASSUME NEW r \in Reads, StartAborted(r) PROVE Slots'
  BY <1>3 DEF StartAborted, QueueIsWaiting, AbortEmptiesQueue, SlotsHeld,
              WaitOnlyWhenFull, Holders, Woken
<1>4. ASSUME NEW r \in Reads, Acquire(r) PROVE Slots'
  <2>1. /\ pc[r] = "idle" /\ pc' = [pc EXCEPT ![r] = "granted"]
        /\ active' = active + 1 /\ active < Limit /\ UNCHANGED <<queue, aborted>>
    BY <1>4 DEF Acquire
  <2>2. TypeOK' /\ AbortEmptiesQueue'
    BY <1>4, <2>1 DEF Acquire, PCs, AbortEmptiesQueue
  <2>3. QueueIsWaiting'
    BY <2>1 DEF QueueIsWaiting
  <2>4. Holders' = Holders \cup {r} /\ r \notin Holders
    BY <2>1 DEF Holders
  <2>5. Woken' = Woken
    BY <2>1 DEF Woken
  <2>6. SlotsHeld'
    BY <2>1, <2>4, CountedFinite, FS_AddElement DEF SlotsHeld
  <2>7. WaitOnlyWhenFull'
    BY <2>1, <2>5, CountedFinite, ReadAssumption DEF WaitOnlyWhenFull
  <2> QED
    BY <2>2, <2>3, <2>6, <2>7
<1>5. ASSUME NEW r \in Reads, Enqueue(r) PROVE Slots'
  <2>1. /\ pc[r] = "idle" /\ pc' = [pc EXCEPT ![r] = "waiting"]
        /\ active' = active /\ active >= Limit /\ ~aborted /\ ~aborted'
        /\ queue' = Append(queue, r)
    BY <1>5 DEF Enqueue
  <2>2. TypeOK' /\ AbortEmptiesQueue'
    BY <1>5, <2>1 DEF Enqueue, PCs, AbortEmptiesQueue
  <2>3. QueueIsWaiting'
    <3>1. /\ Len(queue') = Len(queue) + 1 /\ Len(queue) \in Nat
          /\ \A i \in 1 .. Len(queue) : queue'[i] = queue[i] /\ queue[i] # r
          /\ queue'[Len(queue) + 1] = r
      BY <2>1 DEF QueueIsWaiting
    <3>2. \A i, j \in 1 .. Len(queue') : queue'[i] = queue'[j] => i = j
      BY <3>1 DEF QueueIsWaiting
    <3>3. ASSUME NEW s \in Reads
          PROVE  pc'[s] = "waiting" <=> \E i \in 1 .. Len(queue') : queue'[i] = s
      <4>1. CASE s = r
        <5>1. Len(queue) + 1 \in 1 .. Len(queue')
          BY <3>1
        <5> QED
          BY <2>1, <3>1, <4>1, <5>1
      <4>2. CASE s # r
        <5>1. (\E i \in 1 .. Len(queue) : queue[i] = s)
              <=> (\E i \in 1 .. Len(queue') : queue'[i] = s)
          BY <3>1, <4>2
        <5>2. pc'[s] = "waiting" <=> pc[s] = "waiting"
          BY <2>1, <4>2
        <5> QED
          BY <5>1, <5>2 DEF QueueIsWaiting
      <4> QED
        BY <4>1, <4>2
    <3> QED
      BY <3>2, <3>3 DEF QueueIsWaiting
  <2>4. Holders' = Holders /\ Woken' = Woken
    BY <2>1 DEF Holders, Woken
  <2>5. SlotsHeld' /\ WaitOnlyWhenFull'
    BY <2>1, <2>4, CountedFinite, ReadAssumption DEF SlotsHeld, WaitOnlyWhenFull
  <2> QED
    BY <2>2, <2>3, <2>5
<1>6. ASSUME NEW r \in Reads, Resume(r) PROVE Slots'
  <2>1. /\ pc[r] = "woken" /\ pc' = [pc EXCEPT ![r] = "granted"]
        /\ active' = active + 1 /\ UNCHANGED <<queue, aborted>>
    BY <1>6 DEF Resume
  <2>2. TypeOK' /\ AbortEmptiesQueue'
    BY <1>6, <2>1 DEF Resume, PCs, AbortEmptiesQueue
  <2>3. QueueIsWaiting'
    BY <2>1 DEF QueueIsWaiting
  <2>4. Holders' = Holders \cup {r} /\ r \notin Holders
    BY <2>1 DEF Holders
  <2>5. Woken' = Woken \ {r} /\ r \in Woken
    BY <2>1 DEF Woken
  <2>6. SlotsHeld'
    BY <2>1, <2>4, CountedFinite, FS_AddElement DEF SlotsHeld
  <2>7. Cardinality(Woken') = Cardinality(Woken) - 1
    BY <2>5, CountedFinite, FS_RemoveElement
  <2>8. active' + Cardinality(Woken') = active + Cardinality(Woken)
    BY <2>1, <2>7, CountedFinite
  <2>9. WaitOnlyWhenFull'
    BY <2>1, <2>8 DEF WaitOnlyWhenFull
  <2> QED
    BY <2>2, <2>3, <2>6, <2>9
<1>7. ASSUME NEW r \in Reads, ResumeAborted(r) PROVE Slots'
  <2>1. /\ pc[r] = "woken" /\ pc' = [pc EXCEPT ![r] = "idle"]
        /\ queue = <<>> /\ UNCHANGED <<active, queue, aborted>>
    BY <1>7 DEF ResumeAborted, AbortEmptiesQueue
  <2>2. TypeOK' /\ AbortEmptiesQueue' /\ WaitOnlyWhenFull'
    BY <1>7, <2>1 DEF ResumeAborted, PCs, AbortEmptiesQueue, WaitOnlyWhenFull
  <2>3. QueueIsWaiting'
    BY <2>1 DEF QueueIsWaiting
  <2>4. Holders' = Holders
    BY <2>1 DEF Holders
  <2> QED
    BY <2>1, <2>2, <2>3, <2>4 DEF SlotsHeld
<1>8. ASSUME NEW r \in Reads, StartRead(r) PROVE Slots'
  <2>1. /\ pc[r] = "granted" /\ pc' = [pc EXCEPT ![r] = "reading"]
        /\ UNCHANGED <<active, queue, aborted>>
    BY <1>8 DEF StartRead
  <2>2. TypeOK' /\ AbortEmptiesQueue'
    BY <1>8, <2>1 DEF StartRead, PCs, AbortEmptiesQueue
  <2>3. QueueIsWaiting'
    BY <2>1 DEF QueueIsWaiting
  <2>4. Holders' = Holders /\ Woken' = Woken
    BY <2>1 DEF Holders, Woken
  <2>5. SlotsHeld' /\ WaitOnlyWhenFull'
    BY <2>1, <2>4 DEF SlotsHeld, WaitOnlyWhenFull
  <2> QED
    BY <2>2, <2>3, <2>5
<1>9. ASSUME NEW r \in Reads, StartReadAborted(r) PROVE Slots'
  BY <1>9, ReleaseKeepsSlots DEF StartReadAborted
<1>10. ASSUME NEW r \in Reads, FinishRead(r) PROVE Slots'
  <2>1. result' \in [Reads -> {"none", "value", "error", "aborted"}]
    BY <1>10 DEF FinishRead
  <2> QED
    BY <1>10, <2>1, ReleaseKeepsSlots DEF FinishRead
<1> QED
  BY <1>1, <1>2, <1>3, <1>4, <1>5, <1>6, <1>7, <1>8, <1>9, <1>10
     DEF Next, Start, Continue

(* No slot is leaked or given back twice, by any number of reads that end,  *)
(* fail or are aborted in any order.                                        *)
THEOREM NoSlotLeaks == Spec => []SlotsHeld
<1>1. Spec => []Slots
  BY SlotsInit, SlotsStep, PTL DEF Spec
<1> QED
  BY <1>1, PTL DEF Slots

(* A read waits only while the limit is taken or promised: no wake-up is    *)
(* lost, for any limit.                                                     *)
THEOREM NoWakeUpLost == Spec => []WaitOnlyWhenFull
<1>1. Spec => []Slots
  BY SlotsInit, SlotsStep, PTL DEF Spec
<1> QED
  BY <1>1, PTL DEF Slots

(* The queue holds exactly the reads that wait, each once.                  *)
THEOREM QueueHoldsWaiting == Spec => [](TypeOK /\ QueueIsWaiting)
<1>1. Spec => []Slots
  BY SlotsInit, SlotsStep, PTL DEF Spec
<1> QED
  BY <1>1, PTL DEF Slots

(* After the signal fired no read of the inner store starts and none under  *)
(* way delivers a value: with nobody left to wake, a released slot starts   *)
(* no other read.                                                           *)
THEOREM AbortStopsAllReads == Spec => AbortStopsReads
<1> DEFINE Stops == aborted => \A r \in Reads :
              /\ pc[r] # "reading" => pc'[r] # "reading"
              /\ result[r] # "value" => result'[r] # "value"
<1>1. Slots /\ [Next]_vars => Stops
  <2> SUFFICES ASSUME Slots, [Next]_vars, aborted PROVE Stops
    OBVIOUS
  <2> USE DEF Slots, TypeOK, Settle
  <2>1. queue = <<>>
    BY DEF AbortEmptiesQueue
  <2>2. CASE UNCHANGED vars
    BY <2>2 DEF vars
  <2>3. ~Abort
    BY DEF Abort
  <2>4. ASSUME NEW r \in Reads, Start(r) PROVE Stops
    BY <2>4 DEF Start, StartAborted, Acquire, Enqueue
  <2>5. ASSUME NEW r \in Reads, Continue(r) PROVE Stops
    BY <2>1, <2>5 DEF Continue, Resume, ResumeAborted, StartRead, StartReadAborted, FinishRead, Release
  <2> QED
    BY <2>2, <2>3, <2>4, <2>5 DEF Next
<1> HIDE DEF Stops
<1>2. Spec => [][Stops]_vars
  BY <1>1, SlotsInit, SlotsStep, PTL DEF Spec
<1> QED
  BY <1>2 DEF AbortStopsReads, Stops
================================================================================
