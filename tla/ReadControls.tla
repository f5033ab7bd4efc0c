------------------------------ MODULE ReadControls ------------------------------
(***************************************************************************)
(* An object store wrapped by withObjectStoreReadControls of               *)
(* packages/core/src/store.ts: its get and getRange take a slot of one     *)
(* ReadSemaphore, wait for one in a queue, and give up when the one abort  *)
(* signal of the store fires (by the caller, or by maxElapsedMs).          *)
(*                                                                         *)
(* JavaScript runs each continuation to its end, so a step is what runs    *)
(* between two awaits.  release() calls the resolver of the first waiter,  *)
(* and the waiter takes its slot only in a later continuation: in between  *)
(* it is "woken", and any other continuation may run first.                *)
(***************************************************************************)
EXTENDS Integers, FiniteSets, Sequences

CONSTANTS
    Reads,      \* concurrent chains of reads, each with one read at a time
    Limit       \* maxConcurrentReads

ASSUME ReadAssumption == IsFiniteSet(Reads) /\ Limit \in Nat \ {0}

VARIABLES
    active,     \* ReadSemaphore.active
    queue,      \* ReadSemaphore.queue, the waiting reads in order
    aborted,    \* signal.aborted
    pc,         \* where each read is
    result      \* how each chain's last read settled

vars == <<active, queue, aborted, pc, result>>

Holding == {"granted", "reading"}
PCs == {"idle", "waiting", "woken"} \cup Holding

TypeOK ==
    /\ active \in Nat
    /\ queue \in Seq(Reads)
    /\ aborted \in BOOLEAN
    /\ pc \in [Reads -> PCs]
    /\ result \in [Reads -> {"none", "value", "error", "aborted"}]

Init ==
    /\ active = 0
    /\ queue = <<>>
    /\ aborted = FALSE
    /\ pc = [r \in Reads |-> "idle"]
    /\ result = [r \in Reads |-> "none"]

Settle(r, how) == result' = [result EXCEPT ![r] = how]

(* Fault: nobody is resolved.                                               *)
ReleaseSilent(others) ==
    /\ active' = active - 1
    /\ pc' = others
    /\ UNCHANGED queue

(* release: one slot less, and the first waiter is resolved.  "others" is   *)
(* pc with the releasing read moved on.                                     *)
Release(others) ==
    /\ active' = active - 1
    /\ IF queue = <<>>
       THEN pc' = others /\ UNCHANGED queue
       ELSE /\ pc' = [others EXCEPT ![Head(queue)] = "woken"]
            /\ queue' = Tail(queue)

(* controlledRead up to its first await, acquire included.                  *)
StartAborted(r) ==
    /\ pc[r] = "idle" /\ aborted
    /\ Settle(r, "aborted")
    /\ UNCHANGED <<active, queue, aborted, pc>>

Acquire(r) ==
    /\ pc[r] = "idle" /\ ~aborted
    /\ active < Limit
    /\ active' = active + 1
    /\ pc' = [pc EXCEPT ![r] = "granted"]
    /\ Settle(r, "none")
    /\ UNCHANGED <<queue, aborted>>

(* Fault: a read waits for the last slot though it is free.                 *)
EnqueueEarly(r) ==
    /\ pc[r] = "idle" /\ ~aborted
    /\ active >= Limit - 1
    /\ queue' = Append(queue, r)
    /\ pc' = [pc EXCEPT ![r] = "waiting"]
    /\ Settle(r, "none")
    /\ UNCHANGED <<active, aborted>>

Enqueue(r) ==
    /\ pc[r] = "idle" /\ ~aborted
    /\ active >= Limit
    /\ queue' = Append(queue, r)
    /\ pc' = [pc EXCEPT ![r] = "waiting"]
    /\ Settle(r, "none")
    /\ UNCHANGED <<active, aborted>>

(* A woken waiter continues: it takes a slot without looking at the limit.  *)
Resume(r) ==
    /\ pc[r] = "woken" /\ ~aborted
    /\ active' = active + 1
    /\ pc' = [pc EXCEPT ![r] = "granted"]
    /\ UNCHANGED <<queue, aborted, result>>

ResumeAborted(r) ==
    /\ pc[r] = "woken" /\ aborted
    /\ pc' = [pc EXCEPT ![r] = "idle"]
    /\ Settle(r, "aborted")
    /\ UNCHANGED <<active, queue, aborted>>

(* Fault: the signal is not looked at again.                                *)
StartReadUnchecked(r) ==
    /\ pc[r] = "granted"
    /\ pc' = [pc EXCEPT ![r] = "reading"]
    /\ UNCHANGED <<active, queue, aborted, result>>

(* The slot is there: the read of the inner store starts, or the slot is    *)
(* given back because the signal fired in between.                          *)
StartRead(r) ==
    /\ pc[r] = "granted" /\ ~aborted
    /\ pc' = [pc EXCEPT ![r] = "reading"]
    /\ UNCHANGED <<active, queue, aborted, result>>

StartReadAborted(r) ==
    /\ pc[r] = "granted" /\ aborted
    /\ Release([pc EXCEPT ![r] = "idle"])
    /\ Settle(r, "aborted")
    /\ UNCHANGED aborted

(* Fault: the slot of a read that throws is not given back.                 *)
FinishReadLeaks(r) ==
    /\ pc[r] = "reading"
    /\ \/ /\ Release([pc EXCEPT ![r] = "idle"])
          /\ Settle(r, IF aborted THEN "aborted" ELSE "value")
       \/ /\ pc' = [pc EXCEPT ![r] = "idle"]
          /\ Settle(r, "error")
          /\ UNCHANGED <<active, queue>>
    /\ UNCHANGED aborted

(* The inner store answers or throws; an answer that comes after the abort  *)
(* is dropped, an error is passed on.                                       *)
FinishRead(r) ==
    /\ pc[r] = "reading"
    /\ Release([pc EXCEPT ![r] = "idle"])
    /\ \/ Settle(r, IF aborted THEN "aborted" ELSE "value")
       \/ Settle(r, "error")
    /\ UNCHANGED aborted

(* The signal fires: the listener of each waiter takes it off the queue and *)
(* rejects it.  A woken one has removed its listener.                       *)
Abort ==
    /\ ~aborted
    /\ aborted' = TRUE
    /\ queue' = <<>>
    /\ pc' = [r \in Reads |-> IF pc[r] = "waiting" THEN "idle" ELSE pc[r]]
    /\ result' = [r \in Reads |-> IF pc[r] = "waiting" THEN "aborted" ELSE result[r]]
    /\ UNCHANGED active

Start(r)    == StartAborted(r) \/ Acquire(r) \/ Enqueue(r)
Continue(r) == \/ Resume(r) \/ ResumeAborted(r)
               \/ StartRead(r) \/ StartReadAborted(r) \/ FinishRead(r)

Next == Abort \/ \E r \in Reads : Start(r) \/ Continue(r)

Spec == Init /\ [][Next]_vars

(* The event loop runs every continuation, and the inner store answers.     *)
(* Nobody has to start a read, and nobody has to abort.                     *)
Fairness == \A r \in Reads : WF_vars(Continue(r))

FairSpec == Spec /\ Fairness
--------------------------------------------------------------------------------
Holders == {r \in Reads : pc[r] \in Holding}
Woken   == {r \in Reads : pc[r] = "woken"}

(* Every slot counted is held by a read: none is leaked by an error or an   *)
(* abort, none is given back twice.                                         *)
SlotsHeld == active = Cardinality(Holders)

(* A read waits only while the slots taken, or promised to a woken waiter,  *)
(* fill the limit: a wake-up is never lost to a read that comes in between. *)
WaitOnlyWhenFull == queue # <<>> => active + Cardinality(Woken) >= Limit

(* The queue holds the waiting reads, each once.                            *)
QueueIsWaiting ==
    /\ \A r \in Reads : pc[r] = "waiting" <=> \E i \in 1 .. Len(queue) : queue[i] = r
    /\ \A i, j \in 1 .. Len(queue) : queue[i] = queue[j] => i = j

(* After the signal fired no read of the inner store starts, and none that  *)
(* was under way delivers a value.                                          *)
AbortStopsReads ==
    [][aborted => \A r \in Reads :
           /\ pc[r] # "reading" => pc'[r] # "reading"
           /\ result[r] # "value" => result'[r] # "value"]_vars

(* Every read that waits for a slot gets one or is aborted, though woken    *)
(* reads and new ones compete for slots.                                    *)
WaitersServed == \A r \in Reads : pc[r] = "waiting" ~> pc[r] # "waiting"

(* docs/cloudflare-workers.md: "object-read fanout is controlled by         *)
(* maxConcurrentReads": no more reads of the inner store than that at once. *)
FanoutWithinLimit == Cardinality({r \in Reads : pc[r] = "reading"}) <= Limit
================================================================================
