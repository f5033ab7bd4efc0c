----------------------------- MODULE TaskCheckpoint ----------------------------
(***************************************************************************)
(* One write task run by workers that share a checkpoint adapter:          *)
(* transitionTaskCheckpoint and advanceTaskCheckpoint of                   *)
(* packages/core/src/manifest.ts under writePartitionedParquetTask of      *)
(* packages/parquet/src/index.ts.                                          *)
(*                                                                         *)
(* The queue may deliver the task to several workers, with the same        *)
(* idempotency key or with another, and deliver it again after a worker    *)
(* crashed or threw.  advanceTaskCheckpoint reads the checkpoint and       *)
(* writes it back in two calls of the adapter, with nothing to hold other  *)
(* workers off in between.                                                 *)
(*                                                                         *)
(* The rows, and so the files, of the task are the same in every run; a    *)
(* file is known by its idempotency key and ordinal, the parts of its path *)
(* that differ.  The nowMs a worker stamps is the time it started at (the  *)
(* code adds 1 to 4 ms to order its own stamps).                           *)
(***************************************************************************)
EXTENDS Naturals

CONSTANTS
    Workers,        \* workers the queue delivers the task to
    Keys,           \* idempotency keys
    NumFiles,       \* files the task writes
    Creators,       \* workers whose writeMode is "create"
    StaleTimeout,   \* staleTimeoutMs
    MaxTime,        \* bound: the clock
    MaxCrashes,     \* bound: runs that crash, of all workers
    None,           \* no checkpoint, no outputs
    Unread          \* advanceTaskCheckpoint has not read the checkpoint

VARIABLES
    checkpoint,     \* the task's checkpoint in the adapter
    files,          \* the Parquet files in the object store
    now,            \* the clock
    pc,             \* the next call of each worker
    keyOf,          \* the idempotency key the worker's run was given
    started,        \* nowMs of the worker's run
    existing,       \* what the worker's run read first
    got,            \* what advanceTaskCheckpoint has read
    ordinal,        \* files the worker's run has written
    crashes,        \* runs that crashed so far
    outcome         \* how the worker's last run ended, with what entries

local == <<keyOf, started, existing, got, ordinal>>
vars  == <<checkpoint, files, now, pc, local, crashes, outcome>>

States == <<"planned", "running", "output-written", "manifest-recorded", "complete">>
StateSet == {States[i] : i \in 1 .. 5}
Rank(s) == CHOOSE i \in 1 .. 5 : States[i] = s

Files == Keys \X (1 .. NumFiles)
FilesOf(k) == {k} \X (1 .. NumFiles)

(* TaskCheckpoint, as far as the transitions read and write it.             *)
Checkpoints ==
    [state : StateSet, key : Keys, updatedAt : Nat, outputs : {None} \cup SUBSET Files]

ASSUME TaskAssumption ==
    /\ NumFiles \in Nat \ {0} /\ StaleTimeout \in Nat
    /\ Creators \subseteq Workers
    /\ MaxTime \in Nat /\ MaxCrashes \in Nat
    /\ None \notin Checkpoints /\ \A k \in Keys : None # FilesOf(k)
    /\ Unread \notin Checkpoints /\ Unread # None
--------------------------------------------------------------------------------
(* transitionTaskCheckpoint: what it refuses and what it makes of the       *)
(* checkpoint.  An existing checkpoint in the wanted state and with the     *)
(* same key is the answer as it stands.                                     *)
IsReplay(e, to, key) == e # None /\ e.state = to /\ e.key = key

IsStale(e, time, checked) == checked /\ time - e.updatedAt > StaleTimeout

(* Fault: the key of the checkpoint is not compared.                        *)
KeyIgnored(e, to, key, time, checked) == e # None /\ e.key \notin Keys

KeyMismatch(e, to, key, time, checked) ==
    /\ e # None
    /\ e.key # key
    /\ ~IsStale(e, time, checked)

TransitionAllowed(e, to, time, checked) ==
    \/ IsStale(e, time, checked) /\ to = "running"
    \/ Rank(to) = Rank(e.state) + 1

NotAllowed(e, to, key, time, checked) ==
    /\ e # None
    /\ ~IsReplay(e, to, key)
    /\ ~KeyMismatch(e, to, key, time, checked)
    /\ ~TransitionAllowed(e, to, time, checked)

(* Fault: outputs are never carried over.                                   *)
OutputsNotCarried(e, to, outputs) == outputs

(* The outputs given, or those of the existing checkpoint if the state      *)
(* moves forward.                                                           *)
CarriedOutputs(e, to, outputs) ==
    IF outputs = None /\ e # None /\ e.outputs # None /\ Rank(to) > Rank(e.state)
    THEN e.outputs
    ELSE outputs

Transitioned(e, to, key, time, outputs) ==
    IF IsReplay(e, to, key)
    THEN e
    ELSE [state |-> to, key |-> key, updatedAt |-> time,
          outputs |-> CarriedOutputs(e, to, outputs)]
--------------------------------------------------------------------------------
Init ==
    /\ checkpoint = None
    /\ files = {}
    /\ now = 0
    /\ pc = [w \in Workers |-> "idle"]
    /\ keyOf \in [Workers -> Keys]
    /\ started = [w \in Workers |-> 0]
    /\ existing = [w \in Workers |-> None]
    /\ got = [w \in Workers |-> Unread]
    /\ ordinal = [w \in Workers |-> 0]
    /\ crashes = 0
    /\ outcome = [w \in Workers |-> [how |-> "none", entries |-> None]]

Goto(w, label) == pc' = [pc EXCEPT ![w] = label]

End(w, how, entries) ==
    /\ outcome' = [outcome EXCEPT ![w] = [how |-> how, entries |-> entries]]
    /\ Goto(w, "idle")

(* The queue delivers the task (again), under any key.                      *)
Deliver(w) ==
    /\ pc[w] = "idle"
    /\ outcome[w].how # "done"
    /\ \E k \in Keys : keyOf' = [keyOf EXCEPT ![w] = k]
    /\ started' = [started EXCEPT ![w] = now]
    /\ existing' = [existing EXCEPT ![w] = None]
    /\ got' = [got EXCEPT ![w] = Unread]
    /\ ordinal' = [ordinal EXCEPT ![w] = 0]
    /\ outcome' = [outcome EXCEPT ![w] = [how |-> "none", entries |-> None]]
    /\ Goto(w, "read")
    /\ UNCHANGED <<checkpoint, files, now, crashes>>

OwnOutputs(e, w) == IF e # None /\ e.key = keyOf[w] THEN e.outputs ELSE None

(* The first read decides where the run picks the task up.                  *)
ReplayDone(w) ==
    /\ pc[w] = "read"
    /\ checkpoint # None /\ checkpoint.state = "complete"
    /\ OwnOutputs(checkpoint, w) # None
    /\ End(w, "done", OwnOutputs(checkpoint, w))
    /\ UNCHANGED <<checkpoint, files, now, local, crashes>>

Resumable(e, w) ==
    /\ e # None
    /\ e.state \in {"output-written", "manifest-recorded"}
    /\ OwnOutputs(e, w) # None

AfterOutputs(e) ==
    IF e # None /\ e.state = "manifest-recorded" THEN "complete" ELSE "manifest-recorded"

(* Where a run begins that is not done.  Fault: with "planned", whatever    *)
(* the state.                                                               *)
StartsPlanned(e, w) == IF Resumable(e, w) THEN AfterOutputs(e) ELSE "planned"

StartsAt(e, w) ==
    IF Resumable(e, w) THEN AfterOutputs(e)
    ELSE IF e # None /\ e.state = "running" THEN "running" ELSE "planned"

ReadExisting(w) ==
    /\ pc[w] = "read"
    /\ ~(checkpoint # None /\ checkpoint.state = "complete"
                           /\ OwnOutputs(checkpoint, w) # None)
    /\ existing' = [existing EXCEPT ![w] = checkpoint]
    /\ Goto(w, StartsAt(checkpoint, w))
    /\ UNCHANGED <<checkpoint, files, now, keyOf, started, got, ordinal, crashes, outcome>>

(* advanceTaskCheckpoint, first call: get the checkpoint.                   *)
AdvanceGet(w) ==
    /\ pc[w] \in StateSet
    /\ got[w] = Unread
    /\ got' = [got EXCEPT ![w] = checkpoint]
    /\ UNCHANGED <<checkpoint, files, now, pc, keyOf, started, existing, ordinal, crashes, outcome>>

(* The stale timeout is passed on for the first two states only.            *)
ChecksStale(w) == pc[w] \in {"planned", "running"}

Refused(w) ==
    \/ /\ ~IsReplay(got[w], pc[w], keyOf[w])
       /\ KeyMismatch(got[w], pc[w], keyOf[w], started[w], ChecksStale(w))
    \/ NotAllowed(got[w], pc[w], keyOf[w], started[w], ChecksStale(w))

AdvanceRefused(w) ==
    /\ pc[w] \in StateSet
    /\ got[w] # Unread
    /\ Refused(w)
    /\ End(w, IF NotAllowed(got[w], pc[w], keyOf[w], started[w], ChecksStale(w))
              THEN "notAllowed" ELSE "mismatch", None)
    /\ UNCHANGED <<checkpoint, files, now, local, crashes>>

(* The entries of the run: what it has written, or what it resumed from.    *)
EntriesOf(w) ==
    IF Resumable(existing[w], w) THEN OwnOutputs(existing[w], w) ELSE FilesOf(keyOf[w])

(* advanceTaskCheckpoint, second call: put the checkpoint, over whatever is *)
(* there by now; the run moves on.                                          *)
AdvancePut(w) ==
    /\ pc[w] \in StateSet
    /\ got[w] # Unread
    /\ ~Refused(w)
    /\ checkpoint' = Transitioned(got[w], pc[w], keyOf[w], started[w],
                         IF pc[w] = "output-written" THEN EntriesOf(w) ELSE None)
    /\ got' = [got EXCEPT ![w] = Unread]
    /\ \/ pc[w] = "planned"           /\ Goto(w, "running") /\ UNCHANGED outcome
       \/ pc[w] = "running"           /\ Goto(w, "head") /\ UNCHANGED outcome
       \/ pc[w] = "output-written"    /\ Goto(w, AfterOutputs(existing[w])) /\ UNCHANGED outcome
       \/ pc[w] = "manifest-recorded" /\ Goto(w, "complete") /\ UNCHANGED outcome
       \/ pc[w] = "complete"          /\ End(w, "done", EntriesOf(w))
    /\ UNCHANGED <<files, now, keyOf, started, existing, ordinal, crashes>>

NextFile(w) == <<keyOf[w], ordinal[w] + 1>>

(* putParquetBytes: "create" looks whether the file is there before the put. *)
HeadFile(w) ==
    /\ pc[w] = "head"
    /\ ~(w \in Creators /\ NextFile(w) \in files)
    /\ Goto(w, "put")
    /\ UNCHANGED <<checkpoint, files, now, local, crashes, outcome>>

FileExists(w) ==
    /\ pc[w] = "head"
    /\ w \in Creators /\ NextFile(w) \in files
    /\ End(w, "exists", None)
    /\ UNCHANGED <<checkpoint, files, now, local, crashes>>

PutFile(w) ==
    /\ pc[w] = "put"
    /\ files' = files \cup {NextFile(w)}
    /\ ordinal' = [ordinal EXCEPT ![w] = @ + 1]
    /\ Goto(w, IF ordinal[w] + 1 = NumFiles THEN "output-written" ELSE "head")
    /\ UNCHANGED <<checkpoint, now, keyOf, started, existing, got, crashes, outcome>>

(* The worker dies, or a call of the store or the adapter throws.           *)
Crash(w) ==
    /\ pc[w] # "idle"
    /\ crashes < MaxCrashes
    /\ crashes' = crashes + 1
    /\ End(w, "crashed", None)
    /\ UNCHANGED <<checkpoint, files, now, local>>

Tick ==
    /\ now < MaxTime
    /\ now' = now + 1
    /\ UNCHANGED <<checkpoint, files, pc, local, crashes, outcome>>

Run(w) == \/ ReplayDone(w) \/ ReadExisting(w)
          \/ AdvanceGet(w) \/ AdvanceRefused(w) \/ AdvancePut(w)
          \/ HeadFile(w) \/ FileExists(w) \/ PutFile(w)

Next == Tick \/ \E w \in Workers : Deliver(w) \/ Run(w) \/ Crash(w)

Spec == Init /\ [][Next]_vars

(* A worker that is not crashed runs on, and the queue delivers a task that *)
(* is not done again.                                                       *)
Fairness == \A w \in Workers : WF_vars(Run(w)) /\ WF_vars(Deliver(w))

FairSpec == Spec /\ Fairness
--------------------------------------------------------------------------------
Reached(s) == checkpoint # None /\ Rank(checkpoint.state) >= Rank(s)

(* A checkpoint that has reached output-written names all files of the task *)
(* under its own idempotency key, and every one of them is in the store,    *)
(* whichever workers raced for the task; before that it names none, for a   *)
(* requeue drops what the run before recorded, and                          *)
(* createOutputManifestFromCheckpoints reads the outputs of a checkpoint in *)
(* any state.  A run that ends well answers with files in the store.        *)
OutputsWritten ==
    /\ Reached("output-written") =>
          checkpoint.outputs = FilesOf(checkpoint.key) /\ checkpoint.outputs \subseteq files
    /\ checkpoint # None /\ ~Reached("output-written") => checkpoint.outputs = None
    /\ \A w \in Workers : outcome[w].how = "done" =>
          outcome[w].entries = FilesOf(keyOf[w]) /\ outcome[w].entries \subseteq files

(* A live worker keeps its task: a worker with another key takes it over    *)
(* only when the checkpoint it read was older than the stale timeout.       *)
TakeoverOnlyWhenStale ==
    [][checkpoint # None /\ checkpoint'.key # checkpoint.key =>
          \E w \in Workers :
             /\ keyOf[w] = checkpoint'.key /\ got[w] # Unread
             /\ \/ got[w] # None /\ got[w].key = keyOf[w]
                \/ got[w] = None
                \/ started[w] - got[w].updatedAt > StaleTimeout]_vars

(* With the runs the queue grants, the task gets done in spite of crashes.  *)
TaskCompletes == <>(checkpoint # None /\ checkpoint.state = "complete")

(* docs/writing-parquet.md: "Replaying a completed task with the same       *)
(* idempotency key returns the checkpointed outputs": a complete checkpoint *)
(* is not taken back.                                                       *)
CompleteIsFinal ==
    [][Reached("complete") => Reached("complete")']_vars
================================================================================
