---------------------------- MODULE IcebergMetadata ----------------------------
(***************************************************************************)
(* The metadata file of an Iceberg table as packages/iceberg/src/index.ts  *)
(* reads and writes it, and what an append makes of it.                    *)
(*                                                                         *)
(* A metadata file names its current snapshot and holds the manifests of   *)
(* every snapshot inline; the manifests of a snapshot are abstracted to    *)
(* the set of data-file entries they list.  An append call adds            *)
(* FilesPerAppend entries, told apart by the call and an index.            *)
(***************************************************************************)
EXTENDS Naturals

CONSTANTS
    SnapshotIds,      \* snapshot ids: the positive safe integers of the code
    Base,             \* the snapshot the table starts with
    Appends,          \* the append calls that can be made
    FilesPerAppend    \* data files one append call adds

ASSUME MetadataAssumption ==
    /\ SnapshotIds \subseteq Nat \ {0}
    /\ Base \in SnapshotIds
    /\ FilesPerAppend \in Nat \ {0}

Entries == [append : Appends, index : 0 .. FilesPerAppend - 1, seq : Nat]

(* "known" are the snapshot ids a metadata file lists, "files" the data     *)
(* files of each (none of a snapshot it does not list).                     *)
Metadata ==
    [current : SnapshotIds,
     known   : SUBSET SnapshotIds,
     files   : [SnapshotIds -> SUBSET Entries]]

InitialMetadata ==
    [current |-> Base, known |-> {Base}, files |-> [i \in SnapshotIds |-> {}]]

CurrentFiles(m) == m.files[m.current]

SequenceNumbers(m) == {e.seq : e \in UNION {m.files[i] : i \in m.known}}

(* The maximum starts at 0; the test for a largest element makes the       *)
(* operator total, and is true of every finite set.                        *)
MaxSequenceNumber(m) ==
    LET seqs == {0} \cup SequenceNumbers(m)
        IsMax(n) == \A k \in seqs : k <= n
    IN  IF \E n \in seqs : IsMax(n) THEN CHOOSE n \in seqs : IsMax(n) ELSE 0

(* Faults: one entry too many; one number for all.                          *)
NewEntriesOneMore(m, a) ==
    {[append |-> a, index |-> i, seq |-> MaxSequenceNumber(m) + 1 + i] :
        i \in 0 .. FilesPerAppend}

NewEntriesSameNumber(m, a) ==
    {[append |-> a, index |-> i, seq |-> MaxSequenceNumber(m) + 1] :
        i \in 0 .. FilesPerAppend - 1}

NewEntries(m, a) ==
    {[append |-> a, index |-> i, seq |-> MaxSequenceNumber(m) + 1 + i] :
        i \in 0 .. FilesPerAppend - 1}

(* Fault: the manifests of the current snapshot are not carried over.       *)
NextMetadataOnlyNew(m, id, a) ==
    [current |-> id,
     known   |-> m.known \cup {id},
     files   |-> [m.files EXCEPT ![id] = NewEntries(m, a)]]

(* The metadata file append call a writes on top of m: the base's          *)
(* snapshots and one more, current and reachable from main, that carries   *)
(* over the entries of the current one.                                    *)
NextMetadata(m, id, a) ==
    [current |-> id,
     known   |-> m.known \cup {id},
     files   |-> [m.files EXCEPT ![id] = CurrentFiles(m) \cup NewEntries(m, a)]]

(* The metadata file of a table moved to a snapshot it lists already.       *)
MovedTo(m, id) == [current |-> id, known |-> m.known, files |-> m.files]
================================================================================
