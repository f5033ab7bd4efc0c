-------------------------------- MODULE Caches --------------------------------
(***************************************************************************)
(* What is remembered between reads, side by side: the object-store cache, *)
(* the range cache of a file, the caches a table is hydrated through, and  *)
(* the plan and bookmark of a query read in slices.  They share no state   *)
(* and no code; the callers of one are those of the others.                *)
(***************************************************************************)
EXTENDS CachedObjectStore

CONSTANTS
    RangeLengths,   \* [range of the file -> its bytes]
    MaxRangeBytes,  \* budget of the range cache
    MaxEntryBytes,  \* the longest range it keeps
    Snapshots, ListOf, ManifestsOf, Generations, MaxFailures,   \* of TableHydration
    PathCount, Rows, Size, Queries, MaxRows,                    \* of SliceResume
    RowSet,         \* what a row can be
    SliceWrites     \* bound: changes while a query is read in slices

ASSUME RangeAssumption ==
    /\ RangeLengths \in [DOMAIN RangeLengths -> Nat]
    /\ MaxRangeBytes \in Nat /\ MaxEntryBytes \in Nat
    /\ None \notin DOMAIN RangeLengths

(* What stands for "inline" is not a file.                                  *)
ASSUME HydrationAssumption == \A s \in Snapshots : None \notin ManifestsOf[s]

(* An object listed by a slice, and what its fingerprint takes of it.       *)
Objects == [path : 1 .. PathCount, version : 1 .. SliceWrites + 1]
Prints == (1 .. PathCount) \X Nat \X ((1 .. SliceWrites + 1) \cup {None})
Bookmarks == [planFingerprint : Seq(Prints), rowOffset : Nat]

ASSUME SliceAssumption ==
    /\ PathCount \in Nat /\ SliceWrites \in Nat
    /\ Rows \in [1 .. PathCount -> [1 .. SliceWrites + 1 -> Seq(RowSet)]]
    /\ Size \in [1 .. SliceWrites + 1 -> Nat]
    /\ Queries \subseteq [distinct : BOOLEAN, offset : Nat, limit : Nat \cup {None}]
    /\ MaxRows \subseteq Nat \ {0}
    /\ None \notin Nat /\ None \notin Seq(Objects) /\ None \notin Bookmarks

VARIABLES
    entries, cachedBytes, slicing, overwritten,
    generation, persistent, load, uuid, aborted, promise, waits, reads, failures, mixed,
    objects, writes, setup, remembered, step, plan, queue, read, bookmark, out, basis, unseen

Ranges == INSTANCE RangeCache WITH
    Slicers <- Callers, Ranges <- RangeLengths, MaxBytes <- MaxRangeBytes

Hydration == INSTANCE TableHydration WITH Loads <- Callers

Slices == INSTANCE SliceResume WITH MaxWrites <- SliceWrites

(* The count of the range cache is what it keeps and what it overwrote.     *)
RangesAccounted == Ranges!RangesAccounted
(* A load of a table succeeds with its own files or fails on its own.       *)
HydrationExact == Hydration!HydrationExact
(* The slices of a query are one reading of it.                             *)
SlicesReadOnce == Slices!SlicesReadOnce
================================================================================
