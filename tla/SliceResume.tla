------------------------------ MODULE SliceResume ------------------------------
(***************************************************************************)
(* QueryResult.slice, resumableBatches and Lake.resume of                  *)
(* packages/core/src/query.ts with the bookmarks of manifest.ts: a query   *)
(* is read slice by slice while other writers change the objects.  A slice *)
(* lists the objects twice, once for the fingerprint of its plan and once  *)
(* for its rows, and reads one object after the other.                     *)
(*                                                                         *)
(* A version stands for the content and the etag of an object; 0 is no     *)
(* object.  Filters, orders and projections are left out: a row is what is *)
(* delivered of it, and rows come in listing order.                        *)
(***************************************************************************)
EXTENDS Integers, Sequences

CONSTANTS
    PathCount,  \* the paths the source matches are numbered in their order
    Rows,       \* [path -> [version -> sequence of rows]]
    Size,       \* [version -> byte size]
    Queries,    \* [distinct, offset, limit] records
    MaxRows,    \* the slice sizes asked for
    MaxWrites,  \* bound: puts and deletes by other writers
    None

VARIABLES
    objects,    \* the version at each path
    writes,     \* versions given out
    setup,      \* the query, its slice size, who resumes it, and whether there
                \* are etags and a planning cache: never changes
    remembered, \* the planning cache: None or a listing
    step,       \* of the slice under way
    plan,       \* its fingerprint
    queue,      \* listed objects it has not read
    read,       \* rows it has read
    bookmark,   \* None, or where the last slice ended
    out,        \* rows delivered by all slices (history)
    basis,      \* what was in the store when the first slice listed it (history)
    unseen      \* a change the fingerprints could not tell (history)

vars == <<objects, writes, setup, remembered, step, plan, queue, read, bookmark,
          out, basis, unseen>>

PathNumbers == 1 .. PathCount

Setups == [query : Queries, maxRows : MaxRows, resume : {"builder", "lake"},
           etags : BOOLEAN, cached : BOOLEAN]

Init ==
    /\ objects = [p \in PathNumbers |-> 1]
    /\ writes = 1
    /\ setup \in Setups
    /\ remembered = None /\ bookmark = None
    /\ step = "idle" /\ plan = <<>> /\ queue = <<>> /\ read = <<>>
    /\ out = <<>> /\ basis = <<>> /\ unseen = FALSE
--------------------------------------------------------------------------------
(* expandPathsUncached: what matches, sorted by path.                       *)
Listing ==
    LET upTo[p \in 0 .. PathCount] ==
            IF p = 0 THEN <<>>
            ELSE IF objects[p] = 0 THEN upTo[p - 1]
            ELSE Append(upTo[p - 1], [path |-> p, version |-> objects[p]])
    IN  upTo[PathCount]

(* expandPaths: a planning cache answers with the first listing for ever.   *)
Expanded == IF setup.cached /\ remembered # None THEN remembered ELSE Listing
Remember == remembered' = IF setup.cached THEN Expanded ELSE None

(* snapshotFromTasks and the fingerprint: path, size and the etag if any.   *)
Fingerprint(listing) ==
    [i \in DOMAIN listing |->
        <<listing[i].path, Size[listing[i].version],
          IF setup.etags THEN listing[i].version ELSE None>>]

(* The clauses a slice runs with: cloneBookmarkQuery keeps DISTINCT in the  *)
(* query of a result, normalizeBookmarkQuery leaves it out of a bookmark,   *)
(* which is what Lake.resume reads.                                         *)
Clauses ==
    IF setup.resume = "lake" /\ bookmark # None
    THEN [setup.query EXCEPT !.distinct = FALSE]
    ELSE setup.query

Distinct(rows) ==
    LET kept[n \in 0 .. Len(rows)] ==
            IF n = 0 THEN <<>>
            ELSE IF \E m \in 1 .. n - 1 : rows[m] = rows[n] THEN kept[n - 1]
            ELSE Append(kept[n - 1], rows[n])
    IN  kept[Len(rows)]

(* rows(): DISTINCT, then OFFSET, then LIMIT.                               *)
Answer(query, rows) ==
    LET kept == IF query.distinct THEN Distinct(rows) ELSE rows
        last == IF query.limit = None THEN Len(kept) ELSE query.offset + query.limit
    IN  SubSeq(kept, query.offset + 1, IF last < Len(kept) THEN last ELSE Len(kept))

StartOffset == IF bookmark = None THEN 0 ELSE bookmark.rowOffset

HasMore(rows) == Len(rows) > StartOffset + setup.maxRows
LimitReached(rows) == Clauses.limit # None /\ Len(rows) >= Clauses.limit

(* Fault: the fingerprint in the bookmark is not compared.                  *)
AnyMatches(fingerprint) == bookmark = None \/ fingerprint # None
(* assertBookmarkMatches                                                    *)
Matches(fingerprint) == bookmark = None \/ bookmark.planFingerprint = fingerprint

(* slice, first half: plan the tasks, compare the bookmark.                 *)
Plan ==
    /\ step = "idle"
    /\ Remember
    /\ plan' = Fingerprint(Expanded)
    /\ step' = IF Matches(plan') THEN "planned" ELSE "stale"
    /\ basis' = IF bookmark = None THEN Listing ELSE basis
    /\ unseen' = (unseen \/ (bookmark # None /\ bookmark.planFingerprint = plan' /\ Listing # basis))
    /\ UNCHANGED <<objects, writes, setup, queue, read, bookmark, out>>

(* rows() lists again.                                                      *)
Open ==
    /\ step = "planned"
    /\ Remember
    /\ step' = "reading" /\ queue' = Expanded /\ read' = <<>>
    /\ UNCHANGED <<objects, writes, setup, plan, bookmark, out, basis, unseen>>

Reading ==
    LET rows == Answer(Clauses, read)
    IN  step = "reading" /\ queue # <<>> /\ ~HasMore(rows) /\ ~LimitReached(rows)

ReadObject ==
    /\ Reading
    /\ LET object == Head(queue).path
       IN  IF objects[object] = 0
           THEN step' = "failed" /\ UNCHANGED <<queue, read>>
           ELSE /\ read' = read \o Rows[object][objects[object]]
                /\ queue' = Tail(queue)
                /\ UNCHANGED step
    /\ UNCHANGED <<objects, writes, setup, remembered, plan, bookmark, out, basis, unseen>>

(* slice, second half: skip what earlier slices delivered, take maxRows, and *)
(* leave a bookmark if another row was seen.                                *)
Deliver ==
    /\ step = "reading" /\ ~Reading
    /\ LET rows == Answer(Clauses, read)
           page == SubSeq(rows, StartOffset + 1,
                          IF HasMore(rows) THEN StartOffset + setup.maxRows ELSE Len(rows))
       IN  /\ out' = out \o page
           /\ IF HasMore(rows)
              THEN /\ step' = "idle"
                   /\ bookmark' = [planFingerprint |-> plan,
                                   rowOffset |-> StartOffset + setup.maxRows]
              ELSE step' = "done" /\ UNCHANGED bookmark
    /\ UNCHANGED <<objects, writes, setup, remembered, plan, queue, read, basis, unseen>>

(* Another writer puts or deletes an object.                                *)
Write ==
    /\ writes <= MaxWrites /\ step \notin {"done", "stale", "failed"}
    /\ writes' = writes + 1
    /\ \E p \in PathNumbers, there \in BOOLEAN :
          /\ there \/ objects[p] # 0
          /\ objects' = [objects EXCEPT ![p] = IF there THEN writes' ELSE 0]
    /\ unseen' = (unseen \/ step \in {"planned", "reading"})
    /\ UNCHANGED <<setup, remembered, step, plan, queue, read, bookmark, out, basis>>

Next == Plan \/ Open \/ ReadObject \/ Deliver \/ Write

Spec == Init /\ [][Next]_vars
--------------------------------------------------------------------------------
(* What one reading of the listed objects yields.                           *)
RowsOf(listing) ==
    LET upTo[n \in 0 .. Len(listing)] ==
            IF n = 0 THEN <<>>
            ELSE upTo[n - 1] \o Rows[listing[n].path][listing[n].version]
    IN  upTo[Len(listing)]

(* The slices of a query together deliver each of its rows once, in order,  *)
(* as one read of the store at the first slice would have; a change between *)
(* two slices is refused, and nothing else is.  Not promised when a change  *)
(* falls between the listing and the last read of a slice, when there are   *)
(* no etags to tell an overwrite, when a planning cache answers for the     *)
(* store, and when Lake.resume continues a DISTINCT query.                  *)
SlicesReadOnce ==
    /\ unseen \/ (setup.resume = "lake" /\ setup.query.distinct)
       \/ LET all == Answer(setup.query, RowsOf(basis))
          IN  /\ \E n \in 0 .. Len(all) : out = SubSeq(all, 1, n)
              /\ step = "done" => out = all
    /\ step = "stale" => ~setup.cached /\ Listing # basis
    /\ step = "failed" => unseen
================================================================================
