----------------------------- MODULE TableHydration -----------------------------
(***************************************************************************)
(* hydrateMetadataManifests of packages/iceberg/src/index.ts: the manifest *)
(* lists and manifests of all snapshots of a table are read concurrently,  *)
(* each path once per load through a map of promises, and once at all      *)
(* through a cache that loads share.  A step is what runs between awaits.  *)
(*                                                                         *)
(* What a file holds is the generation of the table that wrote it: a table *)
(* dropped and made again has another uuid and may use the paths again.    *)
(***************************************************************************)
EXTENDS Naturals

CONSTANTS
    Loads,
    Snapshots,
    ListOf,         \* [snapshot -> its manifest list, or None when inline]
    ManifestsOf,    \* [snapshot -> set of manifests it refers to]
    Generations,    \* bound: how often the table is made
    MaxFailures,    \* bound: failed calls of the store or the cache
    None

VARIABLES
    generation,     \* of the table that is in the store
    persistent,     \* the shared cache: a set of [key, holds]
    load,           \* state of each load
    uuid,           \* the generation whose metadata it hydrates
    aborted,        \* its signal
    promise,        \* [load -> [path -> state of the promise in its map]]
    waits,          \* [load -> [snapshot -> what it waits for]]
    reads,          \* [load -> [path -> reads of the store]] (history)
    failures,       \* [load -> failed calls] (history)
    mixed           \* uuids a load read files of another table for (history)

vars == <<generation, persistent, load, uuid, aborted, promise, waits, reads, failures, mixed>>

Files == ({ListOf[s] : s \in Snapshots} \cup UNION {ManifestsOf[s] : s \in Snapshots}) \ {None}
NoPromise == [step |-> "none", holds |-> 0]

Init ==
    /\ generation = 1 /\ persistent = {} /\ mixed = {}
    /\ load = [l \in Loads |-> "idle"]
    /\ uuid = [l \in Loads |-> 0]
    /\ aborted = [l \in Loads |-> FALSE]
    /\ promise = [l \in Loads |-> [f \in Files |-> NoPromise]]
    /\ waits = [l \in Loads |-> [s \in Snapshots |-> "nothing"]]
    /\ reads = [l \in Loads |-> [f \in Files |-> 0]]
    /\ failures = [l \in Loads |-> 0]
--------------------------------------------------------------------------------
(* Fault: the key of a file has no table in it.                             *)
PathKey(table, file) == <<table - table, file>>
(* icebergMetadataCacheKey                                                  *)
CacheKey(table, file) == <<table, file>>

(* cachedManifestList and cachedManifest: join the promise in the map, or   *)
(* begin one by looking in the shared cache.                                *)
Asked(promises, files) ==
    [f \in Files |-> IF f \in files /\ promises[f] = NoPromise
                     THEN [step |-> "lookup", holds |-> 0] ELSE promises[f]]

(* hydrateMetadataManifests starts every snapshot at once.                  *)
Start(l) ==
    /\ load[l] = "idle"
    /\ load' = [load EXCEPT ![l] = "running"]
    /\ uuid' = [uuid EXCEPT ![l] = generation]
    /\ waits' = [waits EXCEPT ![l] = [s \in Snapshots |->
                    IF ListOf[s] = None THEN "manifests" ELSE "list"]]
    /\ promise' = [promise EXCEPT ![l] = Asked(@, UNION {
                    IF ListOf[s] = None THEN ManifestsOf[s] ELSE {ListOf[s]} : s \in Snapshots})]
    /\ UNCHANGED <<generation, persistent, aborted, reads, failures, mixed>>

Resolved(l, f, step, holds) ==
    promise' = [promise EXCEPT ![l][f] = [step |-> step, holds |-> holds]]

Lookup(l, f) ==
    /\ promise[l][f].step = "lookup"
    /\ LET found == {entry \in persistent : entry.key = CacheKey(uuid[l], f)}
       IN  \/ found = {} /\ Resolved(l, f, "read", 0)
           \/ \E entry \in found : Resolved(l, f, "held", entry.holds)
    /\ UNCHANGED <<generation, persistent, load, uuid, aborted, waits, reads, failures, mixed>>

Read(l, f) ==
    /\ promise[l][f].step = "read"
    /\ Resolved(l, f, "store", generation)
    /\ reads' = [reads EXCEPT ![l][f] = @ + 1]
    /\ mixed' = IF generation = uuid[l] THEN mixed ELSE mixed \cup {uuid[l]}
    /\ UNCHANGED <<generation, persistent, load, uuid, aborted, waits, failures>>

(* What was read goes to the shared cache before anyone sees it.            *)
Store(l, f) ==
    /\ promise[l][f].step = "store"
    /\ LET key == CacheKey(uuid[l], f)
       IN  persistent' = {entry \in persistent : entry.key # key}
                         \cup {[key |-> key, holds |-> promise[l][f].holds]}
    /\ Resolved(l, f, "held", promise[l][f].holds)
    /\ UNCHANGED <<generation, load, uuid, aborted, waits, reads, failures, mixed>>

WaitsFor(l, s, f) ==
    \/ waits[l][s] = "list" /\ f = ListOf[s]
    \/ waits[l][s] = "manifests" /\ f \in ManifestsOf[s]

(* The cache or the store fails: the promise leaves the map, and whoever    *)
(* waits for it fails with it; the other snapshots go on.                   *)
Fail(l, f) ==
    /\ promise[l][f].step \in {"lookup", "read", "store"}
    /\ failures[l] < MaxFailures
    /\ promise' = [promise EXCEPT ![l][f] = NoPromise]
    /\ waits' = [waits EXCEPT ![l] = [s \in Snapshots |->
                    IF WaitsFor(l, s, f) THEN "failed" ELSE @[s]]]
    /\ reads' = IF promise[l][f].step = "read" THEN [reads EXCEPT ![l][f] = @ + 1] ELSE reads
    /\ failures' = [failures EXCEPT ![l] = @ + 1]
    /\ UNCHANGED <<generation, persistent, load, uuid, aborted, mixed>>

Held(l, files) == \A f \in files : promise[l][f].step = "held"

(* The continuation of a snapshot whose files have come; an aborted one     *)
(* throws.                                                                  *)
Continue(l, s) ==
    /\ \/ waits[l][s] = "list" /\ Held(l, {ListOf[s]})
       \/ waits[l][s] = "manifests" /\ Held(l, ManifestsOf[s])
    /\ IF aborted[l]
       THEN waits' = [waits EXCEPT ![l][s] = "failed"] /\ UNCHANGED promise
       ELSE IF waits[l][s] = "list"
       THEN /\ waits' = [waits EXCEPT ![l][s] = "manifests"]
            /\ promise' = [promise EXCEPT ![l] = Asked(@, ManifestsOf[s])]
       ELSE waits' = [waits EXCEPT ![l][s] = "hydrated"] /\ UNCHANGED promise
    /\ UNCHANGED <<generation, persistent, load, uuid, aborted, reads, failures, mixed>>

(* Promise.all: the load ends with its last snapshot, or the first failure. *)
End(l) ==
    /\ load[l] = "running"
    /\ \/ /\ \E s \in Snapshots : waits[l][s] = "failed"
          /\ load' = [load EXCEPT ![l] = "failed"]
       \/ /\ \A s \in Snapshots : waits[l][s] = "hydrated"
          /\ load' = [load EXCEPT ![l] = "loaded"]
    /\ UNCHANGED <<generation, persistent, uuid, aborted, promise, waits, reads, failures, mixed>>

Abort(l) ==
    /\ load[l] = "running" /\ ~aborted[l]
    /\ aborted' = [aborted EXCEPT ![l] = TRUE]
    /\ UNCHANGED <<generation, persistent, load, uuid, promise, waits, reads, failures, mixed>>

(* The table is dropped and made again at the same place.                   *)
Recreate ==
    /\ generation < Generations
    /\ generation' = generation + 1
    /\ UNCHANGED <<persistent, load, uuid, aborted, promise, waits, reads, failures, mixed>>

Next ==
    \/ Recreate
    \/ \E l \in Loads :
          \/ Start(l) \/ End(l) \/ Abort(l)
          \/ \E s \in Snapshots : Continue(l, s)
          \/ \E f \in Files : Lookup(l, f) \/ Read(l, f) \/ Store(l, f) \/ Fail(l, f)

Spec == Init /\ [][Next]_vars
--------------------------------------------------------------------------------
(* A load that succeeds has the files of its own table, whatever other      *)
(* loads failed, were aborted or left in the shared cache before; one that  *)
(* fails has seen a failure or an abort of its own; and no path is read     *)
(* twice in a load but after a failure.  (A table made again while a load   *)
(* of the old one reads is the exception: its files are cached for the old.) *)
HydrationExact ==
    \A l \in Loads :
        /\ load[l] = "loaded" /\ uuid[l] \notin mixed =>
              \A f \in Files : promise[l][f].step = "held" /\ promise[l][f].holds = uuid[l]
        /\ load[l] = "failed" => failures[l] > 0 \/ aborted[l]
        /\ \A f \in Files : reads[l][f] <= 1 + failures[l]
================================================================================
