--------------------------- MODULE CachedObjectStore ---------------------------
(***************************************************************************)
(* cachedObjectStore of packages/core/src/object-store-cache.ts: a read-   *)
(* through cache in front of an object store, used by concurrent calls of  *)
(* one process.  A step is what runs between two awaits; a call of the     *)
(* inner store is issued in one step, takes effect in another and answers  *)
(* in a third.                                                             *)
(*                                                                         *)
(* The content of a path is the number of the write that left it and       *)
(* whether that was a put.  One range per path stands for all of them.     *)
(***************************************************************************)
EXTENDS SharedMemoryCache

CONSTANTS
    Paths,
    Callers,        \* concurrent calls
    Policy,         \* "balanced", "io" or "latency"
    ObjectBytes,    \* size of every object that is there
    RangeBytes,     \* size of the range that is read of it
    MaxWrites,      \* bound: puts and deletes of a path
    MaxTime,        \* bound: the clock
    None            \* no call

Kinds == {"object", "range", "head"}
Contents == [write : Nat, there : BOOLEAN]

(* The calls that can be under way: a read of one kind, a put or a delete.  *)
Reads ==
    [op : {"read"}, kind : Kinds, path : Paths,
     step : {"issued", "answered"}, value : Contents \cup {None}]
Writes ==
    [op : {"write"}, path : Paths, there : BOOLEAN, step : {"issued", "applied"}]
Calls == Reads \cup Writes

ASSUME CacheAssumption ==
    /\ MaxBytes \in Nat /\ (Ttl = Forever \/ Ttl \in Nat)
    /\ Policy \in {"balanced", "io", "latency"}
    /\ ObjectBytes \in Nat /\ RangeBytes \in 0 .. ObjectBytes
    /\ MaxWrites \in Nat /\ MaxTime \in Nat
    /\ None \notin Calls

VARIABLES
    content,    \* what the inner store holds at each path
    cache,      \* the SharedMemoryCache
    now,        \* the clock
    call,       \* the call under way of each caller
    overlapped  \* paths written while the answer of a read was on its way, or
                \* by a write that threw (history)

vars == <<content, cache, now, call, overlapped>>

Init ==
    /\ content = [p \in Paths |-> [write |-> 0, there |-> TRUE]]
    /\ cache = EmptyCache
    /\ now = 0
    /\ call = [c \in Callers |-> None]
    /\ overlapped = {}
--------------------------------------------------------------------------------
Priority(kind) ==
    CASE kind = "head"       -> 4
      [] kind # "head" /\ Policy = "io"      -> 3
      [] kind # "head" /\ Policy = "latency" -> 1
      [] kind = "range"  /\ Policy = "balanced" -> 3
      [] kind = "object" /\ Policy = "balanced" -> 2

ValueBytes(kind, value) ==
    CASE kind = "head"   -> 0
      [] kind = "range"  -> RangeBytes
      [] kind = "object" -> IF value.there THEN ObjectBytes ELSE 0

(* Fault: only the whole object is invalidated.                             *)
InvalidateObject(c, path) == Delete(c, <<"object", path>>)

InvalidatePath(c, path) ==
    DeleteWhere(c, {value \in Values(c) : value.path = path})

(* The call answers its caller, or throws.                                  *)
Return(c) == call' = [call EXCEPT ![c] = None]

(* get, getRange and head: look in the cache ...                            *)
ReadHit(c) ==
    /\ call[c] = None
    /\ \E kind \in Kinds, path \in Paths :
          /\ Hits(cache, <<kind, path>>, now)
          /\ cache' = AfterGet(cache, <<kind, path>>, now)
    /\ UNCHANGED <<content, now, call, overlapped>>

(* ... on a miss, call the inner store ...                                  *)
ReadMiss(c) ==
    /\ call[c] = None
    /\ \E kind \in Kinds, path \in Paths :
          /\ ~Hits(cache, <<kind, path>>, now)
          /\ cache' = AfterGet(cache, <<kind, path>>, now)
          /\ call' = [call EXCEPT ![c] =
                [op |-> "read", kind |-> kind, path |-> path,
                 step |-> "issued", value |-> None]]
    /\ UNCHANGED <<content, now, overlapped>>

InnerRead(c) ==
    /\ call[c] # None /\ call[c].op = "read" /\ call[c].step = "issued"
    /\ call[c].kind = "range" => content[call[c].path].there
    /\ call' = [call EXCEPT ![c].step = "answered", ![c].value = content[call[c].path]]
    /\ UNCHANGED <<content, cache, now, overlapped>>

(* ... and cache its answer, whatever has happened to the path since.       *)
ReadAnswer(c) ==
    /\ call[c] # None /\ call[c].op = "read" /\ call[c].step = "answered"
    /\ cache' = Set(cache, <<call[c].kind, call[c].path>>,
                    [path |-> call[c].path, value |-> call[c].value],
                    ValueBytes(call[c].kind, call[c].value), Priority(call[c].kind), now)
    /\ Return(c)
    /\ UNCHANGED <<content, now, overlapped>>

(* A range of a missing object is an error, as any failure of the inner     *)
(* store is: nothing is cached.                                             *)
ReadFails(c) ==
    /\ call[c] # None /\ call[c].op = "read" /\ call[c].step = "issued"
    /\ Return(c)
    /\ UNCHANGED <<content, cache, now, overlapped>>

(* put and delete: invalidate, write, invalidate.                           *)
WriteStart(c) ==
    /\ call[c] = None
    /\ \E path \in Paths, there \in BOOLEAN :
          /\ cache' = InvalidatePath(cache, path)
          /\ call' = [call EXCEPT ![c] =
                [op |-> "write", path |-> path, there |-> there, step |-> "issued"]]
    /\ UNCHANGED <<content, now, overlapped>>

(* A read the inner store has answered, with what is now the old content.   *)
ReadUnderWay(path) ==
    \E c \in Callers : /\ call[c] # None /\ call[c].op = "read"
                       /\ call[c].path = path /\ call[c].step = "answered"

InnerWrite(c) ==
    /\ call[c] # None /\ call[c].op = "write" /\ call[c].step = "issued"
    /\ LET path == call[c].path
           n    == content[path].write + 1
       IN  /\ n <= MaxWrites
           /\ content' = [content EXCEPT ![path] = [write |-> n, there |-> call[c].there]]
           /\ call' = [call EXCEPT ![c].step = "applied"]
           /\ overlapped' = IF ReadUnderWay(path) THEN overlapped \cup {path} ELSE overlapped
    /\ UNCHANGED <<cache, now>>

WriteAnswer(c) ==
    /\ call[c] # None /\ call[c].op = "write" /\ call[c].step = "applied"
    /\ cache' = InvalidatePath(cache, call[c].path)
    /\ Return(c)
    /\ UNCHANGED <<content, now, overlapped>>

(* The inner put or delete throws, having taken effect or not: the second   *)
(* invalidation does not run.                                               *)
WriteFails(c) ==
    /\ call[c] # None /\ call[c].op = "write"
    /\ Return(c)
    /\ overlapped' = IF call[c].step = "applied" THEN overlapped \cup {call[c].path}
                                                 ELSE overlapped
    /\ UNCHANGED <<content, cache, now>>

Tick ==
    /\ now < MaxTime
    /\ now' = now + 1
    /\ UNCHANGED <<content, cache, call, overlapped>>

Next ==
    \/ Tick
    \/ \E c \in Callers :
          \/ ReadHit(c) \/ ReadMiss(c) \/ InnerRead(c) \/ ReadAnswer(c) \/ ReadFails(c)
          \/ WriteStart(c) \/ InnerWrite(c) \/ WriteAnswer(c) \/ WriteFails(c)

Spec == Init /\ [][Next]_vars
--------------------------------------------------------------------------------
(* The byte count of the cache is the sum of its entries and within         *)
(* maxBytes, through replacement, expiry, invalidation and eviction.        *)
BytesAccounted == Consistent(cache)

(* An entry is evicted for lack of room only while no entry of a lower      *)
(* priority is left.                                                        *)
EvictsLowestFirst ==
    [][\A c \in Callers :
          call[c] # None /\ call'[c] = None /\ call[c].op = "read" /\ call[c].step = "answered"
          => \A key \in Keys(cache) \ (Keys(cache') \cup {<<call[c].kind, call[c].path>>}) :
                \A kept \in Keys(cache') :
                    Entry(cache, key).priority <= Entry(cache', kept).priority]_vars

WriteApplied(path) ==
    \E c \in Callers : /\ call[c] # None /\ call[c].op = "write"
                       /\ call[c].path = path /\ call[c].step = "applied"

(* A cached value is the content of the inner store, except while a write   *)
(* that took effect has not returned, and on paths where a write took       *)
(* effect under an answered read, or threw after it did.                   *)
CoherentUnlessOverlapped ==
    \A i \in DOMAIN cache.entries :
        LET e == cache.entries[i].value
        IN  e.path \notin overlapped /\ ~WriteApplied(e.path) => e.value = content[e.path]
================================================================================
