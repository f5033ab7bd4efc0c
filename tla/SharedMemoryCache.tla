--------------------------- MODULE SharedMemoryCache ---------------------------
(***************************************************************************)
(* SharedMemoryCache of packages/core/src/object-store-cache.ts as         *)
(* operators: each takes the cache and returns the cache after the call.   *)
(*                                                                         *)
(* A cache is the entries in the order of the Map they are kept in, oldest *)
(* use first, and the byte count kept beside them.  An entry is its key,   *)
(* its value, its size, its priority and the time it expires at.           *)
(***************************************************************************)
EXTENDS Integers, SequencesExt

CONSTANTS
    MaxBytes,   \* maxBytes
    Ttl,        \* ttlMs, or Forever when not set
    Forever

EmptyCache == [entries |-> <<>>, bytes |-> 0]

Keys(c) == {c.entries[i].key : i \in DOMAIN c.entries}
Values(c) == {c.entries[i].value : i \in DOMAIN c.entries}
Place(c, key) == CHOOSE i \in DOMAIN c.entries : c.entries[i].key = key
Entry(c, key) == c.entries[Place(c, key)]
Without(c, key) == RemoveAt(c.entries, Place(c, key))

(* Fault: the bytes of a dropped entry stay counted.                        *)
DeleteUncounted(c, key) ==
    IF key \in Keys(c) THEN [c EXCEPT !.entries = Without(c, key)] ELSE c

Delete(c, key) ==
    IF key \in Keys(c)
    THEN [entries |-> Without(c, key), bytes |-> c.bytes - Entry(c, key).bytes]
    ELSE c

(* deleteWhere: one entry after the other, those whose value is selected.    *)
DeleteWhere(c, selected) ==
    LET after[n \in 0 .. Len(c.entries)] ==
            IF n = 0 THEN c
            ELSE IF c.entries[n].value \in selected
                 THEN Delete(after[n - 1], c.entries[n].key)
                 ELSE after[n - 1]
    IN  after[Len(c.entries)]

Expired(e, now) == e.expires # Forever /\ e.expires <= now

(* get: whether it hits, and the cache after it; a hit becomes the most     *)
(* recently used entry, an expired one is dropped.                          *)
Hits(c, key, now) == key \in Keys(c) /\ ~Expired(Entry(c, key), now)

AfterGet(c, key, now) ==
    IF Hits(c, key, now)
    THEN [c EXCEPT !.entries = Append(Without(c, key), Entry(c, key))]
    ELSE Delete(c, key)

(* Fault: the least recently used entry, whatever its priority.             *)
EvictOldest(entries) == entries[1].key

(* evictKey: the lowest priority, and of those the least recently used.     *)
EvictKey(entries) ==
    LET Before(i, j) == \/ entries[i].priority < entries[j].priority
                        \/ entries[i].priority = entries[j].priority /\ i <= j
    IN  entries[CHOOSE i \in DOMAIN entries : \A j \in DOMAIN entries : Before(i, j)].key

(* evict: drop entries while the count is over the budget.                  *)
Evict(c) ==
    LET after[n \in 0 .. Len(c.entries)] ==
            IF n = 0 THEN c
            ELSE IF after[n - 1].bytes > MaxBytes
                 THEN Delete(after[n - 1], EvictKey(after[n - 1].entries))
                 ELSE after[n - 1]
    IN  after[Len(c.entries)]

Insert(c, key, value, bytes, priority, now) ==
    [entries |-> Append(c.entries,
                    [key |-> key, value |-> value, bytes |-> bytes, priority |-> priority,
                     expires |-> IF Ttl = Forever THEN Forever ELSE now + Ttl]),
     bytes   |-> c.bytes + bytes]

(* set: a value larger than the whole budget is not admitted.               *)
Set(c, key, value, bytes, priority, now) ==
    IF bytes > MaxBytes
    THEN c
    ELSE Evict(Insert(Delete(c, key), key, value, bytes, priority, now))

(* The sum of the sizes of the entries.                                     *)
TotalBytes(entries) ==
    LET sum[n \in 0 .. Len(entries)] ==
            IF n = 0 THEN 0 ELSE sum[n - 1] + entries[n].bytes
    IN  sum[Len(entries)]

(* The count is the sum of the sizes, within the budget, one entry a key.   *)
Consistent(c) ==
    /\ c.bytes = TotalBytes(c.entries)
    /\ c.bytes <= MaxBytes
    /\ \A i, j \in DOMAIN c.entries : c.entries[i].key = c.entries[j].key => i = j
================================================================================
