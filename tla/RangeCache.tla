------------------------------- MODULE RangeCache -------------------------------
(***************************************************************************)
(* cachedRangeBuffer of packages/parquet/src/range-cache.ts without a      *)
(* shared cache: byte ranges of one file, read by concurrent slices, in a  *)
(* Map kept in the order of use with a byte count beside it.               *)
(***************************************************************************)
EXTENDS Integers, SequencesExt

CONSTANTS
    Slicers,        \* concurrent slice calls
    Ranges,         \* [start:end key -> byte length]
    MaxBytes,
    MaxEntryBytes,
    None

VARIABLES
    entries,        \* [key, bytes], least recently used first
    cachedBytes,
    slicing,        \* the range each call waits for
    overwritten     \* bytes of the entries a second answer replaced (history)

vars == <<entries, cachedBytes, slicing, overwritten>>

Init ==
    /\ entries = <<>> /\ cachedBytes = 0 /\ overwritten = 0
    /\ slicing = [s \in Slicers |-> None]

Entry(key) == [key |-> key, bytes |-> Ranges[key]]
Cached(key) == \E i \in DOMAIN entries : entries[i].key = key
Place(key) == CHOOSE i \in DOMAIN entries : entries[i].key = key

(* A hit moves its entry to the end of the Map; a miss reads the file.      *)
Hit(s) ==
    /\ slicing[s] = None
    /\ \E key \in DOMAIN Ranges :
          /\ Cached(key)
          /\ entries' = Append(RemoveAt(entries, Place(key)), entries[Place(key)])
    /\ UNCHANGED <<cachedBytes, slicing, overwritten>>

Miss(s) ==
    /\ slicing[s] = None
    /\ \E key \in DOMAIN Ranges : ~Cached(key) /\ slicing' = [slicing EXCEPT ![s] = key]
    /\ UNCHANGED <<entries, cachedBytes, overwritten>>

(* The sum of the lengths of the entries.                                   *)
Total(kept) ==
    LET sum[n \in 0 .. Len(kept)] == IF n = 0 THEN 0 ELSE sum[n - 1] + kept[n].bytes
    IN  sum[Len(kept)]

(* Fault: one entry makes room, whatever was added.                         *)
EvictOne(kept, bytes) ==
    IF bytes > MaxBytes /\ kept # <<>>
    THEN [entries |-> Tail(kept), bytes |-> bytes - Head(kept).bytes]
    ELSE [entries |-> kept, bytes |-> bytes]

(* The oldest entries go until the count is within maxBytes.                *)
Evict(kept, bytes) ==
    LET Without(n) == [entries |-> SubSeq(kept, n + 1, Len(kept)),
                       bytes   |-> bytes - Total(SubSeq(kept, 1, n))]
        enough == {n \in 0 .. Len(kept) : Without(n).bytes <= MaxBytes}
    IN  Without(IF enough = {} THEN Len(kept) ELSE Min(enough))

(* Map.set keeps the place of a key that is already there; its bytes are    *)
(* counted all the same.                                                    *)
Answer(s) ==
    /\ slicing[s] # None
    /\ LET key == slicing[s]
           placed == IF Cached(key) THEN entries ELSE Append(entries, Entry(key))
           kept == Evict(placed, cachedBytes + Ranges[key])
       IN  IF Ranges[key] <= MaxEntryBytes /\ Ranges[key] <= MaxBytes
           THEN /\ entries' = kept.entries /\ cachedBytes' = kept.bytes
                /\ overwritten' = overwritten + IF Cached(key) THEN Ranges[key] ELSE 0
           ELSE UNCHANGED <<entries, cachedBytes, overwritten>>
    /\ slicing' = [slicing EXCEPT ![s] = None]

(* The file cannot be read: the slice throws.                               *)
Fail(s) ==
    /\ slicing[s] # None
    /\ slicing' = [slicing EXCEPT ![s] = None]
    /\ UNCHANGED <<entries, cachedBytes, overwritten>>

Next == \E s \in Slicers : Hit(s) \/ Miss(s) \/ Answer(s) \/ Fail(s)

Spec == Init /\ [][Next]_vars
--------------------------------------------------------------------------------
(* What is kept fits the budget, and the count exceeds it by the bytes of   *)
(* the entries two concurrent misses wrote twice, exactly.  Those are never *)
(* given back, so only a full budget of them ends the drift.                *)
RangesAccounted ==
    /\ cachedBytes = Total(entries) + overwritten
    /\ Total(entries) <= MaxBytes
    /\ overwritten <= MaxBytes
================================================================================
