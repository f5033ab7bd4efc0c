-------------------------------- MODULE MCCaches --------------------------------
(***************************************************************************)
(* The machines of Caches in one run: Init picks the one that runs, and    *)
(* the others stay where they start.                                       *)
(***************************************************************************)
EXTENDS Caches, TLC

VARIABLE machine

MCRangeLengths == [a |-> 1, b |-> 2, c |-> 3, d |-> 5]

(* A snapshot that lists its manifest itself and one with a list.           *)
MCSnapshots == {"inline", "listed"}
MCListOf == [inline |-> None, listed |-> "list"]
MCManifestsOf == [inline |-> {"manifest"}, listed |-> {"manifest"}]

(* Two objects that share a row, one that comes and goes, and overwrites of *)
(* the same size and of another.                                            *)
MCRows ==
    [path \in 1 .. 2 |-> [version \in 1 .. 3 |->
        IF version = 3 THEN <<"z">> ELSE IF path = 1 THEN <<"x", "y", "x">> ELSE <<"y", "w">>]]
MCSize == <<2, 2, 1>>
MCQueries == [distinct : BOOLEAN, offset : 0 .. 1, limit : {None, 3}]

rangeVars == <<entries, cachedBytes, slicing, overwritten>>
hydrationVars ==
    <<generation, persistent, load, uuid, aborted, promise, waits, reads, failures, mixed>>
sliceVars ==
    <<objects, writes, setup, remembered, step, plan, queue, read, bookmark, out, basis, unseen>>
mcVars == <<machine, vars, rangeVars, hydrationVars, sliceVars>>

(* The slices stay with one setup while another machine runs.               *)
MCInit ==
    /\ machine \in {"objects", "ranges", "hydration", "slices"}
    /\ Init /\ Ranges!Init /\ Hydration!Init /\ Slices!Init
    /\ machine # "slices" => setup = CHOOSE s \in Slices!Setups : TRUE

MCNext ==
    /\ UNCHANGED machine
    /\ \/ machine = "objects" /\ Next /\ UNCHANGED <<rangeVars, hydrationVars, sliceVars>>
       \/ machine = "ranges" /\ Ranges!Next /\ UNCHANGED <<vars, hydrationVars, sliceVars>>
       \/ machine = "hydration" /\ Hydration!Next /\ UNCHANGED <<vars, rangeVars, sliceVars>>
       \/ machine = "slices" /\ Slices!Next /\ UNCHANGED <<vars, rangeVars, hydrationVars>>

MCSpec == MCInit /\ [][MCNext]_mcVars

CallerSymmetry == Permutations(Callers)
=================================================================================
