----------------------------- MODULE IcebergCommit -----------------------------
(***************************************************************************)
(* Appends to an Iceberg table through the default catalog,                *)
(* ObjectStoreIcebergCommitCatalog of packages/iceberg/src/index.ts.       *)
(*                                                                         *)
(* Writers share an object store that holds a metadata file                *)
(* v{id}.metadata.json per snapshot id, a manifest per append and the      *)
(* version hint, the only object written conditionally.  A writer loads    *)
(* the table into a handle and then makes append calls on the handle; the  *)
(* store calls of the writers interleave, each store call is one step.     *)
(*                                                                         *)
(* A handle is never refreshed by an append, and appendFiles never        *)
(* retries: a conflict is an exception, and what the caller does next      *)
(* (append again on the handle it has, load again, stop) is left open.  A  *)
(* crashed writer is one that fails and never uses its handle again.       *)
(***************************************************************************)
EXTENDS IcebergMetadata

CONSTANTS
    Writers,        \* concurrent users of the table
    MaxAppends,     \* bound: append calls per writer
    MaxRewrites,    \* bound: in-place rewrites of a metadata file by others
    HintAtStart,    \* whether the table starts with a version hint
    ReuseIds,       \* whether callers choose ids another append has chosen
    None            \* no object, no value

ASSUME CommitAssumption ==
    /\ Appends = Writers \X (1 .. MaxAppends)
    /\ {HintAtStart, ReuseIds} \subseteq BOOLEAN
    /\ MaxAppends \in Nat /\ MaxRewrites \in Nat
    /\ None \notin SnapshotIds \cup Metadata \cup Appends

VARIABLES
    metadata,   \* the object v{id}.metadata.json of each id
    manifest,   \* the append whose manifest was put last for each id
    hint,       \* the id version-hint.text holds
    etag,       \* the etag of version-hint.text, 0 when there is none
    rewrites,   \* in-place rewrites so far
    pc,         \* the next store call of each writer
    path,       \* the id whose metadata file the writer has pinned
    base,       \* the metadata the writer's handle holds in memory
    made,       \* append calls the writer has made
    id,         \* the snapshot id of the writer's append
    next,       \* the metadata the append is to write
    seen,       \* the hint (history) and its etag read by head
    outcome,    \* what each append call has returned
    used,       \* ids appends have chosen (history)
    published   \* ids the hint has held (history)

store  == <<metadata, manifest, hint, etag>>
handle == <<path, base>>
call   == <<made, id, next, seen>>
vars   == <<store, rewrites, pc, handle, call, outcome, used, published>>

Outcomes == {"none", "pending", "committed", "conflict", "failed"}
PCs == {"idle", "list", "get", "ready",
        "check", "head", "putManifest", "putMetadata", "putHint"}

AppendOf(w) == <<w, made[w]>>

TypeOK ==
    /\ metadata \in [SnapshotIds -> Metadata \cup {None}]
    /\ manifest \in [SnapshotIds -> Appends \cup {None}]
    /\ hint \in SnapshotIds \cup {None}
    /\ etag \in Nat
    /\ rewrites \in 0 .. MaxRewrites
    /\ pc \in [Writers -> PCs]
    /\ path \in [Writers -> SnapshotIds \cup {None}]
    /\ base \in [Writers -> Metadata \cup {None}]
    /\ made \in [Writers -> 0 .. MaxAppends]
    /\ id \in [Writers -> SnapshotIds \cup {None}]
    /\ next \in [Writers -> Metadata \cup {None}]
    /\ seen \in [Writers -> [hint : SnapshotIds \cup {None}, etag : Nat]]
    /\ outcome \in [Appends -> Outcomes]
    /\ used \in SUBSET SnapshotIds
    /\ published \in SUBSET SnapshotIds
--------------------------------------------------------------------------------
Init ==
    /\ metadata = [i \in SnapshotIds |-> IF i = Base THEN InitialMetadata ELSE None]
    /\ manifest = [i \in SnapshotIds |-> None]
    /\ hint = IF HintAtStart THEN Base ELSE None
    /\ etag = IF HintAtStart THEN 1 ELSE 0
    /\ rewrites = 0
    /\ pc = [w \in Writers |-> "idle"]
    /\ path = [w \in Writers |-> None]
    /\ base = [w \in Writers |-> None]
    /\ made = [w \in Writers |-> 0]
    /\ id = [w \in Writers |-> None]
    /\ next = [w \in Writers |-> None]
    /\ seen = [w \in Writers |-> [hint |-> None, etag |-> 0]]
    /\ outcome = [a \in Appends |-> "none"]
    /\ used = {}
    /\ published = {Base}

Goto(w, label) == pc' = [pc EXCEPT ![w] = label]

(* Fault: the load lists the metadata files though there is a hint.         *)
ReadHintListed(w) ==
    /\ pc[w] \in {"idle", "ready"}
    /\ path' = [path EXCEPT ![w] = hint]
    /\ base' = [base EXCEPT ![w] = None]
    /\ Goto(w, "list")
    /\ UNCHANGED <<store, rewrites, call, outcome, used, published>>

(* loadIcebergTableFromObjectStore: read the version hint ...              *)
ReadHint(w) ==
    /\ pc[w] \in {"idle", "ready"}
    /\ path' = [path EXCEPT ![w] = hint]
    /\ base' = [base EXCEPT ![w] = None]
    /\ Goto(w, IF hint = None THEN "list" ELSE "get")
    /\ UNCHANGED <<store, rewrites, call, outcome, used, published>>

(* ... or, when there is none, list the metadata files and take the        *)
(* highest number ...                                                      *)
ListLatest(w) ==
    /\ pc[w] = "list"
    /\ \E i \in SnapshotIds :
          /\ metadata[i] # None
          /\ \A j \in SnapshotIds : metadata[j] # None => j <= i
          /\ path' = [path EXCEPT ![w] = i]
    /\ Goto(w, "get")
    /\ UNCHANGED <<store, rewrites, base, call, outcome, used, published>>

(* ... and get that metadata file; its manifests are inline.               *)
GetMetadata(w) ==
    /\ pc[w] = "get"
    /\ metadata[path[w]] # None
    /\ base' = [base EXCEPT ![w] = metadata[path[w]]]
    /\ Goto(w, "ready")
    /\ UNCHANGED <<store, rewrites, path, call, outcome, used, published>>

(* The ids an append can be given: random ones are modelled as never drawn  *)
(* twice, a caller's own may have been.  Fault: ids are always reused.      *)
AnyId(i)   == i \in SnapshotIds
FreshId(i) == ReuseIds \/ i \notin used

(* appendFiles: everything up to the first await of the catalog.           *)
Begin(w) ==
    /\ pc[w] = "ready"
    /\ made[w] < MaxAppends
    /\ \E i \in SnapshotIds \ base[w].known :
          /\ FreshId(i)
          /\ id' = [id EXCEPT ![w] = i]
          /\ used' = used \cup {i}
          /\ next' = [next EXCEPT ![w] = NextMetadata(base[w], i, <<w, made[w] + 1>>)]
    /\ made' = [made EXCEPT ![w] = @ + 1]
    /\ outcome' = [outcome EXCEPT ![<<w, made[w] + 1>>] = "pending"]
    /\ Goto(w, "check")
    /\ UNCHANGED <<store, rewrites, handle, seen, published>>

Return(w, result) ==
    /\ outcome' = [outcome EXCEPT ![AppendOf(w)] = result]
    /\ Goto(w, "ready")

Current(w) == metadata[path[w]].current = base[w].current

(* commitAppend re-reads the metadata file the handle was loaded from.     *)
CheckBase(w) ==
    /\ pc[w] = "check"
    /\ metadata[path[w]] # None
    /\ Current(w)
    /\ Goto(w, "head")
    /\ UNCHANGED <<store, rewrites, handle, call, outcome, used, published>>

RejectStale(w) ==
    /\ pc[w] = "check"
    /\ metadata[path[w]] # None
    /\ ~Current(w)
    /\ Return(w, "conflict")
    /\ UNCHANGED <<store, rewrites, handle, call, used, published>>

(* Fault: the manifest is not put.                                          *)
HeadHintOnly(w) ==
    /\ pc[w] = "head"
    /\ seen' = [seen EXCEPT ![w] = [hint |-> hint, etag |-> etag]]
    /\ Goto(w, "putMetadata")
    /\ UNCHANGED <<store, rewrites, handle, made, id, next, outcome, used, published>>

HeadHint(w) ==
    /\ pc[w] = "head"
    /\ seen' = [seen EXCEPT ![w] = [hint |-> hint, etag |-> etag]]
    /\ Goto(w, "putManifest")
    /\ UNCHANGED <<store, rewrites, handle, made, id, next, outcome, used, published>>

PutManifest(w) ==
    /\ pc[w] = "putManifest"
    /\ manifest' = [manifest EXCEPT ![id[w]] = AppendOf(w)]
    /\ Goto(w, "putMetadata")
    /\ UNCHANGED <<metadata, hint, etag, rewrites, handle, call, outcome, used, published>>

(* Fault: the hint is moved before the metadata file is there.              *)
PutMetadataLater(w) ==
    /\ pc[w] = "putMetadata"
    /\ Goto(w, "putHint")
    /\ UNCHANGED <<store, rewrites, handle, call, outcome, used, published>>

PutMetadata(w) ==
    /\ pc[w] = "putMetadata"
    /\ metadata' = [metadata EXCEPT ![id[w]] = next[w]]
    /\ Goto(w, "putHint")
    /\ UNCHANGED <<manifest, hint, etag, rewrites, handle, call, outcome, used, published>>

(* Fault: the hint is written whatever its etag.                            *)
EtagIgnored(w) == seen[w].etag <= etag

(* conditionalPut: the stores compare the etag and write in one step.      *)
EtagMatches(w) == seen[w].etag = etag

WriteHint(w) ==
    /\ hint' = id[w]
    /\ etag' = etag + 1
    /\ published' = published \cup {id[w]}

PutHint(w) ==
    /\ pc[w] = "putHint"
    /\ EtagMatches(w)
    /\ WriteHint(w)
    /\ Return(w, "committed")
    /\ UNCHANGED <<metadata, manifest, rewrites, handle, call, used>>

(* The conditional write takes effect, and its answer is lost.             *)
PutHintUnanswered(w) ==
    /\ pc[w] = "putHint"
    /\ EtagMatches(w)
    /\ WriteHint(w)
    /\ Return(w, "failed")
    /\ UNCHANGED <<metadata, manifest, rewrites, handle, call, used>>

(* Fault: the hint is written before the etag is compared.                  *)
HintConflictWritten(w) ==
    /\ pc[w] = "putHint"
    /\ ~EtagMatches(w)
    /\ WriteHint(w)
    /\ Return(w, "conflict")
    /\ UNCHANGED <<metadata, manifest, rewrites, handle, call, used>>

HintConflict(w) ==
    /\ pc[w] = "putHint"
    /\ ~EtagMatches(w)
    /\ Return(w, "conflict")
    /\ UNCHANGED <<store, rewrites, handle, call, used, published>>

(* A store call of the append throws and appendFiles with it.              *)
FailAppend(w) ==
    /\ pc[w] \in {"check", "head", "putManifest", "putMetadata", "putHint"}
    /\ Return(w, "failed")
    /\ UNCHANGED <<store, rewrites, handle, call, used, published>>

(* A store call of the load throws: no handle.                             *)
FailLoad(w) ==
    /\ pc[w] \in {"list", "get"}
    /\ path' = [path EXCEPT ![w] = None]
    /\ Goto(w, "idle")
    /\ UNCHANGED <<store, rewrites, base, call, outcome, used, published>>

(* Another tool moves the table to an older snapshot by rewriting the      *)
(* metadata file in place, the staleness the tests of appendFiles rehearse *)
(* (index.test.ts, "rejects stale object-store append commits").           *)
RewriteMetadata ==
    /\ rewrites < MaxRewrites
    /\ rewrites' = rewrites + 1
    /\ \E i \in SnapshotIds :
          /\ metadata[i] # None
          /\ \E j \in metadata[i].known \ {metadata[i].current} :
                metadata' = [metadata EXCEPT ![i] = MovedTo(metadata[i], j)]
    /\ UNCHANGED <<manifest, hint, etag, pc, handle, call, outcome, used, published>>

Load(w)   == ReadHint(w) \/ ListLatest(w) \/ GetMetadata(w) \/ FailLoad(w)
Commit(w) == \/ CheckBase(w) \/ RejectStale(w) \/ HeadHint(w)
             \/ PutManifest(w) \/ PutMetadata(w)
             \/ PutHint(w) \/ PutHintUnanswered(w) \/ HintConflict(w)

Next ==
    \/ \E w \in Writers : Load(w) \/ Begin(w) \/ Commit(w) \/ FailAppend(w)
    \/ RewriteMetadata

Spec == Init /\ [][Next]_vars
--------------------------------------------------------------------------------
(* What a reader that follows the hint sees of the table.                  *)
Visible == IF hint = None THEN {} ELSE CurrentFiles(metadata[hint])

EntriesOf(files, a) == {e \in files : e.append = a}

(* The hint never names a metadata file that is not there, nor one with a  *)
(* snapshot whose manifest was not written: ObjectStoreIcebergCommitCatalog *)
(* writes manifest, metadata and hint in that order, whoever else writes,   *)
(* and wherever a writer stops.                                             *)
PublishedComplete ==
    hint # None =>
        /\ metadata[hint] # None
        /\ hint \in metadata[hint].known
        /\ \A i \in metadata[hint].known \ {Base} : manifest[i] # None

(* No two data files of a snapshot share a sequence number, and an append   *)
(* numbers its files after every file of its base (maxSequenceNumber).      *)
SequenceNumbersDistinct ==
    \A i \in SnapshotIds : metadata[i] # None =>
        \A s \in metadata[i].known : \A d, e \in metadata[i].files[s] :
            d # e => d.seq # e.seq

(* An append reported as a conflict stays out of the table: when ids are    *)
(* not reused and the table has a hint, nothing the rejected append wrote   *)
(* is reachable from the hint.                                              *)
RejectedInvisible ==
    \A a \in Appends : outcome[a] = "conflict" => EntriesOf(Visible, a) = {}

(* A handle holds a table state some commit published, never the metadata   *)
(* of an append that has not committed.                                     *)
HandlesPublished ==
    \A w \in Writers : pc[w] \notin {"idle", "list"} => path[w] \in published

(* What the etag protects: when the hint a commit found was still the one   *)
(* its handle was loaded from, moving the hint loses nothing a reader could *)
(* see, whatever other writers did between head and conditionalPut.         *)
FreshCommitKeepsAppends ==
    [][\A w \in Writers :
          /\ pc[w] = "putHint" /\ hint' # hint /\ hint' = id[w]
          /\ seen[w].hint = path[w]
          => Visible \subseteq Visible']_vars

(* A published commit shows exactly its base and its own files: no other    *)
(* writer's metadata is found under the hint it moved.                      *)
CommitPublishesOwnFiles ==
    [][\A w \in Writers :
          pc[w] = "putHint" /\ hint' # hint /\ hint' = id[w]
          => Visible' = CurrentFiles(next[w])]_vars

(* docs/catalogs.md: a catalog commits the next snapshot "with              *)
(* compare-and-swap semantics", so an append reported as committed is in    *)
(* the table from then on.                                                  *)
CommittedVisible ==
    \A a \in Appends : outcome[a] = "committed" => EntriesOf(Visible, a) # {}
================================================================================
