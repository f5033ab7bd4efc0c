------------------------------ MODULE RestCommit -------------------------------
(***************************************************************************)
(* Appends to an Iceberg table through IcebergRestCatalog of               *)
(* packages/iceberg/src/index.ts.                                          *)
(*                                                                         *)
(* A writer puts the manifest and the metadata file of its append in the   *)
(* object store and then posts the commit to the catalog server, which     *)
(* checks that main still is the snapshot the handle was loaded at.  The   *)
(* server is external and modelled from the request: it asserts the ref,   *)
(* adds the snapshot and moves main, in one step.  The request, or its     *)
(* answer, can be lost or late: the call then fails while the request may  *)
(* still take effect.  Other engines commit to the same table.             *)
(*                                                                         *)
(* Snapshot ids are drawn at random from 2^53 and modelled as never drawn  *)
(* twice; IcebergCommit has the callers that reuse ids.                    *)
(***************************************************************************)
EXTENDS IcebergMetadata

CONSTANTS
    Writers,        \* concurrent users of the table
    MaxAppends,     \* bound: append calls per writer
    MaxEngine,      \* bound: commits of other engines
    None            \* no object, no value

ASSUME RestAssumption ==
    /\ Appends = Writers \X (1 .. MaxAppends)
    /\ MaxAppends \in Nat /\ MaxEngine \in Nat
    /\ None \notin SnapshotIds \cup Metadata \cup Appends

VARIABLES
    metadata,   \* the object v{id}.metadata.json of each id
    manifest,   \* the append whose manifest was put for each id
    snapshots,  \* the server's snapshots, each with the append that added it
    main,       \* the snapshot the server's main branch is at
    requests,   \* commit requests on their way to the server
    answers,    \* the server's answer to each append
    engine,     \* commits of other engines so far
    pc,         \* the next call of each writer
    base,       \* the metadata the writer's handle holds in memory
    made,       \* append calls the writer has made
    id,         \* the snapshot id of the writer's append
    next,       \* the metadata the append is to write
    outcome,    \* what each append call has returned
    used        \* snapshot ids drawn so far (history)

store  == <<metadata, manifest>>
server == <<snapshots, main, engine>>
call   == <<made, id, next>>
vars   == <<store, server, requests, answers, pc, base, call, outcome, used>>

AppendOf(w) == <<w, made[w]>>
--------------------------------------------------------------------------------
(* The table exists, its metadata file is in the store, and its one         *)
(* snapshot was not added through lakeql.                                   *)
Init ==
    /\ metadata = [i \in SnapshotIds |-> IF i = Base THEN InitialMetadata ELSE None]
    /\ manifest = [i \in SnapshotIds |-> None]
    /\ snapshots = {[id |-> Base, parent |-> None, append |-> None]}
    /\ main = Base
    /\ requests = {}
    /\ answers = [a \in Appends |-> "none"]
    /\ engine = 0
    /\ pc = [w \in Writers |-> "ready"]
    /\ base = [w \in Writers |-> None]
    /\ made = [w \in Writers |-> 0]
    /\ id = [w \in Writers |-> None]
    /\ next = [w \in Writers |-> None]
    /\ outcome = [a \in Appends |-> "none"]
    /\ used = {Base}

Goto(w, label) == pc' = [pc EXCEPT ![w] = label]

(* A snapshot can be hydrated when its manifest-list names a manifest list. *)
(* restAppendSnapshot posts the path of a manifest there, which             *)
(* readManifestList then refuses.                                           *)
Hydratable(s) == s.append = None

(* IcebergRestCatalog.loadTable hydrates every snapshot of the table, or    *)
(* throws and leaves the caller what it had; the data files of other        *)
(* engines are not tracked.                                                 *)
LoadRest(w) ==
    /\ pc[w] = "ready"
    /\ \A s \in snapshots : Hydratable(s)
    /\ base' = [base EXCEPT ![w] =
                   [current |-> main,
                    known   |-> {s.id : s \in snapshots},
                    files   |-> [i \in SnapshotIds |-> {}]]]
    /\ UNCHANGED <<store, server, requests, answers, pc, call, outcome, used>>

(* loadIcebergTable: a metadata file by its path, that of an append which   *)
(* failed or is under way included.                                         *)
LoadPath(w) ==
    /\ pc[w] = "ready"
    /\ \E i \in SnapshotIds :
          /\ metadata[i] # None
          /\ base' = [base EXCEPT ![w] = metadata[i]]
    /\ UNCHANGED <<store, server, requests, answers, pc, call, outcome, used>>

(* appendFiles up to the catalog's first store call.                        *)
Begin(w) ==
    /\ pc[w] = "ready"
    /\ base[w] # None
    /\ made[w] < MaxAppends
    /\ \E i \in SnapshotIds \ (base[w].known \cup used) :
          /\ id' = [id EXCEPT ![w] = i]
          /\ used' = used \cup {i}
          /\ next' = [next EXCEPT ![w] = NextMetadata(base[w], i, <<w, made[w] + 1>>)]
    /\ made' = [made EXCEPT ![w] = @ + 1]
    /\ outcome' = [outcome EXCEPT ![<<w, made[w] + 1>>] = "pending"]
    /\ Goto(w, "putManifest")
    /\ UNCHANGED <<store, server, requests, answers, base>>

(* Fault: the manifest is not put.                                          *)
PutManifestLater(w) ==
    /\ pc[w] = "putManifest"
    /\ Goto(w, "putMetadata")
    /\ UNCHANGED <<store, server, requests, answers, base, call, outcome, used>>

PutManifest(w) ==
    /\ pc[w] = "putManifest"
    /\ manifest' = [manifest EXCEPT ![id[w]] = AppendOf(w)]
    /\ Goto(w, "putMetadata")
    /\ UNCHANGED <<metadata, server, requests, answers, base, call, outcome, used>>

PutMetadata(w) ==
    /\ pc[w] = "putMetadata"
    /\ metadata' = [metadata EXCEPT ![id[w]] = next[w]]
    /\ Goto(w, "post")
    /\ UNCHANGED <<manifest, server, requests, answers, base, call, outcome, used>>

(* Fault: the requirement is the snapshot main is at when the commit is     *)
(* posted, not the one the append was made from.                            *)
PostFresh(w) ==
    /\ pc[w] = "post"
    /\ requests' = requests \cup
          {[append |-> AppendOf(w), id |-> id[w],
            parent |-> base[w].current, expected |-> main]}
    /\ Goto(w, "wait")
    /\ UNCHANGED <<store, server, answers, base, call, outcome, used>>

Post(w) ==
    /\ pc[w] = "post"
    /\ requests' = requests \cup
          {[append |-> AppendOf(w), id |-> id[w],
            parent |-> base[w].current, expected |-> base[w].current]}
    /\ Goto(w, "wait")
    /\ UNCHANGED <<store, server, answers, base, call, outcome, used>>

Return(w, result) ==
    /\ outcome' = [outcome EXCEPT ![AppendOf(w)] = result]
    /\ Goto(w, "ready")
    /\ UNCHANGED <<store, server, requests, answers, base, call, used>>

(* The answer arrives: 2xx, or the 409 that is a conflict.                  *)
ReceiveOk(w) ==
    /\ pc[w] = "wait" /\ answers[AppendOf(w)] = "ok"
    /\ Return(w, "committed")

ReceiveConflict(w) ==
    /\ pc[w] = "wait" /\ answers[AppendOf(w)] = "conflict"
    /\ Return(w, "conflict")

(* Fault: a commit without an answer is reported as a conflict.             *)
FailAppendAsConflict(w) ==
    /\ pc[w] \in {"putManifest", "putMetadata", "post", "wait"}
    /\ Return(w, "conflict")

(* A store call or the request throws, the answer is lost, or it is another *)
(* status: appendFiles throws.  A request already sent may still arrive.    *)
FailAppend(w) ==
    /\ pc[w] \in {"putManifest", "putMetadata", "post", "wait"}
    /\ Return(w, "failed")

(* The server: the requirement assert-ref-snapshot-id and the two updates.  *)
Answer(r, result) == answers' = [answers EXCEPT ![r.append] = result]

ServerCommit(r) ==
    /\ r \in requests
    /\ r.expected = main
    /\ requests' = requests \ {r}
    /\ snapshots' = snapshots \cup
          {[id |-> r.id, parent |-> r.parent, append |-> r.append]}
    /\ main' = r.id
    /\ Answer(r, "ok")
    /\ UNCHANGED <<store, engine, pc, base, call, outcome, used>>

ServerRefuse(r) ==
    /\ r \in requests
    /\ r.expected # main
    /\ requests' = requests \ {r}
    /\ Answer(r, "conflict")
    /\ UNCHANGED <<store, server, pc, base, call, outcome, used>>

EngineCommit ==
    /\ engine < MaxEngine
    /\ engine' = engine + 1
    /\ \E i \in SnapshotIds \ used :
          /\ used' = used \cup {i}
          /\ snapshots' = snapshots \cup {[id |-> i, parent |-> main, append |-> None]}
          /\ main' = i
    /\ UNCHANGED <<store, requests, answers, pc, base, call, outcome>>

WriterStep(w) ==
    \/ LoadRest(w) \/ LoadPath(w) \/ Begin(w)
    \/ PutManifest(w) \/ PutMetadata(w) \/ Post(w)
    \/ ReceiveOk(w) \/ ReceiveConflict(w) \/ FailAppend(w)

Next ==
    \/ \E w \in Writers : WriterStep(w)
    \/ \E r \in requests : ServerCommit(r) \/ ServerRefuse(r)
    \/ EngineCommit

Spec == Init /\ [][Next]_vars
--------------------------------------------------------------------------------
Committed == {s.append : s \in snapshots} \ {None}

(* The REST catalog keeps the promise of docs/catalogs.md: what the server  *)
(* holds and what the calls answer is an AppendTable, under lost and late   *)
(* requests and answers, stale handles and commits of other engines.        *)
Table == INSTANCE AppendTable WITH table <- Committed
IsAppendTable == Table!Spec

(* The server's snapshots form one line that ends at main: no append forks  *)
(* the table, and every snapshot but the first has its parent there.        *)
OneLineage ==
    /\ \A s, t \in snapshots : s.parent = t.parent => s = t
    /\ \A s \in snapshots : s.id = Base \/ \E t \in snapshots : t.id = s.parent
    /\ \A s \in snapshots : (s.id = main) <=> (\A t \in snapshots : t.parent # s.id)

(* A snapshot the server shows has the manifest it points to, and it is the *)
(* manifest of the append that added it.                                    *)
ManifestBeforeSnapshot ==
    \A s \in snapshots : s.append # None => manifest[s.id] = s.append

(* The metadata file appendFiles reports when the server names none shows   *)
(* the table: while main is at a snapshot an append added, that snapshot's  *)
(* metadata file lists the data files of exactly the committed appends.     *)
ReportedMetadataComplete ==
    \A s \in snapshots : s.id = main /\ s.append # None =>
        {e.append : e \in CurrentFiles(metadata[main])} = Committed

================================================================================
