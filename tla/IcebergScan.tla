---------------------------- MODULE IcebergScan ----------------------------
(***************************************************************************)
(* Reading an Iceberg table (iceberg/src/index.ts, lakeql/src/engine.ts):  *)
(* the snapshot, its manifests with their delete files, the files planned  *)
(* for a predicate, and the rows the deletes leave.                        *)
(*                                                                         *)
(* A path is what the checks of it tell apart: its authority ("" when it   *)
(* is relative, "/" when it is rooted without one), whether it lies below  *)
(* the table's location, whether a segment of it is a dot segment, a name. *)
(* Partition values are text, as the manifests hold them.  What is thrown  *)
(* is a record with a "refused" field.                                     *)
(***************************************************************************)
EXTENDS Pruning

Refused(code) == [refused |-> code]
IsRefused(x) == "refused" \in DOMAIN x

\* validateMetadata.
ValidateMetadata(m) ==
  IF m.formatVersion \notin {1, 2} THEN Refused("version")
  ELSE IF m.features # {} THEN Refused("feature")
  ELSE IF ~(m.transforms \subseteq {"identity", "void"}) THEN Refused("transform")
  ELSE IF m.sortFields # {} THEN Refused("sort order")
  ELSE m

SnapshotById(m, id) ==
  LET found == SelectSeq(m.snapshots, LAMBDA s : s.id = id)
  IN  IF found = <<>> THEN Refused("snapshot") ELSE Head(found)

\* snapshot: of the latest ones not after the time asked for, the first.
SelectSnapshot(m, by) ==
  CASE by.kind = "id" -> SnapshotById(m, by.id)
    [] by.kind = "ref" ->
         IF by.name \in DOMAIN m.refs THEN SnapshotById(m, m.refs[by.name]) ELSE Refused("ref")
    [] by.kind = "asOf" ->
         LET past == SelectSeq(m.snapshots, LAMBDA s : s.timestamp <= by.time)
             latest == SelectSeq(past, LAMBDA s : \A i \in DOMAIN past : past[i].timestamp <= s.timestamp)
         IN  IF past = <<>> THEN Refused("time") ELSE Head(latest)
    [] by.kind = "current" -> SnapshotById(m, m.current)

\* normalizeManifestSourcedPath and validateManifestSourcedPath.
ManifestSourcedPath(path, location) ==
  IF path.authority # "" /\ path.authority # location.authority THEN Refused("authority")
  ELSE IF path.dotted THEN Refused("traversal")
  ELSE IF location.prefix /\ ~path.inside THEN Refused("outside")
  ELSE [path EXCEPT !.authority = ""]

\* validateAvroManifest, avroDeleteContent.
DeleteContent(entry) ==
  CASE entry.content = 1 /\ entry.vector -> "deletion-vector"
    [] entry.content = 1 /\ ~entry.vector -> "position-delete"
    [] entry.content = 2 -> "equality-delete"
    [] OTHER -> "unsupported"

AvroManifest(entries) ==
  LET live == SelectSeq(entries, LAMBDA e : e.status # 2)
      data == SelectSeq(live, LAMBDA e : e.content = 0)
      deletes == SelectSeq(live, LAMBDA e : e.content # 0)
  IN  [files |-> [i \in DOMAIN data |->
                    [path |-> data[i].path, seq |-> data[i].seq, partition |-> data[i].partition,
                     deletes |-> <<>>]],
       deletes |-> [i \in DOMAIN deletes |->
                      [content |-> DeleteContent(deletes[i]), path |-> deletes[i].path,
                       partition |-> deletes[i].partition]]]

\* validateManifestPaths.
ValidateManifestPaths(manifest, location) ==
  LET at(f) == ManifestSourcedPath(f.path, location)
      ofFile(f) == {f} \cup {f.deletes[i] : i \in DOMAIN f.deletes}
      all == {manifest.deletes[i] : i \in DOMAIN manifest.deletes}
             \cup UNION {ofFile(manifest.files[i]) : i \in DOMAIN manifest.files}
      moved(fs) == [i \in DOMAIN fs |-> [fs[i] EXCEPT !.path = at(fs[i])]]
  IN  IF \E f \in all : IsRefused(at(f)) THEN Refused("path")
      ELSE [files |-> [i \in DOMAIN manifest.files |->
                         [moved(manifest.files)[i] EXCEPT !.deletes = moved(manifest.files[i].deletes)]],
            deletes |-> moved(manifest.deletes)]

\* deleteFileMayApply: by partition alone.
DeleteFileMayApply(d, f) ==
  \A key \in DOMAIN d.partition : key \in DOMAIN f.partition /\ f.partition[key] = d.partition[key]

\* Plausible bug: a delete file is kept to the manifest that names it.
FaultMergeDeleteManifests(manifests) ==
  LET withDeletes(m, f) ==
        [f EXCEPT !.deletes = @ \o
          LET applicable == SelectSeq(m.deletes, LAMBDA d : DeleteFileMayApply(d, f))
          IN  [i \in DOMAIN applicable |->
                 [content |-> applicable[i].content, path |-> applicable[i].path]]]
      data == SelectSeq(manifests, LAMBDA m : m.files # <<>>)
  IN  [i \in DOMAIN data |->
         [data[i] EXCEPT !.files = [k \in DOMAIN @ |-> withDeletes(data[i], @[k])]]]

\* mergeDeleteManifests: a manifest of deletes alone is dropped once its deletes
\* are with the files they may apply to.
MergeDeleteManifests(manifests) ==
  LET deletes == FlattenSeq([i \in DOMAIN manifests |-> manifests[i].deletes])
      withDeletes(f) ==
        LET applicable == SelectSeq(deletes, LAMBDA d : DeleteFileMayApply(d, f))
        IN  [f EXCEPT !.deletes = @ \o
               [i \in DOMAIN applicable |->
                  [content |-> applicable[i].content, path |-> applicable[i].path]]]
      data == SelectSeq(manifests, LAMBDA m : m.files # <<>>)
  IN  [i \in DOMAIN data |-> [data[i] EXCEPT !.files = [k \in DOMAIN @ |-> withDeletes(@[k])]]]

\* hydrateMetadataManifests, of one snapshot.
Hydrate(manifests, location) ==
  LET checked == [i \in DOMAIN manifests |-> ValidateManifestPaths(manifests[i], location)]
  IN  IF \E i \in DOMAIN manifests : IsRefused(checked[i]) THEN Refused("path")
      ELSE [manifests |-> MergeDeleteManifests(checked)]

\* appendFiles: the manifests of the next snapshot, read back and hydrated again.
AppendedManifests(manifests, files) == Append(manifests, [files |-> files, deletes |-> <<>>])

\* projectedIds.
ProjectedIds(fields, select) ==
  LET id(f) == IF f.sourceId = 0 THEN f.id ELSE f.sourceId
      named(name) == {i \in DOMAIN fields : fields[i].name = name}
  IN  IF select = {} THEN [ids |-> {fields[i].id : i \in DOMAIN fields}]
      ELSE IF \E name \in select : named(name) = {} THEN Refused("column")
      ELSE [ids |-> {id(fields[i]) : i \in UNION {named(name) : name \in select}}]

FieldNameById(m, id) ==
  LET all == FlattenSeq(m.schemas)
      found == SelectSeq(all, LAMBDA f : f.id = id)
  IN  IF found = <<>> THEN "" ELSE Head(found).name

\* projectRow: a field is looked for by its name, then by the name its source had.
ProjectRow(m, schema, select, row) ==
  LET fields == m.schemas[schema]
      kept == {i \in DOMAIN fields : select = {} \/ fields[i].name \in select}
      source(f) == IF f.name \in DOMAIN row \/ f.sourceId = 0 THEN f.name ELSE FieldNameById(m, f.sourceId)
      cell(name) ==
        LET s == source(fields[CHOOSE i \in kept : fields[i].name = name])
        IN  IF s \in DOMAIN row THEN row[s] ELSE Null
  IN  [name \in {fields[i].name : i \in kept} |-> cell(name)]

\* partitionMayMatch: a partition that lacks a column of the predicate, or cannot be
\* compared with it, may match.
PartitionMayMatch(where, partition) ==
  LET result == MatchResult(where, partition)
  IN  \/ ColumnsOf(where) = {} \/ ~(ColumnsOf(where) \subseteq DOMAIN partition)
      \/ result \in {True, TypeError}

SupportedDeletes(f) ==
  SelectSeq(f.deletes, LAMBDA d : d.content \in {"position-delete", "equality-delete"})
UnsupportedDeletes(f) ==
  SelectSeq(f.deletes, LAMBDA d : d.content \notin {"position-delete", "equality-delete"})

\* planFiles.
ReadOrder(files) ==
  SortSeq(files, LAMBDA f, g : f.seq < g.seq \/ (f.seq = g.seq /\ f.path.name < g.path.name))
PlannedFiles(chosen, mode) ==
  LET planned(f) == [f EXCEPT !.deletes = IF mode = "ignore-deletes" THEN <<>> ELSE SupportedDeletes(f)]
  IN  IF mode = "strict" /\ \E i \in DOMAIN chosen : UnsupportedDeletes(chosen[i]) # <<>>
      THEN Refused("delete files")
      ELSE [files |-> ReadOrder([i \in DOMAIN chosen |-> planned(chosen[i])])]

\* A manifest none of whose files may match is skipped as a whole.
CandidateFiles(files, where) ==
  IF \E k \in DOMAIN files : PartitionMayMatch(where, files[k].partition) THEN files ELSE <<>>

PlanFiles(manifests, where, mode) ==
  PlannedFiles(SelectSeq(FlattenSeq([i \in DOMAIN manifests |-> CandidateFiles(manifests[i].files, where)]),
                         LAMBDA f : PartitionMayMatch(where, f.partition)), mode)

\* equalityKey: what JSON makes of the cells; a column the row lacks is refused.
EqualityKey(row, columns) ==
  IF columns \subseteq DOMAIN row THEN [c \in columns |-> JsonScalar(row[c])] ELSE Refused("column")

\* applyIcebergDeletes: the rows of a batch from rowOffset on; positions are those of
\* the deletes that name the file.
LeftBy(rows, tried, equality) ==
  LET hits(row) == \E i \in DOMAIN equality :
                     EqualityKey(row, equality[i].columns)
                       = EqualityKey(equality[i].row, equality[i].columns)
      kept == SetToSortSeq({i \in tried : ~hits(rows[i])}, <)
  IN  IF \E i \in tried, k \in DOMAIN equality : ~(equality[k].columns \subseteq DOMAIN rows[i])
      THEN Refused("column") ELSE [rows |-> [k \in DOMAIN kept |-> rows[kept[k]]]]

ApplyDeletes(path, rows, rowOffset, deletes) ==
  LET positions == {deletes[i].position : i \in {k \in DOMAIN deletes :
                      deletes[k].kind = "position" /\ deletes[k].path = path}}
  IN  IF deletes = <<>> THEN [rows |-> rows]
      ELSE LeftBy(rows, {i \in DOMAIN rows : rowOffset + i - 1 \notin positions},
                  SelectSeq(deletes, LAMBDA d : d.kind = "equality"))

\* decodePositionDeleteRows, decodeEqualityDeleteRows: a delete file is a sequence of
\* such deletes, read as they were written.
DecodeDeletes(objects, deleteFiles) ==
  FlattenSeq([i \in DOMAIN deleteFiles |-> objects[deleteFiles[i].path]])

\* The rows of all parts, or the refusal of one of them.
PartRows(parts) ==
  IF \E i \in DOMAIN parts : IsRefused(parts[i]) THEN Refused("column")
  ELSE [rows |-> FlattenSeq([i \in DOMAIN parts |-> parts[i].rows])]

ScanBatch(m, schema, select, f, rows, rowOffset, deletes) ==
  ApplyDeletes(f.path, [i \in DOMAIN rows |-> ProjectRow(m, schema, select, rows[i] @@ f.partition)],
               rowOffset, deletes)

\* scanPlannedIcebergRows over projectIcebergParquetBatches: each batch is projected,
\* then the deletes are applied to it.
ScanFile(m, objects, schema, select, batchSize, f) ==
  LET rows == objects[f.path]
  IN  PartRows([b \in 1..((Len(rows) + batchSize - 1) \div batchSize) |->
        ScanBatch(m, schema, select, f,
                  SubSeq(rows, (b - 1) * batchSize + 1, Lesser(b * batchSize, Len(rows))),
                  (b - 1) * batchSize, DecodeDeletes(objects, f.deletes))])

ScanPlan(plan, m, objects, schema, select, batchSize) ==
  IF IsRefused(plan) THEN plan
  ELSE PartRows([i \in DOMAIN plan.files |->
                  ScanFile(m, objects, schema, select, batchSize, plan.files[i])])

\* planFiles and scanRows of the engine.
ScanRows(m, objects, by, where, mode, select, batchSize) ==
  LET snapshot == SelectSnapshot(m, by)
      hydrated == Hydrate(snapshot.manifests, m.location)
  IN  IF IsRefused(snapshot) THEN snapshot
      ELSE IF IsRefused(hydrated) THEN hydrated
      ELSE IF IsRefused(ProjectedIds(m.schemas[snapshot.schema], select)) THEN Refused("column")
      ELSE ScanPlan(PlanFiles(hydrated.manifests, where, mode), m, objects, snapshot.schema, select, batchSize)
=============================================================================
