-------------------------- MODULE IcebergCommit_proofs --------------------------
(***************************************************************************)
(* Safety of appends through ObjectStoreIcebergCommitCatalog, for any      *)
(* writers, ids and bounds, and whether callers reuse ids or not.          *)
(***************************************************************************)
EXTENDS IcebergCommit, WellFoundedInduction, TLAPS

(* A bounded set of naturals that is not empty has a largest element.       *)
LEMMA BoundedHasMax ==
    ASSUME NEW S \in SUBSET Nat, S # {},
           NEW b \in Nat, \A k \in S : k <= b
    PROVE  \E n \in S : \A k \in S : k <= n
<1> DEFINE Gaps == {g \in Nat : b - g \in S}
           Less == OpToRel(<, Nat)
<1>1. Gaps # {}
  <2>1. PICK k \in S : TRUE
    OBVIOUS
  <2>2. b - k \in Nat /\ b - (b - k) = k
    OBVIOUS
  <2> QED
    BY <2>2
<1>2. PICK g \in Gaps : \A h \in Gaps : ~ (<<h, g>> \in Less)
  <2>1. Gaps \subseteq Nat
    OBVIOUS
  <2> HIDE DEF Gaps, Less
  <2>2. IsWellFoundedOn(Less, Nat)
    BY NatLessThanWellFounded DEF Less
  <2> QED
    BY <1>1, <2>1, <2>2, WFMin
<1>3. \A h \in Gaps : ~(h < g)
  BY <1>2 DEF OpToRel
<1>4. ASSUME NEW k \in S PROVE k <= b - g
  <2>1. b - k \in Gaps
    <3>1. b - k \in Nat /\ b - (b - k) = k
      OBVIOUS
    <3> QED
      BY <3>1
  <2>2. ~(b - k < g)
    BY <1>3, <2>1
  <2> QED
    BY <2>2
<1> QED
  BY <1>4

(* MaxSequenceNumber is a natural number whatever the metadata file lists.  *)
LEMMA SequenceNumbersNat ==
    ASSUME NEW m \in Metadata
    PROVE  /\ SequenceNumbers(m) \in SUBSET Nat
           /\ MaxSequenceNumber(m) \in Nat
<1>1. SequenceNumbers(m) \in SUBSET Nat
  BY DEF SequenceNumbers, Metadata, Entries
<1> DEFINE seqs == {0} \cup SequenceNumbers(m)
           IsMax(n) == \A k \in seqs : k <= n
<1>2. seqs \subseteq Nat
  BY <1>1
<1>3. CASE \E n \in seqs : IsMax(n)
  <2>1. MaxSequenceNumber(m) = CHOOSE n \in seqs : IsMax(n)
    BY <1>3 DEF MaxSequenceNumber
  <2>2. (CHOOSE n \in seqs : IsMax(n)) \in seqs
    BY <1>3, Zenon
  <2> QED
    BY <1>1, <1>2, <2>1, <2>2
<1>4. CASE ~ \E n \in seqs : IsMax(n)
  <2>1. MaxSequenceNumber(m) = 0
    BY <1>4 DEF MaxSequenceNumber
  <2> QED
    BY <1>1, <2>1
<1> QED
  BY <1>3, <1>4

(* What the code keeps true of every metadata file: the current snapshot is *)
(* listed, sequence numbers have a bound, and no snapshot lists two data    *)
(* files with the same one.                                                 *)
Listed(m) == UNION {m.files[i] : i \in m.known}

WellNumbered(m) ==
    /\ m \in Metadata
    /\ m.current \in m.known
    /\ \E b \in Nat : \A e \in Listed(m) : e.seq <= b
    /\ \A i \in m.known : \A d, e \in m.files[i] : d # e => d.seq # e.seq

(* maxSequenceNumber is no less than the number of any file listed.         *)
LEMMA MaxIsUpperBound ==
    ASSUME NEW m, WellNumbered(m)
    PROVE  \A e \in Listed(m) : e.seq <= MaxSequenceNumber(m)
<1> DEFINE seqs == {0} \cup SequenceNumbers(m)
           IsMax(n) == \A k \in seqs : k <= n
<1>1. m \in Metadata
  BY DEF WellNumbered
<1>2. seqs \in SUBSET Nat /\ seqs # {}
  BY <1>1, SequenceNumbersNat
<1>3. PICK b \in Nat : \A e \in Listed(m) : e.seq <= b
  BY DEF WellNumbered
<1>4. \A k \in seqs : k <= b
  BY <1>3 DEF SequenceNumbers, Listed
<1>5. \E n \in seqs : IsMax(n)
  <2> HIDE DEF seqs
  <2> QED
    BY <1>2, <1>4, BoundedHasMax
<1>6. MaxSequenceNumber(m) = CHOOSE n \in seqs : IsMax(n)
  BY <1>5 DEF MaxSequenceNumber
<1>7. IsMax(MaxSequenceNumber(m))
  BY <1>5, <1>6, Zenon
<1> QED
  BY <1>7 DEF SequenceNumbers, Listed

(* An append makes a metadata file of a metadata file.                      *)
LEMMA NextMetadataType ==
    ASSUME NEW m \in Metadata, NEW i \in SnapshotIds, NEW a \in Appends
    PROVE  /\ NextMetadata(m, i, a) \in Metadata
           /\ NextMetadata(m, i, a).current = i
           /\ NextMetadata(m, i, a).known = m.known \cup {i}
           /\ NextMetadata(m, i, a).files[i] = CurrentFiles(m) \cup NewEntries(m, a)
           /\ \A j \in SnapshotIds \ {i} :
                 NextMetadata(m, i, a).files[j] = m.files[j]
<1>1. NewEntries(m, a) \subseteq Entries
  BY SequenceNumbersNat, MetadataAssumption DEF NewEntries, Entries
<1>2. CurrentFiles(m) \subseteq Entries
  BY DEF CurrentFiles, Metadata
<1> QED
  BY <1>1, <1>2 DEF NextMetadata, Metadata

(* The files an append adds are numbered above every file listed before.    *)
LEMMA NewEntriesAbove ==
    ASSUME NEW m, WellNumbered(m), NEW a \in Appends,
           NEW e \in NewEntries(m, a)
    PROVE  /\ e.seq \in Nat
           /\ e.seq <= MaxSequenceNumber(m) + FilesPerAppend
           /\ \A d \in Listed(m) : d.seq < e.seq
<1>1. PICK x \in 0 .. FilesPerAppend - 1 :
         e = [append |-> a, index |-> x, seq |-> MaxSequenceNumber(m) + 1 + x]
  BY DEF NewEntries
<1>2. m \in Metadata /\ MaxSequenceNumber(m) \in Nat
  BY SequenceNumbersNat DEF WellNumbered
<1>3. ASSUME NEW d \in Listed(m) PROVE d.seq < e.seq
  <2>1. d.seq <= MaxSequenceNumber(m)
    BY MaxIsUpperBound
  <2>2. d.seq \in Nat
    BY <1>2 DEF Listed, Metadata, Entries
  <2> QED
    BY <1>1, <1>2, <2>1, <2>2
<1> QED
  BY <1>1, <1>2, <1>3, MetadataAssumption

(* An append keeps the numbering: the new snapshot's files, those carried   *)
(* over and the new ones, have sequence numbers of their own.               *)
LEMMA NextMetadataNumbered ==
    ASSUME NEW m, WellNumbered(m), NEW i \in SnapshotIds \ m.known, NEW a \in Appends
    PROVE  WellNumbered(NextMetadata(m, i, a))
<1> DEFINE n == NextMetadata(m, i, a)
<1>1. m \in Metadata /\ m.current \in m.known /\ m.known \subseteq SnapshotIds
  BY DEF WellNumbered, Metadata
<1>2. /\ n \in Metadata /\ n.current = i /\ n.known = m.known \cup {i}
      /\ n.files[i] = CurrentFiles(m) \cup NewEntries(m, a)
      /\ \A j \in m.known : n.files[j] = m.files[j]
  BY <1>1, NextMetadataType
<1>3. CurrentFiles(m) \subseteq Listed(m)
  BY <1>1 DEF CurrentFiles, Listed
<1> HIDE DEF n
<1>4. Listed(n) \subseteq Listed(m) \cup NewEntries(m, a)
  BY <1>2, <1>3 DEF Listed
<1>5. \E b \in Nat : \A e \in Listed(n) : e.seq <= b
  <2>1. MaxSequenceNumber(m) \in Nat
    BY <1>1, SequenceNumbersNat
  <2>2. MaxSequenceNumber(m) + FilesPerAppend \in Nat
    BY <2>1, MetadataAssumption
  <2>3. ASSUME NEW e \in Listed(n)
        PROVE  e.seq <= MaxSequenceNumber(m) + FilesPerAppend
    <3>1. CASE e \in NewEntries(m, a)
      BY <3>1, NewEntriesAbove
    <3>2. CASE e \in Listed(m)
      <4>1. e.seq <= MaxSequenceNumber(m)
        BY <3>2, MaxIsUpperBound
      <4>2. e.seq \in Nat
        BY <1>1, <3>2 DEF Listed, Metadata, Entries
      <4> QED
        BY <2>1, <4>1, <4>2, MetadataAssumption
    <3> QED
      BY <1>4, <3>1, <3>2
  <2> QED
    BY <2>2, <2>3
<1>6. ASSUME NEW j \in n.known, NEW d \in n.files[j], NEW e \in n.files[j], d # e
      PROVE  d.seq # e.seq
  <2>1. CASE j \in m.known
    BY <1>2, <1>6, <2>1 DEF WellNumbered
  <2>2. CASE j = i
    <3>1. ASSUME NEW x \in CurrentFiles(m), NEW y \in NewEntries(m, a)
          PROVE  x.seq # y.seq
      <4>1. x \in Listed(m)
        BY <1>3
      <4>2. x.seq < y.seq /\ x.seq \in Nat /\ y.seq \in Nat
        BY <1>1, <4>1, NewEntriesAbove DEF Listed, Metadata, Entries
      <4> QED
        BY <4>2
    <3>2. CASE d \in CurrentFiles(m) /\ e \in CurrentFiles(m)
      BY <1>1, <1>6, <3>2 DEF WellNumbered, CurrentFiles
    <3>3. CASE d \in NewEntries(m, a) /\ e \in NewEntries(m, a)
      <4>1. MaxSequenceNumber(m) \in Nat
        BY <1>1, SequenceNumbersNat
      <4> QED
        BY <1>6, <3>3, <4>1, MetadataAssumption DEF NewEntries
    <3> QED
      BY <1>2, <2>2, <3>1, <3>2, <3>3
  <2> QED
    BY <1>2, <2>1, <2>2
<1> QED
  BY <1>2, <1>5, <1>6 DEF WellNumbered, n
--------------------------------------------------------------------------------

Committing == {"check", "head", "putManifest", "putMetadata", "putHint"}

(* A load that gets a metadata file has a path to get, and a handle in use  *)
(* holds a metadata file.                                                   *)
Loaded ==
    \A w \in Writers :
        /\ pc[w] = "get" => path[w] # None
        /\ pc[w] \in {"ready"} \cup Committing => base[w] # None

(* An append under way has an id, and metadata of its own to write.         *)
UnderWay ==
    \A w \in Writers : pc[w] \in Committing =>
        /\ made[w] # 0
        /\ id[w] # None
        /\ next[w] # None
        /\ id[w] \in next[w].known

Typing == TypeOK /\ Loaded /\ UnderWay

USE DEF Committing

(* The metadata file a table starts with is one, and numbered.              *)
LEMMA InitialMetadataType ==
    /\ InitialMetadata \in Metadata
    /\ WellNumbered(InitialMetadata)
<1>1. InitialMetadata \in Metadata
  BY MetadataAssumption DEF InitialMetadata, Metadata
<1>2. Listed(InitialMetadata) = {}
  BY MetadataAssumption DEF InitialMetadata, Listed
<1>3. InitialMetadata.current \in InitialMetadata.known
  BY DEF InitialMetadata
<1>4. \A i \in InitialMetadata.known : InitialMetadata.files[i] = {}
  BY MetadataAssumption DEF InitialMetadata
<1> QED
  BY <1>1, <1>2, <1>3, <1>4 DEF WellNumbered

(* The initial state is typed.                                              *)
LEMMA TypingInit == Init => Typing
<1> SUFFICES ASSUME Init PROVE Typing
  OBVIOUS
<1>1. TypeOK
  BY InitialMetadataType, MetadataAssumption, CommitAssumption
     DEF Init, TypeOK, PCs, Outcomes
<1>2. Loaded /\ UnderWay
  BY DEF Init, Loaded, UnderWay
<1> QED
  BY <1>1, <1>2 DEF Typing

(* Every store call of a load and of an append keeps the types.             *)
LEMMA TypingStep == Typing /\ [Next]_vars => Typing'
<1> SUFFICES ASSUME Typing, [Next]_vars PROVE Typing'
  OBVIOUS
<1> USE CommitAssumption DEF Typing, Loaded, UnderWay, store, handle, call, Goto
<1>1. CASE UNCHANGED vars
  BY <1>1 DEF vars, TypeOK
<1>2. ASSUME NEW w \in Writers, ReadHint(w) PROVE Typing'
  BY <1>2 DEF ReadHint, TypeOK, PCs
<1>3. ASSUME NEW w \in Writers, ListLatest(w) PROVE Typing'
  BY <1>3 DEF ListLatest, TypeOK, PCs
<1>4. ASSUME NEW w \in Writers, GetMetadata(w) PROVE Typing'
  BY <1>4 DEF GetMetadata, TypeOK, PCs
<1>5. ASSUME NEW w \in Writers, FailLoad(w) PROVE Typing'
  BY <1>5 DEF FailLoad, TypeOK, PCs
<1>6. ASSUME NEW w \in Writers, Begin(w) PROVE Typing'
  <2>1. base[w] \in Metadata /\ made[w] + 1 \in 1 .. MaxAppends
    BY <1>6 DEF Begin, TypeOK
  <2>2. <<w, made[w] + 1>> \in Appends
    BY <2>1
  <2>3. PICK i \in SnapshotIds :
           /\ id' = [id EXCEPT ![w] = i]
           /\ used' = used \cup {i}
           /\ next' = [next EXCEPT ![w] = NextMetadata(base[w], i, <<w, made[w] + 1>>)]
    BY <1>6 DEF Begin
  <2>4. /\ NextMetadata(base[w], i, <<w, made[w] + 1>>) \in Metadata
        /\ i \in NextMetadata(base[w], i, <<w, made[w] + 1>>).known
    BY <2>1, <2>2, NextMetadataType
  <2>5. TypeOK'
    BY <1>6, <2>1, <2>3, <2>4 DEF Begin, TypeOK, PCs, Outcomes
  <2>6. Loaded' /\ UnderWay'
    BY <1>6, <2>1, <2>3, <2>4 DEF Begin, TypeOK
  <2> QED
    BY <2>5, <2>6
<1>7. ASSUME NEW w \in Writers, CheckBase(w) PROVE Typing'
  BY <1>7 DEF CheckBase, TypeOK, PCs
<1>8. ASSUME NEW w \in Writers, RejectStale(w) PROVE Typing'
  BY <1>8 DEF RejectStale, Return, TypeOK, PCs, Outcomes
<1>9. ASSUME NEW w \in Writers, HeadHint(w) PROVE Typing'
  BY <1>9 DEF HeadHint, TypeOK, PCs
<1>10. ASSUME NEW w \in Writers, PutManifest(w) PROVE Typing'
  <2>1. AppendOf(w) \in Appends /\ id[w] \in SnapshotIds
    BY <1>10 DEF PutManifest, TypeOK, AppendOf
  <2> QED
    BY <1>10, <2>1 DEF PutManifest, TypeOK, PCs
<1>11. ASSUME NEW w \in Writers, PutMetadata(w) PROVE Typing'
  BY <1>11 DEF PutMetadata, TypeOK, PCs
<1>12. ASSUME NEW w \in Writers, PutHint(w) PROVE Typing'
  <2>1. id[w] \in SnapshotIds /\ etag' \in Nat
    BY <1>12 DEF PutHint, WriteHint, TypeOK
  <2> QED
    BY <1>12, <2>1 DEF PutHint, WriteHint, Return, TypeOK, PCs, Outcomes
<1>13. ASSUME NEW w \in Writers, PutHintUnanswered(w) PROVE Typing'
  <2>1. id[w] \in SnapshotIds /\ etag' \in Nat
    BY <1>13 DEF PutHintUnanswered, WriteHint, TypeOK
  <2> QED
    BY <1>13, <2>1 DEF PutHintUnanswered, WriteHint, Return, TypeOK, PCs, Outcomes
<1>14. ASSUME NEW w \in Writers, HintConflict(w) PROVE Typing'
  BY <1>14 DEF HintConflict, Return, TypeOK, PCs, Outcomes
<1>15. ASSUME NEW w \in Writers, FailAppend(w) PROVE Typing'
  BY <1>15 DEF FailAppend, Return, TypeOK, PCs, Outcomes
<1>16. CASE RewriteMetadata
  <2>1. PICK i \in SnapshotIds, j \in SnapshotIds :
           /\ metadata[i] # None
           /\ metadata' = [metadata EXCEPT ![i] = MovedTo(metadata[i], j)]
    BY <1>16 DEF RewriteMetadata, TypeOK, Metadata
  <2>2. MovedTo(metadata[i], j) \in Metadata
    BY <2>1 DEF TypeOK, Metadata, MovedTo
  <2> QED
    BY <1>16, <2>1, <2>2 DEF RewriteMetadata, TypeOK
<1> QED
  BY <1>1, <1>2, <1>3, <1>4, <1>5, <1>6, <1>7, <1>8, <1>9, <1>10, <1>11,
     <1>12, <1>13, <1>14, <1>15, <1>16 DEF Next, Load, Commit

(* Every reachable state of the object-store commit has the declared types, *)
(* and no step acts on a handle, an id or metadata that is not there.       *)
THEOREM TypeCorrect == Spec => []TypeOK
<1>1. Spec => []Typing
  BY TypingInit, TypingStep, PTL DEF Spec
<1> QED
  BY <1>1, PTL DEF Typing
--------------------------------------------------------------------------------
(* The manifests of the snapshots a metadata file lists are in the store.   *)
ManifestsThere(known) == \A i \in known \ {Base} : manifest[i] # None

(* So it is with every metadata file in the store, with every handle, and,  *)
(* its own manifest apart, with what an append under way is to write.       *)
Manifested ==
    /\ \A i \in SnapshotIds : metadata[i] # None =>
          i \in metadata[i].known /\ ManifestsThere(metadata[i].known)
    /\ \A w \in Writers :
          /\ base[w] # None => ManifestsThere(base[w].known)
          /\ pc[w] \in Committing => ManifestsThere(next[w].known \ {id[w]})

(* The writes of an append come in order.                                   *)
InOrder ==
    \A w \in Writers :
        /\ pc[w] \in {"putMetadata", "putHint"} => manifest[id[w]] # None
        /\ pc[w] = "putHint" => metadata[id[w]] # None

HintThere == hint # None => metadata[hint] # None

Completeness == Manifested /\ InOrder /\ HintThere

(* Only the initial metadata file is published before the first commit.     *)
LEMMA CompletenessInit == Init => Completeness
<1> SUFFICES ASSUME Init PROVE Completeness
  OBVIOUS
<1>1. InitialMetadata # None
  BY InitialMetadataType, CommitAssumption
<1> QED
  BY <1>1, MetadataAssumption, CommitAssumption
     DEF Init, Completeness, Manifested, ManifestsThere, InOrder, HintThere, InitialMetadata

(* Every step writes what a metadata file names before it is published.     *)
LEMMA CompletenessStep == Typing /\ Completeness /\ [Next]_vars => Completeness'
<1> SUFFICES ASSUME Typing, Completeness, [Next]_vars PROVE Completeness'
  OBVIOUS
<1> USE CommitAssumption DEF Completeness, Manifested, ManifestsThere, InOrder, HintThere,
        Typing, UnderWay, store, handle, call, Goto
<1>1. CASE UNCHANGED vars
  BY <1>1 DEF vars
<1>2. ASSUME NEW w \in Writers, ReadHint(w) PROVE Completeness'
  BY <1>2 DEF ReadHint, TypeOK
<1>3. ASSUME NEW w \in Writers, ListLatest(w) PROVE Completeness'
  BY <1>3 DEF ListLatest, TypeOK
<1>4. ASSUME NEW w \in Writers, GetMetadata(w) PROVE Completeness'
  BY <1>4 DEF GetMetadata, TypeOK, Loaded
<1>5. ASSUME NEW w \in Writers, FailLoad(w) PROVE Completeness'
  BY <1>5 DEF FailLoad, TypeOK
<1>6. ASSUME NEW w \in Writers, Begin(w) PROVE Completeness'
  <2>1. base[w] \in Metadata /\ <<w, made[w] + 1>> \in Appends
    BY <1>6 DEF Begin, TypeOK, Loaded
  <2>2. PICK i \in SnapshotIds :
           /\ id' = [id EXCEPT ![w] = i]
           /\ next' = [next EXCEPT ![w] = NextMetadata(base[w], i, <<w, made[w] + 1>>)]
    BY <1>6 DEF Begin
  <2>3. id'[w] = i /\ next'[w].known = base[w].known \cup {i}
    BY <2>1, <2>2, NextMetadataType DEF TypeOK
  <2>4. ManifestsThere(base[w].known)
    BY <2>1
  <2>5. /\ UNCHANGED <<metadata, manifest, base, hint>>
        /\ \A v \in Writers \ {w} : /\ id'[v] = id[v] /\ next'[v] = next[v]
                                   /\ pc'[v] = pc[v]
        /\ pc'[w] = "check"
    BY <1>6, <2>2 DEF Begin, TypeOK
  <2>6. ASSUME NEW v \in Writers, pc'[v] \in Committing
        PROVE  ManifestsThere(next[v].known \ {id[v]})'
    <3>1. CASE v = w
      BY <2>3, <2>4, <2>5, <3>1
    <3>2. CASE v # w
      BY <2>5, <2>6, <3>2
    <3> QED
      BY <3>1, <3>2
  <2>7. Manifested'
    BY <2>5, <2>6
  <2>8. InOrder' /\ HintThere'
    BY <2>5
  <2> QED
    BY <2>7, <2>8
<1>7. ASSUME NEW w \in Writers, CheckBase(w) PROVE Completeness'
  BY <1>7 DEF CheckBase, TypeOK
<1>8. ASSUME NEW w \in Writers, RejectStale(w) PROVE Completeness'
  BY <1>8 DEF RejectStale, Return, TypeOK
<1>9. ASSUME NEW w \in Writers, HeadHint(w) PROVE Completeness'
  BY <1>9 DEF HeadHint, TypeOK
<1>10. ASSUME NEW w \in Writers, PutManifest(w) PROVE Completeness'
  <2>1. AppendOf(w) # None /\ id[w] \in SnapshotIds
    BY <1>10 DEF PutManifest, TypeOK, AppendOf
  <2>2. /\ manifest'[id[w]] # None
        /\ \A i \in SnapshotIds : manifest[i] # None => manifest'[i] # None
    BY <1>10, <2>1 DEF PutManifest, TypeOK
  <2>3. ASSUME NEW K, K \subseteq SnapshotIds, ManifestsThere(K)
        PROVE  \A i \in K \ {Base} : manifest'[i] # None
    BY <2>2, <2>3
  <2>4. /\ metadata' = metadata /\ base' = base /\ next' = next /\ id' = id /\ hint' = hint
        /\ \A v \in Writers :
              /\ pc'[v] \in Committing => pc[v] \in Committing
              /\ pc'[v] = "putHint" => pc[v] = "putHint"
              /\ pc'[v] = "putMetadata" => pc[v] = "putMetadata" \/ v = w
    BY <1>10 DEF PutManifest, TypeOK
  <2>5. Manifested'
    <3>1. ASSUME NEW i \in SnapshotIds, metadata'[i] # None
          PROVE  i \in metadata'[i].known /\ ManifestsThere(metadata[i].known)'
      <4>1. metadata[i].known \subseteq SnapshotIds
        BY <2>4, <3>1 DEF TypeOK, Metadata
      <4> QED
        BY <2>3, <2>4, <3>1, <4>1
    <3>2. ASSUME NEW v \in Writers, base'[v] # None
          PROVE  ManifestsThere(base[v].known)'
      <4>1. base[v].known \subseteq SnapshotIds
        BY <2>4, <3>2 DEF TypeOK, Metadata
      <4> QED
        BY <2>3, <2>4, <3>2, <4>1
    <3>3. ASSUME NEW v \in Writers, pc'[v] \in Committing
          PROVE  ManifestsThere(next[v].known \ {id[v]})'
      <4>1. next[v] # None /\ ManifestsThere(next[v].known \ {id[v]})
        BY <2>4, <3>3
      <4>2. next[v].known \subseteq SnapshotIds
        BY <4>1 DEF TypeOK, Metadata
      <4> QED
        BY <2>3, <2>4, <4>1, <4>2
    <3> HIDE DEF ManifestsThere
    <3> QED
      BY <3>1, <3>2, <3>3
  <2>6. InOrder' /\ HintThere'
    BY <2>2, <2>4 DEF TypeOK
  <2> QED
    BY <2>5, <2>6
<1>11. ASSUME NEW w \in Writers, PutMetadata(w) PROVE Completeness'
  BY <1>11 DEF PutMetadata, TypeOK
<1>12. ASSUME NEW w \in Writers, PutHint(w) PROVE Completeness'
  BY <1>12 DEF PutHint, WriteHint, Return, TypeOK
<1>13. ASSUME NEW w \in Writers, PutHintUnanswered(w) PROVE Completeness'
  BY <1>13 DEF PutHintUnanswered, WriteHint, Return, TypeOK
<1>14. ASSUME NEW w \in Writers, HintConflict(w) PROVE Completeness'
  BY <1>14 DEF HintConflict, Return, TypeOK
<1>15. ASSUME NEW w \in Writers, FailAppend(w) PROVE Completeness'
  BY <1>15 DEF FailAppend, Return, TypeOK
<1>16. CASE RewriteMetadata
  <2>1. PICK i \in SnapshotIds, j \in SnapshotIds :
           /\ metadata[i] # None
           /\ metadata' = [metadata EXCEPT ![i] = MovedTo(metadata[i], j)]
    BY <1>16 DEF RewriteMetadata, TypeOK, Metadata
  <2>2. /\ MovedTo(metadata[i], j) # None
        /\ MovedTo(metadata[i], j).known = metadata[i].known
    BY <2>1 DEF MovedTo, TypeOK, Metadata
  <2> QED
    BY <1>16, <2>1, <2>2 DEF RewriteMetadata, TypeOK
<1> QED
  BY <1>1, <1>2, <1>3, <1>4, <1>5, <1>6, <1>7, <1>8, <1>9, <1>10, <1>11,
     <1>12, <1>13, <1>14, <1>15, <1>16 DEF Next, Load, Commit

(* The hint names a complete table, wherever any writer stops and whatever  *)
(* ids the callers choose.                                                  *)
THEOREM PublishedIsComplete == Spec => []PublishedComplete
<1>1. Spec => [](Typing /\ Completeness)
  BY TypingInit, TypingStep, CompletenessInit, CompletenessStep, PTL DEF Spec
<1>2. Typing /\ Completeness => PublishedComplete
  BY CommitAssumption DEF Typing, TypeOK, Completeness, Manifested, ManifestsThere,
     HintThere, PublishedComplete
<1> QED
  BY <1>1, <1>2, PTL
--------------------------------------------------------------------------------
(* Every metadata file, handle and append under way is well numbered.       *)
Numbered ==
    /\ \A i \in SnapshotIds : metadata[i] # None => WellNumbered(metadata[i])
    /\ \A w \in Writers :
          /\ base[w] # None => WellNumbered(base[w])
          /\ next[w] # None => WellNumbered(next[w])

(* The initial metadata numbers its snapshots apart.                        *)
LEMMA NumberedInit == Init => Numbered
BY InitialMetadataType DEF Init, Numbered

(* Every step gives a new snapshot a number above those of its base.        *)
LEMMA NumberedStep == Typing /\ Numbered /\ [Next]_vars => Numbered'
<1> SUFFICES ASSUME Typing, Numbered, [Next]_vars PROVE Numbered'
  OBVIOUS
<1> USE CommitAssumption DEF Numbered, Typing, store, handle, call
<1>1. CASE UNCHANGED <<metadata, base, next>>
  BY <1>1
<1>2. ASSUME NEW w \in Writers, ReadHint(w) PROVE Numbered'
  BY <1>2 DEF ReadHint, TypeOK
<1>3. ASSUME NEW w \in Writers, GetMetadata(w) PROVE Numbered'
  BY <1>3 DEF GetMetadata, TypeOK, Loaded
<1>4. ASSUME NEW w \in Writers, Begin(w) PROVE Numbered'
  <2>1. base[w] \in Metadata /\ <<w, made[w] + 1>> \in Appends
    BY <1>4 DEF Begin, TypeOK, Loaded
  <2>2. PICK i \in SnapshotIds \ base[w].known :
           next' = [next EXCEPT ![w] = NextMetadata(base[w], i, <<w, made[w] + 1>>)]
    BY <1>4 DEF Begin
  <2>3. WellNumbered(NextMetadata(base[w], i, <<w, made[w] + 1>>))
    BY <2>1, NextMetadataNumbered
  <2> QED
    BY <1>4, <2>2, <2>3 DEF Begin, TypeOK
<1>5. ASSUME NEW w \in Writers, PutMetadata(w) PROVE Numbered'
  BY <1>5 DEF PutMetadata, TypeOK, UnderWay
<1>6. CASE RewriteMetadata
  <2>1. PICK i \in SnapshotIds :
           /\ metadata[i] # None
           /\ \E j \in metadata[i].known :
                 metadata' = [metadata EXCEPT ![i] = MovedTo(metadata[i], j)]
    BY <1>6 DEF RewriteMetadata
  <2>2. PICK j \in metadata[i].known :
           metadata' = [metadata EXCEPT ![i] = MovedTo(metadata[i], j)]
    BY <2>1
  <2>3. WellNumbered(metadata[i])
    BY <2>1
  <2>4. WellNumbered(MovedTo(metadata[i], j))
    BY <2>3 DEF WellNumbered, MovedTo, Listed, Metadata
  <2> QED
    BY <1>6, <2>2, <2>4 DEF RewriteMetadata, TypeOK
<1> QED
  BY <1>1, <1>2, <1>3, <1>4, <1>5, <1>6
     DEF Next, Load, Commit, vars, ListLatest, FailLoad, CheckBase, RejectStale, HeadHint,
         PutManifest, PutHint, PutHintUnanswered, HintConflict, FailAppend

(* No two data files a snapshot lists share a sequence number, however many *)
(* files an append adds and whichever stale handle it was made on.          *)
THEOREM SequenceNumbersAreDistinct == Spec => []SequenceNumbersDistinct
<1>1. Spec => [](Typing /\ Numbered)
  BY TypingInit, TypingStep, NumberedInit, NumberedStep, PTL DEF Spec
<1>2. Numbered => SequenceNumbersDistinct
  BY DEF Numbered, WellNumbered, SequenceNumbersDistinct
<1> QED
  BY <1>1, <1>2, PTL
--------------------------------------------------------------------------------
(* With a hint from the start, a load follows it, and a handle holds a      *)
(* metadata file that has been published.                                   *)
OnHint ==
    /\ hint \in published
    /\ \A w \in Writers : /\ pc[w] # "list"
                          /\ pc[w] # "idle" => path[w] \in published

(* An append under way has an id to itself, and none that was published.    *)
IdsApart ==
    /\ \A i \in SnapshotIds : metadata[i] # None =>
          i \in used \cup {Base} /\ Base \in metadata[i].known
    /\ published \subseteq used \cup {Base}
    /\ \A w \in Writers :
          /\ base[w] # None => Base \in base[w].known
          /\ pc[w] \in Committing =>
                /\ id[w] \in used /\ id[w] \notin published /\ id[w] # Base
                /\ Base \in next[w].known
                /\ \A v \in Writers \ {w} : pc[v] \in Committing => id[v] # id[w]

(* An append is pending while it is under way, and the calls still to be    *)
(* made have no outcome.                                                    *)
Pending ==
    \A w \in Writers :
        /\ \A n \in made[w] + 1 .. MaxAppends : outcome[<<w, n>>] = "none"
        /\ pc[w] \in Committing => outcome[AppendOf(w)] = "pending"

(* A table that starts with a hint starts on it.                            *)
LEMMA OnHintInit == HintAtStart /\ Init => OnHint
BY DEF Init, OnHint

(* The hint never comes off, so no load ever lists the metadata files.      *)
LEMMA OnHintStep == Typing /\ OnHint /\ [Next]_vars => OnHint'
<1> SUFFICES ASSUME Typing, OnHint, [Next]_vars PROVE OnHint'
  OBVIOUS
<1> USE CommitAssumption DEF OnHint, Typing, TypeOK, store, handle, call, Goto
<1>1. CASE UNCHANGED <<hint, pc, path, published>>
  BY <1>1
<1>2. ASSUME NEW w \in Writers, ReadHint(w) PROVE OnHint'
  BY <1>2 DEF ReadHint
<1>3. ASSUME NEW w \in Writers, GetMetadata(w) \/ FailLoad(w) PROVE OnHint'
  BY <1>3 DEF GetMetadata, FailLoad
<1>4. ASSUME NEW w \in Writers, Begin(w) PROVE OnHint'
  BY <1>4 DEF Begin
<1>5. ASSUME NEW w \in Writers,
             CheckBase(w) \/ RejectStale(w) \/ HeadHint(w) \/ PutManifest(w) \/ PutMetadata(w)
      PROVE  OnHint'
  BY <1>5 DEF CheckBase, RejectStale, HeadHint, PutManifest, PutMetadata, Return
<1>6. ASSUME NEW w \in Writers, PutHint(w) \/ PutHintUnanswered(w) PROVE OnHint'
  BY <1>6 DEF PutHint, PutHintUnanswered, WriteHint, Return
<1>7. ASSUME NEW w \in Writers, HintConflict(w) \/ FailAppend(w) PROVE OnHint'
  BY <1>7 DEF HintConflict, FailAppend, Return
<1> QED
  BY <1>1, <1>2, <1>3, <1>4, <1>5, <1>6, <1>7
     DEF Next, Load, Commit, vars, ListLatest, RewriteMetadata

(* No writer has drawn a snapshot id yet.                                   *)
LEMMA IdsApartInit == Init => IdsApart
BY MetadataAssumption, CommitAssumption DEF Init, IdsApart, InitialMetadata

(* Where ids are drawn fresh, no two appends ever write the same file.      *)
LEMMA IdsApartStep ==
    ~ReuseIds /\ Typing /\ IdsApart /\ [Next]_vars => IdsApart'
<1> SUFFICES ASSUME ~ReuseIds, Typing, IdsApart, [Next]_vars PROVE IdsApart'
  OBVIOUS
<1> USE CommitAssumption DEF IdsApart, Typing, TypeOK, store, handle, call, Goto
<1>1. CASE UNCHANGED vars
  BY <1>1 DEF vars
<1>2. ASSUME NEW w \in Writers, ReadHint(w) \/ ListLatest(w) \/ FailLoad(w) PROVE IdsApart'
  BY <1>2 DEF ReadHint, ListLatest, FailLoad
<1>3. ASSUME NEW w \in Writers, GetMetadata(w) PROVE IdsApart'
  BY <1>3 DEF GetMetadata, Loaded
<1>4. ASSUME NEW w \in Writers, Begin(w) PROVE IdsApart'
  <2>1. base[w] \in Metadata /\ <<w, made[w] + 1>> \in Appends
    BY <1>4 DEF Begin, Loaded
  <2>2. PICK i \in SnapshotIds \ (base[w].known \cup used) :
           /\ id' = [id EXCEPT ![w] = i]
           /\ used' = used \cup {i}
           /\ next' = [next EXCEPT ![w] = NextMetadata(base[w], i, <<w, made[w] + 1>>)]
    BY <1>4 DEF Begin, FreshId
  <2>3. id'[w] = i /\ next'[w].known = base[w].known \cup {i}
    BY <2>1, <2>2, NextMetadataType
  <2>4. i \notin used \cup {Base} /\ i \notin published /\ Base \in base[w].known
    BY <2>1, <2>2
  <2>5. \A v \in Writers \ {w} : /\ id'[v] = id[v] /\ next'[v] = next[v]
                                 /\ pc'[v] = pc[v]
    BY <1>4, <2>2 DEF Begin
  <2>6. UNCHANGED <<metadata, base, published>> /\ used' = used \cup {i}
    BY <1>4, <2>2 DEF Begin
  <2> QED
    BY <2>3, <2>4, <2>5, <2>6
<1>5. ASSUME NEW w \in Writers, CheckBase(w) \/ RejectStale(w) \/ HeadHint(w) \/ PutManifest(w)
      PROVE  IdsApart'
  BY <1>5 DEF CheckBase, RejectStale, HeadHint, PutManifest, Return
<1>6. ASSUME NEW w \in Writers, PutMetadata(w) PROVE IdsApart'
  BY <1>6 DEF PutMetadata
<1>7. ASSUME NEW w \in Writers, PutHint(w) \/ PutHintUnanswered(w) PROVE IdsApart'
  <2>1. /\ pc[w] = "putHint" /\ pc'[w] = "ready"
        /\ \A v \in Writers \ {w} : pc'[v] = pc[v]
        /\ published' = published \cup {id[w]}
        /\ UNCHANGED <<metadata, base, id, next, used>>
    BY <1>7 DEF PutHint, PutHintUnanswered, WriteHint, Return
  <2>2. id[w] \in used /\ \A v \in Writers \ {w} : pc[v] \in Committing => id[v] # id[w]
    BY <2>1
  <2> QED
    BY <2>1, <2>2
<1>8. ASSUME NEW w \in Writers, HintConflict(w) \/ FailAppend(w) PROVE IdsApart'
  BY <1>8 DEF HintConflict, FailAppend, Return
<1>9. CASE RewriteMetadata
  <2>1. PICK i \in SnapshotIds, j \in SnapshotIds :
           /\ metadata[i] # None
           /\ metadata' = [metadata EXCEPT ![i] = MovedTo(metadata[i], j)]
    BY <1>9 DEF RewriteMetadata, Metadata
  <2>2. MovedTo(metadata[i], j).known = metadata[i].known
    BY DEF MovedTo
  <2> QED
    BY <1>9, <2>1, <2>2 DEF RewriteMetadata
<1> QED
  BY <1>1, <1>2, <1>3, <1>4, <1>5, <1>6, <1>7, <1>8, <1>9 DEF Next, Load, Commit

(* No commit is under way.                                                  *)
LEMMA PendingInit == Init => Pending
BY CommitAssumption DEF Init, Pending

(* Each call gets an outcome once, and only from its own writer.            *)
LEMMA PendingStep == Typing /\ Pending /\ [Next]_vars => Pending'
<1> SUFFICES ASSUME Typing, Pending, [Next]_vars PROVE Pending'
  OBVIOUS
<1> USE CommitAssumption DEF Pending, AppendOf, Typing, TypeOK, UnderWay, store, handle, call, Goto
<1>1. CASE UNCHANGED <<pc, made, outcome>>
  BY <1>1
<1>2. ASSUME NEW w \in Writers,
             pc'[w] \in Committing => pc[w] \in Committing,
             \A v \in Writers \ {w} : pc'[v] = pc[v],
             UNCHANGED <<made, outcome>>
      PROVE  Pending'
  BY <1>2
<1>3. ASSUME NEW w \in Writers, Begin(w) PROVE Pending'
  <2>1. /\ made[w] \in 0 .. MaxAppends /\ made'[w] = made[w] + 1 /\ pc'[w] = "check"
        /\ \A v \in Writers \ {w} : made'[v] = made[v] /\ pc'[v] = pc[v]
        /\ outcome' = [outcome EXCEPT ![<<w, made[w] + 1>>] = "pending"]
        /\ <<w, made[w] + 1>> \in Appends
    BY <1>3 DEF Begin
  <2>2. \A v \in Writers \ {w}, n \in 1 .. MaxAppends : outcome'[<<v, n>>] = outcome[<<v, n>>]
    BY <2>1
  <2>3. ASSUME NEW n \in made[w] + 2 .. MaxAppends PROVE outcome'[<<w, n>>] = "none"
    <3>1. n \in made[w] + 1 .. MaxAppends /\ n \in 1 .. MaxAppends /\ n # made[w] + 1
      BY <2>1
    <3>2. <<w, n>> \in Appends /\ <<w, n>> # <<w, made[w] + 1>>
      BY <3>1
    <3>3. outcome[<<w, n>>] = "none"
      BY <3>1
    <3> QED
      BY <2>1, <3>2, <3>3
  <2>4. outcome'[<<w, made[w] + 1>>] = "pending"
    BY <2>1
  <2> QED
    BY <2>1, <2>2, <2>3, <2>4
<1>4. ASSUME NEW w \in Writers, pc[w] \in Committing, NEW result, Return(w, result),
             UNCHANGED made
      PROVE  Pending'
  <2>1. /\ outcome' = [outcome EXCEPT ![AppendOf(w)] = result]
        /\ pc' = [pc EXCEPT ![w] = "ready"] /\ made' = made
    BY <1>4 DEF Return
  <2>2. outcome[AppendOf(w)] = "pending"
    BY <1>4
  <2>3. \A a \in Appends : a # AppendOf(w) => outcome'[a] = outcome[a]
    BY <2>1
  <2>4. \A v \in Writers \ {w} : pc'[v] = pc[v] /\ AppendOf(v) # AppendOf(w)
    BY <2>1
  <2>5. ASSUME NEW v \in Writers, NEW n \in made[v] + 1 .. MaxAppends
        PROVE  outcome'[<<v, n>>] = "none"
    <3>1. outcome[<<v, n>>] = "none"
      BY Zenon
    <3>2. made[v] \in Nat /\ MaxAppends \in Nat
      OBVIOUS
    <3>3. <<v, n>> \in Appends
      BY <3>2
    <3> QED
      BY <2>2, <2>3, <3>1, <3>3
  <2>6. ASSUME NEW v \in Writers, pc'[v] \in Committing
        PROVE  outcome'[<<v, made[v]>>] = "pending"
    <3>1. v # w /\ pc[v] \in Committing
      BY <2>1, <2>6
    <3>2. AppendOf(v) \in Appends /\ outcome[AppendOf(v)] = "pending"
      BY <3>1
    <3> QED
      BY <2>3, <2>4, <3>1, <3>2
  <2> QED
    BY <2>1, <2>5, <2>6
<1>5. ASSUME NEW w \in Writers, Load(w) PROVE Pending'
  <2>1. /\ pc' = [pc EXCEPT ![w] = pc'[w]] /\ pc'[w] \notin Committing
        /\ UNCHANGED <<made, outcome>>
    BY <1>5 DEF Load, ReadHint, ListLatest, GetMetadata, FailLoad
  <2> QED
    BY <1>2, <2>1
<1>6. ASSUME NEW w \in Writers, Commit(w) PROVE Pending'
  <2>1. CASE CheckBase(w) \/ HeadHint(w) \/ PutManifest(w) \/ PutMetadata(w)
    BY <1>2, <2>1 DEF CheckBase, HeadHint, PutManifest, PutMetadata
  <2>2. CASE RejectStale(w) \/ PutHint(w) \/ PutHintUnanswered(w) \/ HintConflict(w)
    BY <1>4, <2>2 DEF RejectStale, PutHint, PutHintUnanswered, HintConflict
  <2> QED
    BY <1>6, <2>1, <2>2 DEF Commit
<1>7. ASSUME NEW w \in Writers, FailAppend(w) PROVE Pending'
  BY <1>4, <1>7 DEF FailAppend
<1>8. CASE RewriteMetadata
  BY <1>1, <1>8 DEF RewriteMetadata
<1> QED
  BY <1>1, <1>3, <1>5, <1>6, <1>7, <1>8 DEF Next, vars

(* Where the table has a hint, a handle holds a metadata file a commit has  *)
(* published, whatever ids and rewrites there are.                          *)
THEOREM HandlesArePublished ==
    ASSUME HintAtStart PROVE Spec => []HandlesPublished
<1>1. Spec => [](Typing /\ OnHint)
  BY TypingInit, TypingStep, OnHintInit, OnHintStep, PTL DEF Spec
<1>2. OnHint => HandlesPublished
  BY DEF OnHint, HandlesPublished
<1> QED
  BY <1>1, <1>2, PTL
--------------------------------------------------------------------------------
(* An append that is over and was not rejected; a metadata file that lists  *)
(* the data files of such appends, and of the others, only.                 *)
Settled(a) == outcome[a] \in {"committed", "failed"}

ListsSettled(m, others) ==
    \A i \in SnapshotIds : \A e \in m.files[i] : Settled(e.append) \/ e.append \in others

(* Published metadata files and handles list no rejected append, and an     *)
(* append adds its own files only.                                          *)
PublishedLists == \A i \in published : metadata[i] # None => ListsSettled(metadata[i], {})

WriterLists(w) ==
    /\ base[w] # None => ListsSettled(base[w], {})
    /\ pc[w] \in Committing => ListsSettled(next[w], {AppendOf(w)})
    /\ pc[w] = "putHint" => metadata[id[w]].files = next[w].files

NoneRejected == PublishedLists /\ \A w \in Writers : WriterLists(w)

(* No commit has been rejected.                                             *)
LEMMA NoneRejectedInit == Init => NoneRejected
BY MetadataAssumption, CommitAssumption DEF Init, NoneRejected, PublishedLists, WriterLists, ListsSettled, InitialMetadata

(* What is over stays over, so a metadata file keeps what it lists.         *)
LEMMA SettledKept ==
    ASSUME Typing, Pending, [Next]_vars
    PROVE  /\ \A a \in Appends : Settled(a) => Settled(a)'
           /\ \A m \in Metadata : \A others : ListsSettled(m, others) => ListsSettled(m, others)'
<1> USE CommitAssumption DEF Pending, Settled, AppendOf, Typing, TypeOK, UnderWay
<1>1. ASSUME UNCHANGED outcome
      PROVE  \A b \in Appends : Settled(b) => Settled(b)'
  BY <1>1
<1>2. ASSUME NEW a \in Appends, outcome[a] \in {"none", "pending"}, NEW result,
             outcome' = [outcome EXCEPT ![a] = result]
      PROVE  \A b \in Appends : Settled(b) => Settled(b)'
  BY <1>2
<1>3. ASSUME NEW w \in Writers, Begin(w)
      PROVE  \A b \in Appends : Settled(b) => Settled(b)'
  <2>1. made[w] \in Nat /\ made[w] < MaxAppends /\ MaxAppends \in Nat
    BY <1>3 DEF Begin
  <2>2. made[w] + 1 \in made[w] + 1 .. MaxAppends /\ <<w, made[w] + 1>> \in Appends
    BY <2>1
  <2>3. outcome[<<w, made[w] + 1>>] = "none"
    BY <2>2
  <2> QED
    BY <1>2, <1>3, <2>2, <2>3 DEF Begin
<1>4. ASSUME NEW w \in Writers, pc[w] \in Committing, NEW result, Return(w, result)
      PROVE  \A b \in Appends : Settled(b) => Settled(b)'
  <2>1. AppendOf(w) \in Appends /\ outcome[AppendOf(w)] = "pending"
    BY <1>4
  <2> QED
    BY <1>2, <1>4, <2>1 DEF Return
<1>5. \A a \in Appends : Settled(a) => Settled(a)'
  BY <1>1, <1>3, <1>4
     DEF Next, Load, Commit, vars, call, ReadHint, ListLatest, GetMetadata, FailLoad, CheckBase,
         RejectStale, HeadHint, PutManifest, PutMetadata, PutHint, PutHintUnanswered,
         HintConflict, FailAppend, RewriteMetadata
<1>6. ASSUME NEW m \in Metadata, NEW others, ListsSettled(m, others)
      PROVE  ListsSettled(m, others)'
  <2>1. \A i \in SnapshotIds : \A e \in m.files[i] : e.append \in Appends
    BY DEF Metadata, Entries
  <2> HIDE DEF Settled
  <2> QED
    BY <1>5, <1>6, <2>1 DEF ListsSettled
<1> QED
  BY <1>5, <1>6

(* What a commit publishes lists its base's files and its own.              *)
LEMMA PublishedListsStep ==
    ASSUME Typing, IdsApart, Pending, NoneRejected, [Next]_vars
    PROVE  PublishedLists'
<1> USE CommitAssumption DEF NoneRejected, PublishedLists, Typing, TypeOK, store, handle, call, Goto
<1>1. \A m \in Metadata : \A others : ListsSettled(m, others) => ListsSettled(m, others)'
  BY SettledKept
<1>2. CASE UNCHANGED <<metadata, published>>
  BY <1>1, <1>2
<1>3. ASSUME NEW w \in Writers, PutMetadata(w) PROVE PublishedLists'
  <2>1. id[w] \notin published
    BY <1>3 DEF PutMetadata, IdsApart
  <2> QED
    BY <1>1, <1>3, <2>1 DEF PutMetadata
<1>4. ASSUME NEW w \in Writers, PutHint(w) \/ PutHintUnanswered(w) PROVE PublishedLists'
  <2>1. /\ pc[w] = "putHint" /\ published' = published \cup {id[w]} /\ UNCHANGED <<metadata, id>>
        /\ id[w] \in SnapshotIds
        /\ outcome' \in {[outcome EXCEPT ![AppendOf(w)] = "committed"],
                         [outcome EXCEPT ![AppendOf(w)] = "failed"]}
    BY <1>4 DEF PutHint, PutHintUnanswered, WriteHint, Return, UnderWay
  <2>2. AppendOf(w) \in Appends
    BY <2>1 DEF UnderWay, AppendOf
  <2>3. /\ metadata[id[w]].files = next[w].files /\ next[w] \in Metadata
        /\ ListsSettled(next[w], {AppendOf(w)})
    BY <2>1 DEF WriterLists, UnderWay
  <2>4. ListsSettled(metadata[id[w]], {})'
    <3>1. \A a \in Appends : Settled(a) => Settled(a)'
      BY SettledKept
    <3>2. outcome'[AppendOf(w)] \in {"committed", "failed"}
      BY <2>1, <2>2
    <3>3. ASSUME NEW i \in SnapshotIds, NEW e \in next[w].files[i]
          PROVE  outcome'[e.append] \in {"committed", "failed"}
      <4>1. e.append \in Appends
        BY <2>3 DEF Metadata, Entries
      <4>2. Settled(e.append) \/ e.append = AppendOf(w)
        BY <2>3 DEF ListsSettled
      <4> QED
        BY <3>1, <3>2, <4>1, <4>2 DEF Settled
    <3> QED
      BY <2>1, <2>3, <3>3 DEF ListsSettled, Settled
  <2>5. ASSUME NEW i \in published, metadata[i] # None PROVE ListsSettled(metadata[i], {})'
    BY <1>1, <2>1, <2>5
  <2> QED
    BY <2>1, <2>4, <2>5
<1>5. CASE RewriteMetadata
  <2>1. PICK i \in SnapshotIds, j \in SnapshotIds :
           /\ metadata[i] # None
           /\ metadata' = [metadata EXCEPT ![i] = MovedTo(metadata[i], j)]
    BY <1>5 DEF RewriteMetadata, Metadata
  <2>2. \A k \in SnapshotIds : /\ metadata'[k].files = metadata[k].files
                               /\ metadata'[k] # None => metadata[k] # None
    BY <2>1 DEF MovedTo
  <2>3. UNCHANGED <<outcome, published>>
    BY <1>5 DEF RewriteMetadata
  <2> QED
    BY <2>2, <2>3 DEF ListsSettled, Settled
<1> QED
  BY <1>2, <1>3, <1>4, <1>5
     DEF Next, Load, Commit, vars, ReadHint, ListLatest, GetMetadata, FailLoad, Begin, CheckBase,
         RejectStale, HeadHint, PutManifest, HintConflict, FailAppend

(* A handle is of a published metadata file, and an append lists no files   *)
(* but those of its handle and its own.                                     *)
LEMMA WriterListsStep ==
    ASSUME Typing, OnHint, IdsApart, Pending, NoneRejected, [Next]_vars,
           NEW v \in Writers
    PROVE  WriterLists(v)'
<1> USE CommitAssumption DEF NoneRejected, PublishedLists, Typing, TypeOK, store, handle, call, Goto
<1>1. \A m \in Metadata : \A others : ListsSettled(m, others) => ListsSettled(m, others)'
  BY SettledKept
<1>2. ASSUME UNCHANGED <<base[v], id[v], next[v], made[v]>>,
             pc'[v] \in Committing => pc[v] \in Committing,
             pc'[v] = "putHint" => metadata'[id[v]].files = next[v].files
      PROVE  WriterLists(v)'
  <2>1. base[v] # None => base[v] \in Metadata /\ ListsSettled(base[v], {})
    BY DEF WriterLists
  <2>2. pc[v] \in Committing => next[v] \in Metadata /\ ListsSettled(next[v], {AppendOf(v)})
    BY DEF WriterLists, UnderWay
  <2> QED
    BY <1>1, <1>2, <2>1, <2>2 DEF WriterLists, AppendOf
<1>3. CASE ReadHint(v)
  <2>1. base'[v] = None /\ pc'[v] \notin Committing
    BY <1>3 DEF ReadHint
  <2> QED
    BY <2>1 DEF WriterLists
<1>4. CASE GetMetadata(v)
  <2>1. /\ base'[v] = metadata[path[v]] /\ pc'[v] = "ready"
        /\ path[v] \in published /\ metadata[path[v]] # None /\ metadata[path[v]] \in Metadata
    BY <1>4 DEF GetMetadata, OnHint, Loaded
  <2> QED
    BY <1>1, <2>1 DEF WriterLists
<1>5. CASE Begin(v)
  <2>0. made[v] \in 0 .. MaxAppends /\ made[v] < MaxAppends
    BY <1>5 DEF Begin
  <2>1. base[v] \in Metadata /\ <<v, made[v] + 1>> \in Appends /\ ListsSettled(base[v], {})
    <3>1. made[v] + 1 \in 1 .. MaxAppends
      BY <2>0
    <3>2. base[v] \in Metadata /\ base[v] # None
      BY <1>5 DEF Begin, Loaded
    <3> QED
      BY <3>1, <3>2 DEF WriterLists
  <2>2. PICK i \in SnapshotIds :
           next' = [next EXCEPT ![v] = NextMetadata(base[v], i, <<v, made[v] + 1>>)]
    BY <1>5 DEF Begin
  <2> DEFINE m == NextMetadata(base[v], i, <<v, made[v] + 1>>)
  <2>3. /\ next'[v] = m /\ base'[v] = base[v] /\ AppendOf(v)' = <<v, made[v] + 1>>
        /\ pc'[v] = "check"
    BY <1>5, <2>2 DEF Begin, AppendOf
  <2>4. /\ m.files[i] = CurrentFiles(base[v]) \cup NewEntries(base[v], <<v, made[v] + 1>>)
        /\ \A j \in SnapshotIds \ {i} : m.files[j] = base[v].files[j]
    BY <2>1, NextMetadataType
  <2> HIDE DEF m
  <2>5. \A e \in NewEntries(base[v], <<v, made[v] + 1>>) : e.append = <<v, made[v] + 1>>
    BY DEF NewEntries
  <2>6. ListsSettled(m, {<<v, made[v] + 1>>})
    BY <2>1, <2>4, <2>5 DEF ListsSettled, CurrentFiles, Metadata
  <2>7. m \in Metadata
    BY <2>1, NextMetadataType DEF m
  <2> QED
    BY <1>1, <2>1, <2>3, <2>6, <2>7 DEF WriterLists
<1>6. CASE PutMetadata(v)
  BY <1>2, <1>6 DEF PutMetadata, UnderWay
<1>7. ASSUME NEW w \in Writers \ {v}, PutMetadata(w) PROVE WriterLists(v)'
  <2>1. /\ pc'[v] = pc[v] /\ metadata' = [metadata EXCEPT ![id[w]] = next[w]]
        /\ UNCHANGED <<base, id, next, made>>
    BY <1>7 DEF PutMetadata
  <2>2. pc[v] = "putHint" => id[v] # id[w] /\ id[v] \in SnapshotIds
    BY <1>7 DEF PutMetadata, IdsApart, UnderWay
  <2>3. pc'[v] = "putHint" => metadata'[id[v]].files = next[v].files
    BY <2>1, <2>2 DEF WriterLists
  <2> QED
    BY <1>2, <2>1, <2>3
<1>8. CASE RewriteMetadata
  <2>1. PICK i \in SnapshotIds, j \in SnapshotIds :
           metadata' = [metadata EXCEPT ![i] = MovedTo(metadata[i], j)]
    BY <1>8 DEF RewriteMetadata, Metadata
  <2>2. \A k \in SnapshotIds : metadata'[k].files = metadata[k].files
    BY <2>1 DEF MovedTo
  <2>3. pc[v] = "putHint" => id[v] \in SnapshotIds
    BY DEF UnderWay
  <2> QED
    BY <1>2, <1>8, <2>2, <2>3 DEF RewriteMetadata, WriterLists
<1>9. ASSUME UNCHANGED <<metadata, base[v], id[v], next[v], made[v]>>,
             pc'[v] \in Committing => pc[v] \in Committing,
             pc'[v] = "putHint" => pc[v] = "putHint"
      PROVE  WriterLists(v)'
  BY <1>2, <1>9 DEF WriterLists
<1>10. CASE UNCHANGED vars
  BY <1>9, <1>10 DEF vars
<1>11. ASSUME NEW w \in Writers \ {v}, Load(w) \/ Begin(w) PROVE WriterLists(v)'
  BY <1>9, <1>11 DEF Load, ReadHint, ListLatest, GetMetadata, FailLoad, Begin
<1>12. ASSUME NEW w \in Writers, Commit(w) \/ FailAppend(w), ~PutMetadata(w) PROVE WriterLists(v)'
  BY <1>9, <1>12 DEF Commit, CheckBase, RejectStale, HeadHint, PutManifest, PutHint,
     PutHintUnanswered, WriteHint, HintConflict, FailAppend, Return
<1>13. CASE ListLatest(v) \/ FailLoad(v)
  BY <1>9, <1>13 DEF ListLatest, FailLoad
<1> QED
  BY <1>3, <1>4, <1>5, <1>6, <1>7, <1>8, <1>10, <1>11, <1>12, <1>13 DEF Next, Load

(* Where the table has a hint and ids are drawn fresh, nothing a rejected   *)
(* append wrote can be read from the hint, whoever else commits or moves    *)
(* the table to another of its snapshots.                                   *)
THEOREM RejectedStaysInvisible ==
    ASSUME HintAtStart, ~ReuseIds PROVE Spec => []RejectedInvisible
<1> DEFINE Safe == Typing /\ Completeness /\ OnHint /\ IdsApart /\ Pending /\ NoneRejected
<1>1. Init => Safe
  BY TypingInit, CompletenessInit, OnHintInit, IdsApartInit, PendingInit, NoneRejectedInit
<1>2. Safe /\ [Next]_vars => Safe'
  BY TypingStep, CompletenessStep, OnHintStep, IdsApartStep, PendingStep,
     PublishedListsStep, WriterListsStep DEF NoneRejected
<1>3. Safe => RejectedInvisible
  <2> SUFFICES ASSUME Safe, NEW a \in Appends, NEW e \in EntriesOf(Visible, a)
               PROVE  outcome[a] # "conflict"
    BY DEF RejectedInvisible
  <2>1. hint \in published /\ hint \in SnapshotIds /\ hint # None /\ metadata[hint] # None
    BY CommitAssumption DEF OnHint, Completeness, HintThere, Typing, TypeOK
  <2>2. metadata[hint] \in Metadata /\ ListsSettled(metadata[hint], {})
    BY <2>1 DEF NoneRejected, PublishedLists, Typing, TypeOK
  <2>3. e \in CurrentFiles(metadata[hint]) /\ e.append = a
    BY <2>1 DEF EntriesOf, Visible
  <2>4. Settled(a)
    BY <2>2, <2>3 DEF ListsSettled, CurrentFiles, Metadata
  <2> QED
    BY <2>4 DEF Settled
<1> HIDE DEF Safe
<1> QED
  BY <1>1, <1>2, <1>3, PTL DEF Spec
--------------------------------------------------------------------------------
(* The etag a commit has seen tells the hint it has seen.                   *)
EtagTellsHint ==
    \A w \in Writers : pc[w] \in {"putManifest", "putMetadata", "putHint"} =>
        /\ seen[w].etag <= etag
        /\ seen[w].etag = etag => seen[w].hint = hint

(* A metadata file is written once and stays as it was loaded; the one of   *)
(* an append carries over the files of its base.                            *)
HandleKept(w) ==
    /\ pc[w] \in {"ready"} \cup Committing => path[w] # None /\ base[w] = metadata[path[w]]
    /\ pc[w] \in {"check", "head", "putManifest", "putMetadata"} => metadata[id[w]] = None
    /\ pc[w] \in Committing => CurrentFiles(base[w]) \subseteq CurrentFiles(next[w])
    /\ pc[w] = "putHint" => metadata[id[w]] = next[w]

Kept == EtagTellsHint /\ \A w \in Writers : HandleKept(w)

(* The hint is what the table starts with, and no writer has a handle.      *)
LEMMA KeptInit == Init => Kept
BY DEF Init, Kept, EtagTellsHint, HandleKept

(* The etag grows whenever the hint is written.                             *)
LEMMA EtagStep == Typing /\ EtagTellsHint /\ [Next]_vars => EtagTellsHint'
<1> SUFFICES ASSUME Typing, EtagTellsHint, [Next]_vars PROVE EtagTellsHint'
  OBVIOUS
<1> USE DEF EtagTellsHint, Typing, TypeOK, store, handle, call, Goto
<1>1. CASE UNCHANGED <<hint, etag, pc, seen>>
  BY <1>1
<1>2. ASSUME NEW w \in Writers, Load(w) \/ Begin(w) \/ FailAppend(w) PROVE EtagTellsHint'
  BY <1>2 DEF Load, ReadHint, ListLatest, GetMetadata, FailLoad, Begin, FailAppend, Return
<1>3. ASSUME NEW w \in Writers,
             CheckBase(w) \/ RejectStale(w) \/ PutManifest(w) \/ PutMetadata(w) \/ HintConflict(w)
      PROVE  EtagTellsHint'
  BY <1>3 DEF CheckBase, RejectStale, PutManifest, PutMetadata, HintConflict, Return
<1>4. ASSUME NEW w \in Writers, HeadHint(w) PROVE EtagTellsHint'
  BY <1>4 DEF HeadHint
<1>5. ASSUME NEW w \in Writers, PutHint(w) \/ PutHintUnanswered(w) PROVE EtagTellsHint'
  <2>1. etag' = etag + 1 /\ UNCHANGED seen
    BY <1>5 DEF PutHint, PutHintUnanswered, WriteHint
  <2>2. \A v \in Writers : pc'[v] = pc[v] \/ pc'[v] = "ready"
    BY <1>5 DEF PutHint, PutHintUnanswered, Return
  <2>3. ASSUME NEW v \in Writers, pc[v] \in {"putManifest", "putMetadata", "putHint"}
        PROVE  seen[v].etag <= etag' /\ seen[v].etag # etag'
    <3>1. seen[v].etag \in Nat /\ etag \in Nat /\ seen[v].etag <= etag
      BY <2>3
    <3> QED
      BY <2>1, <3>1
  <2> QED
    BY <2>1, <2>2, <2>3
<1> QED
  BY <1>1, <1>2, <1>3, <1>4, <1>5 DEF Next, Commit, vars, RewriteMetadata

(* Where ids are drawn fresh and nobody rewrites metadata files, a handle   *)
(* stays what is in the store.                                              *)
LEMMA HandleStep ==
    ASSUME ~ReuseIds, MaxRewrites = 0, Typing, IdsApart, \A w \in Writers : HandleKept(w),
           [Next]_vars, NEW v \in Writers
    PROVE  HandleKept(v)'
<1> USE CommitAssumption DEF Typing, TypeOK, store, handle, call, Goto
<1>1. HandleKept(v)
  OBVIOUS
<1>2. ASSUME UNCHANGED <<metadata, path[v], base[v], id[v], next[v]>>,
             pc'[v] = pc[v] \/ (pc'[v] = "ready" /\ pc[v] \in Committing)
      PROVE  HandleKept(v)'
  BY <1>1, <1>2 DEF HandleKept
<1>3. CASE ReadHint(v) \/ ListLatest(v) \/ FailLoad(v)
  <2>1. pc'[v] \notin {"ready"} \cup Committing
    BY <1>3 DEF ReadHint, ListLatest, FailLoad
  <2> QED
    BY <2>1 DEF HandleKept
<1>4. CASE GetMetadata(v)
  BY <1>4 DEF GetMetadata, Loaded, HandleKept
<1>5. CASE Begin(v)
  <2>0. made[v] \in 0 .. MaxAppends /\ made[v] < MaxAppends
    BY <1>5 DEF Begin
  <2>1. base[v] \in Metadata /\ <<v, made[v] + 1>> \in Appends
    <3>1. made[v] + 1 \in 1 .. MaxAppends
      BY <2>0
    <3> QED
      BY <1>5, <3>1 DEF Begin, Loaded
  <2>2. PICK i \in SnapshotIds \ (base[v].known \cup used) :
           /\ id' = [id EXCEPT ![v] = i]
           /\ next' = [next EXCEPT ![v] = NextMetadata(base[v], i, <<v, made[v] + 1>>)]
    BY <1>5 DEF Begin, FreshId
  <2>3. metadata[i] = None
    BY <1>5, <2>2 DEF IdsApart, Begin, Loaded
  <2>4. CurrentFiles(base[v]) \subseteq CurrentFiles(NextMetadata(base[v], i, <<v, made[v] + 1>>))
    BY <2>1, <2>2, NextMetadataType DEF CurrentFiles
  <2>5. /\ pc'[v] = "check" /\ id'[v] = i
        /\ next'[v] = NextMetadata(base[v], i, <<v, made[v] + 1>>)
        /\ UNCHANGED <<metadata, path, base>> /\ pc[v] = "ready"
    BY <1>5, <2>2 DEF Begin
  <2> HIDE DEF Typing
  <2> QED
    BY <1>1, <2>3, <2>4, <2>5 DEF HandleKept
<1>6. CASE CheckBase(v) \/ HeadHint(v) \/ PutManifest(v)
  BY <1>1, <1>6 DEF CheckBase, HeadHint, PutManifest, HandleKept
<1>7. ASSUME NEW w \in Writers, PutMetadata(w) PROVE HandleKept(v)'
  <2>1. /\ metadata[id[w]] = None /\ id[w] \in SnapshotIds /\ pc[w] = "putMetadata"
        /\ metadata' = [metadata EXCEPT ![id[w]] = next[w]]
        /\ pc' = [pc EXCEPT ![w] = "putHint"]
        /\ UNCHANGED <<path, base, id, next>>
    BY <1>7 DEF PutMetadata, HandleKept, UnderWay
  <2>2. pc[v] \in {"ready"} \cup Committing => path[v] # id[w] /\ path[v] \in SnapshotIds
    BY <1>1, <2>1 DEF HandleKept, Loaded
  <2>3. pc[v] \in Committing => id[v] \in SnapshotIds /\ (v # w => id[v] # id[w])
    BY <2>1 DEF IdsApart, UnderWay
  <2>4. CASE v = w
    BY <1>1, <2>1, <2>2, <2>3, <2>4 DEF HandleKept
  <2>5. CASE v # w
    BY <1>1, <2>1, <2>2, <2>3, <2>5 DEF HandleKept
  <2> QED
    BY <2>4, <2>5
<1>8. CASE RewriteMetadata
  BY <1>8 DEF RewriteMetadata
<1>9. CASE RejectStale(v) \/ PutHint(v) \/ PutHintUnanswered(v) \/ HintConflict(v) \/ FailAppend(v)
  BY <1>2, <1>9 DEF RejectStale, PutHint, PutHintUnanswered, WriteHint, HintConflict, FailAppend, Return
<1>10. CASE UNCHANGED vars
  BY <1>2, <1>10 DEF vars
<1>11. ASSUME NEW w \in Writers \ {v}, Load(w) \/ Begin(w) \/ FailAppend(w) PROVE HandleKept(v)'
  BY <1>2, <1>11 DEF Load, ReadHint, ListLatest, GetMetadata, FailLoad, Begin, FailAppend, Return
<1>12. ASSUME NEW w \in Writers \ {v}, Commit(w), ~PutMetadata(w) PROVE HandleKept(v)'
  BY <1>2, <1>12 DEF Commit, CheckBase, RejectStale, HeadHint, PutManifest, PutHint,
     PutHintUnanswered, WriteHint, HintConflict, Return
<1> QED
  BY <1>3, <1>4, <1>5, <1>6, <1>7, <1>8, <1>9, <1>10, <1>11, <1>12 DEF Next, Load, Commit

Owned == Typing /\ IdsApart /\ Kept

(* With fresh snapshot ids and no rewrite a commit owns what it publishes.  *)
LEMMA AlwaysOwned ==
    ASSUME ~ReuseIds, MaxRewrites = 0 PROVE Spec => []Owned
<1>1. Init => Owned
  BY TypingInit, IdsApartInit, KeptInit DEF Owned
<1>2. Owned /\ [Next]_vars => Owned'
  BY TypingStep, IdsApartStep, EtagStep, HandleStep DEF Owned, Kept
<1> QED
  BY <1>1, <1>2, PTL DEF Spec

(* The hint moves in a commit's conditional write, to the commit's id.      *)
LEMMA HintMoves ==
    ASSUME Typing, IdsApart, [Next]_vars, NEW w \in Writers,
           pc[w] = "putHint", hint' # hint, hint' = id[w]
    PROVE  /\ EtagMatches(w) /\ UNCHANGED metadata
           /\ hint' \in SnapshotIds /\ hint' # None
<1>1. PICK v \in Writers : PutHint(v) \/ PutHintUnanswered(v)
  BY DEF Next, Load, Commit, vars, store, ReadHint, ListLatest, GetMetadata, FailLoad, Begin,
     CheckBase, RejectStale, HeadHint, PutManifest, PutMetadata, HintConflict, FailAppend,
     RewriteMetadata
<1>2. hint' = id[v] /\ pc[v] = "putHint" /\ EtagMatches(v) /\ UNCHANGED metadata
  BY <1>1 DEF PutHint, PutHintUnanswered, WriteHint
<1>3. v = w
  BY <1>2 DEF IdsApart
<1>4. id[w] \in SnapshotIds /\ id[w] # None
  BY DEF Typing, TypeOK, UnderWay
<1> QED
  BY <1>2, <1>3, <1>4

(* Where ids are drawn fresh and nobody rewrites metadata files, a commit   *)
(* makes visible exactly what its append was to write.                      *)
THEOREM CommitsPublishTheirOwn ==
    ASSUME ~ReuseIds, MaxRewrites = 0 PROVE Spec => CommitPublishesOwnFiles
<1> DEFINE Step == \A w \in Writers :
              pc[w] = "putHint" /\ hint' # hint /\ hint' = id[w]
              => Visible' = CurrentFiles(next[w])
<1>1. Owned /\ [Next]_vars => Step
  <2> SUFFICES ASSUME Owned, [Next]_vars, NEW w \in Writers,
                      pc[w] = "putHint", hint' # hint, hint' = id[w]
               PROVE  Visible' = CurrentFiles(next[w])
    OBVIOUS
  <2>1. UNCHANGED metadata /\ hint' # None
    BY HintMoves DEF Owned
  <2>2. metadata[id[w]] = next[w]
    BY DEF Owned, Kept, HandleKept
  <2> QED
    BY <2>1, <2>2 DEF Visible
<1> HIDE DEF Step
<1>2. Spec => [][Step]_vars
  BY <1>1, AlwaysOwned, PTL DEF Spec
<1> QED
  BY <1>2 DEF CommitPublishesOwnFiles, Step

(* Under the same conditions a commit that found the hint its handle was    *)
(* loaded from loses nothing a reader could see: the etag is of that hint.  *)
THEOREM FreshCommitsKeepAppends ==
    ASSUME ~ReuseIds, MaxRewrites = 0 PROVE Spec => FreshCommitKeepsAppends
<1> DEFINE Step == \A w \in Writers :
              /\ pc[w] = "putHint" /\ hint' # hint /\ hint' = id[w]
              /\ seen[w].hint = path[w]
              => Visible \subseteq Visible'
<1>1. Owned /\ [Next]_vars => Step
  <2> SUFFICES ASSUME Owned, [Next]_vars, NEW w \in Writers,
                      pc[w] = "putHint", hint' # hint, hint' = id[w], seen[w].hint = path[w]
               PROVE  Visible \subseteq Visible'
    OBVIOUS
  <2>1. EtagMatches(w) /\ UNCHANGED metadata /\ hint' # None
    BY HintMoves DEF Owned
  <2>2. hint = path[w] /\ path[w] # None
    BY <2>1 DEF Owned, Kept, EtagTellsHint, EtagMatches, HandleKept
  <2>3. Visible = CurrentFiles(base[w])
    BY <2>2 DEF Owned, Kept, HandleKept, Visible
  <2>4. Visible' = CurrentFiles(next[w])
    BY <2>1 DEF Owned, Kept, HandleKept, Visible
  <2> QED
    BY <2>3, <2>4 DEF Owned, Kept, HandleKept
<1> HIDE DEF Step
<1>2. Spec => [][Step]_vars
  BY <1>1, AlwaysOwned, PTL DEF Spec
<1> QED
  BY <1>2 DEF FreshCommitKeepsAppends, Step
================================================================================
