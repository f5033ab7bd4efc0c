---------------------------- MODULE RestCommit_proofs ----------------------------
(***************************************************************************)
(* Appends through the REST catalog keep the promise of AppendTable, for   *)
(* any writers, ids, bounds and commits of other engines: a refinement     *)
(* proof, and the server's lineage and files along the way.                *)
(***************************************************************************)
EXTENDS RestCommit, TLAPS

(* MaxSequenceNumber is a natural number whatever the metadata file lists.  *)
LEMMA SequenceNumbersNat ==
    ASSUME NEW m \in Metadata
    PROVE  /\ SequenceNumbers(m) \in SUBSET Nat
           /\ MaxSequenceNumber(m) \in Nat
<1>1. SequenceNumbers(m) \in SUBSET Nat
  BY DEF SequenceNumbers, Metadata, Entries
<1> DEFINE seqs == {0} \cup SequenceNumbers(m)
           IsMax(n) == \A k \in seqs : k <= n
<1>2. seqs \subseteq Nat
  BY <1>1
<1>3. CASE \E n \in seqs : IsMax(n)
  <2>1. MaxSequenceNumber(m) = CHOOSE n \in seqs : IsMax(n)
    BY <1>3 DEF MaxSequenceNumber
  <2>2. (CHOOSE n \in seqs : IsMax(n)) \in seqs
    BY <1>3, Zenon
  <2> QED
    BY <1>1, <1>2, <2>1, <2>2
<1>4. CASE ~ \E n \in seqs : IsMax(n)
  <2>1. MaxSequenceNumber(m) = 0
    BY <1>4 DEF MaxSequenceNumber
  <2> QED
    BY <1>1, <2>1
<1> QED
  BY <1>3, <1>4

(* An append makes a metadata file of a metadata file.                      *)
LEMMA NextMetadataType ==
    ASSUME NEW m \in Metadata, NEW i \in SnapshotIds, NEW a \in Appends
    PROVE  /\ NextMetadata(m, i, a) \in Metadata
           /\ NextMetadata(m, i, a).current = i
           /\ NextMetadata(m, i, a).known = m.known \cup {i}
           /\ NextMetadata(m, i, a).files[i] = CurrentFiles(m) \cup NewEntries(m, a)
           /\ \A j \in SnapshotIds \ {i} :
                 NextMetadata(m, i, a).files[j] = m.files[j]
<1>1. NewEntries(m, a) \subseteq Entries
  BY SequenceNumbersNat, MetadataAssumption DEF NewEntries, Entries
<1>2. CurrentFiles(m) \subseteq Entries
  BY DEF CurrentFiles, Metadata
<1> QED
  BY <1>1, <1>2 DEF NextMetadata, Metadata

Preparing == {"putManifest", "putMetadata", "post"}

Shown == {s.id : s \in snapshots}

Typing ==
    /\ metadata \in [SnapshotIds -> Metadata \cup {None}]
    /\ manifest \in [SnapshotIds -> Appends \cup {None}]
    /\ snapshots \subseteq [id : SnapshotIds, parent : SnapshotIds \cup {None},
                            append : Appends \cup {None}]
    /\ main \in SnapshotIds
    /\ requests \subseteq [append : Appends, id : SnapshotIds,
                           parent : SnapshotIds, expected : SnapshotIds]
    /\ answers \in [Appends -> {"none", "ok", "conflict"}]
    /\ pc \in [Writers -> {"ready", "wait"} \cup Preparing]
    /\ base \in [Writers -> Metadata \cup {None}]
    /\ made \in [Writers -> 0 .. MaxAppends]
    /\ id \in [Writers -> SnapshotIds \cup {None}]
    /\ next \in [Writers -> Metadata \cup {None}]
    /\ outcome \in [Appends -> {"none", "pending", "committed", "conflict", "failed"}]
    /\ used \in SUBSET SnapshotIds
    /\ \A w \in Writers : pc[w] \in Preparing =>
          base[w] # None /\ id[w] # None /\ next[w] # None
    /\ \A w \in Writers : pc[w] # "ready" => made[w] # 0

(* Every id in use has been drawn, and by one append: a snapshot id of the  *)
(* server, of a request on its way or of an append being prepared is none   *)
(* of the others.                                                           *)
OwnIds ==
    /\ Shown \subseteq used
    /\ \A i \in SnapshotIds : metadata[i] # None => i \in used
    /\ \A r \in requests : r.id \in used /\ r.id \notin Shown
    /\ \A r, q \in requests : r.id = q.id => r = q
    /\ \A w \in Writers : pc[w] \in Preparing =>
          /\ id[w] \in used /\ id[w] \notin Shown
          /\ \A r \in requests : r.id # id[w]
          /\ \A v \in Writers \ {w} : pc[v] \in Preparing => id[v] # id[w]

(* What the writers, the requests and the server know of an append.         *)
Unknown(a) ==
    /\ answers[a] = "none" /\ a \notin Committed
    /\ \A r \in requests : r.append # a

Unposted ==
    \A w \in Writers :
        /\ \A n \in made[w] + 1 .. MaxAppends :
              outcome[<<w, n>>] = "none" /\ Unknown(<<w, n>>)
        /\ pc[w] # "ready" => outcome[AppendOf(w)] = "pending"
        /\ pc[w] \in Preparing => Unknown(AppendOf(w))

Posted ==
    \A r \in requests :
        /\ answers[r.append] = "none" /\ outcome[r.append] \in {"pending", "failed"}
        /\ r.append \notin Committed
        /\ \A q \in requests : q.append = r.append => q = r

Told ==
    \A a \in Appends : /\ answers[a] = "ok" => a \in Committed
                       /\ answers[a] = "conflict" => a \notin Committed

Answered == Unposted /\ Posted /\ Told

(* The server's snapshots are a line from Base to main.                     *)
Lineage ==
    /\ main \in Shown
    /\ \A s, t \in snapshots : s.id = t.id => s = t
    /\ \A s \in snapshots : s.parent \in Shown \cup {None}
    /\ \A r \in requests : r.expected = r.parent
    /\ OneLineage

(* The objects of an append are written in order.                           *)
Ordered ==
    /\ \A w \in Writers :
          /\ pc[w] \in {"putMetadata", "post"} => manifest[id[w]] = AppendOf(w)
          /\ pc[w] \in {"putManifest", "putMetadata"} => metadata[id[w]] = None
          /\ pc[w] = "post" => metadata[id[w]] = next[w]
    /\ \A r \in requests : manifest[r.id] = r.append /\ metadata[r.id] # None
    /\ \A s \in snapshots : s.append # None =>
          manifest[s.id] = s.append /\ metadata[s.id] # None

AppendsOf(m) == {e.append : e \in CurrentFiles(m)}

(* A set of appends is what a reader at snapshot c finds: in its metadata   *)
(* file, or on the server while main is there.                              *)
Tells(c, appends) ==
    \/ metadata[c] # None /\ appends = AppendsOf(metadata[c])
    \/ c \in Shown /\ (c = main => appends = Committed)

FilesTell ==
    /\ \A i \in SnapshotIds : metadata[i] # None => metadata[i].current = i
    /\ metadata[main] # None => AppendsOf(metadata[main]) = Committed

WriterTells(w) ==
    /\ base[w] # None => base[w].current \in used /\ Tells(base[w].current, AppendsOf(base[w]))
    /\ pc[w] \in Preparing =>
          /\ next[w].current = id[w]
          /\ AppendsOf(next[w]) = AppendsOf(base[w]) \cup {AppendOf(w)}

RequestTells(r) == \E appends \in SUBSET Appends :
    Tells(r.expected, appends) /\ AppendsOf(metadata[r.id]) = appends \cup {r.append}

Contents ==
    /\ FilesTell
    /\ \A w \in Writers : WriterTells(w)
    /\ \A r \in requests : RequestTells(r)

Safe == Typing /\ OwnIds /\ Answered /\ Lineage /\ Ordered /\ Contents
--------------------------------------------------------------------------------
(* The table starts with no append.                                         *)
LEMMA InitialMetadataType ==
    /\ InitialMetadata \in Metadata
    /\ InitialMetadata # None
    /\ InitialMetadata.current = Base
    /\ AppendsOf(InitialMetadata) = {}
BY MetadataAssumption, RestAssumption DEF InitialMetadata, Metadata, AppendsOf, CurrentFiles

(* The appends a reader of an append's metadata file finds are those of its *)
(* base and itself.                                                         *)
LEMMA NextAppends ==
    ASSUME NEW m \in Metadata, NEW i \in SnapshotIds, NEW a \in Appends
    PROVE  AppendsOf(NextMetadata(m, i, a)) = AppendsOf(m) \cup {a}
<1>1. /\ NextMetadata(m, i, a).current = i
      /\ NextMetadata(m, i, a).files[i] = CurrentFiles(m) \cup NewEntries(m, a)
  BY NextMetadataType
<1>2. \A e \in NewEntries(m, a) : e.append = a
  BY DEF NewEntries
<1>3. \E e \in NewEntries(m, a) : e.append = a
  <2>1. 0 \in 0 .. FilesPerAppend - 1
    BY MetadataAssumption
  <2>2. [append |-> a, index |-> 0, seq |-> MaxSequenceNumber(m) + 1 + 0] \in NewEntries(m, a)
    BY <2>1 DEF NewEntries
  <2> QED
    BY <2>2
<1>4. CurrentFiles(NextMetadata(m, i, a)) = CurrentFiles(m) \cup NewEntries(m, a)
  BY <1>1 DEF CurrentFiles
<1> QED
  BY <1>2, <1>3, <1>4 DEF AppendsOf

(* The appends of a metadata file are appends.                              *)
LEMMA AppendsOfType ==
    ASSUME NEW m \in Metadata
    PROVE  AppendsOf(m) \in SUBSET Appends
BY DEF AppendsOf, CurrentFiles, Metadata, Entries

(* The catalog and the writers start safe.                                  *)
LEMMA SafeInit == Init => Safe
<1> SUFFICES ASSUME Init PROVE Safe
  OBVIOUS
<1> USE MetadataAssumption, RestAssumption, InitialMetadataType DEF Init
<1>1. Shown = {Base} /\ Committed = {}
  BY DEF Shown, Committed
<1>2. Typing
  BY DEF Typing, Preparing
<1>3. OwnIds
  BY <1>1 DEF OwnIds, Preparing
<1>4. Answered
  BY <1>1 DEF Answered, Unposted, Unknown, Posted, Told, Preparing
<1>5. Lineage
  BY <1>1 DEF Lineage, OneLineage
<1>6. Ordered
  BY DEF Ordered, Preparing
<1>7. Contents
  BY <1>1 DEF Contents, FilesTell, WriterTells, Preparing
<1> QED
  BY <1>2, <1>3, <1>4, <1>5, <1>6, <1>7 DEF Safe
--------------------------------------------------------------------------------
(* Every step is typed.                                                     *)
LEMMA TypingStep == Typing /\ [Next]_vars => Typing'
<1> SUFFICES ASSUME Typing, [Next]_vars PROVE Typing'
  OBVIOUS
<1> USE RestAssumption DEF Typing, Preparing, store, server, call, Goto
<1>1. CASE UNCHANGED vars
  BY <1>1 DEF vars
<1>2. ASSUME NEW w \in Writers, LoadRest(w) PROVE Typing'
  <2>1. [current |-> main, known |-> {s.id : s \in snapshots},
         files |-> [i \in SnapshotIds |-> {}]] \in Metadata
    BY DEF Metadata
  <2> QED
    BY <1>2, <2>1 DEF LoadRest
<1>3. ASSUME NEW w \in Writers, LoadPath(w) PROVE Typing'
  BY <1>3 DEF LoadPath
<1>4. ASSUME NEW w \in Writers, Begin(w) PROVE Typing'
  <2>1. base[w] \in Metadata /\ made[w] + 1 \in 1 .. MaxAppends
    BY <1>4 DEF Begin
  <2>2. <<w, made[w] + 1>> \in Appends
    BY <2>1
  <2>3. PICK i \in SnapshotIds :
           /\ id' = [id EXCEPT ![w] = i]
           /\ used' = used \cup {i}
           /\ next' = [next EXCEPT ![w] = NextMetadata(base[w], i, <<w, made[w] + 1>>)]
    BY <1>4 DEF Begin
  <2>4. NextMetadata(base[w], i, <<w, made[w] + 1>>) \in Metadata
    BY <2>1, <2>2, NextMetadataType
  <2> QED
    BY <1>4, <2>1, <2>2, <2>3, <2>4 DEF Begin
<1>5. ASSUME NEW w \in Writers, PutManifest(w) PROVE Typing'
  <2>1. AppendOf(w) \in Appends /\ id[w] \in SnapshotIds
    BY <1>5 DEF PutManifest, AppendOf
  <2> QED
    BY <1>5, <2>1 DEF PutManifest
<1>6. ASSUME NEW w \in Writers, PutMetadata(w) PROVE Typing'
  BY <1>6 DEF PutMetadata
<1>7. ASSUME NEW w \in Writers, Post(w) PROVE Typing'
  <2>1. AppendOf(w) \in Appends /\ id[w] \in SnapshotIds /\ base[w].current \in SnapshotIds
    BY <1>7 DEF Post, AppendOf, Metadata
  <2> QED
    BY <1>7, <2>1 DEF Post
<1>8. ASSUME NEW w \in Writers, NEW result \in {"committed", "conflict", "failed"},
             pc[w] # "ready", Return(w, result)
      PROVE  Typing'
  <2>1. AppendOf(w) \in Appends
    BY <1>8 DEF AppendOf
  <2> QED
    BY <1>8, <2>1 DEF Return
<1>9. ASSUME NEW r \in requests, ServerCommit(r) PROVE Typing'
  BY <1>9 DEF ServerCommit, Answer
<1>10. ASSUME NEW r \in requests, ServerRefuse(r) PROVE Typing'
  BY <1>10 DEF ServerRefuse, Answer
<1>11. CASE EngineCommit
  BY <1>11 DEF EngineCommit
<1> QED
  BY <1>1, <1>2, <1>3, <1>4, <1>5, <1>6, <1>7, <1>8, <1>9, <1>10, <1>11
     DEF Next, WriterStep, ReceiveOk, ReceiveConflict, FailAppend

(* Every step keeps the snapshot ids of the writers apart.                  *)
LEMMA OwnIdsStep == Typing /\ OwnIds /\ Lineage /\ [Next]_vars => OwnIds'
<1> SUFFICES ASSUME Typing, OwnIds, Lineage, [Next]_vars PROVE OwnIds'
  OBVIOUS
<1> USE RestAssumption DEF Typing, OwnIds, Shown, Preparing, store, server, call, Goto
<1>1. CASE UNCHANGED vars
  BY <1>1 DEF vars
<1>2. ASSUME NEW w \in Writers, LoadRest(w) PROVE OwnIds'
  BY <1>2 DEF LoadRest
<1>3. ASSUME NEW w \in Writers, LoadPath(w) PROVE OwnIds'
  BY <1>3 DEF LoadPath
<1>4. ASSUME NEW w \in Writers, Begin(w) PROVE OwnIds'
  BY <1>4 DEF Begin
<1>5. ASSUME NEW w \in Writers, PutManifest(w) PROVE OwnIds'
  BY <1>5 DEF PutManifest
<1>6. ASSUME NEW w \in Writers, PutMetadata(w) PROVE OwnIds'
  BY <1>6 DEF PutMetadata
<1>7. ASSUME NEW w \in Writers, Post(w) PROVE OwnIds'
  BY <1>7 DEF Post
<1>8. ASSUME NEW w \in Writers, NEW result, Return(w, result) PROVE OwnIds'
  BY <1>8 DEF Return
<1>9. ASSUME NEW r \in requests, ServerCommit(r) PROVE OwnIds'
  BY <1>9 DEF ServerCommit
<1>10. ASSUME NEW r \in requests, ServerRefuse(r) PROVE OwnIds'
  BY <1>10 DEF ServerRefuse
<1>11. CASE EngineCommit
  BY <1>11 DEF EngineCommit
<1> QED
  BY <1>1, <1>2, <1>3, <1>4, <1>5, <1>6, <1>7, <1>8, <1>9, <1>10, <1>11
     DEF Next, WriterStep, ReceiveOk, ReceiveConflict, FailAppend

(* Every step keeps the snapshots of the catalog on one line.               *)
LEMMA LineageStep == Typing /\ OwnIds /\ Lineage /\ [Next]_vars => Lineage'
<1> SUFFICES ASSUME Typing, OwnIds, Lineage, [Next]_vars PROVE Lineage'
  OBVIOUS
<1> USE RestAssumption DEF Typing, Lineage, Shown, OneLineage
<1>1. CASE UNCHANGED <<snapshots, main, requests>>
  BY <1>1
<1>2. ASSUME NEW w \in Writers, Post(w) PROVE Lineage'
  BY <1>2 DEF Post, server
(* A snapshot is added on top of main, with an id of its own.               *)
<1>3. ASSUME NEW i \in SnapshotIds \ Shown, NEW a,
             snapshots' = snapshots \cup {[id |-> i, parent |-> main, append |-> a]},
             main' = i, requests' \subseteq requests
      PROVE  Lineage'
  <2> DEFINE new == [id |-> i, parent |-> main, append |-> a]
  <2>1. /\ new.id = i /\ new.parent = main /\ main # i /\ main # None
        /\ \A s \in snapshots : s.id # i /\ s.parent # i
        /\ \A s \in snapshots : s.parent # main
    BY <1>3
  <2>2. snapshots' = snapshots \cup {new}
    BY <1>3
  <2> HIDE DEF new
  <2>3. Shown' = Shown \cup {i} /\ main' \in Shown'
    BY <1>3, <2>1, <2>2
  <2>4. \A s, t \in snapshots' : (s.id = t.id => s = t) /\ (s.parent = t.parent => s = t)
    BY <2>1, <2>2
  <2>5. \A s \in snapshots' : s.parent \in Shown' \cup {None}
    BY <2>1, <2>2, <2>3
  <2>6. \A s \in snapshots' : s.id = Base \/ \E t \in snapshots' : t.id = s.parent
    BY <2>1, <2>2
  <2>7. \A s \in snapshots' : (s.id = main') <=> (\A t \in snapshots' : t.parent # s.id)
    BY <1>3, <2>1, <2>2
  <2> QED
    BY <1>3, <2>3, <2>4, <2>5, <2>6, <2>7
<1>4. ASSUME NEW r \in requests, ServerCommit(r) PROVE Lineage'
  BY <1>3, <1>4 DEF ServerCommit, OwnIds
<1>5. ASSUME NEW r \in requests, ServerRefuse(r) PROVE Lineage'
  BY <1>5 DEF ServerRefuse, server
<1>6. CASE EngineCommit
  <2>1. PICK i \in SnapshotIds \ used :
           snapshots' = snapshots \cup {[id |-> i, parent |-> main, append |-> None]} /\ main' = i
    BY <1>6 DEF EngineCommit
  <2>2. i \notin Shown /\ requests' = requests
    BY <1>6, <2>1 DEF EngineCommit, OwnIds
  <2> QED
    BY <1>3, <2>1, <2>2
<1> QED
  BY <1>1, <1>2, <1>4, <1>5, <1>6
     DEF Next, WriterStep, vars, server, LoadRest, LoadPath, Begin, PutManifest, PutMetadata,
         ReceiveOk, ReceiveConflict, FailAppend, Return

(* What a step of the server makes of the committed appends.                *)
LEMMA CommittedBy ==
    ASSUME Typing
    PROVE  /\ \A r \in requests : ServerCommit(r) => Committed' = Committed \cup {r.append}
           /\ EngineCommit => Committed' = Committed
           /\ UNCHANGED snapshots => Committed' = Committed
<1>1. ASSUME NEW r \in requests, ServerCommit(r)
      PROVE  Committed' = Committed \cup {r.append}
  <2> DEFINE new == [id |-> r.id, parent |-> r.parent, append |-> r.append]
  <2>1. new.append = r.append /\ r.append # None
    BY RestAssumption DEF Typing
  <2>2. snapshots' = snapshots \cup {new}
    BY <1>1 DEF ServerCommit
  <2> HIDE DEF new
  <2> QED
    BY <2>1, <2>2 DEF Committed
<1>2. EngineCommit => Committed' = Committed
  BY DEF EngineCommit, Committed
<1>3. UNCHANGED snapshots => Committed' = Committed
  BY DEF Committed
<1> QED
  BY <1>1, <1>2, <1>3

(* Every step keeps what a writer was told in step with the catalog.        *)
LEMMA AnsweredStep == Typing /\ Answered /\ [Next]_vars => Answered'
<1> SUFFICES ASSUME Typing, Answered, [Next]_vars PROVE Answered'
  OBVIOUS
<1> USE RestAssumption DEF Typing, Answered, Unposted, Unknown, Posted, Told, AppendOf, Preparing, store, server, call, Goto
<1>1. CASE UNCHANGED <<snapshots, requests, answers, pc, made, outcome>>
  BY <1>1, CommittedBy
<1>2. ASSUME NEW w \in Writers, Begin(w) PROVE Answered'
  BY <1>2, CommittedBy DEF Begin
<1>3. ASSUME NEW w \in Writers, PutManifest(w) PROVE Answered'
  BY <1>3, CommittedBy DEF PutManifest
<1>4. ASSUME NEW w \in Writers, PutMetadata(w) PROVE Answered'
  BY <1>4, CommittedBy DEF PutMetadata
<1>5. ASSUME NEW w \in Writers, Post(w) PROVE Answered'
  <2> DEFINE new == [append |-> AppendOf(w), id |-> id[w],
                     parent |-> base[w].current, expected |-> base[w].current]
  <2>1. /\ new.append = AppendOf(w) /\ AppendOf(w) \in Appends
        /\ pc[w] = "post" /\ pc' = [pc EXCEPT ![w] = "wait"]
        /\ UNCHANGED <<answers, made, outcome>> /\ Committed' = Committed
    BY <1>5, CommittedBy DEF Post
  <2>2. requests' = requests \cup {new}
    BY <1>5 DEF Post
  <2> HIDE DEF new
  <2>3. Unposted'
    BY <2>1, <2>2
  <2>4. Unknown(AppendOf(w)) /\ outcome[AppendOf(w)] = "pending"
    BY <2>1
  <2>5. Posted'
    <3>1. ASSUME NEW r \in requests PROVE r.append # AppendOf(w)
      BY <2>4
    <3>2. ASSUME NEW r \in requests'
          PROVE  /\ answers'[r.append] = "none" /\ outcome'[r.append] \in {"pending", "failed"}
                 /\ r.append \notin Committed'
      <4>1. CASE r \in requests
        BY <2>1, <4>1
      <4>2. CASE r = new
        BY <2>1, <2>4, <4>2
      <4> QED
        BY <2>2, <4>1, <4>2
    <3>3. ASSUME NEW r \in requests', NEW q \in requests', q.append = r.append PROVE q = r
      BY <2>1, <2>2, <3>1, <3>3
    <3> QED
      BY <3>2, <3>3
  <2>6. Told'
    BY <2>1
  <2> QED
    BY <2>3, <2>5, <2>6
<1>6. ASSUME NEW w \in Writers, pc[w] = "wait", answers[AppendOf(w)] # "none",
             NEW result \in {"committed", "conflict"}, Return(w, result)
      PROVE  Answered'
  <2>0. AppendOf(w) \in Appends /\ \A r \in requests : r.append # AppendOf(w)
    BY <1>6
  <2>1. /\ outcome' = [outcome EXCEPT ![AppendOf(w)] = result]
        /\ pc' = [pc EXCEPT ![w] = "ready"]
        /\ UNCHANGED <<requests, answers, made>> /\ Committed' = Committed
    BY <1>6, CommittedBy DEF Return
  <2>2. Unposted'
    BY <2>0, <2>1
  <2>3. Posted' /\ Told'
    BY <2>0, <2>1
  <2> QED
    BY <2>2, <2>3
<1>7. ASSUME NEW w \in Writers, FailAppend(w) PROVE Answered'
  BY <1>7, CommittedBy DEF FailAppend, Return
<1>8. ASSUME NEW r \in requests, ServerCommit(r) PROVE Answered'
  <2>1. /\ r.append \in Appends /\ requests' = requests \ {r}
        /\ answers' = [answers EXCEPT ![r.append] = "ok"]
        /\ Committed' = Committed \cup {r.append}
        /\ UNCHANGED <<pc, made, outcome>>
    BY <1>8, CommittedBy DEF ServerCommit, Answer
  <2>2. Unposted'
    BY <2>1
  <2>3. Posted'
    BY <2>1
  <2>4. Told'
    BY <2>1
  <2> QED
    BY <2>2, <2>3, <2>4
<1>9. ASSUME NEW r \in requests, ServerRefuse(r) PROVE Answered'
  BY <1>9, CommittedBy DEF ServerRefuse, Answer
<1>10. CASE EngineCommit
  BY <1>10, CommittedBy DEF EngineCommit
<1> QED
  BY <1>1, <1>2, <1>3, <1>4, <1>5, <1>6, <1>7, <1>8, <1>9, <1>10
     DEF Next, WriterStep, vars, LoadRest, LoadPath, ReceiveOk, ReceiveConflict

(* Every step writes a manifest before the snapshot that names it.          *)
LEMMA OrderedStep == Typing /\ OwnIds /\ Ordered /\ [Next]_vars => Ordered'
<1> SUFFICES ASSUME Typing, OwnIds, Ordered, [Next]_vars PROVE Ordered'
  OBVIOUS
<1> USE RestAssumption DEF Typing, OwnIds, Ordered, Shown, AppendOf, Preparing, store, server, call, Goto
<1>1. CASE UNCHANGED <<metadata, manifest, snapshots, requests, pc, made, id, next>>
  BY <1>1
<1>2. ASSUME NEW w \in Writers, Begin(w) PROVE Ordered'
  BY <1>2 DEF Begin
<1>3. ASSUME NEW w \in Writers, PutManifest(w) PROVE Ordered'
  BY <1>3 DEF PutManifest
<1>4. ASSUME NEW w \in Writers, PutMetadata(w) PROVE Ordered'
  BY <1>4 DEF PutMetadata
<1>5. ASSUME NEW w \in Writers, Post(w) PROVE Ordered'
  <2> DEFINE new == [append |-> AppendOf(w), id |-> id[w],
                     parent |-> base[w].current, expected |-> base[w].current]
  <2>1. /\ new.id = id[w] /\ new.append = AppendOf(w)
        /\ manifest[id[w]] = AppendOf(w) /\ metadata[id[w]] # None
    BY <1>5 DEF Post
  <2>2. requests' = requests \cup {new}
    BY <1>5 DEF Post
  <2> HIDE DEF new
  <2>3. \A r \in requests' : manifest[r.id] = r.append /\ metadata[r.id] # None
    BY <2>1, <2>2
  <2> QED
    BY <1>5, <2>3 DEF Post
<1>6. ASSUME NEW w \in Writers, NEW result, Return(w, result) PROVE Ordered'
  BY <1>6 DEF Return
<1>7. ASSUME NEW r \in requests, ServerCommit(r) PROVE Ordered'
  BY <1>7 DEF ServerCommit
<1>8. ASSUME NEW r \in requests, ServerRefuse(r) PROVE Ordered'
  BY <1>8 DEF ServerRefuse
<1>9. CASE EngineCommit
  BY <1>9 DEF EngineCommit
<1> QED
  BY <1>1, <1>2, <1>3, <1>4, <1>5, <1>6, <1>7, <1>8, <1>9
     DEF Next, WriterStep, vars, LoadRest, LoadPath, ReceiveOk, ReceiveConflict, FailAppend

(* What a reader at a snapshot finds stays so: metadata files are written   *)
(* once, to ids the server does not show, and main never comes back.        *)
LEMMA TellsKept ==
    ASSUME Typing, OwnIds, Lineage, Ordered, [Next]_vars,
           NEW c, NEW appends, Tells(c, appends)
    PROVE  Tells(c, appends)'
<1> USE RestAssumption DEF Typing, OwnIds, Tells, Shown, Preparing, store, server, call, Goto
<1>1. CASE UNCHANGED <<metadata, snapshots, main>>
  BY <1>1, CommittedBy
<1>2. ASSUME NEW w \in Writers, PutMetadata(w) PROVE Tells(c, appends)'
  <2>1. metadata[id[w]] = None /\ id[w] \notin Shown /\ c # id[w]
    BY <1>2 DEF PutMetadata, Ordered
  <2> QED
    BY <1>2, <2>1, CommittedBy DEF PutMetadata
<1>3. ASSUME NEW r \in requests, ServerCommit(r) PROVE Tells(c, appends)'
  <2>1. main' \notin Shown /\ Shown \subseteq Shown' /\ UNCHANGED metadata
    BY <1>3 DEF ServerCommit
  <2> QED
    BY <2>1
<1>4. CASE EngineCommit
  <2>1. main' \notin Shown /\ Shown \subseteq Shown' /\ UNCHANGED metadata
    BY <1>4 DEF EngineCommit
  <2> QED
    BY <2>1
<1> QED
  BY <1>1, <1>2, <1>3, <1>4
     DEF Next, WriterStep, vars, LoadRest, LoadPath, Begin, PutManifest, Post,
         ReceiveOk, ReceiveConflict, FailAppend, Return, ServerRefuse

(* A metadata file is current at its own id, and the one of main lists the  *)
(* committed appends.                                                       *)
LEMMA FilesStep ==
    ASSUME Typing, OwnIds, Lineage, Ordered, Contents, [Next]_vars
    PROVE  FilesTell'
<1> USE RestAssumption DEF Typing, OwnIds, FilesTell, Contents, Shown, Preparing, store, server, call, Goto
<1>1. CASE UNCHANGED <<metadata, snapshots, main>>
  BY <1>1, CommittedBy
<1>2. ASSUME NEW w \in Writers, PutMetadata(w) PROVE FilesTell'
  <2>1. id[w] # main
    BY <1>2 DEF PutMetadata, Lineage
  <2> QED
    BY <1>2, <2>1, CommittedBy DEF PutMetadata, WriterTells
<1>3. ASSUME NEW r \in requests, ServerCommit(r) PROVE FilesTell'
  <2>1. AppendsOf(metadata[r.id]) = Committed \cup {r.append}
    BY <1>3 DEF ServerCommit, RequestTells, Tells
  <2>2. main' = r.id /\ UNCHANGED metadata /\ Committed' = Committed \cup {r.append}
    BY <1>3, CommittedBy DEF ServerCommit
  <2> QED
    BY <2>1, <2>2
<1>4. CASE EngineCommit
  <2>1. metadata[main'] = None /\ UNCHANGED metadata
    BY <1>4 DEF EngineCommit
  <2> QED
    BY <2>1
<1> QED
  BY <1>1, <1>2, <1>3, <1>4
     DEF Next, WriterStep, vars, LoadRest, LoadPath, Begin, PutManifest, Post,
         ReceiveOk, ReceiveConflict, FailAppend, Return, ServerRefuse

(* A handle holds what a reader at its snapshot finds, and the metadata an  *)
(* append is to write is that of its handle and the append's own files.     *)
LEMMA WritersStep ==
    ASSUME Typing, OwnIds, Lineage, Ordered, Contents, [Next]_vars,
           NEW v \in Writers
    PROVE  WriterTells(v)'
<1> USE RestAssumption DEF Typing, Preparing, store, server, call, Goto
<1>1. WriterTells(v) /\ used \subseteq used'
  BY DEF Contents, Next, WriterStep, vars, LoadRest, LoadPath, Begin, PutManifest, PutMetadata, Post,
         ReceiveOk, ReceiveConflict, FailAppend, Return, ServerCommit, ServerRefuse, EngineCommit
<1>2. \A c, appends : Tells(c, appends) => Tells(c, appends)'
  BY TellsKept
<1>3. ASSUME UNCHANGED <<base[v], id[v], next[v], made[v]>>, pc'[v] \in Preparing => pc[v] \in Preparing
      PROVE  WriterTells(v)'
  BY <1>1, <1>2, <1>3 DEF WriterTells, AppendOf
<1>4. CASE LoadRest(v)
  <2> DEFINE loaded == [current |-> main, known |-> {s.id : s \in snapshots},
                        files |-> [i \in SnapshotIds |-> {}]]
  <2>1. loaded.current = main /\ AppendsOf(loaded) = {}
    BY DEF AppendsOf, CurrentFiles
  <2>2. Committed = {} /\ main \in Shown /\ main \in used
    BY <1>4 DEF LoadRest, Hydratable, Committed, Lineage, OwnIds
  <2>3. base'[v] = loaded /\ pc'[v] = "ready"
    BY <1>4 DEF LoadRest
  <2> HIDE DEF loaded
  <2>4. Tells(main, AppendsOf(loaded))
    BY <2>1, <2>2 DEF Tells
  <2> QED
    BY <1>1, <1>2, <2>1, <2>2, <2>3, <2>4 DEF WriterTells
<1>5. CASE LoadPath(v)
  <2>1. PICK i \in SnapshotIds : metadata[i] # None /\ base' = [base EXCEPT ![v] = metadata[i]]
    BY <1>5 DEF LoadPath
  <2>2. base'[v] = metadata[i] /\ pc'[v] = "ready"
    BY <1>5, <2>1 DEF LoadPath
  <2>3. metadata[i].current = i /\ i \in used
    BY <2>1 DEF Contents, FilesTell, OwnIds
  <2>4. Tells(i, AppendsOf(metadata[i]))
    BY <2>1 DEF Tells
  <2> QED
    BY <1>1, <1>2, <2>2, <2>3, <2>4 DEF WriterTells
<1>6. CASE Begin(v)
  <2>1. PICK i \in SnapshotIds :
           /\ id' = [id EXCEPT ![v] = i]
           /\ next' = [next EXCEPT ![v] = NextMetadata(base[v], i, <<v, made[v] + 1>>)]
    BY <1>6 DEF Begin
  <2>2. base[v] \in Metadata /\ <<v, made[v] + 1>> \in Appends /\ AppendOf(v)' = <<v, made[v] + 1>>
    BY <1>6 DEF Begin, AppendOf
  <2>3. \A m \in Metadata, a \in Appends :
           /\ NextMetadata(m, i, a).current = i
           /\ AppendsOf(NextMetadata(m, i, a)) = AppendsOf(m) \cup {a}
    BY NextMetadataType, NextAppends
  <2>4. base' = base /\ id'[v] = i /\ next'[v] = NextMetadata(base[v], i, <<v, made[v] + 1>>)
    BY <1>6, <2>1 DEF Begin
  <2> QED
    BY <1>1, <1>2, <2>2, <2>3, <2>4 DEF WriterTells
<1>7. ASSUME NEW w \in Writers, w # v, WriterStep(w) PROVE WriterTells(v)'
  BY <1>3, <1>7 DEF WriterStep, LoadRest, LoadPath, Begin, PutManifest, PutMetadata, Post,
        ReceiveOk, ReceiveConflict, FailAppend, Return
<1>8. CASE PutManifest(v) \/ PutMetadata(v) \/ Post(v) \/ ReceiveOk(v) \/ ReceiveConflict(v) \/ FailAppend(v)
  BY <1>3, <1>8 DEF PutManifest, PutMetadata, Post, ReceiveOk, ReceiveConflict, FailAppend, Return
<1>9. CASE UNCHANGED vars \/ EngineCommit \/ \E r \in requests : ServerCommit(r) \/ ServerRefuse(r)
  BY <1>3, <1>9 DEF vars, EngineCommit, ServerCommit, ServerRefuse
<1> QED
  BY <1>4, <1>5, <1>6, <1>7, <1>8, <1>9 DEF Next, WriterStep

(* The metadata file of a posted commit lists its append and what a reader  *)
(* at the snapshot it requires finds.                                       *)
LEMMA RequestsStep ==
    ASSUME Typing, OwnIds, Lineage, Ordered, Contents, [Next]_vars,
           NEW r \in requests'
    PROVE  RequestTells(r)'
<1> USE RestAssumption DEF Typing, Preparing, store, server, call, Goto
<1>1. \A c, appends : Tells(c, appends) => Tells(c, appends)'
  BY TellsKept
<1>2. ASSUME r \in requests, UNCHANGED metadata[r.id] PROVE RequestTells(r)'
  BY <1>1, <1>2 DEF Contents, RequestTells
<1>3. ASSUME NEW w \in Writers, PutMetadata(w) PROVE RequestTells(r)'
  <2>1. r \in requests /\ r.id # id[w]
    BY <1>3 DEF PutMetadata, OwnIds
  <2> QED
    BY <1>2, <1>3, <2>1 DEF PutMetadata
<1>4. ASSUME NEW w \in Writers, Post(w) PROVE RequestTells(r)'
  <2> DEFINE new == [append |-> AppendOf(w), id |-> id[w],
                     parent |-> base[w].current, expected |-> base[w].current]
  <2>1. new.append = AppendOf(w) /\ new.id = id[w] /\ new.expected = base[w].current
    OBVIOUS
  <2>2. requests' = requests \cup {new} /\ UNCHANGED metadata
    BY <1>4 DEF Post
  <2> HIDE DEF new
  <2>3. /\ AppendsOf(base[w]) \in SUBSET Appends
        /\ Tells(base[w].current, AppendsOf(base[w]))
        /\ metadata[id[w]] = next[w]
        /\ AppendsOf(next[w]) = AppendsOf(base[w]) \cup {AppendOf(w)}
    BY <1>4, AppendsOfType DEF Post, Contents, WriterTells, Ordered
  <2>4. CASE r = new
    BY <1>1, <2>1, <2>2, <2>3, <2>4 DEF RequestTells
  <2> QED
    BY <1>2, <2>2, <2>4
<1>5. CASE UNCHANGED metadata /\ requests' \subseteq requests
  BY <1>2, <1>5
<1> QED
  BY <1>3, <1>4, <1>5
     DEF Next, WriterStep, vars, LoadRest, LoadPath, Begin, PutManifest,
         ReceiveOk, ReceiveConflict, FailAppend, Return, ServerCommit, ServerRefuse, EngineCommit

(* Every step keeps the invariant.                                          *)
LEMMA SafeStep == Safe /\ [Next]_vars => Safe'
<1> SUFFICES ASSUME Safe, [Next]_vars PROVE Safe'
  OBVIOUS
<1>1. Typing' /\ OwnIds' /\ Answered' /\ Lineage' /\ Ordered'
  BY TypingStep, OwnIdsStep, AnsweredStep, LineageStep, OrderedStep DEF Safe
<1>2. FilesTell' /\ \A w \in Writers : WriterTells(w)'
  BY FilesStep, WritersStep DEF Safe
<1>3. \A r \in requests' : RequestTells(r)'
  BY RequestsStep DEF Safe
<1> QED
  BY <1>1, <1>2, <1>3 DEF Safe, Contents

(* The invariant holds throughout.                                          *)
LEMMA AlwaysSafe == Spec => []Safe
<1> QED
  BY SafeInit, SafeStep, PTL DEF Spec
--------------------------------------------------------------------------------
(* The server's snapshots form one line that ends at main: the requirement  *)
(* of restAppendSnapshot lets no append fork the table.                     *)
THEOREM SnapshotsAreOneLine == Spec => []OneLineage
<1>1. Safe => OneLineage
  BY DEF Safe, Lineage
<1> QED
  BY <1>1, AlwaysSafe, PTL

(* A snapshot the server shows has the manifest of the append that added    *)
(* it: manifests are put before the commit is posted and never again.       *)
THEOREM ManifestsPrecedeSnapshots == Spec => []ManifestBeforeSnapshot
<1>1. Safe => ManifestBeforeSnapshot
  BY DEF Safe, Ordered, ManifestBeforeSnapshot
<1> QED
  BY <1>1, AlwaysSafe, PTL

(* The metadata file an append reports lists exactly the committed appends  *)
(* while main is at that append's snapshot.                                 *)
THEOREM ReportsAreComplete == Spec => []ReportedMetadataComplete
<1>1. Safe => ReportedMetadataComplete
  BY DEF Safe, Ordered, Contents, FilesTell, AppendsOf, ReportedMetadataComplete
<1> QED
  BY <1>1, AlwaysSafe, PTL

(* Appends through the REST catalog implement AppendTable: a call starts in *)
(* Begin, takes effect when the server commits its request, if ever, and    *)
(* every other step but the call's return changes nothing of the promise.   *)
THEOREM RestImplementsAppendTable == Spec => IsAppendTable
<1>1. Init => Table!Init
  BY DEF Init, Committed, Table!Init
<1>2. Safe /\ [Next]_vars => [Table!Next]_(Table!vars)
  <2> SUFFICES ASSUME Safe, [Next]_vars PROVE [Table!Next]_(Table!vars)
    OBVIOUS
  <2> USE RestAssumption DEF Safe, Typing, AppendOf, Preparing, Goto
  <2>1. CASE UNCHANGED <<snapshots, outcome>>
    BY <2>1, CommittedBy DEF Table!vars
  <2>2. ASSUME NEW w \in Writers, Begin(w) PROVE Table!Next
    <3>1. <<w, made[w] + 1>> \in Appends /\ outcome[<<w, made[w] + 1>>] = "none"
      <4>1. made[w] \in 0 .. MaxAppends /\ made[w] < MaxAppends
        BY <2>2 DEF Begin
      <4>2. made[w] + 1 \in made[w] + 1 .. MaxAppends /\ made[w] + 1 \in 1 .. MaxAppends
        BY <4>1
      <4> QED
        BY <4>2 DEF Answered, Unposted
    <3>2. Committed' = Committed
      BY <2>2, CommittedBy DEF Begin, server
    <3>3. Table!Start(<<w, made[w] + 1>>)
      BY <2>2, <3>1, <3>2 DEF Begin, Table!Start
    <3> QED
      BY <3>1, <3>3 DEF Table!Next
  <2>3. ASSUME NEW w \in Writers, ReceiveOk(w) \/ ReceiveConflict(w) \/ FailAppend(w)
        PROVE  Table!Next
    <3>1. AppendOf(w) \in Appends /\ outcome[AppendOf(w)] = "pending"
      BY <2>3 DEF ReceiveOk, ReceiveConflict, FailAppend, Answered, Unposted
    <3>2. Committed' = Committed
      BY <2>3, CommittedBy DEF ReceiveOk, ReceiveConflict, FailAppend, Return, server
    <3>3. Table!Answer(AppendOf(w))
      <4>1. CASE ReceiveOk(w)
        BY <3>1, <3>2, <4>1 DEF ReceiveOk, Return, Answered, Told, Table!Answer
      <4>2. CASE ReceiveConflict(w)
        BY <3>1, <3>2, <4>2 DEF ReceiveConflict, Return, Answered, Told, Table!Answer
      <4>3. CASE FailAppend(w)
        BY <3>1, <3>2, <4>3 DEF FailAppend, Return, Table!Answer
      <4> QED
        BY <2>3, <4>1, <4>2, <4>3
    <3> QED
      BY <3>1, <3>3 DEF Table!Next
  <2>4. ASSUME NEW r \in requests, ServerCommit(r) PROVE Table!Next
    <3>1. /\ r.append \in Appends /\ r.append \notin Committed
          /\ outcome[r.append] \in {"pending", "failed"}
      BY DEF Answered, Posted
    <3>2. Committed' = Committed \cup {r.append} /\ outcome' = outcome
      BY <2>4, CommittedBy DEF ServerCommit
    <3>3. Table!TakeEffect(r.append)
      BY <3>1, <3>2 DEF Table!TakeEffect
    <3> QED
      BY <3>1, <3>3 DEF Table!Next
  <2>5. CASE EngineCommit
    BY <2>5, CommittedBy DEF EngineCommit, Table!vars
  <2> QED
    BY <2>1, <2>2, <2>3, <2>4, <2>5
       DEF Next, WriterStep, vars, server, LoadRest, LoadPath, PutManifest, PutMetadata, Post, ServerRefuse
<1> QED
  BY <1>1, <1>2, AlwaysSafe, PTL DEF Spec, IsAppendTable, Table!Spec
================================================================================
