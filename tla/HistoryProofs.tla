--------------------------- MODULE HistoryProofs ---------------------------
(***************************************************************************)
(* The store is immutable and the index never offers a bundle that cannot  *)
(* be loaded, for any number of concurrent imports and syncs.              *)
(***************************************************************************)
EXTENDS History, TLAPS

\* An importer is no syncer and None is no content.
LEMMA Distinct ==
  /\ \A p \in Importers : p \in Procs /\ p \notin Syncers
  /\ \A s \in Syncers : s \in Procs /\ s \notin Importers
  /\ \A c \in Contents : c # None /\ c \in Content
  /\ \A c \in Contents : c # Damaged
  /\ None \in Content /\ Damaged \in Content /\ None # Damaged
  /\ \A source \in Sources : source.id \in Ids /\ source.content \in Contents
BY ContentsAssumption, SourcesAssumption, ProcessesAssumption DEF Procs, Content

\* The invariant holds at the start: nothing is stored, indexed or under way.
LEMMA InitIInv == Init => IInv
<1> SUFFICES ASSUME Init PROVE IInv
  OBVIOUS
<1>1. TypeOK
  <2>1. bundle \in [Importers -> Sources]
    BY DEF Init
  <2>2. index \in [Ids -> [status : {"none", "available", "missing"}, digest : Content]]
    BY Distinct DEF Init
  <2>3. found \in [Syncers -> [Ids -> Content]]
    BY Distinct DEF Init, NothingFound
  <2>4. store \in [Ids -> Content]
    BY Distinct DEF Init
  <2>5. QED
    BY <2>1, <2>2, <2>3, <2>4 DEF Init, TypeOK, Idle
<1>2. RowsMatchStore
  BY IdsAssumption DEF Init, RowsMatchStore
<1>3. WritersAreCurrent
  BY Distinct DEF Init, NothingFound, WritersAreCurrent
<1> QED
  BY <1>1, <1>2, <1>3 DEF IInv

\* A step of an importer preserves the types.
LEMMA ImportTypeOK ==
  ASSUME TypeOK, NEW p \in Importers, Import(p)
  PROVE  TypeOK'
<1>1. p \in Procs
  BY Distinct
<1>2. CASE Load(p)
  BY <1>1, <1>2 DEF Load, TypeOK, Goto, Idle
<1>3. CASE Compare(p)
  BY <1>1, <1>3 DEF Compare, TypeOK, Goto, Idle
<1>4. CASE BeginCopy(p)
  BY <1>1, <1>4 DEF BeginCopy, TypeOK, Goto, Idle
<1>5. CASE EndCopy(p)
  BY <1>1, <1>5 DEF EndCopy, TypeOK, Goto, Idle
<1>6. CASE Promote(p)
  <2>1. bundle[p].id \in Ids /\ bundle[p].content \in Content
    BY Distinct DEF TypeOK
  <2>2. store' \in [Ids -> Content]
    BY <1>6, <2>1 DEF Promote, TypeOK
  <2>3. QED
    BY <1>1, <1>6, <2>2 DEF Promote, TypeOK, Goto, Idle
<1>7. CASE Upsert(p)
  <2>1. bundle[p].id \in Ids /\ bundle[p].content \in Content
    BY Distinct DEF TypeOK
  <2>2. Row(bundle[p].content) \in [status : {"none", "available", "missing"}, digest : Content]
    BY <2>1 DEF Row
  <2>3. index' \in [Ids -> [status : {"none", "available", "missing"}, digest : Content]]
    BY <1>7, <2>2 DEF Upsert, Put, TypeOK
  <2>4. QED
    BY <1>1, <1>7, <2>3 DEF Upsert, TypeOK, Goto, Idle
<1> QED
  BY <1>2, <1>3, <1>4, <1>5, <1>6, <1>7 DEF Import

\* A sync that has found nothing yet has a well-formed finding.
LEMMA NothingTyped == NothingFound \in [Ids -> Content]
BY Distinct DEF NothingFound

\* What a sync that returns or raises leaves behind.
LEMMA LeaveEffect ==
  ASSUME TypeOK, NEW s \in Syncers, NEW to, Leave(s, to)
  PROVE  /\ pc'[s] = to /\ \A q \in Procs : q # s => pc'[q] = pc[q]
         /\ todo'[s] = {} /\ \A r \in Syncers : r # s => todo'[r] = todo[r]
         /\ found'[s] = NothingFound /\ \A r \in Syncers : r # s => found'[r] = found[r]
         /\ todo' \in [Syncers -> SUBSET Ids]
         /\ found' \in [Syncers -> [Ids -> Content]]
         /\ pc' = [pc EXCEPT ![s] = to]
<1>1. s \in Procs
  BY Distinct
<1> QED
  BY <1>1, NothingTyped DEF Leave, Goto, TypeOK

\* A step of a syncer preserves the types.
LEMMA SyncTypeOK ==
  ASSUME TypeOK, NEW s \in Syncers, Sync(s)
  PROVE  TypeOK'
<1>1. s \in Procs
  BY Distinct
<1>2. CASE List(s)
  BY <1>1, <1>2, NothingTyped DEF List, TypeOK, Goto, Idle, Stored
<1>3. CASE Scan(s)
  <2>1. PICK i \in Ids :
          /\ todo' = [todo EXCEPT ![s] = @ \ {i}] \/ todo' = [todo EXCEPT ![s] = {}]
          /\ \/ found' = [found EXCEPT ![s] = [@ EXCEPT ![i] = store[i]]]
             \/ found' = found
             \/ found' = [found EXCEPT ![s] = NothingFound]
          /\ pc' = pc \/ Goto(s, "refused")
    BY <1>3 DEF Scan, Consume, Leave
  <2>2. todo' \in [Syncers -> SUBSET Ids]
    BY <2>1 DEF TypeOK
  <2>3. found' \in [Syncers -> [Ids -> Content]]
    <3>1. found[s] \in [Ids -> Content] /\ store[i] \in Content
      BY DEF TypeOK
    <3>2. [found[s] EXCEPT ![i] = store[i]] \in [Ids -> Content]
      BY <3>1
    <3>3. QED
      BY <2>1, <3>2, NothingTyped DEF TypeOK
  <2>4. QED
    BY <1>1, <1>3, <2>1, <2>2, <2>3 DEF Scan, TypeOK, Goto, Idle
<1>4. CASE EndScan(s)
  BY <1>1, <1>4 DEF EndScan, TypeOK, Goto, Idle, Discovered
<1>5. CASE IndexOne(s)
  <2>1. \A i \in Ids : found[s][i] \in Content
    BY DEF TypeOK
  <2>2. QED
    <3>1. index' \in [Ids -> [status : {"none", "available", "missing"}, digest : Content]]
      <4>1. \A i \in Ids : Row(found[s][i]) \in [status : {"none", "available", "missing"},
                                                digest : Content]
        BY <2>1 DEF Row
      <4>2. index' = index \/ \E i \in Ids : index' = [index EXCEPT ![i] = Row(found[s][i])]
        BY <1>5 DEF IndexOne, Put
      <4>3. CASE index' = index
        BY <4>3 DEF TypeOK
      <4>4. CASE \E i \in Ids : index' = [index EXCEPT ![i] = Row(found[s][i])]
        <5>1. PICK i \in Ids : index' = [index EXCEPT ![i] = Row(found[s][i])]
          BY <4>4
        <5> QED
          BY <4>1, <5>1 DEF TypeOK
      <4>5. QED
        BY <4>2, <4>3, <4>4
    <3>2. todo' \in [Syncers -> SUBSET Ids]
      BY <1>5 DEF IndexOne, Consume, Leave, TypeOK
    <3>3. pc' = pc \/ Goto(s, "failed")
      BY <1>5 DEF IndexOne, Leave
    <3>4. found' \in [Syncers -> [Ids -> Content]]
      BY <1>5, NothingTyped DEF IndexOne, Leave, TypeOK
    <3>5. QED
      BY <1>1, <1>5, <3>1, <3>2, <3>3, <3>4 DEF IndexOne, TypeOK, Goto, Idle
<1>6. CASE SelectMissing(s)
  <2>1. CASE Leave(s, "failed")
    <3>1. pc' \in [Procs -> Idle \cup {"compare", "copy", "copying", "promote", "upsert",
                                      "scan", "index", "mark"}]
      BY <1>1, <2>1, LeaveEffect DEF TypeOK, Idle
    <3> QED
      BY <1>6, <2>1, <3>1, LeaveEffect DEF SelectMissing, TypeOK
  <2>2. CASE ~Leave(s, "failed")
    <3>1. found' \in [Syncers -> [Ids -> Content]]
      BY <1>6, <2>2, NothingTyped DEF SelectMissing, TypeOK
    <3>2. todo' \in [Syncers -> SUBSET Ids]
      BY <1>6, <2>2 DEF SelectMissing, TypeOK, Rows
    <3>3. pc' \in [Procs -> Idle \cup {"compare", "copy", "copying", "promote", "upsert",
                                      "scan", "index", "mark"}]
      BY <1>1, <1>6, <2>2 DEF SelectMissing, Goto, TypeOK, Idle
    <3> QED
      BY <1>6, <3>1, <3>2, <3>3 DEF SelectMissing, TypeOK
  <2> QED
    BY <2>1, <2>2
<1>7. CASE MarkMissing(s)
  <2>1. Mark(todo[s], "missing")
          \in [Ids -> [status : {"none", "available", "missing"}, digest : Content]]
    BY DEF Mark, TypeOK
  <2>2. PICK to \in {"done", "failed"} : Leave(s, to)
    BY <1>7 DEF MarkMissing
  <2>3. index' \in [Ids -> [status : {"none", "available", "missing"}, digest : Content]]
    BY <1>7, <2>1 DEF MarkMissing, TypeOK
  <2>4. pc' \in [Procs -> Idle \cup {"compare", "copy", "copying", "promote", "upsert",
                                    "scan", "index", "mark"}]
    BY <1>1, <2>2, LeaveEffect DEF TypeOK, Idle
  <2> QED
    BY <1>7, <2>2, <2>3, <2>4, LeaveEffect DEF MarkMissing, TypeOK
<1> QED
  BY <1>2, <1>3, <1>4, <1>5, <1>6, <1>7 DEF Sync

\* Every step preserves the types.
LEMMA NextTypeOK == TypeOK /\ [Next]_vars => TypeOK'
<1> SUFFICES ASSUME TypeOK, [Next]_vars PROVE TypeOK'
  OBVIOUS
<1>1. CASE \E p \in Importers : Import(p)
  BY <1>1, ImportTypeOK
<1>2. CASE \E s \in Syncers : Sync(s)
  BY <1>2, SyncTypeOK
<1>3. CASE \E p \in Procs : Crash(p)
  <2>1. PICK p \in Procs : Crash(p)
    BY <1>3
  <2>2. CASE p \in Importers
    BY <2>1, <2>2 DEF Crash, Goto, TypeOK, Idle
  <2>3. CASE p \notin Importers
    <3>1. p \in Syncers /\ Leave(p, "idle")
      BY <2>1, <2>3 DEF Crash, Procs
    <3>2. pc' \in [Procs -> Idle \cup {"compare", "copy", "copying", "promote", "upsert",
                                      "scan", "index", "mark"}]
      BY <3>1, LeaveEffect DEF TypeOK, Idle
    <3> QED
      BY <2>1, <2>3, <3>1, <3>2, LeaveEffect DEF Crash, TypeOK
  <2> QED
    BY <2>2, <2>3
<1>4. CASE \E i \in Deletable : Delete(i)
  <2>1. PICK i \in Ids : \E left \in {None, Damaged} : store' = [store EXCEPT ![i] = left]
    BY <1>4, IdsAssumption DEF Delete
  <2>2. store' \in [Ids -> Content]
    BY <2>1, Distinct DEF TypeOK
  <2>3. QED
    BY <1>4, <2>2 DEF Delete, TypeOK
<1>5. CASE UNCHANGED vars
  BY <1>5 DEF vars, TypeOK
<1> QED
  BY <1>1, <1>2, <1>3, <1>4, <1>5 DEF Next

-----------------------------------------------------------------------------
(* What a step does to the store, to the writers and to the index.           *)

\* No step changes the content of a stored bundle that nobody may remove.
LEMMA StoreStep ==
  ASSUME TypeOK, [Next]_vars, NEW i \in Ids \ Deletable, store[i] # None
  PROVE  store'[i] = store[i]
<1>1. CASE \E p \in Importers : Import(p)
  <2>1. PICK p \in Importers : Import(p)
    BY <1>1
  <2>2. CASE Promote(p)
    BY <2>2 DEF Promote, TypeOK
  <2>3. CASE ~Promote(p)
    BY <2>1, <2>3 DEF Import, Load, Compare, BeginCopy, EndCopy, Upsert
  <2> QED
    BY <2>2, <2>3
<1>2. CASE \E s \in Syncers : Sync(s)
  BY <1>2 DEF Sync, List, Scan, EndScan, IndexOne, SelectMissing, MarkMissing
<1>3. CASE \E p \in Procs : Crash(p)
  BY <1>3 DEF Crash
<1>4. CASE \E j \in Deletable : Delete(j)
  BY <1>4, IdsAssumption DEF Delete, TypeOK
<1>5. CASE UNCHANGED vars
  BY <1>5 DEF vars
<1> QED
  BY <1>1, <1>2, <1>3, <1>4, <1>5 DEF Next

\* A syncer changes nothing of another process and nothing in the store.
LEMMA SyncFrame ==
  ASSUME TypeOK, NEW s \in Syncers, Sync(s)
  PROVE  /\ UNCHANGED <<store, bundle>>
         /\ \A q \in Procs : q # s => pc'[q] = pc[q]
         /\ \A r \in Syncers : r # s => found'[r] = found[r] /\ todo'[r] = todo[r]
<1>1. s \in Procs
  BY Distinct
<1>2. UNCHANGED <<store, bundle>>
  BY DEF Sync, List, Scan, EndScan, IndexOne, SelectMissing, MarkMissing
<1>3. CASE \E to \in {"refused", "failed", "done"} : Leave(s, to)
  BY <1>2, <1>3, LeaveEffect
<1>4. CASE ~\E to \in {"refused", "failed", "done"} : Leave(s, to)
  <2>1. CASE Scan(s)
    BY <1>1, <1>2, <1>4, <2>1 DEF Scan, Consume, Goto, TypeOK
  <2>2. CASE IndexOne(s)
    BY <1>1, <1>2, <1>4, <2>2 DEF IndexOne, Consume, Goto, TypeOK
  <2>3. CASE SelectMissing(s)
    BY <1>1, <1>2, <1>4, <2>3 DEF SelectMissing, Goto, TypeOK
  <2>4. CASE MarkMissing(s)
    BY <1>4, <2>4 DEF MarkMissing
  <2>5. CASE List(s) \/ EndScan(s)
    BY <1>1, <1>2, <2>5 DEF List, EndScan, Goto, TypeOK
  <2> QED
    BY <2>1, <2>2, <2>3, <2>4, <2>5 DEF Sync
<1> QED
  BY <1>3, <1>4

\* A process that dies is idle; nothing of another process changes.
LEMMA CrashFrame ==
  ASSUME TypeOK, NEW q \in Procs, Crash(q)
  PROVE  /\ UNCHANGED <<store, bundle>>
         /\ pc'[q] = "idle" /\ \A p \in Procs : p # q => pc'[p] = pc[p]
         /\ \A r \in Syncers : r # q => found'[r] = found[r] /\ todo'[r] = todo[r]
         /\ q \in Syncers => found'[q] = NothingFound /\ todo'[q] = {}
<1>1. CASE q \in Importers
  BY <1>1, Distinct DEF Crash, Goto, TypeOK
<1>2. CASE q \notin Importers
  BY <1>2, LeaveEffect DEF Crash, Procs
<1> QED
  BY <1>1, <1>2

\* An importer that gets to its upsert has its bundle in the store.
LEMMA ImporterStep ==
  ASSUME IInv, [Next]_vars, NEW p \in Importers,
         pc'[p] = "upsert", bundle'[p].id \notin Deletable
  PROVE  store'[bundle'[p].id] = bundle'[p].content
<1> USE DEF IInv
<1>1. p \in Procs /\ bundle[p].id \in Ids /\ bundle[p].content # None
  BY Distinct DEF TypeOK
<1>2. CASE Import(p)
  <2>1. CASE Load(p)
    BY <1>1, <2>1 DEF Load, Goto, TypeOK
  <2>2. CASE Compare(p)
    BY <1>1, <2>2 DEF Compare, Goto, TypeOK
  <2>3. CASE BeginCopy(p)
    BY <1>1, <2>3 DEF BeginCopy, Goto, TypeOK
  <2>4. CASE EndCopy(p)
    BY <1>1, <2>4 DEF EndCopy, Goto, TypeOK
  <2>5. CASE Promote(p)
    BY <1>1, <2>5 DEF Promote, Goto, TypeOK
  <2>6. CASE Upsert(p)
    BY <1>1, <2>6 DEF Upsert, Goto, TypeOK
  <2> QED
    BY <1>2, <2>1, <2>2, <2>3, <2>4, <2>5, <2>6 DEF Import
<1>3. CASE ~Import(p)
  <2>1. CASE pc'[p] = pc[p] /\ bundle'[p] = bundle[p]
    BY <1>1, <2>1, StoreStep DEF WritersAreCurrent
  <2>2. CASE \E q \in Importers : Import(q)
    <3>1. PICK q \in Importers : Import(q) /\ q # p
      BY <1>3, <2>2
    <3>2. q \in Procs
      BY Distinct
    <3>3. pc'[p] = pc[p] /\ bundle'[p] = bundle[p]
      BY <1>1, <3>1, <3>2
      DEF Import, Load, Compare, BeginCopy, EndCopy, Promote, Upsert, Goto, TypeOK
    <3> QED
      BY <2>1, <3>3
  <2>3. CASE \E s \in Syncers : Sync(s)
    <3>1. PICK s \in Syncers : Sync(s)
      BY <2>3
    <3>2. s # p /\ s \in Procs
      BY Distinct
    <3>3. pc'[p] = pc[p] /\ bundle'[p] = bundle[p]
      BY <1>1, <3>1, <3>2, SyncFrame
    <3> QED
      BY <2>1, <3>3
  <2>4. CASE \E q \in Procs : Crash(q)
    <3>1. PICK q \in Procs : Crash(q)
      BY <2>4
    <3>2. CASE q = p
      BY <1>1, <3>1, <3>2, CrashFrame
    <3>3. CASE q # p
      BY <1>1, <2>1, <3>1, <3>3, CrashFrame
    <3> QED
      BY <3>2, <3>3
  <2>5. CASE \E j \in Deletable : Delete(j)
    BY <2>1, <2>5 DEF Delete
  <2>6. CASE UNCHANGED vars
    BY <2>1, <2>6 DEF vars
  <2> QED
    BY <1>3, <2>2, <2>3, <2>4, <2>5, <2>6 DEF Next
<1> QED
  BY <1>2, <1>3

\* What a syncer has discovered is what the store holds, and what it has yet to
\* load is there.
LEMMA SyncerStep ==
  ASSUME IInv, [Next]_vars, NEW s \in Syncers
  PROVE  /\ \A i \in Ids \ Deletable : found'[s][i] # None => store'[i] = found'[s][i]
         /\ pc'[s] = "index" => todo'[s] \subseteq {i \in Ids : found'[s][i] # None}
         /\ pc'[s] = "scan" => \A i \in (todo'[s] \ Deletable) : store'[i] # None
<1> USE DEF IInv
<1>1. s \in Procs /\ found[s] \in [Ids -> Content] /\ todo[s] \subseteq Ids
  BY Distinct DEF TypeOK
<1>2. CASE UNCHANGED <<found[s], todo[s], pc[s]>>
  BY <1>1, <1>2, StoreStep DEF WritersAreCurrent, Discovered, Stored
<1>3. CASE found'[s] = NothingFound /\ pc'[s] \notin {"scan", "index"}
  BY <1>3 DEF NothingFound
<1>4. CASE Sync(s)
  <2>0. UNCHANGED store
    BY <1>4, SyncFrame
  <2>1. CASE List(s)
    BY <1>1, <2>0, <2>1 DEF List, Goto, TypeOK, NothingFound, Stored
  <2>2. CASE Scan(s)
    <3>1. CASE Leave(s, "refused")
      BY <1>3, <3>1, LeaveEffect
    <3>2. CASE ~Leave(s, "refused")
      <4>1. PICK i \in Ids : /\ found' = [found EXCEPT ![s] = [@ EXCEPT ![i] = store[i]]]
                             /\ Consume(s, i) /\ UNCHANGED pc
        BY <2>2, <3>2 DEF Scan
      <4>2. \A j \in Ids : found'[s][j] = found[s][j] \/ found'[s][j] = store[j]
        BY <1>1, <4>1 DEF TypeOK
      <4>3. todo'[s] \subseteq todo[s] /\ pc'[s] = "scan" /\ pc[s] = "scan"
        BY <2>2, <4>1 DEF Scan, Consume, TypeOK
      <4> QED
        BY <1>1, <2>0, <4>2, <4>3 DEF WritersAreCurrent, Stored
    <3> QED
      BY <3>1, <3>2
  <2>3. CASE EndScan(s)
    <3>1. found' = found /\ todo'[s] = Discovered(s) /\ pc'[s] = "index"
      BY <1>1, <2>3 DEF EndScan, Goto, TypeOK
    <3> QED
      BY <2>0, <3>1 DEF WritersAreCurrent, Discovered
  <2>4. CASE IndexOne(s)
    <3>1. CASE Leave(s, "failed")
      BY <1>3, <3>1, LeaveEffect
    <3>2. CASE ~Leave(s, "failed")
      <4>1. found' = found /\ pc' = pc /\ pc[s] = "index" /\ todo'[s] \subseteq todo[s]
        BY <2>4, <3>2 DEF IndexOne, Consume, TypeOK
      <4> QED
        BY <2>0, <4>1 DEF WritersAreCurrent, Discovered
    <3> QED
      BY <3>1, <3>2
  <2>5. CASE SelectMissing(s)
    <3>1. CASE Leave(s, "failed")
      BY <1>3, <3>1, LeaveEffect
    <3>2. CASE ~Leave(s, "failed")
      BY <1>1, <1>3, <2>5, <3>2 DEF SelectMissing, Goto, TypeOK
    <3> QED
      BY <3>1, <3>2
  <2>6. CASE MarkMissing(s)
    <3>1. PICK to \in {"done", "failed"} : Leave(s, to)
      BY <2>6 DEF MarkMissing
    <3> QED
      BY <1>3, <3>1, LeaveEffect
  <2> QED
    BY <1>4, <2>1, <2>2, <2>3, <2>4, <2>5, <2>6 DEF Sync
<1>5. CASE ~Sync(s)
  <2>1. CASE \E q \in Importers : Import(q)
    <3>1. PICK q \in Importers : Import(q)
      BY <2>1
    <3>2. q # s /\ q \in Procs
      BY Distinct
    <3>3. UNCHANGED <<found, todo>> /\ pc'[s] = pc[s]
      BY <1>1, <3>1, <3>2
      DEF Import, Load, Compare, BeginCopy, EndCopy, Promote, Upsert, Goto, TypeOK
    <3> QED
      BY <1>2, <3>3
  <2>2. CASE \E r \in Syncers : Sync(r)
    <3>1. PICK r \in Syncers : Sync(r) /\ r # s
      BY <1>5, <2>2
    <3> QED
      BY <1>1, <1>2, <3>1, SyncFrame
  <2>3. CASE \E q \in Procs : Crash(q)
    <3>1. PICK q \in Procs : Crash(q)
      BY <2>3
    <3>2. CASE q = s
      BY <1>3, <3>1, <3>2, CrashFrame
    <3>3. CASE q # s
      BY <1>1, <1>2, <3>1, <3>3, CrashFrame
    <3> QED
      BY <3>2, <3>3
  <2>4. CASE \E j \in Deletable : Delete(j)
    BY <1>2, <2>4 DEF Delete
  <2>5. CASE UNCHANGED vars
    BY <1>2, <2>5 DEF vars
  <2> QED
    BY <1>5, <2>1, <2>2, <2>3, <2>4, <2>5 DEF Next
<1> QED
  BY <1>4, <1>5

\* Nobody spoils a bundle that the operator leaves alone.
LEMMA SoundStep ==
  ASSUME IInv, [Next]_vars, NEW i \in Ids \ Deletable
  PROVE  store'[i] # Damaged
<1> USE DEF IInv
<1>1. store[i] # Damaged
  BY DEF WritersAreCurrent
<1>2. CASE \E p \in Importers : Promote(p)
  <2>1. PICK p \in Importers : Promote(p)
    BY <1>2
  <2>2. bundle[p].id \in Ids /\ bundle[p].content # Damaged
    BY Distinct DEF TypeOK
  <2> QED
    BY <1>1, <2>1, <2>2 DEF Promote, TypeOK
<1>3. CASE \E j \in Deletable : Delete(j)
  BY <1>1, <1>3, IdsAssumption DEF Delete, TypeOK
<1>4. CASE UNCHANGED store
  BY <1>1, <1>4
<1> QED
  BY <1>2, <1>3, <1>4
  DEF Next, Import, Sync, Load, Compare, BeginCopy, EndCopy, Upsert, List, Scan, EndScan,
      IndexOne, SelectMissing, MarkMissing, Crash, vars

\* An available row keeps the digest of what is stored under its id.
LEMMA RowStep ==
  ASSUME IInv, [Next]_vars, NEW i \in Ids \ Deletable, index'[i].status = "available"
  PROVE  store'[i] # None /\ store'[i] = index'[i].digest
<1> USE DEF IInv
<1>1. CASE index'[i] = index[i]
  BY <1>1, StoreStep DEF RowsMatchStore, Stored
<1>2. CASE \E p \in Importers : Upsert(p)
  <2>1. PICK p \in Importers : Upsert(p)
    BY <1>2
  <2>2. bundle[p].id \in Ids /\ bundle[p].content # None
    BY Distinct DEF TypeOK
  <2>3. CASE bundle[p].id = i /\ index' # index
    BY <2>1, <2>2, <2>3 DEF Upsert, Put, Row, WritersAreCurrent, TypeOK
  <2>4. CASE ~(bundle[p].id = i /\ index' # index)
    BY <1>1, <2>1, <2>2, <2>4 DEF Upsert, Put, TypeOK
  <2> QED
    BY <2>3, <2>4
<1>3. CASE \E s \in Syncers : IndexOne(s)
  <2>1. PICK s \in Syncers : IndexOne(s)
    BY <1>3
  <2>2. CASE index' = index
    BY <1>1, <2>2
  <2>3. CASE index' # index
    <3>1. PICK j \in Ids : j \in todo[s] /\ Put(j, found[s][j]) /\ UNCHANGED store /\ pc[s] = "index"
      BY <2>1, <2>3 DEF IndexOne, IsNext
    <3>2. CASE j = i
      BY <3>1, <3>2 DEF Put, Row, WritersAreCurrent, Discovered, TypeOK
    <3>3. CASE j # i
      BY <1>1, <3>1, <3>3 DEF Put, TypeOK
    <3> QED
      BY <3>2, <3>3
  <2> QED
    BY <2>2, <2>3
<1>4. CASE \E s \in Syncers : MarkMissing(s)
  <2>1. PICK s \in Syncers : MarkMissing(s)
    BY <1>4
  <2>2. CASE index' = Mark(todo[s], "missing")
    <3>1. i \notin todo[s]
      BY <2>2 DEF Mark
    <3> QED
      BY <1>1, <2>2, <3>1 DEF Mark
  <2>3. CASE index' = index
    BY <1>1, <2>3
  <2> QED
    BY <2>1, <2>2, <2>3 DEF MarkMissing
<1>5. CASE UNCHANGED index
  BY <1>1, <1>5
<1> QED
  BY <1>2, <1>3, <1>4, <1>5
  DEF Next, Import, Sync, Load, Compare, BeginCopy, EndCopy, Promote, List, Scan, EndScan,
      SelectMissing, Crash, Delete, vars

\* Every step preserves the invariant.
LEMMA NextIInv == IInv /\ [Next]_vars => IInv'
<1> SUFFICES ASSUME IInv, [Next]_vars PROVE IInv'
  OBVIOUS
<1>1. TypeOK'
  BY NextTypeOK DEF IInv
<1>2. RowsMatchStore'
  BY RowStep DEF RowsMatchStore, Stored
<1>3. WritersAreCurrent'
  <2>1. \A p \in Importers :
          pc'[p] = "upsert" /\ bundle'[p].id \notin Deletable =>
            store'[bundle'[p].id] = bundle'[p].content
    BY ImporterStep
  <2>2. \A s \in Syncers :
          /\ \A i \in Ids \ Deletable : found'[s][i] # None => store'[i] = found'[s][i]
          /\ pc'[s] = "index" => todo'[s] \subseteq {i \in Ids : found'[s][i] # None}
          /\ pc'[s] = "scan" => \A i \in (todo'[s] \ Deletable) : store'[i] # None
    BY SyncerStep
  <2>3. \A i \in Ids \ Deletable : store'[i] # Damaged
    BY SoundStep
  <2>4. \A s \in Syncers : todo'[s] \subseteq Ids
    BY <1>1 DEF TypeOK
  <2> QED
    BY <2>1, <2>2, <2>3, <2>4 DEF WritersAreCurrent, Discovered, Stored
<1> QED
  BY <1>1, <1>2, <1>3 DEF IInv

-----------------------------------------------------------------------------

\* The inductive invariant holds in every reachable state.
THEOREM Invariance == Spec => []IInv
BY InitIInv, NextIInv, PTL DEF Spec

\* Every variable keeps its type.
THEOREM TypeCorrect == Spec => []TypeOK
<1>1. IInv => TypeOK
  BY DEF IInv
<1> QED
  BY <1>1, Invariance, PTL

\* An available row can be loaded (history.py, load), however many imports and
\* syncs run at once and wherever they crash.
THEOREM AvailableLoads == Spec => []RowsMatchStore
<1>1. IInv => RowsMatchStore
  BY DEF IInv
<1> QED
  BY <1>1, Invariance, PTL

\* The store is immutable (history.py, put), whoever imports at the same time.
THEOREM Immutable == Spec => StoreIsImmutable
<1>1. TypeOK /\ [Next]_vars =>
        [\A i \in Ids \ Deletable : store[i] # None => store'[i] = store[i]]_vars
  BY StoreStep
<1> QED
  BY <1>1, TypeCorrect, PTL DEF Spec, StoreIsImmutable

\* A step that refuses a sync found an entry that the operator took away or
\* spoiled.
LEMMA RefusalStep ==
  ASSUME IInv, [Next]_vars, NEW s \in Syncers, pc[s] # "refused", pc'[s] = "refused"
  PROVE  \E i \in todo[s] \cap Deletable : store[i] \notin Contents
<1> USE DEF IInv
<1>1. s \in Procs
  BY Distinct
<1>2. Scan(s)
  <2>1. CASE \E q \in Importers : Import(q)
    <3>1. PICK q \in Importers : Import(q)
      BY <2>1
    <3>2. q # s /\ q \in Procs
      BY Distinct
    <3> QED
      BY <1>1, <3>1, <3>2
      DEF Import, Load, Compare, BeginCopy, EndCopy, Promote, Upsert, Goto, TypeOK
  <2>2. CASE \E r \in Syncers : Sync(r) /\ r # s
    BY <1>1, <2>2, SyncFrame
  <2>3. CASE Sync(s)
    <3>1. CASE IndexOne(s)
      BY <1>1, <3>1, LeaveEffect DEF IndexOne
    <3>2. CASE SelectMissing(s)
      BY <1>1, <3>2, LeaveEffect DEF SelectMissing, Goto, TypeOK
    <3>3. CASE MarkMissing(s)
      BY <3>3, LeaveEffect DEF MarkMissing
    <3>4. CASE List(s) \/ EndScan(s)
      BY <1>1, <3>4 DEF List, EndScan, Goto, TypeOK
    <3> QED
      BY <2>3, <3>1, <3>2, <3>3, <3>4 DEF Sync
  <2>4. CASE \E q \in Procs : Crash(q)
    BY <1>1, <2>4, CrashFrame
  <2>5. CASE (\E j \in Deletable : Delete(j)) \/ UNCHANGED vars
    BY <2>5 DEF Delete, vars
  <2> QED
    BY <2>1, <2>2, <2>3, <2>4, <2>5 DEF Next
<1>3. PICK i \in Ids : i \in todo[s] /\ store[i] \in {None, Damaged}
  BY <1>1, <1>2 DEF Scan, IsNext
<1>4. pc[s] = "scan"
  BY <1>2 DEF Scan
<1>5. i \in Deletable
  BY <1>3, <1>4 DEF WritersAreCurrent, Stored
<1> QED
  BY <1>3, <1>5, Distinct

\* A sync is stopped by nothing that importers do (history.py, discover).
THEOREM SyncsSurvive == Spec => SyncSurvivesImports
<1>1. IInv /\ [Next]_vars =>
        [\A s \in Syncers : pc[s] # "refused" /\ pc'[s] = "refused" =>
           \E i \in todo[s] \cap Deletable : store[i] \notin Contents]_vars
  BY RefusalStep
<1> QED
  BY <1>1, Invariance, PTL DEF Spec, SyncSurvivesImports

-----------------------------------------------------------------------------
(* The index is a projection that syncs rebuild, however many overlap and    *)
(* crash, as long as nobody imports beside them.                             *)

\* What a sync knows of the store and what it has already done to the index.
Reads(s) ==
  /\ pc[s] = "scan" =>
       /\ todo[s] \subseteq Stored
       /\ \A i \in Ids : found[s][i] \in {None, store[i]} \ {Damaged}
       /\ \A i \in Stored \ todo[s] : found[s][i] = store[i]
  /\ pc[s] = "index" =>
       /\ found[s] = store /\ \A i \in Ids : store[i] # Damaged
       /\ todo[s] \subseteq Stored
       /\ \A i \in Stored \ todo[s] : index[i] = Row(store[i])
  /\ pc[s] = "mark" =>
       /\ \A i \in Ids : store[i] # Damaged
       /\ todo[s] \cap Stored = {}
       /\ \A i \in Stored : index[i] = Row(store[i])
       /\ \A i \in Ids \ Stored : i \in todo[s] \/ index[i].status # "available"

AllRead == \A s \in Syncers : Reads(s)

LEMMA IdleReads ==
  ASSUME NEW s, pc[s] \in Idle
  PROVE  Reads(s)
BY DEF Reads, Idle

\* A sync writes rows of what is stored and marks what is not.
LEMMA SyncIndexStep ==
  ASSUME TypeOK, NEW r \in Syncers, Reads(r), Sync(r), NEW i \in Ids
  PROVE  \/ index'[i] = index[i]
         \/ store[i] \notin {None, Damaged} /\ index'[i] = Row(store[i])
         \/ store[i] = None /\ index'[i].status = "missing"
<1>1. CASE IndexOne(r)
  <2>1. CASE index' = index
    BY <2>1
  <2>2. CASE index' # index
    <3>1. PICK j \in todo[r] : j \in Ids /\ index' = [index EXCEPT ![j] = Row(found[r][j])]
      BY <1>1, <2>2 DEF IndexOne, IsNext, Put
    <3>2. store[j] \notin {None, Damaged} /\ found[r][j] = store[j]
      BY <1>1, <3>1 DEF IndexOne, Reads, Stored
    <3> QED
      BY <3>1, <3>2 DEF TypeOK
  <2> QED
    BY <2>1, <2>2
<1>2. CASE MarkMissing(r)
  BY <1>2 DEF MarkMissing, Mark, Reads, Stored
<1>3. CASE ~IndexOne(r) /\ ~MarkMissing(r)
  BY <1>3 DEF Sync, List, Scan, EndScan, SelectMissing
<1> QED
  BY <1>1, <1>2, <1>3

\* The sync that takes the step.
LEMMA OwnReads ==
  ASSUME TypeOK, NEW s \in Syncers, Reads(s), Sync(s)
  PROVE  Reads(s)'
<1>0. s \in Procs /\ store \in [Ids -> Content] /\ found[s] \in [Ids -> Content] /\ todo[s] \subseteq Ids
  BY Distinct DEF TypeOK
<1>1. ASSUME NEW to \in {"refused", "failed", "done"}, Leave(s, to)
      PROVE  Reads(s)'
  BY <1>1, LeaveEffect DEF Reads
<1>2. CASE List(s)
  <2>1. /\ pc'[s] = "scan" /\ todo'[s] = Stored /\ UNCHANGED store
        /\ \A i \in Ids : found'[s][i] = None
    BY <1>0, <1>2 DEF List, Goto, TypeOK, NothingFound
  <2> QED
    BY <2>1, Distinct DEF Reads, Stored
<1>3. CASE Scan(s)
  <2>1. CASE Leave(s, "refused")
    BY <1>1, <2>1
  <2>2. CASE ~Leave(s, "refused")
    <3>1. PICK i \in todo[s] :
            /\ store[i] # Damaged
            /\ found' = [found EXCEPT ![s] = [@ EXCEPT ![i] = store[i]]]
            /\ todo' = [todo EXCEPT ![s] = @ \ {i}] /\ UNCHANGED <<pc, store>>
      BY <1>3, <2>2 DEF Scan, IsNext, Consume
    <3>2. /\ pc'[s] = "scan" /\ todo'[s] = todo[s] \ {i} /\ found'[s][i] = store[i]
          /\ \A j \in Ids : j # i => found'[s][j] = found[s][j]
      BY <1>0, <1>3, <3>1 DEF Scan, TypeOK
    <3> QED
      BY <1>0, <1>3, <3>1, <3>2 DEF Reads, Scan, Stored
  <2> QED
    BY <2>1, <2>2
<1>4. CASE EndScan(s)
  <2>1. /\ pc[s] = "scan" /\ todo[s] = {} /\ pc'[s] = "index" /\ todo'[s] = Discovered(s)
        /\ UNCHANGED <<store, found, index>>
    BY <1>0, <1>4 DEF EndScan, Goto, TypeOK
  <2>2. \A i \in Ids : found[s][i] = store[i] /\ store[i] # Damaged
    BY <2>1, Distinct DEF Reads, Stored
  <2>3. found[s] = store /\ Discovered(s) = Stored
    BY <1>0, <2>2 DEF Discovered, Stored
  <2> QED
    BY <2>1, <2>2, <2>3 DEF Reads, Stored
<1>5. CASE IndexOne(s)
  <2>1. CASE Leave(s, "failed")
    BY <1>1, <2>1
  <2>2. CASE ~Leave(s, "failed")
    <3>1. PICK i \in todo[s] :
            /\ index' = [index EXCEPT ![i] = Row(found[s][i])]
            /\ todo' = [todo EXCEPT ![s] = @ \ {i}] /\ UNCHANGED <<pc, store, found>>
      BY <1>5, <2>2 DEF IndexOne, IsNext, Consume, Put
    <3>2. /\ pc[s] = "index" /\ pc'[s] = "index" /\ todo'[s] = todo[s] \ {i}
          /\ index'[i] = Row(found[s][i]) /\ \A j \in Ids : j # i => index'[j] = index[j]
      BY <1>0, <1>5, <3>1 DEF IndexOne, TypeOK
    <3> QED
      BY <1>0, <3>1, <3>2 DEF Reads, Stored
  <2> QED
    BY <2>1, <2>2
<1>6. CASE SelectMissing(s)
  <2>1. CASE Leave(s, "failed")
    BY <1>1, <2>1
  <2>2. CASE ~Leave(s, "failed")
    <3>1. /\ pc[s] = "index" /\ todo[s] = {} /\ pc'[s] = "mark" /\ todo'[s] = Rows \ Discovered(s)
          /\ UNCHANGED <<store, index>>
      BY <1>0, <1>6, <2>2 DEF SelectMissing, Goto, TypeOK
    <3>2. Discovered(s) = Stored
      BY <3>1 DEF Reads, Discovered, Stored
    <3> QED
      BY <3>1, <3>2 DEF Reads, Stored, Rows
  <2> QED
    BY <2>1, <2>2
<1>7. CASE MarkMissing(s)
  BY <1>1, <1>7 DEF MarkMissing
<1> QED
  BY <1>2, <1>3, <1>4, <1>5, <1>6, <1>7 DEF Sync

\* The step of one sync leaves what another knows true.
LEMMA OtherReads ==
  ASSUME TypeOK, NEW s \in Syncers, Reads(s), NEW r \in Syncers, r # s, Reads(r), Sync(r)
  PROVE  Reads(s)'
<1>1. /\ UNCHANGED store /\ pc'[s] = pc[s] /\ found'[s] = found[s] /\ todo'[s] = todo[s]
  BY Distinct, SyncFrame
<1>2. \A i \in Ids : \/ index'[i] = index[i]
                     \/ i \in Stored /\ index'[i] = Row(store[i])
                     \/ i \notin Stored /\ index'[i].status = "missing"
  BY SyncIndexStep DEF Stored
<1>3. Stored' = Stored /\ \A i \in Stored : i \in Ids
  BY <1>1 DEF Stored
<1> QED
  BY <1>1, <1>2, <1>3 DEF Reads

LEMMA SyncsRead ==
  ASSUME TypeOK, AllRead, NEW r \in Syncers, Sync(r)
  PROVE  AllRead'
BY OwnReads, OtherReads DEF AllRead

LEMMA CrashesRead ==
  ASSUME TypeOK, AllRead, NEW q \in Procs, Crash(q)
  PROVE  AllRead'
<1>1. UNCHANGED <<store, index>> /\ Stored' = Stored
  BY CrashFrame DEF Crash, Stored
<1>2. ASSUME NEW s \in Syncers PROVE Reads(s)'
  <2>1. CASE s = q
    BY <2>1, CrashFrame DEF Reads
  <2>2. CASE s # q
    <3>1. pc'[s] = pc[s] /\ found'[s] = found[s] /\ todo'[s] = todo[s]
      BY <2>2, Distinct, CrashFrame
    <3> QED
      BY <1>1, <3>1 DEF AllRead, Reads
  <2> QED
    BY <2>1, <2>2
<1> QED
  BY <1>2 DEF AllRead

\* The transaction that ends a sync makes the index agree with the store.
LEMMA CompletedSyncRepairs ==
  ASSUME TypeOK, NEW s \in Syncers, Reads(s), MarkMissing(s), pc'[s] = "done"
  PROVE  Consistent'
<1>1. pc[s] = "mark" /\ UNCHANGED store
  BY DEF MarkMissing
<1>2. index' = Mark(todo[s], "missing")
  BY LeaveEffect DEF MarkMissing
<1>3. ASSUME NEW i \in Ids
      PROVE  /\ store[i] \in Contents => index'[i] = Row(store[i])
             /\ store[i] \notin Contents => index'[i].status # "available"
  <2>1. store[i] \in Contents <=> i \in Stored
    BY <1>1, Distinct DEF Stored, TypeOK, Content, Reads
  <2> QED
    BY <1>1, <1>2, <2>1 DEF Reads, Mark
<1> QED
  BY <1>1, <1>3 DEF Consistent

Quiet == \A p \in Procs : pc[p] \in Idle
NoImport == \A p \in Importers : pc[p] \in Idle

\* The stored bundles are left alone and no import begins.
Undisturbed == UNCHANGED store /\ NoImport'

LEMMA UndisturbedStep ==
  ASSUME TypeOK, NoImport, [Next]_vars, Undisturbed
  PROVE  \/ \E s \in Syncers : Sync(s)
         \/ \E p \in Procs : Crash(p)
         \/ UNCHANGED vars
<1>1. ASSUME NEW p \in Importers, Import(p)
      PROVE  FALSE
  <2>1. Load(p)
    BY <1>1 DEF NoImport, Idle, Import, Compare, BeginCopy, EndCopy, Promote, Upsert
  <2>2. pc'[p] \in {"compare", "copy"}
    BY <2>1, Distinct DEF Load, Goto, TypeOK
  <2> QED
    BY <2>2 DEF Undisturbed, NoImport, Idle
<1>2. ASSUME NEW i \in Deletable, Delete(i)
      PROVE  FALSE
  BY <1>2, IdsAssumption DEF Delete, Undisturbed, TypeOK
<1> QED
  BY <1>1, <1>2 DEF Next

LEMMA UndisturbedReads ==
  ASSUME TypeOK, NoImport, AllRead, [Next]_vars, [Undisturbed]_vars
  PROVE  NoImport' /\ AllRead'
<1>1. CASE UNCHANGED vars
  BY <1>1 DEF vars, NoImport, AllRead, Reads, Stored
<1>2. CASE Undisturbed
  BY <1>1, <1>2, UndisturbedStep, SyncsRead, CrashesRead DEF Undisturbed
<1> QED
  BY <1>1, <1>2

LEMMA UndisturbedIndex ==
  ASSUME TypeOK, NoImport, AllRead, [Next]_vars, Undisturbed, Consistent
  PROVE  Consistent'
<1>1. \A i \in Ids : \/ index'[i] = index[i]
                     \/ store[i] \notin {None, Damaged} /\ index'[i] = Row(store[i])
                     \/ store[i] = None /\ index'[i].status = "missing"
  BY UndisturbedStep, SyncIndexStep DEF AllRead, Crash, vars
<1>2. UNCHANGED store /\ \A i \in Ids : store[i] \in Contents \cup {None, Damaged}
  BY DEF Undisturbed, TypeOK, Content
<1> QED
  BY <1>1, <1>2, Distinct DEF Consistent

\* From any moment at which no import and no sync is under way, and as long as
\* the stored bundles are left alone and no import begins, every sync that
\* completes leaves the index in line with the store, and it stays so, however
\* many syncs overlap, fail and die (sync, mark_missing_except).
THEOREM SyncsRepair ==
  Spec => [](Quiet /\ [][Undisturbed]_vars =>
               /\ [][\A s \in Syncers : MarkMissing(s) /\ pc'[s] = "done" => Consistent']_vars
               /\ [][Consistent => Consistent']_vars)
<1>1. Quiet => NoImport /\ AllRead
  BY Distinct, IdleReads DEF Quiet, NoImport, AllRead
<1>2. TypeOK /\ NoImport /\ AllRead /\ [Next]_vars /\ [Undisturbed]_vars => NoImport' /\ AllRead'
  BY UndisturbedReads
<1>3. TypeOK /\ AllRead =>
        [\A s \in Syncers : MarkMissing(s) /\ pc'[s] = "done" => Consistent']_vars
  BY CompletedSyncRepairs DEF AllRead
<1>4. TypeOK /\ NoImport /\ AllRead /\ [Next]_vars /\ [Undisturbed]_vars => [Consistent => Consistent']_vars
  BY UndisturbedIndex
<1> QED
  BY <1>1, <1>2, <1>3, <1>4, TypeCorrect, PTL DEF Spec

-----------------------------------------------------------------------------
(* What keeps an import exposed.                                             *)

\* No import is under way while a sync is.
Apart == NoImport \/ \A s \in Syncers : pc[s] \in Idle

\* An import that has returned left its bundle and its row.
Exposed ==
  \A p \in Importers :
    pc[p] = "done" => store[bundle[p].id] # None /\ index[bundle[p].id].status = "available"

LEMMA ApartReads ==
  ASSUME TypeOK, AllRead, Deletable = {}, [Next]_vars, Apart, Apart'
  PROVE  AllRead'
<1>1. CASE \E s \in Syncers : Sync(s)
  BY <1>1, SyncsRead
<1>2. CASE \E p \in Procs : Crash(p)
  BY <1>2, CrashesRead
<1>3. CASE UNCHANGED vars
  BY <1>3 DEF vars, AllRead, Reads, Stored
<1>4. CASE \E p \in Importers : Import(p)
  <2>1. PICK p \in Importers : Import(p)
    BY <1>4
  <2>2. \A s \in Syncers : pc'[s] = pc[s]
    <3>1. \A s \in Syncers : s # p /\ s \in Procs
      BY Distinct
    <3> QED
      BY <2>1, <3>1 DEF Import, Load, Compare, BeginCopy, EndCopy, Promote, Upsert, Goto, TypeOK
  <2>3. CASE \A s \in Syncers : pc[s] \in Idle
    BY <2>2, <2>3, IdleReads DEF AllRead, Reads, Idle
  <2>4. CASE NoImport
    <3>1. Load(p)
      BY <2>1, <2>4 DEF NoImport, Idle, Import, Compare, BeginCopy, EndCopy, Promote, Upsert
    <3>2. UNCHANGED <<store, index, todo, found>>
      BY <3>1 DEF Load
    <3> QED
      BY <2>2, <3>2 DEF AllRead, Reads, Stored
  <2> QED
    BY <2>3, <2>4 DEF Apart
<1> QED
  BY <1>1, <1>2, <1>3, <1>4 DEF Next

LEMMA ExposedStep ==
  ASSUME IInv, AllRead, Exposed, Deletable = {}, [Next]_vars
  PROVE  Exposed'
<1> USE DEF IInv
<1>1. \A i \in Ids : store[i] # None => store'[i] = store[i]
  BY StoreStep
<1>2. \A i \in Ids : store[i] # None /\ index[i].status = "available" => index'[i].status = "available"
  <2>1. CASE \E s \in Syncers : Sync(s)
    <3>1. \A i \in Ids : \/ index'[i] = index[i]
                         \/ index'[i] = Row(store[i])
                         \/ store[i] = None
      BY <2>1, SyncIndexStep DEF AllRead
    <3>2. \A c : Row(c).status = "available"
      BY DEF Row
    <3> QED
      BY <3>1, <3>2
  <2>2. CASE \E p \in Importers : Upsert(p)
    <3>1. PICK p \in Importers : Upsert(p)
      BY <2>2
    <3>2. \A i \in Ids : index'[i] = index[i] \/ index'[i] = Row(bundle[p].content)
      BY <3>1, Distinct DEF Upsert, Put, TypeOK
    <3> QED
      BY <3>2 DEF Row
  <2>3. CASE UNCHANGED index
    BY <2>3
  <2> QED
    BY <2>1, <2>2, <2>3
    DEF Next, Import, Load, Compare, BeginCopy, EndCopy, Promote, Crash, Delete, vars
<1>3. ASSUME NEW p \in Importers, pc'[p] = "done"
      PROVE  store'[bundle'[p].id] # None /\ index'[bundle'[p].id].status = "available"
  <2>1. p \in Procs /\ bundle[p].id \in Ids /\ bundle[p].content # None
    BY Distinct DEF TypeOK
  <2>2. CASE pc'[p] = pc[p] /\ bundle'[p] = bundle[p]
    BY <1>1, <1>2, <1>3, <2>1, <2>2 DEF Exposed
  <2>3. CASE Import(p)
    <3>1. Upsert(p)
      BY <1>3, <2>1, <2>3 DEF Import, Load, Compare, BeginCopy, EndCopy, Promote, Upsert, Goto, TypeOK
    <3>2. Put(bundle[p].id, bundle[p].content) /\ UNCHANGED <<store, bundle>>
      BY <1>3, <2>1, <3>1 DEF Upsert, Goto, TypeOK
    <3>3. store[bundle[p].id] # None
      BY <2>1, <3>1 DEF Upsert, WritersAreCurrent
    <3> QED
      BY <2>1, <3>2, <3>3 DEF Put, Row, TypeOK
  <2>4. CASE \E q \in Importers : q # p /\ Import(q)
    <3>1. PICK q \in Importers : q # p /\ Import(q)
      BY <2>4
    <3>2. pc'[p] = pc[p] /\ bundle'[p] = bundle[p]
      BY <2>1, <3>1 DEF Import, Load, Compare, BeginCopy, EndCopy, Promote, Upsert, Goto, TypeOK
    <3> QED
      BY <2>2, <3>2
  <2>5. CASE \E s \in Syncers : Sync(s)
    <3>1. pc'[p] = pc[p] /\ bundle'[p] = bundle[p]
      BY <2>1, <2>5, Distinct, SyncFrame
    <3> QED
      BY <2>2, <3>1
  <2>6. CASE \E q \in Procs : Crash(q)
    <3>1. pc'[p] = pc[p] /\ bundle'[p] = bundle[p]
      BY <1>3, <2>1, <2>6, CrashFrame
    <3> QED
      BY <2>2, <3>1
  <2>7. CASE UNCHANGED vars
    BY <2>2, <2>7 DEF vars
  <2> QED
    BY <2>3, <2>4, <2>5, <2>6, <2>7 DEF Next
<1> QED
  BY <1>3 DEF Exposed

\* What is enough to make true what the test says of an import that returned
\* (src/tests/evidence/test_history.py:91): where nobody removes bundles and no
\* sync overlaps an import, it stays exposed.
THEOREM ImportsStayExposed ==
  ASSUME Deletable = {}
  PROVE  Spec /\ []Apart => []ImportedIsAvailable
<1>1. Init => AllRead /\ Exposed
  <2>1. ASSUME Init PROVE \A p \in Procs : pc[p] \in Idle
    BY <2>1 DEF Init, Idle
  <2> QED
    BY <2>1, Distinct, IdleReads DEF Init, AllRead, Exposed
<1>2. IInv /\ AllRead /\ Exposed /\ [Next]_vars /\ Apart /\ Apart' => AllRead' /\ Exposed'
  BY ApartReads, ExposedStep DEF IInv
<1>3. Exposed => ImportedIsAvailable
  BY DEF Exposed, ImportedIsAvailable
<1> QED
  BY <1>1, <1>2, <1>3, Invariance, PTL DEF Spec
=============================================================================
