------------------------------ MODULE History ------------------------------
(***************************************************************************)
(* evidence/history.py: HistoryService over FilesystemBundleStore and      *)
(* SQLiteEvaluationIndex.  Importers are the callers of import_bundle (the *)
(* worker of a live run, a command line), syncers those of sync (the web   *)
(* server's start and its POST /api/sync, a command line): threads and     *)
(* processes that share a directory and a database, and no lock.           *)
(*                                                                         *)
(* A bundle is its evaluation id and its content, which the two digests    *)
(* that put compares stand for.                                            *)
(***************************************************************************)
EXTENDS Naturals

CONSTANTS
  Ids,         \* evaluation ids, in the order of sorted()
  Contents,    \* contents a bundle can have
  Sources,     \* the bundles there are to import
  Damaged,     \* the content of a stored bundle that no longer verifies
  Importers,   \* callers of import_bundle
  Syncers,     \* callers of sync
  Deletable,   \* ids whose stored bundle the operator may remove or spoil
  None         \* no content

ASSUME IdsAssumption == Ids \subseteq Nat /\ Deletable \subseteq Ids
ASSUME ContentsAssumption == {None, Damaged} \cap Contents = {} /\ None # Damaged
ASSUME SourcesAssumption == Sources \subseteq [id : Ids, content : Contents]
ASSUME ProcessesAssumption == Importers \cap Syncers = {}

VARIABLES
  store,     \* root/<evaluation id>, complete bundles
  temp,      \* an importer's root/.tmp-<evaluation id>-<uuid>
  orphan,    \* such a directory whose importer is gone
  index,     \* the evaluations table
  pc,        \* where each process is
  bundle,    \* an importer's source
  todo,      \* a syncer's directory entries, rows or missing ids ahead
  found      \* a syncer's discovered bundles

vars == <<store, temp, orphan, index, pc, bundle, todo, found>>

Procs == Importers \cup Syncers
Content == Contents \cup {None, Damaged}
Idle == {"idle", "done", "refused", "failed"}

Stored == {i \in Ids : store[i] # None}
Rows == {i \in Ids : index[i].status # "none"}
Discovered(s) == {i \in Ids : found[s][i] # None}

NothingFound == [i \in Ids |-> None]

Goto(p, to) == pc' = [pc EXCEPT ![p] = to]

\* A sync returns or raises; its locals are gone.
Leave(s, to) ==
  /\ Goto(s, to)
  /\ todo' = [todo EXCEPT ![s] = {}] /\ found' = [found EXCEPT ![s] = NothingFound]

Init ==
  /\ store = [i \in Ids |-> None]
  /\ temp = [p \in Importers |-> FALSE] /\ orphan = FALSE
  /\ index = [i \in Ids |-> [status |-> "none", digest |-> None]]
  /\ pc = [p \in Procs |-> "idle"]
  /\ bundle \in [Importers -> Sources]
  /\ todo = [s \in Syncers |-> {}]
  /\ found = [s \in Syncers |-> NothingFound]

-----------------------------------------------------------------------------
(* import_bundle: put, then upsert.                                          *)

\* A source is loaded and verified, and the target looked for.
Load(p) ==
  /\ pc[p] \in Idle
  /\ \E source \in Sources :
       /\ bundle' = [bundle EXCEPT ![p] = source]
       /\ Goto(p, IF store[source.id] # None THEN "compare" ELSE "copy")
  /\ UNCHANGED <<store, temp, orphan, index, todo, found>>

\* Slip: what is stored under the id is taken to be the bundle.
SlipCompare(p) ==
  /\ pc[p] = "compare"
  /\ Goto(p, IF store[bundle[p].id] # None THEN "upsert" ELSE "refused")
  /\ UNCHANGED <<store, temp, orphan, index, bundle, todo, found>>

Compare(p) ==
  /\ pc[p] = "compare"
  /\ Goto(p, IF store[bundle[p].id] = bundle[p].content THEN "upsert" ELSE "refused")
  /\ UNCHANGED <<store, temp, orphan, index, bundle, todo, found>>

BeginCopy(p) ==
  /\ pc[p] = "copy"
  /\ temp' = [temp EXCEPT ![p] = TRUE]
  /\ Goto(p, "copying")
  /\ UNCHANGED <<store, orphan, index, bundle, todo, found>>

\* The copy verifies with the same digests, or the directory is removed.
EndCopy(p) ==
  /\ pc[p] = "copying"
  /\ \/ Goto(p, "promote") /\ UNCHANGED temp
     \/ Goto(p, "refused") /\ temp' = [temp EXCEPT ![p] = FALSE]
  /\ UNCHANGED <<store, orphan, index, bundle, todo, found>>

\* Slip: the target is moved out of the way.
SlipPromote(p) ==
  /\ pc[p] = "promote"
  /\ store' = [store EXCEPT ![bundle[p].id] = bundle[p].content]
  /\ Goto(p, "upsert")
  /\ temp' = [temp EXCEPT ![p] = FALSE]
  /\ UNCHANGED <<orphan, index, bundle, todo, found>>

\* A directory replaces no directory that has entries: the second of two
\* importers of one id is refused.
Promote(p) ==
  /\ pc[p] = "promote"
  /\ IF store[bundle[p].id] = None
     THEN store' = [store EXCEPT ![bundle[p].id] = bundle[p].content] /\ Goto(p, "upsert")
     ELSE UNCHANGED store /\ Goto(p, "refused")
  /\ temp' = [temp EXCEPT ![p] = FALSE]
  /\ UNCHANGED <<orphan, index, bundle, todo, found>>

Row(content) == [status |-> "available", digest |-> content]

\* Slip: the conflict clause forgets the status.
SlipPut(i, content) ==
  index' = [index EXCEPT ![i] = IF i \in Rows THEN [@ EXCEPT !.digest = content] ELSE Row(content)]

\* INSERT ... ON CONFLICT(evaluation_id) DO UPDATE
Put(i, content) == index' = [index EXCEPT ![i] = Row(content)]

\* The statement succeeds, or the database stays locked too long.
Upsert(p) ==
  /\ pc[p] = "upsert"
  /\ \/ Put(bundle[p].id, bundle[p].content) /\ Goto(p, "done")
     \/ UNCHANGED index /\ Goto(p, "failed")
  /\ UNCHANGED <<store, temp, orphan, bundle, todo, found>>

-----------------------------------------------------------------------------
(* sync: discover, upsert each, mark_missing_except.                         *)

\* Slip: the hidden entries are read as bundles.
SlipList(s) ==
  /\ pc[s] \in Idle
  /\ todo' = [todo EXCEPT ![s] = Stored]
  /\ found' = [found EXCEPT ![s] = NothingFound]
  /\ Goto(s, IF orphan \/ \E p \in Importers : temp[p] THEN "refused" ELSE "scan")
  /\ UNCHANGED <<store, temp, orphan, index, bundle>>

\* root.iterdir(): one listing, whose hidden entries are skipped.
List(s) ==
  /\ pc[s] \in Idle
  /\ todo' = [todo EXCEPT ![s] = Stored]
  /\ found' = [found EXCEPT ![s] = NothingFound]
  /\ Goto(s, "scan")
  /\ UNCHANGED <<store, temp, orphan, index, bundle>>

IsNext(s, i) == i \in todo[s] /\ \A j \in todo[s] : i <= j
Consume(s, i) == todo' = [todo EXCEPT ![s] = @ \ {i}]

\* An entry that vanished is skipped, or its load fails the whole scan, as that
\* of a bundle that no longer verifies does.
Scan(s) ==
  /\ pc[s] = "scan"
  /\ \E i \in Ids :
       /\ IsNext(s, i)
       /\ \/ /\ store[i] # Damaged
             /\ found' = [found EXCEPT ![s] = [@ EXCEPT ![i] = store[i]]]
             /\ Consume(s, i) /\ UNCHANGED pc
          \/ /\ store[i] \in {None, Damaged}
             /\ Leave(s, "refused")
  /\ UNCHANGED <<store, temp, orphan, index, bundle>>

EndScan(s) ==
  /\ pc[s] = "scan" /\ todo[s] = {}
  /\ todo' = [todo EXCEPT ![s] = Discovered(s)]
  /\ Goto(s, "index")
  /\ UNCHANGED <<store, temp, orphan, index, bundle, found>>

IndexOne(s) ==
  /\ pc[s] = "index"
  /\ \/ /\ \E i \in Ids : IsNext(s, i) /\ Put(i, found[s][i]) /\ Consume(s, i)
        /\ UNCHANGED <<pc, found>>
     \/ todo[s] # {} /\ Leave(s, "failed") /\ UNCHANGED index
  /\ UNCHANGED <<store, temp, orphan, bundle>>

\* SELECT evaluation_id, and the ids that were not discovered.
SelectMissing(s) ==
  /\ pc[s] = "index" /\ todo[s] = {}
  /\ \/ /\ todo' = [todo EXCEPT ![s] = Rows \ Discovered(s)]
        /\ found' = [found EXCEPT ![s] = NothingFound]
        /\ Goto(s, "mark")
     \/ Leave(s, "failed")
  /\ UNCHANGED <<store, temp, orphan, index, bundle>>

Mark(ids, status) ==
  [i \in Ids |-> IF i \in ids THEN [status |-> status, digest |-> index[i].digest] ELSE index[i]]

\* UPDATE ... SET bundle_status = 'missing', one transaction.
MarkMissing(s) ==
  /\ pc[s] = "mark"
  /\ \/ index' = Mark(todo[s], "missing") /\ Leave(s, "done")
     \/ UNCHANGED index /\ Leave(s, "failed")
  /\ UNCHANGED <<store, temp, orphan, bundle>>

-----------------------------------------------------------------------------

\* A process dies; what it wrote stays.
Crash(p) ==
  /\ pc[p] \notin Idle
  /\ IF p \in Importers THEN /\ orphan' = (orphan \/ temp[p])
                             /\ temp' = [temp EXCEPT ![p] = FALSE]
                             /\ Goto(p, "idle") /\ UNCHANGED <<todo, found>>
                        ELSE Leave(p, "idle") /\ UNCHANGED <<orphan, temp>>
  /\ UNCHANGED <<store, index, bundle>>

\* The operator removes a stored bundle, or changes a file of it.
Delete(i) ==
  /\ store[i] # None
  /\ \E left \in {None, Damaged} \ {store[i]} : store' = [store EXCEPT ![i] = left]
  /\ UNCHANGED <<temp, orphan, index, pc, bundle, todo, found>>

Import(p) ==
  Load(p) \/ Compare(p) \/ BeginCopy(p) \/ EndCopy(p) \/ Promote(p) \/ Upsert(p)

Sync(s) ==
  List(s) \/ Scan(s) \/ EndScan(s) \/ IndexOne(s) \/ SelectMissing(s) \/ MarkMissing(s)

Next ==
  \/ \E p \in Importers : Import(p)
  \/ \E s \in Syncers : Sync(s)
  \/ \E p \in Procs : Crash(p)
  \/ \E i \in Deletable : Delete(i)

Spec == Init /\ [][Next]_vars

-----------------------------------------------------------------------------
(* Properties.                                                               *)

TypeOK ==
  /\ store \in [Ids -> Content]
  /\ temp \in [Importers -> BOOLEAN] /\ orphan \in BOOLEAN
  /\ index \in [Ids -> [status : {"none", "available", "missing"}, digest : Content]]
  /\ pc \in [Procs -> Idle \cup {"compare", "copy", "copying", "promote", "upsert",
                                 "scan", "index", "mark"}]
  /\ bundle \in [Importers -> Sources]
  /\ todo \in [Syncers -> SUBSET Ids]
  /\ found \in [Syncers -> [Ids -> Content]]

\* The store is immutable: whoever imports what at the same time, a stored
\* bundle that nobody removes keeps its content (put's check and its rename are
\* two steps, with other imports between them).
StoreIsImmutable ==
  [][\A i \in Ids \ Deletable : store[i] # None => store'[i] = store[i]]_vars

\* An available row can be loaded: its digest is that of the bundle stored
\* under its id, while importers of other contents race and syncs replay what
\* they read some time ago.
RowsMatchStore ==
  \A i \in Ids \ Deletable :
    index[i].status = "available" => i \in Stored /\ store[i] = index[i].digest

\* What an importer or a syncer is about to write in the index is still true of
\* the store, and what a syncer has yet to load is still there.  With
\* RowsMatchStore it is the inductive invariant of the proofs.
WritersAreCurrent ==
  /\ \A p \in Importers :
        pc[p] = "upsert" /\ bundle[p].id \notin Deletable =>
          store[bundle[p].id] = bundle[p].content
  /\ \A s \in Syncers : \A i \in Ids \ Deletable : found[s][i] # None => store[i] = found[s][i]
  /\ \A s \in Syncers : pc[s] = "index" => todo[s] \subseteq Discovered(s)
  /\ \A s \in Syncers : pc[s] = "scan" => todo[s] \ Deletable \subseteq Stored
  /\ \A i \in Ids \ Deletable : store[i] # Damaged

IInv == TypeOK /\ RowsMatchStore /\ WritersAreCurrent

\* A sync is refused only for an entry that the operator took away or spoiled
\* under it: no import in progress, and nothing a dead one left, can stop it.
SyncSurvivesImports ==
  [][\A s \in Syncers : pc[s] # "refused" /\ pc'[s] = "refused" =>
        \E i \in todo[s] \cap Deletable : store[i] \notin Contents]_vars

\* Rebuildable projection: the index agrees with the store.
Consistent ==
  \A i \in Ids : /\ store[i] \in Contents => index[i] = Row(store[i])
                 /\ store[i] \notin Contents => index[i].status # "available"

\* Once importers have stopped and bundles are left alone, syncs that complete
\* bring the index in line with the store and keep it there, whatever crashes,
\* races and stale syncs came before.
Rebuilds ==
  /\ <>[](\A p \in Importers : pc[p] \in Idle)
  /\ <>[][UNCHANGED store]_vars
  /\ []<><<\E s \in Syncers : MarkMissing(s) /\ pc'[s] = "done">>_vars
  => <>[]Consistent

\* An import that returned exposes its bundle (src/tests/evidence/
\* test_history.py:91) as long as the bundle is stored.
ImportedIsAvailable ==
  \A p \in Importers :
    pc[p] = "done" /\ store[bundle[p].id] # None => index[bundle[p].id].status = "available"
=============================================================================
