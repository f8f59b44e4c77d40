----------------------------- MODULE Datastore -----------------------------
(***************************************************************************)
(* The OF-CONFIG datastores of ofc-server (ofconfig-datastore.c, with the  *)
(* top level of edit-config.c and the transactions of ovs-data.c).         *)
(*                                                                         *)
(* startup and candidate are XML documents in memory, changed in place by  *)
(* one atomic call.  running is the content of OVSDB, shown only while the *)
(* capable-switch has an id; it is changed in several steps, through an    *)
(* OVSDB transaction that may fail or be cut short by a crash.             *)
(*                                                                         *)
(* A document is abstracted to the set of configuration items under its    *)
(* root: the capable-switch id, rows that OVSDB collects once no bridge    *)
(* refers to them (Collected: bridges, ports, ...), and rows that stay     *)
(* until they are deleted (Queue, QoS).                                    *)
(***************************************************************************)
EXTENDS Naturals, Sequences, FiniteSets

CONSTANTS
    Id,           \* the item /capable-switch/id
    Collected,    \* items whose rows OVSDB garbage-collects
    Kept,         \* items whose rows belong to the OVSDB root set
    Targets,      \* datastores that clients change
    Inline,       \* contents of the documents that clients send
    MaxDels,      \* bound: delete operations in one edit-config
    MaxCrashes    \* bound: crashes of the server

Rows  == Collected \cup Kept
Items == Rows \cup {Id}
Xml   == {"startup", "candidate"}

ASSUME DatastoreAssumption ==
    /\ Id \notin Collected \cup Kept
    /\ Collected \cap Kept = {}
    /\ Targets \subseteq Xml \cup {"running"}
    /\ Inline \subseteq SUBSET (Collected \cup Kept \cup {Id})
    /\ MaxDels \in Nat
    /\ MaxCrashes \in Nat

(* xmlDocPtr: NULL, a document without a root element, or a document.      *)
Null    == [kind |-> "null", items |-> {}]
Empty   == [kind |-> "empty", items |-> {}]
Root(S) == [kind |-> "root", items |-> S]
Docs    == {Null, Empty} \cup {Root(S) : S \in SUBSET Items}

(* An edit-config: the default operation, the items with operation delete, *)
(* in document order, and the other items, which have no operation of      *)
(* their own (op = "default") or all the same one.  Or the root has an     *)
(* operation, and the items in it have none.                               *)
Edits ==
    [root : {"default"}, defop : {"merge", "none", "replace"},
     dels : UNION {[1..n -> Items] : n \in 0..MaxDels},
     op : {"default", "merge", "create", "replace", "remove"},
     adds : SUBSET Items]
    \cup [root : {"delete", "remove", "create", "replace"}, defop : {"merge"},
          dels : {<<>>}, op : {"default"}, adds : SUBSET Items]

VARIABLES
    up,        \* "up", "stopped" (main() returned) or "dead" (crashed)
    gds,       \* gds_startup and gds_cand
    file,      \* startup.xml
    cs_id,     \* the capable-switch id is set (static cs_id)
    db,        \* the rows in OVSDB
    txn,       \* the open OVSDB transaction
    rollback,  \* the document and datastore that a rollback restores
    work,      \* the operation on running in progress
    last,      \* history: the last operation, what it found, its result
    crashes

vars == <<up, gds, file, cs_id, db, txn, rollback, work, last, crashes>>

NoTxn == [open |-> FALSE, ins |-> {}, del |-> {}]
NewTxn == [NoTxn EXCEPT !.open = TRUE]
Idle == [phase |-> "idle", op |-> "none", dels |-> <<>>, rems |-> {},
         over |-> {}, adds |-> {}, gone |-> {}, noroot |-> FALSE,
         old |-> FALSE, replace |-> FALSE]

-----------------------------------------------------------------------------
(* The documents                                                           *)

\* ofc_get_config_data, read back: without an id there are no data, and the
\* empty string is parsed to NULL.
Running == IF cs_id THEN Root(db \cup {Id}) ELSE Null

Doc(t) == IF t = "running" THEN Running ELSE gds[t]

\* Variant: an empty datastore is not worth storing.
StoreRollbackIfAny(doc, t) ==
    rollback' = IF doc = Null THEN rollback ELSE [doc |-> doc, type |-> t]

\* store_rollback
StoreRollback(doc, t) == rollback' = [doc |-> doc, type |-> t]

Elements(s) == {s[k] : k \in DOMAIN s}

\* check_edit_ops: what is deleted exists, what is created does not, and no
\* delete under a default replace (check_edit_ops_hierarchy).  The other
\* operations are not checked.
CheckEditOps(r, doc) ==
    /\ Elements(r.dels) \subseteq doc.items
    /\ r.root = "delete" => doc.kind = "root"
    /\ r.root = "create" => doc.kind # "root"
    /\ r.op = "create" => r.adds \cap doc.items = {}
    /\ r.defop = "replace" => r.dels = <<>>

\* The operation is on the root, with all that is in it.
Whole(r) == r.root # "default" \/ r.defop = "replace"
Replaces(r) == r.root = "replace" \/ r.defop = "replace"

\* The items that edit_operations removes; and those that it creates, merges
\* or replaces: without an operation and without a default operation an
\* element is only a path.
Removed(r) == IF r.op = "remove" THEN r.adds ELSE {}
Added(r) == IF r.op = "remove" \/ (r.op = "default" /\ r.defop = "none")
            THEN {} ELSE r.adds

\* Variant: the id is taken for a row.
AnyRow(x) == {x}

\* The rows that an item has in OVSDB; the id is kept by the server.
Row(x) == {x} \ {Id}

Distinct(s) == \A j, k \in DOMAIN s : s[j] = s[k] => j = k

\* The deletes carried out when the k-th one finds its element gone.
DeletedBefore(s) ==
    {s[k] : k \in {n \in DOMAIN s : Distinct(SubSeq(s, 1, n))}}

\* edit_operations on an XML document: deletes, then removes, replaces,
\* creates and merges, in place.  A second delete of the same element fails
\* with data-missing and leaves the first ones done.
EditOperations(r, doc) ==
    CASE r.root \in {"delete", "remove"} ->
            [ok |-> TRUE, doc |-> IF doc.kind = "root" THEN Empty ELSE doc]
      [] r.root \in {"create", "replace"} \/ r.defop = "replace" ->
            [ok |-> TRUE, doc |-> Root(r.adds)]
      [] ~Whole(r) /\ ~Distinct(r.dels) ->
            [ok |-> FALSE, doc |-> Root(doc.items \ DeletedBefore(r.dels))]
      [] OTHER ->
            [ok |-> TRUE,
             doc |-> IF r.defop = "none" /\ Added(r) = {} /\ doc.kind # "root"
                     THEN doc
                     ELSE Root((doc.items \ (Elements(r.dels) \cup Removed(r)))
                                 \cup Added(r))]

-----------------------------------------------------------------------------
Init ==
    /\ up = "dead"
    /\ gds = [t \in Xml |-> Null]
    /\ file \in {Null, Root({Id}), Root({Id} \cup Rows)}
    /\ cs_id = FALSE
    /\ db \in SUBSET Rows
    /\ txn = NoTxn
    /\ rollback = [doc |-> Null, type |-> "error"]
    /\ work = Idle
    /\ last = [op |-> "none", target |-> "error", doc |-> Null, rows |-> {},
               src |-> Null, shown |-> FALSE, stored |-> FALSE, res |-> "ok"]
    /\ crashes = 0

Ready == up = "up" /\ work = Idle

\* stored: the operation came to store_rollback.
Note(op, t, src, res) ==
    last' = [op |-> op, target |-> t, doc |-> Doc(t), rows |-> db,
             src |-> src, shown |-> cs_id, stored |-> op # "refused",
             res |-> res]

\* A rollback keeps what the operation it undoes had found.
Again(res) ==
    last' = [last EXCEPT !.op = "rollback", !.shown = cs_id, !.res = res]

Done(res) == work' = Idle /\ last' = [last EXCEPT !.res = res]

\* The operation failed; a failure of the copy at the start ends main().
Failed == IF work.op = "boot"
          THEN work' = [work EXCEPT !.phase = "failed"] /\ UNCHANGED last
          ELSE Done("fail")

-----------------------------------------------------------------------------
(* startup and candidate                                                   *)

\* Data that do not parse, or another root element: refused before anything
\* is stored for a rollback.
EditRefused(t) ==
    /\ Ready
    /\ Note("refused", t, Null, "fail")
    /\ UNCHANGED <<up, gds, file, cs_id, db, txn, rollback, work, crashes>>

\* ofcds_editconfig: check_keys (a list instance without its key), or
\* check_edit_ops, fails; what a rollback would restore is replaced already.
EditChecksFail(t) ==
    /\ Ready
    /\ StoreRollback(Doc(t), t)
    /\ Note("edit", t, Null, "fail")
    /\ UNCHANGED <<up, gds, file, cs_id, db, txn, work, crashes>>

EditXml(t, r) ==
    /\ Ready
    /\ CheckEditOps(r, gds[t])
    /\ LET e == EditOperations(r, gds[t])
       IN  /\ gds' = [gds EXCEPT ![t] = e.doc]
           /\ Note("edit", t, Null, IF e.ok THEN "ok" ELSE "fail")
    /\ StoreRollback(gds[t], t)
    /\ UNCHANGED <<up, file, cs_id, db, txn, work, crashes>>

\* The source of a copy-config: a datastore, or data in the request (or the
\* empty string).  Running without data is no valid source.
Sources ==
    {d \in Docs : \/ d # Empty /\ (d.kind = "root" => d.items \in Inline)
                  \/ d = Running /\ cs_id
                  \/ \E t \in Xml : d = gds[t]}

\* ofcds_copyconfig: the old document is kept for a rollback.
CopyXml(t, src) ==
    /\ Ready
    /\ gds' = [gds EXCEPT ![t] = src]
    /\ StoreRollback(gds[t], t)
    /\ Note("copy", t, src, "ok")
    /\ UNCHANGED <<up, file, cs_id, db, txn, work, crashes>>

\* ofcds_deleteconfig; running is refused.
DeleteConfig(t) ==
    /\ Ready
    /\ gds' = [gds EXCEPT ![t] = Null]
    /\ StoreRollback(gds[t], t)
    /\ Note("delete", t, Null, "ok")
    /\ UNCHANGED <<up, file, cs_id, db, txn, work, crashes>>

-----------------------------------------------------------------------------
(* running                                                                 *)

\* edit_create is called for the root, and finds no id in it: the operation
\* of its own that the id has is done before.
CreatesRoot(r) ==
    \/ r.root = "create" \/ Replaces(r)
    \/ ~Whole(r) /\ r.defop = "merge" /\ ~cs_id
LacksId(r) ==
    Id \notin r.adds \/ (~Whole(r) /\ r.op \notin {"default", "merge"})

\* The first steps of edit-config.  A replace of the existing root starts
\* with txn_del_all; its deletion never leaves it.  noroot: the edit creates
\* a root that has no id, which fails.  over: items that a replace deletes
\* before it creates them.
BeginEdit(r) ==
    /\ Ready
    /\ CheckEditOps(r, Running)
    /\ StoreRollback(Running, "running")
    /\ txn' = NewTxn
    /\ LET noroot == CreatesRoot(r) /\ LacksId(r)
           left   == Running.items \ Elements(r.dels)
       IN  work' = [phase |-> CASE r.root \in {"delete", "remove"} /\ cs_id -> "spin"
                                [] Replaces(r) /\ cs_id                   -> "wipe"
                                [] OTHER                                  -> "apply",
                    op |-> "edit", dels |-> r.dels,
                    rems |-> IF Whole(r) THEN {} ELSE Removed(r) \cap left,
                    over |-> IF ~Whole(r) /\ r.op = "replace" THEN r.adds \cap left
                             ELSE {},
                    adds |-> CASE r.root \in {"delete", "remove"} -> {}
                               [] Whole(r) /\ CreatesRoot(r) -> IF noroot THEN {} ELSE r.adds
                               [] ~Whole(r) /\ noroot /\ r.op \in {"default", "merge"} -> {}
                               [] ~Whole(r) /\ r.op = "replace" -> r.adds
                               [] OTHER -> Added(r) \ left,
                    gone |-> {}, noroot |-> noroot, old |-> cs_id,
                    replace |-> r.defop = "replace"]
    /\ Note(IF Replaces(r) THEN "replace" ELSE "edit", "running", Null, "busy")
    /\ UNCHANGED <<up, gds, file, cs_id, db, crashes>>

\* copy-config to running with edit_replace: if there is an old root, or no
\* new one, txn_del_all comes first; a new root needs an id.
ReplaceRunning(op, src) ==
    work' = [phase |-> IF cs_id \/ src.kind # "root" THEN "wipe" ELSE "apply",
             op |-> op, dels |-> <<>>, rems |-> {}, over |-> {},
             adds |-> IF Id \in src.items THEN src.items ELSE {},
             gone |-> {}, noroot |-> src.kind = "root" /\ Id \notin src.items,
             old |-> cs_id, replace |-> FALSE]

BeginCopy(src) ==
    /\ Ready
    /\ StoreRollback(IF cs_id THEN Running ELSE Empty, "running")
    /\ txn' = NewTxn
    /\ ReplaceRunning("copy", src)
    /\ Note("copy", "running", src, "busy")
    /\ UNCHANGED <<up, gds, file, cs_id, db, crashes>>

\* ofcds_rollback: copy-config of the stored document, which is dumped and
\* parsed again.  The dump of a document without a root is no XML document.
RollbackFails ==
    /\ Ready
    /\ rollback.type = "error" \/ rollback.doc = Empty
    /\ Again("fail")
    /\ UNCHANGED <<up, gds, file, cs_id, db, txn, rollback, work, crashes>>

Rollback ==
    /\ Ready
    /\ rollback.type # "error" /\ rollback.doc # Empty
    /\ IF rollback.type = "running"
       THEN /\ txn' = NewTxn
            /\ ReplaceRunning("rollback", rollback.doc)
            /\ Again("busy")
            /\ UNCHANGED gds
       ELSE /\ gds' = [gds EXCEPT ![rollback.type] = rollback.doc]
            /\ Again("ok")
            /\ UNCHANGED <<txn, work>>
    /\ UNCHANGED <<up, file, cs_id, db, rollback, crashes>>

-----------------------------------------------------------------------------
(* The transaction on running                                              *)

Step(p) == up = "up" /\ work.phase = p

\* The content of OVSDB once a transaction is committed.
Committed == (db \ txn.del) \cup txn.ins

\* Variant: the rows of the root set are left to the garbage collection.
TxnDelAllOnce ==
    /\ db' = Committed \ Collected
    /\ txn' = NewTxn
    /\ cs_id' = FALSE

\* txn_del_all: everything that is collected goes with a commit of its own,
\* the rest is deleted in a second transaction; the id is forgotten at once.
TxnDelAll ==
    /\ db' = Committed \ Collected
    /\ txn' = [NewTxn EXCEPT !.del = Committed \ Collected]
    /\ cs_id' = FALSE

Wipe ==
    /\ Step("wipe")
    /\ TxnDelAll
    /\ work' = [work EXCEPT !.phase = "apply"]
    /\ UNCHANGED <<up, gds, file, rollback, last, crashes>>

\* edit_operations finds the root again after its deletion from OVSDB, and
\* edit_replace the element it could not create: the loop has no end.
Spin ==
    /\ Step("spin")
    /\ IF work.old THEN TxnDelAll ELSE UNCHANGED <<db, txn, cs_id>>
    /\ UNCHANGED <<up, gds, file, rollback, work, last, crashes>>

\* Variants: the transaction stays open; what was prepared is committed.
TxnAbortLater == UNCHANGED <<txn, db>>

TxnAbortCommits == txn' = NoTxn /\ db' = Committed

\* txn_abort, on every error of an edit.
TxnAbort == txn' = NoTxn /\ UNCHANGED db

\* A step of the edit fails.  The default replace ignores it and goes on
\* with the same element for ever; an error of another edit ends it.
ApplyFails ==
    \/ /\ work.replace
       /\ work' = [work EXCEPT !.phase = "spin"]
       /\ UNCHANGED <<txn, db, last>>
    \/ /\ ~work.replace
       /\ TxnAbort
       /\ Failed

\* Variant: the element is not taken out of the edit document.
DeleteAgain(x) == UNCHANGED work

\* edit_delete took the element out of the documents.
Deleted(x) ==
    work' = [work EXCEPT !.dels = Tail(@), !.gone = @ \cup {x}]

\* One delete operation: the id is unset at once, a row with the commit.
EditDelete ==
    /\ Step("apply")
    /\ work.dels # <<>>
    /\ LET x == Head(work.dels)
       IN  \/ /\ x \in work.gone \/ x # Id
              /\ ApplyFails
              /\ UNCHANGED cs_id
           \/ /\ x \notin work.gone
              /\ Deleted(x)
              /\ cs_id' = (cs_id /\ x # Id)
              /\ txn' = [txn EXCEPT !.del = @ \cup Row(x)]
              /\ UNCHANGED <<db, last>>
    /\ UNCHANGED <<up, gds, file, rollback, crashes>>

\* One remove operation, of an element that is there.
EditRemove ==
    /\ Step("apply")
    /\ work.dels = <<>>
    /\ \E x \in work.rems :
         \/ /\ x # Id
            /\ ApplyFails
            /\ UNCHANGED cs_id
         \/ /\ work' = [work EXCEPT !.rems = @ \ {x}]
            /\ cs_id' = (cs_id /\ x # Id)
            /\ txn' = [txn EXCEPT !.del = @ \cup Row(x)]
            /\ UNCHANGED <<db, last>>
    /\ UNCHANGED <<up, gds, file, rollback, crashes>>

\* One element created, merged or replaced: the id is set at once, a row is
\* inserted with the commit, and its predecessor deleted.
EditCreate ==
    /\ Step("apply")
    /\ work.dels = <<>> /\ work.rems = {}
    /\ \E x \in work.adds :
         \/ /\ x # Id
            /\ ApplyFails
            /\ UNCHANGED cs_id
         \/ /\ work' = [work EXCEPT !.adds = @ \ {x}]
            /\ cs_id' = (cs_id \/ x = Id)
            /\ txn' = [txn EXCEPT !.ins = @ \cup Row(x),
                                  !.del = @ \cup (Row(x) \cap work.over)]
            /\ UNCHANGED <<db, last>>
    /\ UNCHANGED <<up, gds, file, rollback, crashes>>

Applied ==
    Step("apply") /\ work.dels = <<>> /\ work.rems = {} /\ work.adds = {}

\* edit_create refuses a capable-switch without an id.
MissingId ==
    /\ Applied
    /\ work.noroot
    /\ ApplyFails
    /\ UNCHANGED <<up, gds, file, cs_id, rollback, crashes>>

\* txn_commit.  It may fail for reasons of OVSDB, and does when a bridge is
\* inserted twice (its name is an index of the table).
CommitFails ==
    /\ Applied
    /\ ~work.noroot
    /\ TxnAbort
    /\ Failed
    /\ UNCHANGED <<up, gds, file, cs_id, rollback, crashes>>

TxnCommit ==
    /\ Applied
    /\ ~work.noroot
    /\ txn.ins \cap (db \ txn.del) \cap Collected = {}
    /\ db' = Committed
    /\ txn' = NoTxn
    /\ \/ work.op # "edit" /\ Done("ok")
       \/ /\ work.op = "edit"
          /\ work' = [work EXCEPT !.phase = "post"]
          /\ UNCHANGED last
    /\ UNCHANGED <<up, gds, file, cs_id, rollback, crashes>>

\* of_post_ports, after the commit: OpenFlow settings of the ports that were
\* added.  Its error is the result of the edit.
PostPorts ==
    /\ Step("post")
    /\ Done("ok") \/ Done("late")
    /\ UNCHANGED <<up, gds, file, cs_id, db, txn, rollback, crashes>>

-----------------------------------------------------------------------------
(* The life of the server                                                  *)

NoRollback == [doc |-> Null, type |-> "error"]

\* What startup.xml gives back: a file without a root element is no data.
Load(doc) == IF doc.kind = "root" THEN doc ELSE Null

\* Variant: the file of a deleted startup is not erased.
SaveStartupIfAny ==
    file' = IF gds["startup"].kind = "null" THEN file ELSE gds["startup"]

\* ofcds_free: startup is written, or the file truncated.
SaveStartup == file' = gds["startup"]

\* main() after a signal, between two requests.
Stop ==
    /\ Ready
    /\ SaveStartup
    /\ up' = "stopped"
    /\ cs_id' = FALSE
    /\ rollback' = NoRollback
    /\ UNCHANGED <<gds, db, txn, work, last, crashes>>

\* ncds_device_init failed: main() cleans up and ends.
BootFails ==
    /\ Step("failed")
    /\ SaveStartup
    /\ up' = "stopped"
    /\ cs_id' = FALSE
    /\ rollback' = NoRollback
    /\ work' = Idle
    /\ last' = [last EXCEPT !.res = "fail"]
    /\ UNCHANGED <<gds, db, txn, crashes>>

\* The process is gone: nothing is saved, an open transaction is dropped.
Dies ==
    /\ up' = "dead"
    /\ gds' = [t \in Xml |-> Null]
    /\ cs_id' = FALSE
    /\ txn' = NoTxn
    /\ rollback' = NoRollback
    /\ work' = Idle
    /\ last' = [last EXCEPT !.op = "none"]
    /\ UNCHANGED <<file, db>>

Crash ==
    /\ up = "up"
    /\ crashes < MaxCrashes
    /\ crashes' = crashes + 1
    /\ Dies

\* txn_del_all commits with txn_commit(NULL): if OVSDB refuses, the error is
\* stored through the null pointer.
WipeCrashes ==
    /\ Step("wipe") \/ (Step("spin") /\ work.old)
    /\ Dies
    /\ UNCHANGED crashes

\* ofcds_init reads startup.xml; ncds_device_init (libnetconf) then copies
\* startup to running.
Start ==
    /\ up # "up"
    /\ up' = "up"
    /\ gds' = [t \in Xml |-> IF t = "startup" THEN Load(file) ELSE Null]
    /\ rollback' = [doc |-> Empty, type |-> "running"]
    /\ txn' = NewTxn
    /\ ReplaceRunning("boot", Load(file))
    /\ Note("boot", "running", Load(file), "busy")
    /\ UNCHANGED <<file, cs_id, db, crashes>>

-----------------------------------------------------------------------------
Request ==
    \/ \E t \in Targets : EditRefused(t) \/ EditChecksFail(t)
    \/ \E t \in Targets \cap Xml, r \in Edits : EditXml(t, r)
    \/ \E t \in Targets \cap Xml, src \in Sources : CopyXml(t, src)
    \/ \E t \in Targets \cap Xml : DeleteConfig(t)
    \/ "running" \in Targets /\ \E r \in Edits : BeginEdit(r)
    \/ "running" \in Targets /\ \E src \in Sources : BeginCopy(src)
    \/ Rollback \/ RollbackFails

Work ==
    \/ Wipe \/ Spin \/ EditDelete \/ EditRemove \/ EditCreate \/ MissingId
    \/ TxnCommit \/ CommitFails \/ PostPorts \/ BootFails

Next == Request \/ Work \/ Stop \/ Crash \/ WipeCrashes \/ Start

Spec == Init /\ [][Next]_vars

\* The server thread runs as long as there is something to do.
FairSpec == Spec /\ WF_vars(Work)
-----------------------------------------------------------------------------
(* Properties                                                              *)

\* Type invariant: the range of every variable; in particular a row of the
\* database belongs to a known item, and a transaction is never half open.
TypeOK ==
    /\ up \in {"up", "stopped", "dead"}
    /\ gds \in [Xml -> Docs]
    /\ file \in Docs
    /\ cs_id \in BOOLEAN
    /\ db \subseteq Rows
    /\ txn \in [open : BOOLEAN, ins : SUBSET Rows, del : SUBSET Rows]
    /\ rollback \in [doc : Docs, type : Xml \cup {"running", "error"}]
    /\ work \in [phase : {"idle", "wipe", "apply", "spin", "post", "failed"},
                 op : {"none", "edit", "copy", "rollback", "boot"},
                 dels : Seq(Items), rems : SUBSET Items, over : SUBSET Items,
                 adds : SUBSET Items, gone : SUBSET Items,
                 noroot : BOOLEAN, old : BOOLEAN, replace : BOOLEAN]
    /\ last \in [op : {"none", "edit", "replace", "copy", "delete", "rollback",
                       "refused", "boot"},
                 target : Xml \cup {"running", "error"}, doc : Docs,
                 rows : SUBSET Rows, src : Docs,
                 shown : BOOLEAN, stored : BOOLEAN,
                 res : {"busy", "ok", "fail", "late"}]
    /\ crashes \in Nat

\* txn_init never finds a transaction that an earlier operation left open,
\* and no step of an edit runs without one, whichever step fails.
SingleTransaction ==
    /\ txn.open <=> work.phase \in {"wipe", "apply", "spin"}
    /\ ~txn.open => txn = NoTxn

\* An edit-config of running that is refused, or that fails in one of its
\* operations or in its commit, leaves OVSDB as it found it; one that replaces
\* the root, explicitly or by default, may have wiped it (txn_del_all commits),
\* but for the rows that OVSDB does not collect, and put nothing in its place.
\* (If of_post_ports fails the edit is in OVSDB: its result is "late".)
FailedEditKeepsOVSDB ==
    (Ready /\ last.op \in {"edit", "replace"} /\ last.target = "running"
           /\ last.res = "fail")
        => \/ db = last.rows
           \/ last.op = "replace" /\ db = last.rows \ Collected

\* A copy-config to running that succeeds leaves exactly the source there,
\* whatever was in OVSDB: rows that are collected, and those that are not.
\* (Where running showed no data before, edit_replace deletes nothing.)
CopyReplaces ==
    (Ready /\ last.op = "copy" /\ last.target = "running" /\ last.res = "ok"
           /\ (last.shown \/ last.src.kind # "root"))
        => Running = Load(last.src) /\ db = last.src.items \ {Id}

\* A rollback that succeeds brings back what the operation before had found,
\* also when that failed half way: for startup and candidate always, for
\* running if it shows an id when the rollback starts.  The operation must
\* have come to store_rollback.
RollbackUndoes ==
    (Ready /\ last.op = "rollback" /\ last.res = "ok" /\ last.stored
           /\ (last.target \in Xml \/ last.shown))
        => Doc(last.target) = last.doc

\* A clean stop and a start keep the startup datastore: nothing is lost, and
\* nothing that was deleted comes back.
CleanRestartKeepsStartup ==
    [][up = "stopped" /\ up' = "up" =>
         gds'["startup"].items = gds["startup"].items]_vars

\* Every operation on running comes to an end, whichever of its steps fails,
\* but for edits of the whole document (EveryEditReturns).
OperationsReturn ==
    (work.phase \notin {"idle", "spin"} /\ ~work.replace) ~> (work.phase = "idle")

\* edit_operations always returns, with an error or without.
EveryEditReturns == (work.phase # "idle") ~> (work.phase = "idle")
=============================================================================
