-------------------------- MODULE DatastoreProofs --------------------------
(***************************************************************************)
(* Proofs about Datastore, for any set of rows, any documents and edits of *)
(* any length, any number of crashes.                                      *)
(***************************************************************************)
EXTENDS Datastore, SequenceTheorems, TLAPS

-----------------------------------------------------------------------------
(* The inductive invariant                                                 *)

\* An operation on running has no result yet, and is noted as such.  (The
\* rollback after a refused edit may restore another datastore.)
BusyInv ==
    work.phase # "idle" =>
        last.res = "busy" /\ (last.stored => last.target = "running")

\* OVSDB is as the edit has found it, or wiped by the replace of the root.
Found ==
    db = last.rows \/ (last.op = "replace" /\ db = last.rows \ Collected)

\* Until its commit an edit-config has changed nothing in OVSDB but by
\* txn_del_all.  (The edit that deletes the root never gets to an end.)
EditInv ==
    last.op \in {"edit", "replace"} /\ last.target = "running" =>
        /\ work.phase \in {"idle", "wipe", "apply", "spin", "post"}
        /\ work.phase \in {"wipe", "apply"} => work.op = "edit"
        /\ work.phase = "idle" /\ last.res = "fail" => Found
        /\ work.phase = "wipe" =>
              last.op = "replace" /\ db = last.rows /\ txn = NewTxn
        /\ work.phase = "apply" => Found

\* The document that a copy-config or a rollback brings to running.
Goal == IF last.op = "copy" THEN last.src ELSE last.doc

\* A replacement of running that began with txn_del_all.
Replacing ==
    /\ last.op = "copy" \/ (last.op = "rollback" /\ last.stored)
    /\ last.target = "running"
    /\ last.shown \/ Goal.kind # "root"

\* What txn_del_all has left is deleted with the commit; what the goal has is
\* inserted or will be.
ReplaceInv ==
    Replacing =>
        /\ work.phase \in {"idle", "wipe", "apply"}
        /\ work.phase = "idle" /\ up = "up" /\ last.res = "ok" =>
              Running = Load(Goal) /\ db = Goal.items \ {Id}
        /\ work.phase \in {"wipe", "apply"} =>
              /\ work.op = last.op /\ ~work.replace /\ work.dels = <<>>
              /\ work.rems = {} /\ work.over = {}
              /\ work.noroot <=> Goal.kind = "root" /\ Id \notin Goal.items
        /\ work.phase = "wipe" /\ ~work.noroot => work.adds = Goal.items
        /\ work.phase = "apply" /\ ~work.noroot =>
              /\ txn.del = db
              /\ txn.ins \cup (work.adds \ {Id}) = Goal.items \ {Id}
              /\ (cs_id \/ Id \in work.adds) <=> Id \in Goal.items

\* What a rollback restores is what the last operation had found, if that came
\* to store_rollback.
RollbackInv ==
    up = "up" /\ last.stored =>
        /\ rollback.type # "error" /\ rollback.doc # Empty =>
              rollback.type = last.target /\ rollback.doc = last.doc
        /\ last.op = "rollback" /\ last.res # "fail" => last.doc # Empty

\* startup.xml is what the server had in memory when it stopped.
FileInv == up = "stopped" => file = gds["startup"]

\* Nothing is in progress, and nothing is shown, while no server runs.
DownInv == up # "up" => work.phase = "idle" /\ ~cs_id

IInv ==
    /\ TypeOK /\ SingleTransaction /\ BusyInv /\ EditInv /\ ReplaceInv
    /\ RollbackInv /\ RollbackUndoes /\ FileInv /\ DownInv

-----------------------------------------------------------------------------
(* Types                                                                   *)

Phases  == {"idle", "wipe", "apply", "spin", "post", "failed"}
Targeted == Xml \cup {"running", "error"}

WorkType ==
    [phase : Phases, op : {"none", "edit", "copy", "rollback", "boot"},
     dels : Seq(Items), rems : SUBSET Items, over : SUBSET Items,
     adds : SUBSET Items, gone : SUBSET Items,
     noroot : BOOLEAN, old : BOOLEAN, replace : BOOLEAN]

LastType ==
    [op : {"none", "edit", "replace", "copy", "delete", "rollback", "refused", "boot"},
     target : Targeted, doc : Docs, rows : SUBSET Rows, src : Docs, shown : BOOLEAN,
     stored : BOOLEAN, res : {"busy", "ok", "fail", "late"}]

TxnType == [open : BOOLEAN, ins : SUBSET Rows, del : SUBSET Rows]

\* The kinds of documents: only one with a root element has items.
LEMMA DocKinds ==
    /\ Null \in Docs /\ Empty \in Docs
    /\ \A S \in SUBSET Items : Root(S) \in Docs
    /\ \A d \in Docs : /\ d.kind \in {"null", "empty", "root"} /\ d.items \subseteq Items
                       /\ d.kind = "root" => d = Root(d.items)
                       /\ d.kind # "root" => d.items = {}
                       /\ d.kind = "null" <=> d = Null
                       /\ d.kind = "empty" <=> d = Empty
    /\ \A S : Root(S).kind = "root" /\ Root(S).items = S
<1>1. /\ Null.kind = "null" /\ Null.items = {} /\ Empty.kind = "empty" /\ Empty.items = {}
      /\ \A S : Root(S).kind = "root" /\ Root(S).items = S
  BY DEF Null, Empty, Root
<1>2. ASSUME NEW d \in Docs
      PROVE  d = Null \/ d = Empty \/ \E S \in SUBSET Items : d = Root(S)
  BY DEF Docs
<1>3. Null \in Docs /\ Empty \in Docs /\ \A S \in SUBSET Items : Root(S) \in Docs
  BY DEF Docs
<1> QED BY <1>1, <1>2, <1>3

\* The documents of the datastores.
LEMMA DocTypes ==
    ASSUME TypeOK
    PROVE  /\ Running \in Docs
           /\ \A t \in Xml \cup {"running"} : Doc(t) \in Docs
           /\ Load(file) \in Docs
           /\ \A d \in Docs : Load(d) \in Docs
<1>1. db \cup {Id} \in SUBSET Items
  BY DEF TypeOK, Items
<1> QED BY <1>1, DocKinds DEF TypeOK, Running, Doc, Load

\* What the program starts with has the types of the variables.
LEMMA InitTypes == Init => TypeOK
<1> SUFFICES ASSUME Init PROVE TypeOK
  OBVIOUS
<1>1. file \in Docs /\ gds \in [Xml -> Docs]
  BY DocKinds DEF Init, Items
<1>2. work \in WorkType /\ txn \in TxnType /\ last \in LastType
  BY DocKinds DEF Init, WorkType, TxnType, LastType, Idle, NoTxn, Phases, Targeted
<1> QED
  BY <1>1, <1>2, DocKinds DEF Init, TypeOK, WorkType, TxnType, LastType, Phases, Targeted

\* The parts of TypeOK, with the records by name.
LEMMA TypeParts ==
    TypeOK <=> /\ up \in {"up", "stopped", "dead"} /\ gds \in [Xml -> Docs]
               /\ file \in Docs /\ cs_id \in BOOLEAN /\ db \subseteq Rows
               /\ txn \in TxnType /\ rollback \in [doc : Docs, type : Targeted]
               /\ work \in WorkType /\ last \in LastType /\ crashes \in Nat
BY DEF TypeOK, WorkType, LastType, TxnType, Phases, Targeted

\* The history variable keeps its type.
LEMMA NoteTypes ==
    ASSUME TypeOK
    PROVE  /\ \A op \in {"edit", "replace", "copy", "delete", "refused", "boot"},
                 t \in Xml \cup {"running"}, src \in Docs,
                 res \in {"busy", "ok", "fail", "late"} :
                 Note(op, t, src, res) => last' \in LastType
           /\ \A res \in {"busy", "ok", "fail", "late"} :
                 /\ Again(res) => last' \in LastType
                 /\ Done(res) => last' \in LastType /\ work' \in WorkType
           /\ Failed => last' \in LastType /\ work' \in WorkType
<1>0. last \in LastType /\ db \subseteq Rows /\ cs_id \in BOOLEAN /\ work \in WorkType
  BY TypeParts
<1>1. ASSUME NEW op \in {"edit", "replace", "copy", "delete", "refused", "boot"},
             NEW t \in Xml \cup {"running"}, NEW src \in Docs,
             NEW res \in {"busy", "ok", "fail", "late"}, Note(op, t, src, res)
      PROVE  last' \in LastType
  <2>1. Doc(t) \in Docs
    BY DocTypes
  <2> QED BY <1>0, <1>1, <2>1 DEF Note, LastType, Targeted
<1>2. Idle \in WorkType
  BY DEF Idle, WorkType, Phases
<1>3. \A res \in {"busy", "ok", "fail", "late"} :
          /\ Again(res) => last' \in LastType
          /\ Done(res) => last' \in LastType /\ work' \in WorkType
  BY <1>0, <1>2 DEF Again, Done, LastType
<1>4. Failed => last' \in LastType /\ work' \in WorkType
  BY <1>0, <1>3 DEF Failed, WorkType, Phases
<1> QED BY <1>1, <1>3, <1>4

\* The transactions and their ends keep the types.
LEMMA TxnTypes ==
    ASSUME TypeOK
    PROVE  /\ NoTxn \in TxnType /\ NewTxn \in TxnType /\ Committed \subseteq Rows
           /\ TxnDelAll => db' \subseteq Rows /\ txn' \in TxnType /\ cs_id' = FALSE
           /\ TxnAbort => db' \subseteq Rows /\ txn' \in TxnType
           /\ ApplyFails => /\ db' \subseteq Rows /\ txn' \in TxnType
                            /\ last' \in LastType /\ work' \in WorkType
<1>0. db \subseteq Rows /\ txn \in TxnType /\ work \in WorkType /\ last \in LastType
  BY TypeParts
<1>1. NoTxn \in TxnType /\ NewTxn \in TxnType /\ Committed \subseteq Rows
  BY <1>0 DEF NoTxn, NewTxn, TxnType, Committed
<1>2. TxnDelAll => db' \subseteq Rows /\ txn' \in TxnType /\ cs_id' = FALSE
  BY <1>0, <1>1 DEF TxnDelAll, TxnType
<1>3. TxnAbort => db' \subseteq Rows /\ txn' \in TxnType
  BY <1>0, <1>1 DEF TxnAbort
<1>4. ApplyFails => /\ db' \subseteq Rows /\ txn' \in TxnType
                    /\ last' \in LastType /\ work' \in WorkType
  <2>1. [work EXCEPT !.phase = "spin"] \in WorkType
    BY <1>0 DEF WorkType, Phases
  <2> QED BY <1>0, <1>3, <2>1, NoteTypes DEF ApplyFails
<1> QED BY <1>1, <1>2, <1>3, <1>4

\* An edit-config in parts.
LEMMA EditTypes ==
    ASSUME NEW r \in Edits
    PROVE  /\ r.dels \in Seq(Items) /\ r.adds \subseteq Items
           /\ Added(r) \subseteq Items /\ Removed(r) \subseteq Items
<1>1. UNION {[1..n -> Items] : n \in 0..MaxDels} \subseteq Seq(Items)
  BY DatastoreAssumption, SeqDef
<1>2. <<>> \in Seq(Items)
  OBVIOUS
<1>3. r.dels \in Seq(Items) /\ r.adds \subseteq Items
  <2>1. CASE r.root = "default"
    BY <1>1, <2>1 DEF Edits
  <2>2. CASE r.root # "default"
    BY <1>2, <2>2 DEF Edits
  <2> QED BY <2>1, <2>2
<1> QED BY <1>3 DEF Added, Removed

\* edit_operations turns a document into a document.
LEMMA EditOperationsTypes ==
    ASSUME NEW r \in Edits, NEW doc \in Docs
    PROVE  EditOperations(r, doc).doc \in Docs
<1>1. r.adds \subseteq Items /\ Added(r) \subseteq Items /\ doc.items \subseteq Items
  BY EditTypes, DocKinds
<1>2. /\ Empty \in Docs /\ Root(r.adds) \in Docs
      /\ Root(doc.items \ DeletedBefore(r.dels)) \in Docs
      /\ Root((doc.items \ (Elements(r.dels) \cup Removed(r))) \cup Added(r)) \in Docs
  BY <1>1, DocKinds
<1> QED BY <1>2 DEF EditOperations

\* A request on startup or candidate keeps the types.
LEMMA XmlTypes ==
    ASSUME TypeOK,
           \/ \E t \in Targets : EditRefused(t) \/ EditChecksFail(t)
           \/ \E t \in Targets \cap Xml, r \in Edits : EditXml(t, r)
           \/ \E t \in Targets \cap Xml, src \in Sources : CopyXml(t, src)
           \/ \E t \in Targets \cap Xml : DeleteConfig(t)
    PROVE  TypeOK'
<1> USE DatastoreAssumption
<1>0. /\ gds \in [Xml -> Docs] /\ last \in LastType
      /\ rollback \in [doc : Docs, type : Targeted]
  BY TypeParts
<1>1. ASSUME NEW t \in Targets, EditRefused(t) PROVE TypeOK'
  <2>1. last' \in LastType
    BY <1>1, NoteTypes, DocKinds DEF EditRefused
  <2> QED BY <1>1, <2>1, TypeParts DEF EditRefused, TypeOK, LastType, Targeted
<1>2. ASSUME NEW t \in Targets, EditChecksFail(t) PROVE TypeOK'
  <2>1. last' \in LastType
    BY <1>2, NoteTypes, DocKinds DEF EditChecksFail
  <2>2. rollback' \in [doc : Docs, type : Targeted]
    BY <1>2, DocTypes DEF EditChecksFail, StoreRollback, Targeted
  <2> QED BY <1>2, <2>1, <2>2 DEF EditChecksFail, TypeOK, LastType, Targeted
<1>3. ASSUME NEW t \in Xml, StoreRollback(gds[t], t)
      PROVE  rollback' \in [doc : Docs, type : Targeted]
  BY <1>0, <1>3 DEF StoreRollback, Targeted
<1>4. ASSUME NEW t \in Targets \cap Xml, NEW r \in Edits, EditXml(t, r) PROVE TypeOK'
  <2>1. EditOperations(r, gds[t]).doc \in Docs
    BY <1>0, EditOperationsTypes
  <2>2. gds' \in [Xml -> Docs]
    BY <1>0, <1>4, <2>1 DEF EditXml
  <2>3. last' \in LastType
    BY <1>4, NoteTypes, DocKinds DEF EditXml
  <2> QED BY <1>3, <1>4, <2>2, <2>3 DEF EditXml, TypeOK, LastType, Targeted
<1>5. ASSUME NEW t \in Targets \cap Xml, NEW src \in Sources, CopyXml(t, src) PROVE TypeOK'
  <2>1. src \in Docs
    BY DEF Sources
  <2>2. gds' \in [Xml -> Docs]
    BY <1>0, <1>5, <2>1 DEF CopyXml
  <2>3. last' \in LastType
    BY <1>5, <2>1, NoteTypes DEF CopyXml
  <2> QED BY <1>3, <1>5, <2>2, <2>3 DEF CopyXml, TypeOK, LastType, Targeted
<1>6. ASSUME NEW t \in Targets \cap Xml, DeleteConfig(t) PROVE TypeOK'
  <2>1. gds' \in [Xml -> Docs]
    BY <1>0, <1>6, DocKinds DEF DeleteConfig
  <2>2. last' \in LastType
    BY <1>6, NoteTypes, DocKinds DEF DeleteConfig
  <2> QED BY <1>3, <1>6, <2>1, <2>2 DEF DeleteConfig, TypeOK, LastType, Targeted
<1> QED BY <1>1, <1>2, <1>4, <1>5, <1>6

\* An operation on running begins with a record of its steps.
LEMMA ReplaceTypes ==
    ASSUME TypeOK, NEW op \in {"copy", "rollback", "boot"}, NEW src \in Docs,
           ReplaceRunning(op, src)
    PROVE  work' \in WorkType
<1>1. src.items \subseteq Items /\ cs_id \in BOOLEAN /\ <<>> \in Seq(Items)
  BY DocKinds, TypeParts
<1> QED BY <1>1 DEF ReplaceRunning, WorkType, Phases

\* The requests on running keep the types.
LEMMA RunningTypes ==
    ASSUME TypeOK,
           \/ \E r \in Edits : BeginEdit(r)
           \/ \E src \in Sources : BeginCopy(src)
           \/ Rollback \/ RollbackFails
    PROVE  TypeOK'
<1>0. /\ gds \in [Xml -> Docs] /\ cs_id \in BOOLEAN /\ Running \in Docs
      /\ rollback \in [doc : Docs, type : Targeted] /\ NewTxn \in TxnType
      /\ txn \in TxnType /\ work \in WorkType
  BY TypeParts, DocTypes, TxnTypes
<1>1. ASSUME NEW r \in Edits, BeginEdit(r) PROVE TypeOK'
  <2>1. work' \in WorkType
    <3>1. /\ r.dels \in Seq(Items) /\ r.adds \subseteq Items /\ Added(r) \subseteq Items
          /\ Removed(r) \subseteq Items
      BY EditTypes
    <3>2. work'.rems \subseteq Items /\ work'.over \subseteq Items /\ work'.adds \subseteq Items
      BY <1>1, <3>1 DEF BeginEdit
    <3>3. /\ work'.phase \in Phases /\ work'.op = "edit" /\ work'.dels = r.dels
          /\ work'.gone = {} /\ work'.noroot \in BOOLEAN /\ work'.old = cs_id
          /\ work'.replace \in BOOLEAN
      BY <1>1 DEF BeginEdit, Phases
    <3>4. work' = [phase |-> work'.phase, op |-> work'.op, dels |-> work'.dels,
                   rems |-> work'.rems, over |-> work'.over, adds |-> work'.adds,
                   gone |-> work'.gone, noroot |-> work'.noroot, old |-> work'.old,
                   replace |-> work'.replace]
      BY <1>1 DEF BeginEdit
    <3> QED BY <1>0, <3>1, <3>2, <3>3, <3>4 DEF WorkType
  <2>2. last' \in LastType
    BY <1>1, NoteTypes, DocKinds DEF BeginEdit
  <2>3. rollback' \in [doc : Docs, type : Targeted]
    BY <1>0, <1>1 DEF BeginEdit, StoreRollback, Targeted
  <2>4. txn' \in TxnType
    BY <1>0, <1>1 DEF BeginEdit
  <2> QED
    BY <1>1, <2>1, <2>2, <2>3, <2>4 DEF BeginEdit, TypeOK, LastType, Targeted, WorkType, TxnType,
       Phases
<1>2. ASSUME NEW src \in Sources, BeginCopy(src) PROVE TypeOK'
  <2>1. src \in Docs
    BY DEF Sources
  <2>2. work' \in WorkType
    BY <1>2, <2>1, ReplaceTypes DEF BeginCopy
  <2>3. last' \in LastType
    BY <1>2, <2>1, NoteTypes DEF BeginCopy
  <2>4. rollback' \in [doc : Docs, type : Targeted]
    BY <1>0, <1>2, DocKinds DEF BeginCopy, StoreRollback, Targeted
  <2>5. txn' \in TxnType
    BY <1>0, <1>2 DEF BeginCopy
  <2> QED
    BY <1>2, <2>2, <2>3, <2>4, <2>5 DEF BeginCopy, TypeOK, LastType, Targeted, WorkType, TxnType,
       Phases
<1>3. CASE Rollback
  <2>1. last' \in LastType
    BY <1>3, NoteTypes DEF Rollback
  <2>2. work' \in WorkType /\ txn' \in TxnType
    BY <1>0, <1>3, ReplaceTypes DEF Rollback
  <2>3. gds' \in [Xml -> Docs]
    BY <1>0, <1>3 DEF Rollback
  <2> QED
    BY <1>3, <2>1, <2>2, <2>3 DEF Rollback, TypeOK, LastType, Targeted, WorkType, TxnType, Phases
<1>4. CASE RollbackFails
  <2>1. last' \in LastType
    BY <1>4, NoteTypes DEF RollbackFails
  <2> QED BY <1>4, <2>1 DEF RollbackFails, TypeOK, LastType, Targeted
<1> QED BY <1>1, <1>2, <1>3, <1>4

\* The steps of an operation on running, and the life of the server, keep the
\* types.
LEMMA WorkTypes ==
    ASSUME TypeOK, Work \/ Stop \/ Crash \/ WipeCrashes \/ Start
    PROVE  TypeOK'
<1>0. /\ NoTxn \in TxnType /\ NewTxn \in TxnType /\ Idle \in WorkType
      /\ Load(file) \in Docs /\ Null \in Docs /\ Empty \in Docs
      /\ Committed \subseteq Rows
  BY DocTypes, TxnTypes, DocKinds DEF Idle, WorkType, Phases
<1>a. work \in WorkType /\ txn \in TxnType /\ last \in LastType /\ cs_id \in BOOLEAN
      /\ db \subseteq Rows
  BY TypeParts
<1>1. CASE Wipe
  <2>1. work' \in WorkType
    BY <1>1, <1>a DEF Wipe, WorkType, Phases
  <2>2. db' \subseteq Rows /\ txn' \in TxnType /\ cs_id' \in BOOLEAN
    BY <1>1, TxnTypes DEF Wipe
  <2>3. UNCHANGED <<up, gds, file, rollback, last, crashes>>
    BY <1>1 DEF Wipe
  <2> QED BY <2>1, <2>2, <2>3 DEF TypeOK, WorkType, LastType, TxnType, Phases, Targeted
<1>2. CASE Spin
  <2>1. db' \subseteq Rows /\ txn' \in TxnType /\ cs_id' \in BOOLEAN
    BY <1>2, <1>a, TxnTypes DEF Spin
  <2> QED BY <1>2, <2>1 DEF Spin, TypeOK, WorkType, LastType, TxnType, Phases, Targeted
<1>3. CASE EditDelete
  <2>1. cs_id' \in BOOLEAN
    BY <1>3, <1>a DEF EditDelete
  <2>2. PICK x \in Items : x = Head(work.dels)
    BY <1>3, <1>a DEF EditDelete, WorkType
  <2>3. db' \subseteq Rows /\ txn' \in TxnType /\ last' \in LastType /\ work' \in WorkType
    <3>1. CASE ApplyFails
      BY <3>1, TxnTypes
    <3>2. CASE Deleted(x) /\ txn' = [txn EXCEPT !.del = @ \cup Row(x)] /\ UNCHANGED <<db, last>>
      <4>1. Row(x) \subseteq Rows /\ Tail(work.dels) \in Seq(Items)
        BY <1>3, <1>a, <2>2 DEF Row, Items, EditDelete, WorkType
      <4>2. work' \in WorkType
        BY <3>2, <4>1, <1>a, <2>2 DEF Deleted, WorkType
      <4>3. txn' \in TxnType
        BY <3>2, <4>1, <1>a DEF TxnType
      <4> QED BY <3>2, <4>2, <4>3, <1>a
    <3> QED BY <1>3, <2>2, <3>1, <3>2 DEF EditDelete
  <2> QED BY <1>3, <2>1, <2>3 DEF EditDelete, TypeOK, WorkType, LastType, TxnType, Phases, Targeted
<1>4. CASE EditCreate
  <2>1. PICK x \in work.adds :
          \/ x # Id /\ ApplyFails /\ UNCHANGED cs_id
          \/ /\ work' = [work EXCEPT !.adds = @ \ {x}]
             /\ cs_id' = (cs_id \/ x = Id)
             /\ txn' = [txn EXCEPT !.ins = @ \cup Row(x),
                                   !.del = @ \cup (Row(x) \cap work.over)]
             /\ UNCHANGED <<db, last>>
    BY <1>4 DEF EditCreate
  <2>2. cs_id' \in BOOLEAN
    BY <2>1, <1>a
  <2>3. Row(x) \subseteq Rows
    BY <2>1, <1>a DEF Row, Items, WorkType
  <2>4. db' \subseteq Rows /\ txn' \in TxnType /\ last' \in LastType /\ work' \in WorkType
    <3>1. [work EXCEPT !.adds = @ \ {x}] \in WorkType
      BY <1>a DEF WorkType
    <3>2. [txn EXCEPT !.ins = @ \cup Row(x),
                      !.del = @ \cup (Row(x) \cap work.over)] \in TxnType
      BY <1>a, <2>3 DEF TxnType
    <3> QED BY <1>a, <2>1, <3>1, <3>2, TxnTypes
  <2> QED BY <1>4, <2>2, <2>4 DEF EditCreate, TypeOK, WorkType, LastType, TxnType, Phases, Targeted
<1>b. CASE EditRemove
  <2>1. PICK x \in work.rems :
          \/ x # Id /\ ApplyFails /\ UNCHANGED cs_id
          \/ /\ work' = [work EXCEPT !.rems = @ \ {x}]
             /\ cs_id' = (cs_id /\ x # Id)
             /\ txn' = [txn EXCEPT !.del = @ \cup Row(x)]
             /\ UNCHANGED <<db, last>>
    BY <1>b DEF EditRemove
  <2>2. cs_id' \in BOOLEAN
    BY <2>1, <1>a
  <2>3. Row(x) \subseteq Rows
    BY <2>1, <1>a DEF Row, Items, WorkType
  <2>4. db' \subseteq Rows /\ txn' \in TxnType /\ last' \in LastType /\ work' \in WorkType
    <3>1. [work EXCEPT !.rems = @ \ {x}] \in WorkType
      BY <1>a DEF WorkType
    <3>2. [txn EXCEPT !.del = @ \cup Row(x)] \in TxnType
      BY <1>a, <2>3 DEF TxnType
    <3> QED BY <1>a, <2>1, <3>1, <3>2, TxnTypes
  <2> QED BY <1>b, <2>2, <2>4 DEF EditRemove, TypeOK, WorkType, LastType, TxnType, Phases, Targeted
<1>5. CASE MissingId
  BY <1>5, TxnTypes DEF MissingId, TypeOK, WorkType, LastType, TxnType, Phases, Targeted
<1>6. CASE CommitFails
  BY <1>6, TxnTypes, NoteTypes DEF CommitFails, TypeOK, WorkType, LastType, TxnType, Phases, Targeted
<1>7. CASE TxnCommit
  <2>1. last' \in LastType /\ work' \in WorkType
    <3>1. [work EXCEPT !.phase = "post"] \in WorkType
      BY <1>a DEF WorkType, Phases
    <3> QED BY <1>7, <1>a, <3>1, NoteTypes DEF TxnCommit
  <2> QED BY <1>0, <1>7, <2>1 DEF TxnCommit, TypeOK, WorkType, LastType, TxnType, Phases, Targeted
<1>8. CASE PostPorts
  BY <1>8, NoteTypes DEF PostPorts, TypeOK, WorkType, LastType, TxnType, Phases, Targeted
<1>9. CASE BootFails
  <2>1. last' \in LastType /\ work' \in WorkType
    BY <1>0, <1>9, <1>a DEF BootFails, LastType
  <2>2. file' \in Docs
    BY <1>9 DEF BootFails, SaveStartup, Xml, TypeOK
  <2>3. rollback' \in [doc : Docs, type : Targeted]
    BY <1>0, <1>9 DEF BootFails, NoRollback, Targeted
  <2> QED BY <1>9, <2>1, <2>2, <2>3 DEF BootFails, TypeOK, WorkType, LastType, TxnType, Phases, Targeted
<1>10. CASE Stop
  <2>1. file' \in Docs
    BY <1>10 DEF Stop, SaveStartup, Xml, TypeOK
  <2>2. rollback' \in [doc : Docs, type : Targeted]
    BY <1>0, <1>10 DEF Stop, NoRollback, Targeted
  <2>3. cs_id' \in BOOLEAN
    BY <1>10 DEF Stop
  <2>4. up' = "stopped" /\ UNCHANGED <<gds, db, txn, work, last, crashes>>
    BY <1>10 DEF Stop
  <2> QED BY <2>1, <2>2, <2>3, <2>4 DEF TypeOK, WorkType, LastType, TxnType, Phases, Targeted
<1>11. CASE Crash \/ WipeCrashes
  <2>1. last' \in LastType
    BY <1>11, <1>a DEF Crash, WipeCrashes, Dies, LastType
  <2>2. rollback' \in [doc : Docs, type : Targeted] /\ gds' \in [Xml -> Docs]
    BY <1>0, <1>11 DEF Crash, WipeCrashes, Dies, NoRollback, Targeted
  <2>3. /\ txn' \in TxnType /\ work' \in WorkType /\ up' = "dead" /\ cs_id' \in BOOLEAN
        /\ UNCHANGED <<file, db>> /\ crashes' \in Nat
    <3>1. Dies /\ crashes' \in Nat
      BY <1>11 DEF Crash, WipeCrashes, TypeOK
    <3>2. cs_id' \in BOOLEAN
      BY <3>1 DEF Dies
    <3> QED BY <1>0, <3>1, <3>2 DEF Dies
  <2> QED BY <2>1, <2>2, <2>3 DEF TypeOK, WorkType, LastType, TxnType, Phases, Targeted
<1>12. CASE Start
  <2>1. work' \in WorkType
    BY <1>0, <1>12, ReplaceTypes DEF Start
  <2>2. last' \in LastType
    BY <1>0, <1>12, NoteTypes DEF Start
  <2>3. gds' \in [Xml -> Docs] /\ rollback' \in [doc : Docs, type : Targeted] /\ txn' \in TxnType
    BY <1>0, <1>12 DEF Start, Targeted
  <2> QED BY <1>12, <2>1, <2>2, <2>3 DEF Start, TypeOK, WorkType, LastType, TxnType, Phases, Targeted
<1> QED
  BY <1>1, <1>2, <1>3, <1>4, <1>b, <1>5, <1>6, <1>7, <1>8, <1>9, <1>10, <1>11, <1>12 DEF Work

\* Every step keeps the types.
LEMMA TypeStep == TypeOK /\ [Next]_vars => TypeOK'
<1> SUFFICES ASSUME TypeOK, [Next]_vars PROVE TypeOK'
  OBVIOUS
<1>1. CASE UNCHANGED vars
  BY <1>1 DEF vars, TypeOK
<1>2. CASE Next
  BY <1>2, XmlTypes, RunningTypes, WorkTypes DEF Next, Request
<1> QED BY <1>1, <1>2

\* Every variable keeps its type, whatever the requests, failures and crashes.
THEOREM TypeCorrect == Spec => []TypeOK
BY InitTypes, TypeStep, PTL DEF Spec

-----------------------------------------------------------------------------
(* The invariant                                                           *)

\* The invariant without the types.
Rest ==
    /\ SingleTransaction /\ BusyInv /\ EditInv /\ ReplaceInv
    /\ RollbackInv /\ RollbackUndoes /\ FileInv /\ DownInv

\* The program starts in a state of the invariant.
LEMMA InitInv == Init => IInv
<1> SUFFICES ASSUME Init PROVE IInv
  OBVIOUS
<1>1. /\ work.phase = "idle" /\ ~txn.open /\ txn = NoTxn
      /\ up = "dead" /\ last.op = "none" /\ ~cs_id
  BY DEF Init, Idle, NoTxn
<1> QED
  BY <1>1, InitTypes DEF IInv, SingleTransaction, BusyInv, EditInv, ReplaceInv, Replacing,
     RollbackInv, RollbackUndoes, FileInv, DownInv, Ready

\* What an operation notes.
LEMMA NoteFields ==
    ASSUME NEW op, NEW t, NEW src, NEW res, Note(op, t, src, res)
    PROVE  /\ last'.op = op /\ last'.target = t /\ last'.doc = Doc(t) /\ last'.rows = db
           /\ last'.src = src /\ last'.shown = cs_id /\ last'.res = res
           /\ last'.stored = (op # "refused")
BY DEF Note

\* What a rollback notes, and the end of an operation.
LEMMA LastFields ==
    ASSUME TypeOK, NEW res
    PROVE  /\ Again(res) => /\ last'.op = "rollback" /\ last'.shown = cs_id /\ last'.res = res
                            /\ last'.target = last.target /\ last'.doc = last.doc
                            /\ last'.stored = last.stored
           /\ Done(res) => /\ work' = Idle /\ last'.res = res /\ last'.op = last.op
                           /\ last'.target = last.target /\ last'.doc = last.doc
                           /\ last'.src = last.src /\ last'.rows = last.rows
                           /\ last'.shown = last.shown /\ last'.stored = last.stored
           /\ work = Idle => work.phase = "idle"
           /\ Idle.phase = "idle"
<1>1. last \in LastType
  BY TypeParts
<1>2. ASSUME Again(res)
      PROVE  /\ last'.op = "rollback" /\ last'.shown = cs_id /\ last'.res = res
             /\ last'.target = last.target /\ last'.doc = last.doc
             /\ last'.stored = last.stored
  BY <1>1, <1>2 DEF Again, LastType
<1>3. ASSUME Done(res)
      PROVE  /\ work' = Idle /\ last'.res = res /\ last'.op = last.op
             /\ last'.target = last.target /\ last'.doc = last.doc
             /\ last'.src = last.src /\ last'.rows = last.rows
             /\ last'.shown = last.shown /\ last'.stored = last.stored
  BY <1>1, <1>3 DEF Done, LastType
<1>4. Idle.phase = "idle"
  BY DEF Idle
<1> QED BY <1>2, <1>3, <1>4

\* Requests on startup and candidate, and requests on running that are
\* refused, leave OVSDB and its transaction alone.
LEMMA XmlInv ==
    ASSUME IInv,
           \/ \E t \in Targets : EditRefused(t) \/ EditChecksFail(t)
           \/ \E t \in Targets \cap Xml, r \in Edits : EditXml(t, r)
           \/ \E t \in Targets \cap Xml, src \in Sources : CopyXml(t, src)
           \/ \E t \in Targets \cap Xml : DeleteConfig(t)
    PROVE  Rest'
<1> USE DatastoreAssumption DEF IInv
<1>1. /\ Ready /\ work.phase = "idle" /\ UNCHANGED <<up, cs_id, db, txn, work, file>>
      /\ up = "up"
  BY LastFields DEF Ready, EditRefused, EditChecksFail, EditXml, CopyXml, DeleteConfig
<1>2. SingleTransaction' /\ BusyInv' /\ FileInv' /\ DownInv'
  BY <1>1 DEF SingleTransaction, BusyInv, FileInv, DownInv
<1>3. SUFFICES EditInv' /\ ReplaceInv' /\ RollbackInv' /\ RollbackUndoes'
  BY <1>2 DEF Rest
<1>4. ASSUME NEW t \in Targets, EditRefused(t)
      PROVE  EditInv' /\ ReplaceInv' /\ RollbackInv' /\ RollbackUndoes'
  <2>1. last'.op = "refused" /\ ~last'.stored
    BY <1>4, NoteFields DEF EditRefused
  <2> QED
    BY <1>1, <2>1 DEF EditInv, ReplaceInv, Replacing, RollbackInv, RollbackUndoes
<1>5. ASSUME NEW t \in Targets, NEW op \in {"edit", "copy", "delete"}, NEW src, NEW res,
             StoreRollback(Doc(t), t), Note(op, t, src, res),
             t = "running" => op = "edit"
      PROVE  EditInv' /\ ReplaceInv' /\ RollbackInv' /\ RollbackUndoes'
  <2>1. /\ last'.op = op /\ last'.target = t /\ last'.doc = Doc(t) /\ last'.rows = db
        /\ rollback'.doc = Doc(t) /\ rollback'.type = t
    BY <1>5, NoteFields DEF StoreRollback
  <2> QED
    BY <1>1, <1>5, <2>1 DEF EditInv, Found, ReplaceInv, Replacing, RollbackInv, RollbackUndoes
<1>6. \A t \in Xml : Doc(t) = gds[t] /\ t # "running"
  BY DEF Doc, Xml
<1> QED
  BY <1>4, <1>5, <1>6 DEF EditChecksFail, EditXml, CopyXml, DeleteConfig

\* The steps of a replacement are those that its source asks for.
LEMMA ReplaceFields ==
    ASSUME NEW op, NEW src \in Docs, ReplaceRunning(op, src)
    PROVE  /\ work'.phase = IF cs_id \/ src.kind # "root" THEN "wipe" ELSE "apply"
           /\ work'.op = op /\ ~work'.replace /\ work'.dels = <<>>
           /\ work'.rems = {} /\ work'.over = {}
           /\ work'.noroot <=> src.kind = "root" /\ Id \notin src.items
           /\ ~work'.noroot => work'.adds = src.items
<1>1. src.kind # "root" => src.items = {}
  BY DocKinds
<1> QED BY <1>1 DEF ReplaceRunning

\* The operations on running start a transaction where there is none.
LEMMA BeginInv ==
    ASSUME IInv,
           \/ \E r \in Edits : BeginEdit(r)
           \/ \E src \in Sources : BeginCopy(src)
           \/ Rollback \/ RollbackFails
    PROVE  Rest'
<1> USE DEF IInv
<1>1. /\ Ready /\ work.phase = "idle" /\ UNCHANGED <<up, cs_id, db, file>>
      /\ up = "up"
  BY LastFields DEF Ready, BeginEdit, BeginCopy, Rollback, RollbackFails
<1>2. FileInv' /\ DownInv'
  BY <1>1 DEF FileInv, DownInv
<1>3. SUFFICES SingleTransaction' /\ BusyInv' /\ EditInv' /\ ReplaceInv' /\ RollbackInv'
               /\ RollbackUndoes'
  BY <1>2 DEF Rest
<1>4. NewTxn.open
  BY DEF NewTxn, NoTxn
<1>5. ASSUME NEW r \in Edits, BeginEdit(r)
      PROVE  SingleTransaction' /\ BusyInv' /\ EditInv' /\ ReplaceInv' /\ RollbackInv'
             /\ RollbackUndoes'
  <2>1. /\ work'.phase \in {"spin", "wipe", "apply"} /\ work'.op = "edit"
        /\ work'.phase = "wipe" => Replaces(r)
        /\ txn' = NewTxn
    BY <1>5 DEF BeginEdit
  <2>2. /\ last'.op = IF Replaces(r) THEN "replace" ELSE "edit"
        /\ last'.target = "running" /\ last'.doc = Running /\ last'.rows = db
        /\ last'.res = "busy"
    BY <1>5, NoteFields DEF BeginEdit, Doc
  <2>3. rollback'.doc = Running /\ rollback'.type = "running"
    BY <1>5 DEF BeginEdit, StoreRollback
  <2>4. SingleTransaction' /\ BusyInv'
    BY <1>4, <2>1, <2>2 DEF SingleTransaction, BusyInv
  <2>5. EditInv'
    BY <1>1, <2>1, <2>2 DEF EditInv, Found
  <2> QED
    BY <2>2, <2>3, <2>4, <2>5 DEF ReplaceInv, Replacing, RollbackInv, RollbackUndoes
<1>6. ASSUME NEW src \in Sources, BeginCopy(src)
      PROVE  SingleTransaction' /\ BusyInv' /\ EditInv' /\ ReplaceInv' /\ RollbackInv'
             /\ RollbackUndoes'
  <2>0. src \in Docs
    BY DEF Sources
  <2>1. /\ work'.phase = IF cs_id \/ src.kind # "root" THEN "wipe" ELSE "apply"
        /\ work'.op = "copy" /\ ~work'.replace /\ work'.dels = <<>>
        /\ work'.rems = {} /\ work'.over = {}
        /\ work'.noroot <=> src.kind = "root" /\ Id \notin src.items
        /\ ~work'.noroot => work'.adds = src.items
        /\ txn' = NewTxn
    BY <1>6, <2>0, ReplaceFields DEF BeginCopy
  <2>2. /\ last'.op = "copy" /\ last'.target = "running" /\ last'.doc = Running
        /\ last'.src = src /\ last'.shown = cs_id /\ last'.res = "busy"
    BY <1>6, NoteFields DEF BeginCopy, Doc
  <2>3. rollback'.doc = (IF cs_id THEN Running ELSE Empty) /\ rollback'.type = "running"
    BY <1>6 DEF BeginCopy, StoreRollback
  <2>4. SingleTransaction' /\ BusyInv' /\ EditInv'
    BY <1>4, <2>1, <2>2 DEF SingleTransaction, BusyInv, EditInv
  <2>5. ReplaceInv'
    BY <2>1, <2>2 DEF ReplaceInv, Replacing, Goal
  <2> QED
    BY <2>2, <2>3, <2>4, <2>5 DEF RollbackInv, RollbackUndoes
<1>7. CASE RollbackFails
  <2>1. /\ last'.op = "rollback" /\ last'.res = "fail" /\ last'.target = last.target
        /\ last'.doc = last.doc /\ last'.stored = last.stored
    BY <1>7, LastFields DEF RollbackFails
  <2>2. UNCHANGED <<txn, rollback, work>>
    BY <1>7 DEF RollbackFails
  <2> QED
    BY <1>1, <2>1, <2>2 DEF SingleTransaction, BusyInv, EditInv, ReplaceInv, Replacing,
       RollbackInv, RollbackUndoes
<1>8. CASE Rollback
  <2>1. /\ last.stored => rollback.type = last.target /\ rollback.doc = last.doc
        /\ rollback.doc # Empty /\ last'.stored = last.stored
        /\ rollback.type \in Xml \cup {"running"} /\ rollback.doc \in Docs
        /\ UNCHANGED rollback
    BY <1>1, <1>8, TypeParts, LastFields DEF Rollback, RollbackInv, Targeted
  <2>2. CASE rollback.type = "running"
    <3>1. /\ work'.phase = IF cs_id \/ rollback.doc.kind # "root" THEN "wipe" ELSE "apply"
          /\ work'.op = "rollback" /\ ~work'.replace /\ work'.dels = <<>>
          /\ work'.rems = {} /\ work'.over = {}
          /\ work'.noroot <=> rollback.doc.kind = "root" /\ Id \notin rollback.doc.items
          /\ ~work'.noroot => work'.adds = rollback.doc.items
          /\ txn' = NewTxn
      BY <1>8, <2>1, <2>2, ReplaceFields DEF Rollback
    <3>2. /\ last'.op = "rollback"
          /\ last'.stored => last'.target = "running" /\ last'.doc = rollback.doc
          /\ last'.shown = cs_id /\ last'.res = "busy"
      BY <1>8, <2>1, <2>2, LastFields DEF Rollback
    <3>3. SingleTransaction' /\ BusyInv' /\ EditInv'
      BY <1>4, <3>1, <3>2 DEF SingleTransaction, BusyInv, EditInv
    <3>4. ReplaceInv'
      BY <3>1, <3>2 DEF ReplaceInv, Replacing, Goal
    <3> QED
      BY <2>1, <2>2, <3>2, <3>3, <3>4 DEF RollbackInv, RollbackUndoes
  <2>3. CASE rollback.type # "running"
    <3>1. rollback.type \in Xml
      BY <2>1, <2>3
    <3>2. /\ UNCHANGED <<txn, work>>
          /\ gds' = [gds EXCEPT ![rollback.type] = rollback.doc]
          /\ last'.op = "rollback" /\ last'.res = "ok"
          /\ last'.stored => last'.target = rollback.type /\ last'.doc = rollback.doc
      BY <1>8, <2>1, <2>3, LastFields DEF Rollback
    <3>3. Doc(rollback.type)' = rollback.doc
      BY <2>1, <2>3, <3>1, <3>2, TypeParts DEF Doc
    <3>4. SingleTransaction' /\ BusyInv' /\ EditInv' /\ ReplaceInv'
      BY <1>1, <2>3, <3>2 DEF SingleTransaction, BusyInv, EditInv, ReplaceInv, Replacing
    <3>5. RollbackInv'
      BY <2>1, <3>2 DEF RollbackInv
    <3>6. RollbackUndoes'
      BY <3>2, <3>3, <2>1 DEF RollbackUndoes, Doc
    <3> QED BY <3>4, <3>5, <3>6
  <2> QED BY <2>2, <2>3
<1> QED BY <1>5, <1>6, <1>7, <1>8

\* An operation that fails ends without a result, or, at the start of the
\* server, waits for main() to clean up; a default replace never ends.
LEMMA FailInv ==
    ASSUME IInv, up = "up", work.phase = "apply", txn.open,
           ApplyFails \/ (TxnAbort /\ Failed),
           UNCHANGED <<up, gds, file, rollback>>
    PROVE  Rest'
<1> USE DEF IInv
<1>0. UNCHANGED db
  BY DEF ApplyFails, TxnAbort
<1>a. NoTxn.open = FALSE
  BY DEF NoTxn
<1>b. FileInv' /\ DownInv'
  BY DEF FileInv, DownInv
<1>1. CASE TxnAbort /\ Failed
  <2>1. txn' = NoTxn
    BY <1>1 DEF TxnAbort
  <2>2. CASE work.op = "boot"
    <3>1. work'.phase = "failed" /\ UNCHANGED last
      BY <1>1, <2>2, TypeParts DEF Failed, WorkType
    <3>2. SingleTransaction' /\ BusyInv'
      BY <2>1, <3>1, <1>a DEF SingleTransaction, BusyInv
    <3>3. EditInv' /\ ReplaceInv'
      BY <1>0, <2>2, <3>1 DEF EditInv, ReplaceInv, Replacing, Goal
    <3>4. RollbackInv' /\ RollbackUndoes'
      <4>1. ~Ready'
        BY <3>1, LastFields DEF Ready, Idle
      <4> QED BY <3>1, <4>1 DEF RollbackInv, RollbackUndoes
    <3> QED BY <1>b, <3>2, <3>3, <3>4 DEF Rest
  <2>3. CASE work.op # "boot"
    <3>1. /\ work' = Idle /\ last'.res = "fail" /\ last'.op = last.op
          /\ last'.target = last.target /\ last'.doc = last.doc
          /\ last'.src = last.src /\ last'.rows = last.rows
          /\ last'.shown = last.shown /\ last'.stored = last.stored
      BY <1>1, <2>3, LastFields DEF Failed
    <3>2. SingleTransaction' /\ BusyInv'
      BY <2>1, <3>1, <1>a, LastFields DEF SingleTransaction, BusyInv
    <3>3. EditInv' /\ ReplaceInv'
      BY <1>0, <3>1, LastFields DEF EditInv, Found, ReplaceInv, Replacing, Goal
    <3>4. RollbackInv' /\ RollbackUndoes'
      BY <3>1 DEF RollbackInv, RollbackUndoes
    <3> QED BY <1>b, <3>2, <3>3, <3>4 DEF Rest
  <2> QED BY <2>2, <2>3
<1>2. CASE ~(TxnAbort /\ Failed)
  <2>1. /\ work.replace /\ work' = [work EXCEPT !.phase = "spin"]
        /\ UNCHANGED <<txn, last>>
    BY <1>2 DEF ApplyFails
  <2>2. work'.phase = "spin"
    BY <2>1, TypeParts DEF WorkType
  <2>3. SingleTransaction' /\ BusyInv'
    BY <2>1, <2>2 DEF SingleTransaction, BusyInv
  <2>4. EditInv' /\ ReplaceInv'
    BY <2>1, <2>2 DEF EditInv, ReplaceInv, Replacing, Goal
  <2>5. RollbackInv' /\ RollbackUndoes'
    <3>1. ~Ready'
      BY <2>2, LastFields DEF Ready, Idle
    <3> QED BY <2>1, <3>1 DEF RollbackInv, RollbackUndoes
  <2> QED BY <1>b, <2>3, <2>4, <2>5 DEF Rest
<1> QED BY <1>1, <1>2

\* A step in the middle of an operation on running.
LEMMA MiddleInv ==
    ASSUME IInv, up = "up", work.phase # "idle", work'.phase # "idle",
           UNCHANGED <<up, gds, file, rollback, last>>
    PROVE  BusyInv' /\ RollbackInv' /\ RollbackUndoes' /\ FileInv' /\ DownInv'
<1> USE DEF IInv
<1>1. ~Ready'
  BY DEF Ready, Idle
<1> QED BY <1>1 DEF BusyInv, RollbackInv, RollbackUndoes, FileInv, DownInv

\* txn_del_all, and the loop that has no end.
LEMMA WipeInv ==
    ASSUME IInv, Wipe \/ Spin
    PROVE  Rest'
<1> USE DEF IInv
<1>0. /\ db \subseteq Rows /\ txn \in TxnType /\ work \in WorkType /\ last \in LastType
      /\ Id \notin Rows /\ Goal \in Docs
  BY TypeParts, DatastoreAssumption DEF Rows, Goal, LastType
<1>1. ASSUME TxnDelAll
      PROVE  txn'.open /\ txn'.ins = {} /\ txn'.del = db' /\ cs_id' = FALSE
  BY <1>1 DEF TxnDelAll, NewTxn, NoTxn
<1>2. CASE Wipe
  <2>1. /\ up = "up" /\ work.phase = "wipe" /\ UNCHANGED <<up, gds, file, rollback, last>>
        /\ TxnDelAll
    BY <1>2 DEF Wipe, Step
  <2>2. /\ work'.phase = "apply" /\ work'.op = work.op /\ work'.replace = work.replace
        /\ work'.dels = work.dels /\ work'.noroot = work.noroot /\ work'.adds = work.adds
        /\ work'.rems = work.rems /\ work'.over = work.over
    BY <1>0, <1>2 DEF Wipe, WorkType
  <2>3. BusyInv' /\ RollbackInv' /\ RollbackUndoes' /\ FileInv' /\ DownInv'
    BY <2>1, <2>2, MiddleInv
  <2>a. SingleTransaction'
    BY <1>1, <2>1, <2>2 DEF SingleTransaction
  <2>b. txn = NewTxn => db' = db \ Collected
    BY <2>1 DEF TxnDelAll, Committed, NewTxn, NoTxn
  <2>4. EditInv'
    BY <2>1, <2>2, <2>b DEF EditInv, Found
  <2>5. ReplaceInv'
    <3>1. Goal' = Goal /\ (Replacing' <=> Replacing)
      BY <2>1 DEF Goal, Replacing
    <3>2. CASE Replacing
      <4>1. /\ work.op = last.op /\ ~work.replace /\ work.dels = <<>>
            /\ work.rems = {} /\ work.over = {}
            /\ work.noroot <=> Goal.kind = "root" /\ Id \notin Goal.items
            /\ ~work.noroot => work.adds = Goal.items
        BY <2>1, <3>2 DEF ReplaceInv
      <4>2. ~work.noroot => txn'.ins \cup (work.adds \ {Id}) = Goal.items \ {Id}
        BY <1>1, <2>1, <4>1
      <4>3. ~work.noroot => ((cs_id' \/ Id \in work.adds) <=> Id \in Goal.items)
        BY <1>1, <2>1, <4>1
      <4> QED BY <1>1, <2>1, <2>2, <3>1, <4>1, <4>2, <4>3 DEF ReplaceInv
    <3> QED BY <3>1, <3>2 DEF ReplaceInv
  <2> QED BY <2>3, <2>a, <2>4, <2>5 DEF Rest
<1>3. CASE Spin
  <2>1. /\ up = "up" /\ work.phase = "spin" /\ UNCHANGED <<up, gds, file, rollback, last, work>>
        /\ TxnDelAll \/ UNCHANGED txn
    BY <1>3 DEF Spin, Step
  <2>2. BusyInv' /\ RollbackInv' /\ RollbackUndoes' /\ FileInv' /\ DownInv'
    BY <2>1, MiddleInv
  <2>3. SingleTransaction'
    BY <1>1, <2>1 DEF SingleTransaction
  <2>4. EditInv' /\ ReplaceInv'
    BY <2>1 DEF EditInv, ReplaceInv, Replacing, Goal
  <2> QED BY <2>2, <2>3, <2>4 DEF Rest
<1> QED BY <1>2, <1>3

\* The operations of an edit, one by one.
LEMMA ApplyInv ==
    ASSUME IInv, EditDelete \/ EditRemove \/ EditCreate \/ MissingId \/ CommitFails
    PROVE  Rest'
<1> USE DEF IInv
<1>0. /\ db \subseteq Rows /\ txn \in TxnType /\ work \in WorkType /\ last \in LastType
      /\ cs_id \in BOOLEAN
  BY TypeParts
<1>1. /\ up = "up" /\ work.phase = "apply" /\ txn.open
      /\ UNCHANGED <<up, gds, file, rollback>>
  BY DEF EditDelete, EditRemove, EditCreate, MissingId, CommitFails, Applied, Step,
     SingleTransaction
<1>2. CASE ApplyFails \/ (TxnAbort /\ Failed)
  BY <1>1, <1>2, FailInv
<1>3. ASSUME work'.phase = "apply", txn'.open, UNCHANGED <<db, last>>,
             work'.op = work.op, work'.replace = work.replace
      PROVE  SingleTransaction' /\ BusyInv' /\ EditInv' /\ RollbackInv' /\ RollbackUndoes'
             /\ FileInv' /\ DownInv'
  <2>1. BusyInv' /\ RollbackInv' /\ RollbackUndoes' /\ FileInv' /\ DownInv'
    BY <1>1, <1>3, MiddleInv
  <2> QED BY <1>1, <1>3, <2>1 DEF SingleTransaction, EditInv, Found
<1>4. CASE EditDelete /\ ~ApplyFails
  <2> DEFINE x == Head(work.dels)
  <2>1. /\ work.dels # <<>> /\ Deleted(x) /\ UNCHANGED <<db, last>>
        /\ txn' = [txn EXCEPT !.del = @ \cup Row(x)]
    BY <1>4 DEF EditDelete
  <2>2. work'.phase = "apply" /\ work'.op = work.op /\ work'.replace = work.replace
    BY <1>0, <1>1, <2>1 DEF Deleted, WorkType
  <2>3. txn'.open
    BY <1>0, <1>1, <2>1 DEF TxnType
  <2>4. ~Replacing
    BY <1>1, <2>1 DEF ReplaceInv
  <2>5. ReplaceInv'
    BY <2>1, <2>4 DEF ReplaceInv, Replacing, Goal
  <2> QED BY <1>3, <2>1, <2>2, <2>3, <2>5 DEF Rest
<1>6. CASE EditRemove /\ ~ApplyFails
  <2>1. PICK x \in work.rems :
          /\ work' = [work EXCEPT !.rems = @ \ {x}]
          /\ txn' = [txn EXCEPT !.del = @ \cup Row(x)]
          /\ UNCHANGED <<db, last>>
    BY <1>6 DEF EditRemove
  <2>2. work'.phase = "apply" /\ work'.op = work.op /\ work'.replace = work.replace
    BY <1>0, <1>1, <2>1 DEF WorkType
  <2>3. txn'.open
    BY <1>0, <1>1, <2>1 DEF TxnType
  <2>4. ~Replacing
    BY <1>1, <2>1 DEF ReplaceInv
  <2>5. ReplaceInv'
    BY <2>1, <2>4 DEF ReplaceInv, Replacing, Goal
  <2> QED BY <1>3, <2>1, <2>2, <2>3, <2>5 DEF Rest
<1>5. CASE EditCreate /\ ~ApplyFails
  <2>1. PICK x \in work.adds :
          /\ work' = [work EXCEPT !.adds = @ \ {x}]
          /\ cs_id' = (cs_id \/ x = Id)
          /\ txn' = [txn EXCEPT !.ins = @ \cup Row(x),
                                !.del = @ \cup (Row(x) \cap work.over)]
          /\ UNCHANGED <<db, last>>
    BY <1>5 DEF EditCreate
  <2>2. /\ work'.phase = "apply" /\ work'.op = work.op /\ work'.replace = work.replace
        /\ work'.dels = work.dels /\ work'.noroot = work.noroot
        /\ work'.adds = work.adds \ {x} /\ work'.rems = work.rems /\ work'.over = work.over
    BY <1>0, <1>1, <2>1 DEF WorkType
  <2>3. /\ txn'.open /\ txn'.ins = txn.ins \cup Row(x)
        /\ work.over = {} => txn'.del = txn.del
    BY <1>0, <1>1, <2>1 DEF TxnType
  <2>4. ReplaceInv'
    <3>1. Goal' = Goal /\ (Replacing' <=> Replacing)
      BY <2>1 DEF Goal, Replacing
    <3>2. CASE Replacing
      <4>1. /\ work.op = last.op /\ ~work.replace /\ work.dels = <<>>
            /\ work.rems = {} /\ work.over = {}
            /\ work.noroot <=> Goal.kind = "root" /\ Id \notin Goal.items
            /\ ~work.noroot =>
                  /\ txn.del = db
                  /\ txn.ins \cup (work.adds \ {Id}) = Goal.items \ {Id}
                  /\ (cs_id \/ Id \in work.adds) <=> Id \in Goal.items
        BY <1>1, <3>2 DEF ReplaceInv
      <4>2. ~work.noroot => txn'.ins \cup (work'.adds \ {Id}) = Goal.items \ {Id}
        BY <2>1, <2>2, <2>3, <4>1 DEF Row
      <4>3. ~work.noroot => ((cs_id' \/ Id \in work'.adds) <=> Id \in Goal.items)
        <5>1. (cs_id' \/ Id \in work'.adds) <=> (cs_id \/ Id \in work.adds)
          BY <1>0, <2>1, <2>2
        <5> QED BY <4>1, <5>1
      <4> HIDE DEF Goal, Replacing
      <4>4. UNCHANGED <<db, last>>
        BY <2>1
      <4> QED BY <2>2, <2>3, <3>1, <4>1, <4>2, <4>3, <4>4 DEF ReplaceInv
    <3> QED BY <3>1, <3>2 DEF ReplaceInv
  <2> QED BY <1>3, <2>1, <2>2, <2>3, <2>4 DEF Rest
<1> QED
  BY <1>2, <1>4, <1>5, <1>6 DEF MissingId, CommitFails

\* The commit puts exactly the goal of a replacement into OVSDB.
LEMMA CommitInv ==
    ASSUME IInv, TxnCommit
    PROVE  Rest'
<1> USE DEF IInv
<1>0. /\ db \subseteq Rows /\ txn \in TxnType /\ work \in WorkType /\ last \in LastType
      /\ cs_id \in BOOLEAN /\ Goal \in Docs
  BY TypeParts DEF Goal, LastType
<1>1. /\ up = "up" /\ work.phase = "apply" /\ work.dels = <<>> /\ work.adds = {} /\ ~work.noroot
      /\ UNCHANGED <<up, gds, file, cs_id, rollback>> /\ txn' = NoTxn
      /\ db' = (db \ txn.del) \cup txn.ins
  BY DEF TxnCommit, Applied, Step, Committed
<1>2. NoTxn.open = FALSE /\ Idle.phase = "idle" /\ Idle # work
  BY <1>1 DEF NoTxn, Idle
<1>3. FileInv' /\ DownInv'
  BY <1>1 DEF FileInv, DownInv
<1>4. CASE work.op = "edit"
  <2>1. UNCHANGED last /\ work'.phase = "post"
    BY <1>0, <1>4 DEF TxnCommit, WorkType
  <2>2. BusyInv' /\ RollbackInv' /\ RollbackUndoes'
    BY <1>1, <2>1, MiddleInv
  <2>3. SingleTransaction' /\ EditInv'
    BY <1>1, <1>2, <2>1 DEF SingleTransaction, EditInv
  <2>4. ~Replacing
    BY <1>1, <1>4 DEF ReplaceInv, Replacing
  <2>5. ReplaceInv'
    BY <2>1, <2>4 DEF ReplaceInv, Replacing, Goal
  <2> QED BY <1>3, <2>2, <2>3, <2>5 DEF Rest
<1>5. CASE work.op # "edit"
  <2>1. /\ work' = Idle /\ last'.res = "ok" /\ last'.op = last.op
        /\ last'.target = last.target /\ last'.doc = last.doc
        /\ last'.src = last.src /\ last'.rows = last.rows
        /\ last'.shown = last.shown /\ last'.stored = last.stored
    BY <1>5, LastFields DEF TxnCommit
  <2>2. SingleTransaction' /\ BusyInv'
    BY <1>1, <1>2, <2>1 DEF SingleTransaction, BusyInv
  <2>3. EditInv'
    BY <1>1, <1>2, <1>5, <2>1 DEF EditInv
  <2>4. Goal' = Goal /\ (Replacing' <=> Replacing)
    BY <2>1 DEF Goal, Replacing
  <2>5. ASSUME Replacing PROVE Running' = Load(Goal) /\ db' = Goal.items \ {Id}
    <3>1. /\ txn.del = db /\ txn.ins = Goal.items \ {Id}
          /\ cs_id <=> Id \in Goal.items
          /\ Goal.kind = "root" => Id \in Goal.items
      BY <1>1, <2>5 DEF ReplaceInv
    <3>2. db' = Goal.items \ {Id}
      BY <1>1, <3>1
    <3>3. CASE cs_id
      <4>1. Goal.kind = "root" /\ Goal = Root(Goal.items)
        BY <1>0, <3>1, <3>3, DocKinds
      <4>2. db' \cup {Id} = Goal.items
        BY <3>1, <3>2, <3>3
      <4> QED BY <1>1, <3>2, <3>3, <4>1, <4>2 DEF Running, Load
    <3>4. CASE ~cs_id
      BY <1>1, <3>1, <3>2, <3>4 DEF Running, Load
    <3> QED BY <3>3, <3>4
  <2>6. ReplaceInv'
    BY <1>2, <2>1, <2>4, <2>5 DEF ReplaceInv, Load
  <2>7. RollbackInv'
    <3>1. last.stored =>
            /\ rollback.type # "error" /\ rollback.doc # Empty =>
                  rollback.type = last.target /\ rollback.doc = last.doc
            /\ last.op = "rollback" => last.doc # Empty
      BY <1>1 DEF RollbackInv, BusyInv
    <3> QED BY <1>1, <2>1, <3>1 DEF RollbackInv
  <2>8. RollbackUndoes'
    <3>1. last.stored => last.target = "running"
      BY <1>1 DEF BusyInv
    <3>2. CASE last.op = "rollback" /\ last.shown /\ last.stored
      <4>1. Replacing /\ Goal = last.doc /\ last.doc # Empty
        BY <1>1, <3>1, <3>2 DEF Replacing, Goal, RollbackInv, BusyInv
      <4>2. Load(last.doc) = last.doc
        BY <1>0, <4>1, DocKinds DEF Load
      <4> QED BY <2>1, <2>5, <3>1, <3>2, <4>1, <4>2 DEF RollbackUndoes, Doc
    <3> QED BY <2>1, <3>1, <3>2 DEF RollbackUndoes, Xml
  <2> QED BY <1>3, <2>2, <2>3, <2>6, <2>7, <2>8 DEF Rest
<1> QED BY <1>4, <1>5

\* After the commit of an edit, and after the failure of the start.
LEMMA EndInv ==
    ASSUME IInv, PostPorts \/ BootFails
    PROVE  Rest'
<1> USE DEF IInv
<1>0. last \in LastType /\ Idle.phase = "idle"
  BY TypeParts DEF Idle
<1>1. CASE PostPorts
  <2>1. /\ up = "up" /\ work.phase = "post"
        /\ UNCHANGED <<up, gds, file, cs_id, db, txn, rollback>>
    BY <1>1 DEF PostPorts, Step
  <2>2. PICK res \in {"ok", "late"} : Done(res)
    BY <1>1 DEF PostPorts
  <2>3. /\ work' = Idle /\ last'.res = res /\ last'.op = last.op
        /\ last'.target = last.target /\ last'.doc = last.doc
        /\ last'.src = last.src /\ last'.rows = last.rows
        /\ last'.shown = last.shown /\ last'.stored = last.stored
    BY <2>2, LastFields
  <2>4. SingleTransaction' /\ BusyInv' /\ EditInv' /\ FileInv' /\ DownInv'
    BY <1>0, <2>1, <2>3 DEF SingleTransaction, BusyInv, EditInv, FileInv, DownInv
  <2>5. ~Replacing /\ (last.stored => last.target = "running")
    BY <2>1 DEF ReplaceInv, BusyInv
  <2>6. ReplaceInv'
    BY <2>3, <2>5 DEF ReplaceInv, Replacing, Goal
  <2>7. RollbackInv'
    BY <2>1, <2>3 DEF RollbackInv, BusyInv
  <2>8. RollbackUndoes'
    BY <2>3, <2>5 DEF RollbackUndoes, Replacing, Xml
  <2> QED BY <2>4, <2>6, <2>7, <2>8 DEF Rest
<1>2. CASE BootFails
  <2>1. /\ up = "up" /\ work.phase = "failed" /\ up' = "stopped" /\ ~cs_id'
        /\ work' = Idle /\ UNCHANGED <<gds, db, txn>> /\ file' = gds["startup"]
    BY <1>2 DEF BootFails, Step, SaveStartup
  <2>2. last'.res = "fail" /\ last'.op = last.op /\ last'.target = last.target
        /\ last'.doc = last.doc /\ last'.src = last.src /\ last'.shown = last.shown
        /\ last'.stored = last.stored
    BY <1>0, <1>2 DEF BootFails, LastType
  <2>3. ~Ready' /\ ~(last.op \in {"edit", "replace"} /\ last.target = "running")
    BY <2>1 DEF Ready, EditInv
  <2>4. SingleTransaction' /\ BusyInv' /\ EditInv'
    BY <1>0, <2>1, <2>2, <2>3 DEF SingleTransaction, BusyInv, EditInv
  <2>5. ~Replacing
    BY <2>1 DEF ReplaceInv
  <2>6. ReplaceInv'
    BY <2>2, <2>5 DEF ReplaceInv, Replacing, Goal
  <2>7. FileInv' /\ DownInv' /\ RollbackInv' /\ RollbackUndoes'
    BY <1>0, <2>1, <2>3 DEF FileInv, DownInv, RollbackInv, RollbackUndoes
  <2> QED BY <2>4, <2>6, <2>7 DEF Rest
<1> QED BY <1>1, <1>2

\* Stops, crashes and starts of the server.
LEMMA LifeInv ==
    ASSUME IInv, Stop \/ Crash \/ WipeCrashes \/ Start
    PROVE  Rest'
<1> USE DEF IInv
<1>0. last \in LastType /\ Idle.phase = "idle" /\ NoTxn.open = FALSE /\ NewTxn.open
  BY TypeParts DEF Idle, NoTxn, NewTxn
<1>1. CASE Stop
  <2>1. /\ up' = "stopped" /\ ~cs_id' /\ work.phase = "idle"
        /\ UNCHANGED <<gds, db, txn, work, last>> /\ file' = gds["startup"]
    BY <1>0, <1>1 DEF Stop, Ready, SaveStartup
  <2>2. ~Ready'
    BY <2>1 DEF Ready
  <2>3. SingleTransaction' /\ BusyInv' /\ EditInv'
    BY <2>1 DEF SingleTransaction, BusyInv, EditInv, Found
  <2>4. ReplaceInv'
    BY <2>1 DEF ReplaceInv, Replacing, Goal
  <2> QED
    BY <2>1, <2>2, <2>3, <2>4 DEF Rest, FileInv, DownInv, RollbackInv, RollbackUndoes
<1>2. CASE Crash \/ WipeCrashes
  <2>1. /\ up' = "dead" /\ ~cs_id' /\ work' = Idle /\ txn' = NoTxn
    BY <1>2 DEF Crash, WipeCrashes, Dies
  <2>2. last'.op = "none"
    BY <1>0, <1>2 DEF Crash, WipeCrashes, Dies, LastType
  <2>3. ~Ready'
    BY <2>1 DEF Ready
  <2>4. SingleTransaction' /\ BusyInv' /\ EditInv'
    BY <1>0, <2>1, <2>2 DEF SingleTransaction, BusyInv, EditInv
  <2> QED
    BY <1>0, <2>1, <2>2, <2>3, <2>4 DEF Rest, FileInv, DownInv, RollbackInv, RollbackUndoes,
       ReplaceInv, Replacing
<1>3. CASE Start
  <2>1. /\ up' = "up" /\ txn' = NewTxn /\ rollback'.doc = Empty
        /\ ReplaceRunning("boot", Load(file))
    BY <1>3 DEF Start
  <2>2. last'.op = "boot" /\ last'.target = "running" /\ last'.res = "busy"
    BY <1>3, NoteFields DEF Start
  <2>3. work'.phase \in {"wipe", "apply"}
    BY <2>1, DocTypes, ReplaceFields
  <2>4. SingleTransaction' /\ BusyInv' /\ EditInv'
    BY <1>0, <2>1, <2>2, <2>3 DEF SingleTransaction, BusyInv, EditInv
  <2> QED
    BY <2>1, <2>2, <2>4 DEF Rest, FileInv, DownInv, RollbackInv, RollbackUndoes,
       ReplaceInv, Replacing
<1> QED BY <1>1, <1>2, <1>3

\* Every step keeps the invariant.
LEMMA StepInv == IInv /\ [Next]_vars => IInv'
<1> SUFFICES ASSUME IInv, [Next]_vars PROVE IInv'
  OBVIOUS
<1>1. TypeOK'
  BY TypeStep DEF IInv
<1>2. SUFFICES Rest'
  BY <1>1 DEF IInv, Rest
<1>3. CASE UNCHANGED vars
  BY <1>3 DEF vars, IInv, Rest, SingleTransaction, BusyInv, EditInv, Found, ReplaceInv, Replacing, Goal,
     Running, RollbackInv, RollbackUndoes, Ready, Doc, FileInv, DownInv
<1>4. CASE Request
  BY <1>4, XmlInv, BeginInv DEF Request
<1>5. CASE Work
  BY <1>5, WipeInv, ApplyInv, CommitInv, EndInv DEF Work
<1> QED BY <1>3, <1>4, <1>5, LifeInv DEF Next

\* The invariant holds in every reachable state.
LEMMA Inductive == Spec => []IInv
BY InitInv, StepInv, PTL DEF Spec

-----------------------------------------------------------------------------
(* What the datastores promise                                             *)

\* txn_init never finds an open transaction, and no step of an edit runs
\* without one, whichever of the steps fails or crashes.
THEOREM TransactionIsSingle == Spec => []SingleTransaction
<1>1. IInv => SingleTransaction
  BY DEF IInv
<1> QED BY <1>1, Inductive, PTL

\* An edit-config of running that fails before its end leaves OVSDB as it found
\* it, for any number of operations in the edit and a failure in any of them;
\* only a replace of the root may leave it wiped.
THEOREM FailedEditIsAborted == Spec => []FailedEditKeepsOVSDB
<1>1. IInv => FailedEditKeepsOVSDB
  BY LastFields DEF IInv, FailedEditKeepsOVSDB, Ready, EditInv, Found
<1> QED BY <1>1, Inductive, PTL

\* A copy-config to running that succeeds leaves exactly its source there,
\* for any set of rows and any earlier content of OVSDB.
THEOREM CopyIsExact == Spec => []CopyReplaces
<1>1. IInv => CopyReplaces
  BY LastFields DEF IInv, CopyReplaces, Ready, ReplaceInv, Replacing, Goal
<1> QED BY <1>1, Inductive, PTL

\* A rollback that succeeds brings back the document that the last operation
\* had found if that came to store_rollback: always for startup and candidate,
\* for running if it shows an id when the rollback starts.
THEOREM RollbackIsExact == Spec => []RollbackUndoes
<1>1. IInv => RollbackUndoes
  BY DEF IInv
<1> QED BY <1>1, Inductive, PTL

\* A clean stop and the next start keep the items of startup: ofcds_free
\* writes what ofcds_init reads.
THEOREM RestartKeepsStartup == Spec => CleanRestartKeepsStartup
<1>1. ASSUME IInv, [Next]_vars
      PROVE  [up = "stopped" /\ up' = "up" =>
                gds'["startup"].items = gds["startup"].items]_vars
  <2> SUFFICES ASSUME Next, up = "stopped", up' = "up"
               PROVE  gds'["startup"].items = gds["startup"].items
    BY <1>1
  <2>1. Start
    <3>1. up # "up" /\ up' # up
      OBVIOUS
    <3>2. ~Request
      BY <3>1 DEF Request, EditRefused, EditChecksFail, EditXml, CopyXml, DeleteConfig, BeginEdit,
         BeginCopy, Rollback, RollbackFails, Ready
    <3>3. ~Work
      BY <3>1 DEF Work, Wipe, Spin, EditDelete, EditRemove, EditCreate, MissingId, TxnCommit,
         CommitFails, PostPorts, BootFails, Applied, Step
    <3> QED BY <3>1, <3>2, <3>3 DEF Next, Stop, Ready, Crash, WipeCrashes, Step
  <2>2. gds'["startup"] = Load(file)
    BY <2>1 DEF Start, Xml
  <2>3. file = gds["startup"] /\ file \in Docs
    BY <1>1 DEF IInv, FileInv, TypeOK
  <2>4. Load(file).items = file.items
    BY <2>3, DocKinds DEF Load, Null
  <2> QED BY <2>2, <2>3, <2>4
<1> QED BY <1>1, Inductive, PTL DEF Spec, CleanRestartKeepsStartup
=============================================================================
