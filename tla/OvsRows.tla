------------------------------ MODULE OvsRows ------------------------------
(***************************************************************************)
(* The rows of OVSDB that an edit of running changes, and the references   *)
(* between them (ovs-data.c, called from edit_delete and edit_create).     *)
(*                                                                         *)
(*   Bridge -> Port -> QoS -> <key, Queue>,  Bridge -> Flow_Table,         *)
(*   Bridge -> Controller                                                  *)
(*                                                                         *)
(* An edit-config is a transaction: each element that it deletes or        *)
(* creates in the running document is one call of a txn_ function, which   *)
(* works on a private copy of the rows; the first error ends the edit and  *)
(* aborts the transaction, otherwise it is committed.  At the commit OVSDB *)
(* refuses a transaction with dangling references and drops the ports,     *)
(* flow tables and controllers that no bridge refers to.  QoS and Queue    *)
(* rows stay until they are deleted.                                       *)
(*                                                                         *)
(* An element of the document is a tuple that starts with its kind.        *)
(* Identifiers are written in canonical form, so parsing a number and      *)
(* printing it again gives the same text.  Where several rows match, the   *)
(* code takes the first one in the order of the IDL's hash table, which    *)
(* is any of them here.                                                    *)
(***************************************************************************)
EXTENDS Naturals, FiniteSets

CONSTANTS
    Bridges, Ports, Tables, Queues,   \* names that clients use
    Ids,        \* numbers of queues
    Ctrls,      \* identifiers of controllers, unique within a bridge
    QosRows,    \* bound: QoS rows
    None,       \* no row
    MaxOps      \* bound: elements that one edit deletes or creates

ASSUME RowsAssumption ==
    /\ None \notin QosRows \cup Ids \cup Ports
    /\ IsFiniteSet(QosRows) /\ IsFiniteSet(Ctrls) /\ IsFiniteSet(Queues)
    /\ MaxOps \in Nat

VARIABLES
    db,     \* the rows in OVSDB
    cache,  \* cache[x]: protocol in the IDL's copy of controller x's target
    phase,  \* "idle", or between txn_init and txn_commit or txn_abort "delete"
            \* and then "write"
    txn,    \* the rows as the transaction sees them
    doc,    \* the running document, without what the edit has deleted
    ask,    \* doc with what the edit has created
    odd,    \* history: the edit met rows with an ambiguous name or key
    swap,   \* history: ports, tables deleted in this edit
    cut,    \* history: bridges' references to them deleted in this edit
    n,      \* elements handled so far
    last    \* history: how the last edit ended

vars == <<db, cache, phase, txn, doc, ask, odd, swap, cut, n, last>>

Protocols == {"ssl", "tcp"}
Contrs    == Bridges \X Ctrls      \* controller rows: made for a bridge

\* References to deleted rows: the column, the row that has it, the name.
DeadRefs == {"bp", "bt", "bc", "qos"} \X (Bridges \cup QosRows)
               \X (Ports \cup Tables \cup Ctrls \cup Queues)

Rows ==
    [port : SUBSET Ports, pq : [Ports -> QosRows \cup {None}],
     qid : [Queues -> Ids \cup {None}], qos : [QosRows -> SUBSET (Ids \X Queues)],
     table : SUBSET Tables, bridge : SUBSET Bridges,
     bp : [Bridges -> SUBSET Ports], bt : [Bridges -> SUBSET Tables],
     bc : [Bridges -> SUBSET Ctrls], contr : SUBSET Contrs,
     proto : [Contrs -> Protocols],
     fresh : SUBSET Contrs,        \* rows whose target the transaction wrote
     dead : SUBSET DeadRefs,       \* those that the IDL's copy still shows
     lost : SUBSET DeadRefs]       \* those that only the transaction has

-----------------------------------------------------------------------------
(* References                                                              *)

\* References of a row to rows that were deleted.
Dead(r, kind, row) == {d \in r.dead : d[1] = kind /\ d[2] = row}
Lost(r, kind, row) == {d \in r.lost : d[1] = kind /\ d[2] = row}

\* Setting a column (IDL).  The transaction gets the rows passed, the deleted
\* ones D of them too; the IDL's copy of the column then leaves those out.
SetPorts(r, b, S, D) ==
    [r EXCEPT !.bp[b] = S, !.dead = @ \ Dead(r, "bp", b),
              !.lost = (@ \ Lost(r, "bp", b)) \cup D]
SetTables(r, b, S, D) ==
    [r EXCEPT !.bt[b] = S, !.dead = @ \ Dead(r, "bt", b),
              !.lost = (@ \ Lost(r, "bt", b)) \cup D]
SetContrs(r, b, S, D) ==
    [r EXCEPT !.bc[b] = S, !.dead = @ \ Dead(r, "bc", b),
              !.lost = (@ \ Lost(r, "bc", b)) \cup D]

\* QoS.queues is a map: of several pairs with one key one survives (IDL).
UniqueKeys(S) ==
    {T \in SUBSET S : /\ \A x, y \in T : x[1] = y[1] => x = y
                      /\ \A x \in S : \E y \in T : x[1] = y[1]}
SetQueues(r, k, S) ==
    {[r EXCEPT !.qos[k] = T, !.dead = @ \ Dead(r, "qos", k),
               !.lost = (@ \ Lost(r, "qos", k)) \cup Dead(r, "qos", k)] : T \in UniqueKeys(S)}

Pairs(r, k, q) == {x \in r.qos[k] : x[2] = q}
QosOf(r, q)    == {k \in QosRows : Pairs(r, k, q) # {}}

\* find_queue_port: the ports that have the queue in their QoS.
FindQueuePort(r, q) ==
    {p \in r.port : r.pq[p] # None /\ Pairs(r, r.pq[p], q) # {}}

FreeQos(r) == {k \in QosRows : /\ r.qos[k] = {} /\ Dead(r, "qos", k) = {}
                               /\ Lost(r, "qos", k) = {}
                               /\ \A p \in Ports : r.pq[p] # k}

-----------------------------------------------------------------------------
(* The txn_ functions: the set of possible results, empty for an error     *)

\* Ports

TxnAddPort(r, p) == {[r EXCEPT !.port = @ \cup {p}]}

\* txn_del_port: Port and Interface; bridges keep their references, and the
\* QoS the port used stays.
TxnDelPort(r, p) ==
    IF p \notin r.port THEN {}
    ELSE {[r EXCEPT !.port = @ \ {p}, !.pq[p] = None,
                    !.bp = [b \in Bridges |-> @[b] \ {p}],
                    !.dead = @ \cup {<<"bp", b, p>> : b \in {x \in Bridges : p \in r.bp[x]}}]}

\* Queues

\* Variant: the queue takes the place of all others.
TxnAddQueuePortAlone(r, q, p) ==
    IF r.qid[q] = None \/ p \notin r.port THEN {}
    ELSE {[r EXCEPT !.qos[k] = {<<r.qid[q], q>>}, !.pq[p] = k] :
             k \in IF r.pq[p] # None THEN {r.pq[p]} ELSE FreeQos(r)}

TxnAddQueuePort(r, q, p) ==
    CASE r.qid[q] = None \/ p \notin r.port -> {}
      [] r.qid[q] # None /\ p \in r.port /\ r.pq[p] = None ->
            {[r EXCEPT !.qos[k] = {<<r.qid[q], q>>}, !.pq[p] = k] :
               k \in {CHOOSE x \in FreeQos(r) : TRUE}}
      [] OTHER ->
            SetQueues(r, r.pq[p], r.qos[r.pq[p]] \cup {<<r.qid[q], q>>})

\* Variant: only the queue's own row is changed.
TxnModQueueIdRow(r, q, i) ==
    IF r.qid[q] = None THEN {} ELSE {[r EXCEPT !.qid[q] = i]}

\* txn_mod_queue_id: the key in the first QoS found, and the queue's row.
TxnModQueueId(r, q, i) ==
    CASE r.qid[q] = None -> {}
      [] r.qid[q] # None /\ QosOf(r, q) = {} -> {[r EXCEPT !.qid[q] = i]}
      [] OTHER ->
            UNION {UNION {SetQueues([r EXCEPT !.qid[q] = i], k,
                                    (r.qos[k] \ {x}) \cup {<<i, q>>}) :
                            x \in Pairs(r, k, q)} : k \in QosOf(r, q)}

\* txn_del_qos_queue: with its last queue the QoS row goes.
TxnDelQosQueue(r, k, q) ==
    IF Cardinality(r.qos[k]) + Cardinality(Dead(r, "qos", k)) = 1
    THEN {[r EXCEPT !.qos[k] = {}, !.lost = @ \ Lost(r, "qos", k)]}
    ELSE UNION {SetQueues(r, k, r.qos[k] \ {x}) : x \in Pairs(r, k, q)}

\* Variant: the port keeps its reference to a QoS that is gone.
TxnDelQueuePortKeepsQos(r, q) ==
    UNION {TxnDelQosQueue(r, r.pq[p], q) : p \in FindQueuePort(r, q)}

TxnDelQueuePort(r, q) ==
    UNION {{[s EXCEPT !.pq[p] = IF s.qos[r.pq[p]] = {} THEN None ELSE @] :
              s \in TxnDelQosQueue(r, r.pq[p], q)} : p \in FindQueuePort(r, q)}

\* Variant: the references of ports and QoS are left alone.
TxnDelQueueOnly(r, q) ==
    IF r.qid[q] = None THEN {}
    ELSE {[r EXCEPT !.qid[q] = None,
                    !.qos = [k \in QosRows |-> @[k] \ Pairs(r, k, q)],
                    !.dead = @ \cup {<<"qos", k, q>> : k \in QosOf(r, q)}]}

\* txn_del_queue: one reference is removed, through the port or, without one,
\* in some QoS; then the row.
TxnDelQueue(r, q) ==
    LET unlinked == CASE FindQueuePort(r, q) # {} -> TxnDelQueuePort(r, q)
                      [] FindQueuePort(r, q) = {} /\ QosOf(r, q) # {} ->
                           UNION {TxnDelQosQueue(r, k, q) : k \in QosOf(r, q)}
                      [] OTHER -> {r}
    IN  UNION {TxnDelQueueOnly(s, q) : s \in unlinked}

\* txn_add_queue: the row, its id and, if there is one, its port.
TxnAddQueue(r, q, i, port) ==
    LET new == TxnModQueueId([r EXCEPT !.qid[q] = i], q, i)
    IN  IF port = None THEN new
        ELSE UNION {TxnAddQueuePort(s, q, port) : s \in new}

\* txn_mod_queue_options: a column without references.
TxnModQueueOptions(r, q) == IF r.qid[q] = None THEN {} ELSE {r}

\* Flow tables

TxnAddFlowTable(r, t) == {[r EXCEPT !.table = @ \cup {t}]}

\* txn_mod_flowtable_name, txn_mod_flowtable_resid
TxnModFlowtable(r, t) == IF t \in r.table THEN {r} ELSE {}

TxnDelFlowTable(r, t) ==
    IF t \notin r.table THEN {}
    ELSE {[r EXCEPT !.table = @ \ {t},
                    !.bt = [b \in Bridges |-> @[b] \ {t}],
                    !.dead = @ \cup {<<"bt", b, t>> : b \in {x \in Bridges : t \in r.bt[x]}}]}

\* Bridges

\* txn_add_bridge, with the ports, flow tables and controllers it names.
TxnAddBridge(r, b, P, T) ==
    IF b \in r.bridge \/ ~(P \subseteq r.port) \/ ~(T \subseteq r.table) THEN {}
    ELSE {[r EXCEPT !.bridge = @ \cup {b}, !.bp[b] = P, !.bt[b] = T, !.bc[b] = {}]}

\* Variant: the row and its reference stay.
TxnDelBridgeNot(r, b) == {r}

\* txn_del_bridge: silent when there is no bridge at all.
TxnDelBridge(r, b) ==
    CASE r.bridge = {} -> {r}
      [] r.bridge # {} /\ b \notin r.bridge -> {}
      [] OTHER -> {[r EXCEPT !.bridge = @ \ {b}, !.bp[b] = {}, !.bt[b] = {}, !.bc[b] = {},
                             !.dead = @ \ {d \in @ : d[2] = b},
                             !.lost = @ \ {d \in @ : d[2] = b}]}

TxnAddBridgePort(r, b, p) ==
    IF b \notin r.bridge \/ p \notin r.port THEN {}
    ELSE {SetPorts(r, b, r.bp[b] \cup {p}, Dead(r, "bp", b))}

\* txn_del_bridge_port: silent when the IDL's copy does not have the port (its
\* comment: "previously removed ports in /capable-switch/resources/").
TxnDelBridgePort(r, b, p) ==
    CASE b \notin r.bridge -> {}
      [] b \in r.bridge /\ (p \in r.bp[b] \/ <<"bp", b, p>> \in r.dead) ->
            {SetPorts(r, b, r.bp[b] \ {p}, Dead(r, "bp", b) \ {<<"bp", b, p>>})}
      [] OTHER -> {r}

TxnAddBridgeFlowtable(r, b, t) ==
    IF b \notin r.bridge \/ t \notin r.table THEN {}
    ELSE {SetTables(r, b, r.bt[b] \cup {t}, Dead(r, "bt", b))}

TxnDelBridgeFlowtable(r, b, t) ==
    CASE b \notin r.bridge -> {}
      [] b \in r.bridge /\ (t \in r.bt[b] \/ <<"bt", b, t>> \in r.dead) ->
            {SetTables(r, b, r.bt[b] \ {t}, Dead(r, "bt", b) \ {<<"bt", b, t>>})}
      [] OTHER -> {r}

\* txn_mod_bridge_datapath, txn_mod_bridge_failmode
TxnModBridge(r, b) == IF b \in r.bridge THEN {r} ELSE {}

\* ofc_check_bridge_queue: a queue in the resources of a bridge is accepted
\* only if it is there already, through its port.
OfcCheckBridgeQueue(r, b, q) ==
    IF r.qid[q] # None /\ b \in r.bridge /\ \E p \in FindQueuePort(r, q) : p \in r.bp[b]
    THEN {r} ELSE {}

\* Controllers

ContrsNamed(r, c) == {x \in r.contr : x[2] = c}

TxnAddContr(r, b, c, v) ==
    IF b \notin r.bridge THEN {}
    ELSE {SetContrs([r EXCEPT !.contr = @ \cup {<<b, c>>}, !.proto[<<b, c>>] = v,
                              !.fresh = @ \cup {<<b, c>>}],
                    b, r.bc[b] \cup {c}, Dead(r, "bc", b))}

\* Variant: the row is deleted, the bridge's reference to it is not.
TxnDelContrRow(r, b, c) ==
    {[r EXCEPT !.contr = @ \ {<<b, c>>}, !.bc[b] = @ \ {c},
               !.dead = @ \cup {<<"bc", b, c>>}]}

\* txn_del_contr: the row is found by its id among all controllers; a list of
\* one is emptied without a comparison, a longer one has to have the row.
TxnDelContr(r, b, c) ==
    LET size == Cardinality(r.bc[b]) + Cardinality(Dead(r, "bc", b))
        ok(x) == b \in r.bridge /\ (size = 1 \/ (size > 1 /\ x = <<b, c>>))
        drop(x, s) == [s EXCEPT !.contr = @ \ {x},
                                !.bc[x[1]] = @ \ {c},
                                !.dead = IF c \in s.bc[x[1]]
                                         THEN @ \cup {<<"bc", x[1], c>>} ELSE @]
    IN  {drop(x, IF size = 1 THEN SetContrs(r, b, {}, {})
                  ELSE SetContrs(r, b, r.bc[b] \ {c}, Dead(r, "bc", b))) :
           x \in {y \in ContrsNamed(r, c) : ok(y)}}

\* txn_mod_contr_target, ip-address: the target is written as a whole.
TxnModContrIp(r, c) ==
    {[r EXCEPT !.fresh = @ \cup {x},
               !.proto[x] = IF x \in r.fresh THEN @ ELSE cache[x]] :
       x \in ContrsNamed(r, c)}

-----------------------------------------------------------------------------
(* The running document (get_ports_config, get_queues_config,              *)
(* get_flow_tables_config, get_bridges_config, get_controller_config)      *)

\* What is shown of a queue; of several ports the first one.
QueueConfig(r, port) ==
    {<<"queue", q>> : q \in {x \in Queues : r.qid[x] # None}}
    \cup {<<"qid", q, r.qid[q]>> : q \in {x \in Queues : r.qid[x] # None}}
    \cup {<<"qport", q, port[q]>> : q \in {x \in Queues : port[x] # None}}

QueuePorts(r) ==
    {f \in [Queues -> Ports \cup {None}] :
       \A q \in Queues : IF r.qid[q] = None \/ FindQueuePort(r, q) = {}
                         THEN f[q] = None ELSE f[q] \in FindQueuePort(r, q)}

FlowTableConfig(r) ==
    {<<"table", t>> : t \in {x \in Tables : \E b \in r.bridge : x \in r.bt[b]}}

BridgeConfig(r, c) ==
    UNION {{<<"bridge", b>>}
           \cup {<<"bport", b, p>> : p \in r.bp[b]}
           \cup {<<"btable", b, t>> : t \in r.bt[b]}
           \cup {<<"contr", b, x>> : x \in r.bc[b]}
           \cup {<<"proto", b, x, c[<<b, x>>]>> : x \in r.bc[b]} : b \in r.bridge}

PortConfig(r) == {<<"port", p>> : p \in r.port}

Shown(r, c) ==
    {PortConfig(r) \cup QueueConfig(r, f) \cup FlowTableConfig(r)
       \cup BridgeConfig(r, c) : f \in QueuePorts(r)}

-----------------------------------------------------------------------------
(* Transactions                                                            *)

\* Rows with an ambiguous name: a queue in two QoS, two queues with the same
\* id at one port, or one controller id at two bridges.
Ambiguous(r) ==
    \/ \E q \in Queues : Cardinality(QosOf(r, q)) > 1
    \/ \E p, s \in Queues : /\ p # s /\ r.qid[p] # None /\ r.qid[p] = r.qid[s]
                            /\ QosOf(r, p) \cup QosOf(r, s) # {}
    \/ \E x, y \in r.contr : x # y /\ x[2] = y[2]

\* The key under which a QoS has a queue is the queue's number.
KeysMatch(r) == \A k \in QosRows : \A x \in r.qos[k] : x[1] = r.qid[x[2]]

Empty ==
    [port |-> {}, pq |-> [p \in Ports |-> None], qid |-> [q \in Queues |-> None],
     qos |-> [k \in QosRows |-> {}], table |-> {}, bridge |-> {},
     bp |-> [b \in Bridges |-> {}], bt |-> [b \in Bridges |-> {}],
     bc |-> [b \in Bridges |-> {}], contr |-> {},
     proto |-> [x \in Contrs |-> "ssl"], fresh |-> {}, dead |-> {}, lost |-> {}]

NoEdit == [res |-> "none", ask |-> {}, odd |-> FALSE, swap |-> {}, cut |-> {}]

Init ==
    /\ db = Empty
    /\ cache = [x \in Contrs |-> "ssl"]
    /\ phase = "idle" /\ n = 0
    /\ txn = Empty
    /\ doc = {} /\ ask = {} /\ odd = FALSE /\ swap = {} /\ cut = {}
    /\ last = NoEdit

\* ofcds_editconfig: the running document is read and a transaction begun.
Begin ==
    /\ phase = "idle"
    /\ phase' = "delete" /\ n' = 0
    /\ txn' = db
    /\ doc' \in Shown(db, cache)
    /\ ask' = doc'
    /\ odd' = (Ambiguous(db) \/ ~KeysMatch(db))
    /\ swap' = {} /\ cut' = {}
    /\ last' = NoEdit
    /\ UNCHANGED <<db, cache>>

Idle ==
    /\ phase' = "idle" /\ n' = 0
    /\ txn' = Empty
    /\ doc' = {} /\ ask' = {} /\ odd' = FALSE /\ swap' = {} /\ cut' = {}

End(res) ==
    /\ Idle
    /\ last' = [res |-> res, ask |-> ask, odd |-> odd, swap |-> swap, cut |-> cut]

Editing == phase \in {"delete", "write"}

\* txn_abort: the rows are as before.  (What was written into the IDL's copy
\* in place stays there.)
TxnAbort == UNCHANGED <<db, cache>>

\* One element of the edit: results R, deleted elements D, created M.  The
\* first error ends the edit.
Handle(R, D, M) ==
    /\ n < MaxOps
    /\ \/ \E r \in R :
            /\ txn' = r
            /\ doc' = doc \ D
            /\ ask' = (ask \ D) \cup M
            /\ odd' = (odd \/ Ambiguous(r))
            /\ swap' = swap \cup {d \in D : d[1] \in {"port", "table"}}
            /\ cut' = cut \cup {d \in D : d[1] \in {"bport", "btable"}}
            /\ n' = n + 1
            /\ phase' = IF M = {} THEN phase ELSE "write"
            /\ UNCHANGED <<db, cache, last>>
       \/ R = {} /\ TxnAbort /\ End("failed")

\* edit_operations: first what is deleted or removed, then what is replaced,
\* created or merged.
Delete(R, D)   == phase = "delete" /\ Handle(R, D, {})
Write(R, D, M) == Editing /\ Handle(R, D, M)

Of(kind, x)  == {d \in doc : d[1] = kind /\ d[2] = x}
Below(x)     == UNION {Of(k, x) : k \in {"bridge", "bport", "btable", "contr", "proto"}}
QueueNode(q) == UNION {Of(k, q) : k \in {"queue", "qid", "qport"}}

\* edit_delete and edit_create, by element.  An element is deleted if the
\* document has it, and created if neither the document nor the edit has it.
EditPort(p) ==
    \/ <<"port", p>> \notin ask /\ Write(TxnAddPort(txn, p), {}, {<<"port", p>>})
    \/ <<"port", p>> \in doc /\ Delete(TxnDelPort(txn, p), {<<"port", p>>})

CreateQueue(q, i, port) ==
    /\ <<"queue", q>> \notin ask
    /\ FreeQos(txn) # {}
    /\ Write(TxnAddQueue(txn, q, i, port), {},
              {<<"queue", q>>, <<"qid", q, i>>}
                \cup (IF port = None THEN {} ELSE {<<"qport", q, port>>}))

DeleteQueue(q) ==
    <<"queue", q>> \in doc /\ Delete(TxnDelQueue(txn, q), QueueNode(q))

\* A leaf that exists is replaced: deleted and created again.
EditQueuePort(q, p) ==
    /\ <<"queue", q>> \in doc
    /\ FreeQos(txn) # {}
    /\ \/ /\ Of("qport", q) = {} /\ {a \in ask : a[1] = "qport" /\ a[2] = q} = {}
          /\ Write(TxnAddQueuePort(txn, q, p), {}, {<<"qport", q, p>>})
       \/ /\ Of("qport", q) # {}
          /\ Write(UNION {TxnAddQueuePort(s, q, p) : s \in TxnDelQueuePort(txn, q)},
                    Of("qport", q), {<<"qport", q, p>>})

DeleteQueuePort(q) ==
    /\ Of("qport", q) # {}
    /\ Delete(TxnDelQueuePort(txn, q), Of("qport", q))

\* The deletion of the old id does nothing.
EditQueueId(q, i) ==
    /\ Of("qid", q) # {}
    /\ Write(TxnModQueueId(txn, q, i), Of("qid", q), {<<"qid", q, i>>})

EditQueueOptions(q) ==
    <<"queue", q>> \in doc /\ Write(TxnModQueueOptions(txn, q), {}, {})

EditTable(t) ==
    \/ <<"table", t>> \notin ask /\ Write(TxnAddFlowTable(txn, t), {}, {<<"table", t>>})
    \/ <<"table", t>> \in doc /\ Delete(TxnDelFlowTable(txn, t), {<<"table", t>>})
    \/ <<"table", t>> \in doc /\ Write(TxnModFlowtable(txn, t), {}, {})

CreateBridge(b, P, T) ==
    /\ <<"bridge", b>> \notin ask
    /\ Write(TxnAddBridge(txn, b, P, T), {},
              {<<"bridge", b>>} \cup {<<"bport", b, p>> : p \in P}
                                \cup {<<"btable", b, t>> : t \in T})

DeleteBridge(b) ==
    <<"bridge", b>> \in doc /\ Delete(TxnDelBridge(txn, b), Below(b))

EditBridge(b) ==
    \/ <<"bridge", b>> \in doc /\ Write(TxnModBridge(txn, b), {}, {})
    \/ \E q \in Queues : <<"bridge", b>> \in doc /\ Write(OfcCheckBridgeQueue(txn, b, q), {}, {})

EditBridgePort(b, p) ==
    LET e == <<"bport", b, p>>
    IN  \/ <<"bridge", b>> \in doc /\ e \notin ask /\ Write(TxnAddBridgePort(txn, b, p), {}, {e})
        \/ e \in doc /\ Delete(TxnDelBridgePort(txn, b, p), {e})

EditBridgeTable(b, t) ==
    LET e == <<"btable", b, t>>
    IN  \/ <<"bridge", b>> \in doc /\ e \notin ask /\ Write(TxnAddBridgeFlowtable(txn, b, t), {}, {e})
        \/ e \in doc /\ Delete(TxnDelBridgeFlowtable(txn, b, t), {e})

ContrNode(b, c) == {d \in doc : d[1] \in {"contr", "proto"} /\ d[2] = b /\ d[3] = c}

EditContr(b, c) ==
    \/ \E v \in Protocols :
         /\ <<"bridge", b>> \in ask /\ <<"contr", b, c>> \notin ask
         /\ Write(TxnAddContr(txn, b, c, v), {}, {<<"contr", b, c>>, <<"proto", b, c, v>>})
    \/ <<"contr", b, c>> \in doc /\ Delete(TxnDelContr(txn, b, c), ContrNode(b, c))
    \/ <<"contr", b, c>> \in doc /\ Write(TxnModContrIp(txn, c), {}, {})

\* txn_mod_contr_target, protocol: the text of the target is changed in place,
\* in the transaction if that has written it, else in the IDL's copy only.
EditProtocol(b, c, v) ==
    LET old == {d \in doc : d[1] = "proto" /\ d[2] = b /\ d[3] = c}
    IN  /\ Editing /\ n < MaxOps
        /\ old # {}
        /\ \/ \E x \in ContrsNamed(txn, c) :
                /\ IF x \in txn.fresh
                   THEN txn' = [txn EXCEPT !.proto[x] = v] /\ UNCHANGED cache
                   ELSE cache' = [cache EXCEPT ![x] = v] /\ UNCHANGED txn
                /\ doc' = doc \ old
                /\ ask' = (ask \ old) \cup {<<"proto", b, c, v>>}
                /\ n' = n + 1
                /\ phase' = "write"
                /\ UNCHANGED <<db, odd, swap, cut, last>>
           \/ ContrsNamed(txn, c) = {} /\ TxnAbort /\ End("failed")

\* The garbage collection of OVSDB.
Collect(r) ==
    LET ports == {p \in r.port : \E b \in r.bridge : p \in r.bp[b]}
    IN  [r EXCEPT !.port = ports,
                  !.pq = [p \in Ports |-> IF p \in ports THEN @[p] ELSE None],
                  !.table = {t \in @ : \E b \in r.bridge : t \in r.bt[b]},
                  !.contr = {x \in @ : x[2] \in r.bc[x[1]]},
                  !.proto = [x \in Contrs |-> IF x[2] \in r.bc[x[1]] THEN @[x] ELSE "ssl"],
                  !.fresh = {}]

\* txn_commit
Commit ==
    /\ Editing /\ txn.dead \cup txn.lost = {}
    /\ db' = Collect(txn)
    /\ cache' = [x \in Contrs |->
                   CASE x \notin db'.contr -> "ssl"
                     [] x \in db'.contr /\ x \in txn.fresh -> txn.proto[x]
                     [] OTHER -> cache[x]]
    /\ End("ok")

CommitRefused ==
    /\ Editing /\ txn.dead \cup txn.lost # {}
    /\ TxnAbort
    /\ End("refused")

Next ==
    \/ Begin \/ Commit \/ CommitRefused
    \/ \E p \in Ports : EditPort(p)
    \/ \E q \in Queues :
         \/ DeleteQueue(q) \/ DeleteQueuePort(q) \/ EditQueueOptions(q)
         \/ \E i \in Ids : EditQueueId(q, i)
         \/ \E i \in Ids, p \in Ports \cup {None} : CreateQueue(q, i, p)
         \/ \E p \in Ports : EditQueuePort(q, p)
    \/ \E t \in Tables : EditTable(t)
    \/ \E b \in Bridges :
         \/ DeleteBridge(b) \/ EditBridge(b)
         \/ \E P \in SUBSET Ports, T \in SUBSET Tables : CreateBridge(b, P, T)
         \/ \E p \in Ports : EditBridgePort(b, p)
         \/ \E t \in Tables : EditBridgeTable(b, t)
         \/ \E c \in Ctrls : EditContr(b, c) \/ \E v \in Protocols : EditProtocol(b, c, v)

Spec == Init /\ [][Next]_vars

-----------------------------------------------------------------------------
(* Properties                                                              *)

\* Types of the rows; every reference leads to a row or is known to be dead.
TypeOK ==
    /\ db \in Rows /\ txn \in Rows
    /\ db.dead = {} /\ db.lost = {} /\ db.fresh = {}
    /\ cache \in [Contrs -> Protocols]
    /\ phase \in {"idle", "delete", "write"}
    /\ n \in 0..MaxOps
    /\ \A r \in {db, txn} :
         /\ \A p \in Ports : r.pq[p] # None => p \in r.port /\ r.qos[r.pq[p]] # {}
         /\ \A k \in QosRows : \A x \in r.qos[k] : r.qid[x[2]] # None
         /\ \A b \in Bridges : r.bp[b] \subseteq r.port /\ r.bt[b] \subseteq r.table

\* The part of a document that OVSDB keeps: without the ports and flow tables
\* that no bridge uses (IMPLEMENTATION.md, port management).
Kept(A) ==
    {a \in A :
       CASE a[1] = "port"  -> \E b \in Bridges : <<"bport", b, a[2]>> \in A
         [] a[1] = "table" -> \E b \in Bridges : <<"btable", b, a[2]>> \in A
         [] a[1] = "qport" -> \E b \in Bridges : <<"bport", b, a[3]>> \in A
         [] OTHER          -> TRUE}

\* A requested document has a leafref to a port or a flow table that is not
\* in it.
Dangling(A) ==
    \E a \in A : \/ a[1] \in {"bport", "qport"} /\ <<"port", a[3]>> \notin A
                 \/ a[1] = "btable" /\ <<"table", a[3]>> \notin A

\* An edit that the code can be expected to get right: names are unambiguous,
\* leafrefs lead somewhere, and no port or flow table is deleted only to be
\* created again (the bridge would refer to the old row).
Plain(e) == ~e.odd /\ ~Dangling(e.ask) /\ e.swap \cap e.ask = {}

\* A plain edit that is reported as successful did what it says: the document
\* read back is the old one with the deletions and creations of the edit, less
\* what OVSDB collects.
ReadBack ==
    last.res = "ok" /\ Plain(last) => Shown(db, cache) = {Kept(last.ask)}

\* An edit of a bridge that deletes two of its references to ports, or to flow
\* tables, and the row that one of them leads to.
Crossed(e) ==
    \/ \E b \in Bridges, p, o \in Ports :
         /\ <<"bridge", b>> \in e.ask /\ o # p /\ <<"port", p>> \in e.swap
         /\ {<<"bport", b, p>>, <<"bport", b, o>>} \subseteq e.cut
    \/ \E b \in Bridges, t, o \in Tables :
         /\ <<"bridge", b>> \in e.ask /\ o # t /\ <<"table", t>> \in e.swap
         /\ {<<"btable", b, t>>, <<"btable", b, o>>} \subseteq e.cut

\* OVSDB refuses the commit of a plain edit only if it is crossed: in whatever
\* order the txn_ functions are called, they leave no other dangling reference.
RefusedForReason == last.res = "refused" => ~Plain(last) \/ Crossed(last)

\* An edit that meets no ambiguous names keeps the keys and the numbers of
\* queues equal: ovs-vswitchd finds a queue by its key, of-config shows the
\* number.
KeyIsId == last.res = "ok" /\ ~last.odd => KeysMatch(db)
=============================================================================
