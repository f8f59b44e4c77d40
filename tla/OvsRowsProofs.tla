--------------------------- MODULE OvsRowsProofs ---------------------------
(***************************************************************************)
(* Proofs about OvsRows: references lead to rows, the keys of QoS rows are *)
(* the numbers of queues, OVSDB refuses no plain edit, and the document of *)
(* a plain edit is read back.                                              *)
(***************************************************************************)
EXTENDS OvsRows, FiniteSetTheorems, TLAPS

(* Rows                                                                    *)

\* References of ports, QoS rows and bridges lead to rows.
Refs(r) ==
    /\ \A p \in Ports : r.pq[p] # None => p \in r.port /\ r.qos[r.pq[p]] # {}
    /\ \A k \in QosRows : \A x \in r.qos[k] : r.qid[x[2]] # None
    /\ \A b \in Bridges : r.bp[b] \subseteq r.port /\ r.bt[b] \subseteq r.table

\* Two ports do not share a QoS.
OwnQos(r) == \A p, o \in Ports : r.pq[p] # None /\ r.pq[p] = r.pq[o] => p = o

\* A queue is once at most in the QoS rows that ports use.
OnePlace(r) ==
    \A p, o \in Ports : r.pq[p] # None /\ r.pq[o] # None =>
        \A x \in r.qos[r.pq[p]] : \A y \in r.qos[r.pq[o]] :
            x[2] = y[2] => p = o /\ x = y

\* What is not a bridge refers to nothing.
NoBridge(r) == \A b \in Bridges \ r.bridge : r.bp[b] = {} /\ r.bt[b] = {} /\ r.bc[b] = {}

\* A bridge refers to controllers that exist.
HasContrs(r) == \A b \in Bridges : \A c \in r.bc[b] : <<b, c>> \in r.contr

Good(r) == r \in Rows /\ Refs(r) /\ OwnQos(r) /\ OnePlace(r) /\ NoBridge(r) /\ HasContrs(r)

-----------------------------------------------------------------------------
(* The edit                                                                *)

\* A document has the queues, their ports, and what bridges refer to.
AskedQueues(r, A) ==
    \A q \in Queues :
        /\ r.qid[q] # None => <<"queue", q>> \in A
        /\ FindQueuePort(r, q) # {} => \E a \in A : a[1] = "qport" /\ a[2] = q

AskedBridges(r, A) ==
    \A b \in Bridges :
        /\ b \in r.bridge => <<"bridge", b>> \in A
        /\ \A p \in r.bp[b] : <<"bport", b, p>> \in A
        /\ \A t \in r.bt[b] : <<"btable", b, t>> \in A

AskInv == Editing => AskedQueues(txn, ask) /\ AskedBridges(txn, ask)

\* While an edit deletes, it has created nothing.
DeleteInv == phase = "delete" => ask = doc

\* An edit that met nothing ambiguous.
Clear == Editing /\ ~odd

KeyInv == Clear => ~Ambiguous(txn) /\ KeysMatch(txn)

\* The controllers of a document are those of the bridges.
HasAsked(r, A) ==
    \A b \in Bridges : \A c \in Ctrls : <<"contr", b, c>> \in A => c \in r.bc[b]

ContrInv == Clear /\ phase = "delete" => HasAsked(txn, doc)

\* A reference to a deleted row: the document A has the reference, and the
\* row is one of those that the edit has deleted (W).
Explained(d, r, A, W) ==
    \/ \E b \in r.bridge, p \in Ports :
         d = <<"bp", b, p>> /\ <<"bport", b, p>> \in A /\ <<"port", p>> \in W
    \/ \E b \in r.bridge, t \in Tables :
         d = <<"bt", b, t>> /\ <<"btable", b, t>> \in A /\ <<"table", t>> \in W

DeadInv == Clear => \A d \in txn.dead : Explained(d, txn, ask, swap)

\* One that only the transaction has.  Either the edit writes already, and the
\* document A has the reference; or it has deleted (C) another reference of
\* the bridge.
Excused(d, r, A, W, C, ph) ==
    \/ \E b \in r.bridge, p \in Ports :
         /\ d = <<"bp", b, p>> /\ <<"port", p>> \in W
         /\ \/ ph = "write" /\ <<"bport", b, p>> \in A
            \/ <<"bport", b, p>> \in A \cup C /\ \E o \in Ports : o # p /\ <<"bport", b, o>> \in C
    \/ \E b \in r.bridge, t \in Tables :
         /\ d = <<"bt", b, t>> /\ <<"table", t>> \in W
         /\ \/ ph = "write" /\ <<"btable", b, t>> \in A
            \/ <<"btable", b, t>> \in A \cup C /\ \E o \in Tables : o # t /\ <<"btable", b, o>> \in C

LostInv == Clear => \A d \in txn.lost : Excused(d, txn, ask, swap, cut, phase)

IInv ==
    /\ TypeOK /\ Good(db) /\ Good(txn)
    /\ AskInv /\ DeleteInv /\ KeyInv /\ ContrInv /\ DeadInv /\ LostInv
    /\ KeyIsId /\ RefusedForReason

-----------------------------------------------------------------------------
(* Rows, column by column                                                  *)

\* The columns that have to do with queues.
SameQueues(r, s) == s.pq = r.pq /\ s.qid = r.qid /\ s.qos = r.qos

\* The others.
SameBridges(r, s) ==
    /\ s.port = r.port /\ s.table = r.table /\ s.bridge = r.bridge
    /\ s.bp = r.bp /\ s.bt = r.bt /\ s.bc = r.bc /\ s.contr = r.contr

\* The references to deleted rows are the same.
SameRefs(r, s) == s.dead = r.dead /\ s.lost = r.lost

\* There are no more; those of QoS rows may be lost.
NoMore(r, s) ==
    /\ s.dead \subseteq r.dead
    /\ \A d \in s.lost : d \in r.lost \/ (d \in r.dead /\ d[1] = "qos")

\* Each step of several adds none.
LEMMA NoMoreThan ==
    ASSUME NEW r, NEW t, NoMore(r, t), NEW s, NoMore(t, s)
    PROVE  NoMore(r, s)
BY DEF NoMore

\* The same references are no more.
LEMMA SameNoMore ==
    ASSUME NEW r, NEW s, SameRefs(r, s)
    PROVE  NoMore(r, s)
BY DEF NoMore, SameRefs

\* The types of the columns.
LEMMA Columns ==
    ASSUME NEW r \in Rows
    PROVE  /\ r.port \in SUBSET Ports /\ r.pq \in [Ports -> QosRows \cup {None}]
           /\ r.qid \in [Queues -> Ids \cup {None}]
           /\ r.qos \in [QosRows -> SUBSET (Ids \X Queues)]
           /\ r.table \in SUBSET Tables /\ r.bridge \in SUBSET Bridges
           /\ r.bp \in [Bridges -> SUBSET Ports] /\ r.bt \in [Bridges -> SUBSET Tables]
           /\ r.bc \in [Bridges -> SUBSET Ctrls] /\ r.contr \in SUBSET Contrs
BY DEF Rows

\* A map keeps a pair of a set that is not empty.
LEMMA Survivors ==
    ASSUME NEW S, NEW T \in UniqueKeys(S)
    PROVE  T \subseteq S /\ (S # {} => T # {})
BY DEF UniqueKeys

\* What SetQueues changes.
LEMMA SetQueuesFields ==
    ASSUME NEW r \in Rows, NEW k \in QosRows, NEW S \in SUBSET (Ids \X Queues),
           NEW s \in SetQueues(r, k, S)
    PROVE  /\ s \in Rows /\ SameBridges(r, s) /\ s.pq = r.pq /\ s.qid = r.qid
           /\ NoMore(r, s)
           /\ s.qos[k] \subseteq S /\ (S # {} => s.qos[k] # {})
           /\ \A j \in QosRows : j # k => s.qos[j] = r.qos[j]
<1>1. PICK T \in UniqueKeys(S) : s = [r EXCEPT !.qos[k] = T, !.dead = @ \ Dead(r, "qos", k),
                           !.lost = (@ \ Lost(r, "qos", k)) \cup Dead(r, "qos", k)]
  BY DEF SetQueues
<1>2. T \subseteq S /\ (S # {} => T # {})
  BY Survivors
<1>3. T \in SUBSET (Ids \X Queues)
  BY <1>2
<1> HIDE DEF UniqueKeys
<1>4. s \in Rows /\ s.qos = [r.qos EXCEPT ![k] = T]
  <2>1. Dead(r, "qos", k) \subseteq DeadRefs
    BY DEF Dead, Rows
  <2> QED BY <1>1, <1>3, <2>1 DEF Rows
<1>5. NoMore(r, s) /\ SameBridges(r, s) /\ s.pq = r.pq /\ s.qid = r.qid
  <2>1. s.dead = r.dead \ Dead(r, "qos", k) /\ s.lost = (r.lost \ Lost(r, "qos", k)) \cup Dead(r, "qos", k)
    BY <1>1 DEF Rows
  <2>2. NoMore(r, s)
    BY <2>1 DEF NoMore, Dead
  <2> QED BY <1>1, <2>2 DEF Rows, SameBridges
<1> QED BY <1>2, <1>4, <1>5, Columns

\* The part of Good that speaks of queues.
GoodQueues(r) ==
    /\ \A p \in Ports : r.pq[p] # None => p \in r.port /\ r.qos[r.pq[p]] # {}
    /\ \A k \in QosRows : \A x \in r.qos[k] : r.qid[x[2]] # None
    /\ OwnQos(r) /\ OnePlace(r)

\* A change of queues leaves the rest good.
LEMMA QueueChange ==
    ASSUME NEW r, Good(r), NEW s \in Rows, SameBridges(r, s), GoodQueues(s)
    PROVE  Good(s)
BY DEF Good, GoodQueues, SameBridges, Refs, NoBridge, HasContrs

-----------------------------------------------------------------------------
(* Queues                                                                  *)

\* Ports have queues in the QoS they refer to.
LEMMA QueuePort ==
    ASSUME NEW r, Good(r), NEW q \in Queues, NEW p \in Ports, r.pq[p] # None,
           Pairs(r, r.pq[p], q) # {}
    PROVE  p \in FindQueuePort(r, q) /\ r.pq[p] \in QosOf(r, q) /\ r.pq[p] \in QosRows
BY DEF Good, Refs, Rows, FindQueuePort, QosOf

\* In rows without ambiguity a queue has one place.
LEMMA Lone ==
    ASSUME NEW r, Good(r), ~Ambiguous(r), KeysMatch(r), NEW q \in Queues,
           NEW j \in QosOf(r, q), NEW k \in QosOf(r, q),
           NEW x \in Pairs(r, j, q), NEW y \in Pairs(r, k, q)
    PROVE  j = k /\ x = y
<1>1. IsFiniteSet(QosOf(r, q))
  BY RowsAssumption, FS_Subset DEF QosOf
<1>2. Cardinality(QosOf(r, q)) \in Nat /\ ~(Cardinality(QosOf(r, q)) > 1)
  BY <1>1, FS_CardinalityType DEF Ambiguous
<1>3. j = k
  <2>1. Cardinality({j, k}) <= Cardinality(QosOf(r, q))
    BY <1>1, FS_Subset
  <2>2. j # k => Cardinality({j, k}) = 2
    <3>1. IsFiniteSet({j}) /\ Cardinality({j}) = 1
      BY FS_Singleton
    <3>2. j # k => Cardinality({j} \cup {k}) = Cardinality({j}) + 1
      BY <3>1, FS_AddElement
    <3>3. {j} \cup {k} = {j, k}
      OBVIOUS
    <3> QED BY <3>1, <3>2, <3>3
  <2> QED BY <1>2, <2>1, <2>2
<1>4. x \in r.qos[j] /\ y \in r.qos[k] /\ x[2] = q /\ y[2] = q /\ j \in QosRows /\ k \in QosRows
  BY DEF Pairs, QosOf
<1>5. x[1] = y[1]
  BY <1>4 DEF KeysMatch
<1>6. x \in Ids \X Queues /\ y \in Ids \X Queues
  BY <1>4, Columns DEF Good
<1> QED BY <1>3, <1>4, <1>5, <1>6

\* What txn_del_qos_queue changes: a pair of the queue goes.
LEMMA DelQosQueue ==
    ASSUME NEW r \in Rows, NEW k \in QosRows, NEW q \in Queues, Pairs(r, k, q) # {},
           NEW s \in TxnDelQosQueue(r, k, q)
    PROVE  /\ s \in Rows /\ SameBridges(r, s) /\ s.pq = r.pq /\ s.qid = r.qid
           /\ NoMore(r, s)
           /\ s.qos[k] \subseteq r.qos[k]
           /\ \E x \in Pairs(r, k, q) : x \notin s.qos[k]
           /\ \A j \in QosRows : j # k => s.qos[j] = r.qos[j]
<1>1. CASE s = [r EXCEPT !.qos[k] = {}, !.lost = @ \ Lost(r, "qos", k)]
  <2>1. s \in Rows /\ s.qos = [r.qos EXCEPT ![k] = {}]
    BY <1>1 DEF Rows
  <2>2. NoMore(r, s) /\ SameBridges(r, s) /\ s.pq = r.pq /\ s.qid = r.qid
    <3>1. s.dead = r.dead /\ s.lost = r.lost \ Lost(r, "qos", k)
      BY <1>1 DEF Rows
    <3> QED BY <1>1, <3>1 DEF Rows, SameBridges, NoMore
  <2> QED BY <2>1, <2>2, Columns
<1>2. CASE \E x \in Pairs(r, k, q) : s \in SetQueues(r, k, r.qos[k] \ {x})
  <2>1. PICK x \in Pairs(r, k, q) : s \in SetQueues(r, k, r.qos[k] \ {x})
    BY <1>2
  <2>2. r.qos[k] \ {x} \in SUBSET (Ids \X Queues)
    BY Columns
  <2> QED BY <2>1, <2>2, SetQueuesFields
<1> QED BY <1>1, <1>2 DEF TxnDelQosQueue

\* Less in the QoS rows, fewer references to them.
Less(r, s) ==
    /\ s \in Rows /\ SameBridges(r, s) /\ NoMore(r, s) /\ s.qid = r.qid
    /\ \A k \in QosRows : s.qos[k] \subseteq r.qos[k]
    /\ \A p \in Ports : s.pq[p] \in {r.pq[p], None}

\* Fewer references are good if QoS rows in use keep a queue.
LEMMA LessIsGood ==
    ASSUME NEW r, Good(r), NEW s, Less(r, s),
           \A p \in Ports : s.pq[p] # None => s.qos[s.pq[p]] # {}
    PROVE  Good(s)
<1>1. s \in Rows /\ SameBridges(r, s) /\ r \in Rows
  BY DEF Less, Good
<1>2. \A p \in Ports : s.pq[p] # None =>
         /\ s.pq[p] = r.pq[p] /\ s.pq[p] \in QosRows /\ s.qos[s.pq[p]] \subseteq r.qos[r.pq[p]]
         /\ p \in s.port
  BY <1>1, Columns DEF Less, Good, Refs, SameBridges
<1>3. \A k \in QosRows : \A x \in s.qos[k] : s.qid[x[2]] # None
  BY DEF Less, Good, Refs
<1>4. OwnQos(s)
  BY <1>2 DEF OwnQos, Good
<1>5. OnePlace(s)
  BY <1>2 DEF OnePlace, Good
<1> QED BY <1>1, <1>2, <1>3, <1>4, <1>5, QueueChange DEF GoodQueues

\* txn_del_queue_port: the queue is in the QoS of no port any more.
LEMMA DelQueuePort ==
    ASSUME NEW r, Good(r), NEW q \in Queues, NEW s \in TxnDelQueuePort(r, q)
    PROVE  /\ Good(s) /\ Less(r, s)
           /\ FindQueuePort(s, q) = {}
           /\ \E k \in QosOf(r, q) : \E x \in Pairs(r, k, q) : x \notin s.qos[k]
           /\ FreeQos(r) \subseteq FreeQos(s)
<1>1. PICK p \in FindQueuePort(r, q) : \E t \in TxnDelQosQueue(r, r.pq[p], q) :
         s = [t EXCEPT !.pq[p] = IF t.qos[r.pq[p]] = {} THEN None ELSE @]
  BY DEF TxnDelQueuePort
<1>2. PICK t \in TxnDelQosQueue(r, r.pq[p], q) :
         s = [t EXCEPT !.pq[p] = IF t.qos[r.pq[p]] = {} THEN None ELSE @]
  BY <1>1
<1> DEFINE k == r.pq[p]
<1>3. /\ r \in Rows /\ p \in Ports /\ p \in r.port /\ k # None /\ k \in QosRows
      /\ Pairs(r, k, q) # {} /\ k \in QosOf(r, q)
  BY Columns DEF Good, FindQueuePort, QosOf
<1>4. /\ t \in Rows /\ SameBridges(r, t) /\ t.pq = r.pq /\ t.qid = r.qid
      /\ NoMore(r, t)
      /\ t.qos[k] \subseteq r.qos[k]
      /\ \E x \in Pairs(r, k, q) : x \notin t.qos[k]
      /\ \A j \in QosRows : j # k => t.qos[j] = r.qos[j]
  BY <1>2, <1>3, DelQosQueue
<1> HIDE DEF k
<1>5. /\ s \in Rows /\ SameBridges(t, s) /\ s.qid = t.qid /\ s.qos = t.qos /\ SameRefs(t, s)
      /\ s.pq = [t.pq EXCEPT ![p] = IF t.qos[k] = {} THEN None ELSE @]
  BY <1>2, <1>4 DEF Rows, SameBridges, SameRefs, k
<1>6. Less(r, s)
  <2>1. NoMore(r, s)
    BY <1>4, <1>5, SameNoMore, NoMoreThan
  <2> QED BY <1>3, <1>4, <1>5, <2>1, Columns DEF Less, SameBridges
<1>7. \A o \in Ports : o # p => s.pq[o] = r.pq[o] /\ (r.pq[o] # None => r.pq[o] # k)
  BY <1>3, <1>4, <1>5, Columns DEF Good, OwnQos, k
<1>8. \A o \in Ports : s.pq[o] # None => s.qos[s.pq[o]] # {}
  <2>1. ASSUME NEW o \in Ports, o # p, s.pq[o] # None PROVE s.qos[s.pq[o]] # {}
    BY <1>4, <1>5, <1>7, <2>1, Columns, <1>3 DEF Good, Refs
  <2>2. s.pq[p] # None => s.qos[s.pq[p]] # {}
    BY <1>3, <1>4, <1>5, Columns DEF k
  <2> QED BY <2>1, <2>2
<1>9. Good(s)
  BY <1>6, <1>8, LessIsGood
<1>10. PICK x \in Pairs(r, k, q) : x \notin s.qos[k]
  BY <1>4, <1>5
<1>11. FindQueuePort(s, q) = {}
  <2> SUFFICES ASSUME NEW o \in Ports, s.pq[o] # None, NEW y \in Pairs(s, s.pq[o], q)
               PROVE  FALSE
    BY <1>5, Columns DEF FindQueuePort
  <2>1. s.pq[o] = r.pq[o] /\ r.pq[o] \in QosRows /\ y \in r.qos[r.pq[o]] /\ y[2] = q
    BY <1>3, <1>6, Columns DEF Less, Pairs
  <2>2. x \in r.qos[r.pq[p]] /\ x[2] = q
    BY DEF Pairs, k
  <2>3. o = p /\ y = x
    BY <1>3, <2>1, <2>2 DEF Good, OnePlace, k
  <2> QED BY <1>10, <2>1, <2>3 DEF Pairs, k
<1>12. FreeQos(r) \subseteq FreeQos(s)
  <2> SUFFICES ASSUME NEW j \in FreeQos(r) PROVE j \in FreeQos(s)
    OBVIOUS
  <2>1. /\ j \in QosRows /\ j # None /\ r.qos[j] = {} /\ Dead(r, "qos", j) = {}
        /\ Lost(r, "qos", j) = {} /\ \A o \in Ports : r.pq[o] # j
    BY RowsAssumption DEF FreeQos
  <2>2. s.qos[j] = {} /\ \A o \in Ports : s.pq[o] # j
    BY <2>1, <1>6 DEF Less
  <2>3. Dead(s, "qos", j) = {} /\ Lost(s, "qos", j) = {}
    <3>1. NoMore(r, s)
      BY <1>6 DEF Less
    <3>2. ASSUME NEW d \in s.dead, d[1] = "qos", d[2] = j PROVE FALSE
      BY <2>1, <3>1, <3>2 DEF Dead, NoMore
    <3>3. ASSUME NEW d \in s.lost, d[1] = "qos", d[2] = j PROVE FALSE
      <4>1. d \in Lost(r, "qos", j) \/ d \in Dead(r, "qos", j)
        BY <3>1, <3>3 DEF Dead, Lost, NoMore
      <4> QED BY <2>1, <4>1
    <3> QED BY <3>2, <3>3 DEF Dead, Lost
  <2> QED BY <2>1, <2>2, <2>3 DEF FreeQos
<1> QED BY <1>3, <1>6, <1>9, <1>10, <1>11, <1>12

\* The last step of txn_del_queue: the row goes, and with it what refers to it.
LEMMA DelQueueOnly ==
    ASSUME NEW r, Good(r), NEW q \in Queues, FindQueuePort(r, q) = {},
           NEW s \in TxnDelQueueOnly(r, q)
    PROVE  /\ Good(s) /\ SameBridges(r, s) /\ s.pq = r.pq
           /\ s.qid = [r.qid EXCEPT ![q] = None]
           /\ \A k \in QosRows : s.qos[k] = r.qos[k] \ Pairs(r, k, q)
           /\ QosOf(r, q) = {} => SameRefs(r, s)
<1> DEFINE D == {<<"qos", k, q>> : k \in QosOf(r, q)}
<1>1. s = [r EXCEPT !.qid[q] = None,
                    !.qos = [k \in QosRows |-> @[k] \ Pairs(r, k, q)],
                    !.dead = @ \cup D]
  BY DEF TxnDelQueueOnly
<1>2. D \subseteq DeadRefs
  BY DEF QosOf, DeadRefs
<1>3. QosOf(r, q) = {} => D = {}
  OBVIOUS
<1> HIDE DEF D
<1>4. r \in Rows
  BY DEF Good
<1>5. /\ s.qid = [r.qid EXCEPT ![q] = None]
      /\ s.qos = [k \in QosRows |-> r.qos[k] \ Pairs(r, k, q)]
      /\ s.dead = r.dead \cup D /\ s.lost = r.lost /\ SameBridges(r, s) /\ s.pq = r.pq
  BY <1>1, <1>4 DEF Rows, SameBridges
<1>6. s \in Rows
  BY <1>1, <1>2, <1>4 DEF Rows
<1>7. \A p \in Ports : s.pq[p] # None =>
         s.pq[p] \in QosRows /\ s.qos[s.pq[p]] = r.qos[r.pq[p]] /\ p \in s.port
  <2> SUFFICES ASSUME NEW p \in Ports, s.pq[p] # None
               PROVE  s.pq[p] \in QosRows /\ s.qos[s.pq[p]] = r.qos[r.pq[p]] /\ p \in s.port
    OBVIOUS
  <2>1. r.pq[p] # None /\ r.pq[p] \in QosRows /\ p \in r.port
    BY <1>4, <1>5, Columns DEF Good, Refs
  <2>2. Pairs(r, r.pq[p], q) = {}
    BY <2>1 DEF FindQueuePort
  <2>3. s.qos[r.pq[p]] = r.qos[r.pq[p]] \ {}
    BY <1>5, <2>1, <2>2
  <2> QED BY <1>5, <2>1, <2>3 DEF SameBridges
<1>8. \A k \in QosRows : \A x \in s.qos[k] : s.qid[x[2]] # None
  <2> SUFFICES ASSUME NEW k \in QosRows, NEW x \in s.qos[k] PROVE s.qid[x[2]] # None
    OBVIOUS
  <2>1. x \in r.qos[k] /\ x[2] # q /\ x[2] \in Queues
    BY <1>4, <1>5, Columns DEF Pairs
  <2> QED BY <1>4, <1>5, <2>1, Columns DEF Good, Refs
<1>9. GoodQueues(s)
  <2>1. OwnQos(s)
    BY <1>5 DEF Good, OwnQos
  <2>2. OnePlace(s)
    <3>1. OnePlace(r)
      BY DEF Good
    <3> SUFFICES ASSUME NEW p \in Ports, NEW o \in Ports, s.pq[p] # None, s.pq[o] # None,
                        NEW x \in s.qos[s.pq[p]], NEW y \in s.qos[s.pq[o]], x[2] = y[2]
                 PROVE  p = o /\ x = y
      BY DEF OnePlace
    <3>2. x \in r.qos[r.pq[p]] /\ y \in r.qos[r.pq[o]] /\ r.pq[p] # None /\ r.pq[o] # None
      BY <1>5, <1>7
    <3> QED BY <3>1, <3>2 DEF OnePlace
  <2>3. \A p \in Ports : s.pq[p] # None => s.qos[s.pq[p]] # {}
    BY <1>5, <1>7 DEF Good, Refs
  <2> QED BY <1>7, <1>8, <2>1, <2>2, <2>3 DEF GoodQueues
<1>10. QosOf(r, q) = {} => SameRefs(r, s)
  BY <1>3, <1>5 DEF SameRefs
<1> QED BY <1>5, <1>6, <1>9, <1>10, QueueChange

\* txn_del_queue
LEMMA DelQueue ==
    ASSUME NEW r, Good(r), NEW q \in Queues, NEW s \in TxnDelQueue(r, q)
    PROVE  /\ Good(s) /\ SameBridges(r, s)
           /\ \A o \in Queues : s.qid[o] = IF o = q THEN None ELSE r.qid[o]
           /\ \A k \in QosRows : s.qos[k] \subseteq r.qos[k]
           /\ \A k \in QosRows : Pairs(s, k, q) = {}
           /\ \A p \in Ports : s.pq[p] \in {r.pq[p], None}
           /\ ~Ambiguous(r) /\ KeysMatch(r) => NoMore(r, s)
<1>1. r \in Rows
  BY DEF Good
<1>2. ASSUME NEW t, Good(t), Less(r, t), FindQueuePort(t, q) = {}, s \in TxnDelQueueOnly(t, q),
             ~Ambiguous(r) /\ KeysMatch(r) => QosOf(t, q) = {}
      PROVE  /\ Good(s) /\ SameBridges(r, s)
             /\ \A o \in Queues : s.qid[o] = IF o = q THEN None ELSE r.qid[o]
             /\ \A k \in QosRows : s.qos[k] \subseteq r.qos[k]
             /\ \A k \in QosRows : Pairs(s, k, q) = {}
             /\ \A p \in Ports : s.pq[p] \in {r.pq[p], None}
             /\ ~Ambiguous(r) /\ KeysMatch(r) => NoMore(r, s)
  <2>1. /\ Good(s) /\ SameBridges(t, s) /\ s.pq = t.pq
        /\ s.qid = [t.qid EXCEPT ![q] = None]
        /\ \A k \in QosRows : s.qos[k] = t.qos[k] \ Pairs(t, k, q)
        /\ QosOf(t, q) = {} => SameRefs(t, s)
    BY <1>2, DelQueueOnly
  <2>2. \A k \in QosRows : Pairs(s, k, q) = {}
    BY <2>1 DEF Pairs
  <2>3. \A o \in Queues : s.qid[o] = IF o = q THEN None ELSE r.qid[o]
    BY <1>1, <1>2, <2>1, Columns DEF Less
  <2>4. ~Ambiguous(r) /\ KeysMatch(r) => NoMore(r, s)
    BY <1>2, <2>1, SameNoMore, NoMoreThan DEF Less
  <2> QED BY <1>2, <2>1, <2>2, <2>3, <2>4 DEF Less, SameBridges
<1>3. ASSUME NEW t, Less(r, t), NEW k \in QosOf(r, q), NEW x \in Pairs(r, k, q), x \notin t.qos[k],
             ~Ambiguous(r), KeysMatch(r)
      PROVE  QosOf(t, q) = {}
  <2> SUFFICES ASSUME NEW j \in QosRows, NEW y \in Pairs(t, j, q) PROVE FALSE
    BY DEF QosOf
  <2>1. y \in Pairs(r, j, q) /\ j \in QosOf(r, q)
    BY <1>3 DEF Less, Pairs, QosOf
  <2>2. j = k /\ x = y
    BY <1>3, <2>1, Lone
  <2> QED BY <1>3, <2>2 DEF Pairs
<1>4. CASE FindQueuePort(r, q) # {}
  <2>1. PICK t \in TxnDelQueuePort(r, q) : s \in TxnDelQueueOnly(t, q)
    BY <1>4 DEF TxnDelQueue
  <2>2. /\ Good(t) /\ Less(r, t) /\ FindQueuePort(t, q) = {}
        /\ \E k \in QosOf(r, q) : \E x \in Pairs(r, k, q) : x \notin t.qos[k]
    BY DelQueuePort
  <2> QED BY <1>2, <1>3, <2>1, <2>2
<1>5. CASE FindQueuePort(r, q) = {} /\ QosOf(r, q) # {}
  <2>1. PICK k \in QosOf(r, q) : \E t \in TxnDelQosQueue(r, k, q) : s \in TxnDelQueueOnly(t, q)
    BY <1>5 DEF TxnDelQueue
  <2>2. PICK t \in TxnDelQosQueue(r, k, q) : s \in TxnDelQueueOnly(t, q)
    BY <2>1
  <2>3. k \in QosRows /\ Pairs(r, k, q) # {}
    BY DEF QosOf
  <2>4. /\ t \in Rows /\ SameBridges(r, t) /\ t.pq = r.pq /\ t.qid = r.qid
        /\ NoMore(r, t)
        /\ t.qos[k] \subseteq r.qos[k]
        /\ \E x \in Pairs(r, k, q) : x \notin t.qos[k]
        /\ \A j \in QosRows : j # k => t.qos[j] = r.qos[j]
    BY <1>1, <2>3, DelQosQueue
  <2>5. Less(r, t)
    BY <2>4 DEF Less
  <2>6. \A p \in Ports : t.pq[p] # None => t.qos[t.pq[p]] # {}
    <3> SUFFICES ASSUME NEW p \in Ports, r.pq[p] # None PROVE t.qos[r.pq[p]] # {}
      BY <2>4
    <3>1. r.pq[p] # k
      BY <1>5, <2>3, QueuePort
    <3> QED BY <1>1, <2>4, <3>1, Columns DEF Good, Refs
  <2>7. Good(t)
    BY <2>5, <2>6, LessIsGood
  <2>8. FindQueuePort(t, q) = {}
    BY <1>1, <1>5, <2>4, <2>5, Columns DEF FindQueuePort, Pairs, Less, SameBridges
  <2> QED BY <1>2, <1>3, <2>2, <2>4, <2>5, <2>7, <2>8
<1>6. CASE FindQueuePort(r, q) = {} /\ QosOf(r, q) = {}
  <2>1. s \in TxnDelQueueOnly(r, q)
    BY <1>6 DEF TxnDelQueue
  <2>2. Less(r, r)
    BY <1>1 DEF Less, SameBridges, NoMore
  <2> QED BY <1>2, <1>6, <2>1, <2>2
<1> QED BY <1>4, <1>5, <1>6

\* txn_mod_queue_id: the number changes, and the key in one QoS.
LEMMA ModQueueId ==
    ASSUME NEW r, Good(r), NEW q \in Queues, NEW i \in Ids, NEW s \in TxnModQueueId(r, q, i)
    PROVE  /\ Good(s) /\ SameBridges(r, s) /\ s.pq = r.pq /\ NoMore(r, s)
           /\ s.qid = [r.qid EXCEPT ![q] = i]
           /\ r.qid[q] # None
           /\ QosOf(r, q) = {} => s.qos = r.qos /\ SameRefs(r, s)
           /\ QosOf(r, q) # {} => \E k \in QosOf(r, q) : \E x \in Pairs(r, k, q) :
                 /\ s.qos[k] \subseteq (r.qos[k] \ {x}) \cup {<<i, q>>}
                 /\ \A j \in QosRows : j # k => s.qos[j] = r.qos[j]
<1> DEFINE t == [r EXCEPT !.qid[q] = i]
<1>1. r \in Rows /\ i # None
  BY RowsAssumption DEF Good
<1>2. /\ t \in Rows /\ SameBridges(r, t) /\ t.pq = r.pq /\ SameRefs(r, t) /\ t.qos = r.qos
      /\ t.qid = [r.qid EXCEPT ![q] = i]
  BY <1>1 DEF Rows, SameBridges, SameRefs
<1>3. r.qid[q] # None
  BY DEF TxnModQueueId
<1>4. CASE QosOf(r, q) = {}
  <2>1. s = t
    BY <1>3, <1>4 DEF TxnModQueueId
  <2> HIDE DEF t
  <2>2. GoodQueues(s)
    BY <1>1, <1>2, <2>1, Columns DEF Good, GoodQueues, Refs, OwnQos, OnePlace, SameBridges
  <2>3. NoMore(r, s)
    BY <1>2, <2>1, SameNoMore
  <2> QED BY <1>2, <1>3, <1>4, <2>1, <2>2, <2>3, QueueChange
<1>5. CASE QosOf(r, q) # {}
  <2> DEFINE R(k) == UNION {SetQueues(t, k, (r.qos[k] \ {x}) \cup {<<i, q>>}) :
                              x \in Pairs(r, k, q)}
  <2>0. TxnModQueueId(r, q, i) = UNION {R(k) : k \in QosOf(r, q)}
    BY <1>3, <1>5, Zenon DEF TxnModQueueId
  <2> HIDE DEF t
  <2>1. PICK k \in QosOf(r, q) : \E x \in Pairs(r, k, q) :
           s \in SetQueues(t, k, (r.qos[k] \ {x}) \cup {<<i, q>>})
    <3> HIDE DEF R
    <3>1. PICK k \in QosOf(r, q) : s \in R(k)
      BY <2>0
    <3> QED BY <3>1 DEF R
  <2>2. PICK x \in Pairs(r, k, q) : s \in SetQueues(t, k, (r.qos[k] \ {x}) \cup {<<i, q>>})
    BY <2>1
  <2>3. k \in QosRows /\ x \in r.qos[k] /\ x[2] = q
    BY DEF QosOf, Pairs
  <2> DEFINE S == (r.qos[k] \ {x}) \cup {<<i, q>>}
  <2>4. S \in SUBSET (Ids \X Queues) /\ S # {} /\ s \in SetQueues(t, k, S)
    <3>1. s \in SetQueues(t, k, S)
      BY <2>2
    <3>2. S \in SUBSET (Ids \X Queues)
      BY <1>1, <2>3, Columns
    <3>3. <<i, q>> \in S
      OBVIOUS
    <3> QED BY <3>1, <3>2, <3>3
  <2> HIDE DEF S
  <2>5. /\ s \in Rows /\ SameBridges(t, s) /\ s.pq = t.pq /\ s.qid = t.qid
        /\ NoMore(t, s)
        /\ s.qos[k] \subseteq S /\ s.qos[k] # {}
        /\ \A j \in QosRows : j # k => s.qos[j] = t.qos[j]
    BY <1>2, <2>3, <2>4, SetQueuesFields
  <2> USE DEF S
  <2>6. \A p \in Ports : r.pq[p] # None => r.pq[p] \in QosRows /\ p \in r.port /\ r.qos[r.pq[p]] # {}
    BY <1>1, Columns DEF Good, Refs
  <2>7. \A p \in Ports : s.pq[p] # None => p \in s.port /\ s.qos[s.pq[p]] # {}
    BY <1>2, <2>5, <2>6 DEF SameBridges
  <2>8. \A j \in QosRows : \A y \in s.qos[j] : s.qid[y[2]] # None
    <3> SUFFICES ASSUME NEW j \in QosRows, NEW y \in s.qos[j] PROVE s.qid[y[2]] # None
      OBVIOUS
    <3>1. y \in r.qos[j] \/ y = <<i, q>>
      BY <1>2, <2>5
    <3>2. y[2] \in Queues /\ (y[2] # q => r.qid[y[2]] # None)
      BY <1>1, <3>1, Columns DEF Good, Refs
    <3> QED BY <1>1, <1>2, <2>5, <3>2, Columns
  <2>9. OwnQos(s)
    BY <1>2, <2>5 DEF OwnQos, Good
  <2>10. OnePlace(s)
    <3> SUFFICES ASSUME NEW p \in Ports, NEW o \in Ports, r.pq[p] # None, r.pq[o] # None,
                        NEW y \in s.qos[r.pq[p]], NEW z \in s.qos[r.pq[o]], y[2] = z[2]
                 PROVE  p = o /\ y = z
      BY <1>2, <2>5 DEF OnePlace
    <3>1. \E u \in r.qos[r.pq[p]] : u[2] = y[2] /\ (u = y \/ (r.pq[p] = k /\ u = x /\ y = <<i, q>>))
      BY <1>2, <2>3, <2>5, <2>6
    <3>2. PICK u \in r.qos[r.pq[p]] : u[2] = y[2] /\ (u = y \/ (r.pq[p] = k /\ u = x /\ y = <<i, q>>))
      BY <3>1
    <3>3. \E v \in r.qos[r.pq[o]] : v[2] = z[2] /\ (v = z \/ (r.pq[o] = k /\ v = x /\ z = <<i, q>>))
      BY <1>2, <2>3, <2>5, <2>6
    <3>4. PICK v \in r.qos[r.pq[o]] : v[2] = z[2] /\ (v = z \/ (r.pq[o] = k /\ v = x /\ z = <<i, q>>))
      BY <3>3
    <3>5. p = o /\ u = v
      BY <3>2, <3>4 DEF Good, OnePlace
    <3>6. /\ r.pq[p] = k /\ y = x => y = <<i, q>>
          /\ r.pq[o] = k /\ z = x => z = <<i, q>>
      BY <2>5
    <3> QED BY <3>2, <3>4, <3>5, <3>6
  <2>11. Good(s)
    <3>1. GoodQueues(s)
      BY <2>7, <2>8, <2>9, <2>10 DEF GoodQueues
    <3>2. SameBridges(r, s)
      BY <1>2, <2>5 DEF SameBridges
    <3> QED BY <2>5, <3>1, <3>2, QueueChange
  <2>12. NoMore(r, s)
    BY <1>2, <2>5, SameNoMore, NoMoreThan
  <2> QED BY <1>2, <1>3, <1>5, <2>5, <2>11, <2>12 DEF SameBridges
<1> QED BY <1>4, <1>5

\* txn_add_queue_port: a queue that no port has gets to the QoS of a port.
LEMMA AddQueuePort ==
    ASSUME NEW r, Good(r), NEW q \in Queues, NEW p \in Ports, FindQueuePort(r, q) = {},
           FreeQos(r) # {}, NEW s \in TxnAddQueuePort(r, q, p)
    PROVE  /\ Good(s) /\ SameBridges(r, s) /\ s.qid = r.qid /\ NoMore(r, s)
           /\ r.qid[q] # None
           /\ \A k \in QosRows : s.qos[k] \subseteq r.qos[k] \cup {<<r.qid[q], q>>}
           /\ \A o \in Queues : o # q => FindQueuePort(s, o) \subseteq FindQueuePort(r, o)
<1>1. r \in Rows /\ r.qid[q] # None /\ p \in r.port /\ r.qid[q] \in Ids
  BY Columns DEF TxnAddQueuePort, Good
<1> DEFINE x == <<r.qid[q], q>>
<1>2. x \in Ids \X Queues /\ x[2] = q
  BY <1>1
<1>3. \E k \in QosRows :
         /\ s \in Rows /\ SameBridges(r, s) /\ s.qid = r.qid /\ NoMore(r, s)
         /\ s.qos[k] \subseteq r.qos[k] \cup {x} /\ s.qos[k] # {}
         /\ \A j \in QosRows : j # k => s.qos[j] = r.qos[j]
         /\ s.pq = [r.pq EXCEPT ![p] = k]
         /\ r.pq[p] = k \/ (r.qos[k] = {} /\ \A o \in Ports : r.pq[o] # k)
  <2>1. CASE r.pq[p] = None
    <3> DEFINE k == CHOOSE y \in FreeQos(r) : TRUE
    <3>1. k \in FreeQos(r)
      OBVIOUS
    <3>2. s = [r EXCEPT !.qos[k] = {x}, !.pq[p] = k]
      BY <1>1, <2>1 DEF TxnAddQueuePort
    <3> HIDE DEF k
    <3>3. k \in QosRows /\ r.qos[k] = {} /\ \A o \in Ports : r.pq[o] # k
      BY <3>1 DEF FreeQos
    <3>4. s \in Rows
      BY <1>1, <1>2, <3>2, <3>3 DEF Rows
    <3>5. /\ s.qos = [r.qos EXCEPT ![k] = {x}] /\ s.pq = [r.pq EXCEPT ![p] = k]
          /\ SameBridges(r, s) /\ s.qid = r.qid /\ SameRefs(r, s)
      BY <1>1, <3>2 DEF Rows, SameBridges, SameRefs
    <3>6. s.qos[k] = {x} /\ \A j \in QosRows : j # k => s.qos[j] = r.qos[j]
      BY <1>1, <3>3, <3>5, Columns
    <3>7. NoMore(r, s)
      BY <3>5, SameNoMore
    <3> QED BY <3>3, <3>4, <3>5, <3>6, <3>7
  <2>2. CASE r.pq[p] # None
    <3> DEFINE k == r.pq[p]
               S == r.qos[k] \cup {x}
    <3>1. s \in SetQueues(r, k, S)
      BY <1>1, <2>2 DEF TxnAddQueuePort
    <3>2. k \in QosRows
      BY <1>1, <2>2, Columns
    <3>3. S \in SUBSET (Ids \X Queues)
      BY <1>1, <1>2, <3>2, Columns
    <3>4. x \in S
      OBVIOUS
    <3> HIDE DEF S
    <3>5. /\ s \in Rows /\ SameBridges(r, s) /\ s.pq = r.pq /\ s.qid = r.qid
          /\ NoMore(r, s)
          /\ s.qos[k] \subseteq S /\ (S # {} => s.qos[k] # {})
          /\ \A j \in QosRows : j # k => s.qos[j] = r.qos[j]
      BY <1>1, <3>1, <3>2, <3>3, SetQueuesFields
    <3>6. s.pq = [r.pq EXCEPT ![p] = k]
      BY <1>1, <3>5, Columns
    <3> QED BY <3>2, <3>4, <3>5, <3>6 DEF S
  <2> QED BY <2>1, <2>2
<1> HIDE DEF x
<1>4. PICK k \in QosRows :
         /\ s \in Rows /\ SameBridges(r, s) /\ s.qid = r.qid /\ NoMore(r, s)
         /\ s.qos[k] \subseteq r.qos[k] \cup {x} /\ s.qos[k] # {}
         /\ \A j \in QosRows : j # k => s.qos[j] = r.qos[j]
         /\ s.pq = [r.pq EXCEPT ![p] = k]
         /\ r.pq[p] = k \/ (r.qos[k] = {} /\ \A o \in Ports : r.pq[o] # k)
  BY <1>3
<1>5. /\ k # None /\ s.pq[p] = k
      /\ \A o \in Ports : o # p => s.pq[o] = r.pq[o] /\ s.pq[o] # k
  <2>1. k # None /\ s.pq[p] = k
    BY <1>1, <1>4, RowsAssumption, Columns
  <2>2. ASSUME NEW o \in Ports, o # p PROVE s.pq[o] = r.pq[o] /\ s.pq[o] # k
    BY <1>1, <1>4, <2>1, <2>2, Columns DEF Good, OwnQos
  <2> QED BY <2>1, <2>2
<1>6. \A o \in Ports : s.pq[o] # None =>
         /\ s.pq[o] \in QosRows /\ o \in s.port /\ s.qos[s.pq[o]] # {}
         /\ \A y \in s.qos[s.pq[o]] :
               \/ y = x /\ o = p
               \/ y \in r.qos[s.pq[o]] /\ r.pq[o] = s.pq[o]
  <2>1. s.qos[k] # {} /\ p \in s.port /\ \A y \in s.qos[k] : y = x \/ (y \in r.qos[k] /\ r.pq[p] = k)
    BY <1>1, <1>4 DEF SameBridges
  <2>2. ASSUME NEW o \in Ports, o # p, s.pq[o] # None
        PROVE  /\ s.pq[o] \in QosRows /\ o \in s.port /\ s.qos[s.pq[o]] # {}
               /\ s.qos[s.pq[o]] = r.qos[s.pq[o]] /\ r.pq[o] = s.pq[o]
    BY <1>1, <1>4, <1>5, <2>2, Columns DEF Good, Refs, SameBridges
  <2> QED BY <1>5, <2>1, <2>2
<1>7. \A o \in Ports : r.pq[o] # None => \A y \in r.qos[r.pq[o]] : y[2] # q
  BY QueuePort DEF Pairs
<1>8. OwnQos(s)
  BY <1>5 DEF Good, OwnQos
<1>9. OnePlace(s)
  <2>1. OnePlace(r)
    BY DEF Good
  <2> SUFFICES ASSUME NEW m \in Ports, NEW o \in Ports, s.pq[m] # None, s.pq[o] # None,
                      NEW y \in s.qos[s.pq[m]], NEW z \in s.qos[s.pq[o]], y[2] = z[2]
               PROVE  m = o /\ y = z
    BY DEF OnePlace
  <2>2. \/ y = x /\ m = p
        \/ y \in r.qos[r.pq[m]] /\ r.pq[m] # None /\ y[2] # q
    BY <1>6, <1>7
  <2>3. \/ z = x /\ o = p
        \/ z \in r.qos[r.pq[o]] /\ r.pq[o] # None /\ z[2] # q
    BY <1>6, <1>7
  <2> QED BY <1>2, <2>1, <2>2, <2>3 DEF OnePlace
<1>10. \A j \in QosRows : \A y \in s.qos[j] : y = x \/ y \in r.qos[j]
  BY <1>4
<1>11. \A j \in QosRows : \A y \in s.qos[j] : s.qid[y[2]] # None
  BY <1>1, <1>2, <1>4, <1>10 DEF Good, Refs
<1>12. Good(s)
  <2>1. GoodQueues(s)
    BY <1>6, <1>8, <1>9, <1>11 DEF GoodQueues
  <2> QED BY <1>4, <2>1, QueueChange
<1>13. ASSUME NEW o \in Queues, o # q PROVE FindQueuePort(s, o) \subseteq FindQueuePort(r, o)
  <2> SUFFICES ASSUME NEW m \in FindQueuePort(s, o) PROVE m \in FindQueuePort(r, o)
    OBVIOUS
  <2>1. PICK y \in s.qos[s.pq[m]] : y[2] = o /\ m \in Ports /\ s.pq[m] # None
    BY <1>4, Columns DEF FindQueuePort, Pairs
  <2>2. y \in r.qos[r.pq[m]] /\ r.pq[m] # None
    BY <1>2, <1>6, <1>13, <2>1
  <2>3. Pairs(r, r.pq[m], o) # {}
    BY <2>1, <2>2 DEF Pairs
  <2> QED BY <2>1, <2>2, <2>3, QueuePort
<1> QED BY <1>1, <1>4, <1>10, <1>12, <1>13 DEF x

\* A queue without a row is in no QoS.
LEMMA NoQueue ==
    ASSUME NEW r, Good(r), NEW q \in Queues, r.qid[q] = None
    PROVE  QosOf(r, q) = {} /\ FindQueuePort(r, q) = {}
<1>1. \A k \in QosRows : Pairs(r, k, q) = {}
  BY DEF Good, Refs, Pairs
<1> QED BY <1>1, Columns DEF Good, QosOf, FindQueuePort

\* txn_add_queue
LEMMA AddQueue ==
    ASSUME NEW r, Good(r), NEW q \in Queues, NEW i \in Ids, NEW port \in Ports \cup {None},
           r.qid[q] = None, FreeQos(r) # {}, NEW s \in TxnAddQueue(r, q, i, port)
    PROVE  /\ Good(s) /\ SameBridges(r, s) /\ NoMore(r, s)
           /\ s.qid = [r.qid EXCEPT ![q] = i]
           /\ \A k \in QosRows : s.qos[k] \subseteq r.qos[k] \cup {<<i, q>>}
           /\ \A o \in Queues : o # q => FindQueuePort(s, o) \subseteq FindQueuePort(r, o)
           /\ port = None => FindQueuePort(s, q) = {}
<1> DEFINE t == [r EXCEPT !.qid[q] = i]
<1>1. r \in Rows /\ i # None /\ QosOf(r, q) = {} /\ FindQueuePort(r, q) = {}
  BY RowsAssumption, NoQueue DEF Good
<1>2. /\ t \in Rows /\ SameBridges(r, t) /\ t.pq = r.pq /\ SameRefs(r, t) /\ t.qos = r.qos
      /\ t.qid = [r.qid EXCEPT ![q] = i]
  BY <1>1 DEF Rows, SameBridges, SameRefs
<1>3. PICK u \in TxnModQueueId(t, q, i) :
         IF port = None THEN s = u ELSE s \in TxnAddQueuePort(u, q, port)
  BY DEF TxnAddQueue
<1> HIDE DEF t
<1>4. Good(t)
  <2>1. \A k \in QosRows : \A x \in t.qos[k] : t.qid[x[2]] # None
    BY <1>1, <1>2, Columns DEF Good, Refs
  <2>2. GoodQueues(t)
    BY <1>2, <2>1 DEF Good, GoodQueues, Refs, OwnQos, OnePlace, SameBridges
  <2> QED BY <1>2, <2>2, QueueChange
<1>5. QosOf(t, q) = {}
  BY <1>1, <1>2 DEF QosOf, Pairs
<1>6. /\ Good(u) /\ SameBridges(t, u) /\ u.pq = t.pq
      /\ u.qid = [t.qid EXCEPT ![q] = i] /\ u.qos = t.qos /\ SameRefs(t, u)
  BY <1>3, <1>4, <1>5, ModQueueId
<1>7. u.qid = [r.qid EXCEPT ![q] = i] /\ u.qid[q] = i
  BY <1>1, <1>2, <1>6, Columns
<1>8. FreeQos(u) # {} /\ FindQueuePort(u, q) = {}
  BY <1>1, <1>2, <1>6 DEF FreeQos, Dead, Lost, SameRefs, FindQueuePort, Pairs, SameBridges
<1>9. \A o \in Queues : FindQueuePort(u, o) = FindQueuePort(r, o)
  BY <1>2, <1>6 DEF FindQueuePort, Pairs, SameBridges
<1>10. SameBridges(r, u)
  BY <1>2, <1>6 DEF SameBridges
<1>13. NoMore(r, u)
  BY <1>2, <1>6, SameNoMore, NoMoreThan
<1>11. CASE port = None
  BY <1>2, <1>3, <1>6, <1>7, <1>8, <1>9, <1>10, <1>11, <1>13
<1>12. CASE port # None
  <2>1. port \in Ports /\ s \in TxnAddQueuePort(u, q, port)
    BY <1>3, <1>12
  <2>2. /\ Good(s) /\ SameBridges(u, s) /\ s.qid = u.qid /\ NoMore(u, s)
        /\ \A k \in QosRows : s.qos[k] \subseteq u.qos[k] \cup {<<u.qid[q], q>>}
        /\ \A o \in Queues : o # q => FindQueuePort(s, o) \subseteq FindQueuePort(u, o)
    <3>1. Good(u) /\ FindQueuePort(u, q) = {} /\ FreeQos(u) # {}
      BY <1>6, <1>8
    <3> QED BY <2>1, <3>1, AddQueuePort, Zenon
  <2>3. SameBridges(r, s)
    BY <1>10, <2>2 DEF SameBridges
  <2>4. NoMore(r, s)
    BY <1>13, <2>2, NoMoreThan
  <2> QED BY <1>2, <1>6, <1>7, <1>9, <1>12, <2>2, <2>3, <2>4
<1> QED BY <1>11, <1>12

-----------------------------------------------------------------------------
(* One element of an edit                                                  *)

Swapped(D) == {d \in D : d[1] \in {"port", "table"}}
CutOf(D)   == {d \in D : d[1] \in {"bport", "btable"}}

\* The references that only the transaction has are excused.
LostFits(s, D, M) ==
    \A d \in s.lost : Excused(d, s, (ask \ D) \cup M, swap \cup Swapped(D), cut \cup CutOf(D),
                               IF M = {} THEN phase ELSE "write")

\* The rows s keep the invariant when the edit deletes D and creates M.
Fits(s, D, M) ==
    /\ Good(s) /\ AskedQueues(s, (ask \ D) \cup M) /\ AskedBridges(s, (ask \ D) \cup M)
    /\ Clear /\ ~Ambiguous(s) =>
          /\ KeysMatch(s)
          /\ \A d \in s.dead : Explained(d, s, (ask \ D) \cup M, swap \cup Swapped(D))
          /\ LostFits(s, D, M)
          /\ phase = "delete" /\ M = {} => HasAsked(s, doc \ D)

\* An empty database is good.
LEMMA EmptyIsGood == Good(Empty) /\ Empty.dead = {} /\ Empty.lost = {} /\ Empty.fresh = {}
<1>1. Empty \in Rows /\ Empty.dead = {} /\ Empty.lost = {} /\ Empty.fresh = {}
  BY DEF Empty, Rows, Protocols
<1>2. Refs(Empty) /\ OwnQos(Empty) /\ OnePlace(Empty) /\ NoBridge(Empty) /\ HasContrs(Empty)
  BY DEF Empty, Refs, OwnQos, OnePlace, NoBridge, HasContrs
<1> QED BY <1>1, <1>2 DEF Good

\* The end of an edit.
LEMMA EndInv ==
    ASSUME IInv, Idle, Good(db'), db'.dead = {}, db'.lost = {}, db'.fresh = {},
           cache' \in [Contrs -> Protocols], KeyIsId', RefusedForReason'
    PROVE  IInv'
<1>1. Good(txn')
  BY EmptyIsGood DEF Idle
<1>2. phase' = "idle" /\ n' = 0 /\ 0 \in 0..MaxOps 
  BY RowsAssumption DEF Idle
<1>3. TypeOK'
  BY <1>1, <1>2 DEF TypeOK, Good, Refs
<1>4. ~Editing' /\ ~Clear'
  BY <1>2 DEF Editing, Clear
<1> QED BY <1>1, <1>2, <1>3, <1>4
     DEF IInv, AskInv, DeleteInv, KeyInv, ContrInv, DeadInv, LostInv

\* An edit that is given up.
LEMMA AbortInv ==
    ASSUME IInv, TxnAbort, End("failed")
    PROVE  IInv'
<1>1. Good(db') /\ db'.dead = {} /\ db'.lost = {} /\ db'.fresh = {} /\ cache' \in [Contrs -> Protocols]
  BY DEF IInv, TypeOK, TxnAbort
<1>2. last'.res = "failed"
  BY DEF End
<1>3. KeyIsId' /\ RefusedForReason'
  BY <1>2 DEF KeyIsId, RefusedForReason
<1>4. Idle
  BY DEF End
<1> QED BY <1>1, <1>3, <1>4, EndInv

\* One element.
LEMMA HandleInv ==
    ASSUME IInv, Editing, NEW R, NEW D, NEW M, Handle(R, D, M), \A s \in R : Fits(s, D, M)
    PROVE  IInv'
<1>1. CASE TxnAbort /\ End("failed")
  BY <1>1, AbortInv
<1>2. CASE \E r \in R :
            /\ txn' = r
            /\ doc' = doc \ D
            /\ ask' = (ask \ D) \cup M
            /\ odd' = (odd \/ Ambiguous(r))
            /\ swap' = swap \cup {d \in D : d[1] \in {"port", "table"}}
            /\ cut' = cut \cup {d \in D : d[1] \in {"bport", "btable"}}
            /\ n' = n + 1
            /\ phase' = IF M = {} THEN phase ELSE "write"
            /\ UNCHANGED <<db, cache, last>>
  <2>1. /\ txn' \in R /\ doc' = doc \ D /\ ask' = (ask \ D) \cup M
        /\ odd' = (odd \/ Ambiguous(txn')) /\ swap' = swap \cup Swapped(D)
        /\ cut' = cut \cup CutOf(D)
        /\ n' = n + 1 /\ phase' = (IF M = {} THEN phase ELSE "write")
        /\ db' = db /\ cache' = cache /\ last' = last
    BY <1>2 DEF Swapped, CutOf
  <2>2. Fits(txn', D, M)
    BY <2>1
  <2>3. n' \in 0..MaxOps
    BY <2>1, RowsAssumption DEF Handle, IInv, TypeOK
  <2>4. phase' \in {"delete", "write"} /\ (phase' = "delete" => phase = "delete" /\ M = {})
    BY <2>1 DEF Editing
  <2>5. TypeOK' /\ Good(db)' /\ Good(txn)'
    BY <2>1, <2>2, <2>3, <2>4 DEF TypeOK, IInv, Good, Refs, Fits
  <2>6. KeyIsId' /\ RefusedForReason'
    BY <2>1 DEF IInv, KeyIsId, RefusedForReason
  <2>7. AskInv' /\ DeleteInv'
    <3>1. AskInv'
      BY <2>1, <2>2 DEF AskInv, AskedQueues, AskedBridges, Fits, FindQueuePort, Pairs
    <3>2. DeleteInv'
      BY <2>1, <2>4 DEF DeleteInv, IInv
    <3> QED BY <3>1, <3>2
  <2>8. Clear' => Clear /\ ~Ambiguous(txn')
    BY <2>1 DEF Clear
  <2>9. KeyInv'
    BY <2>2, <2>8 DEF KeyInv, Fits
  <2>10. ContrInv'
    BY <2>1, <2>2, <2>4, <2>8 DEF ContrInv, Fits
  <2>11. DeadInv'
    BY <2>1, <2>2, <2>8 DEF DeadInv, Fits
  <2>12. LostInv'
    BY <2>1, <2>2, <2>8 DEF LostInv, Fits, LostFits
  <2> QED BY <2>5, <2>6, <2>7, <2>9, <2>10, <2>11, <2>12 DEF IInv
<1> QED BY <1>1, <1>2 DEF Handle

\* An element that changes no row.
LEMMA SameFits ==
    ASSUME IInv, Editing
    PROVE  Fits(txn, {}, {})
<1>1. /\ (ask \ {}) \cup {} = ask /\ doc \ {} = doc /\ swap \cup Swapped({}) = swap
      /\ cut \cup CutOf({}) = cut
  BY DEF Swapped, CutOf
<1>2. Clear => LostFits(txn, {}, {})
  BY <1>1 DEF IInv, LostInv, LostFits
<1> QED BY <1>1, <1>2 DEF Fits, IInv, AskInv, KeyInv, ContrInv, DeadInv

\* What is excused stays so: once the edit writes, it deletes no reference of
\* a bridge.
LEMMA StillExcused ==
    ASSUME Editing, NEW d, Excused(d, txn, ask, swap, cut, phase), NEW s, d[2] \in s.bridge,
           NEW D, NEW M, phase = "delete" \/ CutOf(D) = {}
    PROVE  Excused(d, s, (ask \ D) \cup M, swap \cup Swapped(D), cut \cup CutOf(D),
                   IF M = {} THEN phase ELSE "write")
<1> DEFINE A == (ask \ D) \cup M
           C == cut \cup CutOf(D)
           W == swap \cup Swapped(D)
           ph == IF M = {} THEN phase ELSE "write"
<1>1. /\ \A b, p : <<"bport", b, p>> \in ask => <<"bport", b, p>> \in A \cup CutOf(D)
      /\ \A b, t : <<"btable", b, t>> \in ask => <<"btable", b, t>> \in A \cup CutOf(D)
  BY DEF CutOf
<1>2. cut \subseteq C /\ CutOf(D) \subseteq C /\ swap \subseteq W
  OBVIOUS
<1>3. phase = "write" => ph = "write" /\ CutOf(D) = {}
  OBVIOUS
<1> HIDE DEF A, C, W, ph
<1>4. ASSUME NEW b, NEW p \in Ports, d = <<"bp", b, p>>, <<"port", p>> \in swap,
             \/ phase = "write" /\ <<"bport", b, p>> \in ask
             \/ <<"bport", b, p>> \in ask \cup cut /\ \E o \in Ports : o # p /\ <<"bport", b, o>> \in cut
      PROVE  Excused(d, s, A, W, C, ph)
  <2>1. b \in s.bridge /\ <<"port", p>> \in W
    BY <1>2, <1>4
  <2>2. CASE phase = "write" /\ <<"bport", b, p>> \in ask
    <3>1. <<"bport", b, p>> \in A /\ ph = "write"
      BY <1>1, <1>3, <2>2
    <3> QED BY <1>4, <2>1, <3>1 DEF Excused
  <2>3. CASE <<"bport", b, p>> \in ask \cup cut /\ \E o \in Ports : o # p /\ <<"bport", b, o>> \in cut
    <3>1. <<"bport", b, p>> \in A \cup C /\ \E o \in Ports : o # p /\ <<"bport", b, o>> \in C
      BY <1>1, <1>2, <2>3
    <3> QED BY <1>4, <2>1, <3>1 DEF Excused
  <2> QED BY <1>4, <2>2, <2>3
<1>5. ASSUME NEW b, NEW t \in Tables, d = <<"bt", b, t>>, <<"table", t>> \in swap,
             \/ phase = "write" /\ <<"btable", b, t>> \in ask
             \/ <<"btable", b, t>> \in ask \cup cut /\ \E o \in Tables : o # t /\ <<"btable", b, o>> \in cut
      PROVE  Excused(d, s, A, W, C, ph)
  <2>1. b \in s.bridge /\ <<"table", t>> \in W
    BY <1>2, <1>5
  <2>2. CASE phase = "write" /\ <<"btable", b, t>> \in ask
    <3>1. <<"btable", b, t>> \in A /\ ph = "write"
      BY <1>1, <1>3, <2>2
    <3> QED BY <1>5, <2>1, <3>1 DEF Excused
  <2>3. CASE <<"btable", b, t>> \in ask \cup cut /\ \E o \in Tables : o # t /\ <<"btable", b, o>> \in cut
    <3>1. <<"btable", b, t>> \in A \cup C /\ \E o \in Tables : o # t /\ <<"btable", b, o>> \in C
      BY <1>1, <1>2, <2>3
    <3> QED BY <1>5, <2>1, <3>1 DEF Excused
  <2> QED BY <1>5, <2>2, <2>3
<1>6. Excused(d, s, A, W, C, ph)
  BY <1>4, <1>5 DEF Excused
<1> QED BY <1>6 DEF A, C, W, ph

\* Only bridges have dead references in a clear edit.
LEMMA DeadOfBridge ==
    ASSUME IInv, Clear, NEW d \in txn.dead
    PROVE  /\ Explained(d, txn, ask, swap)
           /\ d[2] \in txn.bridge
           /\ \/ \E b \in txn.bridge, p \in Ports : d = <<"bp", b, p>>
              \/ \E b \in txn.bridge, t \in Tables : d = <<"bt", b, t>>
<1>1. Explained(d, txn, ask, swap)
  BY DEF IInv, DeadInv
<1>2. CASE \E b \in txn.bridge, p \in Ports :
             d = <<"bp", b, p>> /\ <<"bport", b, p>> \in ask /\ <<"port", p>> \in swap
  BY <1>1, <1>2
<1>3. CASE \E b \in txn.bridge, t \in Tables :
             d = <<"bt", b, t>> /\ <<"btable", b, t>> \in ask /\ <<"table", t>> \in swap
  BY <1>1, <1>3
<1> QED BY <1>1, <1>2, <1>3 DEF Explained

\* References that only the transaction has are those of bridges.
LEMMA LostOfBridge ==
    ASSUME IInv, Clear, NEW d \in txn.lost
    PROVE  /\ Excused(d, txn, ask, swap, cut, phase)
           /\ d[2] \in txn.bridge
<1>1. Excused(d, txn, ask, swap, cut, phase)
  BY DEF IInv, LostInv
<1>2. \/ \E b \in txn.bridge, p \in Ports : d = <<"bp", b, p>>
      \/ \E b \in txn.bridge, t \in Tables : d = <<"bt", b, t>>
  BY <1>1 DEF Excused
<1> QED BY <1>1, <1>2

\* An element that loses no more references.
LEMMA LostKept ==
    ASSUME IInv, Clear, NEW s, s.lost \subseteq txn.lost, txn.bridge \subseteq s.bridge,
           NEW D, NEW M, phase = "delete" \/ CutOf(D) = {}
    PROVE  LostFits(s, D, M)
<1> SUFFICES ASSUME NEW d \in s.lost
             PROVE  Excused(d, s, (ask \ D) \cup M, swap \cup Swapped(D), cut \cup CutOf(D),
                            IF M = {} THEN phase ELSE "write")
  BY DEF LostFits
<1>1. Excused(d, txn, ask, swap, cut, phase) /\ d[2] \in s.bridge /\ Editing
  BY LostOfBridge DEF Clear
<1> QED BY <1>1, StillExcused

\* An element that is nothing of a bridge's.
LEMMA NoCut ==
    ASSUME NEW D, \A d \in D : d[1] \notin {"bport", "btable"}
    PROVE  CutOf(D) = {}
BY DEF CutOf

-----------------------------------------------------------------------------
(* Queues in an edit                                                       *)

QueueKinds == {"queue", "qid", "qport"}

\* A change of queues leaves what was asked for bridges alone.
LEMMA QueueSide ==
    ASSUME IInv, Editing, NEW s, Good(s), SameBridges(txn, s), NEW D, NEW M,
           \A d \in D \cup M : d[1] \in QueueKinds,
           AskedQueues(s, (ask \ D) \cup M),
           Clear => NoMore(txn, s),
           Clear /\ ~Ambiguous(s) => KeysMatch(s)
    PROVE  Fits(s, D, M)
<1> DEFINE A == (ask \ D) \cup M
<1>1. \A a : a[1] \notin QueueKinds => (a \in A <=> a \in ask)
  OBVIOUS
<1> HIDE DEF A
<1>2. /\ \A b, p : <<"bport", b, p>> \in A <=> <<"bport", b, p>> \in ask
      /\ \A b, t : <<"btable", b, t>> \in A <=> <<"btable", b, t>> \in ask
      /\ \A p : <<"port", p>> \in A <=> <<"port", p>> \in ask
      /\ \A t : <<"table", t>> \in A <=> <<"table", t>> \in ask
      /\ \A b : <<"bridge", b>> \in A <=> <<"bridge", b>> \in ask
  BY <1>1 DEF QueueKinds
<1>3. AskedBridges(s, A)
  BY <1>2 DEF AskedBridges, IInv, AskInv, SameBridges
<1>4. ASSUME Clear, NEW d \in s.dead PROVE Explained(d, s, A, swap \cup Swapped(D))
  <2>1. Explained(d, txn, ask, swap)
    BY <1>4 DEF IInv, DeadInv, NoMore
  <2> QED BY <1>2, <2>1 DEF Explained, SameBridges
<1>6. Clear => LostFits(s, D, M)
  <2> SUFFICES ASSUME Clear PROVE LostFits(s, D, M)
    OBVIOUS
  <2>1. ASSUME NEW d \in txn.dead, d[1] = "qos" PROVE FALSE
    BY <2>1, DeadOfBridge
  <2>2. s.lost \subseteq txn.lost
    BY <2>1 DEF NoMore
  <2>3. CutOf(D) = {}
    BY NoCut DEF QueueKinds
  <2> QED BY <2>2, <2>3, LostKept DEF SameBridges
<1>5. Clear /\ phase = "delete" => HasAsked(s, doc \ D)
  BY DEF IInv, ContrInv, HasAsked, SameBridges
<1> QED BY <1>3, <1>4, <1>5, <1>6 DEF Fits, A

\* The ports of queues when QoS rows lose queues.
LEMMA FewerPorts ==
    ASSUME NEW r, Good(r), NEW s, s.port = r.port, NEW q \in Queues,
           \A k \in QosRows : s.qos[k] \subseteq r.qos[k],
           \A p \in Ports : s.pq[p] \in {r.pq[p], None}
    PROVE  FindQueuePort(s, q) \subseteq FindQueuePort(r, q)
<1> SUFFICES ASSUME NEW p \in FindQueuePort(s, q) PROVE p \in FindQueuePort(r, q)
  OBVIOUS
<1>1. p \in r.port /\ p \in Ports /\ s.pq[p] # None /\ Pairs(s, s.pq[p], q) # {}
  BY Columns DEF FindQueuePort, Good
<1>2. s.pq[p] = r.pq[p] /\ r.pq[p] \in QosRows
  BY <1>1, Columns DEF Good
<1>3. Pairs(r, r.pq[p], q) # {}
  BY <1>1, <1>2 DEF Pairs
<1> QED BY <1>1, <1>2, <1>3 DEF FindQueuePort

\* txn_del_queue in an edit.
LEMMA DeleteQueueInv ==
    ASSUME IInv, NEW q \in Queues, DeleteQueue(q)
    PROVE  IInv'
<1> DEFINE D == QueueNode(q)
<1>1. Editing /\ phase = "delete" /\ Handle(TxnDelQueue(txn, q), D, {}) /\ Good(txn)
  BY DEF DeleteQueue, Delete, Editing, IInv
<1>2. ask = doc
  BY <1>1 DEF IInv, DeleteInv
<1>3. \A d \in D : d[1] \in QueueKinds /\ d[2] = q
  BY DEF QueueNode, Of, QueueKinds
<1> HIDE DEF D
<1>4. ASSUME NEW s \in TxnDelQueue(txn, q) PROVE Fits(s, D, {})
  <2>1. /\ Good(s) /\ SameBridges(txn, s)
        /\ \A o \in Queues : s.qid[o] = IF o = q THEN None ELSE txn.qid[o]
        /\ \A k \in QosRows : s.qos[k] \subseteq txn.qos[k]
        /\ \A k \in QosRows : Pairs(s, k, q) = {}
        /\ \A p \in Ports : s.pq[p] \in {txn.pq[p], None}
        /\ ~Ambiguous(txn) /\ KeysMatch(txn) => NoMore(txn, s)
    BY <1>1, DelQueue
  <2>2. \A o \in Queues : FindQueuePort(s, o) \subseteq FindQueuePort(txn, o)
    BY <1>1, <2>1, FewerPorts DEF SameBridges
  <2>3. FindQueuePort(s, q) = {}
    BY <2>1, Columns DEF FindQueuePort, Good
  <2>4. AskedQueues(s, (ask \ D) \cup {})
    <3> SUFFICES ASSUME NEW o \in Queues
                 PROVE  /\ s.qid[o] # None => <<"queue", o>> \in ask \ D
                        /\ FindQueuePort(s, o) # {} => \E a \in ask \ D : a[1] = "qport" /\ a[2] = o
      BY DEF AskedQueues
    <3>1. CASE o = q
      BY <2>1, <2>3, <3>1
    <3>2. CASE o # q
      <4>1. /\ txn.qid[o] # None => <<"queue", o>> \in ask
            /\ FindQueuePort(txn, o) # {} => \E a \in ask : a[1] = "qport" /\ a[2] = o
        BY <1>1 DEF IInv, AskInv, AskedQueues
      <4> QED BY <1>3, <2>1, <2>2, <3>2, <4>1
    <3> QED BY <3>1, <3>2
  <2>5. Clear => NoMore(txn, s)
    BY <2>1 DEF IInv, KeyInv
  <2>6. Clear => KeysMatch(s)
    <3> SUFFICES ASSUME Clear, NEW k \in QosRows, NEW x \in s.qos[k]
                 PROVE  x[1] = s.qid[x[2]]
      BY DEF KeysMatch
    <3>1. x \in txn.qos[k] /\ x[2] # q /\ x[2] \in Queues
      BY <1>1, <2>1, Columns DEF Pairs, Good
    <3> QED BY <2>1, <3>1 DEF IInv, KeyInv, KeysMatch
  <2>7. \A d \in D \cup {} : d[1] \in QueueKinds
    BY <1>3
  <2> QED BY <1>1, <2>1, <2>4, <2>5, <2>6, <2>7, QueueSide
<1> QED BY <1>1, <1>4, HandleInv

\* After txn_del_queue_port the other queues are asked for as before.
LEMMA Unlinked ==
    ASSUME IInv, Editing, NEW q \in Queues, NEW s \in TxnDelQueuePort(txn, q)
    PROVE  /\ Good(s) /\ SameBridges(txn, s) /\ NoMore(txn, s) /\ s.qid = txn.qid
           /\ FindQueuePort(s, q) = {}
           /\ FreeQos(txn) # {} => FreeQos(s) # {}
           /\ \A o \in Queues : FindQueuePort(s, o) \subseteq FindQueuePort(txn, o)
           /\ Clear => KeysMatch(s)
<1>1. Good(txn)
  BY DEF IInv
<1>2. Good(s) /\ Less(txn, s) /\ FindQueuePort(s, q) = {} /\ FreeQos(txn) \subseteq FreeQos(s)
  BY <1>1, DelQueuePort
<1>3. \A o \in Queues : FindQueuePort(s, o) \subseteq FindQueuePort(txn, o)
  BY <1>1, <1>2, FewerPorts DEF Less, SameBridges
<1>4. Clear => KeysMatch(s)
  BY <1>2 DEF IInv, KeyInv, KeysMatch, Less
<1> QED BY <1>2, <1>3, <1>4 DEF Less

\* txn_del_queue_port in an edit.
LEMMA DeleteQueuePortInv ==
    ASSUME IInv, NEW q \in Queues, DeleteQueuePort(q)
    PROVE  IInv'
<1> DEFINE D == Of("qport", q)
<1>1. Editing /\ phase = "delete" /\ Handle(TxnDelQueuePort(txn, q), D, {})
  BY DEF DeleteQueuePort, Delete, Editing
<1>2. \A d \in D : d[1] = "qport" /\ d[2] = q
  BY DEF Of
<1> HIDE DEF D
<1>3. ASSUME NEW s \in TxnDelQueuePort(txn, q) PROVE Fits(s, D, {})
  <2>1. /\ Good(s) /\ SameBridges(txn, s) /\ NoMore(txn, s) /\ s.qid = txn.qid
        /\ FindQueuePort(s, q) = {}
        /\ \A o \in Queues : FindQueuePort(s, o) \subseteq FindQueuePort(txn, o)
        /\ Clear => KeysMatch(s)
    BY <1>1, Unlinked
  <2>2. AskedQueues(s, (ask \ D) \cup {})
    <3> SUFFICES ASSUME NEW o \in Queues
                 PROVE  /\ s.qid[o] # None => <<"queue", o>> \in ask \ D
                        /\ FindQueuePort(s, o) # {} => \E a \in ask \ D : a[1] = "qport" /\ a[2] = o
      BY DEF AskedQueues
    <3>1. /\ txn.qid[o] # None => <<"queue", o>> \in ask
          /\ FindQueuePort(txn, o) # {} => \E a \in ask : a[1] = "qport" /\ a[2] = o
      BY <1>1 DEF IInv, AskInv, AskedQueues
    <3> QED BY <1>2, <2>1, <3>1
  <2>3. \A d \in D \cup {} : d[1] \in QueueKinds
    BY <1>2 DEF QueueKinds
  <2> QED BY <1>1, <2>1, <2>2, <2>3, QueueSide
<1> QED BY <1>1, <1>3, HandleInv

\* txn_add_queue_port in an edit, for the rows r that have the queue at no port.
LEMMA Linked ==
    ASSUME IInv, Editing, NEW q \in Queues, NEW p \in Ports, NEW r, Good(r),
           SameBridges(txn, r), r.qid = txn.qid, NoMore(txn, r),
           FindQueuePort(r, q) = {}, FreeQos(r) # {},
           \A o \in Queues : FindQueuePort(r, o) \subseteq FindQueuePort(txn, o),
           Clear => KeysMatch(r),
           NEW s \in TxnAddQueuePort(r, q, p), NEW D,
           \A d \in D : d[1] = "qport" /\ d[2] = q
    PROVE  Fits(s, D, {<<"qport", q, p>>})
<1> DEFINE M == {<<"qport", q, p>>}
<1>1. /\ Good(s) /\ SameBridges(r, s) /\ s.qid = r.qid /\ NoMore(r, s)
      /\ r.qid[q] # None
      /\ \A k \in QosRows : s.qos[k] \subseteq r.qos[k] \cup {<<r.qid[q], q>>}
      /\ \A o \in Queues : o # q => FindQueuePort(s, o) \subseteq FindQueuePort(r, o)
  BY AddQueuePort
<1>2. AskedQueues(s, (ask \ D) \cup M)
  <2> SUFFICES ASSUME NEW o \in Queues
               PROVE  /\ s.qid[o] # None => <<"queue", o>> \in (ask \ D) \cup M
                      /\ FindQueuePort(s, o) # {} =>
                            \E a \in (ask \ D) \cup M : a[1] = "qport" /\ a[2] = o
    BY DEF AskedQueues
  <2>1. /\ txn.qid[o] # None => <<"queue", o>> \in ask
        /\ FindQueuePort(txn, o) # {} => \E a \in ask : a[1] = "qport" /\ a[2] = o
    BY DEF IInv, AskInv, AskedQueues
  <2>2. o = q => \E a \in (ask \ D) \cup M : a[1] = "qport" /\ a[2] = o
    <3>1. <<"qport", q, p>> \in (ask \ D) \cup M /\ <<"qport", q, p>>[1] = "qport" /\ <<"qport", q, p>>[2] = q
      OBVIOUS
    <3> QED BY <3>1
  <2>3. o # q /\ FindQueuePort(s, o) # {} => \E a \in ask \ D : a[1] = "qport" /\ a[2] = o
    BY <1>1, <2>1
  <2>4. s.qid[o] # None => <<"queue", o>> \in ask \ D
    BY <1>1, <2>1
  <2> QED BY <2>2, <2>3, <2>4
<1>3. Clear => KeysMatch(s)
  BY <1>1 DEF KeysMatch
<1>4. SameBridges(txn, s)
  BY <1>1 DEF SameBridges
<1>5. \A d \in D \cup M : d[1] \in QueueKinds
  BY DEF QueueKinds
<1> HIDE DEF M
<1>7. NoMore(txn, s)
  BY <1>1, NoMoreThan
<1>6. Fits(s, D, M)
  BY <1>1, <1>2, <1>3, <1>4, <1>5, <1>7, QueueSide
<1> QED BY <1>6 DEF M

\* A queue gets a port, or another one.
LEMMA EditQueuePortInv ==
    ASSUME IInv, NEW q \in Queues, NEW p \in Ports, EditQueuePort(q, p)
    PROVE  IInv'
<1> DEFINE M == {<<"qport", q, p>>}
<1>1. Editing /\ FreeQos(txn) # {} /\ Good(txn)
  BY DEF EditQueuePort, Write, IInv
<1>2. CASE /\ Of("qport", q) = {} /\ {a \in ask : a[1] = "qport" /\ a[2] = q} = {}
           /\ Write(TxnAddQueuePort(txn, q, p), {}, M)
  <2>1. FindQueuePort(txn, q) = {}
    BY <1>1, <1>2 DEF IInv, AskInv, AskedQueues
  <2>2. SameBridges(txn, txn) /\ NoMore(txn, txn) /\ (Clear => KeysMatch(txn))
    BY DEF SameBridges, NoMore, IInv, KeyInv
  <2>3. ASSUME NEW s \in TxnAddQueuePort(txn, q, p) PROVE Fits(s, {}, M)
    BY <1>1, <2>1, <2>2, Linked
  <2>4. Handle(TxnAddQueuePort(txn, q, p), {}, M)
    BY <1>2 DEF Write
  <2> HIDE DEF M
  <2> QED BY <1>1, <2>3, <2>4, HandleInv
<1>3. CASE Write(UNION {TxnAddQueuePort(s, q, p) : s \in TxnDelQueuePort(txn, q)},
                 Of("qport", q), M)
  <2> DEFINE R == UNION {TxnAddQueuePort(s, q, p) : s \in TxnDelQueuePort(txn, q)}
  <2>1. ASSUME NEW s \in R PROVE Fits(s, Of("qport", q), M)
    <3>1. PICK r \in TxnDelQueuePort(txn, q) : s \in TxnAddQueuePort(r, q, p)
      OBVIOUS
    <3>2. /\ Good(r) /\ SameBridges(txn, r) /\ NoMore(txn, r) /\ r.qid = txn.qid
          /\ FindQueuePort(r, q) = {}
          /\ FreeQos(r) # {}
          /\ \A o \in Queues : FindQueuePort(r, o) \subseteq FindQueuePort(txn, o)
          /\ Clear => KeysMatch(r)
      BY <1>1, Unlinked
    <3>3. \A d \in Of("qport", q) : d[1] = "qport" /\ d[2] = q
      BY DEF Of
    <3> QED BY <1>1, <3>1, <3>2, <3>3, Linked
  <2>2. Handle(R, Of("qport", q), M)
    BY <1>3 DEF Write
  <2> HIDE DEF R, M
  <2> QED BY <1>1, <2>1, <2>2, HandleInv
<1> QED BY <1>2, <1>3 DEF EditQueuePort

\* txn_add_queue in an edit.
LEMMA CreateQueueInv ==
    ASSUME IInv, NEW q \in Queues, NEW i \in Ids, NEW port \in Ports \cup {None},
           CreateQueue(q, i, port)
    PROVE  IInv'
<1> DEFINE M == {<<"queue", q>>, <<"qid", q, i>>}
                  \cup (IF port = None THEN {} ELSE {<<"qport", q, port>>})
<1>1. /\ Editing /\ FreeQos(txn) # {} /\ Good(txn) /\ <<"queue", q>> \notin ask
      /\ Handle(TxnAddQueue(txn, q, i, port), {}, M)
  BY DEF CreateQueue, Write, IInv
<1>2. txn.qid[q] = None
  BY <1>1 DEF IInv, AskInv, AskedQueues
<1>3. ASSUME NEW s \in TxnAddQueue(txn, q, i, port) PROVE Fits(s, {}, M)
  <2>1. /\ Good(s) /\ SameBridges(txn, s) /\ NoMore(txn, s)
        /\ s.qid = [txn.qid EXCEPT ![q] = i]
        /\ \A k \in QosRows : s.qos[k] \subseteq txn.qos[k] \cup {<<i, q>>}
        /\ \A o \in Queues : o # q => FindQueuePort(s, o) \subseteq FindQueuePort(txn, o)
        /\ port = None => FindQueuePort(s, q) = {}
    BY <1>1, <1>2, AddQueue
  <2>2. /\ <<"queue", q>> \in M
        /\ port # None => \E a \in M : a[1] = "qport" /\ a[2] = q
    <3>1. port # None => <<"qport", q, port>> \in M
      OBVIOUS
    <3>2. <<"qport", q, port>>[1] = "qport" /\ <<"qport", q, port>>[2] = q
      OBVIOUS
    <3> QED BY <3>1, <3>2
  <2>3. \A d \in {} \cup M : d[1] \in QueueKinds
    BY DEF QueueKinds
  <2> HIDE DEF M
  <2>4. AskedQueues(s, (ask \ {}) \cup M)
    <3> SUFFICES ASSUME NEW o \in Queues
                 PROVE  /\ s.qid[o] # None => <<"queue", o>> \in ask \cup M
                        /\ FindQueuePort(s, o) # {} => \E a \in ask \cup M : a[1] = "qport" /\ a[2] = o
      BY DEF AskedQueues
    <3>1. /\ txn.qid[o] # None => <<"queue", o>> \in ask
          /\ FindQueuePort(txn, o) # {} => \E a \in ask : a[1] = "qport" /\ a[2] = o
      BY <1>1 DEF IInv, AskInv, AskedQueues
    <3>2. o # q => s.qid[o] = txn.qid[o]
      BY <1>1, <2>1, Columns DEF Good
    <3>3. CASE o = q
      BY <2>1, <2>2, <3>3
    <3>4. CASE o # q
      BY <2>1, <3>1, <3>2, <3>4
    <3> QED BY <3>3, <3>4
  <2>5. Clear => KeysMatch(s)
    <3> SUFFICES ASSUME Clear, NEW k \in QosRows, NEW x \in s.qos[k]
                 PROVE  x[1] = s.qid[x[2]]
      BY DEF KeysMatch
    <3>1. CASE x = <<i, q>>
      BY <1>1, <2>1, <3>1, Columns DEF Good
    <3>2. CASE x \in txn.qos[k]
      <4>1. x[2] # q /\ x[2] \in Queues
        BY <1>1, <1>2, <3>2, Columns DEF Good, Refs
      <4>2. x[1] = txn.qid[x[2]]
        BY <3>2 DEF IInv, KeyInv, KeysMatch
      <4> QED BY <1>1, <2>1, <4>1, <4>2, Columns DEF Good
    <3> QED BY <2>1, <3>1, <3>2
  <2> QED BY <1>1, <2>1, <2>3, <2>4, <2>5, QueueSide
<1> HIDE DEF M
<1> QED BY <1>1, <1>3, HandleInv

\* txn_mod_queue_id in an edit.
LEMMA EditQueueIdInv ==
    ASSUME IInv, NEW q \in Queues, NEW i \in Ids, EditQueueId(q, i)
    PROVE  IInv'
<1> DEFINE D == Of("qid", q)
           M == {<<"qid", q, i>>}
<1>1. Editing /\ Good(txn) /\ Handle(TxnModQueueId(txn, q, i), D, M)
  BY DEF EditQueueId, Write, IInv
<1>2. \A d \in D \cup M : d[1] = "qid"
  BY DEF Of
<1> HIDE DEF D, M
<1>3. ASSUME NEW s \in TxnModQueueId(txn, q, i) PROVE Fits(s, D, M)
  <2>1. /\ Good(s) /\ SameBridges(txn, s) /\ s.pq = txn.pq /\ NoMore(txn, s)
        /\ s.qid = [txn.qid EXCEPT ![q] = i]
        /\ txn.qid[q] # None
        /\ QosOf(txn, q) = {} => s.qos = txn.qos
        /\ QosOf(txn, q) # {} => \E k \in QosOf(txn, q) : \E x \in Pairs(txn, k, q) :
              /\ s.qos[k] \subseteq (txn.qos[k] \ {x}) \cup {<<i, q>>}
              /\ \A j \in QosRows : j # k => s.qos[j] = txn.qos[j]
    BY <1>1, ModQueueId
  <2>2. \A j \in QosRows : \A y \in s.qos[j] : \E z \in txn.qos[j] : z[2] = y[2]
    BY <2>1 DEF Pairs, QosOf
  <2>3. \A o \in Queues : FindQueuePort(s, o) \subseteq FindQueuePort(txn, o)
    <3> SUFFICES ASSUME NEW o \in Queues, NEW p \in FindQueuePort(s, o)
                 PROVE  p \in FindQueuePort(txn, o)
      OBVIOUS
    <3>1. /\ p \in txn.port /\ p \in Ports /\ txn.pq[p] # None /\ txn.pq[p] \in QosRows
          /\ \E y \in s.qos[txn.pq[p]] : y[2] = o
      BY <1>1, <2>1, Columns DEF FindQueuePort, Pairs, SameBridges, Good
    <3>2. \E z \in txn.qos[txn.pq[p]] : z[2] = o
      BY <2>2, <3>1
    <3> QED BY <3>1, <3>2 DEF FindQueuePort, Pairs
  <2>4. AskedQueues(s, (ask \ D) \cup M)
    <3> SUFFICES ASSUME NEW o \in Queues
                 PROVE  /\ s.qid[o] # None => <<"queue", o>> \in ask \ D
                        /\ FindQueuePort(s, o) # {} => \E a \in ask \ D : a[1] = "qport" /\ a[2] = o
      BY DEF AskedQueues
    <3>1. /\ txn.qid[o] # None => <<"queue", o>> \in ask
          /\ FindQueuePort(txn, o) # {} => \E a \in ask : a[1] = "qport" /\ a[2] = o
      BY <1>1 DEF IInv, AskInv, AskedQueues
    <3>2. s.qid[o] # None => txn.qid[o] # None
      BY <1>1, <2>1, Columns DEF Good
    <3> QED BY <1>2, <2>3, <3>1, <3>2
  <2>5. Clear => KeysMatch(s)
    <3> SUFFICES ASSUME Clear, NEW j \in QosRows, NEW y \in s.qos[j]
                 PROVE  y[1] = s.qid[y[2]]
      BY DEF KeysMatch
    <3>1. ~Ambiguous(txn) /\ KeysMatch(txn)
      BY DEF IInv, KeyInv
    <3>2. y = <<i, q>> \/ (y \in txn.qos[j] /\ y[2] # q)
      <4>1. CASE QosOf(txn, q) = {}
        BY <2>1, <4>1 DEF QosOf, Pairs
      <4>2. CASE QosOf(txn, q) # {}
        <5>1. PICK k \in QosOf(txn, q) : \E x \in Pairs(txn, k, q) :
                /\ s.qos[k] \subseteq (txn.qos[k] \ {x}) \cup {<<i, q>>}
                /\ \A m \in QosRows : m # k => s.qos[m] = txn.qos[m]
          BY <2>1, <4>2
        <5>2. PICK x \in Pairs(txn, k, q) :
                /\ s.qos[k] \subseteq (txn.qos[k] \ {x}) \cup {<<i, q>>}
                /\ \A m \in QosRows : m # k => s.qos[m] = txn.qos[m]
          BY <5>1
        <5>3. ASSUME y \in txn.qos[j], y[2] = q PROVE j = k /\ y = x
          <6>1. y \in Pairs(txn, j, q) /\ j \in QosOf(txn, q)
            BY <5>3 DEF Pairs, QosOf
          <6> QED BY <1>1, <3>1, <6>1, Lone
        <5> QED BY <5>2, <5>3 DEF QosOf
      <4> QED BY <4>1, <4>2
    <3>3. CASE y = <<i, q>>
      BY <1>1, <2>1, <3>3, Columns DEF Good
    <3>4. CASE y \in txn.qos[j] /\ y[2] # q
      <4>1. y[2] \in Queues /\ y[1] = txn.qid[y[2]]
        BY <1>1, <3>1, <3>4, Columns DEF Good, KeysMatch
      <4> QED BY <1>1, <2>1, <3>4, <4>1, Columns DEF Good
    <3> QED BY <3>2, <3>3, <3>4
  <2>6. \A d \in D \cup M : d[1] \in QueueKinds
    BY <1>2 DEF QueueKinds
  <2> QED BY <1>1, <2>1, <2>4, <2>5, <2>6, QueueSide
<1> QED BY <1>1, <1>3, HandleInv

-----------------------------------------------------------------------------
(* Bridges in an edit                                                      *)

\* A change of bridges, ports or tables leaves queues good.
LEMMA BridgeChange ==
    ASSUME NEW r, Good(r), NEW s \in Rows, s.qid = r.qid, s.qos = r.qos,
           \A p \in Ports : (s.pq[p] = r.pq[p] /\ (p \in r.port => p \in s.port)) \/ s.pq[p] = None,
           \A b \in Bridges : s.bp[b] \subseteq s.port /\ s.bt[b] \subseteq s.table,
           NoBridge(s), HasContrs(s)
    PROVE  Good(s)
<1>1. Refs(s)
  BY DEF Good, Refs
<1>2. OwnQos(s)
  BY DEF Good, OwnQos
<1>3. OnePlace(s)
  <2>1. OnePlace(r)
    BY DEF Good
  <2> QED BY <2>1 DEF OnePlace
<1> QED BY <1>1, <1>2, <1>3 DEF Good

\* It leaves what was asked for queues alone.
LEMMA BridgeSide ==
    ASSUME IInv, Editing, NEW s, Good(s), s.qid = txn.qid, s.qos = txn.qos,
           \A p \in Ports : s.pq[p] \in {txn.pq[p], None},
           NEW D, NEW M, \A d \in D : d[1] \notin QueueKinds,
           AskedBridges(s, (ask \ D) \cup M),
           Clear => /\ \A d \in s.dead : Explained(d, s, (ask \ D) \cup M, swap \cup Swapped(D))
                    /\ LostFits(s, D, M)
                    /\ phase = "delete" /\ M = {} => HasAsked(s, doc \ D)
    PROVE  Fits(s, D, M)
<1>1. Good(txn)
  BY DEF IInv
<1>2. ASSUME NEW q \in Queues, NEW p \in FindQueuePort(s, q) PROVE p \in FindQueuePort(txn, q)
  <2>1. p \in Ports /\ s.pq[p] # None /\ Pairs(s, s.pq[p], q) # {}
    BY <1>2, Columns DEF FindQueuePort, Good
  <2>2. txn.pq[p] = s.pq[p] /\ Pairs(txn, txn.pq[p], q) # {}
    BY <2>1 DEF Pairs
  <2> QED BY <1>1, <2>1, <2>2, QueuePort
<1>3. AskedQueues(s, (ask \ D) \cup M)
  <2> SUFFICES ASSUME NEW q \in Queues
               PROVE  /\ s.qid[q] # None => <<"queue", q>> \in ask \ D
                      /\ FindQueuePort(s, q) # {} => \E a \in ask \ D : a[1] = "qport" /\ a[2] = q
    BY DEF AskedQueues
  <2>1. /\ txn.qid[q] # None => <<"queue", q>> \in ask
        /\ FindQueuePort(txn, q) # {} => \E a \in ask : a[1] = "qport" /\ a[2] = q
    BY DEF IInv, AskInv, AskedQueues
  <2> QED BY <1>2, <2>1 DEF QueueKinds
<1>4. Clear => KeysMatch(s)
  BY DEF IInv, KeyInv, KeysMatch
<1> QED BY <1>3, <1>4 DEF Fits

\* A dead reference of a bridge that stays, and that the edit does not delete.
LEMMA StillExplained ==
    ASSUME NEW d, Explained(d, txn, ask, swap), NEW s, d[2] \in s.bridge, NEW D, NEW M,
           \A b, p : d = <<"bp", b, p>> => <<"bport", b, p>> \notin D,
           \A b, t : d = <<"bt", b, t>> => <<"btable", b, t>> \notin D
    PROVE  Explained(d, s, (ask \ D) \cup M, swap \cup Swapped(D))
<1>1. CASE \E b \in txn.bridge, p \in Ports :
             d = <<"bp", b, p>> /\ <<"bport", b, p>> \in ask /\ <<"port", p>> \in swap
  BY <1>1 DEF Explained
<1>2. CASE \E b \in txn.bridge, t \in Tables :
             d = <<"bt", b, t>> /\ <<"btable", b, t>> \in ask /\ <<"table", t>> \in swap
  BY <1>2 DEF Explained
<1> QED BY <1>1, <1>2 DEF Explained

\* Ports

\* txn_add_port: no reference changes.
LEMMA AddPortFits ==
    ASSUME IInv, Editing, NEW p \in Ports, NEW s \in TxnAddPort(txn, p)
    PROVE  Fits(s, {}, {<<"port", p>>})
<1>1. Good(txn) /\ txn \in Rows /\ s = [txn EXCEPT !.port = @ \cup {p}]
  BY DEF IInv, Good, TxnAddPort
<1>2. /\ s \in Rows /\ s.port = txn.port \cup {p} /\ s.pq = txn.pq /\ s.qid = txn.qid
      /\ s.qos = txn.qos /\ s.table = txn.table /\ s.bridge = txn.bridge /\ s.bp = txn.bp
      /\ s.bt = txn.bt /\ s.bc = txn.bc /\ s.contr = txn.contr /\ s.dead = txn.dead /\ s.lost = txn.lost
  BY <1>1 DEF Rows
<1>3. Good(s)
  <2>1. \A b \in Bridges : s.bp[b] \subseteq s.port /\ s.bt[b] \subseteq s.table
    BY <1>1, <1>2 DEF Good, Refs
  <2>2. NoBridge(s) /\ HasContrs(s)
    BY <1>1, <1>2 DEF Good, NoBridge, HasContrs
  <2> QED BY <1>1, <1>2, <2>1, <2>2, BridgeChange
<1> DEFINE M == {<<"port", p>>}
<1>4. AskedBridges(s, (ask \ {}) \cup M)
  BY <1>2 DEF IInv, AskInv, AskedBridges
<1>5. ASSUME Clear, NEW d \in s.dead PROVE Explained(d, s, (ask \ {}) \cup M, swap \cup Swapped({}))
  BY <1>2, <1>5, DeadOfBridge, StillExplained
<1>6. M # {}
  OBVIOUS
<1> HIDE DEF M
<1>8. Clear => LostFits(s, {}, M)
  BY <1>2, NoCut, LostKept
<1>7. Fits(s, {}, M)
  BY <1>2, <1>3, <1>4, <1>5, <1>6, <1>8, BridgeSide
<1> QED BY <1>7 DEF M

\* txn_del_port: a bridge that had the port has a dead reference now.
LEMMA DelPortFits ==
    ASSUME IInv, Editing, NEW p \in Ports, NEW s \in TxnDelPort(txn, p)
    PROVE  Fits(s, {<<"port", p>>}, {})
<1> DEFINE N == {<<"bp", b, p>> : b \in {x \in Bridges : p \in txn.bp[x]}}
           D == {<<"port", p>>}
<1>1. /\ Good(txn) /\ txn \in Rows
      /\ s = [txn EXCEPT !.port = @ \ {p}, !.pq[p] = None,
                         !.bp = [b \in Bridges |-> @[b] \ {p}], !.dead = @ \cup N]
  BY DEF IInv, Good, TxnDelPort
<1>2. N \subseteq DeadRefs
  BY DEF DeadRefs
<1>3. \A d \in N : \E b \in Bridges : d = <<"bp", b, p>> /\ p \in txn.bp[b]
  OBVIOUS
<1> HIDE DEF N
<1>4. /\ s.port = txn.port \ {p} /\ s.pq = [txn.pq EXCEPT ![p] = None]
      /\ s.bp = [b \in Bridges |-> txn.bp[b] \ {p}] /\ s.dead = txn.dead \cup N /\ s.lost = txn.lost
      /\ s.qid = txn.qid /\ s.qos = txn.qos /\ s.table = txn.table /\ s.bridge = txn.bridge
      /\ s.bt = txn.bt /\ s.bc = txn.bc /\ s.contr = txn.contr
  BY <1>1 DEF Rows
<1>5. s \in Rows
  BY <1>1, <1>2 DEF Rows
<1>6. \A o \in Ports : (s.pq[o] = txn.pq[o] /\ (o \in txn.port => o \in s.port)) \/ s.pq[o] = None
  BY <1>1, <1>4, Columns
<1>7. Good(s)
  <2>1. \A b \in Bridges : s.bp[b] \subseteq s.port /\ s.bt[b] \subseteq s.table
    BY <1>1, <1>4 DEF Good, Refs
  <2>2. NoBridge(s) /\ HasContrs(s)
    BY <1>1, <1>4 DEF Good, NoBridge, HasContrs
  <2> QED BY <1>1, <1>4, <1>5, <1>6, <2>1, <2>2, BridgeChange
<1>8. AskedBridges(s, (ask \ D) \cup {})
  BY <1>4 DEF IInv, AskInv, AskedBridges
<1>9. ASSUME Clear, NEW d \in s.dead PROVE Explained(d, s, (ask \ D) \cup {}, swap \cup Swapped(D))
  <2>1. CASE d \in txn.dead
    <3>1. Explained(d, txn, ask, swap) /\ d[2] \in s.bridge
      BY <1>4, <1>9, <2>1, DeadOfBridge
    <3>2. \A b, o : <<"bport", b, o>> \notin D /\ <<"btable", b, o>> \notin D
      OBVIOUS
    <3> HIDE DEF D
    <3> QED BY <3>1, <3>2, StillExplained
  <2>2. CASE d \in N
    <3>1. PICK b \in Bridges : d = <<"bp", b, p>> /\ p \in txn.bp[b]
      BY <1>3, <2>2
    <3>2. b \in s.bridge /\ <<"bport", b, p>> \in ask
      BY <1>1, <1>4, <3>1 DEF Good, NoBridge, IInv, AskInv, AskedBridges
    <3>3. <<"port", p>> \in Swapped(D) /\ <<"bport", b, p>> \notin D
      BY DEF Swapped
    <3> HIDE DEF D
    <3> QED BY <3>1, <3>2, <3>3 DEF Explained
  <2> QED BY <1>4, <2>1, <2>2
<1>10. Clear /\ phase = "delete" => HasAsked(s, doc \ D)
  BY <1>4 DEF IInv, ContrInv, HasAsked
<1>11. \A d \in D : d[1] \notin QueueKinds
  BY DEF QueueKinds
<1>12. \A o \in Ports : s.pq[o] \in {txn.pq[o], None}
  BY <1>6
<1>14. CutOf(D) = {}
  BY NoCut
<1> HIDE DEF D
<1>15. Clear => LostFits(s, D, {})
  BY <1>4, <1>14, LostKept
<1>13. Fits(s, D, {})
  BY <1>4, <1>7, <1>8, <1>9, <1>10, <1>11, <1>12, <1>15, BridgeSide
<1> QED BY <1>13 DEF D

\* A port in an edit.
LEMMA EditPortInv ==
    ASSUME IInv, NEW p \in Ports, EditPort(p)
    PROVE  IInv'
<1>1. CASE Write(TxnAddPort(txn, p), {}, {<<"port", p>>})
  BY <1>1, AddPortFits, HandleInv DEF Write
<1>2. CASE Delete(TxnDelPort(txn, p), {<<"port", p>>})
  BY <1>2, DelPortFits, HandleInv DEF Delete, Editing
<1> QED BY <1>1, <1>2 DEF EditPort

\* Flow tables

\* txn_add_flow_table: no reference changes.
LEMMA AddTableFits ==
    ASSUME IInv, Editing, NEW t \in Tables, NEW s \in TxnAddFlowTable(txn, t)
    PROVE  Fits(s, {}, {<<"table", t>>})
<1>1. Good(txn) /\ txn \in Rows /\ s = [txn EXCEPT !.table = @ \cup {t}]
  BY DEF IInv, Good, TxnAddFlowTable
<1>2. /\ s \in Rows /\ s.port = txn.port /\ s.pq = txn.pq /\ s.qid = txn.qid
      /\ s.qos = txn.qos /\ s.table = txn.table \cup {t} /\ s.bridge = txn.bridge /\ s.bp = txn.bp
      /\ s.bt = txn.bt /\ s.bc = txn.bc /\ s.contr = txn.contr /\ s.dead = txn.dead /\ s.lost = txn.lost
  BY <1>1 DEF Rows
<1>3. Good(s)
  <2>1. \A b \in Bridges : s.bp[b] \subseteq s.port /\ s.bt[b] \subseteq s.table
    BY <1>1, <1>2 DEF Good, Refs
  <2>2. NoBridge(s) /\ HasContrs(s)
    BY <1>1, <1>2 DEF Good, NoBridge, HasContrs
  <2> QED BY <1>1, <1>2, <2>1, <2>2, BridgeChange
<1> DEFINE M == {<<"table", t>>}
<1>4. AskedBridges(s, (ask \ {}) \cup M)
  BY <1>2 DEF IInv, AskInv, AskedBridges
<1>5. ASSUME Clear, NEW d \in s.dead PROVE Explained(d, s, (ask \ {}) \cup M, swap \cup Swapped({}))
  BY <1>2, <1>5, DeadOfBridge, StillExplained
<1>6. M # {}
  OBVIOUS
<1> HIDE DEF M
<1>8. Clear => LostFits(s, {}, M)
  BY <1>2, NoCut, LostKept
<1>7. Fits(s, {}, M)
  BY <1>2, <1>3, <1>4, <1>5, <1>6, <1>8, BridgeSide
<1> QED BY <1>7 DEF M

\* txn_del_flow_table: a bridge that had the table has a dead reference now.
LEMMA DelTableFits ==
    ASSUME IInv, Editing, NEW t \in Tables, NEW s \in TxnDelFlowTable(txn, t)
    PROVE  Fits(s, {<<"table", t>>}, {})
<1> DEFINE N == {<<"bt", b, t>> : b \in {x \in Bridges : t \in txn.bt[x]}}
           D == {<<"table", t>>}
<1>1. /\ Good(txn) /\ txn \in Rows
      /\ s = [txn EXCEPT !.table = @ \ {t},
                         !.bt = [b \in Bridges |-> @[b] \ {t}], !.dead = @ \cup N]
  BY DEF IInv, Good, TxnDelFlowTable
<1>2. N \subseteq DeadRefs
  BY DEF DeadRefs
<1>3. \A d \in N : \E b \in Bridges : d = <<"bt", b, t>> /\ t \in txn.bt[b]
  OBVIOUS
<1> HIDE DEF N
<1>4. /\ s.port = txn.port /\ s.pq = txn.pq
      /\ s.bt = [b \in Bridges |-> txn.bt[b] \ {t}] /\ s.dead = txn.dead \cup N /\ s.lost = txn.lost
      /\ s.qid = txn.qid /\ s.qos = txn.qos /\ s.table = txn.table \ {t} /\ s.bridge = txn.bridge
      /\ s.bp = txn.bp /\ s.bc = txn.bc /\ s.contr = txn.contr
  BY <1>1 DEF Rows
<1>5. s \in Rows
  BY <1>1, <1>2 DEF Rows
<1>7. Good(s)
  <2>1. \A b \in Bridges : s.bp[b] \subseteq s.port /\ s.bt[b] \subseteq s.table
    BY <1>1, <1>4 DEF Good, Refs
  <2>2. NoBridge(s) /\ HasContrs(s)
    BY <1>1, <1>4 DEF Good, NoBridge, HasContrs
  <2> QED BY <1>1, <1>4, <1>5, <2>1, <2>2, BridgeChange
<1>8. AskedBridges(s, (ask \ D) \cup {})
  BY <1>4 DEF IInv, AskInv, AskedBridges
<1>9. ASSUME Clear, NEW d \in s.dead PROVE Explained(d, s, (ask \ D) \cup {}, swap \cup Swapped(D))
  <2>1. CASE d \in txn.dead
    <3>1. Explained(d, txn, ask, swap) /\ d[2] \in s.bridge
      BY <1>4, <1>9, <2>1, DeadOfBridge
    <3>2. \A b, o : <<"bport", b, o>> \notin D /\ <<"btable", b, o>> \notin D
      OBVIOUS
    <3> HIDE DEF D
    <3> QED BY <3>1, <3>2, StillExplained
  <2>2. CASE d \in N
    <3>1. PICK b \in Bridges : d = <<"bt", b, t>> /\ t \in txn.bt[b]
      BY <1>3, <2>2
    <3>2. b \in s.bridge /\ <<"btable", b, t>> \in ask
      BY <1>1, <1>4, <3>1 DEF Good, NoBridge, IInv, AskInv, AskedBridges
    <3>3. <<"table", t>> \in Swapped(D) /\ <<"btable", b, t>> \notin D
      BY DEF Swapped
    <3> HIDE DEF D
    <3> QED BY <3>1, <3>2, <3>3 DEF Explained
  <2> QED BY <1>4, <2>1, <2>2
<1>10. Clear /\ phase = "delete" => HasAsked(s, doc \ D)
  BY <1>4 DEF IInv, ContrInv, HasAsked
<1>11. \A d \in D : d[1] \notin QueueKinds
  BY DEF QueueKinds
<1>14. CutOf(D) = {}
  BY NoCut
<1> HIDE DEF D
<1>15. Clear => LostFits(s, D, {})
  BY <1>4, <1>14, LostKept
<1>13. Fits(s, D, {})
  BY <1>4, <1>7, <1>8, <1>9, <1>10, <1>11, <1>15, BridgeSide
<1> QED BY <1>13 DEF D

\* A flow table in an edit.
LEMMA EditTableInv ==
    ASSUME IInv, NEW t \in Tables, EditTable(t)
    PROVE  IInv'
<1>1. CASE Write(TxnAddFlowTable(txn, t), {}, {<<"table", t>>})
  BY <1>1, AddTableFits, HandleInv DEF Write
<1>2. CASE Delete(TxnDelFlowTable(txn, t), {<<"table", t>>})
  BY <1>2, DelTableFits, HandleInv DEF Delete, Editing
<1>3. CASE Write(TxnModFlowtable(txn, t), {}, {})
  <2>1. \A s \in TxnModFlowtable(txn, t) : s = txn
    BY DEF TxnModFlowtable
  <2> QED BY <1>3, <2>1, SameFits, HandleInv DEF Write
<1> QED BY <1>1, <1>2, <1>3 DEF EditTable

\* The options of a queue in an edit.
LEMMA EditQueueOptionsInv ==
    ASSUME IInv, NEW q \in Queues, EditQueueOptions(q)
    PROVE  IInv'
<1>1. \A s \in TxnModQueueOptions(txn, q) : s = txn
  BY DEF TxnModQueueOptions
<1>2. Write(TxnModQueueOptions(txn, q), {}, {})
  BY DEF EditQueueOptions
<1> QED BY <1>1, <1>2, SameFits, HandleInv DEF Write

\* Bridges

\* txn_add_bridge in an edit.
LEMMA CreateBridgeInv ==
    ASSUME IInv, NEW b \in Bridges, NEW P \in SUBSET Ports, NEW T \in SUBSET Tables,
           CreateBridge(b, P, T)
    PROVE  IInv'
<1> DEFINE M == {<<"bridge", b>>} \cup {<<"bport", b, p>> : p \in P}
                                  \cup {<<"btable", b, t>> : t \in T}
<1>1. Editing /\ Good(txn) /\ txn \in Rows /\ Handle(TxnAddBridge(txn, b, P, T), {}, M)
  BY DEF CreateBridge, Write, IInv, Good
<1>2. /\ <<"bridge", b>> \in M
      /\ \A p \in P : <<"bport", b, p>> \in M
      /\ \A t \in T : <<"btable", b, t>> \in M
  OBVIOUS
<1> HIDE DEF M
<1>3. ASSUME NEW s \in TxnAddBridge(txn, b, P, T) PROVE Fits(s, {}, M)
  <2>1. /\ s = [txn EXCEPT !.bridge = @ \cup {b}, !.bp[b] = P, !.bt[b] = T, !.bc[b] = {}]
        /\ P \subseteq txn.port /\ T \subseteq txn.table
    BY DEF TxnAddBridge
  <2>2. /\ s.port = txn.port /\ s.pq = txn.pq /\ s.qid = txn.qid /\ s.qos = txn.qos
        /\ s.table = txn.table /\ s.bridge = txn.bridge \cup {b} /\ s.contr = txn.contr
        /\ s.dead = txn.dead /\ s.lost = txn.lost
        /\ s.bp = [txn.bp EXCEPT ![b] = P] /\ s.bt = [txn.bt EXCEPT ![b] = T]
        /\ s.bc = [txn.bc EXCEPT ![b] = {}]
    BY <1>1, <2>1 DEF Rows
  <2>3. s \in Rows
    BY <1>1, <2>1 DEF Rows
  <2>4. \A x \in Bridges : /\ s.bp[x] = IF x = b THEN P ELSE txn.bp[x]
                           /\ s.bt[x] = IF x = b THEN T ELSE txn.bt[x]
                           /\ s.bc[x] = IF x = b THEN {} ELSE txn.bc[x]
    BY <1>1, <2>2, Columns
  <2>5. Good(s)
    <3>1. \A x \in Bridges : s.bp[x] \subseteq s.port /\ s.bt[x] \subseteq s.table
      BY <1>1, <2>1, <2>2, <2>4 DEF Good, Refs
    <3>2. NoBridge(s)
      BY <1>1, <2>2, <2>4 DEF Good, NoBridge
    <3>3. HasContrs(s)
      BY <1>1, <2>2, <2>4 DEF Good, HasContrs
    <3> QED BY <1>1, <2>2, <2>3, <3>1, <3>2, <3>3, BridgeChange
  <2>6. AskedBridges(s, (ask \ {}) \cup M)
    <3>1. AskedBridges(txn, ask)
      BY <1>1 DEF IInv, AskInv
    <3>2. \A x : x \in ask => x \in (ask \ {}) \cup M
      OBVIOUS
    <3>3. \A x : x \in M => x \in (ask \ {}) \cup M
      OBVIOUS
    <3> DEFINE A == (ask \ {}) \cup M
    <3> HIDE DEF A
    <3>4. AskedBridges(s, A)
      BY <1>2, <2>2, <2>4, <3>1, <3>2, <3>3 DEF AskedBridges, A
    <3> QED BY <3>4 DEF A
  <2>7. ASSUME Clear, NEW d \in s.dead PROVE Explained(d, s, (ask \ {}) \cup M, swap \cup Swapped({}))
    BY <2>2, <2>7, DeadOfBridge, StillExplained
  <2>8. M # {}
    BY <1>2
  <2>9. Clear => LostFits(s, {}, M)
    BY <2>2, NoCut, LostKept
  <2> QED BY <1>1, <2>2, <2>5, <2>6, <2>7, <2>8, <2>9, BridgeSide
<1> QED BY <1>1, <1>3, HandleInv

\* txn_del_bridge in an edit: with the bridge its references go.
LEMMA DeleteBridgeInv ==
    ASSUME IInv, NEW b \in Bridges, DeleteBridge(b)
    PROVE  IInv'
<1> DEFINE D == Below(b)
<1>1. /\ Editing /\ Good(txn) /\ txn \in Rows /\ phase = "delete"
      /\ Handle(TxnDelBridge(txn, b), D, {})
  BY DEF DeleteBridge, Delete, IInv, Good, Editing
<1>2. \A d \in D : d[1] \in {"bridge", "bport", "btable", "contr", "proto"} /\ d[2] = b
  BY DEF Below, Of
<1>3. \A c : <<"contr", b, c>> \in doc => <<"contr", b, c>> \in D
  BY DEF Below, Of
<1> HIDE DEF D
<1>4. /\ \A d \in D : d[1] \notin QueueKinds
      /\ \A x : x # b => <<"bridge", x>> \notin D
      /\ \A x, o : x # b => <<"bport", x, o>> \notin D /\ <<"btable", x, o>> \notin D
                              /\ <<"contr", x, o>> \notin D
  BY <1>2 DEF QueueKinds
<1>5. ASSUME txn.bridge = {} PROVE Fits(txn, D, {})
  <2>1. \A x \in Bridges : txn.bp[x] = {} /\ txn.bt[x] = {} /\ txn.bc[x] = {}
    BY <1>1, <1>5 DEF Good, NoBridge
  <2>2. AskedBridges(txn, (ask \ D) \cup {})
    BY <1>5, <2>1 DEF AskedBridges
  <2>3. Clear => txn.dead = {}
    BY <1>5, DeadOfBridge
  <2>4. Clear /\ phase = "delete" => HasAsked(txn, doc \ D)
    BY DEF IInv, ContrInv, HasAsked
  <2>5. Clear => LostFits(txn, D, {})
    BY <1>1, LostKept
  <2> QED BY <1>1, <1>4, <2>2, <2>3, <2>4, <2>5, BridgeSide
<1>6. ASSUME NEW s, s = [txn EXCEPT !.bridge = @ \ {b}, !.bp[b] = {}, !.bt[b] = {}, !.bc[b] = {},
                                    !.dead = @ \ {d \in @ : d[2] = b},
                                    !.lost = @ \ {d \in @ : d[2] = b}]
      PROVE  Fits(s, D, {})
  <2>1. /\ s.port = txn.port /\ s.pq = txn.pq /\ s.qid = txn.qid /\ s.qos = txn.qos
        /\ s.table = txn.table /\ s.bridge = txn.bridge \ {b} /\ s.contr = txn.contr
        /\ s.dead = {d \in txn.dead : d[2] # b} /\ s.lost = {d \in txn.lost : d[2] # b}
        /\ s.bp = [txn.bp EXCEPT ![b] = {}] /\ s.bt = [txn.bt EXCEPT ![b] = {}]
        /\ s.bc = [txn.bc EXCEPT ![b] = {}]
    BY <1>1, <1>6 DEF Rows
  <2>2. s \in Rows
    BY <1>1, <1>6 DEF Rows
  <2>3. \A x \in Bridges : /\ s.bp[x] = IF x = b THEN {} ELSE txn.bp[x]
                           /\ s.bt[x] = IF x = b THEN {} ELSE txn.bt[x]
                           /\ s.bc[x] = IF x = b THEN {} ELSE txn.bc[x]
    BY <1>1, <2>1, Columns
  <2>4. Good(s)
    <3>1. \A x \in Bridges : s.bp[x] \subseteq s.port /\ s.bt[x] \subseteq s.table
      BY <1>1, <2>1, <2>3 DEF Good, Refs
    <3>2. NoBridge(s)
      BY <1>1, <2>1, <2>3 DEF Good, NoBridge
    <3>3. HasContrs(s)
      BY <1>1, <2>1, <2>3 DEF Good, HasContrs
    <3> QED BY <1>1, <2>1, <2>2, <3>1, <3>2, <3>3, BridgeChange
  <2>5. AskedBridges(s, (ask \ D) \cup {})
    BY <1>1, <1>4, <2>1, <2>3 DEF IInv, AskInv, AskedBridges
  <2>6. ASSUME Clear, NEW d \in s.dead PROVE Explained(d, s, (ask \ D) \cup {}, swap \cup Swapped(D))
    <3>1. d \in txn.dead /\ d[2] # b
      BY <2>1
    <3>2. Explained(d, txn, ask, swap) /\ d[2] \in s.bridge
      BY <2>1, <2>6, <3>1, DeadOfBridge
    <3>3. ASSUME NEW x, NEW p, d = <<"bp", x, p>> PROVE <<"bport", x, p>> \notin D
      <4>1. x # b
        BY <3>1, <3>3
      <4> QED BY <1>4, <4>1
    <3>4. ASSUME NEW x, NEW t, d = <<"bt", x, t>> PROVE <<"btable", x, t>> \notin D
      <4>1. x # b
        BY <3>1, <3>4
      <4> QED BY <1>4, <4>1
    <3> QED BY <3>2, <3>3, <3>4, StillExplained
  <2>7. Clear /\ phase = "delete" => HasAsked(s, doc \ D)
    BY <1>3, <2>3 DEF IInv, ContrInv, HasAsked
  <2>8. ASSUME Clear, NEW d \in s.lost
        PROVE  Excused(d, s, (ask \ D) \cup {}, swap \cup Swapped(D), cut \cup CutOf(D), phase)
    <3>1. d \in txn.lost /\ d[2] # b
      BY <2>1
    <3>2. Excused(d, txn, ask, swap, cut, phase) /\ d[2] \in s.bridge
      BY <2>1, <2>8, <3>1, LostOfBridge
    <3> QED BY <1>1, <3>2, StillExcused
  <2>9. Clear => LostFits(s, D, {})
    BY <2>8 DEF LostFits
  <2> QED BY <1>1, <1>4, <2>1, <2>4, <2>5, <2>6, <2>7, <2>9, BridgeSide
<1>7. ASSUME NEW s \in TxnDelBridge(txn, b) PROVE Fits(s, D, {})
  BY <1>5, <1>6 DEF TxnDelBridge
<1> QED BY <1>1, <1>7, HandleInv

\* Columns of a bridge without references.
LEMMA EditBridgeInv ==
    ASSUME IInv, NEW b \in Bridges, EditBridge(b)
    PROVE  IInv'
<1>1. CASE Write(TxnModBridge(txn, b), {}, {})
  <2>1. \A s \in TxnModBridge(txn, b) : s = txn
    BY DEF TxnModBridge
  <2> QED BY <1>1, <2>1, SameFits, HandleInv DEF Write
<1>2. ASSUME NEW q \in Queues, Write(OfcCheckBridgeQueue(txn, b, q), {}, {}) PROVE IInv'
  <2>1. \A s \in OfcCheckBridgeQueue(txn, b, q) : s = txn
    BY DEF OfcCheckBridgeQueue
  <2> QED BY <1>2, <2>1, SameFits, HandleInv DEF Write
<1> QED BY <1>1, <1>2 DEF EditBridge

\* The columns of a bridge

\* Writing a column while the edit creates: the document has the references.
LEMMA LostByWrite ==
    ASSUME IInv, Clear, NEW d \in txn.dead, NEW M, M # {}
    PROVE  Excused(d, txn, (ask \ {}) \cup M, swap \cup Swapped({}), cut \cup CutOf({}),
                   IF M = {} THEN phase ELSE "write")
<1>1. Explained(d, txn, ask, swap)
  BY DeadOfBridge
<1>2. CASE \E b \in txn.bridge, p \in Ports :
             d = <<"bp", b, p>> /\ <<"bport", b, p>> \in ask /\ <<"port", p>> \in swap
  BY <1>2 DEF Excused
<1>3. CASE \E b \in txn.bridge, t \in Tables :
             d = <<"bt", b, t>> /\ <<"btable", b, t>> \in ask /\ <<"table", t>> \in swap
  BY <1>3 DEF Excused
<1> QED BY <1>1, <1>2, <1>3 DEF Explained

\* Writing the ports without one: another reference of the bridge is deleted.
LEMMA LostByDelPort ==
    ASSUME IInv, Clear, NEW b \in Bridges, NEW p \in Ports,
           NEW d \in Dead(txn, "bp", b) \ {<<"bp", b, p>>}
    PROVE  Excused(d, txn, (ask \ {<<"bport", b, p>>}) \cup {}, swap \cup Swapped({<<"bport", b, p>>}),
                   cut \cup CutOf({<<"bport", b, p>>}), phase)
<1> DEFINE e == <<"bport", b, p>>
<1>1. d \in txn.dead /\ d[1] = "bp" /\ d[2] = b /\ d # <<"bp", b, p>>
  BY DEF Dead
<1>2. Explained(d, txn, ask, swap)
  BY <1>1, DeadOfBridge
<1>3. PICK o \in Ports : d = <<"bp", b, o>> /\ b \in txn.bridge /\ <<"bport", b, o>> \in ask /\ <<"port", o>> \in swap
  <2>1. PICK x \in txn.bridge, o \in Ports :
               d = <<"bp", x, o>> /\ <<"bport", x, o>> \in ask /\ <<"port", o>> \in swap
    <3>1. \A x, o : d # <<"bt", x, o>>
      BY <1>1
    <3> QED BY <1>2, <3>1 DEF Explained
  <2>2. x = b
    BY <1>1, <2>1
  <2> QED BY <2>1, <2>2
<1>4. p # o /\ <<"bport", b, o>> # e
  BY <1>1, <1>3
<1>5. e \in CutOf({e})
  BY DEF CutOf
<1>6. <<"bport", b, o>> \in (ask \ {e}) \cup {}
  BY <1>3, <1>4
<1> DEFINE A == (ask \ {e}) \cup {}
           C == cut \cup CutOf({e})
           W == swap \cup Swapped({e})
<1>7. <<"bport", b, o>> \in A /\ <<"bport", b, p>> \in C /\ <<"port", o>> \in W
  BY <1>3, <1>5, <1>6
<1> HIDE DEF A, C, W
<1>8. Excused(d, txn, A, W, C, phase)
  BY <1>3, <1>4, <1>7 DEF Excused
<1> QED BY <1>8 DEF A, C, W

\* The same for flow tables.
LEMMA LostByDelTable ==
    ASSUME IInv, Clear, NEW b \in Bridges, NEW t \in Tables,
           NEW d \in Dead(txn, "bt", b) \ {<<"bt", b, t>>}
    PROVE  Excused(d, txn, (ask \ {<<"btable", b, t>>}) \cup {}, swap \cup Swapped({<<"btable", b, t>>}),
                   cut \cup CutOf({<<"btable", b, t>>}), phase)
<1> DEFINE e == <<"btable", b, t>>
<1>1. d \in txn.dead /\ d[1] = "bt" /\ d[2] = b /\ d # <<"bt", b, t>>
  BY DEF Dead
<1>2. Explained(d, txn, ask, swap)
  BY <1>1, DeadOfBridge
<1>3. PICK o \in Tables : d = <<"bt", b, o>> /\ b \in txn.bridge /\ <<"btable", b, o>> \in ask /\ <<"table", o>> \in swap
  <2>1. PICK x \in txn.bridge, o \in Tables :
               d = <<"bt", x, o>> /\ <<"btable", x, o>> \in ask /\ <<"table", o>> \in swap
    <3>1. \A x, o : d # <<"bp", x, o>>
      BY <1>1
    <3> QED BY <1>2, <3>1 DEF Explained
  <2>2. x = b
    BY <1>1, <2>1
  <2> QED BY <2>1, <2>2
<1>4. t # o /\ <<"btable", b, o>> # e
  BY <1>1, <1>3
<1>5. e \in CutOf({e})
  BY DEF CutOf
<1>6. <<"btable", b, o>> \in (ask \ {e}) \cup {}
  BY <1>3, <1>4
<1> DEFINE A == (ask \ {e}) \cup {}
           C == cut \cup CutOf({e})
           W == swap \cup Swapped({e})
<1>7. <<"btable", b, o>> \in A /\ <<"btable", b, t>> \in C /\ <<"table", o>> \in W
  BY <1>3, <1>5, <1>6
<1> HIDE DEF A, C, W
<1>8. Excused(d, txn, A, W, C, phase)
  BY <1>3, <1>4, <1>7 DEF Excused
<1> QED BY <1>8 DEF A, C, W

\* Writing the ports of a bridge: the dead ones are shown no more.
LEMMA SetPortsFits ==
    ASSUME IInv, Editing, NEW b \in txn.bridge, NEW S \in SUBSET txn.port, NEW D, NEW M,
           \A d \in D : d[1] = "bport" /\ d[2] = b,
           \A o \in S : <<"bport", b, o>> \in (ask \ D) \cup M,
           phase = "delete" \/ CutOf(D) = {}, NEW L \in SUBSET txn.dead,
           Clear => \A d \in L : Excused(d, txn, (ask \ D) \cup M, swap \cup Swapped(D),
                                         cut \cup CutOf(D), IF M = {} THEN phase ELSE "write")
    PROVE  Fits(SetPorts(txn, b, S, L), D, M)
<1> DEFINE s == SetPorts(txn, b, S, L)
<1>1. /\ Good(txn) /\ txn \in Rows /\ b \in Bridges
      /\ s = [txn EXCEPT !.bp[b] = S, !.dead = @ \ Dead(txn, "bp", b),
                         !.lost = (@ \ Lost(txn, "bp", b)) \cup L]
  BY Columns DEF IInv, Good, SetPorts
<1> HIDE DEF s
<1>2. /\ s.port = txn.port /\ s.pq = txn.pq /\ s.qid = txn.qid /\ s.qos = txn.qos
      /\ s.table = txn.table /\ s.bridge = txn.bridge /\ s.contr = txn.contr
      /\ s.dead = txn.dead \ Dead(txn, "bp", b) /\ s.bc = txn.bc
      /\ s.lost = (txn.lost \ Lost(txn, "bp", b)) \cup L
      /\ s.bt = txn.bt /\ s.bp = [txn.bp EXCEPT ![b] = S]
  BY <1>1 DEF Rows
<1>3. S \in SUBSET Ports
  BY <1>1, Columns
<1>4. s \in Rows
  <2>1. L \subseteq DeadRefs
    BY <1>1 DEF Rows
  <2> QED BY <1>1, <1>3, <2>1 DEF Rows
<1>5. \A x \in Bridges : s.bp[x] = IF x = b THEN S ELSE txn.bp[x]
  BY <1>1, <1>2, Columns
<1>6. Good(s)
  <2>1. \A x \in Bridges : s.bp[x] \subseteq s.port /\ s.bt[x] \subseteq s.table
    BY <1>1, <1>2, <1>5 DEF Good, Refs
  <2>2. NoBridge(s) /\ HasContrs(s)
    BY <1>1, <1>2, <1>5 DEF Good, NoBridge, HasContrs
  <2> QED BY <1>1, <1>2, <1>4, <2>1, <2>2, BridgeChange
<1>7. /\ \A x, o : x # b => <<"bport", x, o>> \notin D
      /\ \A x, o : <<"btable", x, o>> \notin D /\ <<"contr", x, o>> \notin D
      /\ \A d \in D : d[1] \notin QueueKinds
      /\ \A x : <<"bridge", x>> \notin D
  BY DEF QueueKinds
<1>8. AskedBridges(s, (ask \ D) \cup M)
  BY <1>2, <1>5, <1>7 DEF IInv, AskInv, AskedBridges
<1>9. ASSUME Clear, NEW d \in s.dead PROVE Explained(d, s, (ask \ D) \cup M, swap \cup Swapped(D))
  <2>1. d \in txn.dead /\ Explained(d, txn, ask, swap) /\ d[2] \in s.bridge
    BY <1>2, <1>9, DeadOfBridge
  <2>2. ASSUME NEW x, NEW o, d = <<"bp", x, o>> PROVE <<"bport", x, o>> \notin D
    <3>1. x # b
      BY <1>2, <2>1, <2>2 DEF Dead
    <3> QED BY <1>7, <3>1
  <2> QED BY <1>7, <2>1, <2>2, StillExplained
<1>10. Clear /\ phase = "delete" => HasAsked(s, doc \ D)
  BY <1>2 DEF IInv, ContrInv, HasAsked
<1>12. Clear => LostFits(s, D, M)
  <2> DEFINE A == (ask \ D) \cup M
             C == cut \cup CutOf(D)
             W == swap \cup Swapped(D)
             ph == IF M = {} THEN phase ELSE "write"
  <2> SUFFICES ASSUME Clear, NEW d \in s.lost PROVE Excused(d, s, A, W, C, ph)
    BY DEF LostFits
  <2>1. CASE d \in txn.lost
    <3>1. Excused(d, txn, ask, swap, cut, phase) /\ d[2] \in s.bridge
      BY <1>2, <2>1, LostOfBridge
    <3> QED BY <3>1, StillExcused
  <2>2. CASE d \in L
    <3>1. Excused(d, txn, A, W, C, ph)
      BY <2>2
    <3> HIDE DEF A, W, C, ph
    <3> QED BY <1>2, <3>1 DEF Excused
  <2> QED BY <1>2, <2>1, <2>2
<1>11. Fits(s, D, M)
  BY <1>2, <1>6, <1>7, <1>8, <1>9, <1>10, <1>12, BridgeSide
<1> QED BY <1>11 DEF s

\* Writing the flow tables of a bridge: the dead ones are shown no more.
LEMMA SetTablesFits ==
    ASSUME IInv, Editing, NEW b \in txn.bridge, NEW S \in SUBSET txn.table, NEW D, NEW M,
           \A d \in D : d[1] = "btable" /\ d[2] = b,
           \A o \in S : <<"btable", b, o>> \in (ask \ D) \cup M,
           phase = "delete" \/ CutOf(D) = {}, NEW L \in SUBSET txn.dead,
           Clear => \A d \in L : Excused(d, txn, (ask \ D) \cup M, swap \cup Swapped(D),
                                         cut \cup CutOf(D), IF M = {} THEN phase ELSE "write")
    PROVE  Fits(SetTables(txn, b, S, L), D, M)
<1> DEFINE s == SetTables(txn, b, S, L)
<1>1. /\ Good(txn) /\ txn \in Rows /\ b \in Bridges
      /\ s = [txn EXCEPT !.bt[b] = S, !.dead = @ \ Dead(txn, "bt", b),
                         !.lost = (@ \ Lost(txn, "bt", b)) \cup L]
  BY Columns DEF IInv, Good, SetTables
<1> HIDE DEF s
<1>2. /\ s.port = txn.port /\ s.pq = txn.pq /\ s.qid = txn.qid /\ s.qos = txn.qos
      /\ s.table = txn.table /\ s.bridge = txn.bridge /\ s.contr = txn.contr
      /\ s.dead = txn.dead \ Dead(txn, "bt", b) /\ s.bc = txn.bc
      /\ s.lost = (txn.lost \ Lost(txn, "bt", b)) \cup L
      /\ s.bp = txn.bp /\ s.bt = [txn.bt EXCEPT ![b] = S]
  BY <1>1 DEF Rows
<1>3. S \in SUBSET Tables
  BY <1>1, Columns
<1>4. s \in Rows
  <2>1. L \subseteq DeadRefs
    BY <1>1 DEF Rows
  <2> QED BY <1>1, <1>3, <2>1 DEF Rows
<1>5. \A x \in Bridges : s.bt[x] = IF x = b THEN S ELSE txn.bt[x]
  BY <1>1, <1>2, Columns
<1>6. Good(s)
  <2>1. \A x \in Bridges : s.bp[x] \subseteq s.port /\ s.bt[x] \subseteq s.table
    BY <1>1, <1>2, <1>5 DEF Good, Refs
  <2>2. NoBridge(s) /\ HasContrs(s)
    BY <1>1, <1>2, <1>5 DEF Good, NoBridge, HasContrs
  <2> QED BY <1>1, <1>2, <1>4, <2>1, <2>2, BridgeChange
<1>7. /\ \A x, o : x # b => <<"btable", x, o>> \notin D
      /\ \A x, o : <<"bport", x, o>> \notin D /\ <<"contr", x, o>> \notin D
      /\ \A d \in D : d[1] \notin QueueKinds
      /\ \A x : <<"bridge", x>> \notin D
  BY DEF QueueKinds
<1>8. AskedBridges(s, (ask \ D) \cup M)
  BY <1>2, <1>5, <1>7 DEF IInv, AskInv, AskedBridges
<1>9. ASSUME Clear, NEW d \in s.dead PROVE Explained(d, s, (ask \ D) \cup M, swap \cup Swapped(D))
  <2>1. d \in txn.dead /\ Explained(d, txn, ask, swap) /\ d[2] \in s.bridge
    BY <1>2, <1>9, DeadOfBridge
  <2>2. ASSUME NEW x, NEW o, d = <<"bt", x, o>> PROVE <<"btable", x, o>> \notin D
    <3>1. x # b
      BY <1>2, <2>1, <2>2 DEF Dead
    <3> QED BY <1>7, <3>1
  <2> QED BY <1>7, <2>1, <2>2, StillExplained
<1>10. Clear /\ phase = "delete" => HasAsked(s, doc \ D)
  BY <1>2 DEF IInv, ContrInv, HasAsked
<1>12. Clear => LostFits(s, D, M)
  <2> DEFINE A == (ask \ D) \cup M
             C == cut \cup CutOf(D)
             W == swap \cup Swapped(D)
             ph == IF M = {} THEN phase ELSE "write"
  <2> SUFFICES ASSUME Clear, NEW d \in s.lost PROVE Excused(d, s, A, W, C, ph)
    BY DEF LostFits
  <2>1. CASE d \in txn.lost
    <3>1. Excused(d, txn, ask, swap, cut, phase) /\ d[2] \in s.bridge
      BY <1>2, <2>1, LostOfBridge
    <3> QED BY <3>1, StillExcused
  <2>2. CASE d \in L
    <3>1. Excused(d, txn, A, W, C, ph)
      BY <2>2
    <3> HIDE DEF A, W, C, ph
    <3> QED BY <1>2, <3>1 DEF Excused
  <2> QED BY <1>2, <2>1, <2>2
<1>11. Fits(s, D, M)
  BY <1>2, <1>6, <1>7, <1>8, <1>9, <1>10, <1>12, BridgeSide
<1> QED BY <1>11 DEF s

\* A port of a bridge in an edit.
LEMMA EditBridgePortInv ==
    ASSUME IInv, NEW b \in Bridges, NEW p \in Ports, EditBridgePort(b, p)
    PROVE  IInv'
<1> DEFINE e == <<"bport", b, p>>
<1>1. Good(txn) /\ \A o \in txn.bp[b] : <<"bport", b, o>> \in ask \/ ~Editing
  BY DEF IInv, AskInv, AskedBridges
<1>2. CASE Write(TxnAddBridgePort(txn, b, p), {}, {e})
  <2>1. Editing /\ Handle(TxnAddBridgePort(txn, b, p), {}, {e})
    BY <1>2 DEF Write
  <2>2. ASSUME NEW s \in TxnAddBridgePort(txn, b, p) PROVE Fits(s, {}, {e})
    <3>1. s = SetPorts(txn, b, txn.bp[b] \cup {p}, Dead(txn, "bp", b)) /\ b \in txn.bridge /\ p \in txn.port
      BY DEF TxnAddBridgePort
    <3>2. txn.bp[b] \cup {p} \in SUBSET txn.port
      BY <1>1, <3>1 DEF Good, Refs
    <3>3. \A o \in txn.bp[b] \cup {p} : <<"bport", b, o>> \in (ask \ {}) \cup {e}
      BY <1>1, <2>1
    <3>4. {e} # {}
      OBVIOUS
    <3> HIDE DEF e
    <3>5. Dead(txn, "bp", b) \in SUBSET txn.dead
      BY DEF Dead
    <3>6. Clear => \A d \in Dead(txn, "bp", b) :
                      Excused(d, txn, (ask \ {}) \cup {e}, swap \cup Swapped({}),
                              cut \cup CutOf({}), IF {e} = {} THEN phase ELSE "write")
      BY <3>4, <3>5, LostByWrite
    <3>7. CutOf({}) = {}
      BY NoCut
    <3> QED BY <2>1, <3>1, <3>2, <3>3, <3>5, <3>6, <3>7, SetPortsFits
  <2> HIDE DEF e
  <2> QED BY <2>1, <2>2, HandleInv
<1>3. CASE Delete(TxnDelBridgePort(txn, b, p), {e})
  <2>1. Editing /\ Handle(TxnDelBridgePort(txn, b, p), {e}, {}) /\ phase = "delete"
    BY <1>3 DEF Delete, Editing
  <2>2. ASSUME NEW s \in TxnDelBridgePort(txn, b, p) PROVE Fits(s, {e}, {})
    <3>1. CASE s = SetPorts(txn, b, txn.bp[b] \ {p}, Dead(txn, "bp", b) \ {<<"bp", b, p>>}) /\ b \in txn.bridge
      <4>1. txn.bp[b] \ {p} \in SUBSET txn.port
        BY <1>1 DEF Good, Refs
      <4>2. \A o \in txn.bp[b] \ {p} : <<"bport", b, o>> \in (ask \ {e}) \cup {}
        BY <1>1, <2>1
      <4>3. \A d \in {e} : d[1] = "bport" /\ d[2] = b
        OBVIOUS
      <4>4. Dead(txn, "bp", b) \ {<<"bp", b, p>>} \in SUBSET txn.dead
        BY DEF Dead
      <4>5. Clear => \A d \in Dead(txn, "bp", b) \ {<<"bp", b, p>>} :
                        Excused(d, txn, (ask \ {e}) \cup {}, swap \cup Swapped({e}),
                                cut \cup CutOf({e}), IF {} = {} THEN phase ELSE "write")
        BY LostByDelPort
      <4> HIDE DEF e
      <4> QED BY <2>1, <3>1, <4>1, <4>2, <4>3, <4>4, <4>5, SetPortsFits
    <3>2. CASE s = txn /\ p \notin txn.bp[b] /\ <<"bp", b, p>> \notin txn.dead
      <4>1. AskedBridges(txn, (ask \ {e}) \cup {})
        BY <2>1, <3>2 DEF IInv, AskInv, AskedBridges
      <4>2. ASSUME Clear, NEW d \in txn.dead
            PROVE  Explained(d, txn, (ask \ {e}) \cup {}, swap \cup Swapped({e}))
        <5>1. Explained(d, txn, ask, swap) /\ d[2] \in txn.bridge
          BY <4>2, DeadOfBridge
        <5>2. \A x, o : d = <<"bp", x, o>> => <<"bport", x, o>> \notin {e}
          BY <3>2
        <5>3. \A x, o : d = <<"bt", x, o>> => <<"btable", x, o>> \notin {e}
          BY <3>2
        <5> HIDE DEF e
        <5> QED BY <5>1, <5>2, <5>3, StillExplained
      <4>3. Clear /\ phase = "delete" => HasAsked(txn, doc \ {e})
        BY DEF IInv, ContrInv, HasAsked
      <4>4. \A d \in {e} : d[1] \notin QueueKinds
        BY DEF QueueKinds
      <4> HIDE DEF e
      <4>5. Clear => LostFits(txn, {e}, {})
        BY <2>1, LostKept
      <4> QED BY <1>1, <2>1, <3>2, <4>1, <4>2, <4>3, <4>4, <4>5, BridgeSide
    <3> QED BY <3>1, <3>2 DEF TxnDelBridgePort
  <2> HIDE DEF e
  <2> QED BY <2>1, <2>2, HandleInv
<1> QED BY <1>2, <1>3 DEF EditBridgePort

\* A flow table of a bridge in an edit.
LEMMA EditBridgeTableInv ==
    ASSUME IInv, NEW b \in Bridges, NEW t \in Tables, EditBridgeTable(b, t)
    PROVE  IInv'
<1> DEFINE e == <<"btable", b, t>>
<1>1. Good(txn) /\ \A o \in txn.bt[b] : <<"btable", b, o>> \in ask \/ ~Editing
  BY DEF IInv, AskInv, AskedBridges
<1>2. CASE Write(TxnAddBridgeFlowtable(txn, b, t), {}, {e})
  <2>1. Editing /\ Handle(TxnAddBridgeFlowtable(txn, b, t), {}, {e})
    BY <1>2 DEF Write
  <2>2. ASSUME NEW s \in TxnAddBridgeFlowtable(txn, b, t) PROVE Fits(s, {}, {e})
    <3>1. s = SetTables(txn, b, txn.bt[b] \cup {t}, Dead(txn, "bt", b)) /\ b \in txn.bridge /\ t \in txn.table
      BY DEF TxnAddBridgeFlowtable
    <3>2. txn.bt[b] \cup {t} \in SUBSET txn.table
      BY <1>1, <3>1 DEF Good, Refs
    <3>3. \A o \in txn.bt[b] \cup {t} : <<"btable", b, o>> \in (ask \ {}) \cup {e}
      BY <1>1, <2>1
    <3>4. {e} # {}
      OBVIOUS
    <3> HIDE DEF e
    <3>5. Dead(txn, "bt", b) \in SUBSET txn.dead
      BY DEF Dead
    <3>6. Clear => \A d \in Dead(txn, "bt", b) :
                      Excused(d, txn, (ask \ {}) \cup {e}, swap \cup Swapped({}),
                              cut \cup CutOf({}), IF {e} = {} THEN phase ELSE "write")
      BY <3>4, <3>5, LostByWrite
    <3>7. CutOf({}) = {}
      BY NoCut
    <3> QED BY <2>1, <3>1, <3>2, <3>3, <3>5, <3>6, <3>7, SetTablesFits
  <2> HIDE DEF e
  <2> QED BY <2>1, <2>2, HandleInv
<1>3. CASE Delete(TxnDelBridgeFlowtable(txn, b, t), {e})
  <2>1. Editing /\ Handle(TxnDelBridgeFlowtable(txn, b, t), {e}, {}) /\ phase = "delete"
    BY <1>3 DEF Delete, Editing
  <2>2. ASSUME NEW s \in TxnDelBridgeFlowtable(txn, b, t) PROVE Fits(s, {e}, {})
    <3>1. CASE s = SetTables(txn, b, txn.bt[b] \ {t}, Dead(txn, "bt", b) \ {<<"bt", b, t>>}) /\ b \in txn.bridge
      <4>1. txn.bt[b] \ {t} \in SUBSET txn.table
        BY <1>1 DEF Good, Refs
      <4>2. \A o \in txn.bt[b] \ {t} : <<"btable", b, o>> \in (ask \ {e}) \cup {}
        BY <1>1, <2>1
      <4>3. \A d \in {e} : d[1] = "btable" /\ d[2] = b
        OBVIOUS
      <4>4. Dead(txn, "bt", b) \ {<<"bt", b, t>>} \in SUBSET txn.dead
        BY DEF Dead
      <4>5. Clear => \A d \in Dead(txn, "bt", b) \ {<<"bt", b, t>>} :
                        Excused(d, txn, (ask \ {e}) \cup {}, swap \cup Swapped({e}),
                                cut \cup CutOf({e}), IF {} = {} THEN phase ELSE "write")
        BY LostByDelTable
      <4> HIDE DEF e
      <4> QED BY <2>1, <3>1, <4>1, <4>2, <4>3, <4>4, <4>5, SetTablesFits
    <3>2. CASE s = txn /\ t \notin txn.bt[b] /\ <<"bt", b, t>> \notin txn.dead
      <4>1. AskedBridges(txn, (ask \ {e}) \cup {})
        BY <2>1, <3>2 DEF IInv, AskInv, AskedBridges
      <4>2. ASSUME Clear, NEW d \in txn.dead
            PROVE  Explained(d, txn, (ask \ {e}) \cup {}, swap \cup Swapped({e}))
        <5>1. Explained(d, txn, ask, swap) /\ d[2] \in txn.bridge
          BY <4>2, DeadOfBridge
        <5>2. \A x, o : d = <<"bp", x, o>> => <<"bport", x, o>> \notin {e}
          BY <3>2
        <5>3. \A x, o : d = <<"bt", x, o>> => <<"btable", x, o>> \notin {e}
          BY <3>2
        <5> HIDE DEF e
        <5> QED BY <5>1, <5>2, <5>3, StillExplained
      <4>3. Clear /\ phase = "delete" => HasAsked(txn, doc \ {e})
        BY DEF IInv, ContrInv, HasAsked
      <4>4. \A d \in {e} : d[1] \notin QueueKinds
        BY DEF QueueKinds
      <4> HIDE DEF e
      <4>5. Clear => LostFits(txn, {e}, {})
        BY <2>1, LostKept
      <4> QED BY <1>1, <2>1, <3>2, <4>1, <4>2, <4>3, <4>4, <4>5, BridgeSide
    <3> QED BY <3>1, <3>2 DEF TxnDelBridgeFlowtable
  <2> HIDE DEF e
  <2> QED BY <2>1, <2>2, HandleInv
<1> QED BY <1>2, <1>3 DEF EditBridgeTable

\* Controllers

\* txn_add_contr: the bridge refers to the new row.
LEMMA AddContrFits ==
    ASSUME IInv, Editing, NEW b \in Bridges, NEW c \in Ctrls, NEW v \in Protocols,
           NEW s \in TxnAddContr(txn, b, c, v), NEW M, M # {}
    PROVE  Fits(s, {}, M)
<1> DEFINE y == <<b, c>>
           u == [txn EXCEPT !.contr = @ \cup {y}, !.proto[y] = v, !.fresh = @ \cup {y}]
           S == txn.bc[b] \cup {c}
<1>1. Good(txn) /\ txn \in Rows /\ b \in txn.bridge /\ s = SetContrs(u, b, S, Dead(txn, "bc", b))
  BY DEF IInv, Good, TxnAddContr
<1>2. y \in Contrs /\ S \in SUBSET Ctrls
  BY <1>1, Columns DEF Contrs
<1>3. S = txn.bc[b] \cup {c} /\ y = <<b, c>>
  OBVIOUS
<1> HIDE DEF y, S
<1>4. /\ u \in Rows /\ u.port = txn.port /\ u.pq = txn.pq /\ u.qid = txn.qid /\ u.qos = txn.qos
      /\ u.table = txn.table /\ u.bridge = txn.bridge /\ u.contr = txn.contr \cup {y}
      /\ u.bp = txn.bp /\ u.bt = txn.bt /\ u.bc = txn.bc /\ u.dead = txn.dead /\ u.lost = txn.lost
  BY <1>1, <1>2 DEF Rows
<1> HIDE DEF u
<1>5. /\ s \in Rows /\ s.port = u.port /\ s.pq = u.pq /\ s.qid = u.qid /\ s.qos = u.qos
      /\ s.table = u.table /\ s.bridge = u.bridge /\ s.contr = u.contr
      /\ s.bp = u.bp /\ s.bt = u.bt /\ s.bc = [u.bc EXCEPT ![b] = S]
      /\ s.dead \subseteq u.dead
      /\ s.lost = (u.lost \ Lost(u, "bc", b)) \cup Dead(txn, "bc", b)
  <2>1. Dead(txn, "bc", b) \subseteq DeadRefs
    BY <1>1 DEF Dead, Rows
  <2> QED BY <1>1, <1>2, <1>4, <2>1 DEF Rows, SetContrs
<1>6. \A x \in Bridges : s.bc[x] = IF x = b THEN S ELSE txn.bc[x]
  BY <1>1, <1>4, <1>5, Columns
<1>7. Good(s)
  <2>1. \A x \in Bridges : s.bp[x] \subseteq s.port /\ s.bt[x] \subseteq s.table
    BY <1>1, <1>4, <1>5 DEF Good, Refs
  <2>2. NoBridge(s)
    BY <1>1, <1>4, <1>5, <1>6 DEF Good, NoBridge
  <2>3. HasContrs(s)
    <3> SUFFICES ASSUME NEW a \in Bridges, NEW e \in s.bc[a] PROVE <<a, e>> \in s.contr
      BY DEF HasContrs
    <3>1. CASE e \in txn.bc[a]
      BY <1>1, <1>4, <1>5, <3>1 DEF Good, HasContrs
    <3>2. CASE a = b /\ e = c
      BY <1>3, <1>4, <1>5, <3>2
    <3> QED BY <1>3, <1>6, <3>1, <3>2
  <2> QED BY <1>1, <1>4, <1>5, <2>1, <2>2, <2>3, BridgeChange
<1>8. AskedBridges(s, (ask \ {}) \cup M)
  BY <1>4, <1>5 DEF IInv, AskInv, AskedBridges
<1>9. ASSUME Clear, NEW d \in s.dead PROVE Explained(d, s, (ask \ {}) \cup M, swap \cup Swapped({}))
  <2>1. d \in txn.dead /\ Explained(d, txn, ask, swap) /\ d[2] \in s.bridge
    BY <1>4, <1>5, <1>9, DeadOfBridge
  <2> QED BY <2>1, StillExplained
<1>10. Clear => LostFits(s, {}, M)
  <2> SUFFICES ASSUME Clear PROVE LostFits(s, {}, M)
    OBVIOUS
  <2>1. ASSUME NEW d \in txn.dead, d[1] = "bc" PROVE FALSE
    BY <2>1, DeadOfBridge
  <2>2. s.lost \subseteq txn.lost
    BY <1>4, <1>5, <2>1 DEF Dead
  <2> QED BY <1>4, <1>5, <2>2, NoCut, LostKept
<1> QED BY <1>4, <1>5, <1>7, <1>8, <1>9, <1>10, BridgeSide

\* In a clear edit the controller that is deleted is the bridge's own.
LEMMA DelContrFits ==
    ASSUME IInv, phase = "delete", NEW b \in Bridges, NEW c \in Ctrls, <<"contr", b, c>> \in doc,
           NEW s \in TxnDelContr(txn, b, c)
    PROVE  Fits(s, ContrNode(b, c), {})
<1> DEFINE D == ContrNode(b, c)
           size == Cardinality(txn.bc[b]) + Cardinality(Dead(txn, "bc", b))
           S == IF size = 1 THEN {} ELSE txn.bc[b] \ {c}
           L == IF size = 1 THEN {} ELSE Dead(txn, "bc", b)
           t == SetContrs(txn, b, S, L)
<1>1. Good(txn) /\ txn \in Rows /\ Editing
  BY DEF IInv, Good, Editing
<1>2. PICK x \in txn.contr :
         /\ x[2] = c /\ b \in txn.bridge
         /\ s = [t EXCEPT !.contr = @ \ {x}, !.bc[x[1]] = @ \ {c},
                          !.dead = IF c \in t.bc[x[1]] THEN @ \cup {<<"bc", x[1], c>>} ELSE @]
  BY DEF TxnDelContr, ContrsNamed
<1>3. S \subseteq txn.bc[b] /\ c \notin S
  OBVIOUS
<1>4. size # 1 => S = txn.bc[b] \ {c}
  OBVIOUS
<1>5. x \in Contrs /\ x[1] \in Bridges /\ x = <<x[1], c>>
  BY <1>1, <1>2, Columns DEF Contrs
<1>6. S \in SUBSET Ctrls
  BY <1>1, <1>3, Columns
<1>18. L \subseteq Dead(txn, "bc", b)
  OBVIOUS
<1>19. L \subseteq DeadRefs
  BY <1>1, <1>18 DEF Dead, Rows
<1> HIDE DEF S, L, size
<1>7. /\ t \in Rows /\ t.port = txn.port /\ t.pq = txn.pq /\ t.qid = txn.qid /\ t.qos = txn.qos
      /\ t.table = txn.table /\ t.bridge = txn.bridge /\ t.contr = txn.contr
      /\ t.bp = txn.bp /\ t.bt = txn.bt /\ t.bc = [txn.bc EXCEPT ![b] = S]
      /\ t.dead \subseteq txn.dead /\ t.lost = (txn.lost \ Lost(txn, "bc", b)) \cup L
  BY <1>1, <1>6, <1>19 DEF Rows, SetContrs
<1> HIDE DEF t
<1>8. /\ s.port = t.port /\ s.pq = t.pq /\ s.qid = t.qid /\ s.qos = t.qos
      /\ s.table = t.table /\ s.bridge = t.bridge /\ s.contr = t.contr \ {x}
      /\ s.bp = t.bp /\ s.bt = t.bt /\ s.bc = [t.bc EXCEPT ![x[1]] = @ \ {c}]
      /\ s.dead = IF c \in t.bc[x[1]] THEN t.dead \cup {<<"bc", x[1], c>>} ELSE t.dead
      /\ s.lost = t.lost
  BY <1>2, <1>7 DEF Rows
<1>9. s \in Rows
  <2>1. <<"bc", x[1], c>> \in DeadRefs
    BY <1>5 DEF DeadRefs
  <2> QED BY <1>2, <1>5, <1>7, <2>1 DEF Rows
<1>10. \A a \in Bridges :
          /\ t.bc[a] = IF a = b THEN S ELSE txn.bc[a]
          /\ s.bc[a] = IF a = x[1] THEN t.bc[a] \ {c} ELSE t.bc[a]
  BY <1>1, <1>5, <1>7, <1>8, Columns
<1>11. ASSUME NEW a \in Bridges PROVE s.bc[a] \subseteq txn.bc[a]
  <2>1. t.bc[a] \subseteq txn.bc[a]
    BY <1>3, <1>10
  <2>2. s.bc[a] \subseteq t.bc[a]
    BY <1>10
  <2> QED BY <2>1, <2>2
<1>12. Good(s)
  <2>1. \A a \in Bridges : s.bp[a] \subseteq s.port /\ s.bt[a] \subseteq s.table
    BY <1>1, <1>7, <1>8 DEF Good, Refs
  <2>2. NoBridge(s)
    BY <1>1, <1>7, <1>8, <1>11 DEF Good, NoBridge
  <2>3. HasContrs(s)
    <3> SUFFICES ASSUME NEW a \in Bridges, NEW e \in s.bc[a] PROVE <<a, e>> \in s.contr
      BY DEF HasContrs
    <3>1. <<a, e>> \in txn.contr
      BY <1>1, <1>11 DEF Good, HasContrs
    <3>2. a = x[1] => e # c
      BY <1>10
    <3>3. <<a, e>> = <<x[1], c>> => a = x[1] /\ e = c
      OBVIOUS
    <3> QED BY <1>5, <1>7, <1>8, <3>1, <3>2, <3>3
  <2> QED BY <1>1, <1>7, <1>8, <1>9, <2>1, <2>2, <2>3, BridgeChange
<1>13. /\ \A d \in D : d[1] \in {"contr", "proto"} /\ d[1] \notin QueueKinds
       /\ \A a, e : <<"contr", a, e>> \in doc \ D => <<a, e>> # <<b, c>>
  BY DEF ContrNode, QueueKinds
<1> HIDE DEF D
<1>14. /\ \A a, o : <<"bport", a, o>> \notin D /\ <<"btable", a, o>> \notin D
       /\ \A a : <<"bridge", a>> \notin D
  BY <1>13
<1>15. AskedBridges(s, (ask \ D) \cup {})
  BY <1>1, <1>7, <1>8, <1>14 DEF IInv, AskInv, AskedBridges
<1>16. ASSUME Clear
       PROVE  /\ \A d \in s.dead : Explained(d, s, (ask \ D) \cup {}, swap \cup Swapped(D))
              /\ LostFits(s, D, {})
              /\ HasAsked(s, doc \ D)
  <2>1. ~Ambiguous(txn) /\ HasAsked(txn, doc)
    BY <1>16 DEF IInv, KeyInv, ContrInv
  <2>2. c \in txn.bc[b] /\ <<b, c>> \in txn.contr
    BY <1>1, <2>1 DEF HasAsked, Good, HasContrs
  <2>3. x = <<b, c>>
    BY <1>2, <2>1, <2>2 DEF Ambiguous
  <2>4. s.dead \subseteq txn.dead
    BY <1>3, <1>7, <1>8, <1>10, <2>3
  <2>5. ASSUME NEW d \in s.dead PROVE Explained(d, s, (ask \ D) \cup {}, swap \cup Swapped(D))
    <3>1. Explained(d, txn, ask, swap) /\ d[2] \in s.bridge
      BY <1>7, <1>8, <1>16, <2>4, DeadOfBridge
    <3> QED BY <1>14, <3>1, StillExplained
  <2>6. size = 1 => txn.bc[b] = {c}
    <3>1. Dead(txn, "bc", b) = {}
      <4> SUFFICES ASSUME NEW d \in txn.dead, d[1] = "bc" PROVE FALSE
        BY DEF Dead
      <4> QED BY <1>16, DeadOfBridge
    <3>2. Cardinality(Dead(txn, "bc", b)) = 0
      BY <3>1, FS_EmptySet
    <3>3. IsFiniteSet(txn.bc[b])
      BY <1>1, RowsAssumption, FS_Subset, Columns
    <3>4. Cardinality(txn.bc[b]) \in Nat
      BY <3>3, FS_CardinalityType
    <3>5. size = 1 => Cardinality(txn.bc[b]) = 1
      BY <3>2, <3>4 DEF size
    <3>6. Cardinality(txn.bc[b]) = 1 => \E e : txn.bc[b] = {e}
      BY <3>3, FS_Singleton
    <3> QED BY <2>2, <3>5, <3>6
  <2>7. HasAsked(s, doc \ D)
    <3> SUFFICES ASSUME NEW a \in Bridges, NEW e \in Ctrls, <<"contr", a, e>> \in doc \ D
                 PROVE  e \in s.bc[a]
      BY DEF HasAsked
    <3>1. e \in txn.bc[a] /\ (a # b \/ e # c)
      BY <1>13, <2>1 DEF HasAsked
    <3>2. CASE a # b
      BY <1>10, <2>3, <3>1, <3>2
    <3>3. CASE a = b
      BY <1>4, <1>10, <2>3, <2>6, <3>1, <3>3
    <3> QED BY <3>2, <3>3
  <2>8. LostFits(s, D, {})
    <3>1. ASSUME NEW d \in txn.dead, d[1] = "bc" PROVE FALSE
      BY <1>16, <3>1, DeadOfBridge
    <3>2. s.lost \subseteq txn.lost
      BY <1>7, <1>8, <1>18, <3>1 DEF Dead
    <3> QED BY <1>7, <1>8, <1>16, <3>2, LostKept
  <2> QED BY <2>5, <2>7, <2>8
<1>17. Fits(s, D, {})
  BY <1>1, <1>7, <1>8, <1>12, <1>13, <1>15, <1>16, BridgeSide
<1> QED BY <1>17 DEF D

\* txn_mod_contr_target: no reference changes.
LEMMA ModContrIpFits ==
    ASSUME IInv, Editing, NEW c \in Ctrls, NEW s \in TxnModContrIp(txn, c)
    PROVE  Fits(s, {}, {})
<1>1. Good(txn) /\ txn \in Rows /\ cache \in [Contrs -> Protocols]
  BY DEF IInv, Good, TypeOK
<1>2. PICK x \in txn.contr :
         s = [txn EXCEPT !.fresh = @ \cup {x},
                         !.proto[x] = IF x \in txn.fresh THEN @ ELSE cache[x]]
  BY DEF TxnModContrIp, ContrsNamed
<1>3. x \in Contrs /\ cache[x] \in Protocols
  BY <1>1, Columns
<1>4. s \in Rows
  BY <1>1, <1>2, <1>3 DEF Rows
<1>5. /\ s.port = txn.port /\ s.pq = txn.pq /\ s.qid = txn.qid /\ s.qos = txn.qos
      /\ s.table = txn.table /\ s.bridge = txn.bridge /\ s.contr = txn.contr
      /\ s.bp = txn.bp /\ s.bt = txn.bt /\ s.bc = txn.bc /\ s.dead = txn.dead /\ s.lost = txn.lost
  BY <1>1, <1>2 DEF Rows
<1>6. Good(s)
  BY <1>1, <1>4, <1>5 DEF Good, Refs, OwnQos, OnePlace, NoBridge, HasContrs
<1>7. AskedBridges(s, (ask \ {}) \cup {})
  BY <1>5 DEF IInv, AskInv, AskedBridges
<1>8. ASSUME Clear, NEW d \in s.dead PROVE Explained(d, s, (ask \ {}) \cup {}, swap \cup Swapped({}))
  BY <1>5, <1>8, DeadOfBridge, StillExplained
<1>9. Clear /\ phase = "delete" => HasAsked(s, doc \ {})
  BY <1>5 DEF IInv, ContrInv, HasAsked
<1>10. Clear => LostFits(s, {}, {})
  BY <1>5, NoCut, LostKept
<1> QED BY <1>5, <1>6, <1>7, <1>8, <1>9, <1>10, BridgeSide

\* A controller in an edit.
LEMMA EditContrInv ==
    ASSUME IInv, NEW b \in Bridges, NEW c \in Ctrls, EditContr(b, c)
    PROVE  IInv'
<1>1. ASSUME NEW v \in Protocols,
             Write(TxnAddContr(txn, b, c, v), {}, {<<"contr", b, c>>, <<"proto", b, c, v>>})
      PROVE  IInv'
  <2> DEFINE M == {<<"contr", b, c>>, <<"proto", b, c, v>>}
  <2>1. Editing /\ Handle(TxnAddContr(txn, b, c, v), {}, M) /\ M # {}
    BY <1>1 DEF Write
  <2> HIDE DEF M
  <2>2. \A s \in TxnAddContr(txn, b, c, v) : Fits(s, {}, M)
    BY <2>1, AddContrFits
  <2> QED BY <2>1, <2>2, HandleInv
<1>2. CASE <<"contr", b, c>> \in doc /\ Delete(TxnDelContr(txn, b, c), ContrNode(b, c))
  <2>1. /\ Editing /\ phase = "delete" /\ <<"contr", b, c>> \in doc
        /\ Handle(TxnDelContr(txn, b, c), ContrNode(b, c), {})
    BY <1>2 DEF Delete, Editing
  <2>2. \A s \in TxnDelContr(txn, b, c) : Fits(s, ContrNode(b, c), {})
    BY <2>1, DelContrFits
  <2> QED BY <2>1, <2>2, HandleInv
<1>3. CASE Write(TxnModContrIp(txn, c), {}, {})
  <2>1. \A s \in TxnModContrIp(txn, c) : Fits(s, {}, {})
    BY <1>3, ModContrIpFits DEF Write
  <2> QED BY <1>3, <2>1, HandleInv DEF Write
<1> QED BY <1>1, <1>2, <1>3 DEF EditContr

\* The protocol of a controller: no reference and no key changes.
LEMMA EditProtocolInv ==
    ASSUME IInv, NEW b \in Bridges, NEW c \in Ctrls, NEW v \in Protocols, EditProtocol(b, c, v)
    PROVE  IInv'
<1> DEFINE old == {d \in doc : d[1] = "proto" /\ d[2] = b /\ d[3] = c}
           M == {<<"proto", b, c, v>>}
<1>1. CASE TxnAbort /\ End("failed")
  BY <1>1, AbortInv
<1>2. CASE \E x \in ContrsNamed(txn, c) :
             /\ IF x \in txn.fresh
                THEN txn' = [txn EXCEPT !.proto[x] = v] /\ UNCHANGED cache
                ELSE cache' = [cache EXCEPT ![x] = v] /\ UNCHANGED txn
             /\ doc' = doc \ old
             /\ ask' = (ask \ old) \cup M
             /\ n' = n + 1
             /\ phase' = "write"
             /\ UNCHANGED <<db, odd, swap, cut, last>>
  <2>1. PICK x \in txn.contr :
             /\ IF x \in txn.fresh
                THEN txn' = [txn EXCEPT !.proto[x] = v] /\ UNCHANGED cache
                ELSE cache' = [cache EXCEPT ![x] = v] /\ UNCHANGED txn
             /\ doc' = doc \ old
             /\ ask' = (ask \ old) \cup M
             /\ n' = n + 1
             /\ phase' = "write"
             /\ UNCHANGED <<db, odd, swap, cut, last>>
    BY <1>2 DEF ContrsNamed
  <2>2. Good(txn) /\ txn \in Rows /\ cache \in [Contrs -> Protocols] /\ Editing /\ n < MaxOps
    BY DEF IInv, Good, TypeOK, EditProtocol
  <2>3. x \in Contrs
    BY <2>2, Columns
  <2>4. txn' \in Rows /\ cache' \in [Contrs -> Protocols]
    BY <2>1, <2>2, <2>3 DEF Rows
  <2> DEFINE s == txn'
  <2>5. /\ s.port = txn.port /\ s.pq = txn.pq /\ s.qid = txn.qid /\ s.qos = txn.qos
        /\ s.table = txn.table /\ s.bridge = txn.bridge /\ s.contr = txn.contr
        /\ s.bp = txn.bp /\ s.bt = txn.bt /\ s.bc = txn.bc /\ s.dead = txn.dead /\ s.lost = txn.lost
    BY <2>1, <2>2 DEF Rows
  <2>6. \A d \in old \cup M : d[1] = "proto"
    OBVIOUS
  <2> HIDE DEF old, M
  <2>7. Good(txn')
    BY <2>2, <2>4, <2>5 DEF Good, Refs, OwnQos, OnePlace, NoBridge, HasContrs
  <2>8. n' \in 0..MaxOps
    BY <2>1, <2>2, RowsAssumption DEF IInv, TypeOK
  <2>9. TypeOK' /\ Good(db)' /\ Good(txn)'
    BY <2>1, <2>4, <2>7, <2>8 DEF TypeOK, IInv, Good, Refs
  <2>10. KeyIsId' /\ RefusedForReason'
    BY <2>1 DEF IInv, KeyIsId, RefusedForReason
  <2>11. \A a : a[1] # "proto" => (a \in ask' <=> a \in ask)
    BY <2>1, <2>6
  <2>12. AskInv'
    <3>1. AskedQueues(txn, ask) /\ AskedBridges(txn, ask)
      BY <2>2 DEF IInv, AskInv
    <3>2. AskedBridges(txn, ask)'
      BY <2>5, <2>11, <3>1 DEF AskedBridges
    <3>3. ASSUME NEW q \in Queues
          PROVE  /\ txn'.qid[q] # None => <<"queue", q>> \in ask'
                 /\ FindQueuePort(txn', q) # {} => \E a \in ask' : a[1] = "qport" /\ a[2] = q
      <4>1. FindQueuePort(txn', q) = FindQueuePort(txn, q)
        BY <2>5 DEF FindQueuePort, Pairs
      <4>2. /\ txn.qid[q] # None => <<"queue", q>> \in ask
            /\ FindQueuePort(txn, q) # {} => \E a \in ask : a[1] = "qport" /\ a[2] = q
        BY <3>1 DEF AskedQueues
      <4> QED BY <2>5, <2>11, <4>1, <4>2
    <3>4. AskedQueues(txn, ask)'
      BY <3>3 DEF AskedQueues
    <3> QED BY <3>2, <3>4 DEF AskInv
  <2>13. DeleteInv' /\ ContrInv'
    BY <2>1 DEF DeleteInv, ContrInv
  <2>14. Clear' => Clear
    BY <2>1, <2>2 DEF Clear
  <2>15. KeyInv'
    <3>1. Ambiguous(txn') => Ambiguous(txn)
      BY <2>5 DEF Ambiguous, QosOf, Pairs
    <3>2. KeysMatch(txn) => KeysMatch(txn')
      BY <2>5 DEF KeysMatch
    <3> QED BY <2>14, <3>1, <3>2 DEF IInv, KeyInv
  <2>16. DeadInv'
    <3> SUFFICES ASSUME Clear, NEW d \in txn.dead
                 PROVE  Explained(d, txn', ask', swap')
      BY <2>5, <2>14 DEF DeadInv
    <3>1. Explained(d, txn, ask, swap) /\ d[2] \in s.bridge
      BY <2>5, DeadOfBridge
    <3>2. \A a, o : <<"bport", a, o>> \in ask' <=> <<"bport", a, o>> \in ask
      BY <2>11
    <3>3. \A a, o : <<"btable", a, o>> \in ask' <=> <<"btable", a, o>> \in ask
      BY <2>11
    <3> QED BY <2>1, <2>5, <3>1, <3>2, <3>3 DEF Explained
  <2>17. LostInv'
    <3> SUFFICES ASSUME Clear, NEW d \in txn.lost
                 PROVE  Excused(d, txn', ask', swap', cut', phase')
      BY <2>5, <2>14 DEF LostInv
    <3>1. Excused(d, txn, ask, swap, cut, phase) /\ d[2] \in s.bridge
      BY <2>5, LostOfBridge
    <3>2. CutOf(old) = {} /\ Swapped(old) = {} /\ M # {}
      BY <2>6 DEF CutOf, Swapped, M
    <3>3. Excused(d, s, (ask \ old) \cup M, swap \cup Swapped(old), cut \cup CutOf(old),
                  IF M = {} THEN phase ELSE "write")
      BY <2>2, <3>1, <3>2, StillExcused
    <3>4. swap \cup Swapped(old) = swap' /\ cut \cup CutOf(old) = cut'
      BY <2>1, <3>2
    <3> QED BY <2>1, <3>2, <3>3, <3>4
  <2> QED BY <2>9, <2>10, <2>12, <2>13, <2>15, <2>16, <2>17 DEF IInv
<1> QED BY <1>1, <1>2 DEF EditProtocol

-----------------------------------------------------------------------------
(* Begin and end of an edit                                                *)

\* The running document shows what the rows refer to.
LEMMA ShownIsAsked ==
    ASSUME NEW r, Good(r), NEW c, NEW A \in Shown(r, c)
    PROVE  AskedQueues(r, A) /\ AskedBridges(r, A) /\ HasAsked(r, A)
<1>1. PICK f \in QueuePorts(r) :
         A = PortConfig(r) \cup QueueConfig(r, f) \cup FlowTableConfig(r) \cup BridgeConfig(r, c)
  BY DEF Shown
<1>2. r \in Rows /\ r.bridge \subseteq Bridges
  BY Columns DEF Good
<1>3. AskedQueues(r, A)
  <2> SUFFICES ASSUME NEW q \in Queues
               PROVE  /\ r.qid[q] # None => <<"queue", q>> \in QueueConfig(r, f)
                      /\ FindQueuePort(r, q) # {} =>
                            \E a \in QueueConfig(r, f) : a[1] = "qport" /\ a[2] = q
    BY <1>1 DEF AskedQueues
  <2>1. r.qid[q] # None => <<"queue", q>> \in QueueConfig(r, f)
    BY DEF QueueConfig
  <2>2. ASSUME FindQueuePort(r, q) # {}
        PROVE  \E a \in QueueConfig(r, f) : a[1] = "qport" /\ a[2] = q
    <3>1. r.qid[q] # None
      BY <2>2, NoQueue
    <3>2. f[q] \in FindQueuePort(r, q)
      BY <2>2, <3>1 DEF QueuePorts
    <3>3. f[q] # None
      BY <1>2, <3>2, RowsAssumption, Columns DEF FindQueuePort
    <3>4. <<"qport", q, f[q]>> \in QueueConfig(r, f)
      BY <3>3 DEF QueueConfig
    <3> QED BY <3>4
  <2> QED BY <2>1, <2>2
<1>4. AskedBridges(r, A)
  <2> SUFFICES ASSUME NEW b \in Bridges
               PROVE  /\ b \in r.bridge => <<"bridge", b>> \in BridgeConfig(r, c)
                      /\ \A p \in r.bp[b] : <<"bport", b, p>> \in BridgeConfig(r, c)
                      /\ \A t \in r.bt[b] : <<"btable", b, t>> \in BridgeConfig(r, c)
    BY <1>1 DEF AskedBridges
  <2>1. CASE b \in r.bridge
    BY <2>1 DEF BridgeConfig
  <2>2. CASE b \notin r.bridge
    BY <2>2 DEF Good, NoBridge
  <2> QED BY <2>1, <2>2
<1>5. HasAsked(r, A)
  <2> SUFFICES ASSUME NEW b \in Bridges, NEW e \in Ctrls, <<"contr", b, e>> \in A
               PROVE  e \in r.bc[b]
    BY DEF HasAsked
  <2>1. <<"contr", b, e>> \in BridgeConfig(r, c)
    BY <1>1 DEF PortConfig, QueueConfig, FlowTableConfig
  <2>2. PICK a \in r.bridge : <<"contr", b, e>> \in {<<"contr", a, x>> : x \in r.bc[a]}
    BY <2>1 DEF BridgeConfig
  <2> QED BY <2>2
<1> QED BY <1>3, <1>4, <1>5

\* ofcds_editconfig reads the running document.
LEMMA BeginInv == ASSUME IInv, Begin PROVE IInv'
<1>1. /\ txn' = db /\ db' = db /\ cache' = cache /\ doc' \in Shown(db, cache) /\ ask' = doc'
      /\ phase' = "delete" /\ n' = 0 /\ swap' = {} /\ cut' = {} /\ last' = NoEdit
      /\ (odd' <=> Ambiguous(db) \/ ~KeysMatch(db))
  BY DEF Begin
<1>2. Good(db) /\ db.dead = {} /\ db.lost = {} /\ db.fresh = {} /\ cache \in [Contrs -> Protocols] /\ 0 \in 0..MaxOps
  BY RowsAssumption DEF IInv, TypeOK
<1>3. TypeOK'
  BY <1>1, <1>2 DEF TypeOK, Good, Refs
<1>4. AskedQueues(db, doc') /\ AskedBridges(db, doc') /\ HasAsked(db, doc')
  BY <1>1, <1>2, ShownIsAsked
<1>5. AskInv' /\ DeleteInv' /\ ContrInv'
  BY <1>1, <1>4 DEF AskInv, DeleteInv, ContrInv
<1>6. KeyInv' /\ DeadInv' /\ LostInv'
  BY <1>1, <1>2 DEF KeyInv, DeadInv, LostInv, Clear
<1>7. KeyIsId' /\ RefusedForReason'
  BY <1>1 DEF KeyIsId, RefusedForReason, NoEdit
<1> QED BY <1>1, <1>2, <1>3, <1>5, <1>6, <1>7 DEF IInv

\* The garbage collection keeps what something refers to.
LEMMA CollectIsGood ==
    ASSUME NEW r, Good(r)
    PROVE  LET s == Collect(r)
           IN  /\ Good(s) /\ s.dead = r.dead /\ s.lost = r.lost /\ s.fresh = {} /\ s.qid = r.qid /\ s.qos = r.qos
<1> DEFINE P == {p \in r.port : \E b \in r.bridge : p \in r.bp[b]}
           T == {t \in r.table : \E b \in r.bridge : t \in r.bt[b]}
           C == {x \in r.contr : x[2] \in r.bc[x[1]]}
           V == [x \in Contrs |-> IF x[2] \in r.bc[x[1]] THEN r.proto[x] ELSE "ssl"]
           Q == [p \in Ports |-> IF p \in P THEN r.pq[p] ELSE None]
           s == Collect(r)
<1>1. r \in Rows /\ r.proto \in [Contrs -> Protocols]
  BY DEF Good, Rows
<1>2. s = [r EXCEPT !.port = P, !.pq = Q, !.table = T, !.contr = C, !.proto = V, !.fresh = {}]
  BY <1>1 DEF Collect, Rows
<1>3. /\ P \in SUBSET Ports /\ T \in SUBSET Tables /\ C \in SUBSET Contrs
      /\ V \in [Contrs -> Protocols] /\ Q \in [Ports -> QosRows \cup {None}]
  BY <1>1, Columns DEF Protocols
<1>4. /\ \A p \in Ports : Q[p] = r.pq[p] \/ Q[p] = None
      /\ \A p \in Ports : Q[p] # None => p \in P
      /\ \A b \in r.bridge : \A p \in r.bp[b] : p \in r.port => p \in P
      /\ \A b \in r.bridge : \A t \in r.bt[b] : t \in r.table => t \in T
      /\ \A b \in Bridges : \A c \in r.bc[b] : <<b, c>> \in r.contr => <<b, c>> \in C
  OBVIOUS
<1> HIDE DEF P, T, C, V, Q, s
<1>5. s \in Rows
  BY <1>1, <1>2, <1>3 DEF Rows
<1>6. /\ s.port = P /\ s.pq = Q /\ s.table = T /\ s.contr = C /\ s.fresh = {} /\ s.dead = r.dead /\ s.lost = r.lost
      /\ s.qid = r.qid /\ s.qos = r.qos /\ s.bridge = r.bridge /\ s.bp = r.bp /\ s.bt = r.bt
      /\ s.bc = r.bc
  BY <1>1, <1>2 DEF Rows
<1>7. Good(s)
  <2>1. Refs(s)
    <3>1. \A p \in Ports : s.pq[p] # None => p \in s.port /\ s.qos[s.pq[p]] # {}
      BY <1>4, <1>6 DEF Good, Refs
    <3>2. \A k \in QosRows : \A x \in s.qos[k] : s.qid[x[2]] # None
      BY <1>6 DEF Good, Refs
    <3>3. ASSUME NEW b \in Bridges PROVE s.bp[b] \subseteq s.port /\ s.bt[b] \subseteq s.table
      BY <1>4, <1>6 DEF Good, Refs, NoBridge
    <3> QED BY <3>1, <3>2, <3>3 DEF Refs
  <2>2. OwnQos(s)
    BY <1>4, <1>6 DEF Good, OwnQos
  <2>3. OnePlace(s)
    <3>1. OnePlace(r)
      BY DEF Good
    <3> QED BY <1>4, <1>6, <3>1 DEF OnePlace
  <2>4. NoBridge(s) /\ HasContrs(s)
    BY <1>4, <1>6 DEF Good, NoBridge, HasContrs
  <2> QED BY <1>5, <2>1, <2>2, <2>3, <2>4 DEF Good
<1> QED BY <1>6, <1>7 DEF s

\* txn_commit
LEMMA CommitInv == ASSUME IInv, Commit PROVE IInv'
<1>1. Editing /\ Good(txn) /\ txn.dead = {} /\ txn.lost = {} /\ db' = Collect(txn) /\ Idle
  BY DEF IInv, Commit, End
<1>2. /\ Good(db') /\ db'.dead = {} /\ db'.lost = {} /\ db'.fresh = {} /\ db'.qid = txn.qid /\ db'.qos = txn.qos
  BY <1>1, CollectIsGood
<1>3. cache' \in [Contrs -> Protocols]
  <2>1. txn.proto \in [Contrs -> Protocols] /\ cache \in [Contrs -> Protocols]
    BY DEF IInv, TypeOK, Rows
  <2>2. cache' = [x \in Contrs |->
                   CASE x \notin db'.contr -> "ssl"
                     [] x \in db'.contr /\ x \in txn.fresh -> txn.proto[x]
                     [] OTHER -> cache[x]]
    BY DEF Commit
  <2> QED BY <2>1, <2>2 DEF Protocols
<1>4. last'.res = "ok" /\ (last'.odd <=> odd)
  BY DEF Commit, End
<1>5. KeyIsId'
  <2>1. ~odd => KeysMatch(txn)
    BY <1>1 DEF IInv, KeyInv, Clear
  <2>2. KeysMatch(txn) => KeysMatch(db')
    BY <1>2 DEF KeysMatch
  <2> QED BY <1>4, <2>1, <2>2 DEF KeyIsId
<1>6. RefusedForReason'
  BY <1>4 DEF RefusedForReason
<1> QED BY <1>1, <1>2, <1>3, <1>5, <1>6, EndInv

\* A refused commit has a reason.
LEMMA RefusedInv == ASSUME IInv, CommitRefused PROVE IInv'
<1>1. Editing /\ txn.dead \cup txn.lost # {} /\ db' = db /\ cache' = cache /\ Idle
  BY DEF CommitRefused, TxnAbort, End
<1>2. last' = [res |-> "refused", ask |-> ask, odd |-> odd, swap |-> swap, cut |-> cut]
  BY DEF CommitRefused, End
<1>3. Good(db') /\ db'.dead = {} /\ db'.lost = {} /\ db'.fresh = {} /\ cache' \in [Contrs -> Protocols]
  BY <1>1 DEF IInv, TypeOK
<1>4. /\ last'.res = "refused" /\ last'.ask = ask /\ last'.swap = swap /\ (last'.odd <=> odd)
      /\ last'.cut = cut
  BY <1>2
<1> DEFINE Wrong == Dangling(ask) \/ swap \cap ask # {}
           e == last'
<1>5. ASSUME NEW b, NEW p, <<"bport", b, p>> \in ask, <<"port", p>> \in swap PROVE Wrong
  <2>1. <<"bport", b, p>>[1] = "bport" /\ <<"bport", b, p>>[3] = p
    OBVIOUS
  <2> QED BY <1>5, <2>1 DEF Dangling
<1>6. ASSUME NEW b, NEW t, <<"btable", b, t>> \in ask, <<"table", t>> \in swap PROVE Wrong
  <2>1. <<"btable", b, t>>[1] = "btable" /\ <<"btable", b, t>>[3] = t
    OBVIOUS
  <2> QED BY <1>6, <2>1 DEF Dangling
<1> HIDE DEF Wrong
<1>7. ~odd => Wrong \/ Crossed(e)
  <2> SUFFICES ASSUME ~odd PROVE Wrong \/ Crossed(e)
    OBVIOUS
  <2>1. CASE txn.dead # {}
    <3>1. PICK d \in txn.dead : Explained(d, txn, ask, swap)
      BY <1>1, <2>1 DEF IInv, DeadInv, Clear
    <3> QED BY <1>5, <1>6, <3>1 DEF Explained
  <2>2. CASE txn.lost # {}
    <3>1. PICK d \in txn.lost : Excused(d, txn, ask, swap, cut, phase)
      BY <1>1, <2>2 DEF IInv, LostInv, Clear
    <3>2. \A b \in txn.bridge : b \in Bridges /\ <<"bridge", b>> \in e.ask
      BY <1>1, <1>4, Columns DEF IInv, AskInv, AskedBridges, Good
    <3>3. e.ask = ask /\ e.swap = swap /\ e.cut = cut
      BY <1>4
    <3> HIDE DEF e
    <3>4. ASSUME NEW b \in txn.bridge, NEW p \in Ports, <<"port", p>> \in swap,
                 <<"bport", b, p>> \in ask \cup cut,
                 <<"bport", b, p>> \in ask \/ \E o \in Ports : o # p /\ <<"bport", b, o>> \in cut
          PROVE  Wrong \/ Crossed(e)
      <4>1. CASE <<"bport", b, p>> \in ask
        BY <1>5, <3>4, <4>1
      <4>2. CASE <<"bport", b, p>> \in cut /\ \E o \in Ports : o # p /\ <<"bport", b, o>> \in cut
        BY <3>2, <3>3, <3>4, <4>2 DEF Crossed
      <4> QED BY <3>4, <4>1, <4>2
    <3>5. ASSUME NEW b \in txn.bridge, NEW t \in Tables, <<"table", t>> \in swap,
                 <<"btable", b, t>> \in ask \cup cut,
                 <<"btable", b, t>> \in ask \/ \E o \in Tables : o # t /\ <<"btable", b, o>> \in cut
          PROVE  Wrong \/ Crossed(e)
      <4>1. CASE <<"btable", b, t>> \in ask
        BY <1>6, <3>5, <4>1
      <4>2. CASE <<"btable", b, t>> \in cut /\ \E o \in Tables : o # t /\ <<"btable", b, o>> \in cut
        BY <3>2, <3>3, <3>5, <4>2 DEF Crossed
      <4> QED BY <3>5, <4>1, <4>2
    <3> QED BY <3>1, <3>4, <3>5 DEF Excused
  <2> QED BY <1>1, <2>1, <2>2
<1>8. Plain(e) => ~odd /\ ~Wrong
  BY <1>4 DEF Plain, Wrong
<1>9. RefusedForReason'
  BY <1>7, <1>8 DEF RefusedForReason
<1>10. KeyIsId'
  BY <1>4 DEF KeyIsId
<1> QED BY <1>1, <1>3, <1>9, <1>10, EndInv

-----------------------------------------------------------------------------
(* The theorems                                                            *)

\* Every step keeps the invariant.
LEMMA Inductive == ASSUME IInv, [Next]_vars PROVE IInv'
<1>1. CASE UNCHANGED vars
  <2>1. /\ db' = db /\ cache' = cache /\ phase' = phase /\ txn' = txn /\ doc' = doc /\ ask' = ask
        /\ (odd' <=> odd) /\ swap' = swap /\ cut' = cut /\ n' = n /\ last' = last
    BY <1>1 DEF vars
  <2>2. TypeOK' /\ Good(db)' /\ Good(txn)'
    BY <2>1 DEF IInv, TypeOK
  <2>3. AskInv' /\ DeleteInv' /\ KeyInv' /\ ContrInv' /\ DeadInv' /\ LostInv'
    BY <2>1 DEF IInv, AskInv, DeleteInv, KeyInv, ContrInv, DeadInv, LostInv, Clear, Editing
  <2>4. KeyIsId' /\ RefusedForReason'
    BY <2>1 DEF IInv, KeyIsId, RefusedForReason
  <2> QED BY <2>2, <2>3, <2>4 DEF IInv
<1>2. CASE Begin \/ Commit \/ CommitRefused
  BY <1>2, BeginInv, CommitInv, RefusedInv
<1>3. CASE \E p \in Ports : EditPort(p)
  BY <1>3, EditPortInv
<1>4. ASSUME NEW q \in Queues,
             \/ DeleteQueue(q) \/ DeleteQueuePort(q) \/ EditQueueOptions(q)
             \/ \E i \in Ids : EditQueueId(q, i)
             \/ \E i \in Ids, p \in Ports \cup {None} : CreateQueue(q, i, p)
             \/ \E p \in Ports : EditQueuePort(q, p)
      PROVE  IInv'
  BY <1>4, DeleteQueueInv, DeleteQueuePortInv, EditQueueOptionsInv, EditQueueIdInv, CreateQueueInv,
     EditQueuePortInv
<1>5. CASE \E t \in Tables : EditTable(t)
  BY <1>5, EditTableInv
<1>6. ASSUME NEW b \in Bridges,
             \/ DeleteBridge(b) \/ EditBridge(b)
             \/ \E P \in SUBSET Ports, T \in SUBSET Tables : CreateBridge(b, P, T)
             \/ \E p \in Ports : EditBridgePort(b, p)
             \/ \E t \in Tables : EditBridgeTable(b, t)
             \/ \E c \in Ctrls : EditContr(b, c) \/ \E v \in Protocols : EditProtocol(b, c, v)
      PROVE  IInv'
  BY <1>6, DeleteBridgeInv, EditBridgeInv, CreateBridgeInv, EditBridgePortInv, EditBridgeTableInv,
     EditContrInv, EditProtocolInv
<1> QED BY <1>1, <1>2, <1>3, <1>4, <1>5, <1>6 DEF Next

\* The invariant holds in the empty database.
LEMMA Initial == ASSUME Init PROVE IInv
<1>1. Good(db) /\ Good(txn) /\ db.dead = {} /\ db.lost = {} /\ db.fresh = {}
  BY EmptyIsGood DEF Init
<1>2. TypeOK
  BY <1>1, RowsAssumption DEF Init, TypeOK, Good, Refs, Protocols
<1>3. ~Editing /\ last.res = "none" /\ phase = "idle"
  BY DEF Init, Editing, NoEdit
<1> QED BY <1>1, <1>2, <1>3 DEF IInv, AskInv, DeleteInv, KeyInv, ContrInv, DeadInv,
     LostInv, Clear, KeyIsId, RefusedForReason

\* The invariant holds always.
LEMMA Invariant == Spec => []IInv
<1>1. Init => IInv
  BY Initial
<1>2. IInv /\ [Next]_vars => IInv'
  BY Inductive
<1> QED BY <1>1, <1>2, PTL DEF Spec

\* References between rows are kept by every txn_ function, in every order in
\* which an edit calls them, and by OVSDB's garbage collection: they lead to a
\* row or are known to be dead.
THEOREM TypeCorrect == Spec => []TypeOK
<1>1. IInv => TypeOK
  BY DEF IInv
<1> QED BY <1>1, Invariant, PTL

\* An edit that meets no ambiguous names keeps the keys in QoS rows equal to
\* the numbers of the queues (txn_mod_queue_id, txn_add_queue_port).
THEOREM KeysAreIds == Spec => []KeyIsId
<1>1. IInv => KeyIsId
  BY DEF IInv
<1> QED BY <1>1, Invariant, PTL

\* OVSDB refuses no plain edit, unless it deletes two references of a bridge
\* and a row that one of them leads to: else the txn_ functions leave a
\* reference to a deleted row only where the edit keeps the reference.
THEOREM RefusalsExplained == Spec => []RefusedForReason
<1>1. IInv => RefusedForReason
  BY DEF IInv
<1> QED BY <1>1, Invariant, PTL
-----------------------------------------------------------------------------
(* The document that an edit asks for, and the rows                        *)

\* What a document can have.
Elements ==
    {<<"port", p>> : p \in Ports} \cup {<<"table", t>> : t \in Tables}
    \cup {<<"queue", q>> : q \in Queues} \cup ({"qid"} \X Queues \X Ids)
    \cup ({"qport"} \X Queues \X Ports)
    \cup {<<"bridge", b>> : b \in Bridges} \cup ({"bport"} \X Bridges \X Ports)
    \cup ({"btable"} \X Bridges \X Tables) \cup ({"contr"} \X Bridges \X Ctrls)
    \cup ({"proto"} \X Bridges \X Ctrls \X Protocols)

PlaceDoc(r, A) ==
    /\ \A p \in Ports : <<"port", p>> \in A <=> p \in r.port
    /\ \A t \in Tables : <<"table", t>> \in A <=> t \in r.table

\* A document A has the queue as the rows have it.  A port of a queue may be one that
\* the edit has deleted (W).
QueueOf(r, A, W, q) ==
    /\ <<"queue", q>> \in A <=> r.qid[q] # None
    /\ \A i \in Ids : <<"qid", q, i>> \in A <=> r.qid[q] = i
    /\ \A p \in Ports : <<"qport", q, p>> \in A =>
          r.qid[q] # None /\ (<<"port", p>> \in W \/ p \in FindQueuePort(r, q))
    /\ \A p \in FindQueuePort(r, q) : <<"qport", q, p>> \in A
    /\ \A p, o \in Ports : <<"qport", q, p>> \in A /\ <<"qport", q, o>> \in A => p = o

QueueDoc(r, A, W) == \A q \in Queues : QueueOf(r, A, W, q)

\* It has the bridges and no more references than they have, but for those to
\* rows that the edit has deleted.
BridgeDoc(r, A, W) ==
    \A b \in Bridges :
        /\ <<"bridge", b>> \in A <=> b \in r.bridge
        /\ \A p \in Ports : <<"bport", b, p>> \in A =>
              b \in r.bridge /\ (<<"port", p>> \in W \/ p \in r.bp[b])
        /\ \A t \in Tables : <<"btable", b, t>> \in A =>
              b \in r.bridge /\ (<<"table", t>> \in W \/ t \in r.bt[b])

\* The protocol of a controller: where the transaction has written the target,
\* its own, else the one in the IDL's copy c.
Target(r, c, x) == IF x \in r.fresh THEN r.proto[x] ELSE c[x]

ContrOf(r, c, A, b, x) ==
    /\ <<"contr", b, x>> \in A <=> x \in r.bc[b]
    /\ \A v \in Protocols :
          <<"proto", b, x, v>> \in A <=> x \in r.bc[b] /\ Target(r, c, <<b, x>>) = v

ContrDoc(r, c, A) == \A b \in Bridges : \A x \in Ctrls : ContrOf(r, c, A, b, x)

Told(r, c, A, W) ==
    /\ A \subseteq Elements
    /\ PlaceDoc(r, A) /\ QueueDoc(r, A, W) /\ BridgeDoc(r, A, W) /\ ContrDoc(r, c, A)

DocInv == Clear => Told(txn, cache, ask, swap)

\* OVSDB keeps no flow table that no bridge uses.
UsedTables(r) == \A t \in r.table : \E b \in r.bridge : t \in r.bt[b]

RInv ==
    /\ DocInv /\ UsedTables(db) /\ doc \subseteq ask
    /\ Editing => last = NoEdit
    /\ ReadBack

\* The rows s are told by the document when the edit deletes D and creates M.
Tells(s, D, M) == Told(s, cache, (ask \ D) \cup M, swap \cup Swapped(D))

\* An edit that is given up.
LEMMA AbortDoc ==
    ASSUME RInv, TxnAbort, End("failed")
    PROVE  RInv'
BY DEF RInv, TxnAbort, End, Idle, DocInv, Clear, Editing, ReadBack, UsedTables

\* One element.
LEMMA HandleDoc ==
    ASSUME RInv, Editing, NEW R, NEW D, NEW M, Handle(R, D, M),
           \A s \in R : Clear /\ ~Ambiguous(s) => Tells(s, D, M)
    PROVE  RInv'
<1>1. CASE TxnAbort /\ End("failed")
  BY <1>1, AbortDoc
<1>2. ASSUME NEW s \in R, txn' = s, doc' = doc \ D, ask' = (ask \ D) \cup M,
             odd' = (odd \/ Ambiguous(s)), swap' = swap \cup Swapped(D),
             UNCHANGED <<db, cache, last>>
      PROVE  RInv'
  <2>1. DocInv'
    <3> SUFFICES ASSUME Clear' PROVE Told(txn, cache, ask, swap)'
      BY DEF DocInv
    <3>1. Clear /\ ~Ambiguous(s)
      BY <1>2 DEF Clear
    <3>2. Told(s, cache, (ask \ D) \cup M, swap \cup Swapped(D))
      BY <3>1 DEF Tells
    <3>3. Told(txn', cache', ask', swap')
      BY <1>2, <3>2
    <3> QED BY <3>3 DEF Told, PlaceDoc, QueueDoc, QueueOf, BridgeDoc, ContrDoc, ContrOf, Target,
                      FindQueuePort, Pairs
  <2>2. last = NoEdit /\ last' = NoEdit
    BY <1>2 DEF RInv
  <2>3. ReadBack'
    BY <2>2 DEF ReadBack, NoEdit
  <2>4. UsedTables(db)' /\ doc' \subseteq ask'
    BY <1>2 DEF RInv, UsedTables
  <2> QED BY <2>1, <2>2, <2>3, <2>4 DEF RInv
<1> QED BY <1>1, <1>2 DEF Handle, Swapped

-----------------------------------------------------------------------------
(* What an element leaves alone                                            *)

LEMMA PlacesKept ==
    ASSUME NEW r, NEW A, PlaceDoc(r, A), NEW s, s.port = r.port, s.table = r.table,
           NEW D, NEW M, \A d \in D \cup M : d[1] \notin {"port", "table"}
    PROVE  PlaceDoc(s, (A \ D) \cup M)
BY DEF PlaceDoc

LEMMA QueuesKept ==
    ASSUME NEW r, NEW A, NEW W, QueueDoc(r, A, W), NEW s, s.qid = r.qid,
           \A q \in Queues : FindQueuePort(s, q) = FindQueuePort(r, q),
           NEW D, NEW M, \A d \in D \cup M : d[1] \notin QueueKinds, NEW V
    PROVE  QueueDoc(s, (A \ D) \cup M, W \cup V)
<1> DEFINE B == (A \ D) \cup M
<1>1. \A q : <<"queue", q>> \in B <=> <<"queue", q>> \in A
  BY DEF QueueKinds
<1>2. \A q, i : <<"qid", q, i>> \in B <=> <<"qid", q, i>> \in A
  BY DEF QueueKinds
<1>3. \A q, p : <<"qport", q, p>> \in B <=> <<"qport", q, p>> \in A
  BY DEF QueueKinds
<1> HIDE DEF B
<1>4. QueueDoc(s, B, W \cup V)
  BY <1>1, <1>2, <1>3 DEF QueueDoc, QueueOf
<1> QED BY <1>4 DEF B

LEMMA BridgesKept ==
    ASSUME NEW r, NEW A, NEW W, BridgeDoc(r, A, W), NEW s,
           s.bridge = r.bridge, s.bp = r.bp, s.bt = r.bt,
           NEW D, NEW M, \A d \in D \cup M : d[1] \notin {"bridge", "bport", "btable"}, NEW V
    PROVE  BridgeDoc(s, (A \ D) \cup M, W \cup V)
<1> DEFINE B == (A \ D) \cup M
<1>1. \A b : <<"bridge", b>> \in B <=> <<"bridge", b>> \in A
  OBVIOUS
<1>2. \A b, p : <<"bport", b, p>> \in B <=> <<"bport", b, p>> \in A
  OBVIOUS
<1>3. \A b, t : <<"btable", b, t>> \in B <=> <<"btable", b, t>> \in A
  OBVIOUS
<1> HIDE DEF B
<1>4. BridgeDoc(s, B, W \cup V)
  BY <1>1, <1>2, <1>3 DEF BridgeDoc
<1> QED BY <1>4 DEF B

LEMMA ContrsKept ==
    ASSUME NEW r, NEW c, NEW A, ContrDoc(r, c, A), NEW s,
           s.bc = r.bc, s.fresh = r.fresh, s.proto = r.proto,
           NEW D, NEW M, \A d \in D \cup M : d[1] \notin {"contr", "proto"}
    PROVE  ContrDoc(s, c, (A \ D) \cup M)
<1> DEFINE B == (A \ D) \cup M
<1>1. \A b, x : <<"contr", b, x>> \in B <=> <<"contr", b, x>> \in A
  OBVIOUS
<1>2. \A b, x, v : <<"proto", b, x, v>> \in B <=> <<"proto", b, x, v>> \in A
  OBVIOUS
<1> HIDE DEF B
<1>3. \A x : Target(s, c, x) = Target(r, c, x)
  BY DEF Target
<1>4. ContrDoc(s, c, B)
  BY <1>1, <1>2, <1>3 DEF ContrDoc, ContrOf
<1> QED BY <1>4 DEF B

\* The controllers and their targets are the same.
SameTargets(r, s) == s.fresh = r.fresh /\ s.proto = r.proto

\* A change of queues.
LEMMA QueueTold ==
    ASSUME NEW r, NEW c, NEW A, NEW W, Told(r, c, A, W),
           NEW s, SameBridges(r, s), SameTargets(r, s),
           NEW D, NEW M, \A d \in D \cup M : d[1] \in QueueKinds, M \subseteq Elements,
           QueueDoc(s, (A \ D) \cup M, W)
    PROVE  Told(s, c, (A \ D) \cup M, W \cup Swapped(D))
<1>1. Swapped(D) = {}
  BY DEF Swapped, QueueKinds
<1>2. \A d \in D \cup M : d[1] \notin {"port", "table", "bridge", "bport", "btable", "contr", "proto"}
  BY DEF QueueKinds
<1>3. PlaceDoc(s, (A \ D) \cup M)
  BY <1>2, PlacesKept DEF Told, SameBridges
<1>4. BridgeDoc(s, (A \ D) \cup M, W \cup {})
  BY <1>2, BridgesKept DEF Told, SameBridges
<1>5. ContrDoc(s, c, (A \ D) \cup M)
  BY <1>2, ContrsKept DEF Told, SameBridges, SameTargets
<1>6. W \cup {} = W
  OBVIOUS
<1> QED BY <1>1, <1>3, <1>4, <1>5, <1>6 DEF Told

-----------------------------------------------------------------------------
(* Queues: in a clear edit no pair is lost                                 *)

\* SetQueues leaves the targets of controllers alone, and keeps every pair if
\* the keys are the numbers of the queues and the result is not ambiguous.
LEMMA SetQueuesKeeps ==
    ASSUME NEW r \in Rows, NEW k \in QosRows, NEW S \in SUBSET (Ids \X Queues),
           NEW s \in SetQueues(r, k, S)
    PROVE  /\ SameTargets(r, s)
           /\ ~Ambiguous(s) /\ (\A x \in S : x[1] = r.qid[x[2]]) => s.qos[k] = S
<1>1. PICK T \in UniqueKeys(S) : s = [r EXCEPT !.qos[k] = T, !.dead = @ \ Dead(r, "qos", k),
                           !.lost = (@ \ Lost(r, "qos", k)) \cup Dead(r, "qos", k)]
  BY DEF SetQueues
<1>2. s.qos[k] = T /\ s.qid = r.qid /\ SameTargets(r, s) /\ T \subseteq S
  BY <1>1, Survivors DEF Rows, SameTargets
<1>3. ASSUME ~Ambiguous(s), \A x \in S : x[1] = r.qid[x[2]], NEW x \in S PROVE x \in T
  <2>1. PICK y \in T : x[1] = y[1]
    BY DEF UniqueKeys
  <2>2. y \in S /\ x \in Ids \X Queues /\ y \in Ids \X Queues
    BY <1>2
  <2>3. x[1] \in Ids /\ x[1] # None /\ x[2] \in Queues /\ y[2] \in Queues
    BY <2>2, RowsAssumption
  <2>4. s.qid[x[2]] = s.qid[y[2]] /\ s.qid[x[2]] # None
    BY <1>2, <1>3, <2>1, <2>2, <2>3
  <2>5. QosOf(s, y[2]) # {}
    <3>1. y \in Pairs(s, k, y[2])
      BY <1>2 DEF Pairs
    <3> QED BY <3>1 DEF QosOf
  <2>6. x[2] = y[2]
    BY <1>3, <2>3, <2>4, <2>5 DEF Ambiguous
  <2>7. x = y
    BY <2>1, <2>2, <2>6
  <2> QED BY <2>7
<1> QED BY <1>2, <1>3

\* Fewer references are not more ambiguous.
LEMMA LessIsClear ==
    ASSUME NEW r, Good(r), NEW s, Less(r, s), ~Ambiguous(r)
    PROVE  ~Ambiguous(s)
<1>1. s.qid = r.qid /\ s.contr = r.contr
  BY DEF Less, SameBridges
<1>2. \A q \in Queues : QosOf(s, q) \subseteq QosOf(r, q)
  BY DEF Less, QosOf, Pairs
<1>3. \A q \in Queues : ~(Cardinality(QosOf(s, q)) > 1)
  <2> SUFFICES ASSUME NEW q \in Queues PROVE ~(Cardinality(QosOf(s, q)) > 1)
    OBVIOUS
  <2>1. IsFiniteSet(QosOf(r, q))
    BY RowsAssumption, FS_Subset DEF QosOf
  <2>2. IsFiniteSet(QosOf(s, q)) /\ Cardinality(QosOf(s, q)) <= Cardinality(QosOf(r, q))
    BY <1>2, <2>1, FS_Subset
  <2>3. Cardinality(QosOf(r, q)) \in Nat /\ Cardinality(QosOf(s, q)) \in Nat
    BY <2>1, <2>2, FS_CardinalityType
  <2>4. ~(Cardinality(QosOf(r, q)) > 1)
    BY DEF Ambiguous
  <2> QED BY <2>2, <2>3, <2>4
<1> QED BY <1>1, <1>2, <1>3 DEF Ambiguous

\* txn_del_qos_queue removes the pairs of the queue, and only them.
LEMMA DelQosQueueKeeps ==
    ASSUME NEW r, Good(r), ~Ambiguous(r), KeysMatch(r), NEW q \in Queues,
           NEW k \in QosOf(r, q), Dead(r, "qos", k) = {},
           NEW s \in TxnDelQosQueue(r, k, q)
    PROVE  /\ SameTargets(r, s)
           /\ s.qos[k] = r.qos[k] \ Pairs(r, k, q)
<1>1. r \in Rows /\ k \in QosRows /\ Pairs(r, k, q) # {}
  BY DEF Good, QosOf
<1>2. PICK x \in Pairs(r, k, q) : TRUE
  BY <1>1
<1>3. Pairs(r, k, q) = {x}
  <2>1. \A y \in Pairs(r, k, q) : y = x
    BY <1>2, Lone
  <2> QED BY <1>2, <2>1
<1>4. x \in r.qos[k]
  BY <1>2 DEF Pairs
<1>5. CASE Cardinality(r.qos[k]) + Cardinality(Dead(r, "qos", k)) = 1
  <2>1. s = [r EXCEPT !.qos[k] = {}, !.lost = @ \ Lost(r, "qos", k)]
    BY <1>5 DEF TxnDelQosQueue
  <2>2. Cardinality(Dead(r, "qos", k)) = 0
    BY FS_EmptySet
  <2>3. IsFiniteSet(r.qos[k])
    <3> DEFINE f == [y \in r.qos[k] |-> y[2]]
    <3>1. \A y \in r.qos[k] : y \in Ids \X Queues /\ y[1] = r.qid[y[2]]
      BY <1>1, Columns DEF KeysMatch
    <3>2. \A y, z \in r.qos[k] : y[2] = z[2] => y = z
      BY <3>1
    <3>3. f \in Injection(r.qos[k], Queues)
      BY <3>1, <3>2 DEF Injection, IsInjective
    <3> QED BY <3>3, FS_Injection, RowsAssumption
  <2>4. Cardinality(r.qos[k]) = 1
    BY <1>5, <2>2, <2>3, FS_CardinalityType
  <2>5. \E y : r.qos[k] = {y}
    BY <2>3, <2>4, FS_Singleton
  <2>6. r.qos[k] = {x}
    BY <1>4, <2>5
  <2>7. SameTargets(r, s) /\ s.qos[k] = {}
    BY <1>1, <2>1 DEF Rows, SameTargets
  <2> QED BY <1>3, <2>6, <2>7
<1>6. CASE ~(Cardinality(r.qos[k]) + Cardinality(Dead(r, "qos", k)) = 1)
  <2>1. s \in SetQueues(r, k, r.qos[k] \ {x})
    BY <1>3, <1>6 DEF TxnDelQosQueue
  <2>2. r.qos[k] \ {x} \in SUBSET (Ids \X Queues)
    BY <1>1, Columns
  <2>3. SameBridges(r, s) /\ s.pq = r.pq /\ s.qid = r.qid /\ s \in Rows /\ NoMore(r, s)
        /\ s.qos[k] \subseteq r.qos[k] /\ \A j \in QosRows : j # k => s.qos[j] = r.qos[j]
    BY <1>1, <2>1, <2>2, SetQueuesFields
  <2>4. Less(r, s)
    BY <1>1, <2>3 DEF Less
  <2>5. ~Ambiguous(s)
    BY <2>4, LessIsClear
  <2>6. \A y \in r.qos[k] \ {x} : y[1] = r.qid[y[2]]
    BY <1>1 DEF KeysMatch
  <2>7. SameTargets(r, s) /\ s.qos[k] = r.qos[k] \ {x}
    BY <1>1, <2>1, <2>2, <2>5, <2>6, SetQueuesKeeps
  <2> QED BY <1>3, <2>7
<1> QED BY <1>5, <1>6

\* The rows s are r without the queue q.
Without(r, s, q) ==
    /\ SameTargets(r, s)
    /\ \A o \in Queues : o # q => FindQueuePort(s, o) = FindQueuePort(r, o)

\* Rows that lose the pairs of one queue only.
LEMMA LosesQueue ==
    ASSUME NEW r, Good(r), NEW s, s.port = r.port, SameTargets(r, s), NEW q \in Queues,
           \A k \in QosRows : s.qos[k] \subseteq r.qos[k] /\ r.qos[k] \ Pairs(r, k, q) \subseteq s.qos[k],
           \A p \in Ports : \/ s.pq[p] = r.pq[p]
                            \/ s.pq[p] = None /\ (r.pq[p] # None => s.qos[r.pq[p]] = {})
    PROVE  Without(r, s, q)
<1> SUFFICES ASSUME NEW o \in Queues, o # q
             PROVE  FindQueuePort(s, o) = FindQueuePort(r, o)
  BY DEF Without
<1>0. FindQueuePort(s, o) \subseteq Ports /\ FindQueuePort(r, o) \subseteq Ports
  BY Columns DEF Good, FindQueuePort
<1> SUFFICES ASSUME NEW p \in Ports
             PROVE  p \in FindQueuePort(s, o) <=> p \in FindQueuePort(r, o)
  BY <1>0
<1>1. r.pq[p] # None => r.pq[p] \in QosRows
  BY Columns DEF Good
<1>2. ASSUME p \in FindQueuePort(s, o) PROVE p \in FindQueuePort(r, o)
  BY <1>1, <1>2 DEF FindQueuePort, Pairs
<1>3. ASSUME p \in FindQueuePort(r, o) PROVE p \in FindQueuePort(s, o)
  <2>1. r.pq[p] # None /\ p \in r.port /\ r.pq[p] \in QosRows
    BY <1>1, <1>3 DEF FindQueuePort
  <2>2. PICK x \in r.qos[r.pq[p]] : x[2] = o
    BY <1>3 DEF FindQueuePort, Pairs
  <2>3. x \in s.qos[r.pq[p]]
    BY <2>1, <2>2 DEF Pairs
  <2>4. s.pq[p] = r.pq[p]
    BY <2>1, <2>3
  <2> QED BY <2>1, <2>2, <2>3, <2>4 DEF FindQueuePort, Pairs
<1> QED BY <1>2, <1>3

NoDeadQueue(r) == \A k \in QosRows : Dead(r, "qos", k) = {}

\* txn_del_queue_port
LEMMA DelQueuePortKeeps ==
    ASSUME NEW r, Good(r), ~Ambiguous(r), KeysMatch(r), NoDeadQueue(r), NEW q \in Queues,
           NEW s \in TxnDelQueuePort(r, q)
    PROVE  Without(r, s, q)
<1>1. PICK p \in FindQueuePort(r, q) : \E t \in TxnDelQosQueue(r, r.pq[p], q) :
         s = [t EXCEPT !.pq[p] = IF t.qos[r.pq[p]] = {} THEN None ELSE @]
  BY DEF TxnDelQueuePort
<1>2. PICK t \in TxnDelQosQueue(r, r.pq[p], q) :
         s = [t EXCEPT !.pq[p] = IF t.qos[r.pq[p]] = {} THEN None ELSE @]
  BY <1>1
<1> DEFINE k == r.pq[p]
<1>3. r \in Rows /\ p \in Ports /\ k \in QosRows /\ Pairs(r, k, q) # {} /\ k \in QosOf(r, q)
  BY Columns DEF Good, FindQueuePort, QosOf
<1>4. /\ t \in Rows /\ SameBridges(r, t) /\ t.pq = r.pq
      /\ \A j \in QosRows : j # k => t.qos[j] = r.qos[j]
  BY <1>2, <1>3, DelQosQueue
<1>5. SameTargets(r, t) /\ t.qos[k] = r.qos[k] \ Pairs(r, k, q)
  BY <1>2, <1>3, DelQosQueueKeeps DEF NoDeadQueue
<1> HIDE DEF k
<1>6. /\ s.port = r.port /\ SameTargets(r, s) /\ s.qos = t.qos
      /\ s.pq = [r.pq EXCEPT ![p] = IF t.qos[k] = {} THEN None ELSE @]
  BY <1>2, <1>4, <1>5 DEF Rows, SameBridges, SameTargets, k
<1>7. \A j \in QosRows : s.qos[j] \subseteq r.qos[j] /\ r.qos[j] \ Pairs(r, j, q) \subseteq s.qos[j]
  BY <1>4, <1>5, <1>6
<1>8. \A o \in Ports : \/ s.pq[o] = r.pq[o]
                       \/ s.pq[o] = None /\ (r.pq[o] # None => s.qos[r.pq[o]] = {})
  BY <1>3, <1>6, Columns DEF k
<1> QED BY <1>6, <1>7, <1>8, LosesQueue

\* txn_del_queue
LEMMA DelQueueKeeps ==
    ASSUME NEW r, Good(r), ~Ambiguous(r), KeysMatch(r), NoDeadQueue(r), NEW q \in Queues,
           NEW s \in TxnDelQueue(r, q)
    PROVE  Without(r, s, q)
<1>1. ASSUME NEW t, Good(t), SameBridges(r, t), Without(r, t, q), FindQueuePort(t, q) = {},
             s \in TxnDelQueueOnly(t, q)
      PROVE  Without(r, s, q)
  <2>1. /\ Good(s) /\ SameBridges(t, s) /\ s.pq = t.pq
        /\ s.qid = [t.qid EXCEPT ![q] = None]
        /\ \A k \in QosRows : s.qos[k] = t.qos[k] \ Pairs(t, k, q)
        /\ QosOf(t, q) = {} => SameRefs(t, s)
    BY <1>1, DelQueueOnly
  <2>2. SameTargets(t, s)
    BY <1>1 DEF TxnDelQueueOnly, SameTargets, Good, Rows
  <2>3. s.port = t.port
    BY <2>1 DEF SameBridges
  <2>4. Without(t, s, q)
    BY <1>1, <2>1, <2>2, <2>3, LosesQueue
  <2> QED BY <1>1, <2>4 DEF Without, SameTargets
<1>2. CASE FindQueuePort(r, q) # {}
  <2>1. PICK t \in TxnDelQueuePort(r, q) : s \in TxnDelQueueOnly(t, q)
    BY <1>2 DEF TxnDelQueue
  <2>2. Good(t) /\ Less(r, t) /\ FindQueuePort(t, q) = {}
    BY <2>1, DelQueuePort
  <2>3. Without(r, t, q)
    BY <2>1, DelQueuePortKeeps
  <2> QED BY <1>1, <2>1, <2>2, <2>3 DEF Less
<1>3. CASE FindQueuePort(r, q) = {} /\ QosOf(r, q) # {}
  <2>1. PICK k \in QosOf(r, q) : \E t \in TxnDelQosQueue(r, k, q) : s \in TxnDelQueueOnly(t, q)
    BY <1>3 DEF TxnDelQueue
  <2>2. PICK t \in TxnDelQosQueue(r, k, q) : s \in TxnDelQueueOnly(t, q)
    BY <2>1
  <2>3. r \in Rows /\ k \in QosRows /\ Pairs(r, k, q) # {}
    BY DEF Good, QosOf
  <2>4. /\ t \in Rows /\ SameBridges(r, t) /\ t.pq = r.pq /\ t.qid = r.qid /\ NoMore(r, t)
        /\ \A j \in QosRows : j # k => t.qos[j] = r.qos[j]
    BY <2>2, <2>3, DelQosQueue
  <2>5. SameTargets(r, t) /\ t.qos[k] = r.qos[k] \ Pairs(r, k, q)
    BY <2>2, <2>3, DelQosQueueKeeps DEF NoDeadQueue
  <2>6. \A j \in QosRows : t.qos[j] \subseteq r.qos[j] /\ r.qos[j] \ Pairs(r, j, q) \subseteq t.qos[j]
    BY <2>4, <2>5
  <2>7. t.port = r.port /\ \A p \in Ports : t.pq[p] = r.pq[p]
    BY <2>4 DEF SameBridges
  <2>8. Without(r, t, q)
    BY <2>5, <2>6, <2>7, LosesQueue
  <2>9. \A p \in Ports : t.pq[p] # None => t.qos[t.pq[p]] # {}
    <3> SUFFICES ASSUME NEW p \in Ports, r.pq[p] # None PROVE t.qos[r.pq[p]] # {}
      BY <2>7
    <3>1. Pairs(r, r.pq[p], q) = {} /\ r.qos[r.pq[p]] # {} /\ r.pq[p] \in QosRows
      BY <1>3, <2>3, Columns DEF FindQueuePort, Good, Refs
    <3> QED BY <2>6, <3>1
  <2>10. Less(r, t)
    BY <2>4, <2>6, <2>7 DEF Less
  <2>11. Good(t)
    BY <2>9, <2>10, LessIsGood
  <2>12. FindQueuePort(t, q) \subseteq FindQueuePort(r, q)
    BY <2>6, <2>7, FewerPorts
  <2> QED BY <1>1, <1>3, <2>2, <2>4, <2>8, <2>11, <2>12
<1>4. CASE FindQueuePort(r, q) = {} /\ QosOf(r, q) = {}
  <2>1. s \in TxnDelQueueOnly(r, q)
    BY <1>4 DEF TxnDelQueue
  <2> QED BY <1>1, <1>4, <2>1 DEF SameBridges, Without, SameTargets
<1> QED BY <1>2, <1>3, <1>4

\* txn_mod_queue_id: the queues stay at their ports.
LEMMA ModQueueIdKeeps ==
    ASSUME NEW r, Good(r), ~Ambiguous(r), KeysMatch(r), NEW q \in Queues, NEW i \in Ids,
           NEW s \in TxnModQueueId(r, q, i), ~Ambiguous(s)
    PROVE  /\ SameTargets(r, s)
           /\ \A o \in Queues : FindQueuePort(s, o) = FindQueuePort(r, o)
<1> DEFINE t == [r EXCEPT !.qid[q] = i]
<1>1. r \in Rows /\ i # None
  BY RowsAssumption DEF Good
<1>2. /\ t \in Rows /\ SameBridges(r, t) /\ t.pq = r.pq /\ t.qos = r.qos
      /\ t.qid = [r.qid EXCEPT ![q] = i] /\ SameTargets(r, t)
  BY <1>1 DEF Rows, SameBridges, SameTargets
<1>3. r.qid[q] # None
  BY DEF TxnModQueueId
<1>4. CASE QosOf(r, q) = {}
  <2>1. s = t
    BY <1>3, <1>4 DEF TxnModQueueId
  <2> HIDE DEF t
  <2> QED BY <1>2, <2>1 DEF FindQueuePort, Pairs, SameBridges
<1>5. CASE QosOf(r, q) # {}
  <2> DEFINE R(k) == UNION {SetQueues(t, k, (r.qos[k] \ {x}) \cup {<<i, q>>}) :
                              x \in Pairs(r, k, q)}
  <2>0. TxnModQueueId(r, q, i) = UNION {R(k) : k \in QosOf(r, q)}
    BY <1>3, <1>5, Zenon DEF TxnModQueueId
  <2> HIDE DEF t
  <2>1. PICK k \in QosOf(r, q) : \E x \in Pairs(r, k, q) :
           s \in SetQueues(t, k, (r.qos[k] \ {x}) \cup {<<i, q>>})
    <3> HIDE DEF R
    <3>1. PICK k \in QosOf(r, q) : s \in R(k)
      BY <2>0
    <3> QED BY <3>1 DEF R
  <2>2. PICK x \in Pairs(r, k, q) : s \in SetQueues(t, k, (r.qos[k] \ {x}) \cup {<<i, q>>})
    BY <2>1
  <2>3. k \in QosRows /\ x \in r.qos[k] /\ x[2] = q
    BY DEF QosOf, Pairs
  <2> DEFINE S == (r.qos[k] \ {x}) \cup {<<i, q>>}
  <2>4. S \in SUBSET (Ids \X Queues) /\ s \in SetQueues(t, k, S)
    <3>1. s \in SetQueues(t, k, S)
      BY <2>2
    <3>2. S \in SUBSET (Ids \X Queues)
      BY <1>1, <2>3, Columns
    <3> QED BY <3>1, <3>2
  <2>5. \A y \in S : y[1] = t.qid[y[2]]
    <3> SUFFICES ASSUME NEW y \in r.qos[k], y # x PROVE y[1] = t.qid[y[2]]
      BY <1>1, <1>2, Columns
    <3>1. y[2] # q
      <4> SUFFICES ASSUME y[2] = q PROVE FALSE
        OBVIOUS
      <4>1. y \in Pairs(r, k, q)
        BY DEF Pairs
      <4> QED BY <2>1, <2>2, <4>1, Lone
    <3>2. y \in Ids \X Queues /\ y[1] = r.qid[y[2]]
      BY <1>1, <2>3, Columns DEF KeysMatch
    <3> QED BY <1>1, <1>2, <3>1, <3>2, Columns
  <2>6. (r.qos[k] \ {x}) \subseteq S /\ <<i, q>> \in S /\ S \subseteq r.qos[k] \cup {<<i, q>>}
    OBVIOUS
  <2> HIDE DEF S
  <2>7. SameTargets(t, s) /\ s.qos[k] = S
    <3>1. /\ SameTargets(t, s)
          /\ ~Ambiguous(s) /\ (\A y \in S : y[1] = t.qid[y[2]]) => s.qos[k] = S
      <4>1. t \in Rows /\ k \in QosRows
        BY <1>2, <2>3
      <4> QED BY <2>4, <4>1, SetQueuesKeeps
    <3> QED BY <2>5, <3>1
  <2>8. SameBridges(t, s) /\ s.pq = t.pq /\ \A j \in QosRows : j # k => s.qos[j] = t.qos[j]
    BY <1>2, <2>3, <2>4, SetQueuesFields
  <2>9. \A j \in QosRows : \A o \in Queues : Pairs(s, j, o) # {} <=> Pairs(r, j, o) # {}
    <3> SUFFICES ASSUME NEW o \in Queues PROVE Pairs(s, k, o) # {} <=> Pairs(r, k, o) # {}
      BY <1>2, <2>8 DEF Pairs
    <3>1. CASE o = q
      <4>1. <<i, q>> \in Pairs(s, k, q)
        BY <2>6, <2>7 DEF Pairs
      <4> QED BY <2>2, <3>1, <4>1
    <3>2. CASE o # q
      BY <2>3, <2>6, <2>7, <3>2 DEF Pairs
    <3> QED BY <3>1, <3>2
  <2>10. s.port = r.port /\ s.pq = r.pq /\ SameTargets(r, s)
    BY <1>2, <2>7, <2>8 DEF SameBridges, SameTargets
  <2>11. \A p \in Ports : r.pq[p] # None => r.pq[p] \in QosRows
    BY <1>1, Columns
  <2>12. r.port \subseteq Ports
    BY <1>1, Columns
  <2> QED BY <2>9, <2>10, <2>11, <2>12 DEF FindQueuePort
<1> QED BY <1>4, <1>5

\* txn_add_queue_port: the queue is at the port, the others stay.
LEMMA AddQueuePortKeeps ==
    ASSUME NEW r, Good(r), KeysMatch(r), NEW q \in Queues, NEW p \in Ports,
           FindQueuePort(r, q) = {}, FreeQos(r) # {},
           NEW s \in TxnAddQueuePort(r, q, p), ~Ambiguous(s)
    PROVE  Without(r, s, q) /\ FindQueuePort(s, q) = {p}
<1>1. r \in Rows /\ r.qid[q] # None /\ p \in r.port /\ r.qid[q] \in Ids
  BY Columns DEF TxnAddQueuePort, Good
<1> DEFINE x == <<r.qid[q], q>>
<1>2. x \in Ids \X Queues /\ x[1] = r.qid[q] /\ x[2] = q
  BY <1>1
<1>3. \E k \in QosRows :
         /\ SameTargets(r, s) /\ s.port = r.port
         /\ s.qos = [r.qos EXCEPT ![k] = r.qos[k] \cup {x}]
         /\ s.pq = [r.pq EXCEPT ![p] = k]
         /\ r.pq[p] \in {k, None}
  <2>1. CASE r.pq[p] = None
    <3> DEFINE k == CHOOSE y \in FreeQos(r) : TRUE
    <3>1. k \in FreeQos(r)
      OBVIOUS
    <3>2. s = [r EXCEPT !.qos[k] = {x}, !.pq[p] = k]
      BY <1>1, <2>1 DEF TxnAddQueuePort
    <3> HIDE DEF k, x
    <3>3. k \in QosRows /\ r.qos[k] = {}
      BY <3>1 DEF FreeQos
    <3>4. s.qos = [r.qos EXCEPT ![k] = {x}] /\ s.pq = [r.pq EXCEPT ![p] = k]
          /\ s.port = r.port /\ SameTargets(r, s)
      BY <1>1, <3>2, <3>3 DEF Rows, SameTargets
    <3>5. r.qos[k] \cup {x} = {x}
      BY <3>3
    <3> QED BY <2>1, <3>3, <3>4, <3>5
  <2>2. CASE r.pq[p] # None
    <3> DEFINE k == r.pq[p]
               S == r.qos[k] \cup {x}
    <3>1. s \in SetQueues(r, k, S)
      BY <1>1, <2>2 DEF TxnAddQueuePort
    <3>2. k \in QosRows /\ S \in SUBSET (Ids \X Queues)
      BY <1>1, <1>2, <2>2, Columns
    <3>3. \A y \in S : y[1] = r.qid[y[2]]
      BY <1>2, <3>2 DEF KeysMatch
    <3> HIDE DEF S, k, x
    <3>4. SameTargets(r, s) /\ s.qos[k] = S
      BY <1>1, <3>1, <3>2, <3>3, SetQueuesKeeps
    <3>5. s \in Rows /\ SameBridges(r, s) /\ s.pq = r.pq /\ \A j \in QosRows : j # k => s.qos[j] = r.qos[j]
      BY <1>1, <3>1, <3>2, SetQueuesFields
    <3>6. s.qos = [r.qos EXCEPT ![k] = S]
      BY <1>1, <3>2, <3>4, <3>5, Columns
    <3>7. s.pq = [r.pq EXCEPT ![p] = k]
      BY <1>1, <3>5, Columns DEF k
    <3> QED BY <3>2, <3>4, <3>5, <3>6, <3>7 DEF S, k, SameBridges
  <2> QED BY <2>1, <2>2
<1> HIDE DEF x
<1>4. PICK k \in QosRows :
         /\ SameTargets(r, s) /\ s.port = r.port
         /\ s.qos = [r.qos EXCEPT ![k] = r.qos[k] \cup {x}]
         /\ s.pq = [r.pq EXCEPT ![p] = k]
         /\ r.pq[p] \in {k, None}
  BY <1>3
<1>5. r.port \subseteq Ports /\ None \notin QosRows /\ \A o \in Ports : r.pq[o] \in QosRows \cup {None}
  BY <1>1, RowsAssumption, Columns
<1>6. /\ s.pq[p] = k /\ \A o \in Ports : o # p => s.pq[o] = r.pq[o]
      /\ s.qos[k] = r.qos[k] \cup {x}
      /\ \A j \in QosRows : j # k => s.qos[j] = r.qos[j]
  BY <1>1, <1>4, <1>5, Columns
<1>7. \A o \in Ports : s.pq[o] = k => o = p
  BY <1>5, <1>6, AddQueuePort DEF Good, OwnQos
<1>8. FindQueuePort(s, q) = {p}
  <2>1. x \in Pairs(s, k, q)
    BY <1>2, <1>6 DEF Pairs
  <2>2. p \in FindQueuePort(s, q)
    BY <1>1, <1>4, <1>5, <1>6, <2>1 DEF FindQueuePort
  <2>3. ASSUME NEW o \in FindQueuePort(s, q), o # p PROVE FALSE
    <3>1. o \in Ports /\ o \in r.port /\ s.pq[o] # None /\ Pairs(s, s.pq[o], q) # {}
      BY <1>4, <1>5 DEF FindQueuePort
    <3>2. s.pq[o] = r.pq[o] /\ s.pq[o] # k /\ s.pq[o] \in QosRows
      BY <1>5, <1>6, <1>7, <2>3, <3>1
    <3>3. Pairs(r, r.pq[o], q) # {}
      BY <1>6, <3>1, <3>2 DEF Pairs
    <3> QED BY <3>1, <3>2, <3>3 DEF FindQueuePort
  <2> QED BY <2>2, <2>3
<1>9. ASSUME NEW o \in Queues, o # q PROVE FindQueuePort(s, o) = FindQueuePort(r, o)
  <2>1. \A j \in QosRows : Pairs(s, j, o) = Pairs(r, j, o)
    BY <1>2, <1>6, <1>9 DEF Pairs
  <2>2. ASSUME NEW a \in Ports PROVE a \in FindQueuePort(s, o) <=> a \in FindQueuePort(r, o)
    <3>1. CASE a # p
      BY <1>4, <1>5, <1>6, <2>1, <3>1 DEF FindQueuePort
    <3>2. CASE a = p /\ r.pq[p] = k
      BY <1>4, <1>5, <1>6, <2>1, <3>2 DEF FindQueuePort
    <3>3. CASE a = p /\ r.pq[p] = None
      <4>1. p \notin FindQueuePort(r, o)
        BY <3>3 DEF FindQueuePort
      <4>2. FindQueuePort(s, o) \subseteq FindQueuePort(r, o)
        BY <1>9, AddQueuePort
      <4> QED BY <3>3, <4>1, <4>2
    <3> QED BY <1>4, <3>1, <3>2, <3>3
  <2>3. FindQueuePort(s, o) \subseteq Ports /\ FindQueuePort(r, o) \subseteq Ports
    BY <1>4, <1>5 DEF FindQueuePort
  <2> QED BY <2>2, <2>3
<1> QED BY <1>4, <1>8, <1>9 DEF Without

\* txn_add_queue
LEMMA AddQueueKeeps ==
    ASSUME NEW r, Good(r), KeysMatch(r), NEW q \in Queues, NEW i \in Ids,
           NEW port \in Ports \cup {None}, r.qid[q] = None, FreeQos(r) # {},
           NEW s \in TxnAddQueue(r, q, i, port), ~Ambiguous(s)
    PROVE  Without(r, s, q) /\ FindQueuePort(s, q) = IF port = None THEN {} ELSE {port}
<1> DEFINE t == [r EXCEPT !.qid[q] = i]
<1>1. r \in Rows /\ i # None /\ QosOf(r, q) = {} /\ FindQueuePort(r, q) = {}
  BY RowsAssumption, NoQueue DEF Good
<1>2. /\ t \in Rows /\ SameBridges(r, t) /\ t.pq = r.pq /\ SameRefs(r, t) /\ t.qos = r.qos
      /\ t.qid = [r.qid EXCEPT ![q] = i] /\ SameTargets(r, t)
  BY <1>1 DEF Rows, SameBridges, SameTargets, SameRefs
<1>3. PICK u \in TxnModQueueId(t, q, i) :
         IF port = None THEN s = u ELSE s \in TxnAddQueuePort(u, q, port)
  BY DEF TxnAddQueue
<1> HIDE DEF t
<1>4. Good(t)
  <2>1. \A k \in QosRows : \A x \in t.qos[k] : t.qid[x[2]] # None
    BY <1>1, <1>2, Columns DEF Good, Refs
  <2>2. GoodQueues(t)
    BY <1>2, <2>1 DEF Good, GoodQueues, Refs, OwnQos, OnePlace, SameBridges
  <2> QED BY <1>2, <2>2, QueueChange
<1>5. QosOf(t, q) = {}
  BY <1>1, <1>2 DEF QosOf, Pairs
<1>6. /\ Good(u) /\ SameBridges(t, u) /\ u.pq = t.pq
      /\ u.qid = [t.qid EXCEPT ![q] = i] /\ u.qos = t.qos /\ SameRefs(t, u)
  BY <1>3, <1>4, <1>5, ModQueueId
<1>7. u.qid = [r.qid EXCEPT ![q] = i] /\ u.qid[q] = i
  BY <1>1, <1>2, <1>6, Columns
<1>8. SameTargets(r, u)
  <2>1. t.qid[q] = i /\ t.qid[q] # None
    BY <1>1, <1>2, Columns
  <2>2. u = [t EXCEPT !.qid[q] = i]
    BY <1>3, <1>5, <2>1 DEF TxnModQueueId
  <2> QED BY <1>2, <2>2 DEF Rows, SameTargets
<1>9. FreeQos(u) # {} /\ FindQueuePort(u, q) = {}
  BY <1>1, <1>2, <1>6 DEF FreeQos, Dead, Lost, SameRefs, FindQueuePort, Pairs, SameBridges
<1>10. \A o \in Queues : FindQueuePort(u, o) = FindQueuePort(r, o)
  BY <1>2, <1>6 DEF FindQueuePort, Pairs, SameBridges
<1>11. CASE port = None
  BY <1>3, <1>8, <1>9, <1>10, <1>11 DEF Without
<1>12. CASE port # None
  <2>1. port \in Ports /\ s \in TxnAddQueuePort(u, q, port)
    BY <1>3, <1>12
  <2>2. KeysMatch(u)
    <3> SUFFICES ASSUME NEW k \in QosRows, NEW x \in r.qos[k] PROVE x[1] = u.qid[x[2]]
      BY <1>2, <1>6 DEF KeysMatch
    <3>1. x \in Ids \X Queues /\ x[1] = r.qid[x[2]] /\ x[2] # q
      BY <1>1, Columns DEF KeysMatch, QosOf, Pairs
    <3> QED BY <1>1, <1>7, <3>1, Columns
  <2>3. Without(u, s, q) /\ FindQueuePort(s, q) = {port}
    <3>1. Good(u) /\ FindQueuePort(u, q) = {} /\ FreeQos(u) # {}
      BY <1>6, <1>9
    <3> QED BY <2>1, <2>2, <3>1, AddQueuePortKeeps
  <2> QED BY <1>8, <1>10, <1>12, <2>3 DEF Without, SameTargets
<1> QED BY <1>11, <1>12

-----------------------------------------------------------------------------
(* Queues in a clear edit                                                  *)

\* What holds of the rows in a clear edit.
LEMMA ClearRows ==
    ASSUME IInv, RInv, Clear
    PROVE  /\ Good(txn) /\ ~Ambiguous(txn) /\ KeysMatch(txn) /\ NoDeadQueue(txn)
           /\ Told(txn, cache, ask, swap) /\ doc \subseteq ask
           /\ AskedBridges(txn, ask)
           /\ phase = "delete" => ask = doc
<1>1. NoDeadQueue(txn)
  <2> SUFFICES ASSUME NEW d \in txn.dead, d[1] = "qos" PROVE FALSE
    BY DEF NoDeadQueue, Dead
  <2>1. \/ \E b \in txn.bridge, p \in Ports : d = <<"bp", b, p>>
        \/ \E b \in txn.bridge, t \in Tables : d = <<"bt", b, t>>
    BY DeadOfBridge
  <2> QED BY <2>1
<1> QED BY <1>1 DEF IInv, RInv, Clear, KeyInv, DocInv, AskInv, DeleteInv

\* Elements of the queue q.
Named(D, q) == \A d \in D : d[1] \in QueueKinds /\ d[2] = q

\* The queue q changes, the others stay.
LEMMA OneQueue ==
    ASSUME IInv, RInv, Clear, NEW s, SameBridges(txn, s), NEW q \in Queues, Without(txn, s, q),
           \A o \in Queues : o # q => s.qid[o] = txn.qid[o],
           NEW D, NEW M, Named(D, q), Named(M, q), M \subseteq Elements,
           QueueOf(s, (ask \ D) \cup M, swap, q)
    PROVE  Tells(s, D, M)
<1> DEFINE B == (ask \ D) \cup M
<1>1. \A d \in D \cup M : d[1] \in QueueKinds /\ d[2] = q
  BY DEF Named
<1>2. \A o : o # q => (<<"queue", o>> \in B <=> <<"queue", o>> \in ask)
  BY <1>1
<1>3. \A o, i : o # q => (<<"qid", o, i>> \in B <=> <<"qid", o, i>> \in ask)
  BY <1>1
<1>4. \A o, p : o # q => (<<"qport", o, p>> \in B <=> <<"qport", o, p>> \in ask)
  BY <1>1
<1>5. Told(txn, cache, ask, swap)
  BY ClearRows
<1> HIDE DEF B
<1>6. ASSUME NEW o \in Queues, o # q PROVE QueueOf(s, B, swap, o)
  <2>1. QueueOf(txn, ask, swap, o)
    BY <1>5 DEF Told, QueueDoc
  <2>2. s.qid[o] = txn.qid[o] /\ FindQueuePort(s, o) = FindQueuePort(txn, o)
    BY <1>6 DEF Without
  <2> QED BY <1>2, <1>3, <1>4, <1>6, <2>1, <2>2 DEF QueueOf
<1>7. QueueDoc(s, B, swap)
  BY <1>6 DEF QueueDoc, B
<1> QED BY <1>1, <1>5, <1>7, QueueTold DEF Tells, B, Without

\* The elements of a queue in the document.
LEMMA NodeOfQueue ==
    ASSUME NEW q
    PROVE  /\ Named(QueueNode(q), q)
           /\ \A e \in doc : e[1] \in QueueKinds /\ e[2] = q => e \in QueueNode(q)
           /\ \A k \in QueueKinds : Named(Of(k, q), q)
BY DEF QueueNode, Of, Named, QueueKinds

\* txn_del_queue in an edit.
LEMMA DeleteQueueDoc ==
    ASSUME IInv, RInv, NEW q \in Queues, DeleteQueue(q)
    PROVE  RInv'
<1> DEFINE D == QueueNode(q)
<1>1. phase = "delete" /\ Editing /\ Handle(TxnDelQueue(txn, q), D, {})
  BY DEF DeleteQueue, Delete, Editing
<1>2. ASSUME NEW s \in TxnDelQueue(txn, q), Clear PROVE Tells(s, D, {})
  <2>1. /\ Good(txn) /\ ~Ambiguous(txn) /\ KeysMatch(txn) /\ NoDeadQueue(txn)
        /\ ask = doc
    BY <1>1, <1>2, ClearRows
  <2>2. Without(txn, s, q)
    BY <1>2, <2>1, DelQueueKeeps
  <2>3. /\ Good(s) /\ SameBridges(txn, s)
        /\ \A o \in Queues : s.qid[o] = IF o = q THEN None ELSE txn.qid[o]
        /\ \A k \in QosRows : Pairs(s, k, q) = {}
    BY <1>2, <2>1, DelQueue
  <2>4. FindQueuePort(s, q) = {}
    BY <2>3, Columns DEF FindQueuePort, Good
  <2> DEFINE B == (ask \ D) \cup {}
  <2>5. /\ Named(D, q)
        /\ \A e \in doc : e[1] \in QueueKinds /\ e[2] = q => e \in D
    BY NodeOfQueue
  <2>6. <<"queue", q>> \notin B
    BY <2>1, <2>5 DEF QueueKinds
  <2>7. \A i : <<"qid", q, i>> \notin B
    BY <2>1, <2>5 DEF QueueKinds
  <2>8. \A p : <<"qport", q, p>> \notin B
    BY <2>1, <2>5 DEF QueueKinds
  <2> HIDE DEF B, D
  <2>9. s.qid[q] = None /\ None \notin Ids /\ \A o \in Queues : o # q => s.qid[o] = txn.qid[o]
    BY <2>3, RowsAssumption
  <2>10. QueueOf(s, B, swap, q)
    BY <2>4, <2>6, <2>7, <2>8, <2>9 DEF QueueOf
  <2>11. QueueOf(s, (ask \ D) \cup {}, swap, q) /\ Named({}, q) /\ {} \subseteq Elements
    BY <2>10 DEF B, Named
  <2> QED BY <1>2, <2>2, <2>3, <2>5, <2>9, <2>11, OneQueue
<1> HIDE DEF D
<1> QED BY <1>1, <1>2, HandleDoc

\* txn_del_queue_port in an edit.
LEMMA DeleteQueuePortDoc ==
    ASSUME IInv, RInv, NEW q \in Queues, DeleteQueuePort(q)
    PROVE  RInv'
<1> DEFINE D == Of("qport", q)
<1>1. phase = "delete" /\ Editing /\ Handle(TxnDelQueuePort(txn, q), D, {})
  BY DEF DeleteQueuePort, Delete, Editing
<1>2. ASSUME NEW s \in TxnDelQueuePort(txn, q), Clear PROVE Tells(s, D, {})
  <2>1. /\ Good(txn) /\ ~Ambiguous(txn) /\ KeysMatch(txn) /\ NoDeadQueue(txn)
        /\ ask = doc /\ Told(txn, cache, ask, swap)
    BY <1>1, <1>2, ClearRows
  <2>2. Without(txn, s, q)
    BY <1>2, <2>1, DelQueuePortKeeps
  <2>3. Good(s) /\ SameBridges(txn, s) /\ s.qid = txn.qid /\ FindQueuePort(s, q) = {}
    BY <1>2, <2>1, DelQueuePort DEF Less
  <2> DEFINE B == (ask \ D) \cup {}
  <2>4. Named(D, q) /\ Named({}, q)
    BY NodeOfQueue DEF QueueKinds, Named
  <2>5. <<"queue", q>> \in B <=> <<"queue", q>> \in ask
    BY DEF Of
  <2>6. \A i : <<"qid", q, i>> \in B <=> <<"qid", q, i>> \in ask
    BY DEF Of
  <2>7. \A p : <<"qport", q, p>> \notin B
    BY <2>1 DEF Of
  <2>8. QueueOf(txn, ask, swap, q)
    BY <2>1 DEF Told, QueueDoc
  <2> HIDE DEF B, D
  <2>9. QueueOf(s, B, swap, q)
    BY <2>3, <2>5, <2>6, <2>7, <2>8 DEF QueueOf
  <2>10. QueueOf(s, (ask \ D) \cup {}, swap, q)
    BY <2>9 DEF B
  <2> QED BY <1>2, <2>2, <2>3, <2>4, <2>10, OneQueue
<1> HIDE DEF D
<1> QED BY <1>1, <1>2, HandleDoc

\* The shape of an element.
LEMMA Shape ==
    ASSUME NEW d \in Elements
    PROVE  \/ \E p \in Ports : d = <<"port", p>>
           \/ \E t \in Tables : d = <<"table", t>>
           \/ \E q \in Queues : d = <<"queue", q>>
           \/ \E q \in Queues, i \in Ids : d = <<"qid", q, i>>
           \/ \E q \in Queues, p \in Ports : d = <<"qport", q, p>>
           \/ \E b \in Bridges : d = <<"bridge", b>>
           \/ \E b \in Bridges, p \in Ports : d = <<"bport", b, p>>
           \/ \E b \in Bridges, t \in Tables : d = <<"btable", b, t>>
           \/ \E b \in Bridges, x \in Ctrls : d = <<"contr", b, x>>
           \/ \E b \in Bridges, x \in Ctrls, v \in Protocols : d = <<"proto", b, x, v>>
<1>1. CASE d \in {"qid"} \X Queues \X Ids
  BY <1>1
<1>2. CASE d \in {"qport"} \X Queues \X Ports
  BY <1>2
<1>3. CASE d \in {"bport"} \X Bridges \X Ports
  BY <1>3
<1>4. CASE d \in {"btable"} \X Bridges \X Tables
  BY <1>4
<1>5. CASE d \in {"contr"} \X Bridges \X Ctrls
  BY <1>5
<1>6. CASE d \in {"proto"} \X Bridges \X Ctrls \X Protocols
  BY <1>6
<1>7. CASE \/ \E p \in Ports : d = <<"port", p>>
           \/ \E t \in Tables : d = <<"table", t>>
           \/ \E q \in Queues : d = <<"queue", q>>
           \/ \E b \in Bridges : d = <<"bridge", b>>
  BY <1>7
<1> QED BY <1>1, <1>2, <1>3, <1>4, <1>5, <1>6, <1>7 DEF Elements

\* The number and the port of a queue in a clear edit.
LEMMA LeavesOfQueue ==
    ASSUME IInv, RInv, Clear, NEW q \in Queues
    PROVE  /\ \A d \in Of("qid", q) : \A i \in Ids :
                 <<"qid", q, i>> \in ask => <<"qid", q, i>> = d
           /\ \A d \in Of("qport", q) : \A p \in Ports :
                 <<"qport", q, p>> \in ask => <<"qport", q, p>> = d
<1>1. Told(txn, cache, ask, swap) /\ doc \subseteq ask
  BY ClearRows
<1>2. doc \subseteq Elements /\ QueueOf(txn, ask, swap, q)
  BY <1>1 DEF Told, QueueDoc
<1>3. ASSUME NEW d \in Of("qid", q), NEW i \in Ids, <<"qid", q, i>> \in ask
      PROVE  <<"qid", q, i>> = d
  <2>1. d \in doc /\ d[1] = "qid" /\ d[2] = q
    BY DEF Of
  <2>2. d \in Elements
    BY <1>2, <2>1
  <2>3. PICK j \in Ids : d = <<"qid", q, j>>
    BY <2>1, <2>2, Shape
  <2>4. <<"qid", q, j>> \in ask
    BY <1>1, <2>1, <2>3
  <2>5. txn.qid[q] = i /\ txn.qid[q] = j
    BY <1>2, <1>3, <2>4 DEF QueueOf
  <2> QED BY <2>3, <2>5
<1>4. ASSUME NEW d \in Of("qport", q), NEW p \in Ports, <<"qport", q, p>> \in ask
      PROVE  <<"qport", q, p>> = d
  <2>1. d \in doc /\ d[1] = "qport" /\ d[2] = q
    BY DEF Of
  <2>2. d \in Elements
    BY <1>2, <2>1
  <2>3. PICK o \in Ports : d = <<"qport", q, o>>
    BY <2>1, <2>2, Shape
  <2>4. <<"qport", q, o>> \in ask
    BY <1>1, <2>1, <2>3
  <2>5. p = o
    BY <1>2, <1>4, <2>4 DEF QueueOf
  <2> QED BY <2>3, <2>5
<1> QED BY <1>3, <1>4

\* txn_add_queue_port in an edit, for the rows r that have the queue at no port.
LEMMA LinkedDoc ==
    ASSUME IInv, RInv, Clear, NEW q \in Queues, NEW p \in Ports, NEW r, Good(r),
           SameBridges(txn, r), r.qid = txn.qid, Without(txn, r, q), KeysMatch(r),
           FindQueuePort(r, q) = {}, FreeQos(r) # {},
           NEW s \in TxnAddQueuePort(r, q, p), ~Ambiguous(s), NEW D, Named(D, q),
           \A d \in D : d[1] = "qport",
           \A o \in Ports : <<"qport", q, o>> \in ask => <<"qport", q, o>> \in D
    PROVE  Tells(s, D, {<<"qport", q, p>>})
<1>1. Without(r, s, q) /\ FindQueuePort(s, q) = {p}
  BY AddQueuePortKeeps
<1>2. SameBridges(r, s) /\ s.qid = r.qid /\ r.qid[q] # None
  BY AddQueuePort
<1>3. SameBridges(txn, s) /\ Without(txn, s, q) /\ s.qid = txn.qid /\ txn.qid[q] # None
  BY <1>1, <1>2 DEF SameBridges, Without, SameTargets
<1> DEFINE M == {<<"qport", q, p>>}
           B == (ask \ D) \cup M
<1>4. Named(M, q) /\ M \subseteq Elements
  BY DEF Named, QueueKinds, Elements
<1>5. <<"queue", q>> \in B <=> <<"queue", q>> \in ask
  OBVIOUS
<1>6. \A i : <<"qid", q, i>> \in B <=> <<"qid", q, i>> \in ask
  OBVIOUS
<1>7. \A o \in Ports : <<"qport", q, o>> \in B <=> o = p
  OBVIOUS
<1>8. QueueOf(txn, ask, swap, q)
  BY ClearRows DEF Told, QueueDoc
<1> HIDE DEF B
<1>9. QueueOf(s, B, swap, q)
  BY <1>1, <1>3, <1>5, <1>6, <1>7, <1>8 DEF QueueOf
<1> HIDE DEF M
<1>10. QueueOf(s, (ask \ D) \cup M, swap, q)
  BY <1>9 DEF B
<1>11. \A o \in Queues : o # q => s.qid[o] = txn.qid[o]
  BY <1>3
<1>12. Tells(s, D, M)
  BY <1>3, <1>4, <1>10, <1>11, OneQueue
<1> QED BY <1>12 DEF M

\* A queue gets a port, or another one.
LEMMA EditQueuePortDoc ==
    ASSUME IInv, RInv, NEW q \in Queues, NEW p \in Ports, EditQueuePort(q, p)
    PROVE  RInv'
<1> DEFINE M == {<<"qport", q, p>>}
           D == Of("qport", q)
<1>0. Editing /\ FreeQos(txn) # {}
  BY DEF EditQueuePort, Write
<1>1. CASE /\ {a \in ask : a[1] = "qport" /\ a[2] = q} = {}
           /\ Handle(TxnAddQueuePort(txn, q, p), {}, M)
  <2>1. \A o \in Ports : <<"qport", q, o>> \notin ask
    BY <1>1
  <2>2. ASSUME NEW s \in TxnAddQueuePort(txn, q, p), Clear, ~Ambiguous(s)
        PROVE  Tells(s, {}, M)
    <3>1. Good(txn) /\ KeysMatch(txn) /\ QueueOf(txn, ask, swap, q)
      BY <2>2, ClearRows DEF Told, QueueDoc
    <3>2. FindQueuePort(txn, q) = {}
      BY <2>1, <3>1, Columns DEF QueueOf, FindQueuePort, Good
    <3>3. SameBridges(txn, txn) /\ Without(txn, txn, q) /\ Named({}, q)
      BY DEF SameBridges, Without, SameTargets, Named
    <3> QED BY <1>0, <2>1, <2>2, <3>1, <3>2, <3>3, LinkedDoc
  <2> HIDE DEF M
  <2> QED BY <1>0, <1>1, <2>2, HandleDoc
<1>2. CASE /\ D # {}
           /\ Handle(UNION {TxnAddQueuePort(r, q, p) : r \in TxnDelQueuePort(txn, q)}, D, M)
  <2>1. ASSUME NEW r \in TxnDelQueuePort(txn, q), NEW s \in TxnAddQueuePort(r, q, p),
               Clear, ~Ambiguous(s)
        PROVE  Tells(s, D, M)
    <3>1. /\ Good(r) /\ SameBridges(txn, r) /\ r.qid = txn.qid
          /\ FindQueuePort(r, q) = {} /\ FreeQos(r) # {} /\ KeysMatch(r)
      BY <1>0, <2>1, Unlinked
    <3>2. Without(txn, r, q)
      BY <2>1, ClearRows, DelQueuePortKeeps
    <3>3. Named(D, q) /\ \A d \in D : d[1] = "qport"
      BY NodeOfQueue DEF QueueKinds, Of
    <3>4. \A o \in Ports : <<"qport", q, o>> \in ask => <<"qport", q, o>> \in D
      BY <1>2, <2>1, LeavesOfQueue
    <3> QED BY <2>1, <3>1, <3>2, <3>3, <3>4, LinkedDoc
  <2> HIDE DEF M, D
  <2>2. \A s \in UNION {TxnAddQueuePort(r, q, p) : r \in TxnDelQueuePort(txn, q)} :
           Clear /\ ~Ambiguous(s) => Tells(s, D, M)
    BY <2>1
  <2> QED BY <1>0, <1>2, <2>2, HandleDoc
<1> QED BY <1>1, <1>2 DEF EditQueuePort, Write

\* txn_add_queue in an edit.
LEMMA CreateQueueDoc ==
    ASSUME IInv, RInv, NEW q \in Queues, NEW i \in Ids, NEW port \in Ports \cup {None},
           CreateQueue(q, i, port)
    PROVE  RInv'
<1> DEFINE P == IF port = None THEN {} ELSE {<<"qport", q, port>>}
           M == {<<"queue", q>>, <<"qid", q, i>>} \cup P
<1>1. /\ Editing /\ FreeQos(txn) # {} /\ <<"queue", q>> \notin ask
      /\ Handle(TxnAddQueue(txn, q, i, port), {}, M)
  BY DEF CreateQueue, Write
<1>2. ASSUME NEW s \in TxnAddQueue(txn, q, i, port), Clear, ~Ambiguous(s) PROVE Tells(s, {}, M)
  <2>1. Good(txn) /\ KeysMatch(txn) /\ QueueOf(txn, ask, swap, q)
    BY <1>2, ClearRows DEF Told, QueueDoc
  <2>2. txn.qid[q] = None /\ None \notin Ids /\ None \notin Ports /\ i # None
    BY <1>1, <2>1, RowsAssumption DEF QueueOf
  <2>3. Without(txn, s, q) /\ FindQueuePort(s, q) = IF port = None THEN {} ELSE {port}
    BY <1>1, <1>2, <2>1, <2>2, AddQueueKeeps
  <2>4. SameBridges(txn, s) /\ s.qid = [txn.qid EXCEPT ![q] = i]
    BY <1>1, <1>2, <2>1, <2>2, AddQueue
  <2>5. s.qid[q] = i /\ \A o \in Queues : o # q => s.qid[o] = txn.qid[o]
    BY <2>1, <2>4, Columns DEF Good
  <2> DEFINE B == (ask \ {}) \cup M
  <2>6. Named(M, q) /\ M \subseteq Elements /\ Named({}, q)
    <3>1. Named(M, q) /\ Named({}, q)
      BY DEF Named, QueueKinds
    <3>2. <<"queue", q>> \in Elements
      BY DEF Elements
    <3>3. <<"qid", q, i>> \in Elements
      BY DEF Elements
    <3>4. port # None => <<"qport", q, port>> \in Elements
      BY DEF Elements
    <3> QED BY <3>1, <3>2, <3>3, <3>4
  <2>7. <<"queue", q>> \in B
    OBVIOUS
  <2>8. \A j \in Ids : <<"qid", q, j>> \in B <=> j = i
    <3>1. \A j \in Ids : <<"qid", q, j>> \notin ask
      BY <2>1, <2>2 DEF QueueOf
    <3>2. \A j \in Ids : <<"qid", q, j>> \in M <=> j = i
      OBVIOUS
    <3> HIDE DEF M
    <3> QED BY <3>1, <3>2
  <2>9. \A o \in Ports : <<"qport", q, o>> \in B <=> o \in FindQueuePort(s, q)
    <3>1. \A o \in Ports : <<"qport", q, o>> \notin ask
      BY <2>1, <2>2 DEF QueueOf
    <3>2. \A o \in Ports : <<"qport", q, o>> \in M <=> <<"qport", q, o>> \in P
      OBVIOUS
    <3>3. \A o \in Ports : <<"qport", q, o>> \in P <=> port # None /\ o = port
      OBVIOUS
    <3>4. \A o \in Ports : <<"qport", q, o>> \in B <=> port # None /\ o = port
      <4> HIDE DEF M, P
      <4> QED BY <3>1, <3>2, <3>3
    <3> HIDE DEF B
    <3> QED BY <2>3, <3>4
  <2> HIDE DEF B
  <2>10. FindQueuePort(s, q) \subseteq Ports /\ \A o, a \in FindQueuePort(s, q) : o = a
    BY <2>3
  <2>11. QueueOf(s, B, swap, q)
    BY <2>2, <2>5, <2>7, <2>8, <2>9, <2>10 DEF QueueOf
  <2> HIDE DEF M
  <2>12. QueueOf(s, (ask \ {}) \cup M, swap, q)
    BY <2>11 DEF B
  <2> QED BY <1>2, <2>3, <2>4, <2>5, <2>6, <2>12, OneQueue
<1> HIDE DEF M
<1> QED BY <1>1, <1>2, HandleDoc

\* txn_mod_queue_id in an edit.
LEMMA EditQueueIdDoc ==
    ASSUME IInv, RInv, NEW q \in Queues, NEW i \in Ids, EditQueueId(q, i)
    PROVE  RInv'
<1> DEFINE D == Of("qid", q)
           M == {<<"qid", q, i>>}
<1>1. Editing /\ D # {} /\ Handle(TxnModQueueId(txn, q, i), D, M)
  BY DEF EditQueueId, Write
<1>2. ASSUME NEW s \in TxnModQueueId(txn, q, i), Clear, ~Ambiguous(s) PROVE Tells(s, D, M)
  <2>1. Good(txn) /\ ~Ambiguous(txn) /\ KeysMatch(txn) /\ QueueOf(txn, ask, swap, q)
    BY <1>2, ClearRows DEF Told, QueueDoc
  <2>2. SameTargets(txn, s) /\ \A o \in Queues : FindQueuePort(s, o) = FindQueuePort(txn, o)
    BY <1>2, <2>1, ModQueueIdKeeps
  <2>3. SameBridges(txn, s) /\ s.qid = [txn.qid EXCEPT ![q] = i] /\ txn.qid[q] # None
    BY <1>2, <2>1, ModQueueId
  <2>4. s.qid[q] = i /\ (\A o \in Queues : o # q => s.qid[o] = txn.qid[o]) /\ i # None
    BY <2>1, <2>3, Columns, RowsAssumption DEF Good
  <2> DEFINE B == (ask \ D) \cup M
  <2>5. Named(D, q) /\ Named(M, q) /\ M \subseteq Elements
    <3>1. <<"qid", q, i>> \in Elements
      BY DEF Elements
    <3> QED BY <3>1, NodeOfQueue DEF QueueKinds, Named
  <2>6. <<"queue", q>> \in B <=> <<"queue", q>> \in ask
    BY DEF Of
  <2>7. \A p : <<"qport", q, p>> \in B <=> <<"qport", q, p>> \in ask
    BY DEF Of
  <2>8. \A j \in Ids : <<"qid", q, j>> \in B <=> j = i
    <3>1. \A j \in Ids : <<"qid", q, j>> \in ask => <<"qid", q, j>> \in D
      BY <1>1, <1>2, LeavesOfQueue
    <3>2. \A j \in Ids : <<"qid", q, j>> \in M <=> j = i
      OBVIOUS
    <3> HIDE DEF M, D
    <3> QED BY <3>1, <3>2
  <2> HIDE DEF B
  <2>9. QueueOf(s, B, swap, q)
    BY <2>1, <2>2, <2>3, <2>4, <2>6, <2>7, <2>8 DEF QueueOf
  <2> HIDE DEF M, D
  <2>10. QueueOf(s, (ask \ D) \cup M, swap, q) /\ Without(txn, s, q)
    BY <2>2, <2>9 DEF B, Without
  <2> QED BY <1>2, <2>3, <2>4, <2>5, <2>10, OneQueue
<1> HIDE DEF D, M
<1> QED BY <1>1, <1>2, HandleDoc

\* An element that changes no row and no element.
LEMMA SameDoc ==
    ASSUME IInv, RInv, Editing, NEW R, R \subseteq {txn}, Handle(R, {}, {})
    PROVE  RInv'
<1>1. Clear => Tells(txn, {}, {})
  <2>1. Swapped({}) = {} /\ (ask \ {}) \cup {} = ask /\ swap \cup {} = swap
    BY DEF Swapped
  <2> QED BY <2>1, ClearRows DEF Tells
<1> QED BY <1>1, HandleDoc

\* The options of a queue in an edit.
LEMMA EditQueueOptionsDoc ==
    ASSUME IInv, RInv, NEW q \in Queues, EditQueueOptions(q)
    PROVE  RInv'
<1>1. Editing /\ Handle(TxnModQueueOptions(txn, q), {}, {})
  BY DEF EditQueueOptions, Write
<1>2. TxnModQueueOptions(txn, q) \subseteq {txn}
  BY DEF TxnModQueueOptions
<1> QED BY <1>1, <1>2, SameDoc

-----------------------------------------------------------------------------
(* Ports and flow tables in a clear edit                                   *)

\* Ports of queues do not depend on bridges.
LEMMA SamePorts ==
    ASSUME NEW r, NEW s, SameQueues(r, s), s.port = r.port
    PROVE  \A q \in Queues : FindQueuePort(s, q) = FindQueuePort(r, q)
BY DEF FindQueuePort, Pairs, SameQueues

\* txn_add_port
LEMMA AddPortTells ==
    ASSUME IInv, RInv, Clear, NEW p \in Ports, NEW s \in TxnAddPort(txn, p)
    PROVE  Tells(s, {}, {<<"port", p>>})
<1> DEFINE M == {<<"port", p>>}
<1>1. Good(txn) /\ Told(txn, cache, ask, swap) /\ txn \in Rows
  BY ClearRows DEF Good
<1>2. s = [txn EXCEPT !.port = @ \cup {p}]
  BY DEF TxnAddPort
<1>3. /\ s.port = txn.port \cup {p} /\ s.table = txn.table /\ s.bridge = txn.bridge
      /\ SameQueues(txn, s) /\ s.bp = txn.bp /\ s.bt = txn.bt /\ s.bc = txn.bc
      /\ s.fresh = txn.fresh /\ s.proto = txn.proto
  BY <1>1, <1>2 DEF Rows, SameQueues
<1>4. \A q \in Queues : FindQueuePort(s, q) = FindQueuePort(txn, q)
  <2>1. \A o \in Ports : txn.pq[o] # None => o \in txn.port
    BY <1>1 DEF Good, Refs
  <2>2. txn.port \subseteq Ports
    BY <1>1, Columns
  <2> QED BY <1>3, <2>1, <2>2 DEF FindQueuePort, Pairs, SameQueues
<1>5. PlaceDoc(s, (ask \ {}) \cup M)
  BY <1>1, <1>3 DEF Told, PlaceDoc
<1>6. M \subseteq Elements
  BY DEF Elements
<1>7. \A d \in {} \cup M : d[1] = "port"
  OBVIOUS
<1> HIDE DEF M
<1>8. \A d \in {} \cup M : d[1] \notin QueueKinds /\ d[1] \notin {"bridge", "bport", "btable"}
                             /\ d[1] \notin {"contr", "proto"}
  BY <1>7 DEF QueueKinds
<1>9. QueueDoc(s, (ask \ {}) \cup M, swap \cup Swapped({}))
  <2>1. QueueDoc(txn, ask, swap) /\ s.qid = txn.qid /\ \A d \in {} \cup M : d[1] \notin QueueKinds
    BY <1>1, <1>3, <1>8 DEF Told, SameQueues
  <2> QED BY ONLY <1>4, <2>1, QueuesKept
<1>10. BridgeDoc(s, (ask \ {}) \cup M, swap \cup Swapped({}))
  BY <1>1, <1>3, <1>8, BridgesKept DEF Told
<1>11. ContrDoc(s, cache, (ask \ {}) \cup M)
  BY <1>1, <1>3, <1>8, ContrsKept DEF Told
<1>12. Tells(s, {}, M)
  BY <1>1, <1>5, <1>6, <1>9, <1>10, <1>11 DEF Tells, Told
<1> QED BY <1>12 DEF M

\* txn_del_port: queues and bridges that had the port are those of a deleted one.
LEMMA DelPortTells ==
    ASSUME IInv, RInv, Clear, NEW p \in Ports, NEW s \in TxnDelPort(txn, p)
    PROVE  Tells(s, {<<"port", p>>}, {})
<1> DEFINE D == {<<"port", p>>}
           B == (ask \ D) \cup {}
<1>1. Good(txn) /\ Told(txn, cache, ask, swap) /\ txn \in Rows
  BY ClearRows DEF Good
<1>2. /\ s.port = txn.port \ {p} /\ s.pq = [txn.pq EXCEPT ![p] = None]
      /\ s.bp = [b \in Bridges |-> txn.bp[b] \ {p}]
      /\ s.qid = txn.qid /\ s.qos = txn.qos /\ s.table = txn.table /\ s.bridge = txn.bridge
      /\ s.bt = txn.bt /\ s.bc = txn.bc /\ s.fresh = txn.fresh /\ s.proto = txn.proto
  BY <1>1 DEF TxnDelPort, Rows
<1>3. Swapped(D) = D /\ <<"port", p>> \in D
  BY DEF Swapped
<1>4. \A q \in Queues : FindQueuePort(s, q) = FindQueuePort(txn, q) \ {p}
  BY <1>1, <1>2, Columns DEF FindQueuePort, Pairs
<1>5. PlaceDoc(s, B)
  BY <1>1, <1>2 DEF Told, PlaceDoc
<1>6. \A d \in D \cup {} : d[1] = "port"
  OBVIOUS
<1>7. \A q, i : <<"queue", q>> \in B <=> <<"queue", q>> \in ask
  OBVIOUS
<1>8. \A q, i : <<"qid", q, i>> \in B <=> <<"qid", q, i>> \in ask
  OBVIOUS
<1>9. \A q, o : <<"qport", q, o>> \in B <=> <<"qport", q, o>> \in ask
  OBVIOUS
<1>10. \A b : <<"bridge", b>> \in B <=> <<"bridge", b>> \in ask
  OBVIOUS
<1>11. \A b, o : <<"bport", b, o>> \in B <=> <<"bport", b, o>> \in ask
  OBVIOUS
<1>12. \A b, t : <<"btable", b, t>> \in B <=> <<"btable", b, t>> \in ask
  OBVIOUS
<1>13. B \subseteq Elements
  BY <1>1 DEF Told
<1> HIDE DEF D
<1>14. ContrDoc(s, cache, B)
  <2>1. \A d \in D \cup {} : d[1] \notin {"contr", "proto"}
    BY <1>6
  <2> QED BY <1>1, <1>2, <2>1, ContrsKept DEF Told
<1> HIDE DEF B
<1>15. QueueDoc(s, B, swap \cup D)
  <2> SUFFICES ASSUME NEW q \in Queues PROVE QueueOf(s, B, swap \cup D, q)
    BY DEF QueueDoc
  <2>1. QueueOf(txn, ask, swap, q)
    BY <1>1 DEF Told, QueueDoc
  <2> QED BY <1>2, <1>3, <1>4, <1>7, <1>8, <1>9, <2>1 DEF QueueOf
<1>16. BridgeDoc(s, B, swap \cup D)
  BY <1>1, <1>2, <1>3, <1>10, <1>11, <1>12 DEF Told, BridgeDoc
<1>17. Tells(s, D, {})
  BY <1>3, <1>5, <1>13, <1>14, <1>15, <1>16 DEF Tells, Told, B
<1> QED BY <1>17 DEF D

\* A port in an edit.
LEMMA EditPortDoc ==
    ASSUME IInv, RInv, NEW p \in Ports, EditPort(p)
    PROVE  RInv'
<1> DEFINE M == {<<"port", p>>}
<1>1. CASE Write(TxnAddPort(txn, p), {}, M)
  <2>1. \A s \in TxnAddPort(txn, p) : Clear => Tells(s, {}, M)
    BY AddPortTells
  <2> HIDE DEF M
  <2> QED BY <1>1, <2>1, HandleDoc DEF Write
<1>2. CASE Delete(TxnDelPort(txn, p), M)
  <2>1. \A s \in TxnDelPort(txn, p) : Clear => Tells(s, M, {})
    BY DelPortTells
  <2> HIDE DEF M
  <2> QED BY <1>2, <2>1, HandleDoc DEF Delete, Editing
<1> QED BY <1>1, <1>2 DEF EditPort

\* txn_add_flow_table
LEMMA AddTableTells ==
    ASSUME IInv, RInv, Clear, NEW t \in Tables, NEW s \in TxnAddFlowTable(txn, t)
    PROVE  Tells(s, {}, {<<"table", t>>})
<1> DEFINE M == {<<"table", t>>}
<1>1. Good(txn) /\ Told(txn, cache, ask, swap) /\ txn \in Rows
  BY ClearRows DEF Good
<1>2. s = [txn EXCEPT !.table = @ \cup {t}]
  BY DEF TxnAddFlowTable
<1>3. /\ s.port = txn.port /\ s.table = txn.table \cup {t} /\ s.bridge = txn.bridge
      /\ SameQueues(txn, s) /\ s.bp = txn.bp /\ s.bt = txn.bt /\ s.bc = txn.bc
      /\ s.fresh = txn.fresh /\ s.proto = txn.proto
  BY <1>1, <1>2 DEF Rows, SameQueues
<1>4. \A q \in Queues : FindQueuePort(s, q) = FindQueuePort(txn, q)
  BY <1>3, SamePorts
<1>5. PlaceDoc(s, (ask \ {}) \cup M)
  BY <1>1, <1>3 DEF Told, PlaceDoc
<1>6. M \subseteq Elements
  BY DEF Elements
<1>7. \A d \in {} \cup M : d[1] = "table"
  OBVIOUS
<1> HIDE DEF M
<1>8. \A d \in {} \cup M : d[1] \notin QueueKinds /\ d[1] \notin {"bridge", "bport", "btable"}
                             /\ d[1] \notin {"contr", "proto"}
  BY <1>7 DEF QueueKinds
<1>9. QueueDoc(s, (ask \ {}) \cup M, swap \cup Swapped({}))
  <2>1. QueueDoc(txn, ask, swap) /\ s.qid = txn.qid /\ \A d \in {} \cup M : d[1] \notin QueueKinds
    BY <1>1, <1>3, <1>8 DEF Told, SameQueues
  <2> QED BY ONLY <1>4, <2>1, QueuesKept
<1>10. BridgeDoc(s, (ask \ {}) \cup M, swap \cup Swapped({}))
  BY <1>1, <1>3, <1>8, BridgesKept DEF Told
<1>11. ContrDoc(s, cache, (ask \ {}) \cup M)
  BY <1>1, <1>3, <1>8, ContrsKept DEF Told
<1>12. Tells(s, {}, M)
  BY <1>1, <1>5, <1>6, <1>9, <1>10, <1>11 DEF Tells, Told
<1> QED BY <1>12 DEF M

\* txn_del_flow_table: bridges that had the table are those of a deleted one.
LEMMA DelTableTells ==
    ASSUME IInv, RInv, Clear, NEW t \in Tables, NEW s \in TxnDelFlowTable(txn, t)
    PROVE  Tells(s, {<<"table", t>>}, {})
<1> DEFINE D == {<<"table", t>>}
           B == (ask \ D) \cup {}
<1>1. Good(txn) /\ Told(txn, cache, ask, swap) /\ txn \in Rows
  BY ClearRows DEF Good
<1>2. /\ s.table = txn.table \ {t} /\ s.bt = [b \in Bridges |-> txn.bt[b] \ {t}]
      /\ SameQueues(txn, s) /\ s.port = txn.port /\ s.bridge = txn.bridge
      /\ s.bp = txn.bp /\ s.bc = txn.bc /\ s.fresh = txn.fresh /\ s.proto = txn.proto
  BY <1>1 DEF TxnDelFlowTable, Rows, SameQueues
<1>3. Swapped(D) = D /\ <<"table", t>> \in D
  BY DEF Swapped
<1>4. \A q \in Queues : FindQueuePort(s, q) = FindQueuePort(txn, q)
  BY <1>2, SamePorts
<1>5. PlaceDoc(s, B)
  BY <1>1, <1>2 DEF Told, PlaceDoc
<1>6. \A d \in D \cup {} : d[1] = "table"
  OBVIOUS
<1>7. \A b : <<"bridge", b>> \in B <=> <<"bridge", b>> \in ask
  OBVIOUS
<1>8. \A b, o : <<"bport", b, o>> \in B <=> <<"bport", b, o>> \in ask
  OBVIOUS
<1>9. \A b, o : <<"btable", b, o>> \in B <=> <<"btable", b, o>> \in ask
  OBVIOUS
<1>10. B \subseteq Elements
  BY <1>1 DEF Told
<1> HIDE DEF D
<1>11. \A d \in D \cup {} : d[1] \notin QueueKinds /\ d[1] \notin {"contr", "proto"}
  BY <1>6 DEF QueueKinds
<1>12. ContrDoc(s, cache, B)
  BY <1>1, <1>2, <1>11, ContrsKept DEF Told
<1>13. QueueDoc(s, B, swap \cup D)
  <2>1. QueueDoc(txn, ask, swap) /\ s.qid = txn.qid /\ \A d \in D \cup {} : d[1] \notin QueueKinds
    BY <1>1, <1>2, <1>11 DEF Told, SameQueues
  <2> QED BY <1>4, <2>1, QueuesKept
<1> HIDE DEF B
<1>14. BridgeDoc(s, B, swap \cup D)
  BY <1>1, <1>2, <1>3, <1>7, <1>8, <1>9 DEF Told, BridgeDoc
<1>15. Tells(s, D, {})
  BY <1>3, <1>5, <1>10, <1>12, <1>13, <1>14 DEF Tells, Told, B
<1> QED BY <1>15 DEF D

\* A flow table in an edit.
LEMMA EditTableDoc ==
    ASSUME IInv, RInv, NEW t \in Tables, EditTable(t)
    PROVE  RInv'
<1> DEFINE M == {<<"table", t>>}
<1>1. CASE Write(TxnAddFlowTable(txn, t), {}, M)
  <2>1. \A s \in TxnAddFlowTable(txn, t) : Clear => Tells(s, {}, M)
    BY AddTableTells
  <2> HIDE DEF M
  <2> QED BY <1>1, <2>1, HandleDoc DEF Write
<1>2. CASE Delete(TxnDelFlowTable(txn, t), M)
  <2>1. \A s \in TxnDelFlowTable(txn, t) : Clear => Tells(s, M, {})
    BY DelTableTells
  <2> HIDE DEF M
  <2> QED BY <1>2, <2>1, HandleDoc DEF Delete, Editing
<1>3. CASE Write(TxnModFlowtable(txn, t), {}, {})
  <2>1. TxnModFlowtable(txn, t) \subseteq {txn}
    BY DEF TxnModFlowtable
  <2> QED BY <1>3, <2>1, SameDoc DEF Write
<1> QED BY <1>1, <1>2, <1>3 DEF EditTable

-----------------------------------------------------------------------------
(* Bridges in a clear edit                                                 *)

BridgeKinds == {"bridge", "bport", "btable", "contr", "proto"}

\* A change of bridges leaves ports, flow tables and queues alone.
LEMMA BridgeTold ==
    ASSUME IInv, RInv, Clear, NEW s, SameQueues(txn, s), s.port = txn.port, s.table = txn.table,
           NEW D, NEW M, \A d \in D \cup M : d[1] \in BridgeKinds, M \subseteq Elements,
           BridgeDoc(s, (ask \ D) \cup M, swap), ContrDoc(s, cache, (ask \ D) \cup M)
    PROVE  Tells(s, D, M)
<1>1. Told(txn, cache, ask, swap)
  BY ClearRows
<1>2. \A q \in Queues : FindQueuePort(s, q) = FindQueuePort(txn, q)
  BY SamePorts
<1>3. Swapped(D) = {}
  BY DEF Swapped, BridgeKinds
<1>4. QueueDoc(s, (ask \ D) \cup M, swap \cup {})
  <2>1. QueueDoc(txn, ask, swap) /\ s.qid = txn.qid /\ \A d \in D \cup M : d[1] \notin QueueKinds
    BY <1>1 DEF Told, SameQueues, BridgeKinds, QueueKinds
  <2> QED BY <1>2, <2>1, QueuesKept
<1>5. PlaceDoc(s, (ask \ D) \cup M)
  <2>1. PlaceDoc(txn, ask) /\ \A d \in D \cup M : d[1] \notin {"port", "table"}
    BY <1>1 DEF Told, BridgeKinds
  <2> QED BY <2>1, PlacesKept
<1>6. swap \cup {} = swap /\ (ask \ D) \cup M \subseteq Elements
  BY <1>1 DEF Told
<1> QED BY <1>3, <1>4, <1>5, <1>6 DEF Tells, Told

\* txn_add_bridge in an edit.
LEMMA CreateBridgeDoc ==
    ASSUME IInv, RInv, NEW b \in Bridges, NEW P \in SUBSET Ports, NEW T \in SUBSET Tables,
           CreateBridge(b, P, T)
    PROVE  RInv'
<1> DEFINE M == {<<"bridge", b>>} \cup {<<"bport", b, p>> : p \in P}
                                  \cup {<<"btable", b, t>> : t \in T}
<1>1. Editing /\ <<"bridge", b>> \notin ask /\ Handle(TxnAddBridge(txn, b, P, T), {}, M)
  BY DEF CreateBridge, Write
<1>2. ASSUME NEW s \in TxnAddBridge(txn, b, P, T), Clear PROVE Tells(s, {}, M)
  <2>1. Good(txn) /\ txn \in Rows /\ Told(txn, cache, ask, swap)
    BY <1>2, ClearRows DEF Good
  <2>2. /\ SameQueues(txn, s) /\ s.port = txn.port /\ s.table = txn.table
        /\ s.bridge = txn.bridge \cup {b} /\ s.fresh = txn.fresh /\ s.proto = txn.proto
        /\ s.bp = [txn.bp EXCEPT ![b] = P] /\ s.bt = [txn.bt EXCEPT ![b] = T]
        /\ s.bc = [txn.bc EXCEPT ![b] = {}] /\ b \notin txn.bridge
    BY <2>1 DEF TxnAddBridge, Rows, SameQueues
  <2>3. /\ \A x \in Bridges : /\ s.bp[x] = IF x = b THEN P ELSE txn.bp[x]
                              /\ s.bt[x] = IF x = b THEN T ELSE txn.bt[x]
        /\ s.bc = txn.bc
    <3>1. /\ txn.bp \in [Bridges -> SUBSET Ports] /\ txn.bt \in [Bridges -> SUBSET Tables]
          /\ txn.bc \in [Bridges -> SUBSET Ctrls] /\ txn.bc[b] = {}
      BY <2>1, <2>2, Columns DEF Good, NoBridge
    <3>2. \A x \in Bridges : /\ s.bp[x] = IF x = b THEN P ELSE txn.bp[x]
                             /\ s.bt[x] = IF x = b THEN T ELSE txn.bt[x]
      BY <2>2, <3>1
    <3>3. s.bc \in [Bridges -> SUBSET Ctrls] /\ \A x \in Bridges : s.bc[x] = txn.bc[x]
      BY <2>2, <3>1
    <3>4. s.bc = txn.bc
      BY <3>1, <3>3
    <3> QED BY <3>2, <3>4
  <2> DEFINE B == (ask \ {}) \cup M
  <2>4. \A d \in {} \cup M : d[1] \in BridgeKinds /\ d[1] \notin {"contr", "proto"}
    BY DEF BridgeKinds
  <2>5. M \subseteq Elements
    <3>1. <<"bridge", b>> \in Elements
      BY DEF Elements
    <3>2. \A p \in P : <<"bport", b, p>> \in Elements
      BY DEF Elements
    <3>3. \A t \in T : <<"btable", b, t>> \in Elements
      BY DEF Elements
    <3> HIDE DEF Elements
    <3> QED BY <3>1, <3>2, <3>3
  <2>6. \A x : <<"bridge", x>> \in B <=> <<"bridge", x>> \in ask \/ x = b
    OBVIOUS
  <2>7. \A x, p : <<"bport", x, p>> \in B <=> <<"bport", x, p>> \in ask \/ (x = b /\ p \in P)
    OBVIOUS
  <2>8. \A x, t : <<"btable", x, t>> \in B <=> <<"btable", x, t>> \in ask \/ (x = b /\ t \in T)
    OBVIOUS
  <2>9. BridgeDoc(txn, ask, swap) /\ ContrDoc(txn, cache, ask)
    BY <2>1 DEF Told
  <2> HIDE DEF M
  <2>10. ContrDoc(s, cache, B)
    BY <2>2, <2>3, <2>4, <2>9, ContrsKept
  <2> HIDE DEF B
  <2>11. BridgeDoc(s, B, swap)
    BY <1>1, <2>2, <2>3, <2>6, <2>7, <2>8, <2>9 DEF BridgeDoc
  <2> QED BY <1>2, <2>2, <2>4, <2>5, <2>10, <2>11, BridgeTold DEF B
<1> HIDE DEF M
<1> QED BY <1>1, <1>2, HandleDoc

\* txn_del_bridge in an edit.
LEMMA DeleteBridgeDoc ==
    ASSUME IInv, RInv, NEW b \in Bridges, DeleteBridge(b)
    PROVE  RInv'
<1> DEFINE D == Below(b)
<1>1. /\ Editing /\ phase = "delete" /\ <<"bridge", b>> \in doc
      /\ Handle(TxnDelBridge(txn, b), D, {})
  BY DEF DeleteBridge, Delete, Editing
<1>2. ASSUME NEW s \in TxnDelBridge(txn, b), Clear PROVE Tells(s, D, {})
  <2>1. Good(txn) /\ txn \in Rows /\ Told(txn, cache, ask, swap) /\ ask = doc
    BY <1>1, <1>2, ClearRows DEF Good
  <2>2. BridgeDoc(txn, ask, swap) /\ ContrDoc(txn, cache, ask) /\ b \in txn.bridge
    BY <1>1, <2>1 DEF Told, BridgeDoc
  <2>3. /\ SameQueues(txn, s) /\ s.port = txn.port /\ s.table = txn.table
        /\ s.bridge = txn.bridge \ {b} /\ s.fresh = txn.fresh /\ s.proto = txn.proto
        /\ s.bp = [txn.bp EXCEPT ![b] = {}] /\ s.bt = [txn.bt EXCEPT ![b] = {}]
        /\ s.bc = [txn.bc EXCEPT ![b] = {}]
    <3>1. s = [txn EXCEPT !.bridge = @ \ {b}, !.bp[b] = {}, !.bt[b] = {}, !.bc[b] = {},
                          !.dead = @ \ {d \in @ : d[2] = b}, !.lost = @ \ {d \in @ : d[2] = b}]
      BY <2>2 DEF TxnDelBridge
    <3> QED BY <2>1, <3>1 DEF Rows, SameQueues
  <2>4. \A x \in Bridges : /\ s.bp[x] = IF x = b THEN {} ELSE txn.bp[x]
                           /\ s.bt[x] = IF x = b THEN {} ELSE txn.bt[x]
                           /\ s.bc[x] = IF x = b THEN {} ELSE txn.bc[x]
    BY <2>1, <2>3, Columns
  <2> DEFINE B == (ask \ D) \cup {}
  <2>5. \A d \in D \cup {} : d[1] \in BridgeKinds
    BY DEF Below, Of, BridgeKinds
  <2>6. \A x : <<"bridge", x>> \in B <=> <<"bridge", x>> \in ask /\ x # b
    BY <2>1 DEF Below, Of
  <2>7. \A x, p : <<"bport", x, p>> \in B <=> <<"bport", x, p>> \in ask /\ x # b
    BY <2>1 DEF Below, Of
  <2>8. \A x, t : <<"btable", x, t>> \in B <=> <<"btable", x, t>> \in ask /\ x # b
    BY <2>1 DEF Below, Of
  <2>9. \A x, c : <<"contr", x, c>> \in B <=> <<"contr", x, c>> \in ask /\ x # b
    BY <2>1 DEF Below, Of
  <2>10. \A x, c, v : <<"proto", x, c, v>> \in B <=> <<"proto", x, c, v>> \in ask /\ x # b
    BY <2>1 DEF Below, Of
  <2> HIDE DEF B, D
  <2>11. \A x : Target(s, cache, x) = Target(txn, cache, x)
    BY <2>3 DEF Target
  <2>12. ContrDoc(s, cache, B)
    <3> SUFFICES ASSUME NEW x \in Bridges, NEW c \in Ctrls PROVE ContrOf(s, cache, B, x, c)
      BY DEF ContrDoc
    <3>1. ContrOf(txn, cache, ask, x, c)
      BY <2>2 DEF ContrDoc
    <3>2. c \in s.bc[x] <=> c \in txn.bc[x] /\ x # b
      BY <2>4
    <3> QED BY <2>9, <2>10, <2>11, <3>1, <3>2 DEF ContrOf
  <2>13. BridgeDoc(s, B, swap)
    BY <2>2, <2>3, <2>4, <2>6, <2>7, <2>8 DEF BridgeDoc
  <2> QED BY <1>2, <2>3, <2>5, <2>12, <2>13, BridgeTold DEF B
<1> HIDE DEF D
<1> QED BY <1>1, <1>2, HandleDoc

\* Columns of a bridge without references.
LEMMA EditBridgeDoc ==
    ASSUME IInv, RInv, NEW b \in Bridges, EditBridge(b)
    PROVE  RInv'
<1>1. PICK R : Editing /\ Handle(R, {}, {}) /\ R \subseteq {txn}
  BY DEF EditBridge, Write, TxnModBridge, OfcCheckBridgeQueue
<1> QED BY <1>1, SameDoc

\* Writing the ports of a bridge in a clear edit.
LEMMA SetPortsTells ==
    ASSUME IInv, RInv, Clear, NEW b \in txn.bridge, NEW S \in SUBSET Ports, NEW L, NEW D, NEW M,
           \A d \in D \cup M : d[1] = "bport" /\ d[2] = b, M \subseteq Elements,
           \A o \in Ports : <<"bport", b, o>> \in (ask \ D) \cup M =>
              o \in S \/ (<<"bport", b, o>> \in ask /\ o \notin txn.bp[b])
    PROVE  Tells(SetPorts(txn, b, S, L), D, M)
<1> DEFINE s == SetPorts(txn, b, S, L)
           B == (ask \ D) \cup M
<1>1. Good(txn) /\ txn \in Rows /\ Told(txn, cache, ask, swap) /\ b \in Bridges
  BY ClearRows, Columns DEF Good
<1>2. /\ SameQueues(txn, s) /\ s.port = txn.port /\ s.table = txn.table
      /\ s.bridge = txn.bridge /\ s.fresh = txn.fresh /\ s.proto = txn.proto
      /\ s.bp = [txn.bp EXCEPT ![b] = S] /\ s.bt = txn.bt /\ s.bc = txn.bc
  BY <1>1 DEF SetPorts, Rows, SameQueues
<1> HIDE DEF s
<1>3. \A x \in Bridges : s.bp[x] = IF x = b THEN S ELSE txn.bp[x]
  BY <1>1, <1>2, Columns
<1>4. \A x : <<"bridge", x>> \in B <=> <<"bridge", x>> \in ask
  OBVIOUS
<1>5. \A x, o : x # b => (<<"bport", x, o>> \in B <=> <<"bport", x, o>> \in ask)
  OBVIOUS
<1>6. \A x, o : <<"btable", x, o>> \in B <=> <<"btable", x, o>> \in ask
  OBVIOUS
<1>7. \A o \in Ports : <<"bport", b, o>> \in B =>
         o \in S \/ (<<"bport", b, o>> \in ask /\ o \notin txn.bp[b])
  OBVIOUS
<1>8. \A d \in D \cup M : d[1] \in BridgeKinds /\ d[1] \notin {"contr", "proto"}
  BY DEF BridgeKinds
<1>9. BridgeDoc(txn, ask, swap) /\ ContrDoc(txn, cache, ask)
  BY <1>1 DEF Told
<1>10. ContrDoc(s, cache, B)
  BY <1>2, <1>8, <1>9, ContrsKept
<1> HIDE DEF B
<1>11. BridgeDoc(s, B, swap)
  <2> SUFFICES ASSUME NEW x \in Bridges
               PROVE  /\ <<"bridge", x>> \in B <=> x \in s.bridge
                      /\ \A p \in Ports : <<"bport", x, p>> \in B =>
                           x \in s.bridge /\ (<<"port", p>> \in swap \/ p \in s.bp[x])
                      /\ \A t \in Tables : <<"btable", x, t>> \in B =>
                           x \in s.bridge /\ (<<"table", t>> \in swap \/ t \in s.bt[x])
    BY DEF BridgeDoc
  <2>1. /\ <<"bridge", x>> \in ask <=> x \in txn.bridge
        /\ \A p \in Ports : <<"bport", x, p>> \in ask =>
             x \in txn.bridge /\ (<<"port", p>> \in swap \/ p \in txn.bp[x])
        /\ \A t \in Tables : <<"btable", x, t>> \in ask =>
             x \in txn.bridge /\ (<<"table", t>> \in swap \/ t \in txn.bt[x])
    BY <1>9 DEF BridgeDoc
  <2>2. CASE x = b
    BY <1>2, <1>3, <1>4, <1>6, <1>7, <2>1, <2>2
  <2>3. CASE x # b
    BY <1>2, <1>3, <1>4, <1>5, <1>6, <2>1, <2>3
  <2> QED BY <2>2, <2>3
<1>12. Tells(s, D, M)
  BY <1>2, <1>8, <1>10, <1>11, BridgeTold DEF B
<1> QED BY <1>12 DEF s

\* A port of a bridge in an edit.
LEMMA EditBridgePortDoc ==
    ASSUME IInv, RInv, NEW b \in Bridges, NEW p \in Ports, EditBridgePort(b, p)
    PROVE  RInv'
<1> DEFINE e == <<"bport", b, p>>
           E == {e}
<1>1. CASE Write(TxnAddBridgePort(txn, b, p), {}, E)
  <2>1. Editing /\ Handle(TxnAddBridgePort(txn, b, p), {}, E)
    BY <1>1 DEF Write
  <2>2. ASSUME NEW s \in TxnAddBridgePort(txn, b, p), Clear PROVE Tells(s, {}, E)
    <3> DEFINE S == txn.bp[b] \cup {p}
    <3>1. s = SetPorts(txn, b, S, Dead(txn, "bp", b)) /\ b \in txn.bridge
      BY DEF TxnAddBridgePort
    <3>2. S \in SUBSET Ports
      BY <2>2, ClearRows, Columns DEF Good
    <3>3. \A d \in {} \cup E : d[1] = "bport" /\ d[2] = b
      OBVIOUS
    <3>4. E \subseteq Elements
      BY DEF Elements
    <3>5. \A o \in Ports : <<"bport", b, o>> \in (ask \ {}) \cup E =>
             o \in S \/ (<<"bport", b, o>> \in ask /\ o \notin txn.bp[b])
      OBVIOUS
    <3> HIDE DEF E, S
    <3> QED BY <2>2, <3>1, <3>2, <3>3, <3>4, <3>5, SetPortsTells
  <2> HIDE DEF E
  <2> QED BY <2>1, <2>2, HandleDoc
<1>2. CASE Delete(TxnDelBridgePort(txn, b, p), E)
  <2>1. Editing /\ Handle(TxnDelBridgePort(txn, b, p), E, {}) /\ phase = "delete"
    BY <1>2 DEF Delete, Editing
  <2>2. ASSUME NEW s \in TxnDelBridgePort(txn, b, p), Clear PROVE Tells(s, E, {})
    <3> DEFINE S == txn.bp[b] \ {p}
    <3>1. \A d \in E \cup {} : d[1] = "bport" /\ d[2] = b
      OBVIOUS
    <3>2. S \in SUBSET Ports
      BY <2>2, ClearRows, Columns DEF Good
    <3>3. \A o \in Ports : <<"bport", b, o>> \in (ask \ E) \cup {} =>
             o \in S \/ (<<"bport", b, o>> \in ask /\ o \notin txn.bp[b])
      OBVIOUS
    <3>4. CASE s = SetPorts(txn, b, S, Dead(txn, "bp", b) \ {<<"bp", b, p>>}) /\ b \in txn.bridge
      <4> HIDE DEF E, S
      <4> QED BY <2>2, <3>1, <3>2, <3>3, <3>4, SetPortsTells
    <3>5. CASE s = txn
      <4> HIDE DEF E
      <4>1. BridgeDoc(txn, ask, swap) /\ ContrDoc(txn, cache, ask)
        BY <2>2, ClearRows DEF Told
      <4>2. \A d \in E \cup {} : d[1] \in BridgeKinds /\ d[1] \notin {"contr", "proto"}
        BY <3>1 DEF BridgeKinds
      <4>3. ContrDoc(txn, cache, (ask \ E) \cup {})
        BY <4>1, <4>2, ContrsKept
      <4>4. \A x : <<"bridge", x>> \in (ask \ E) \cup {} <=> <<"bridge", x>> \in ask
        BY <3>1
      <4>5. (ask \ E) \cup {} \subseteq ask
        OBVIOUS
      <4>6. BridgeDoc(txn, (ask \ E) \cup {}, swap)
        BY <4>1, <4>4, <4>5 DEF BridgeDoc
      <4> QED BY <2>2, <3>5, <4>2, <4>3, <4>6, BridgeTold DEF SameQueues
    <3> QED BY <3>4, <3>5 DEF TxnDelBridgePort
  <2> HIDE DEF E
  <2> QED BY <2>1, <2>2, HandleDoc
<1> QED BY <1>1, <1>2 DEF EditBridgePort

\* Writing the flow tables of a bridge in a clear edit.
LEMMA SetTablesTells ==
    ASSUME IInv, RInv, Clear, NEW b \in txn.bridge, NEW S \in SUBSET Tables, NEW L, NEW D, NEW M,
           \A d \in D \cup M : d[1] = "btable" /\ d[2] = b, M \subseteq Elements,
           \A o \in Tables : <<"btable", b, o>> \in (ask \ D) \cup M =>
              o \in S \/ (<<"btable", b, o>> \in ask /\ o \notin txn.bt[b])
    PROVE  Tells(SetTables(txn, b, S, L), D, M)
<1> DEFINE s == SetTables(txn, b, S, L)
           B == (ask \ D) \cup M
<1>1. Good(txn) /\ txn \in Rows /\ Told(txn, cache, ask, swap) /\ b \in Bridges
  BY ClearRows, Columns DEF Good
<1>2. /\ SameQueues(txn, s) /\ s.port = txn.port /\ s.table = txn.table
      /\ s.bridge = txn.bridge /\ s.fresh = txn.fresh /\ s.proto = txn.proto
      /\ s.bt = [txn.bt EXCEPT ![b] = S] /\ s.bp = txn.bp /\ s.bc = txn.bc
  BY <1>1 DEF SetTables, Rows, SameQueues
<1> HIDE DEF s
<1>3. \A x \in Bridges : s.bt[x] = IF x = b THEN S ELSE txn.bt[x]
  BY <1>1, <1>2, Columns
<1>4. \A x : <<"bridge", x>> \in B <=> <<"bridge", x>> \in ask
  OBVIOUS
<1>5. \A x, o : x # b => (<<"btable", x, o>> \in B <=> <<"btable", x, o>> \in ask)
  OBVIOUS
<1>6. \A x, o : <<"bport", x, o>> \in B <=> <<"bport", x, o>> \in ask
  OBVIOUS
<1>7. \A o \in Tables : <<"btable", b, o>> \in B =>
         o \in S \/ (<<"btable", b, o>> \in ask /\ o \notin txn.bt[b])
  OBVIOUS
<1>8. \A d \in D \cup M : d[1] \in BridgeKinds /\ d[1] \notin {"contr", "proto"}
  BY DEF BridgeKinds
<1>9. BridgeDoc(txn, ask, swap) /\ ContrDoc(txn, cache, ask)
  BY <1>1 DEF Told
<1>10. ContrDoc(s, cache, B)
  BY <1>2, <1>8, <1>9, ContrsKept
<1> HIDE DEF B
<1>11. BridgeDoc(s, B, swap)
  <2> SUFFICES ASSUME NEW x \in Bridges
               PROVE  /\ <<"bridge", x>> \in B <=> x \in s.bridge
                      /\ \A p \in Ports : <<"bport", x, p>> \in B =>
                           x \in s.bridge /\ (<<"port", p>> \in swap \/ p \in s.bp[x])
                      /\ \A t \in Tables : <<"btable", x, t>> \in B =>
                           x \in s.bridge /\ (<<"table", t>> \in swap \/ t \in s.bt[x])
    BY DEF BridgeDoc
  <2>1. /\ <<"bridge", x>> \in ask <=> x \in txn.bridge
        /\ \A p \in Ports : <<"bport", x, p>> \in ask =>
             x \in txn.bridge /\ (<<"port", p>> \in swap \/ p \in txn.bp[x])
        /\ \A t \in Tables : <<"btable", x, t>> \in ask =>
             x \in txn.bridge /\ (<<"table", t>> \in swap \/ t \in txn.bt[x])
    BY <1>9 DEF BridgeDoc
  <2>2. CASE x = b
    BY <1>2, <1>3, <1>4, <1>6, <1>7, <2>1, <2>2
  <2>3. CASE x # b
    BY <1>2, <1>3, <1>4, <1>5, <1>6, <2>1, <2>3
  <2> QED BY <2>2, <2>3
<1>12. Tells(s, D, M)
  BY <1>2, <1>8, <1>10, <1>11, BridgeTold DEF B
<1> QED BY <1>12 DEF s

\* A flow table of a bridge in an edit.
LEMMA EditBridgeTableDoc ==
    ASSUME IInv, RInv, NEW b \in Bridges, NEW t \in Tables, EditBridgeTable(b, t)
    PROVE  RInv'
<1> DEFINE e == <<"btable", b, t>>
           E == {e}
<1>1. CASE Write(TxnAddBridgeFlowtable(txn, b, t), {}, E)
  <2>1. Editing /\ Handle(TxnAddBridgeFlowtable(txn, b, t), {}, E)
    BY <1>1 DEF Write
  <2>2. ASSUME NEW s \in TxnAddBridgeFlowtable(txn, b, t), Clear PROVE Tells(s, {}, E)
    <3> DEFINE S == txn.bt[b] \cup {t}
    <3>1. s = SetTables(txn, b, S, Dead(txn, "bt", b)) /\ b \in txn.bridge
      BY DEF TxnAddBridgeFlowtable
    <3>2. S \in SUBSET Tables
      BY <2>2, ClearRows, Columns DEF Good
    <3>3. \A d \in {} \cup E : d[1] = "btable" /\ d[2] = b
      OBVIOUS
    <3>4. E \subseteq Elements
      BY DEF Elements
    <3>5. \A o \in Tables : <<"btable", b, o>> \in (ask \ {}) \cup E =>
             o \in S \/ (<<"btable", b, o>> \in ask /\ o \notin txn.bt[b])
      OBVIOUS
    <3> HIDE DEF E, S
    <3> QED BY <2>2, <3>1, <3>2, <3>3, <3>4, <3>5, SetTablesTells
  <2> HIDE DEF E
  <2> QED BY <2>1, <2>2, HandleDoc
<1>2. CASE Delete(TxnDelBridgeFlowtable(txn, b, t), E)
  <2>1. Editing /\ Handle(TxnDelBridgeFlowtable(txn, b, t), E, {}) /\ phase = "delete"
    BY <1>2 DEF Delete, Editing
  <2>2. ASSUME NEW s \in TxnDelBridgeFlowtable(txn, b, t), Clear PROVE Tells(s, E, {})
    <3> DEFINE S == txn.bt[b] \ {t}
    <3>1. \A d \in E \cup {} : d[1] = "btable" /\ d[2] = b
      OBVIOUS
    <3>2. S \in SUBSET Tables
      BY <2>2, ClearRows, Columns DEF Good
    <3>3. \A o \in Tables : <<"btable", b, o>> \in (ask \ E) \cup {} =>
             o \in S \/ (<<"btable", b, o>> \in ask /\ o \notin txn.bt[b])
      OBVIOUS
    <3>4. CASE s = SetTables(txn, b, S, Dead(txn, "bt", b) \ {<<"bt", b, t>>}) /\ b \in txn.bridge
      <4> HIDE DEF E, S
      <4> QED BY <2>2, <3>1, <3>2, <3>3, <3>4, SetTablesTells
    <3>5. CASE s = txn
      <4> HIDE DEF E
      <4>1. BridgeDoc(txn, ask, swap) /\ ContrDoc(txn, cache, ask)
        BY <2>2, ClearRows DEF Told
      <4>2. \A d \in E \cup {} : d[1] \in BridgeKinds /\ d[1] \notin {"contr", "proto"}
        BY <3>1 DEF BridgeKinds
      <4>3. ContrDoc(txn, cache, (ask \ E) \cup {})
        BY <4>1, <4>2, ContrsKept
      <4>4. \A x : <<"bridge", x>> \in (ask \ E) \cup {} <=> <<"bridge", x>> \in ask
        BY <3>1
      <4>5. (ask \ E) \cup {} \subseteq ask
        OBVIOUS
      <4>6. BridgeDoc(txn, (ask \ E) \cup {}, swap)
        BY <4>1, <4>4, <4>5 DEF BridgeDoc
      <4> QED BY <2>2, <3>5, <4>2, <4>3, <4>6, BridgeTold DEF SameQueues
    <3> QED BY <3>4, <3>5 DEF TxnDelBridgeFlowtable
  <2> HIDE DEF E
  <2> QED BY <2>1, <2>2, HandleDoc
<1> QED BY <1>1, <1>2 DEF EditBridgeTable

-----------------------------------------------------------------------------
(* Controllers in a clear edit                                             *)

\* A change of controllers, in the transaction or in the IDL's copy, leaves
\* the rest alone.
LEMMA ContrTold ==
    ASSUME IInv, RInv, Clear, NEW s, SameQueues(txn, s), s.port = txn.port, s.table = txn.table,
           s.bridge = txn.bridge, s.bp = txn.bp, s.bt = txn.bt,
           NEW D, NEW M, \A d \in D \cup M : d[1] \in {"contr", "proto"}, M \subseteq Elements,
           NEW c, ContrDoc(s, c, (ask \ D) \cup M)
    PROVE  Told(s, c, (ask \ D) \cup M, swap \cup Swapped(D))
<1>1. Told(txn, cache, ask, swap)
  BY ClearRows
<1>2. \A q \in Queues : FindQueuePort(s, q) = FindQueuePort(txn, q)
  BY SamePorts
<1>3. QueueDoc(s, (ask \ D) \cup M, swap \cup Swapped(D))
  <2>1. QueueDoc(txn, ask, swap) /\ s.qid = txn.qid /\ \A d \in D \cup M : d[1] \notin QueueKinds
    BY <1>1 DEF Told, SameQueues, QueueKinds
  <2> QED BY <1>2, <2>1, QueuesKept
<1>4. PlaceDoc(s, (ask \ D) \cup M)
  <2>1. PlaceDoc(txn, ask) /\ \A d \in D \cup M : d[1] \notin {"port", "table"}
    BY <1>1 DEF Told
  <2> QED BY <2>1, PlacesKept
<1>5. BridgeDoc(s, (ask \ D) \cup M, swap \cup Swapped(D))
  <2>1. BridgeDoc(txn, ask, swap) /\ \A d \in D \cup M : d[1] \notin {"bridge", "bport", "btable"}
    BY <1>1 DEF Told
  <2> QED BY <2>1, BridgesKept
<1>6. (ask \ D) \cup M \subseteq Elements
  BY <1>1 DEF Told
<1> QED BY <1>3, <1>4, <1>5, <1>6 DEF Told

\* txn_add_contr
LEMMA AddContrTells ==
    ASSUME IInv, RInv, Clear, NEW b \in Bridges, NEW x \in Ctrls, NEW v \in Protocols,
           <<"contr", b, x>> \notin ask, NEW s \in TxnAddContr(txn, b, x, v)
    PROVE  Tells(s, {}, {<<"contr", b, x>>, <<"proto", b, x, v>>})
<1> DEFINE z == <<b, x>>
           u == [txn EXCEPT !.contr = @ \cup {z}, !.proto[z] = v, !.fresh = @ \cup {z}]
           S == txn.bc[b] \cup {x}
           M == {<<"contr", b, x>>, <<"proto", b, x, v>>}
           B == (ask \ {}) \cup M
<1>1. txn \in Rows /\ s = SetContrs(u, b, S, Dead(txn, "bc", b))
  BY ClearRows DEF Good, TxnAddContr
<1>2. ContrDoc(txn, cache, ask)
  BY ClearRows DEF Told
<1>3. S = txn.bc[b] \cup {x} /\ z = <<b, x>> /\ z \in Contrs
  BY DEF Contrs
<1>4. \A a, y : (a # b \/ y # x) => <<a, y>> # z
  OBVIOUS
<1> HIDE DEF z, S
<1>5. /\ SameQueues(txn, u) /\ u.port = txn.port /\ u.table = txn.table /\ u.bridge = txn.bridge
      /\ u.bp = txn.bp /\ u.bt = txn.bt /\ u.bc = txn.bc /\ u.dead = txn.dead
      /\ u.fresh = txn.fresh \cup {z} /\ u.proto = [txn.proto EXCEPT ![z] = v]
      /\ DOMAIN u = DOMAIN txn
  BY <1>1 DEF Rows, SameQueues
<1>6. /\ SameQueues(txn, s) /\ s.port = txn.port /\ s.table = txn.table /\ s.bridge = txn.bridge
      /\ s.bp = txn.bp /\ s.bt = txn.bt /\ s.bc = [txn.bc EXCEPT ![b] = S]
      /\ s.fresh = txn.fresh \cup {z} /\ s.proto = [txn.proto EXCEPT ![z] = v]
  BY <1>1 DEF Rows, SameQueues, SetContrs
<1>7. \A a \in Bridges : s.bc[a] = IF a = b THEN S ELSE txn.bc[a]
  BY <1>1, <1>6, Columns
<1>8. txn.proto \in [Contrs -> Protocols]
  BY <1>1 DEF Rows
<1>9. Target(s, cache, z) = v /\ \A y \in Contrs : y # z => Target(s, cache, y) = Target(txn, cache, y)
  BY <1>3, <1>6, <1>8 DEF Target
<1>10. \A d \in {} \cup M : d[1] \in {"contr", "proto"}
  OBVIOUS
<1>11. M \subseteq Elements
  <2>1. <<"contr", b, x>> \in Elements
    BY DEF Elements
  <2>2. <<"proto", b, x, v>> \in Elements
    BY DEF Elements
  <2> QED BY <2>1, <2>2
<1>12. \A a, y : (a # b \/ y # x) => (<<"contr", a, y>> \in B <=> <<"contr", a, y>> \in ask)
  OBVIOUS
<1>13. \A a, y, w : (a # b \/ y # x) => (<<"proto", a, y, w>> \in B <=> <<"proto", a, y, w>> \in ask)
  OBVIOUS
<1>14. <<"contr", b, x>> \in B
  OBVIOUS
<1>15. \A w \in Protocols : <<"proto", b, x, w>> \in B <=> w = v
  <2>1. \A w \in Protocols : <<"proto", b, x, w>> \notin ask
    BY <1>2 DEF ContrDoc, ContrOf
  <2>2. \A w : <<"proto", b, x, w>> \in M <=> w = v
    OBVIOUS
  <2> HIDE DEF M
  <2> QED BY <2>1, <2>2
<1> HIDE DEF M, B
<1>16. ContrDoc(s, cache, B)
  <2> SUFFICES ASSUME NEW a \in Bridges, NEW y \in Ctrls PROVE ContrOf(s, cache, B, a, y)
    BY DEF ContrDoc
  <2>1. CASE a # b \/ y # x
    <3>1. <<a, y>> \in Contrs /\ <<a, y>> # z
      BY <1>4, <2>1 DEF Contrs
    <3>2. y \in s.bc[a] <=> y \in txn.bc[a]
      BY <1>3, <1>7, <2>1
    <3>3. ContrOf(txn, cache, ask, a, y)
      BY <1>2 DEF ContrDoc
    <3> QED BY <1>9, <1>12, <1>13, <2>1, <3>1, <3>2, <3>3 DEF ContrOf
  <2>2. CASE a = b /\ y = x
    <3>1. x \in s.bc[b] /\ Target(s, cache, <<b, x>>) = v
      BY <1>3, <1>7, <1>9
    <3> QED BY <1>14, <1>15, <2>2, <3>1 DEF ContrOf
  <2> QED BY <2>1, <2>2
<1>17. Tells(s, {}, M)
  BY <1>6, <1>10, <1>11, <1>16, ContrTold DEF Tells, B
<1> QED BY <1>17 DEF M

\* txn_mod_contr_target, ip-address: the protocol is that of the old target.
LEMMA ModContrIpTells ==
    ASSUME IInv, RInv, Clear, NEW c \in Ctrls, NEW s \in TxnModContrIp(txn, c)
    PROVE  Tells(s, {}, {})
<1>1. txn \in Rows /\ ContrDoc(txn, cache, ask) /\ cache \in [Contrs -> Protocols]
  BY ClearRows DEF Good, Told, IInv, TypeOK
<1>2. PICK x \in txn.contr :
         s = [txn EXCEPT !.fresh = @ \cup {x},
                         !.proto[x] = IF x \in txn.fresh THEN @ ELSE cache[x]]
  BY DEF TxnModContrIp, ContrsNamed
<1>3. x \in Contrs /\ txn.proto \in [Contrs -> Protocols]
  BY <1>1, Columns DEF Rows
<1>4. /\ SameQueues(txn, s) /\ s.port = txn.port /\ s.table = txn.table /\ s.bridge = txn.bridge
      /\ s.bp = txn.bp /\ s.bt = txn.bt /\ s.bc = txn.bc
      /\ s.fresh = txn.fresh \cup {x}
      /\ s.proto = [txn.proto EXCEPT ![x] = IF x \in txn.fresh THEN @ ELSE cache[x]]
  BY <1>1, <1>2 DEF Rows, SameQueues
<1>5. \A y \in Contrs : Target(s, cache, y) = Target(txn, cache, y)
  BY <1>3, <1>4 DEF Target
<1>6. \A b \in Bridges : \A y \in Ctrls : Target(s, cache, <<b, y>>) = Target(txn, cache, <<b, y>>)
  BY <1>5 DEF Contrs
<1>7. ContrDoc(s, cache, ask)
  <2> SUFFICES ASSUME NEW b \in Bridges, NEW y \in Ctrls PROVE ContrOf(s, cache, ask, b, y)
    BY DEF ContrDoc
  <2>1. ContrOf(txn, cache, ask, b, y)
    BY <1>1 DEF ContrDoc
  <2> QED BY <1>4, <1>6, <2>1 DEF ContrOf
<1>8. (ask \ {}) \cup {} = ask
  OBVIOUS
<1>9. ContrDoc(s, cache, (ask \ {}) \cup {}) /\ {} \subseteq Elements
  BY <1>7, <1>8
<1> QED BY <1>4, <1>9, ContrTold DEF Tells

\* In a clear edit a bridge's controller is the only one of its name.
LEMMA OwnContr ==
    ASSUME IInv, RInv, Clear, NEW b \in Bridges, NEW c \in Ctrls, c \in txn.bc[b],
           NEW x \in txn.contr, x[2] = c
    PROVE  x = <<b, c>>
<1>1. ~Ambiguous(txn) /\ <<b, c>> \in txn.contr
  BY ClearRows DEF Good, HasContrs
<1> QED BY <1>1 DEF Ambiguous

\* txn_del_contr
LEMMA DelContrTells ==
    ASSUME IInv, RInv, Clear, phase = "delete", NEW b \in Bridges, NEW c \in Ctrls,
           <<"contr", b, c>> \in doc, NEW s \in TxnDelContr(txn, b, c)
    PROVE  Tells(s, ContrNode(b, c), {})
<1> DEFINE D == ContrNode(b, c)
           B == (ask \ D) \cup {}
           size == Cardinality(txn.bc[b]) + Cardinality(Dead(txn, "bc", b))
           S == IF size = 1 THEN {} ELSE txn.bc[b] \ {c}
           L == IF size = 1 THEN {} ELSE Dead(txn, "bc", b)
           t == SetContrs(txn, b, S, L)
<1>1. txn \in Rows /\ ContrDoc(txn, cache, ask) /\ ask = doc
  BY ClearRows DEF Good, Told
<1>2. PICK x \in txn.contr :
         /\ x[2] = c
         /\ s = [t EXCEPT !.contr = @ \ {x}, !.bc[x[1]] = @ \ {c},
                          !.dead = IF c \in t.bc[x[1]] THEN @ \cup {<<"bc", x[1], c>>} ELSE @]
  BY DEF TxnDelContr, ContrsNamed
<1>3. c \in txn.bc[b]
  BY <1>1 DEF ContrDoc, ContrOf
<1>4. x = <<b, c>> /\ x[1] = b
  BY <1>2, <1>3, OwnContr
<1>5. S = txn.bc[b] \ {c}
  <2>1. Dead(txn, "bc", b) = {}
    <3> SUFFICES ASSUME NEW d \in txn.dead, d[1] = "bc" PROVE FALSE
      BY DEF Dead
    <3> QED BY DeadOfBridge
  <2>2. Cardinality(Dead(txn, "bc", b)) = 0
    BY <2>1, FS_EmptySet
  <2>3. IsFiniteSet(txn.bc[b])
    BY <1>1, RowsAssumption, FS_Subset, Columns
  <2>4. Cardinality(txn.bc[b]) \in Nat
    BY <2>3, FS_CardinalityType
  <2>5. size = 1 => Cardinality(txn.bc[b]) = 1
    BY <2>2, <2>4
  <2>6. Cardinality(txn.bc[b]) = 1 => \E e : txn.bc[b] = {e}
    BY <2>3, FS_Singleton
  <2>7. size = 1 => txn.bc[b] \ {c} = {}
    BY <1>3, <2>5, <2>6
  <2> HIDE DEF size
  <2> QED BY <2>7
<1> HIDE DEF S, L, size
<1>6. /\ SameQueues(txn, t) /\ t.port = txn.port /\ t.table = txn.table /\ t.bridge = txn.bridge
      /\ t.bp = txn.bp /\ t.bt = txn.bt /\ t.bc = [txn.bc EXCEPT ![b] = S]
      /\ t.fresh = txn.fresh /\ t.proto = txn.proto
  BY <1>1 DEF Rows, SetContrs, SameQueues
<1>7. /\ SameQueues(txn, s) /\ s.port = txn.port /\ s.table = txn.table /\ s.bridge = txn.bridge
      /\ s.bp = txn.bp /\ s.bt = txn.bt /\ s.bc = [t.bc EXCEPT ![b] = @ \ {c}]
      /\ s.fresh = txn.fresh /\ s.proto = txn.proto
  BY <1>1, <1>2, <1>4 DEF Rows, SetContrs, SameQueues
<1> HIDE DEF t
<1>8. \A a \in Bridges : s.bc[a] = IF a = b THEN txn.bc[a] \ {c} ELSE txn.bc[a]
  <2>1. txn.bc \in [Bridges -> SUBSET Ctrls]
    BY <1>1, Columns
  <2>2. t.bc \in [Bridges -> SUBSET Ctrls] /\ t.bc[b] = txn.bc[b] \ {c}
        /\ \A a \in Bridges : a # b => t.bc[a] = txn.bc[a]
    BY <1>5, <1>6, <2>1
  <2> QED BY <1>7, <2>2
<1>9. \A d \in D \cup {} : d[1] \in {"contr", "proto"}
  BY DEF ContrNode
<1>10. \A a, y : <<"contr", a, y>> \in B <=> <<"contr", a, y>> \in ask /\ (a # b \/ y # c)
  BY <1>1 DEF ContrNode
<1>11. \A a, y, v : <<"proto", a, y, v>> \in B <=> <<"proto", a, y, v>> \in ask /\ (a # b \/ y # c)
  BY <1>1 DEF ContrNode
<1>12. \A y : Target(s, cache, y) = Target(txn, cache, y)
  BY <1>7 DEF Target
<1> HIDE DEF B, D
<1>13. ContrDoc(s, cache, B)
  <2> SUFFICES ASSUME NEW a \in Bridges, NEW y \in Ctrls PROVE ContrOf(s, cache, B, a, y)
    BY DEF ContrDoc
  <2>1. ContrOf(txn, cache, ask, a, y)
    BY <1>1 DEF ContrDoc
  <2>2. y \in s.bc[a] <=> y \in txn.bc[a] /\ (a # b \/ y # c)
    BY <1>8
  <2> QED BY <1>10, <1>11, <1>12, <2>1, <2>2 DEF ContrOf
<1>14. Tells(s, D, {})
  BY <1>7, <1>9, <1>13, ContrTold DEF Tells, B
<1> QED BY <1>14 DEF D

\* A controller in an edit.
LEMMA EditContrDoc ==
    ASSUME IInv, RInv, NEW b \in Bridges, NEW c \in Ctrls, EditContr(b, c)
    PROVE  RInv'
<1>1. ASSUME NEW v \in Protocols, <<"contr", b, c>> \notin ask,
             Write(TxnAddContr(txn, b, c, v), {}, {<<"contr", b, c>>, <<"proto", b, c, v>>})
      PROVE  RInv'
  <2> DEFINE M == {<<"contr", b, c>>, <<"proto", b, c, v>>}
  <2>1. Editing /\ Handle(TxnAddContr(txn, b, c, v), {}, M)
    BY <1>1 DEF Write
  <2>2. \A s \in TxnAddContr(txn, b, c, v) : Clear => Tells(s, {}, M)
    BY <1>1, AddContrTells
  <2> HIDE DEF M
  <2> QED BY <2>1, <2>2, HandleDoc
<1>2. CASE <<"contr", b, c>> \in doc /\ Delete(TxnDelContr(txn, b, c), ContrNode(b, c))
  <2>1. /\ Editing /\ phase = "delete" /\ <<"contr", b, c>> \in doc
        /\ Handle(TxnDelContr(txn, b, c), ContrNode(b, c), {})
    BY <1>2 DEF Delete, Editing
  <2>2. \A s \in TxnDelContr(txn, b, c) : Clear => Tells(s, ContrNode(b, c), {})
    BY <2>1, DelContrTells
  <2> QED BY <2>1, <2>2, HandleDoc
<1>3. CASE Write(TxnModContrIp(txn, c), {}, {})
  <2>1. \A s \in TxnModContrIp(txn, c) : Clear => Tells(s, {}, {})
    BY ModContrIpTells
  <2> QED BY <1>3, <2>1, HandleDoc DEF Write
<1> QED BY <1>1, <1>2, <1>3 DEF EditContr

\* The protocol of a controller: the target that is changed in place, in the
\* transaction or in the IDL's copy, is the one that is shown afterwards.
LEMMA EditProtocolDoc ==
    ASSUME IInv, RInv, NEW b \in Bridges, NEW c \in Ctrls, NEW v \in Protocols, EditProtocol(b, c, v)
    PROVE  RInv'
<1> DEFINE old == {d \in doc : d[1] = "proto" /\ d[2] = b /\ d[3] = c}
           M == {<<"proto", b, c, v>>}
           B == (ask \ old) \cup M
<1>1. CASE TxnAbort /\ End("failed")
  BY <1>1, AbortDoc
<1>2. ASSUME NEW x \in ContrsNamed(txn, c),
             IF x \in txn.fresh
             THEN txn' = [txn EXCEPT !.proto[x] = v] /\ UNCHANGED cache
             ELSE cache' = [cache EXCEPT ![x] = v] /\ UNCHANGED txn,
             doc' = doc \ old, ask' = B, phase' = "write",
             UNCHANGED <<db, odd, swap, last>>
      PROVE  RInv'
  <2>1. Editing /\ old # {}
    BY DEF EditProtocol
  <2>2. /\ x \in txn.contr /\ x[2] = c /\ txn \in Rows /\ Good(txn)
        /\ cache \in [Contrs -> Protocols] /\ x \in Contrs
        /\ txn.proto \in [Contrs -> Protocols]
    BY Columns DEF ContrsNamed, IInv, TypeOK, Rows
  <2>3. last = NoEdit /\ last' = NoEdit
    BY <1>2, <2>1 DEF RInv
  <2>4. ReadBack'
    BY <2>3 DEF ReadBack, NoEdit
  <2>5. UsedTables(db)' /\ doc' \subseteq ask'
    BY <1>2 DEF RInv, UsedTables
  <2>6. ASSUME Clear PROVE Told(txn', cache', B, swap)
    <3>1. ContrDoc(txn, cache, ask) /\ doc \subseteq ask /\ ask \subseteq Elements
      BY <2>6, ClearRows DEF Told
    <3>2. PICK d \in doc : d[1] = "proto" /\ d[2] = b /\ d[3] = c
      BY <2>1
    <3>3. d \in ask /\ d \in Elements
      BY <3>1
    <3>4. PICK w \in Protocols : d = <<"proto", b, c, w>>
      BY <3>2, <3>3, Shape
    <3>5. c \in txn.bc[b] /\ Target(txn, cache, <<b, c>>) = w
      BY <3>1, <3>3, <3>4 DEF ContrDoc, ContrOf
    <3>6. x = <<b, c>>
      BY <2>2, <2>6, <3>5, OwnContr
    <3>7. /\ SameQueues(txn, txn') /\ txn'.port = txn.port /\ txn'.table = txn.table
          /\ txn'.bridge = txn.bridge /\ txn'.bp = txn.bp /\ txn'.bt = txn.bt
          /\ txn'.bc = txn.bc /\ txn'.fresh = txn.fresh
      BY <1>2, <2>2 DEF Rows, SameQueues
    <3>8. Target(txn', cache', x) = v
          /\ \A y \in Contrs : y # x => Target(txn', cache', y) = Target(txn, cache, y)
      <4>1. CASE x \in txn.fresh
        <5>1. txn'.proto = [txn.proto EXCEPT ![x] = v] /\ cache' = cache
          BY <1>2, <2>2, <4>1 DEF Rows
        <5> QED BY <2>2, <3>7, <4>1, <5>1 DEF Target
      <4>2. CASE x \notin txn.fresh
        <5>1. txn' = txn /\ cache' = [cache EXCEPT ![x] = v]
          BY <1>2, <4>2
        <5> QED BY <2>2, <4>2, <5>1 DEF Target
      <4> QED BY <4>1, <4>2
    <3>9. \A e \in old \cup M : e[1] \in {"contr", "proto"}
      OBVIOUS
    <3>10. M \subseteq Elements
      BY DEF Elements
    <3>11. \A a, y : <<"contr", a, y>> \in B <=> <<"contr", a, y>> \in ask
      OBVIOUS
    <3>12. \A a, y, u : (a # b \/ y # c) => (<<"proto", a, y, u>> \in B <=> <<"proto", a, y, u>> \in ask)
      OBVIOUS
    <3>13. \A u \in Protocols : <<"proto", b, c, u>> \in B <=> u = v
      <4>1. \A u \in Protocols : <<"proto", b, c, u>> \in ask => u = w
        BY <3>1, <3>5 DEF ContrDoc, ContrOf
      <4>2. <<"proto", b, c, w>> \in old
        BY <3>2, <3>4
      <4>3. \A u : <<"proto", b, c, u>> \in M <=> u = v
        OBVIOUS
      <4> HIDE DEF M, old
      <4> QED BY <4>1, <4>2, <4>3
    <3>14. Swapped(old) = {} /\ swap \cup {} = swap
      BY DEF Swapped
    <3> HIDE DEF B, M, old
    <3>15. ContrDoc(txn', cache', B)
      <4> SUFFICES ASSUME NEW a \in Bridges, NEW y \in Ctrls PROVE ContrOf(txn', cache', B, a, y)
        BY DEF ContrDoc
      <4>1. ContrOf(txn, cache, ask, a, y)
        BY <3>1 DEF ContrDoc
      <4>2. CASE a # b \/ y # c
        <5>1. <<a, y>> \in Contrs /\ <<a, y>> # x
          BY <3>6, <4>2 DEF Contrs
        <5>2. Target(txn', cache', <<a, y>>) = Target(txn, cache, <<a, y>>)
          BY <3>8, <5>1
        <5> QED BY <3>7, <3>11, <3>12, <4>1, <4>2, <5>2 DEF ContrOf
      <4>3. CASE a = b /\ y = c
        BY <3>5, <3>6, <3>7, <3>8, <3>11, <3>13, <4>1, <4>3 DEF ContrOf
      <4> QED BY <4>2, <4>3
    <3>16. Told(txn', cache', (ask \ old) \cup M, swap \cup Swapped(old))
      <4> DEFINE s == txn'
                 e == cache'
      <4>1. /\ SameQueues(txn, s) /\ s.port = txn.port /\ s.table = txn.table
            /\ s.bridge = txn.bridge /\ s.bp = txn.bp /\ s.bt = txn.bt
            /\ ContrDoc(s, e, (ask \ old) \cup M)
        BY <3>7, <3>15 DEF B
      <4> HIDE DEF s, e
      <4>2. Told(s, e, (ask \ old) \cup M, swap \cup Swapped(old))
        BY <2>6, <3>9, <3>10, <4>1, ContrTold
      <4> QED BY <4>2 DEF s, e
    <3> QED BY <3>14, <3>16 DEF B
  <2>7. DocInv'
    <3> SUFFICES ASSUME Clear' PROVE Told(txn, cache, ask, swap)'
      BY DEF DocInv
    <3>1. Clear
      BY <1>2, <2>1 DEF Clear
    <3>2. Told(txn', cache', ask', swap')
      BY <1>2, <2>6, <3>1
    <3> QED BY <3>2 DEF Told, PlaceDoc, QueueDoc, QueueOf, BridgeDoc, ContrDoc, ContrOf, Target,
                        FindQueuePort, Pairs
  <2> QED BY <2>3, <2>4, <2>5, <2>7 DEF RInv
<1> QED BY <1>1, <1>2 DEF EditProtocol

-----------------------------------------------------------------------------
(* The document that is read                                               *)

Read(r, c, f) ==
    PortConfig(r) \cup QueueConfig(r, f) \cup FlowTableConfig(r) \cup BridgeConfig(r, c)

IsRead(e, r, c, f) ==
    \/ \E p \in r.port : e = <<"port", p>>
    \/ \E q \in Queues : r.qid[q] # None /\ e = <<"queue", q>>
    \/ \E q \in Queues : r.qid[q] # None /\ e = <<"qid", q, r.qid[q]>>
    \/ \E q \in Queues : f[q] # None /\ e = <<"qport", q, f[q]>>
    \/ \E t \in Tables : (\E b \in r.bridge : t \in r.bt[b]) /\ e = <<"table", t>>
    \/ \E b \in r.bridge : e = <<"bridge", b>>
    \/ \E b \in r.bridge : \E p \in r.bp[b] : e = <<"bport", b, p>>
    \/ \E b \in r.bridge : \E t \in r.bt[b] : e = <<"btable", b, t>>
    \/ \E b \in r.bridge : \E x \in r.bc[b] : e = <<"contr", b, x>>
    \/ \E b \in r.bridge : \E x \in r.bc[b] : e = <<"proto", b, x, c[<<b, x>>]>>

\* The elements of the document that is read from rows r.
LEMMA InRead ==
    ASSUME NEW r, NEW c, NEW f, NEW e
    PROVE  e \in Read(r, c, f) <=> IsRead(e, r, c, f)
<1>1. e \in PortConfig(r) <=> \E p \in r.port : e = <<"port", p>>
  BY DEF PortConfig
<1>2. e \in QueueConfig(r, f) <=>
        \/ \E q \in Queues : r.qid[q] # None /\ e = <<"queue", q>>
        \/ \E q \in Queues : r.qid[q] # None /\ e = <<"qid", q, r.qid[q]>>
        \/ \E q \in Queues : f[q] # None /\ e = <<"qport", q, f[q]>>
  BY DEF QueueConfig
<1>3. e \in FlowTableConfig(r) <=>
        \E t \in Tables : (\E b \in r.bridge : t \in r.bt[b]) /\ e = <<"table", t>>
  BY DEF FlowTableConfig
<1> DEFINE Part(b) == {<<"bridge", b>>}
                      \cup {<<"bport", b, p>> : p \in r.bp[b]}
                      \cup {<<"btable", b, t>> : t \in r.bt[b]}
                      \cup {<<"contr", b, x>> : x \in r.bc[b]}
                      \cup {<<"proto", b, x, c[<<b, x>>]>> : x \in r.bc[b]}
<1>4. ASSUME NEW b
      PROVE  e \in Part(b) <=> \/ e = <<"bridge", b>>
                               \/ \E p \in r.bp[b] : e = <<"bport", b, p>>
                               \/ \E t \in r.bt[b] : e = <<"btable", b, t>>
                               \/ \E x \in r.bc[b] : e = <<"contr", b, x>>
                               \/ \E x \in r.bc[b] : e = <<"proto", b, x, c[<<b, x>>]>>
  OBVIOUS
<1>5. BridgeConfig(r, c) = UNION {Part(b) : b \in r.bridge}
  BY DEF BridgeConfig
<1> HIDE DEF Part
<1>6. e \in BridgeConfig(r, c) <=> \E b \in r.bridge : e \in Part(b)
  BY <1>5
<1> QED BY <1>1, <1>2, <1>3, <1>4, <1>6 DEF Read, IsRead

\* What it says of each kind of element.
ReadIs(A, r, c, f) ==
    /\ \A p : <<"port", p>> \in A <=> p \in r.port
    /\ \A t : <<"table", t>> \in A <=> t \in Tables /\ \E b \in r.bridge : t \in r.bt[b]
    /\ \A q : <<"queue", q>> \in A <=> q \in Queues /\ r.qid[q] # None
    /\ \A q, i : <<"qid", q, i>> \in A <=> q \in Queues /\ r.qid[q] # None /\ i = r.qid[q]
    /\ \A q, p : <<"qport", q, p>> \in A <=> q \in Queues /\ f[q] # None /\ p = f[q]
    /\ \A b : <<"bridge", b>> \in A <=> b \in r.bridge
    /\ \A b, p : <<"bport", b, p>> \in A <=> b \in r.bridge /\ p \in r.bp[b]
    /\ \A b, t : <<"btable", b, t>> \in A <=> b \in r.bridge /\ t \in r.bt[b]
    /\ \A b, x : <<"contr", b, x>> \in A <=> b \in r.bridge /\ x \in r.bc[b]
    /\ \A b, x, v : <<"proto", b, x, v>> \in A <=>
          b \in r.bridge /\ x \in r.bc[b] /\ v = c[<<b, x>>]

LEMMA ReadKinds ==
    ASSUME NEW r, NEW c, NEW f
    PROVE  ReadIs(Read(r, c, f), r, c, f)
<1> DEFINE A == Read(r, c, f)
<1>1. \A p : IsRead(<<"port", p>>, r, c, f) <=> p \in r.port
  BY DEF IsRead
<1>2. \A t : IsRead(<<"table", t>>, r, c, f) <=> t \in Tables /\ \E b \in r.bridge : t \in r.bt[b]
  BY DEF IsRead
<1>3. \A q : IsRead(<<"queue", q>>, r, c, f) <=> q \in Queues /\ r.qid[q] # None
  BY DEF IsRead
<1>4. \A q, i : IsRead(<<"qid", q, i>>, r, c, f) <=> q \in Queues /\ r.qid[q] # None /\ i = r.qid[q]
  BY DEF IsRead
<1>5. \A q, p : IsRead(<<"qport", q, p>>, r, c, f) <=> q \in Queues /\ f[q] # None /\ p = f[q]
  BY DEF IsRead
<1>6. \A b : IsRead(<<"bridge", b>>, r, c, f) <=> b \in r.bridge
  BY DEF IsRead
<1>7. \A b, p : IsRead(<<"bport", b, p>>, r, c, f) <=> b \in r.bridge /\ p \in r.bp[b]
  BY DEF IsRead
<1>8. \A b, t : IsRead(<<"btable", b, t>>, r, c, f) <=> b \in r.bridge /\ t \in r.bt[b]
  BY DEF IsRead
<1>9. \A b, x : IsRead(<<"contr", b, x>>, r, c, f) <=> b \in r.bridge /\ x \in r.bc[b]
  BY DEF IsRead
<1>10. \A b, x, v : IsRead(<<"proto", b, x, v>>, r, c, f) <=>
          b \in r.bridge /\ x \in r.bc[b] /\ v = c[<<b, x>>]
  <2> TAKE b, x, v
  <2> DEFINE e == <<"proto", b, x, v>>
             k(y, z) == c[<<y, z>>]
  <2>1. IsRead(e, r, c, f) <=> \E a \in r.bridge : \E y \in r.bc[a] : e = <<"proto", a, y, k(a, y)>>
    BY DEF IsRead
  <2>2. b \in r.bridge /\ x \in r.bc[b] /\ v = c[<<b, x>>] <=>
          b \in r.bridge /\ x \in r.bc[b] /\ v = k(b, x)
    OBVIOUS
  <2> HIDE DEF k
  <2>3. (\E a \in r.bridge : \E y \in r.bc[a] : e = <<"proto", a, y, k(a, y)>>) <=>
          b \in r.bridge /\ x \in r.bc[b] /\ v = k(b, x)
    OBVIOUS
  <2> QED BY <2>1, <2>2, <2>3
<1>11. \A e : e \in A <=> IsRead(e, r, c, f)
  BY InRead
<1> HIDE DEF A
<1>12. ReadIs(A, r, c, f)
  BY <1>1, <1>2, <1>3, <1>4, <1>5, <1>6, <1>7, <1>8, <1>9, <1>10, <1>11 DEF ReadIs
<1> QED BY <1>12 DEF A

\* What is read is a document.
LEMMA ReadElements ==
    ASSUME NEW r, Good(r), NEW c \in [Contrs -> Protocols], NEW f \in QueuePorts(r)
    PROVE  Read(r, c, f) \subseteq Elements
<1> SUFFICES ASSUME NEW e \in Read(r, c, f) PROVE e \in Elements
  OBVIOUS
<1>1. r \in Rows
  BY DEF Good
<1>2. f \in [Queues -> Ports \cup {None}]
  BY DEF QueuePorts
<1>3. ASSUME NEW p \in r.port, e = <<"port", p>> PROVE e \in Elements
  BY <1>1, <1>3, Columns DEF Elements
<1>4. ASSUME NEW q \in Queues, e = <<"queue", q>> PROVE e \in Elements
  BY <1>4 DEF Elements
<1>5. ASSUME NEW q \in Queues, r.qid[q] # None, e = <<"qid", q, r.qid[q]>> PROVE e \in Elements
  <2>1. r.qid[q] \in Ids
    BY <1>1, <1>5, Columns
  <2> QED BY <1>5, <2>1 DEF Elements
<1>6. ASSUME NEW q \in Queues, f[q] # None, e = <<"qport", q, f[q]>> PROVE e \in Elements
  <2>1. f[q] \in Ports
    BY <1>2, <1>6
  <2> QED BY <1>6, <2>1 DEF Elements
<1>7. ASSUME NEW t \in Tables, e = <<"table", t>> PROVE e \in Elements
  BY <1>7 DEF Elements
<1>8. ASSUME NEW b \in r.bridge, e = <<"bridge", b>> PROVE e \in Elements
  BY <1>1, <1>8, Columns DEF Elements
<1>9. ASSUME NEW b \in r.bridge, NEW p \in r.bp[b], e = <<"bport", b, p>> PROVE e \in Elements
  <2>1. b \in Bridges /\ p \in Ports
    BY <1>1, Columns
  <2> QED BY <1>9, <2>1 DEF Elements
<1>10. ASSUME NEW b \in r.bridge, NEW t \in r.bt[b], e = <<"btable", b, t>> PROVE e \in Elements
  <2>1. b \in Bridges /\ t \in Tables
    BY <1>1, Columns
  <2> QED BY <1>10, <2>1 DEF Elements
<1>11. ASSUME NEW b \in r.bridge, NEW x \in r.bc[b], e = <<"contr", b, x>> PROVE e \in Elements
  <2>1. b \in Bridges /\ x \in Ctrls
    BY <1>1, Columns
  <2> QED BY <1>11, <2>1 DEF Elements
<1>12. ASSUME NEW b \in r.bridge, NEW x \in r.bc[b], e = <<"proto", b, x, c[<<b, x>>]>>
       PROVE  e \in Elements
  <2>1. b \in Bridges /\ x \in Ctrls
    BY <1>1, Columns
  <2>2. c[<<b, x>>] \in Protocols
    BY <2>1 DEF Contrs
  <2> QED BY <1>12, <2>1, <2>2 DEF Elements
<1>13. IsRead(e, r, c, f)
  BY InRead
<1> QED BY <1>3, <1>4, <1>5, <1>6, <1>7, <1>8, <1>9, <1>10, <1>11, <1>12, <1>13 DEF IsRead

\* A queue is at one port at most, and that is the one shown.
LEMMA ShownPort ==
    ASSUME NEW r, Good(r), NEW f \in QueuePorts(r), NEW q \in Queues
    PROVE  /\ f[q] \in Ports \cup {None}
           /\ \A p \in Ports : p \in FindQueuePort(r, q) <=> f[q] = p
           /\ \A p \in FindQueuePort(r, q) : p \in Ports /\ p # None
           /\ f[q] # None => r.qid[q] # None
<1>1. r \in Rows /\ f \in [Queues -> Ports \cup {None}]
  BY DEF Good, QueuePorts
<1>2. IF r.qid[q] = None \/ FindQueuePort(r, q) = {} THEN f[q] = None ELSE f[q] \in FindQueuePort(r, q)
  BY DEF QueuePorts
<1>3. FindQueuePort(r, q) \subseteq Ports
  BY <1>1, Columns DEF FindQueuePort
<1>4. FindQueuePort(r, q) # {} => r.qid[q] # None
  BY NoQueue
<1>5. ASSUME NEW p \in FindQueuePort(r, q), NEW o \in FindQueuePort(r, q) PROVE p = o
  <2>1. PICK x \in Pairs(r, r.pq[p], q) : r.pq[p] # None
    BY DEF FindQueuePort
  <2>2. PICK y \in Pairs(r, r.pq[o], q) : r.pq[o] # None
    BY DEF FindQueuePort
  <2>3. x \in r.qos[r.pq[p]] /\ y \in r.qos[r.pq[o]] /\ x[2] = q /\ y[2] = q
    BY DEF Pairs
  <2> QED BY <1>3, <2>1, <2>2, <2>3 DEF Good, OnePlace
<1>6. None \notin Ports
  BY RowsAssumption
<1> QED BY <1>1, <1>2, <1>3, <1>4, <1>5, <1>6

\* The document that is read tells the rows.
LEMMA ReadTold ==
    ASSUME NEW r, Good(r), r.fresh = {}, UsedTables(r), NEW c \in [Contrs -> Protocols],
           NEW f \in QueuePorts(r)
    PROVE  Told(r, c, Read(r, c, f), {})
<1> DEFINE A == Read(r, c, f)
<1>1. A \subseteq Elements /\ ReadIs(A, r, c, f)
  BY ReadElements, ReadKinds
<1> HIDE DEF A
<1>2. r \in Rows /\ Refs(r) /\ NoBridge(r) /\ r.bridge \subseteq Bridges
  BY Columns DEF Good
<1>3. PlaceDoc(r, A)
  <2>1. \A p \in Ports : <<"port", p>> \in A <=> p \in r.port
    BY <1>1 DEF ReadIs
  <2>2. \A t \in Tables : <<"table", t>> \in A <=> \E b \in r.bridge : t \in r.bt[b]
    BY <1>1 DEF ReadIs
  <2>3. \A t : t \in r.table <=> \E b \in r.bridge : t \in r.bt[b]
    BY <1>2 DEF Refs, UsedTables
  <2> QED BY <2>1, <2>2, <2>3 DEF PlaceDoc
<1>4. ASSUME NEW q \in Queues PROVE QueueOf(r, A, {}, q)
  <2>1. <<"queue", q>> \in A <=> r.qid[q] # None
    BY <1>1 DEF ReadIs
  <2>2. \A i \in Ids : <<"qid", q, i>> \in A <=> r.qid[q] = i
    <3>1. \A i \in Ids : i # None
      BY RowsAssumption
    <3>2. \A i \in Ids : <<"qid", q, i>> \in A <=> r.qid[q] # None /\ i = r.qid[q]
      BY <1>1 DEF ReadIs
    <3> QED BY <3>1, <3>2
  <2>3. \A p : <<"qport", q, p>> \in A <=> f[q] # None /\ p = f[q]
    BY <1>1 DEF ReadIs
  <2>4. /\ f[q] \in Ports \cup {None}
        /\ \A p \in Ports : p \in FindQueuePort(r, q) <=> f[q] = p
        /\ \A p \in FindQueuePort(r, q) : p \in Ports /\ p # None
        /\ f[q] # None => r.qid[q] # None
    BY ShownPort
  <2> QED BY <2>1, <2>2, <2>3, <2>4 DEF QueueOf
<1>5. BridgeDoc(r, A, {})
  <2>1. \A b : <<"bridge", b>> \in A <=> b \in r.bridge
    BY <1>1 DEF ReadIs
  <2>2. \A b, p : <<"bport", b, p>> \in A <=> b \in r.bridge /\ p \in r.bp[b]
    BY <1>1 DEF ReadIs
  <2>3. \A b, t : <<"btable", b, t>> \in A <=> b \in r.bridge /\ t \in r.bt[b]
    BY <1>1 DEF ReadIs
  <2> QED BY <2>1, <2>2, <2>3 DEF BridgeDoc
<1>6. ASSUME NEW b \in Bridges, NEW x \in Ctrls PROVE ContrOf(r, c, A, b, x)
  <2>1. x \in r.bc[b] => b \in r.bridge
    BY <1>2 DEF NoBridge
  <2>2. <<"contr", b, x>> \in A <=> x \in r.bc[b]
    BY <1>1, <2>1 DEF ReadIs
  <2>3. \A v \in Protocols : <<"proto", b, x, v>> \in A <=> x \in r.bc[b] /\ v = c[<<b, x>>]
    BY <1>1, <2>1 DEF ReadIs
  <2>4. Target(r, c, <<b, x>>) = c[<<b, x>>]
    BY DEF Target
  <2> QED BY <2>2, <2>3, <2>4 DEF ContrOf
<1>7. Told(r, c, A, {})
  BY <1>1, <1>3, <1>4, <1>5, <1>6 DEF Told, QueueDoc, ContrDoc
<1> QED BY <1>7 DEF A

\* What is shown is read.
LEMMA ShownIsRead ==
    ASSUME NEW r, NEW c
    PROVE  Shown(r, c) = {Read(r, c, f) : f \in QueuePorts(r)}
BY DEF Shown, Read

\* ofcds_editconfig reads the running document.
LEMMA BeginDoc == ASSUME IInv, RInv, Begin PROVE RInv'
<1>1. /\ txn' = db /\ db' = db /\ cache' = cache /\ doc' \in Shown(db, cache) /\ ask' = doc'
      /\ swap' = {} /\ last' = NoEdit
  BY DEF Begin
<1>2. Good(db) /\ db.fresh = {} /\ cache \in [Contrs -> Protocols] /\ UsedTables(db)
  BY DEF IInv, RInv, TypeOK
<1>3. PICK f \in QueuePorts(db) : doc' = Read(db, cache, f)
  BY <1>1, ShownIsRead
<1>4. Told(db, cache, doc', {})
  BY <1>2, <1>3, ReadTold
<1>5. Told(txn', cache', ask', swap')
  BY <1>1, <1>4
<1>6. DocInv'
  BY <1>5 DEF DocInv, Told, PlaceDoc, QueueDoc, QueueOf, BridgeDoc, ContrDoc, ContrOf, Target,
              FindQueuePort, Pairs
<1>7. ReadBack'
  BY <1>1 DEF ReadBack, NoEdit
<1>8. UsedTables(db)'
  BY <1>1, <1>2 DEF UsedTables
<1> QED BY <1>1, <1>6, <1>7, <1>8 DEF RInv

\* A commit that OVSDB refuses.
LEMMA RefusedDoc == ASSUME RInv, CommitRefused PROVE RInv'
<1>1. db' = db /\ cache' = cache /\ Idle
      /\ last' = [res |-> "refused", ask |-> ask, odd |-> odd, swap |-> swap, cut |-> cut]
  BY DEF CommitRefused, TxnAbort, End
<1>2. last'.res = "refused"
  BY <1>1
<1> QED BY <1>1, <1>2 DEF RInv, Idle, DocInv, Clear, Editing, ReadBack, UsedTables

-----------------------------------------------------------------------------
(* Commit                                                                  *)

\* Documents are compared kind by kind.
SameKinds(X, Y) ==
    /\ \A p \in Ports : <<"port", p>> \in X <=> <<"port", p>> \in Y
    /\ \A t \in Tables : <<"table", t>> \in X <=> <<"table", t>> \in Y
    /\ \A q \in Queues : <<"queue", q>> \in X <=> <<"queue", q>> \in Y
    /\ \A q \in Queues, i \in Ids : <<"qid", q, i>> \in X <=> <<"qid", q, i>> \in Y
    /\ \A q \in Queues, p \in Ports : <<"qport", q, p>> \in X <=> <<"qport", q, p>> \in Y
    /\ \A b \in Bridges : <<"bridge", b>> \in X <=> <<"bridge", b>> \in Y
    /\ \A b \in Bridges, p \in Ports : <<"bport", b, p>> \in X <=> <<"bport", b, p>> \in Y
    /\ \A b \in Bridges, t \in Tables : <<"btable", b, t>> \in X <=> <<"btable", b, t>> \in Y
    /\ \A b \in Bridges, x \in Ctrls : <<"contr", b, x>> \in X <=> <<"contr", b, x>> \in Y
    /\ \A b \in Bridges, x \in Ctrls, v \in Protocols :
          <<"proto", b, x, v>> \in X <=> <<"proto", b, x, v>> \in Y

LEMMA SameDocument ==
    ASSUME NEW X, X \subseteq Elements, NEW Y, Y \subseteq Elements, SameKinds(X, Y)
    PROVE  X = Y
<1>1. ASSUME NEW d \in Elements PROVE d \in X <=> d \in Y
  <2>1. \/ \E p \in Ports : d = <<"port", p>>
        \/ \E t \in Tables : d = <<"table", t>>
        \/ \E q \in Queues : d = <<"queue", q>>
        \/ \E q \in Queues, i \in Ids : d = <<"qid", q, i>>
        \/ \E q \in Queues, p \in Ports : d = <<"qport", q, p>>
        \/ \E b \in Bridges : d = <<"bridge", b>>
        \/ \E b \in Bridges, p \in Ports : d = <<"bport", b, p>>
        \/ \E b \in Bridges, t \in Tables : d = <<"btable", b, t>>
        \/ \E b \in Bridges, x \in Ctrls : d = <<"contr", b, x>>
        \/ \E b \in Bridges, x \in Ctrls, v \in Protocols : d = <<"proto", b, x, v>>
    BY Shape
  <2> QED BY <2>1 DEF SameKinds
<1> QED BY <1>1

\* What OVSDB keeps of a document.
LEMMA KeptKinds ==
    ASSUME NEW A
    PROVE  /\ \A p : <<"port", p>> \in Kept(A) <=>
                 <<"port", p>> \in A /\ \E b \in Bridges : <<"bport", b, p>> \in A
           /\ \A t : <<"table", t>> \in Kept(A) <=>
                 <<"table", t>> \in A /\ \E b \in Bridges : <<"btable", b, t>> \in A
           /\ \A q, p : <<"qport", q, p>> \in Kept(A) <=>
                 <<"qport", q, p>> \in A /\ \E b \in Bridges : <<"bport", b, p>> \in A
           /\ \A a \in A : a[1] \notin {"port", "table", "qport"} => a \in Kept(A)
           /\ Kept(A) \subseteq A
<1> DEFINE Stays(a) ==
       CASE a[1] = "port"  -> \E b \in Bridges : <<"bport", b, a[2]>> \in A
         [] a[1] = "table" -> \E b \in Bridges : <<"btable", b, a[2]>> \in A
         [] a[1] = "qport" -> \E b \in Bridges : <<"bport", b, a[3]>> \in A
         [] OTHER          -> TRUE
<1>1. \A a : a \in Kept(A) <=> a \in A /\ Stays(a)
  BY DEF Kept
<1>2. \A p : Stays(<<"port", p>>) <=> \E b \in Bridges : <<"bport", b, p>> \in A
  OBVIOUS
<1>3. \A t : Stays(<<"table", t>>) <=> \E b \in Bridges : <<"btable", b, t>> \in A
  OBVIOUS
<1>4. \A q, p : Stays(<<"qport", q, p>>) <=> \E b \in Bridges : <<"bport", b, p>> \in A
  OBVIOUS
<1>5. \A a : a[1] \notin {"port", "table", "qport"} => Stays(a)
  OBVIOUS
<1> HIDE DEF Stays
<1> QED BY <1>1, <1>2, <1>3, <1>4, <1>5

\* The columns after the garbage collection.
LEMMA Collected ==
    ASSUME NEW r, Good(r)
    PROVE  LET s == Collect(r)
           IN  /\ s.port = {p \in r.port : \E b \in r.bridge : p \in r.bp[b]}
               /\ s.table = {t \in r.table : \E b \in r.bridge : t \in r.bt[b]}
               /\ s.contr = {x \in r.contr : x[2] \in r.bc[x[1]]}
               /\ s.bridge = r.bridge /\ s.bp = r.bp /\ s.bt = r.bt /\ s.bc = r.bc
               /\ UsedTables(s)
               /\ \A q \in Queues : \A p : p \in FindQueuePort(s, q) <=>
                     p \in FindQueuePort(r, q) /\ \E b \in r.bridge : p \in r.bp[b]
<1> DEFINE P == {p \in r.port : \E b \in r.bridge : p \in r.bp[b]}
           T == {t \in r.table : \E b \in r.bridge : t \in r.bt[b]}
           C == {x \in r.contr : x[2] \in r.bc[x[1]]}
           Q == [p \in Ports |-> IF p \in P THEN r.pq[p] ELSE None]
           s == Collect(r)
<1>1. r \in Rows
  BY DEF Good
<1>2. /\ s.port = P /\ s.table = T /\ s.contr = C /\ s.pq = Q /\ s.qos = r.qos
      /\ s.bridge = r.bridge /\ s.bp = r.bp /\ s.bt = r.bt /\ s.bc = r.bc
  BY <1>1 DEF Collect, Rows
<1>3. UsedTables(s)
  BY <1>2 DEF UsedTables
<1>4. ASSUME NEW q \in Queues, NEW p
      PROVE  p \in FindQueuePort(s, q) <=>
               p \in FindQueuePort(r, q) /\ \E b \in r.bridge : p \in r.bp[b]
  <2>1. p \in P <=> p \in r.port /\ \E b \in r.bridge : p \in r.bp[b]
    OBVIOUS
  <2>2. p \in P => p \in Ports /\ Q[p] = r.pq[p]
    BY <1>1, Columns
  <2> HIDE DEF P, Q, s
  <2> QED BY <1>2, <2>1, <2>2 DEF FindQueuePort, Pairs
<1> QED BY <1>2, <1>3, <1>4

\* Some choice of ports is shown.
LEMMA SomePorts ==
    ASSUME NEW r, Good(r)
    PROVE  QueuePorts(r) # {}
<1> DEFINE f == [q \in Queues |-> IF r.qid[q] = None \/ FindQueuePort(r, q) = {} THEN None
                                  ELSE CHOOSE p \in FindQueuePort(r, q) : TRUE]
<1>1. \A q \in Queues : FindQueuePort(r, q) \subseteq Ports
  BY Columns DEF Good, FindQueuePort
<1>2. \A q \in Queues : IF r.qid[q] = None \/ FindQueuePort(r, q) = {}
                        THEN f[q] = None ELSE f[q] \in FindQueuePort(r, q)
  OBVIOUS
<1>3. f \in [Queues -> Ports \cup {None}]
  BY <1>1
<1>4. f \in QueuePorts(r)
  BY <1>2, <1>3 DEF QueuePorts
<1> QED BY <1>4

\* An edit that is plain keeps no reference to what it deletes: then the
\* document has the references that the rows have.
LEMMA PlainRefs ==
    ASSUME NEW r, Good(r), NEW c, NEW A, NEW W, Told(r, c, A, W), AskedBridges(r, A),
           ~Dangling(A), W \cap A = {}
    PROVE  /\ \A b \in Bridges, p \in Ports : <<"bport", b, p>> \in A <=> p \in r.bp[b]
           /\ \A b \in Bridges, t \in Tables : <<"btable", b, t>> \in A <=> t \in r.bt[b]
           /\ \A q \in Queues, p \in Ports : <<"qport", q, p>> \in A <=> p \in FindQueuePort(r, q)
<1>1. \A a \in A : /\ a[1] \in {"bport", "qport"} => <<"port", a[3]>> \in A
                   /\ a[1] = "btable" => <<"table", a[3]>> \in A
  BY DEF Dangling
<1>2. \A b, p : <<"bport", b, p>> \in A => <<"port", p>> \notin W
  <2> SUFFICES ASSUME NEW b, NEW p, <<"bport", b, p>> \in A PROVE <<"port", p>> \in A
    OBVIOUS
  <2>1. <<"bport", b, p>>[1] = "bport" /\ <<"bport", b, p>>[3] = p
    OBVIOUS
  <2> QED BY <1>1, <2>1
<1>3. \A q, p : <<"qport", q, p>> \in A => <<"port", p>> \notin W
  <2> SUFFICES ASSUME NEW q, NEW p, <<"qport", q, p>> \in A PROVE <<"port", p>> \in A
    OBVIOUS
  <2>1. <<"qport", q, p>>[1] = "qport" /\ <<"qport", q, p>>[3] = p
    OBVIOUS
  <2> QED BY <1>1, <2>1
<1>4. \A b, t : <<"btable", b, t>> \in A => <<"table", t>> \notin W
  <2> SUFFICES ASSUME NEW b, NEW t, <<"btable", b, t>> \in A PROVE <<"table", t>> \in A
    OBVIOUS
  <2>1. <<"btable", b, t>>[1] = "btable" /\ <<"btable", b, t>>[3] = t
    OBVIOUS
  <2> QED BY <1>1, <2>1
<1>5. \A b \in Bridges, p \in Ports : <<"bport", b, p>> \in A <=> p \in r.bp[b]
  BY <1>2 DEF Told, BridgeDoc, AskedBridges
<1>6. \A b \in Bridges, t \in Tables : <<"btable", b, t>> \in A <=> t \in r.bt[b]
  BY <1>4 DEF Told, BridgeDoc, AskedBridges
<1>7. ASSUME NEW q \in Queues, NEW p \in Ports
      PROVE  <<"qport", q, p>> \in A <=> p \in FindQueuePort(r, q)
  BY <1>3 DEF Told, QueueDoc, QueueOf
<1> QED BY <1>5, <1>6, <1>7

\* What is read of the rows after the commit of a plain edit.
LEMMA CommittedRead ==
    ASSUME NEW r, Good(r), NEW c, NEW A, NEW W, Told(r, c, A, W), AskedBridges(r, A),
           ~Dangling(A), W \cap A = {},
           NEW e \in [Contrs -> Protocols],
           \A b \in Bridges : \A x \in r.bc[b] : e[<<b, x>>] = Target(r, c, <<b, x>>),
           NEW f \in QueuePorts(Collect(r))
    PROVE  Read(Collect(r), e, f) = Kept(A)
<1> DEFINE s == Collect(r)
           X == Read(s, e, f)
           Y == Kept(A)
<1>1. Good(s) /\ s.qid = r.qid
  BY CollectIsGood
<1>2. /\ s.port = {p \in r.port : \E b \in r.bridge : p \in r.bp[b]}
      /\ s.bridge = r.bridge /\ s.bp = r.bp /\ s.bt = r.bt /\ s.bc = r.bc
      /\ \A q \in Queues : \A p : p \in FindQueuePort(s, q) <=>
            p \in FindQueuePort(r, q) /\ \E b \in r.bridge : p \in r.bp[b]
  BY Collected
<1>3. X \subseteq Elements /\ ReadIs(X, s, e, f)
  BY <1>1, ReadElements, ReadKinds
<1>4. /\ \A b \in Bridges, p \in Ports : <<"bport", b, p>> \in A <=> p \in r.bp[b]
      /\ \A b \in Bridges, t \in Tables : <<"btable", b, t>> \in A <=> t \in r.bt[b]
      /\ \A q \in Queues, p \in Ports : <<"qport", q, p>> \in A <=> p \in FindQueuePort(r, q)
  BY PlainRefs
<1>5. /\ \A p : <<"port", p>> \in Y <=>
            <<"port", p>> \in A /\ \E b \in Bridges : <<"bport", b, p>> \in A
      /\ \A t : <<"table", t>> \in Y <=>
            <<"table", t>> \in A /\ \E b \in Bridges : <<"btable", b, t>> \in A
      /\ \A q, p : <<"qport", q, p>> \in Y <=>
            <<"qport", q, p>> \in A /\ \E b \in Bridges : <<"bport", b, p>> \in A
      /\ \A a \in A : a[1] \notin {"port", "table", "qport"} => a \in Y
      /\ Y \subseteq A
  BY KeptKinds
<1>6. \A q \in Queues : /\ f[q] \in Ports \cup {None}
                        /\ \A p \in Ports : p \in FindQueuePort(s, q) <=> f[q] = p
  BY <1>1, ShownPort
<1> HIDE DEF s, X, Y
<1>7. r \in Rows /\ Refs(r) /\ NoBridge(r) /\ r.bridge \subseteq Bridges /\ A \subseteq Elements
  BY Columns DEF Good, Told
<1>8. \A p : (\E b \in r.bridge : p \in r.bp[b]) <=> (\E b \in Bridges : p \in r.bp[b])
  BY <1>7 DEF NoBridge
<1>9. \A t : (\E b \in r.bridge : t \in r.bt[b]) <=> (\E b \in Bridges : t \in r.bt[b])
  BY <1>7 DEF NoBridge
<1>10. ASSUME NEW p \in Ports PROVE <<"port", p>> \in X <=> <<"port", p>> \in Y
  <2>1. <<"port", p>> \in X <=> p \in r.port /\ \E b \in Bridges : p \in r.bp[b]
    BY <1>2, <1>3, <1>8 DEF ReadIs
  <2>2. <<"port", p>> \in A <=> p \in r.port
    BY DEF Told, PlaceDoc
  <2> QED BY <1>4, <1>5, <2>1, <2>2
<1>11. ASSUME NEW t \in Tables PROVE <<"table", t>> \in X <=> <<"table", t>> \in Y
  <2>1. <<"table", t>> \in X <=> \E b \in Bridges : t \in r.bt[b]
    BY <1>2, <1>3, <1>9 DEF ReadIs
  <2>2. <<"table", t>> \in A <=> t \in r.table
    BY DEF Told, PlaceDoc
  <2>3. \A b \in Bridges : t \in r.bt[b] => t \in r.table
    BY <1>7 DEF Refs
  <2> QED BY <1>4, <1>5, <2>1, <2>2, <2>3
<1>12. ASSUME NEW q \in Queues PROVE <<"queue", q>> \in X <=> <<"queue", q>> \in Y
  <2>1. <<"queue", q>> \in X <=> r.qid[q] # None
    BY <1>1, <1>3 DEF ReadIs
  <2>2. <<"queue", q>> \in A <=> r.qid[q] # None
    BY DEF Told, QueueDoc, QueueOf
  <2>3. <<"queue", q>> \in Y <=> <<"queue", q>> \in A
    BY <1>5
  <2> QED BY <2>1, <2>2, <2>3
<1>13. ASSUME NEW q \in Queues, NEW i \in Ids PROVE <<"qid", q, i>> \in X <=> <<"qid", q, i>> \in Y
  <2>1. <<"qid", q, i>> \in X <=> r.qid[q] # None /\ i = r.qid[q]
    BY <1>1, <1>3 DEF ReadIs
  <2>2. <<"qid", q, i>> \in A <=> r.qid[q] = i
    BY DEF Told, QueueDoc, QueueOf
  <2>3. <<"qid", q, i>> \in Y <=> <<"qid", q, i>> \in A
    BY <1>5
  <2>4. i # None
    BY RowsAssumption
  <2> QED BY <2>1, <2>2, <2>3, <2>4
<1>14. ASSUME NEW q \in Queues, NEW p \in Ports
       PROVE  <<"qport", q, p>> \in X <=> <<"qport", q, p>> \in Y
  <2>1. <<"qport", q, p>> \in X <=> f[q] # None /\ p = f[q]
    BY <1>3 DEF ReadIs
  <2>2. p # None
    BY RowsAssumption
  <2>3. <<"qport", q, p>> \in X <=> p \in FindQueuePort(s, q)
    BY <1>6, <2>1, <2>2
  <2>4. <<"qport", q, p>> \in X <=>
          p \in FindQueuePort(r, q) /\ \E b \in Bridges : p \in r.bp[b]
    BY <1>2, <1>8, <2>3
  <2> QED BY <1>4, <1>5, <2>4
<1>15. ASSUME NEW b \in Bridges PROVE <<"bridge", b>> \in X <=> <<"bridge", b>> \in Y
  <2>1. <<"bridge", b>> \in X <=> b \in r.bridge
    BY <1>2, <1>3 DEF ReadIs
  <2>2. <<"bridge", b>> \in A <=> b \in r.bridge
    BY DEF Told, BridgeDoc
  <2>3. <<"bridge", b>> \in Y <=> <<"bridge", b>> \in A
    BY <1>5
  <2> QED BY <2>1, <2>2, <2>3
<1>16. ASSUME NEW b \in Bridges, NEW p \in Ports
       PROVE  <<"bport", b, p>> \in X <=> <<"bport", b, p>> \in Y
  <2>1. <<"bport", b, p>> \in X <=> p \in r.bp[b]
    BY <1>2, <1>3, <1>7 DEF ReadIs, NoBridge
  <2>2. <<"bport", b, p>> \in Y <=> <<"bport", b, p>> \in A
    BY <1>5
  <2> QED BY <1>4, <2>1, <2>2
<1>17. ASSUME NEW b \in Bridges, NEW t \in Tables
       PROVE  <<"btable", b, t>> \in X <=> <<"btable", b, t>> \in Y
  <2>1. <<"btable", b, t>> \in X <=> t \in r.bt[b]
    BY <1>2, <1>3, <1>7 DEF ReadIs, NoBridge
  <2>2. <<"btable", b, t>> \in Y <=> <<"btable", b, t>> \in A
    BY <1>5
  <2> QED BY <1>4, <2>1, <2>2
<1>18. ASSUME NEW b \in Bridges, NEW x \in Ctrls
       PROVE  /\ <<"contr", b, x>> \in X <=> <<"contr", b, x>> \in Y
              /\ \A v \in Protocols : <<"proto", b, x, v>> \in X <=> <<"proto", b, x, v>> \in Y
  <2>1. ContrOf(r, c, A, b, x)
    BY DEF Told, ContrDoc
  <2>2. x \in r.bc[b] => b \in r.bridge
    BY <1>7 DEF NoBridge
  <2>3. <<"contr", b, x>> \in X <=> x \in r.bc[b]
    BY <1>2, <1>3, <2>2 DEF ReadIs
  <2>4. \A v : <<"proto", b, x, v>> \in X <=> x \in r.bc[b] /\ v = e[<<b, x>>]
    BY <1>2, <1>3, <2>2 DEF ReadIs
  <2>5. x \in r.bc[b] => e[<<b, x>>] = Target(r, c, <<b, x>>)
    OBVIOUS
  <2>6. <<"contr", b, x>> \in Y <=> <<"contr", b, x>> \in A
    BY <1>5
  <2>7. \A v : <<"proto", b, x, v>> \in Y <=> <<"proto", b, x, v>> \in A
    BY <1>5
  <2> QED BY <2>1, <2>3, <2>4, <2>5, <2>6, <2>7 DEF ContrOf
<1>19. SameKinds(X, Y)
  BY <1>10, <1>11, <1>12, <1>13, <1>14, <1>15, <1>16, <1>17, <1>18 DEF SameKinds
<1>20. X = Y
  BY <1>3, <1>5, <1>7, <1>19, SameDocument
<1> QED BY <1>20 DEF X, Y, s

\* txn_commit
LEMMA CommitDoc == ASSUME IInv, RInv, Commit PROVE RInv'
<1>1. /\ Editing /\ Good(txn) /\ AskedBridges(txn, ask) /\ db' = Collect(txn) /\ Idle
      /\ cache \in [Contrs -> Protocols] /\ txn.proto \in [Contrs -> Protocols]
  BY DEF IInv, TypeOK, Rows, AskInv, Commit, End
<1>2. cache' = [x \in Contrs |-> CASE x \notin db'.contr -> "ssl"
                                   [] x \in db'.contr /\ x \in txn.fresh -> txn.proto[x]
                                   [] OTHER -> cache[x]]
  BY DEF Commit
<1>3. last' = [res |-> "ok", ask |-> ask, odd |-> odd, swap |-> swap, cut |-> cut]
  BY DEF Commit, End
<1>4. UsedTables(db')
  BY <1>1, Collected
<1>5. ReadBack'
  <2> SUFFICES ASSUME Plain(last') PROVE Shown(db', cache') = {Kept(last'.ask)}
    BY DEF ReadBack
  <2>1. last'.ask = ask /\ ~odd /\ ~Dangling(ask) /\ swap \cap ask = {}
    BY <1>3 DEF Plain
  <2>2. Told(txn, cache, ask, swap)
    BY <1>1, <2>1 DEF RInv, DocInv, Clear
  <2>3. cache' \in [Contrs -> Protocols]
    BY <1>1, <1>2 DEF Protocols
  <2>4. ASSUME NEW b \in Bridges, NEW x \in txn.bc[b]
        PROVE  cache'[<<b, x>>] = Target(txn, cache, <<b, x>>)
    <3>1. x \in Ctrls /\ <<b, x>> \in txn.contr
      BY <1>1, Columns DEF Good, HasContrs
    <3>2. <<b, x>> \in Contrs /\ <<b, x>>[1] = b /\ <<b, x>>[2] = x
      BY <3>1 DEF Contrs
    <3>3. db'.contr = {y \in txn.contr : y[2] \in txn.bc[y[1]]}
      BY <1>1, Collected
    <3>4. <<b, x>> \in db'.contr
      BY <3>1, <3>2, <3>3
    <3> QED BY <1>2, <3>2, <3>4 DEF Target
  <2>5. Good(db')
    BY <1>1, CollectIsGood
  <2>6. \A f \in QueuePorts(db') : Read(db', cache', f) = Kept(ask)
    <3> SUFFICES ASSUME NEW f \in QueuePorts(Collect(txn))
                 PROVE  Read(Collect(txn), cache', f) = Kept(ask)
      BY <1>1
    <3> QED BY <1>1, <2>1, <2>2, <2>3, <2>4, CommittedRead
  <2>7. QueuePorts(db') # {}
    BY <2>5, SomePorts
  <2>8. Shown(db', cache') = {Read(db', cache', f) : f \in QueuePorts(db')}
    BY ShownIsRead
  <2> QED BY <2>1, <2>6, <2>7, <2>8
<1>6. DocInv' /\ (Editing' => last' = NoEdit) /\ doc' \subseteq ask'
  BY <1>1 DEF Idle, DocInv, Clear, Editing
<1>7. UsedTables(db)'
  BY <1>4 DEF UsedTables
<1> QED BY <1>5, <1>6, <1>7 DEF RInv

-----------------------------------------------------------------------------
(* The theorem                                                             *)

\* Every step keeps the document and the rows together.
LEMMA InductiveDoc == ASSUME IInv, RInv, [Next]_vars PROVE RInv'
<1>1. CASE UNCHANGED vars
  <2>1. /\ db' = db /\ cache' = cache /\ phase' = phase /\ txn' = txn /\ doc' = doc /\ ask' = ask
        /\ (odd' <=> odd) /\ swap' = swap /\ last' = last
    BY <1>1 DEF vars
  <2>2. DocInv'
    <3> SUFFICES ASSUME Clear' PROVE Told(txn, cache, ask, swap)'
      BY DEF DocInv
    <3>1. Told(txn, cache, ask, swap)
      BY <2>1 DEF RInv, DocInv, Clear, Editing
    <3>2. Told(txn', cache', ask', swap')
      BY <2>1, <3>1
    <3> QED BY <3>2 DEF Told, PlaceDoc, QueueDoc, QueueOf, BridgeDoc, ContrDoc, ContrOf, Target,
                      FindQueuePort, Pairs
  <2>3. UsedTables(db)' /\ doc' \subseteq ask' /\ (Editing' => last' = NoEdit)
    BY <2>1 DEF RInv, UsedTables, Editing
  <2>4. ReadBack'
    BY <2>1 DEF RInv, ReadBack
  <2> QED BY <2>2, <2>3, <2>4 DEF RInv
<1>2. CASE Begin \/ Commit \/ CommitRefused
  BY <1>2, BeginDoc, CommitDoc, RefusedDoc
<1>3. CASE \E p \in Ports : EditPort(p)
  BY <1>3, EditPortDoc
<1>4. ASSUME NEW q \in Queues,
             \/ DeleteQueue(q) \/ DeleteQueuePort(q) \/ EditQueueOptions(q)
             \/ \E i \in Ids : EditQueueId(q, i)
             \/ \E i \in Ids, p \in Ports \cup {None} : CreateQueue(q, i, p)
             \/ \E p \in Ports : EditQueuePort(q, p)
      PROVE  RInv'
  BY <1>4, DeleteQueueDoc, DeleteQueuePortDoc, EditQueueOptionsDoc, EditQueueIdDoc, CreateQueueDoc,
     EditQueuePortDoc
<1>5. CASE \E t \in Tables : EditTable(t)
  BY <1>5, EditTableDoc
<1>6. ASSUME NEW b \in Bridges,
             \/ DeleteBridge(b) \/ EditBridge(b)
             \/ \E P \in SUBSET Ports, T \in SUBSET Tables : CreateBridge(b, P, T)
             \/ \E p \in Ports : EditBridgePort(b, p)
             \/ \E t \in Tables : EditBridgeTable(b, t)
             \/ \E c \in Ctrls : EditContr(b, c) \/ \E v \in Protocols : EditProtocol(b, c, v)
      PROVE  RInv'
  BY <1>6, DeleteBridgeDoc, EditBridgeDoc, CreateBridgeDoc, EditBridgePortDoc, EditBridgeTableDoc,
     EditContrDoc, EditProtocolDoc
<1> QED BY <1>1, <1>2, <1>3, <1>4, <1>5, <1>6 DEF Next

\* The empty database has no flow tables.
LEMMA InitialDoc == ASSUME Init PROVE RInv
<1>1. db.table = {}
  BY DEF Init, Empty
<1>2. ~Editing /\ last.res = "none" /\ doc = {}
  BY DEF Init, Editing, NoEdit
<1> QED BY <1>1, <1>2 DEF RInv, DocInv, Clear, UsedTables, ReadBack

\* An edit that is reported as successful, meets no ambiguous names, keeps its
\* leafrefs, and recreates no port or flow table that it deletes did what it
\* says: get_ports_config, get_queues_config, get_flow_tables_config and
\* get_bridges_config show the document that ofcds_editconfig read at the
\* start, with the deletions and creations of the edit, less what OVSDB
\* collects.
THEOREM EditsReadBack == Spec => []ReadBack
<1>1. Init => RInv
  BY InitialDoc
<1>2. IInv /\ RInv /\ [Next]_vars => RInv'
  BY InductiveDoc
<1>3. RInv => ReadBack
  BY DEF RInv
<1> QED BY <1>1, <1>2, <1>3, Invariant, PTL DEF Spec
=============================================================================
