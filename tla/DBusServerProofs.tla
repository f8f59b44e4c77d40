-------------------------- MODULE DBusServerProofs --------------------------
(***************************************************************************)
(* Proofs about DBusServer and DBusLocks, for any number of agents, calls, *)
(* crashes, timeouts and restarts of the server.                           *)
(***************************************************************************)
EXTENDS DBusLocks, SequenceTheorems, TLAPS

-----------------------------------------------------------------------------
(* The inductive invariant                                                 *)

\* Where an agent has not yet asked for its session.
Early == {"new", "ping", "connected", "caps", "accepting"}

\* The only session record that set_session makes for an agent.
Rec(a) == [id |-> BusName(a), ncsid |-> NcSid(a), pid |-> PidOf[a] % PidMod]

\* The call that an agent waits for in a place of its main().
OpOf(p) == CASE p = "ping" -> "PING" [] p = "caps" -> "CAPS" [] p = "set" -> "SET"
             [] p = "op" -> "OP" [] p = "kill" -> "KILL"

\* The calls in the queue.  A session is asked for once, CloseSession is the
\* last call of an agent, and the last call of an agent that waits is the one
\* it waits for.
QueueInv ==
    \A k \in DOMAIN queue :
        LET m == queue[k]
        IN  /\ m.op = "CLOSE" => pc[m.from] = "exited"
            /\ m.op = "SET" => /\ pc[m.from] \notin Early
                               /\ m.ncsid = NcSid(m.from)
                               /\ m.pid = PidOf[m.from] % PidMod
            /\ m.op # "CLOSE" => m.serial <= calls[m.from]
            /\ pc[m.from] \in Waiting /\ m.serial = calls[m.from] => m.op = OpOf(pc[m.from])

\* SetSessionParams of an agent is queued at most once, and before its
\* CloseSession.
OrderInv ==
    \A j, k \in DOMAIN queue :
        queue[j].from = queue[k].from /\ queue[k].op = "SET" =>
            /\ queue[j].op = "CLOSE" => k < j
            /\ queue[j].op = "SET" => j = k

\* A session belongs to an agent that asked for it, and is asked for no more.
SessionInv ==
    \A s \in agents :
        \E a \in Agents : s = Rec(a) /\ pc[a] \notin Early /\ ~Queued(a, "SET")

\* A server that is not there has no calls and no sessions.
DownInv == srv = "down" => queue = <<>> /\ agents = {}

\* An agent whose request for a session was granted has it, or was told to
\* terminate, or the server ended under it.
GrantInv ==
    \A a \in Agents :
        pc[a] = "set" /\ reply[a] = "ok" =>
            \/ Rec(a) \in agents \/ sigpend[a] \/ mainloop[a]
            \/ srv = "down" \/ restarts > 0

IInv == TypeOK /\ QueueInv /\ OrderInv /\ SessionInv /\ DownInv /\ DepartedIsClosed

-----------------------------------------------------------------------------
(* Types                                                                   *)

Places == Waiting \cup {"new", "connected", "accepting", "ready", "cleanup", "exited", "dead"}
Ops    == {"PING", "CAPS", "SET", "OP", "KILL", "CLOSE"}

\* Names and identifiers tell the agents apart.
LEMMA Names ==
    /\ \A a, b \in Agents : BusName(a) = BusName(b) => a = b
    /\ \A a, b \in Agents : NcSid(a) = NcSid(b) => a = b
    /\ \A a \in Agents : BusName(a) \in BusNames /\ NcSid(a) \in NcSids
    /\ \A a, b : NcSid(a) # BusName(b)
BY DEF BusName, NcSid, BusNames, NcSids

\* The PID that an agent sends is a number.
LEMMA SentPid == \A a \in Agents : PidOf[a] % PidMod \in Nat
BY DBusAssumption

\* A call is appended to the queue.
LEMMA Pushed ==
    ASSUME queue \in Seq(Call), NEW m \in Call, queue' = Append(queue, m)
    PROVE  /\ queue' \in Seq(Call) /\ Len(queue) \in Nat /\ DOMAIN queue = 1..Len(queue)
           /\ DOMAIN queue' = 1..(Len(queue) + 1)
           /\ \A k \in DOMAIN queue : queue'[k] = queue[k]
           /\ queue'[Len(queue) + 1] = m
           /\ Len(queue) + 1 \in DOMAIN queue'
OBVIOUS

\* The oldest call is taken from the queue.
LEMMA Popped ==
    ASSUME queue \in Seq(Call), queue # <<>>, queue' = Tail(queue)
    PROVE  /\ queue' \in Seq(Call) /\ Len(queue) \in Nat /\ DOMAIN queue = 1..Len(queue)
           /\ DOMAIN queue' = 1..(Len(queue) - 1)
           /\ \A k \in DOMAIN queue' : queue'[k] = queue[k + 1] /\ k + 1 \in DOMAIN queue
           /\ 1 \in DOMAIN queue /\ Msg = queue[1] /\ Msg \in Call
BY DEF Msg

\* What a call consists of.
LEMMA CallFields ==
    ASSUME NEW m \in Call
    PROVE  m.op \in Ops /\ m.from \in Agents /\ m.serial \in Nat /\ m.pid \in Nat
           /\ m.ncsid \in NcSids
BY DEF Call, Ops

\* A call keeps the types.
LEMMA SendTypes ==
    ASSUME TypeOK, NEW a \in Agents, NEW from, NEW to \in Waiting, NEW op \in Ops,
           NEW ncsid \in NcSids, NEW pid \in Nat, Send(a, from, to, op, ncsid, pid)
    PROVE  TypeOK' /\ Message(a, op, ncsid, pid) \in Call
<1>1. calls[a] \in 0..MaxCalls /\ MaxCalls \in Nat
  BY DBusAssumption DEF TypeOK
<1>2. Message(a, op, ncsid, pid) \in Call
  BY <1>1 DEF Message, Call, Ops
<1>3. pc' \in [Agents -> Places] /\ calls' \in [Agents -> 0..MaxCalls]
  BY <1>1 DEF Send, TypeOK, Places
<1>4. queue' \in Seq(Call)
  <2>1. queue \in Seq(Call)
    BY DEF TypeOK
  <2>2. queue' = Append(queue, Message(a, op, ncsid, pid)) \/ queue' = queue
    BY DEF Send
  <2> QED BY <1>2, <2>1, <2>2, Pushed
<1>5. /\ reply' \in [Agents -> {"none", "ok", "error"}]
      /\ \A b \in Agents : reply'[b] # "none" => pc'[b] \in Waiting
  BY DEF Send, TypeOK
<1> QED BY <1>2, <1>3, <1>4, <1>5 DEF Send, TypeOK, Places

\* The steps of an agent, and what befalls it, keep the types.
LEMMA AgentTypes ==
    ASSUME TypeOK, NEW a \in Agents,
           AgentStep(a) \/ ClientStep(a) \/ Timeout(a) \/ Signal(a) \/ Crash(a)
    PROVE  TypeOK'
<1> USE DBusAssumption
<1>0. /\ NcSid(a) \in NcSids /\ \A b \in Agents : NcSid(b) \in NcSids
      /\ PidOf[a] % PidMod \in Nat /\ 0 \in Nat
      /\ {"ping", "caps", "set", "op", "kill"} \subseteq Waiting
      /\ {"PING", "CAPS", "SET", "OP", "KILL"} \subseteq Ops
  BY Names, SentPid DEF Waiting, Ops
<1>1. CASE CommInit(a) \/ GetSrvCpblts(a) \/ SessionInfo(a) \/ Operation(a)
           \/ \E b \in Agents : RequestKill(a, b)
  BY <1>0, <1>1, SendTypes DEF CommInit, GetSrvCpblts, SessionInfo, Operation, RequestKill
<1>2. CASE Return(a)
  BY <1>2 DEF Return, TypeOK, OkTo, FailTo, busVars, Waiting
<1>3. CASE Timeout(a)
  <2>1. faults' \in 0..MaxFaults
    BY <1>3 DEF Timeout, Fault, TypeOK
  <2> QED BY <1>3, <2>1 DEF Timeout, TypeOK, FailTo, busVars, Waiting
<1>4. CASE Leave(a)
  BY <1>4 DEF Leave, TypeOK, busVars, Waiting
<1>5. CASE CommDestroy(a)
  <2>1. Message(a, "CLOSE", NcSid(a), 0) \in Call
    BY <1>0 DEF Message, Call, TypeOK
  <2>2. queue' \in Seq(Call)
    BY <1>5, <2>1 DEF CommDestroy, TypeOK
  <2> QED BY <1>5, <2>2 DEF CommDestroy, TypeOK, Waiting
<1>6. CASE HandleSignal(a)
  <2>1. /\ pc' \in [Agents -> Places] /\ reply' \in [Agents -> {"none", "ok", "error"}]
        /\ \A b \in Agents : reply'[b] # "none" => pc'[b] \in Waiting
    BY <1>6 DEF HandleSignal, TypeOK, Places
  <2>2. /\ sigpend' \in [Agents -> BOOLEAN] /\ mainloop' \in [Agents -> BOOLEAN]
        /\ UNCHANGED <<calls, busVars, faults, restarts>>
    BY <1>6 DEF HandleSignal, TypeOK
  <2> QED BY <2>1, <2>2 DEF TypeOK, Places, busVars
<1>7. CASE Signal(a)
  <2>1. faults' \in 0..MaxFaults
    BY <1>7 DEF Signal, Fault, TypeOK
  <2>2. sigpend' \in [Agents -> BOOLEAN] /\ UNCHANGED <<pc, mainloop, calls, reply, busVars, restarts>>
    BY <1>7 DEF Signal, TypeOK
  <2> QED BY <2>1, <2>2 DEF TypeOK, busVars
<1>8. CASE Crash(a)
  <2>1. faults' \in 0..MaxFaults
    BY <1>8 DEF Crash, Fault, TypeOK
  <2> QED BY <1>8, <2>1 DEF Crash, TypeOK, busVars, Waiting
<1> QED
  BY <1>1, <1>2, <1>3, <1>4, <1>5, <1>6, <1>7, <1>8 DEF AgentStep, ClientStep

\* The answer to a call that is popped.
LEMMA AnswerTypes ==
    ASSUME TypeOK, queue # <<>>, NEW kind \in {"ok", "error"}, Answer(kind), UNCHANGED pc
    PROVE  /\ reply' \in [Agents -> {"none", "ok", "error"}]
           /\ \A b \in Agents : reply'[b] # "none" => pc'[b] \in Waiting
           /\ \A b \in Agents : reply'[b] # reply[b] =>
                 b = Msg.from /\ reply'[b] = kind /\ pc[b] \in Waiting /\ calls[b] = Msg.serial
<1>1. Msg.from \in Agents
  <2>1. Msg \in Call
    BY DEF Msg, TypeOK
  <2> QED BY <2>1, CallFields
<1> QED BY <1>1 DEF Answer, TypeOK

\* The handlers of the server keep the types, and a session record is that
\* of the call.
LEMMA ServerTypes ==
    ASSUME TypeOK, ServerStep \/ ServerEnds \/ ServerStarts
    PROVE  TypeOK'
<1> USE DBusAssumption
<1>1. ASSUME NEW op, Pop(op)
      PROVE  /\ queue # <<>> /\ queue' \in Seq(Call) /\ Msg \in Call /\ Msg.op = op
             /\ UNCHANGED <<pc, mainloop, calls, srv, faults, restarts>>
  BY <1>1, Popped DEF Pop, TypeOK
<1>2. ASSUME NEW kind \in {"ok", "error"}, NEW op, Pop(op), Answer(kind)
      PROVE  /\ reply' \in [Agents -> {"none", "ok", "error"}]
             /\ \A b \in Agents : reply'[b] # "none" => pc'[b] \in Waiting
  BY <1>1, <1>2, AnswerTypes
<1>3. CASE HandleStdIf \/ GetCapabilities \/ KillSessionError \/ ProcessOperation
  <2>1. PICK op \in Ops, kind \in {"ok", "error"} : Pop(op) /\ Answer(kind)
    BY <1>3 DEF Ops, HandleStdIf, GetCapabilities, KillSessionError, ProcessOperation
  <2>2. UNCHANGED <<sigpend, quit, agents>>
    BY <1>3 DEF HandleStdIf, GetCapabilities, KillSessionError, ProcessOperation
  <2> QED BY <1>1, <1>2, <2>1, <2>2 DEF TypeOK
<1>4. CASE SetSession
  <2>1. [id |-> BusName(Msg.from), ncsid |-> Msg.ncsid, pid |-> Msg.pid] \in Session
    BY <1>1, <1>4, CallFields, Names DEF SetSession, Session
  <2> QED BY <1>1, <1>2, <1>4, <2>1 DEF SetSession, TypeOK
<1>5. CASE CloseSession
  <2>1. agents' \subseteq agents /\ Pop("CLOSE") /\ UNCHANGED <<reply, sigpend, quit>>
    BY <1>5 DEF CloseSession, SrvAgentStop
  <2> QED BY <1>1, <2>1 DEF TypeOK
<1>6. CASE KillSession
  <2>1. PICK s \in ByNcsid(Msg.ncsid) : SrvAgentKill(s)
    BY <1>6 DEF KillSession
  <2>2. agents' \subseteq agents /\ sigpend' \in [Agents -> BOOLEAN]
    BY <2>1 DEF SrvAgentKill, SrvAgentStop, TypeOK, Running
  <2>3. quit' \in BOOLEAN
    BY <2>1 DEF SrvAgentKill, TypeOK
  <2>4. Pop("KILL") /\ Answer("ok")
    BY <1>6 DEF KillSession
  <2> QED BY <1>1, <1>2, <2>2, <2>3, <2>4 DEF TypeOK
<1>7. CASE ServerEnds
  <2>1. /\ reply' \in [Agents -> {"none", "ok", "error"}]
        /\ \A b \in Agents : reply'[b] # "none" => pc'[b] \in Waiting
        /\ queue' \in Seq(Call) /\ agents' \in SUBSET Session
    BY <1>7 DEF ServerEnds, TypeOK
  <2>2. srv' = "down" /\ quit' \in BOOLEAN
        /\ UNCHANGED <<pc, mainloop, sigpend, calls, faults, restarts>>
    BY <1>7 DEF ServerEnds
  <2> QED BY <2>1, <2>2 DEF TypeOK
<1>8. CASE ServerStarts
  <2>1. restarts' \in 0..MaxRestarts
    BY <1>8 DEF ServerStarts, TypeOK
  <2> QED BY <1>8, <2>1 DEF ServerStarts, TypeOK, agentVars
<1> QED
  BY <1>3, <1>4, <1>5, <1>6, <1>7, <1>8 DEF ServerStep

\* Every step keeps the types.
LEMMA TypeStep == TypeOK /\ [Next]_vars => TypeOK'
<1> SUFFICES ASSUME TypeOK, [Next]_vars PROVE TypeOK'
  OBVIOUS
<1>1. CASE UNCHANGED vars
  BY <1>1 DEF vars, agentVars, busVars, TypeOK
<1> QED BY <1>1, AgentTypes, ServerTypes DEF Next

\* The program starts in a state of the invariant.
LEMMA InitInv == Init => IInv
<1> SUFFICES ASSUME Init PROVE IInv
  OBVIOUS
<1>1. TypeOK
  <2>1. /\ pc \in [Agents -> Places] /\ calls \in [Agents -> 0..MaxCalls]
        /\ faults \in 0..MaxFaults /\ restarts \in 0..MaxRestarts
        /\ queue \in Seq(Call) /\ agents \in SUBSET Session
    BY DBusAssumption DEF Init, Places
  <2>2. /\ mainloop \in [Agents -> BOOLEAN] /\ sigpend \in [Agents -> BOOLEAN]
        /\ quit \in BOOLEAN /\ srv \in {"up", "down"}
    BY DEF Init
  <2>3. reply \in [Agents -> {"none", "ok", "error"}] /\ \A a \in Agents : reply[a] = "none"
    BY DEF Init
  <2> QED BY <2>1, <2>2, <2>3 DEF TypeOK, Places
<1>2. DOMAIN queue = {} /\ agents = {} /\ srv = "up" /\ \A a \in Agents : pc[a] = "new"
  BY DEF Init
<1> QED
  BY <1>1, <1>2 DEF IInv, QueueInv, OrderInv, SessionInv, DownInv, DepartedIsClosed

\* Every variable keeps its type, and a reply is held only for a call that is
\* waiting for it, for any number of agents, calls, timeouts and restarts.
THEOREM TypeCorrect == Spec => []TypeOK
<1>1. Init => TypeOK
  BY InitInv DEF IInv
<1> QED BY <1>1, TypeStep, PTL DEF Spec

-----------------------------------------------------------------------------
(* The queue                                                               *)

\* What is queued after a call was appended.
LEMMA PushQueued ==
    ASSUME queue \in Seq(Call), NEW m \in Call, queue' = Append(queue, m)
    PROVE  \A b, op : Queued(b, op)' <=> Queued(b, op) \/ (m.from = b /\ m.op = op)
<1>1. /\ DOMAIN queue = 1..Len(queue) /\ DOMAIN queue' = 1..(Len(queue) + 1)
      /\ Len(queue) \in Nat /\ queue'[Len(queue) + 1] = m
      /\ \A k \in DOMAIN queue : queue'[k] = queue[k]
  BY Pushed
<1>2. \A k \in DOMAIN queue' : k \in DOMAIN queue \/ k = Len(queue) + 1
  BY <1>1
<1>3. DOMAIN queue \subseteq DOMAIN queue' /\ Len(queue) + 1 \in DOMAIN queue'
  BY <1>1
<1> QED BY <1>1, <1>2, <1>3 DEF Queued

\* What was queued before a call was popped.
LEMMA PopQueued ==
    ASSUME queue \in Seq(Call), queue # <<>>, queue' = Tail(queue)
    PROVE  \A b, op : Queued(b, op) <=> Queued(b, op)' \/ (Msg.from = b /\ Msg.op = op)
<1>1. /\ DOMAIN queue = 1..Len(queue) /\ DOMAIN queue' = 1..(Len(queue) - 1)
      /\ Len(queue) \in Nat /\ Msg = queue[1] /\ 1 \in DOMAIN queue
      /\ \A k \in DOMAIN queue' : queue'[k] = queue[k + 1] /\ k + 1 \in DOMAIN queue
  BY Popped
<1>2. \A k \in DOMAIN queue : k = 1 \/ (k - 1 \in DOMAIN queue' /\ queue'[k - 1] = queue[k])
  BY <1>1
<1>3. ASSUME NEW b, NEW op, Queued(b, op)
      PROVE  Queued(b, op)' \/ (Msg.from = b /\ Msg.op = op)
  <2>1. PICK k \in DOMAIN queue : queue[k].from = b /\ queue[k].op = op
    BY <1>3 DEF Queued
  <2> QED BY <1>1, <1>2, <2>1 DEF Queued
<1>4. ASSUME NEW b, NEW op, Queued(b, op)' \/ (Msg.from = b /\ Msg.op = op)
      PROVE  Queued(b, op)
  BY <1>1, <1>4 DEF Queued
<1> QED BY <1>3, <1>4

\* The invariant without the types.
Rest == QueueInv /\ OrderInv /\ SessionInv /\ DownInv /\ DepartedIsClosed

\* A call of an agent that waits for its reply.
LEMMA SendInv ==
    ASSUME IInv, NEW a \in Agents, NEW from \in {"new", "connected", "accepting", "ready"},
           NEW to \in Waiting, NEW ncsid \in NcSids, NEW pid \in Nat,
           Send(a, from, to, OpOf(to), ncsid, pid),
           to = "set" => from = "accepting" /\ ncsid = NcSid(a) /\ pid = PidOf[a] % PidMod,
           to \in Early => from \in Early
    PROVE  Rest'
<1> USE DEF IInv
<1> DEFINE m == Message(a, OpOf(to), ncsid, pid)
<1>0. /\ OpOf(to) \in Ops /\ OpOf(to) # "CLOSE" /\ (OpOf(to) = "SET" <=> to = "set")
      /\ from \notin Waiting /\ from # "exited" /\ to # "exited"
      /\ from \notin Early <=> from = "ready"
  BY DEF OpOf, Ops, Waiting, Early
<1>1. m \in Call /\ queue \in Seq(Call)
  BY <1>0, SendTypes DEF TypeOK
<1>2. m.op = OpOf(to) /\ m.from = a /\ m.serial = calls[a] + 1 /\ m.ncsid = ncsid /\ m.pid = pid
  BY DEF Message
<1>3. /\ pc[a] = from /\ pc'[a] = to /\ \A b \in Agents : b # a => pc'[b] = pc[b]
      /\ calls'[a] = calls[a] + 1 /\ \A b \in Agents : b # a => calls'[b] = calls[b]
      /\ calls[a] \in Nat
      /\ UNCHANGED <<srv, agents>>
  BY DEF Send, TypeOK
<1>4. \A k \in DOMAIN queue : queue[k] \in Call /\ queue[k].from \in Agents /\ queue[k].serial \in Nat
  BY <1>1, CallFields
<1> HIDE DEF m
<1>5. \A k \in DOMAIN queue :
          /\ queue[k].op = "CLOSE" => queue[k].from # a
          /\ queue[k].op = "SET" /\ queue[k].from = a => from = "ready"
  BY <1>0, <1>3, <1>4 DEF QueueInv
<1>6. \A k \in DOMAIN queue :
          LET n == queue[k]
          IN  /\ n.op = "CLOSE" => pc'[n.from] = "exited"
              /\ n.op = "SET" => /\ pc'[n.from] \notin Early
                                 /\ n.ncsid = NcSid(n.from)
                                 /\ n.pid = PidOf[n.from] % PidMod
              /\ n.op # "CLOSE" => n.serial <= calls'[n.from]
              /\ pc'[n.from] \in Waiting /\ n.serial = calls'[n.from] => n.op = OpOf(pc'[n.from])
  <2> SUFFICES ASSUME NEW k \in DOMAIN queue
               PROVE  LET n == queue[k]
                      IN  /\ n.op = "CLOSE" => pc'[n.from] = "exited"
                          /\ n.op = "SET" => /\ pc'[n.from] \notin Early
                                             /\ n.ncsid = NcSid(n.from)
                                             /\ n.pid = PidOf[n.from] % PidMod
                          /\ n.op # "CLOSE" => n.serial <= calls'[n.from]
                          /\ pc'[n.from] \in Waiting /\ n.serial = calls'[n.from]
                               => n.op = OpOf(pc'[n.from])
    OBVIOUS
  <2>1. CASE queue[k].from # a
    BY <1>3, <1>4, <2>1 DEF QueueInv
  <2>2. CASE queue[k].from = a
    BY <1>0, <1>3, <1>4, <1>5, <2>2 DEF QueueInv
  <2> QED BY <2>1, <2>2
<1>7. CASE srv = "up"
  <2>1. queue' = Append(queue, m)
    BY <1>7 DEF Send, m
  <2>2. /\ DOMAIN queue = 1..Len(queue) /\ DOMAIN queue' = 1..(Len(queue) + 1)
        /\ Len(queue) \in Nat /\ queue'[Len(queue) + 1] = m
        /\ \A k \in DOMAIN queue : queue'[k] = queue[k]
    BY <1>1, <2>1, Pushed
  <2>3. \A k \in DOMAIN queue' : (k \in DOMAIN queue /\ queue'[k] = queue[k])
                                 \/ (k = Len(queue) + 1 /\ queue'[k] = m)
    BY <2>2
  <2>4. \A b, op : Queued(b, op)' <=> Queued(b, op) \/ (a = b /\ OpOf(to) = op)
    BY <1>1, <1>2, <2>1, PushQueued
  <2>5. QueueInv'
    <3> SUFFICES ASSUME NEW k \in DOMAIN queue', queue'[k] = m
                 PROVE  /\ m.op = "CLOSE" => pc'[m.from] = "exited"
                        /\ m.op = "SET" => /\ pc'[m.from] \notin Early
                                           /\ m.ncsid = NcSid(m.from)
                                           /\ m.pid = PidOf[m.from] % PidMod
                        /\ m.op # "CLOSE" => m.serial <= calls'[m.from]
                        /\ m.op = OpOf(pc'[m.from])
      BY <1>6, <2>3 DEF QueueInv
    <3> QED BY <1>0, <1>2, <1>3 DEF Early
  <2>6. OrderInv'
    <3> SUFFICES ASSUME NEW j \in DOMAIN queue', NEW k \in DOMAIN queue',
                        queue'[j].from = queue'[k].from, queue'[k].op = "SET"
                 PROVE  /\ queue'[j].op = "CLOSE" => k < j
                        /\ queue'[j].op = "SET" => j = k
      BY DEF OrderInv
    <3>1. CASE j \in DOMAIN queue /\ k \in DOMAIN queue
      BY <2>2, <3>1 DEF OrderInv
    <3>2. CASE j \notin DOMAIN queue /\ k \in DOMAIN queue
      <4>1. queue'[j] = m /\ queue'[k] = queue[k]
        BY <2>3, <2>2, <3>2
      <4>2. from = "ready"
        BY <1>2, <1>5, <3>2, <4>1
      <4>3. OpOf(to) # "SET"
        BY <1>0, <4>2
      <4> QED BY <1>0, <1>2, <4>1, <4>3
    <3>3. CASE j \in DOMAIN queue /\ k \notin DOMAIN queue
      <4>1. queue'[k] = m /\ queue'[j] = queue[j]
        BY <2>3, <2>2, <3>3
      <4>2. from = "accepting" /\ queue[j].from = a
        BY <1>0, <1>2, <4>1
      <4> QED BY <1>5, <3>3, <4>1, <4>2
    <3>4. CASE j \notin DOMAIN queue /\ k \notin DOMAIN queue
      <4>1. j = k /\ queue'[j] = m
        BY <2>3, <3>4
      <4> QED BY <1>0, <1>2, <4>1
    <3> QED BY <3>1, <3>2, <3>3, <3>4
  <2>7. SessionInv'
    <3> SUFFICES ASSUME NEW s \in agents
                 PROVE  \E b \in Agents : s = Rec(b) /\ pc'[b] \notin Early /\ ~Queued(b, "SET")'
      BY <1>3 DEF SessionInv, Rec
    <3>1. PICK b \in Agents : s = Rec(b) /\ pc[b] \notin Early /\ ~Queued(b, "SET")
      BY DEF SessionInv
    <3>2. CASE b = a
      BY <1>0, <1>3, <2>4, <3>1, <3>2
    <3>3. CASE b # a
      BY <1>3, <2>4, <3>1, <3>3
    <3> QED BY <3>2, <3>3
  <2>8. DownInv'
    BY <1>3, <1>7 DEF DownInv
  <2>9. DepartedIsClosed'
    BY <1>0, <1>3, <2>4 DEF DepartedIsClosed, ByAgentId
  <2> QED BY <2>5, <2>6, <2>7, <2>8, <2>9 DEF Rest
<1>8. CASE srv # "up"
  <2>1. queue' = queue
    BY <1>8 DEF Send
  <2>2. queue = <<>> /\ agents = {}
    BY <1>8 DEF DownInv, TypeOK
  <2> QED
    BY <1>3, <2>1, <2>2 DEF Rest, QueueInv, OrderInv, SessionInv, DownInv, DepartedIsClosed, Queued,
       ByAgentId
<1> QED BY <1>7, <1>8

\* An agent goes to another place of its main() and sends nothing.
LEMMA MoveInv ==
    ASSUME IInv, NEW a \in Agents, UNCHANGED <<calls, queue, srv, agents>>,
           \/ UNCHANGED pc
           \/ \E p : /\ pc' = [pc EXCEPT ![a] = p]
                     /\ pc[a] # "exited" /\ p # "exited" /\ p \notin Waiting
                     /\ p \in Early => pc[a] \in Early
    PROVE  Rest'
<1> USE DEF IInv
<1>1. CASE UNCHANGED pc
  BY <1>1 DEF Rest, QueueInv, OrderInv, SessionInv, Rec, DownInv, DepartedIsClosed, Queued, ByAgentId
<1>2. CASE ~UNCHANGED pc
  <2>1. PICK p : /\ pc' = [pc EXCEPT ![a] = p]
                 /\ pc[a] # "exited" /\ p # "exited" /\ p \notin Waiting
                 /\ p \in Early => pc[a] \in Early
    BY <1>2
  <2>2. pc'[a] = p /\ \A b \in Agents : b # a => pc'[b] = pc[b]
    BY <2>1 DEF TypeOK
  <2>3. \A k \in DOMAIN queue : queue[k].from \in Agents
    BY CallFields DEF TypeOK
  <2>4. QueueInv'
    BY <2>1, <2>2, <2>3 DEF QueueInv
  <2>5. \A b, op : Queued(b, op)' <=> Queued(b, op)
    BY DEF Queued
  <2>6. SessionInv'
    BY <2>1, <2>2, <2>5 DEF SessionInv, Rec
  <2>7. DepartedIsClosed'
    BY <2>1, <2>2, <2>5 DEF DepartedIsClosed, ByAgentId
  <2> QED BY <2>4, <2>6, <2>7 DEF Rest, OrderInv, DownInv
<1> QED BY <1>1, <1>2

\* CloseSession is sent behind every other call of its agent.
LEMMA DestroyInv ==
    ASSUME IInv, NEW a \in Agents, CommDestroy(a)
    PROVE  Rest'
<1> USE DEF IInv
<1> DEFINE m == Message(a, "CLOSE", NcSid(a), 0)
<1>1. m \in Call /\ queue \in Seq(Call)
  BY Names DEF Message, Call, TypeOK
<1>2. m.op = "CLOSE" /\ m.from = a
  BY DEF Message
<1>3. /\ pc[a] = "cleanup" /\ pc'[a] = "exited" /\ \A b \in Agents : b # a => pc'[b] = pc[b]
      /\ UNCHANGED <<calls, srv, agents>>
  BY DEF CommDestroy, TypeOK
<1>4. \A k \in DOMAIN queue : queue[k].from \in Agents
  BY <1>1, CallFields
<1>5. "exited" \notin Early /\ "exited" \notin Waiting
  BY DEF Early, Waiting
<1>6. CASE srv = "up"
  <2>1. queue' = Append(queue, m)
    BY <1>6 DEF CommDestroy
  <2> HIDE DEF m
  <2>2. /\ DOMAIN queue = 1..Len(queue) /\ DOMAIN queue' = 1..(Len(queue) + 1)
        /\ Len(queue) \in Nat /\ queue'[Len(queue) + 1] = m
        /\ \A k \in DOMAIN queue : queue'[k] = queue[k]
    BY <1>1, <2>1, Pushed
  <2>3. \A k \in DOMAIN queue' : (k \in DOMAIN queue /\ queue'[k] = queue[k])
                                 \/ (k = Len(queue) + 1 /\ queue'[k] = m)
    BY <2>2
  <2>4. \A b, op : Queued(b, op)' <=> Queued(b, op) \/ (a = b /\ op = "CLOSE")
    BY <1>1, <1>2, <2>1, PushQueued
  <2>5. QueueInv'
    BY <1>2, <1>3, <1>4, <1>5, <2>3 DEF QueueInv
  <2>6. OrderInv'
    BY <1>2, <2>2, <2>3 DEF OrderInv
  <2>7. SessionInv'
    BY <1>3, <1>5, <2>4 DEF SessionInv, Rec
  <2>8. DepartedIsClosed'
    BY <1>3, <2>4 DEF DepartedIsClosed, ByAgentId
  <2> QED BY <1>3, <1>6, <2>5, <2>6, <2>7, <2>8 DEF Rest, DownInv
<1>7. CASE srv # "up"
  <2>1. queue' = queue
    BY <1>7 DEF CommDestroy
  <2>2. queue = <<>> /\ agents = {}
    BY <1>7 DEF DownInv, TypeOK
  <2> QED
    BY <1>3, <2>1, <2>2 DEF Rest, QueueInv, OrderInv, SessionInv, DownInv, DepartedIsClosed, Queued,
       ByAgentId
<1> QED BY <1>6, <1>7

\* Every step of an agent keeps the invariant.
LEMMA AgentInv ==
    ASSUME IInv, NEW a \in Agents,
           AgentStep(a) \/ ClientStep(a) \/ Timeout(a) \/ Signal(a) \/ Crash(a)
    PROVE  Rest'
<1> USE DEF IInv
<1>0. /\ NcSid(a) \in NcSids /\ (\A b \in Agents : NcSid(b) \in NcSids)
      /\ PidOf[a] % PidMod \in Nat /\ 0 \in Nat
  BY Names, SentPid, DBusAssumption
<1>1. CASE CommInit(a)
  BY <1>0, <1>1, SendInv DEF CommInit, OpOf, Waiting, Early
<1>2. CASE GetSrvCpblts(a)
  BY <1>0, <1>2, SendInv DEF GetSrvCpblts, OpOf, Waiting, Early
<1>3. CASE SessionInfo(a)
  BY <1>0, <1>3, SendInv DEF SessionInfo, OpOf, Waiting, Early
<1>4. CASE Operation(a)
  BY <1>0, <1>4, SendInv DEF Operation, OpOf, Waiting, Early
<1>5. ASSUME NEW b \in Agents, RequestKill(a, b) PROVE Rest'
  BY <1>0, <1>5, SendInv DEF RequestKill, OpOf, Waiting, Early
<1>6. CASE Return(a)
  <2>1. /\ UNCHANGED <<calls, queue, srv, agents>> /\ pc[a] \in Waiting
        /\ pc' = [pc EXCEPT ![a] = IF reply[a] = "ok" THEN OkTo(pc[a]) ELSE FailTo(pc[a])]
    BY <1>6 DEF Return, busVars
  <2> DEFINE p == IF reply[a] = "ok" THEN OkTo(pc[a]) ELSE FailTo(pc[a])
  <2>2. pc[a] # "exited" /\ p # "exited" /\ p \notin Waiting /\ (p \in Early => pc[a] \in Early)
    BY <2>1 DEF OkTo, FailTo, Waiting, Early
  <2> QED BY <2>1, <2>2, MoveInv
<1>7. CASE Timeout(a)
  <2>1. /\ UNCHANGED <<calls, queue, srv, agents>> /\ pc[a] \in Waiting
        /\ pc' = [pc EXCEPT ![a] = FailTo(pc[a])]
    BY <1>7 DEF Timeout, busVars
  <2>2. /\ pc[a] # "exited" /\ FailTo(pc[a]) # "exited" /\ FailTo(pc[a]) \notin Waiting
        /\ FailTo(pc[a]) \notin Early
    BY <2>1 DEF FailTo, Waiting, Early
  <2> QED BY <2>1, <2>2, MoveInv
<1>8. CASE Leave(a) \/ Signal(a) \/ Crash(a) \/ HandleSignal(a)
  <2>1. UNCHANGED <<calls, queue, srv, agents>>
    BY <1>8 DEF Leave, Signal, Crash, HandleSignal, busVars
  <2>2. \/ UNCHANGED pc
        \/ /\ pc[a] # "exited"
           /\ pc' = [pc EXCEPT ![a] = "cleanup"] \/ pc' = [pc EXCEPT ![a] = "dead"]
    BY <1>8 DEF Leave, Signal, Crash, HandleSignal, Running
  <2>3. {"cleanup", "dead"} \cap (Waiting \cup Early \cup {"exited"}) = {}
    BY DEF Waiting, Early
  <2> QED BY <2>1, <2>2, <2>3, MoveInv
<1>9. CASE CommDestroy(a)
  BY <1>9, DestroyInv
<1> QED
  BY <1>1, <1>2, <1>3, <1>4, <1>5, <1>6, <1>7, <1>8, <1>9 DEF AgentStep, ClientStep

\* What is left in the queue when a call is popped.
LEMMA PopInv ==
    ASSUME IInv, NEW op, Pop(op)
    PROVE  /\ QueueInv' /\ OrderInv'
           /\ Msg \in Call /\ Msg.op = op /\ Msg.from \in Agents
           /\ srv = "up" /\ UNCHANGED <<pc, mainloop, calls, srv, faults, restarts>>
           /\ \A b, o : Queued(b, o) <=> Queued(b, o)' \/ (Msg.from = b /\ op = o)
           /\ op \in {"SET", "CLOSE"} => \A b : b = Msg.from => ~Queued(b, "SET")'
           /\ op = "SET" => /\ pc[Msg.from] \notin Early
                            /\ Msg.ncsid = NcSid(Msg.from)
                            /\ Msg.pid = PidOf[Msg.from] % PidMod
           /\ op = "CLOSE" => pc[Msg.from] = "exited"
           /\ pc[Msg.from] \in Waiting /\ Msg.serial = calls[Msg.from] => op = OpOf(pc[Msg.from])
<1> USE DEF IInv
<1>1. /\ queue \in Seq(Call) /\ queue # <<>> /\ queue' = Tail(queue) /\ Msg.op = op
      /\ srv = "up" /\ UNCHANGED <<pc, mainloop, calls, srv, faults, restarts>>
  BY DEF Pop, TypeOK
<1>2. /\ DOMAIN queue = 1..Len(queue) /\ DOMAIN queue' = 1..(Len(queue) - 1)
      /\ Len(queue) \in Nat /\ Msg = queue[1] /\ 1 \in DOMAIN queue /\ Msg \in Call
      /\ \A k \in DOMAIN queue' : queue'[k] = queue[k + 1] /\ k + 1 \in DOMAIN queue
  BY <1>1, Popped
<1>3. \A b, o : Queued(b, o) <=> Queued(b, o)' \/ (Msg.from = b /\ Msg.op = o)
  BY <1>1, PopQueued
<1>4. QueueInv'
  BY <1>1, <1>2 DEF QueueInv
<1>5. OrderInv'
  BY <1>2 DEF OrderInv
<1>6. ASSUME op \in {"SET", "CLOSE"}, NEW b, b = Msg.from, Queued(b, "SET")' PROVE FALSE
  <2>1. PICK k \in DOMAIN queue' : queue'[k].from = b /\ queue'[k].op = "SET"
    BY <1>6 DEF Queued
  <2>2. queue[k + 1].from = queue[1].from /\ queue[k + 1].op = "SET" /\ k + 1 > 1
    BY <1>2, <1>6, <2>1
  <2> QED BY <1>1, <1>2, <1>6, <2>1, <2>2 DEF OrderInv
<1>7. /\ op = "SET" => /\ pc[Msg.from] \notin Early
                       /\ Msg.ncsid = NcSid(Msg.from)
                       /\ Msg.pid = PidOf[Msg.from] % PidMod
      /\ op = "CLOSE" => pc[Msg.from] = "exited"
      /\ pc[Msg.from] \in Waiting /\ Msg.serial = calls[Msg.from] => op = OpOf(pc[Msg.from])
  BY <1>1, <1>2 DEF QueueInv
<1> QED BY <1>1, <1>2, <1>3, <1>4, <1>5, <1>6, <1>7, CallFields

\* Every handler of the server, its end and its start keep the invariant.
LEMMA ServerInv ==
    ASSUME IInv, ServerStep \/ ServerEnds \/ ServerStarts
    PROVE  Rest'
<1> USE DEF IInv
<1>1. ASSUME NEW op, Pop(op), op \notin {"SET", "CLOSE"}, agents' \subseteq agents
      PROVE  Rest'
  <2>1. /\ QueueInv' /\ OrderInv' /\ srv = "up" /\ UNCHANGED <<pc, srv>>
        /\ \A b, o : Queued(b, o) <=> Queued(b, o)' \/ (Msg.from = b /\ op = o)
    BY <1>1, PopInv
  <2>2. SessionInv'
    BY <1>1, <2>1 DEF SessionInv, Rec
  <2>3. DepartedIsClosed'
    BY <1>1, <2>1 DEF DepartedIsClosed, ByAgentId
  <2> QED BY <2>1, <2>2, <2>3 DEF Rest, DownInv
<1>2. CASE HandleStdIf \/ GetCapabilities \/ KillSessionError \/ ProcessOperation
  BY <1>1, <1>2 DEF HandleStdIf, GetCapabilities, KillSessionError, ProcessOperation
<1>3. CASE KillSession
  BY <1>1, <1>3 DEF KillSession, SrvAgentKill, SrvAgentStop
<1>4. CASE SetSession
  <2>0. PICK a : a = Msg.from
    OBVIOUS
  <2>1. /\ QueueInv' /\ OrderInv' /\ srv = "up" /\ UNCHANGED <<pc, srv>>
        /\ \A b, o : Queued(b, o) <=> Queued(b, o)' \/ (a = b /\ "SET" = o)
        /\ a \in Agents /\ ~Queued(a, "SET")' /\ pc[a] \notin Early
        /\ Msg.ncsid = NcSid(a) /\ Msg.pid = PidOf[a] % PidMod
    BY <1>4, <2>0, PopInv DEF SetSession
  <2>2. agents' = agents \cup {Rec(a)}
    BY <1>4, <2>0, <2>1 DEF SetSession, Rec
  <2>3. SessionInv'
    BY <2>1, <2>2 DEF SessionInv, Rec
  <2>4. DepartedIsClosed'
    <3> SUFFICES ASSUME NEW b \in Agents, pc[b] = "exited",
                        ByAgentId(BusName(b))' # {} \/ Queued(b, "SET")'
                 PROVE  Queued(b, "CLOSE")'
      BY <2>1 DEF DepartedIsClosed
    <3>1. Queued(b, "CLOSE")
      <4>1. CASE b = a
        BY <2>1, <4>1 DEF DepartedIsClosed
      <4>2. CASE b # a
        <5>1. Rec(a).id # BusName(b)
          BY <2>1, <4>2, Names DEF Rec
        <5> QED BY <2>1, <2>2, <5>1 DEF DepartedIsClosed, ByAgentId
      <4> QED BY <4>1, <4>2
    <3> QED BY <2>1, <3>1
  <2> QED BY <2>1, <2>3, <2>4 DEF Rest, DownInv
<1>5. CASE CloseSession
  <2>0. PICK a : a = Msg.from
    OBVIOUS
  <2>1. /\ QueueInv' /\ OrderInv' /\ srv = "up" /\ UNCHANGED <<pc, srv>>
        /\ \A b, o : Queued(b, o) <=> Queued(b, o)' \/ (a = b /\ "CLOSE" = o)
        /\ a \in Agents /\ ~Queued(a, "SET")'
    BY <1>5, <2>0, PopInv DEF CloseSession
  <2>2. agents' \subseteq agents
    BY <1>5 DEF CloseSession, SrvAgentStop
  <2>3. \A s \in Sender : s = Rec(a)
    BY <2>0, <2>1, Names DEF Sender, ByAgentId, SessionInv, Rec
  <2>4. ByAgentId(BusName(a))' = {}
    BY <1>5, <2>0, <2>3 DEF CloseSession, SrvAgentStop, Sender, ByAgentId
  <2>5. SessionInv'
    BY <2>1, <2>2 DEF SessionInv, Rec
  <2>6. DepartedIsClosed'
    BY <2>1, <2>2, <2>4 DEF DepartedIsClosed, ByAgentId
  <2> QED BY <2>1, <2>5, <2>6 DEF Rest, DownInv
<1>6. CASE ServerEnds
  <2>1. DOMAIN queue' = {} /\ queue' = <<>> /\ agents' = {}
    BY <1>6 DEF ServerEnds
  <2> QED
    BY <2>1 DEF Rest, QueueInv, OrderInv, SessionInv, DownInv, DepartedIsClosed, Queued, ByAgentId
<1>7. CASE ServerStarts
  BY <1>7 DEF ServerStarts, agentVars, Rest, QueueInv, OrderInv, SessionInv, Rec, DownInv,
     DepartedIsClosed, Queued, ByAgentId
<1> QED BY <1>2, <1>3, <1>4, <1>5, <1>6, <1>7 DEF ServerStep

\* Every step keeps the invariant.
LEMMA StepInv == IInv /\ [Next]_vars => IInv'
<1> SUFFICES ASSUME IInv, [Next]_vars PROVE IInv'
  OBVIOUS
<1>1. TypeOK'
  BY TypeStep DEF IInv
<1>2. SUFFICES Rest'
  BY <1>1 DEF IInv, Rest
<1>3. CASE UNCHANGED vars
  BY <1>3 DEF vars, agentVars, busVars, IInv, Rest, QueueInv, OrderInv, SessionInv, Rec, DownInv,
     DepartedIsClosed, Queued, ByAgentId
<1> QED BY <1>3, AgentInv, ServerInv DEF Next

\* The invariant holds in every reachable state.
LEMMA Inductive == Spec => []IInv
BY InitInv, StepInv, PTL DEF Spec

-----------------------------------------------------------------------------
(* What the transport promises                                             *)

\* An agent that ended through comm_destroy leaves no session behind, however
\* late its SetSessionParams is executed.
THEOREM DepartedAreClosed == Spec => []DepartedIsClosed
<1>1. IInv => DepartedIsClosed
  BY DEF IInv
<1> QED BY <1>1, Inductive, PTL

-----------------------------------------------------------------------------
(* The registry                                                            *)

\* The PIDs of the agents are not cut when they are sent (uint16_t).
PidsFit == \A a \in Agents : PidOf[a] < PidMod

\* No client asks to kill its own session.
NoOwnKill == \A a \in Agents : <<a, a>> \notin Kills

\* Agents that live at the same time have different PIDs.
PidInv == \A a, b \in Agents : Running(a) /\ Running(b) /\ PidOf[a] = PidOf[b] => a = b

\* No request to kill the session of its sender is queued.
KillInv == \A k \in DOMAIN queue : queue[k].op = "KILL" => queue[k].ncsid # NcSid(queue[k].from)

\* Only comm_init starts a process: whoever lives after a step lived before it.
LEMMA Births ==
    ASSUME TypeOK, [Next]_vars
    PROVE  \A b \in Agents : Running(b)' => Running(b) \/ CommInit(b)
<1> SUFFICES ASSUME NEW b \in Agents, Running(b)', ~Running(b) PROVE CommInit(b)
  OBVIOUS
<1>1. pc'[b] # pc[b] /\ pc[b] \in {"new", "exited", "dead"}
  BY DEF Running
<1>2. ~UNCHANGED pc
  BY <1>1
<1>3. PICK a \in Agents : AgentStep(a) \/ ClientStep(a) \/ Timeout(a) \/ Crash(a)
  BY <1>2 DEF Next, vars, agentVars, Signal, ServerStep, HandleStdIf, GetCapabilities, SetSession,
     CloseSession, KillSessionError, KillSession, ProcessOperation, Pop, ServerEnds, ServerStarts
<1>4. CASE GetSrvCpblts(a) \/ SessionInfo(a) \/ Operation(a) \/ \E c \in Agents : RequestKill(a, c)
  <2>1. /\ pc[a] \in {"connected", "accepting", "ready"}
        /\ \E to : pc' = [pc EXCEPT ![a] = to]
    BY <1>4 DEF GetSrvCpblts, SessionInfo, Operation, RequestKill, Send
  <2> QED BY <1>1, <2>1 DEF TypeOK
<1>5. CASE Return(a) \/ Timeout(a) \/ Leave(a) \/ CommDestroy(a) \/ Crash(a) \/ HandleSignal(a)
  <2>1. pc[a] \notin {"new", "exited", "dead"}
    BY <1>5 DEF Return, Timeout, Leave, CommDestroy, Crash, HandleSignal, Running, Waiting
  <2> QED BY <1>1, <1>5, <2>1 DEF Return, Timeout, Leave, CommDestroy, Crash, HandleSignal, TypeOK
<1>6. CASE CommInit(a)
  <2>1. a = b
    BY <1>1, <1>6 DEF CommInit, Send, TypeOK
  <2> QED BY <1>6, <2>1
<1> QED BY <1>3, <1>4, <1>5, <1>6 DEF AgentStep, ClientStep

\* The kernel keeps the PIDs of living agents apart.
LEMMA PidStep ==
    ASSUME TypeOK, PidInv, [Next]_vars
    PROVE  PidInv'
<1> SUFFICES ASSUME NEW a \in Agents, NEW b \in Agents, Running(a)', Running(b)',
                    PidOf[a] = PidOf[b]
             PROVE  a = b
  BY DEF PidInv
<1>1. ASSUME NEW c \in Agents, CommInit(c), NEW d \in Agents, Running(d)', d # c
      PROVE  PidOf[d] # PidOf[c]
  <2>1. Running(d)
    BY <1>1 DEF CommInit, Send, TypeOK, Running
  <2> QED BY <1>1, <2>1 DEF CommInit, PidFree
<1>2. /\ Running(a) \/ CommInit(a)
      /\ Running(b) \/ CommInit(b)
  BY Births
<1> QED BY <1>1, <1>2 DEF PidInv

\* Only comm_kill_session queues a request to kill.
LEMMA KillStep ==
    ASSUME NoOwnKill, TypeOK, KillInv, [Next]_vars
    PROVE  KillInv'
<1>1. CASE queue' = queue
  BY <1>1 DEF KillInv
<1>2. CASE queue' = <<>>
  BY <1>2 DEF KillInv
<1>3. ASSUME NEW a \in Agents, NEW op \in Ops, NEW ncsid \in NcSids, NEW pid \in Nat,
             queue' = Append(queue, Message(a, op, ncsid, pid)),
             op = "KILL" => ncsid # NcSid(a)
      PROVE  KillInv'
  <2> DEFINE m == Message(a, op, ncsid, pid)
  <2>1. m.from = a /\ m.op = op /\ m.ncsid = ncsid
    BY DEF Message
  <2>2. m \in Call /\ queue \in Seq(Call)
    <3>1. calls[a] \in 0..MaxCalls /\ MaxCalls \in Nat
      BY DBusAssumption DEF TypeOK
    <3> QED BY <3>1 DEF Message, Call, Ops, TypeOK
  <2>4. queue' = Append(queue, m)
    BY <1>3
  <2> HIDE DEF m
  <2>3. /\ DOMAIN queue' = 1..(Len(queue) + 1) /\ DOMAIN queue = 1..Len(queue) /\ Len(queue) \in Nat
        /\ \A k \in DOMAIN queue : queue'[k] = queue[k]
        /\ queue'[Len(queue) + 1] = m
    BY <2>2, <2>4
  <2> QED BY <1>3, <2>1, <2>3 DEF KillInv
<1>4. ASSUME NEW op, Pop(op) PROVE KillInv'
  <2>1. queue \in Seq(Call) /\ queue # <<>> /\ queue' = Tail(queue)
    BY <1>4 DEF Pop, TypeOK
  <2>2. \A k \in DOMAIN queue' : k + 1 \in DOMAIN queue /\ queue'[k] = queue[k + 1]
    BY <2>1
  <2> QED BY <2>2 DEF KillInv
<1>5. ASSUME NEW a \in Agents, AgentStep(a) \/ ClientStep(a) \/ Timeout(a) \/ Signal(a) \/ Crash(a)
      PROVE  KillInv'
  <2>0. /\ NcSid(a) \in NcSids /\ (\A b \in Agents : NcSid(b) \in NcSids)
        /\ PidOf[a] % PidMod \in Nat /\ 0 \in Nat
    BY Names, SentPid
  <2>1. CASE CommInit(a) \/ GetSrvCpblts(a) \/ SessionInfo(a) \/ Operation(a)
    <3>1. PICK op \in Ops, pid \in Nat :
            /\ op # "KILL"
            /\ queue' = queue \/ queue' = Append(queue, Message(a, op, NcSid(a), pid))
      BY <2>0, <2>1 DEF CommInit, GetSrvCpblts, SessionInfo, Operation, Ops, Send
    <3> QED BY <1>1, <1>3, <2>0, <3>1
  <2>2. ASSUME NEW b \in Agents, RequestKill(a, b) PROVE KillInv'
    <3>1. NcSid(b) # NcSid(a)
      BY <2>2, Names DEF RequestKill, NoOwnKill
    <3>2. queue' = queue \/ queue' = Append(queue, Message(a, "KILL", NcSid(b), 0))
      BY <2>2 DEF RequestKill, Send
    <3> QED BY <1>1, <1>3, <2>0, <3>1, <3>2 DEF Ops
  <2>3. CASE CommDestroy(a)
    BY <1>1, <1>3, <2>0, <2>3 DEF CommDestroy, Ops
  <2>4. CASE Return(a) \/ Timeout(a) \/ Leave(a) \/ Crash(a) \/ HandleSignal(a) \/ Signal(a)
    BY <1>1, <2>4 DEF Return, Timeout, Leave, Crash, HandleSignal, Signal, busVars
  <2> QED BY <1>5, <2>1, <2>2, <2>3, <2>4 DEF AgentStep, ClientStep
<1>6. CASE ServerStep
  BY <1>4, <1>6 DEF ServerStep, HandleStdIf, GetCapabilities, SetSession, CloseSession,
     KillSessionError, KillSession, ProcessOperation
<1>7. CASE ServerEnds \/ ServerStarts \/ UNCHANGED vars
  BY <1>1, <1>2, <1>7 DEF ServerEnds, ServerStarts, vars, busVars
<1> QED BY <1>5, <1>6, <1>7 DEF Next

\* What the registry sees of an agent that is told to terminate.
Told(a) == PhaseOf(a) # "left" /\ (sigpend[a] \/ mainloop[a])

\* A step that the registry does not see in an agent.
Same(a) == PhaseOf(a)' = PhaseOf(a) /\ SessOf(a)' = SessOf(a) /\ Told(a)' = Told(a)

\* A step that changes one agent, or none, in a way that the registry allows.
LEMMA OneAgent ==
    ASSUME NEW a \in Agents, \A b \in Agents : b # a => Same(b),
           UNCHANGED <<srv, restarts>>,
           \/ Same(a)
           \/ /\ srv = "up" /\ SessOf(a) = "none" /\ SessOf(a)' = "open"
              /\ PhaseOf(a)' = PhaseOf(a) /\ Told(a)' = Told(a)
           \/ /\ SessOf(a) = "open" \/ Told(a) \/ srv = "down" \/ restarts > 0
              /\ PhaseOf(a) = "new" /\ PhaseOf(a)' = "serving"
              /\ SessOf(a)' = SessOf(a) /\ Told(a)' = Told(a)
           \/ /\ PhaseOf(a) # "left" /\ PhaseOf(a)' = "left"
              /\ SessOf(a)' = SessOf(a) \/ (SessOf(a) = "none" /\ SessOf(a)' = "gone")
           \/ /\ srv = "up" /\ PhaseOf(a) = "left" /\ SessOf(a) = "open" /\ SessOf(a)' = "gone"
              /\ PhaseOf(a)' = PhaseOf(a) /\ Told(a)' = Told(a)
           \/ /\ PhaseOf(a) # "left" /\ ~Told(a) /\ Told(a)'
              /\ PhaseOf(a)' = PhaseOf(a) /\ SessOf(a)' = SessOf(a)
           \/ /\ srv = "down" /\ SessOf(a) = "none" /\ SessOf(a)' = "gone"
              /\ PhaseOf(a)' = PhaseOf(a) /\ Told(a)' = Told(a)
    PROVE  Registry!Next \/ UNCHANGED Registry!vars
<1> USE DEF Same
<1> DEFINE ph == [b \in Agents |-> PhaseOf(b)]
           se == [b \in Agents |-> SessOf(b)]
           to == [b \in Agents |-> /\ PhaseOf(b) # "left"
                                   /\ sigpend[b] \/ mainloop[b]]
<1>1. \A b \in Agents : Told(b) \in BOOLEAN /\ Told(b)' \in BOOLEAN /\ to[b] = Told(b) /\ to'[b] = Told(b)'
  BY DEF Told
<1>2. /\ PhaseOf(a)' = PhaseOf(a) => ph' = ph
      /\ SessOf(a)' = SessOf(a) => se' = se
      /\ ph' = [ph EXCEPT ![a] = PhaseOf(a)']
      /\ se' = [se EXCEPT ![a] = SessOf(a)']
  OBVIOUS
<1>3. /\ Told(a)' = Told(a) => to' = to
      /\ to' = [to EXCEPT ![a] = Told(a)']
  BY DEF Told
<1>4. ph[a] = PhaseOf(a) /\ se[a] = SessOf(a) /\ to[a] = Told(a)
  BY DEF Told
<1>5. CASE Same(a)
  BY <1>2, <1>3, <1>5 DEF Registry!vars
<1>6. CASE /\ srv = "up" /\ SessOf(a) = "none" /\ SessOf(a)' = "open"
           /\ PhaseOf(a)' = PhaseOf(a) /\ Told(a)' = Told(a)
  <2>1. Registry!Open(a)
    BY <1>2, <1>3, <1>4, <1>6 DEF Registry!Open
  <2> QED BY <2>1 DEF Registry!Next
<1>7. CASE /\ SessOf(a) = "open" \/ Told(a) \/ srv = "down" \/ restarts > 0
           /\ PhaseOf(a) = "new" /\ PhaseOf(a)' = "serving"
           /\ SessOf(a)' = SessOf(a) /\ Told(a)' = Told(a)
  <2>1. Registry!Begin(a)
    BY <1>2, <1>3, <1>4, <1>7 DEF Registry!Begin
  <2> QED BY <2>1 DEF Registry!Next
<1>8. CASE /\ PhaseOf(a) # "left" /\ PhaseOf(a)' = "left"
           /\ SessOf(a)' = SessOf(a) \/ (SessOf(a) = "none" /\ SessOf(a)' = "gone")
  <2>0. Told(a)' = FALSE
    BY <1>8 DEF Told
  <2>1. Registry!Leave(a)
    BY <1>2, <1>3, <1>4, <1>8, <2>0 DEF Registry!Leave
  <2> QED BY <2>1 DEF Registry!Next
<1>9. CASE /\ srv = "up" /\ PhaseOf(a) = "left" /\ SessOf(a) = "open" /\ SessOf(a)' = "gone"
           /\ PhaseOf(a)' = PhaseOf(a) /\ Told(a)' = Told(a)
  <2>1. Registry!Close(a)
    BY <1>2, <1>3, <1>4, <1>9 DEF Registry!Close, Registry!Stop
  <2> QED BY <2>1 DEF Registry!Next
<1>10. CASE /\ PhaseOf(a) # "left" /\ ~Told(a) /\ Told(a)'
            /\ PhaseOf(a)' = PhaseOf(a) /\ SessOf(a)' = SessOf(a)
  <2>0. Told(a)' = TRUE
    BY <1>1, <1>10
  <2>1. Registry!Signal(a)
    BY <1>2, <1>3, <1>4, <1>10, <2>0 DEF Registry!Signal
  <2> QED BY <2>1 DEF Registry!Next
<1>11. CASE /\ srv = "down" /\ SessOf(a) = "none" /\ SessOf(a)' = "gone"
            /\ PhaseOf(a)' = PhaseOf(a) /\ Told(a)' = Told(a)
  <2>1. Registry!Forget(a)
    BY <1>2, <1>3, <1>4, <1>11 DEF Registry!Forget
  <2> QED BY <2>1 DEF Registry!Next
<1> QED BY <1>5, <1>6, <1>7, <1>8, <1>9, <1>10, <1>11

\* The records tell the agents apart.
LEMMA RecsDiffer ==
    /\ \A a, b \in Agents : Rec(a) = Rec(b) => a = b
    /\ \A a : Rec(a).id = BusName(a) /\ Rec(a).ncsid = NcSid(a)
              /\ Rec(a).pid = PidOf[a] % PidMod
<1>1. \A a : Rec(a).id = BusName(a) /\ Rec(a).ncsid = NcSid(a)
             /\ Rec(a).pid = PidOf[a] % PidMod
  BY DEF Rec
<1> QED BY <1>1, Names

\* The session of an agent, from its one record and its one request.
Sess(a) == IF Rec(a) \in agents THEN "open"
           ELSE IF pc[a] \in Early \/ Queued(a, "SET") THEN "none" ELSE "gone"

LEMMA SessIs ==
    SessionInv => \A a \in Agents : SessOf(a) = Sess(a)
<1> SUFFICES ASSUME SessionInv, NEW a \in Agents PROVE SessOf(a) = Sess(a)
  OBVIOUS
<1>1. ByAgentId(BusName(a)) # {} <=> Rec(a) \in agents
  BY RecsDiffer, Names DEF SessionInv, ByAgentId
<1> QED BY <1>1 DEF SessOf, Sess, Early

\* The same after a step.
LEMMA SessNext ==
    SessionInv' => \A a \in Agents : SessOf(a)' = Sess(a)'
<1>1. SessionInv' => (\A a \in Agents : SessOf(a) = Sess(a))'
  BY SessIs, PTL
<1> QED BY <1>1

\* A PID that fits is recorded as it is.
LEMMA KillReaches ==
    ASSUME PidsFit, NEW b \in Agents
    PROVE  Rec(b).pid = PidOf[b] /\ PidOf[b] # 0
<1>1. PidOf[b] \in Nat /\ PidOf[b] # 0 /\ PidOf[b] < PidMod /\ PidMod \in Nat \ {0}
  BY DBusAssumption DEF PidsFit
<1>2. PidOf[b] % PidMod = PidOf[b]
  BY <1>1
<1>3. Rec(b).pid = PidOf[b]
  BY <1>2, RecsDiffer
<1> QED BY <1>1, <1>3

\* What a granted request for a session left behind is kept.
LEMMA GrantStep ==
    ASSUME PidsFit, IInv, GrantInv, [Next]_vars
    PROVE  GrantInv'
<1> USE DEF IInv
<1> SUFFICES ASSUME NEW c \in Agents, pc'[c] = "set", reply'[c] = "ok",
                    ~(srv' = "down"), ~(restarts' > 0)
             PROVE  Rec(c) \in agents' \/ sigpend'[c] \/ mainloop'[c]
  BY DEF GrantInv, Rec
<1>0. /\ "set" \in Waiting /\ reply[c] # "none" => pc[c] \in Waiting
      /\ restarts \in Nat /\ srv \in {"up", "down"}
  BY DBusAssumption DEF TypeOK, Waiting
<1>1. ASSUME pc[c] = "set", reply[c] = "ok", UNCHANGED <<srv, restarts>>,
             Rec(c) \in agents => Rec(c) \in agents' \/ sigpend'[c],
             sigpend[c] => sigpend'[c] \/ mainloop'[c], mainloop[c] => mainloop'[c]
      PROVE  Rec(c) \in agents' \/ sigpend'[c] \/ mainloop'[c]
  BY <1>1 DEF GrantInv
<1>2. CASE UNCHANGED vars
  BY <1>1, <1>2 DEF vars, agentVars, busVars
<1>3. ASSUME NEW a \in Agents,
             AgentStep(a) \/ ClientStep(a) \/ Timeout(a) \/ Signal(a) \/ Crash(a)
      PROVE  Rec(c) \in agents' \/ sigpend'[c] \/ mainloop'[c]
  <2>1. UNCHANGED <<srv, restarts, agents>>
    BY <1>3 DEF AgentStep, ClientStep, CommInit, GetSrvCpblts, SessionInfo, Operation,
       RequestKill, Send, Return, Timeout, Leave, CommDestroy, Crash, HandleSignal, Signal, busVars
  <2>2. /\ sigpend[c] => sigpend'[c] \/ mainloop'[c]
        /\ mainloop[c] => mainloop'[c]
    BY <1>3 DEF AgentStep, ClientStep, CommInit, GetSrvCpblts, SessionInfo, Operation,
       RequestKill, Send, Return, Timeout, Leave, CommDestroy, Crash, HandleSignal, Signal, TypeOK
  <2>3. pc[c] = "set" /\ reply[c] = "ok"
    <3>1. CASE CommInit(a) \/ GetSrvCpblts(a) \/ SessionInfo(a) \/ Operation(a)
               \/ \E b \in Agents : RequestKill(a, b)
      <4>1. PICK from, to, op, ncsid, pid :
              /\ from \in {"new", "connected", "accepting", "ready"}
              /\ Send(a, from, to, op, ncsid, pid)
        <5>1. CASE CommInit(a)
          BY <5>1 DEF CommInit
        <5>2. CASE GetSrvCpblts(a) \/ SessionInfo(a) \/ Operation(a)
          BY <5>2 DEF GetSrvCpblts, SessionInfo, Operation
        <5>3. CASE \E b \in Agents : RequestKill(a, b)
          BY <5>3 DEF RequestKill
        <5> QED BY <3>1, <5>1, <5>2, <5>3
      <4>2. from \notin Waiting
        BY <4>1 DEF Waiting
      <4>3. c # a
        <5>1. ASSUME c = a PROVE FALSE
          BY <1>0, <4>1, <4>2, <5>1 DEF Send, TypeOK
        <5> QED BY <5>1
      <4> QED BY <4>1, <4>3 DEF Send, TypeOK
    <3>2. CASE Return(a) \/ Timeout(a) \/ Leave(a) \/ CommDestroy(a) \/ Crash(a)
      BY <3>2 DEF Return, Timeout, Leave, CommDestroy, Crash, TypeOK, OkTo, FailTo, Waiting
    <3>3. CASE HandleSignal(a) \/ Signal(a)
      BY <3>3 DEF HandleSignal, Signal, TypeOK
    <3> QED BY <1>3, <3>1, <3>2, <3>3 DEF AgentStep, ClientStep
  <2> QED BY <1>1, <2>1, <2>2, <2>3
<1>4. ASSUME NEW op, Pop(op), NEW kind \in {"ok", "error"}, Answer(kind),
             op = "SET" => Rec(Msg.from) \in agents',
             Rec(c) \in agents => Rec(c) \in agents' \/ sigpend'[c],
             sigpend[c] => sigpend'[c]
      PROVE  Rec(c) \in agents' \/ sigpend'[c] \/ mainloop'[c]
  <2>1. /\ UNCHANGED <<pc, mainloop, calls, srv, restarts>>
        /\ pc[Msg.from] \in Waiting /\ Msg.serial = calls[Msg.from] => op = OpOf(pc[Msg.from])
    BY <1>4, PopInv
  <2>2. reply'[c] # reply[c] =>
          c = Msg.from /\ reply'[c] = kind /\ pc[c] \in Waiting /\ calls[c] = Msg.serial
    BY <1>4, <2>1, AnswerTypes DEF Pop
  <2>3. CASE reply'[c] = reply[c]
    BY <1>1, <1>4, <2>1, <2>3
  <2>4. CASE reply'[c] # reply[c]
    <3>1. op = OpOf("set")
      BY <2>1, <2>2, <2>4
    <3>2. op = "SET"
      BY <3>1 DEF OpOf
    <3> QED BY <1>4, <2>2, <2>4, <3>2
  <2> QED BY <2>3, <2>4
<1>5. CASE HandleStdIf \/ GetCapabilities \/ KillSessionError \/ ProcessOperation
  BY <1>4, <1>5 DEF HandleStdIf, GetCapabilities, KillSessionError, ProcessOperation
<1>6. CASE SetSession
  <2>1. Rec(Msg.from) \in agents' /\ agents \subseteq agents'
    BY <1>6, PopInv DEF SetSession, Rec
  <2> QED BY <1>4, <1>6, <2>1 DEF SetSession
<1>7. CASE CloseSession
  <2>1. pc[Msg.from] = "exited" /\ UNCHANGED <<pc, mainloop, calls, srv, restarts, reply, sigpend>>
        /\ Msg.from \in Agents
    BY <1>7, PopInv DEF CloseSession
  <2>2. c # Msg.from
    BY <2>1
  <2>3. Rec(c) \in agents => Rec(c) \in agents'
    BY <1>7, <2>1, <2>2, Names, RecsDiffer DEF CloseSession, SrvAgentStop, Sender, ByAgentId
  <2> QED BY <1>1, <2>1, <2>3
<1>8. CASE KillSession
  <2>1. PICK s \in ByNcsid(Msg.ncsid) : SrvAgentKill(s)
    BY <1>8 DEF KillSession
  <2>2. PICK b \in Agents : s = Rec(b)
    BY DEF ByNcsid, SessionInv
  <2>3. /\ agents' = agents \ {Rec(b)}
        /\ sigpend' = [d \in Agents |-> sigpend[d] \/ (Running(d) /\ PidOf[d] = Rec(b).pid)]
    BY <2>1, <2>2 DEF SrvAgentKill, SrvAgentStop
  <2>4. Pop("KILL") /\ Answer("ok") /\ UNCHANGED pc
    BY <1>8 DEF KillSession, Pop
  <2>5. sigpend[c] => sigpend'[c]
    BY <2>3
  <2>6. Rec(c) \in agents => Rec(c) \in agents' \/ sigpend'[c]
    <3>1. Running(c)
      BY <2>4 DEF Running
    <3>2. CASE c = b
      BY <2>3, <3>1, <3>2, KillReaches
    <3>3. CASE c # b
      BY <2>3, <3>3, RecsDiffer
    <3> QED BY <3>2, <3>3
  <2> QED BY <1>4, <2>4, <2>5, <2>6
<1>9. CASE ServerEnds \/ ServerStarts
  BY <1>0, <1>9 DEF ServerEnds, ServerStarts
<1> QED
  BY <1>2, <1>3, <1>5, <1>6, <1>7, <1>8, <1>9 DEF Next, ServerStep

\* An agent that moves, for the registry: it stays where it is, begins to
\* serve, or leaves.
LEMMA MoveRefines ==
    ASSUME IInv, IInv', NEW a \in Agents,
           \A b \in Agents : b # a => pc'[b] = pc[b] /\ sigpend'[b] = sigpend[b]
                                      /\ mainloop'[b] = mainloop[b],
           UNCHANGED <<srv, agents, restarts>>,
           \A b \in Agents : Queued(b, "SET")' <=> Queued(b, "SET"),
           \/ /\ PhaseOf(a)' = PhaseOf(a) /\ (pc'[a] \in Early <=> pc[a] \in Early)
              /\ PhaseOf(a) = "left" \/ (sigpend[a] \/ mainloop[a] => sigpend'[a] \/ mainloop'[a])
           \/ /\ pc[a] = "set" /\ pc'[a] = "ready" /\ UNCHANGED <<sigpend, mainloop>>
              /\ \/ Rec(a) \in agents \/ sigpend[a] \/ mainloop[a]
                 \/ srv = "down" \/ restarts > 0
           \/ PhaseOf(a) # "left" /\ PhaseOf(a)' = "left"
    PROVE  Registry!Next \/ UNCHANGED Registry!vars
<1> USE DEF IInv
<1>0. /\ \A b \in Agents : SessOf(b) = Sess(b) /\ SessOf(b)' = Sess(b)'
      /\ \A b \in Agents : Told(b) \in BOOLEAN /\ Told(b)' \in BOOLEAN
  BY SessIs, SessNext DEF Told
<1>1. \A b \in Agents : b # a => Same(b)
  <2> SUFFICES ASSUME NEW b \in Agents, b # a PROVE Same(b)
    OBVIOUS
  <2>1. PhaseOf(b)' = PhaseOf(b) /\ Told(b)' = Told(b)
    BY DEF PhaseOf, Told
  <2>2. Sess(b)' = Sess(b)
    BY DEF Sess, Rec
  <2> QED BY <1>0, <2>1, <2>2 DEF Same
<1>2. CASE /\ PhaseOf(a)' = PhaseOf(a) /\ (pc'[a] \in Early <=> pc[a] \in Early)
           /\ PhaseOf(a) = "left" \/ (sigpend[a] \/ mainloop[a] => sigpend'[a] \/ mainloop'[a])
  <2>1. SessOf(a)' = SessOf(a)
    BY <1>0, <1>2 DEF Sess, Rec
  <2>2. CASE Told(a)' = Told(a)
    BY <1>1, <1>2, <2>1, <2>2, OneAgent DEF Same
  <2>3. CASE Told(a)' # Told(a)
    <3>1. PhaseOf(a) # "left" /\ ~Told(a) /\ Told(a)'
      BY <1>0, <1>2, <2>3 DEF Told
    <3> QED BY <1>1, <1>2, <2>1, <3>1, OneAgent
  <2> QED BY <2>2, <2>3
<1>3. CASE /\ pc[a] = "set" /\ pc'[a] = "ready" /\ UNCHANGED <<sigpend, mainloop>>
           /\ \/ Rec(a) \in agents \/ sigpend[a] \/ mainloop[a]
              \/ srv = "down" \/ restarts > 0
  <2>1. PhaseOf(a) = "new" /\ PhaseOf(a)' = "serving"
    BY <1>3 DEF PhaseOf
  <2>2. SessOf(a)' = SessOf(a) /\ (Rec(a) \in agents => SessOf(a) = "open")
    BY <1>0, <1>3 DEF Sess, Rec, Early
  <2>3. Told(a)' = Told(a) /\ (sigpend[a] \/ mainloop[a] => Told(a))
    BY <1>3, <2>1 DEF Told
  <2> QED BY <1>1, <1>3, <2>1, <2>2, <2>3, OneAgent
<1>4. CASE PhaseOf(a) # "left" /\ PhaseOf(a)' = "left"
  <2>1. pc'[a] \notin Early
    BY <1>4 DEF PhaseOf, Early
  <2>2. SessOf(a)' = SessOf(a) \/ (SessOf(a) = "none" /\ SessOf(a)' = "gone")
    BY <1>0, <2>1 DEF Sess, Rec
  <2> QED BY <1>1, <1>4, <2>2, OneAgent
<1> QED BY <1>2, <1>3, <1>4

\* A call is nothing to the registry, but for the request for a session when
\* no server is there.
LEMMA SendRefines ==
    ASSUME IInv, IInv', NEW a \in Agents, NEW from \in {"new", "connected", "accepting", "ready"},
           NEW to \in Waiting, NEW ncsid \in NcSids, NEW pid \in Nat,
           Send(a, from, to, OpOf(to), ncsid, pid),
           to = "set" <=> from = "accepting",
           to \in Early <=> from \in {"new", "connected"}
    PROVE  Registry!Next \/ UNCHANGED Registry!vars
<1> USE DEF IInv
<1>0. /\ OpOf(to) \in Ops /\ (OpOf(to) = "SET" <=> to = "set")
  BY DEF OpOf, Ops, Waiting
<1>1. Message(a, OpOf(to), ncsid, pid) \in Call /\ queue \in Seq(Call)
  BY <1>0, SendTypes DEF TypeOK
<1>2. /\ pc[a] = from /\ pc'[a] = to /\ \A b \in Agents : b # a => pc'[b] = pc[b]
      /\ UNCHANGED <<sigpend, mainloop, srv, agents, restarts>>
  BY DEF Send, TypeOK
<1>3. /\ srv = "up" => \A b, op : Queued(b, op)' <=> Queued(b, op) \/ (a = b /\ OpOf(to) = op)
      /\ srv # "up" => \A b, op : Queued(b, op)' <=> Queued(b, op)
  <2>1. Message(a, OpOf(to), ncsid, pid).from = a /\ Message(a, OpOf(to), ncsid, pid).op = OpOf(to)
    BY DEF Message
  <2>2. CASE srv = "up"
    <3>1. queue' = Append(queue, Message(a, OpOf(to), ncsid, pid))
      BY <2>2 DEF Send
    <3> QED BY <1>1, <2>1, <2>2, <3>1, PushQueued
  <2>3. CASE srv # "up"
    BY <2>3 DEF Send, Queued
  <2> QED BY <2>2, <2>3
<1>4. PhaseOf(a)' = PhaseOf(a)
  <2>1. CASE from = "ready"
    BY <1>2, <2>1 DEF PhaseOf, Waiting, Early
  <2>2. CASE from = "accepting"
    BY <1>2, <2>2 DEF PhaseOf
  <2>3. CASE from \in {"new", "connected"}
    BY <1>2, <2>3 DEF PhaseOf, Early
  <2> QED BY <2>1, <2>2, <2>3
<1>5. CASE to # "set"
  <2>1. \A b \in Agents : Queued(b, "SET")' <=> Queued(b, "SET")
    BY <1>0, <1>3, <1>5
  <2>2. pc'[a] \in Early <=> pc[a] \in Early
    BY <1>2, <1>5 DEF Early
  <2> QED BY <1>2, <1>4, <2>1, <2>2, MoveRefines
<1>6. CASE to = "set"
  <2>1. pc[a] = "accepting" /\ pc'[a] = "set" /\ "accepting" \in Early /\ "set" \notin Early
    BY <1>2, <1>6 DEF Early
  <2>2. Rec(a) \notin agents /\ ~Queued(a, "SET")
    <3>1. Rec(a) \notin agents
      BY <2>1, RecsDiffer DEF SessionInv
    <3> QED BY <2>1, <3>1 DEF QueueInv, Queued
  <2>3. \A b \in Agents : SessOf(b) = Sess(b) /\ SessOf(b)' = Sess(b)'
    BY SessIs, SessNext
  <2>4. \A b \in Agents : b # a => Same(b)
    <3> SUFFICES ASSUME NEW b \in Agents, b # a PROVE Same(b)
      OBVIOUS
    <3>1. PhaseOf(b)' = PhaseOf(b) /\ Told(b)' = Told(b)
      BY <1>2 DEF PhaseOf, Told
    <3>2. Queued(b, "SET")' <=> Queued(b, "SET")
      BY <1>3
    <3>3. Sess(b)' = Sess(b)
      BY <1>2, <3>2 DEF Sess, Rec
    <3> QED BY <2>3, <3>1, <3>3 DEF Same
  <2>5. Told(a)' = Told(a)
    BY <1>2, <1>4 DEF Told
  <2>6. SessOf(a) = "none"
    BY <2>1, <2>2, <2>3 DEF Sess
  <2>7. CASE srv = "up"
    <3>1. Queued(a, "SET")'
      BY <1>0, <1>3, <1>6, <2>7
    <3>2. SessOf(a)' = "none"
      BY <1>2, <2>2, <2>3, <3>1 DEF Sess, Rec
    <3> QED BY <1>2, <1>4, <2>4, <2>5, <2>6, <3>2, OneAgent DEF Same
  <2>8. CASE srv = "down"
    <3>1. ~Queued(a, "SET")'
      BY <1>3, <2>2, <2>8
    <3>2. SessOf(a)' = "gone"
      BY <1>2, <2>1, <2>2, <2>3, <3>1 DEF Sess, Rec
    <3> QED BY <1>2, <1>4, <2>4, <2>5, <2>6, <2>8, <3>2, OneAgent
  <2> QED BY <2>7, <2>8 DEF TypeOK
<1> QED BY <1>5, <1>6

\* Every step of an agent is a step of the registry, or nothing to it.
LEMMA AgentRefines ==
    ASSUME IInv, IInv', GrantInv, NEW a \in Agents,
           AgentStep(a) \/ ClientStep(a) \/ Timeout(a) \/ Signal(a) \/ Crash(a)
    PROVE  Registry!Next \/ UNCHANGED Registry!vars
<1> USE DEF IInv
<1>0. /\ NcSid(a) \in NcSids /\ (\A b \in Agents : NcSid(b) \in NcSids)
      /\ PidOf[a] % PidMod \in Nat /\ 0 \in Nat
  BY Names, SentPid, DBusAssumption
<1>1. CASE CommInit(a)
  BY <1>0, <1>1, SendRefines DEF CommInit, OpOf, Waiting, Early
<1>2. CASE GetSrvCpblts(a)
  BY <1>0, <1>2, SendRefines DEF GetSrvCpblts, OpOf, Waiting, Early
<1>3. CASE SessionInfo(a)
  BY <1>0, <1>3, SendRefines DEF SessionInfo, OpOf, Waiting, Early
<1>4. CASE Operation(a)
  BY <1>0, <1>4, SendRefines DEF Operation, OpOf, Waiting, Early
<1>5. ASSUME NEW b \in Agents, RequestKill(a, b)
      PROVE  Registry!Next \/ UNCHANGED Registry!vars
  BY <1>0, <1>5, SendRefines DEF RequestKill, OpOf, Waiting, Early
<1>6. CASE Return(a) \/ Timeout(a) \/ Leave(a) \/ CommDestroy(a) \/ HandleSignal(a) \/ Signal(a)
           \/ Crash(a)
  <2>1. /\ \A b \in Agents : b # a => pc'[b] = pc[b] /\ sigpend'[b] = sigpend[b]
                                      /\ mainloop'[b] = mainloop[b]
        /\ UNCHANGED <<srv, agents, restarts>>
    BY <1>6 DEF Return, Timeout, Leave, CommDestroy, HandleSignal, Signal, Crash, TypeOK, busVars
  <2>2. \A b \in Agents : Queued(b, "SET")' <=> Queued(b, "SET")
    <3>1. CASE queue' = queue
      BY <3>1 DEF Queued
    <3>2. CASE queue' # queue
      <4>1. CommDestroy(a) /\ queue' = Append(queue, Message(a, "CLOSE", NcSid(a), 0))
        BY <1>6, <3>2 DEF Return, Timeout, Leave, CommDestroy, HandleSignal, Signal, Crash, busVars
      <4>2. Message(a, "CLOSE", NcSid(a), 0) \in Call /\ Message(a, "CLOSE", NcSid(a), 0).op = "CLOSE"
            /\ queue \in Seq(Call)
        BY <1>0 DEF Message, Call, TypeOK
      <4> QED BY <4>1, <4>2, PushQueued
    <3> QED BY <3>1, <3>2
  <2>3. pc[a] \in Places
    BY DEF TypeOK, Places
  <2>4. CASE Return(a)
    <3>1. /\ pc[a] \in Waiting /\ UNCHANGED <<sigpend, mainloop>> /\ reply[a] \in {"ok", "error"}
          /\ pc'[a] = IF reply[a] = "ok" THEN OkTo(pc[a]) ELSE FailTo(pc[a])
      BY <2>4 DEF Return, TypeOK
    <3>2. CASE pc[a] = "set" /\ reply[a] = "ok"
      <4>1. pc'[a] = "ready"
        BY <3>1, <3>2 DEF OkTo
      <4>2. \/ Rec(a) \in agents \/ sigpend[a] \/ mainloop[a]
            \/ srv = "down" \/ restarts > 0
        BY <3>2 DEF GrantInv
      <4> QED BY <2>1, <2>2, <3>1, <3>2, <4>1, <4>2, MoveRefines
    <3>3. CASE pc[a] \in {"ping", "caps"} /\ reply[a] = "ok"
      <4>1. pc'[a] \in {"connected", "accepting"}
        BY <3>1, <3>3 DEF OkTo
      <4>2. PhaseOf(a)' = PhaseOf(a) /\ (pc'[a] \in Early <=> pc[a] \in Early)
        BY <3>3, <4>1 DEF PhaseOf, Early
      <4> QED BY <2>1, <2>2, <3>1, <4>2, MoveRefines
    <3>4. CASE pc[a] \in {"op", "kill"}
      <4>1. pc'[a] = "ready"
        BY <3>1, <3>4 DEF OkTo, FailTo
      <4>2. PhaseOf(a)' = PhaseOf(a) /\ (pc'[a] \in Early <=> pc[a] \in Early)
        BY <3>4, <4>1 DEF PhaseOf, Early
      <4> QED BY <2>1, <2>2, <3>1, <4>2, MoveRefines
    <3>5. CASE pc[a] \in {"ping", "caps", "set"} /\ reply[a] # "ok"
      <4>1. pc'[a] = "cleanup"
        BY <3>1, <3>5 DEF FailTo
      <4>2. PhaseOf(a) # "left" /\ PhaseOf(a)' = "left"
        BY <3>5, <4>1 DEF PhaseOf
      <4> QED BY <2>1, <2>2, <4>2, MoveRefines
    <3> QED BY <3>1, <3>2, <3>3, <3>4, <3>5 DEF Waiting
  <2>5. CASE Timeout(a)
    <3>1. pc[a] \in Waiting /\ UNCHANGED <<sigpend, mainloop>> /\ pc'[a] = FailTo(pc[a])
      BY <2>5 DEF Timeout, TypeOK
    <3>2. CASE pc[a] \in {"op", "kill"}
      <4>1. PhaseOf(a)' = PhaseOf(a) /\ (pc'[a] \in Early <=> pc[a] \in Early)
        BY <3>1, <3>2 DEF PhaseOf, Early, FailTo
      <4> QED BY <2>1, <2>2, <3>1, <4>1, MoveRefines
    <3>3. CASE pc[a] \notin {"op", "kill"}
      <4>1. PhaseOf(a) # "left" /\ PhaseOf(a)' = "left"
        BY <3>1, <3>3 DEF PhaseOf, FailTo, Waiting
      <4> QED BY <2>1, <2>2, <4>1, MoveRefines
    <3> QED BY <3>2, <3>3
  <2>6. CASE Leave(a)
    <3>1. PhaseOf(a) # "left" /\ PhaseOf(a)' = "left"
      BY <2>6 DEF Leave, PhaseOf, TypeOK
    <3> QED BY <2>1, <2>2, <3>1, MoveRefines
  <2>7. CASE CommDestroy(a)
    <3>1. PhaseOf(a) = "left" /\ PhaseOf(a)' = PhaseOf(a) /\ (pc'[a] \in Early <=> pc[a] \in Early)
      BY <2>7 DEF CommDestroy, PhaseOf, Early, TypeOK
    <3> QED BY <2>1, <2>2, <3>1, MoveRefines
  <2>8. CASE Signal(a)
    <3>1. UNCHANGED <<pc, mainloop>> /\ sigpend'[a]
      BY <2>8 DEF Signal, TypeOK
    <3>2. PhaseOf(a)' = PhaseOf(a) /\ (pc'[a] \in Early <=> pc[a] \in Early)
      BY <3>1 DEF PhaseOf
    <3> QED BY <2>1, <2>2, <3>1, <3>2, MoveRefines
  <2>9. CASE (HandleSignal(a) /\ mainloop[a]) \/ Crash(a)
    <3>1. Running(a) /\ pc'[a] = "dead"
      BY <2>9 DEF HandleSignal, Crash, TypeOK
    <3>2. CASE pc[a] = "cleanup"
      <4>1. PhaseOf(a) = "left" /\ PhaseOf(a)' = PhaseOf(a)
            /\ (pc'[a] \in Early <=> pc[a] \in Early)
        BY <3>1, <3>2 DEF PhaseOf, Early
      <4> QED BY <2>1, <2>2, <4>1, MoveRefines
    <3>3. CASE pc[a] # "cleanup"
      <4>1. PhaseOf(a) # "left" /\ PhaseOf(a)' = "left"
        BY <2>3, <3>1, <3>3 DEF PhaseOf, Running, Places, Waiting
      <4> QED BY <2>1, <2>2, <4>1, MoveRefines
    <3> QED BY <3>2, <3>3
  <2>10. CASE HandleSignal(a) /\ ~mainloop[a]
    <3>1. UNCHANGED pc /\ mainloop'[a]
      BY <2>10 DEF HandleSignal, TypeOK
    <3>2. PhaseOf(a)' = PhaseOf(a) /\ (pc'[a] \in Early <=> pc[a] \in Early)
      BY <3>1 DEF PhaseOf
    <3> QED BY <2>1, <2>2, <3>1, <3>2, MoveRefines
  <2> QED BY <1>6, <2>4, <2>5, <2>6, <2>7, <2>8, <2>9, <2>10
<1> QED
  BY <1>1, <1>2, <1>3, <1>4, <1>5, <1>6 DEF AgentStep, ClientStep

\* Every handler of the server, its end and its start, are steps of the
\* registry, or nothing to it.
LEMMA ServerRefines ==
    ASSUME PidsFit, PidInv, KillInv, IInv, IInv', ServerStep \/ ServerEnds \/ ServerStarts
    PROVE  Registry!Next \/ UNCHANGED Registry!vars
<1> USE DEF IInv
<1>0. \A b \in Agents : SessOf(b) = Sess(b) /\ SessOf(b)' = Sess(b)'
  BY SessIs, SessNext
<1>1. ASSUME UNCHANGED <<pc, sigpend, mainloop>>
      PROVE  \A b \in Agents : PhaseOf(b)' = PhaseOf(b) /\ Told(b)' = Told(b)
  BY <1>1 DEF PhaseOf, Told
<1>2. ASSUME NEW op, Pop(op), UNCHANGED sigpend, op # "SET", UNCHANGED agents
      PROVE  Registry!Next \/ UNCHANGED Registry!vars
  <2>1. /\ UNCHANGED <<pc, mainloop, srv, restarts>> /\ Msg.from \in Agents
        /\ \A b, o : Queued(b, o) <=> Queued(b, o)' \/ (Msg.from = b /\ op = o)
    BY <1>2, PopInv
  <2>2. \A b \in Agents : Sess(b)' = Sess(b)
    BY <1>2, <2>1 DEF Sess, Rec
  <2>3. \A b \in Agents : Same(b)
    BY <1>0, <1>1, <1>2, <2>1, <2>2 DEF Same
  <2> QED BY <2>1, <2>3, OneAgent
<1>3. CASE HandleStdIf \/ GetCapabilities \/ KillSessionError \/ ProcessOperation
  BY <1>2, <1>3 DEF HandleStdIf, GetCapabilities, KillSessionError, ProcessOperation
<1>4. CASE SetSession
  <2>0. PICK a : a = Msg.from
    OBVIOUS
  <2>1. /\ srv = "up" /\ UNCHANGED <<pc, mainloop, sigpend, srv, restarts>>
        /\ \A b, o : Queued(b, o) <=> Queued(b, o)' \/ (a = b /\ "SET" = o)
        /\ a \in Agents /\ ~Queued(a, "SET")' /\ pc[a] \notin Early
        /\ Msg.ncsid = NcSid(a) /\ Msg.pid = PidOf[a] % PidMod
    BY <1>4, <2>0, PopInv DEF SetSession
  <2>2. agents' = agents \cup {Rec(a)}
    BY <1>4, <2>0, <2>1 DEF SetSession, Rec
  <2>3. Rec(a) \notin agents
    BY <2>1, RecsDiffer DEF SessionInv
  <2>4. SessOf(a) = "none" /\ SessOf(a)' = "open"
    BY <1>0, <2>1, <2>2, <2>3 DEF Sess, Rec
  <2>5. \A b \in Agents : b # a => Sess(b)' = Sess(b)
    <3> SUFFICES ASSUME NEW b \in Agents, b # a PROVE Sess(b)' = Sess(b)
      OBVIOUS
    <3>1. Rec(b) \in agents' <=> Rec(b) \in agents
      BY <2>1, <2>2, RecsDiffer
    <3> QED BY <2>1, <3>1 DEF Sess, Rec
  <2>6. \A b \in Agents : b # a => Same(b)
    BY <1>0, <1>1, <2>1, <2>5 DEF Same
  <2> QED BY <1>1, <2>1, <2>4, <2>6, OneAgent
<1>5. CASE CloseSession
  <2>0. PICK a : a = Msg.from
    OBVIOUS
  <2>1. /\ srv = "up" /\ UNCHANGED <<pc, mainloop, sigpend, srv, restarts>>
        /\ \A b, o : Queued(b, o) <=> Queued(b, o)' \/ (a = b /\ "CLOSE" = o)
        /\ a \in Agents /\ ~Queued(a, "SET")' /\ pc[a] = "exited"
    BY <1>5, <2>0, PopInv DEF CloseSession
  <2>2. CASE UNCHANGED agents
    BY <1>2, <1>5, <2>2 DEF CloseSession
  <2>3. CASE ~UNCHANGED agents
    <3>1. PICK s \in Sender : agents' = agents \ {s}
      BY <1>5, <2>3 DEF CloseSession, SrvAgentStop
    <3>2. s = Rec(a) /\ s \in agents
      BY <2>0, <2>1, Names, RecsDiffer DEF Sender, ByAgentId, SessionInv
    <3>3. SessOf(a) = "open" /\ SessOf(a)' = "gone"
      BY <1>0, <2>1, <3>1, <3>2 DEF Sess, Rec, Early
    <3>4. \A b \in Agents : b # a => Sess(b)' = Sess(b)
      <4> SUFFICES ASSUME NEW b \in Agents, b # a PROVE Sess(b)' = Sess(b)
        OBVIOUS
      <4>1. Rec(b) \in agents' <=> Rec(b) \in agents
        BY <2>1, <3>1, <3>2, RecsDiffer
      <4> QED BY <2>1, <4>1 DEF Sess, Rec
    <3>5. \A b \in Agents : b # a => Same(b)
      BY <1>0, <1>1, <2>1, <3>4 DEF Same
    <3>6. PhaseOf(a) = "left"
      BY <2>1 DEF PhaseOf
    <3> QED BY <1>1, <2>1, <3>3, <3>5, <3>6, OneAgent
  <2> QED BY <2>2, <2>3
<1>6. CASE KillSession
  <2>1. PICK s \in ByNcsid(Msg.ncsid) : SrvAgentKill(s)
    BY <1>6 DEF KillSession
  <2>2. PICK b \in Agents : s = Rec(b) /\ pc[b] \notin Early /\ ~Queued(b, "SET")
    BY DEF ByNcsid, SessionInv
  <2>3. /\ agents' = agents \ {Rec(b)} /\ Rec(b) \in agents
        /\ sigpend' = [d \in Agents |-> sigpend[d] \/ (Running(d) /\ PidOf[d] = Rec(b).pid)]
    BY <2>1, <2>2 DEF SrvAgentKill, SrvAgentStop, ByNcsid
  <2>4. Pop("KILL")
    BY <1>6 DEF KillSession
  <2>5. /\ srv = "up" /\ UNCHANGED <<pc, mainloop, srv, restarts>> /\ Msg.from \in Agents
        /\ \A c, o : Queued(c, o) <=> Queued(c, o)' \/ (Msg.from = c /\ "KILL" = o)
    BY <2>4, PopInv
  <2>6. PICK a \in Agents : Rec(a) \in agents /\ a # b
    <3>1. PICK t \in Sender : t \in agents
      BY <1>6 DEF KillSession, KillRefused, Sender, ByAgentId
    <3>2. PICK c \in Agents : t = Rec(c)
      BY <3>1 DEF SessionInv
    <3>3. c = Msg.from
      BY <2>5, <3>1, <3>2, Names, RecsDiffer DEF Sender, ByAgentId
    <3>4. Msg.ncsid = NcSid(b)
      BY <2>1, <2>2, RecsDiffer DEF ByNcsid
    <3>5. Msg.ncsid # NcSid(Msg.from)
      <4>1. queue \in Seq(Call) /\ queue # <<>> /\ Msg.op = "KILL"
        BY <2>4 DEF Pop, TypeOK
      <4>2. 1 \in DOMAIN queue /\ Msg = queue[1]
        BY <4>1 DEF Msg
      <4> QED BY <4>1, <4>2 DEF KillInv
    <3> QED BY <3>1, <3>2, <3>3, <3>4, <3>5
  <2>7. SessOf(a) = "open" /\ SessOf(b) = "open"
    BY <1>0, <2>3, <2>6 DEF Sess
  <2>8. \A c \in Agents : PhaseOf(c)' = PhaseOf(c)
    BY <2>5 DEF PhaseOf
  <2>9. \A c \in Agents : SessOf(c)' = IF c = b THEN "gone" ELSE SessOf(c)
    <3> SUFFICES ASSUME NEW c \in Agents PROVE Sess(c)' = IF c = b THEN "gone" ELSE Sess(c)
      BY <1>0
    <3>1. Rec(c) \in agents' <=> (Rec(c) \in agents /\ c # b)
      BY <2>3, RecsDiffer
    <3>2. Queued(c, "SET")' <=> Queued(c, "SET")
      BY <2>5
    <3> QED BY <2>2, <2>5, <3>1, <3>2 DEF Sess, Rec
  <2> DEFINE Hit(c) == Running(c) /\ PidOf[c] = PidOf[b] /\ PhaseOf(c) # "left"
             ph == [c \in Agents |-> PhaseOf(c)]
             se == [c \in Agents |-> SessOf(c)]
             to == [c \in Agents |-> /\ PhaseOf(c) # "left"
                                     /\ sigpend[c] \/ mainloop[c]]
  <2>10. \A c \in Agents : /\ to[c] \in BOOLEAN /\ to'[c] \in BOOLEAN
                           /\ to'[c] <=> to[c] \/ Hit(c)
    <3> SUFFICES ASSUME NEW c \in Agents PROVE to'[c] <=> to[c] \/ Hit(c)
      OBVIOUS
    <3>1. sigpend'[c] <=> sigpend[c] \/ (Running(c) /\ PidOf[c] = PidOf[b])
      BY <2>3, KillReaches
    <3> QED BY <2>5, <2>8, <3>1
  <2>11. \A c, d \in Agents : Hit(c) /\ Hit(d) => c = d
    BY DEF PidInv
  <2>12. PhaseOf(b) # "left" => Hit(b)
    BY <2>2 DEF PhaseOf, Running, Early
  <2>13. ph' = ph /\ se' = [se EXCEPT ![b] = "gone"] /\ se[a] = "open" /\ se[b] = "open"
         /\ \A c \in Agents : ph[c] = PhaseOf(c)
    BY <2>7, <2>8, <2>9
  <2>14. \A c \in Agents : Hit(c) => to' = [to EXCEPT ![c] = TRUE] /\ ph[c] # "left"
    <3> SUFFICES ASSUME NEW c \in Agents, Hit(c)
                 PROVE  to' = [to EXCEPT ![c] = TRUE] /\ ph[c] # "left"
      OBVIOUS
    <3>1. \A d \in Agents : to'[d] = IF d = c THEN TRUE ELSE to[d]
      BY <2>10, <2>11
    <3>2. to' = [d \in Agents |-> to'[d]] /\ to = [d \in Agents |-> to[d]]
      OBVIOUS
    <3>3. ph[c] # "left"
      BY <2>13
    <3> HIDE DEF to, ph
    <3> QED BY <3>1, <3>2, <3>3
  <2>15. (\A c \in Agents : ~Hit(c)) => to' = to
    <3> SUFFICES ASSUME \A c \in Agents : ~Hit(c) PROVE to' = to
      OBVIOUS
    <3>1. \A d \in Agents : to'[d] = to[d]
      BY <2>10
    <3>2. to' = [d \in Agents |-> to'[d]] /\ to = [d \in Agents |-> to[d]]
      OBVIOUS
    <3> HIDE DEF to
    <3> QED BY <3>1, <3>2
  <2>16. Registry!Tell(b)
    <3>1. ph[b] = PhaseOf(b)
      BY <2>13
    <3>2. CASE ph[b] # "left"
      BY <2>12, <2>14, <3>1, <3>2 DEF Registry!Tell, Registry!TellAgent
    <3>3. CASE ph[b] = "left" /\ \A c \in Agents : ~Hit(c)
      BY <2>15, <3>3 DEF Registry!Tell
    <3>4. CASE ph[b] = "left" /\ \E c \in Agents : Hit(c)
      <4>1. PICK c \in Agents : Hit(c)
        BY <3>4
      <4>2. ph[c] # "left" /\ Registry!TellAgent(c)
        BY <2>14, <4>1 DEF Registry!TellAgent
      <4> QED BY <3>4, <4>2 DEF Registry!Tell
    <3> QED BY <3>2, <3>3, <3>4
  <2>17. Registry!Kill(a, b)
    BY <2>5, <2>6, <2>13, <2>16 DEF Registry!Kill, Registry!Stop
  <2> QED BY <2>17 DEF Registry!Next
<1>7. CASE ServerEnds
  <2>1. /\ agents' = {} /\ queue' = <<>> /\ srv' = "down"
        /\ UNCHANGED <<pc, mainloop, sigpend, restarts>>
    BY <1>7 DEF ServerEnds
  <2>2. \A b \in Agents : SessOf(b)' = SessOf(b) \/ SessOf(b)' = "gone"
    <3> SUFFICES ASSUME NEW b \in Agents PROVE Sess(b)' = Sess(b) \/ Sess(b)' = "gone"
      BY <1>0
    <3>1. Rec(b) \notin agents' /\ ~Queued(b, "SET")'
      BY <2>1 DEF Queued
    <3>2. pc[b] \in Early => Rec(b) \notin agents
      BY RecsDiffer DEF SessionInv
    <3> QED BY <2>1, <3>1, <3>2 DEF Sess, Rec
  <2> DEFINE S == {b \in Agents : SessOf(b)' = "gone"}
             se == [c \in Agents |-> SessOf(c)]
  <2>3. se' = [b \in Agents |-> IF b \in S THEN "gone" ELSE se[b]] /\ S \in SUBSET Agents
    BY <2>2
  <2>4. [c \in Agents |-> PhaseOf(c)]' = [c \in Agents |-> PhaseOf(c)]
    BY <2>1 DEF PhaseOf
  <2>5. [c \in Agents |-> /\ PhaseOf(c) # "left"
                          /\ sigpend[c] \/ mainloop[c]]'
        = [c \in Agents |-> /\ PhaseOf(c) # "left"
                            /\ sigpend[c] \/ mainloop[c]]
    BY <2>1 DEF PhaseOf
  <2>6. Registry!End
    <3> HIDE DEF S
    <3> QED BY <2>1, <2>3, <2>4, <2>5 DEF Registry!End
  <2> QED BY <2>6 DEF Registry!Next
<1>8. CASE ServerStarts
  <2>1. /\ srv = "down" /\ srv' = "up" /\ restarts' = restarts + 1 /\ restarts \in Nat
        /\ UNCHANGED <<agents, pc, mainloop, sigpend, queue>>
    BY <1>8, DBusAssumption DEF ServerStarts, TypeOK, agentVars
  <2>2. restarts' > 0
    BY <2>1
  <2>3. \A b \in Agents : Same(b)
    <3>1. \A b \in Agents : Sess(b)' = Sess(b)
      BY <2>1 DEF Sess, Rec, Queued
    <3> QED BY <1>0, <1>1, <2>1, <3>1 DEF Same
  <2>4. /\ [c \in Agents |-> PhaseOf(c)]' = [c \in Agents |-> PhaseOf(c)]
        /\ [c \in Agents |-> SessOf(c)]' = [c \in Agents |-> SessOf(c)]
    BY <2>3 DEF Same
  <2>5. [c \in Agents |-> /\ PhaseOf(c) # "left"
                          /\ sigpend[c] \/ mainloop[c]]'
        = [c \in Agents |-> /\ PhaseOf(c) # "left"
                            /\ sigpend[c] \/ mainloop[c]]
    BY <2>1 DEF PhaseOf
  <2>6. Registry!Start
    BY <2>1, <2>2, <2>4, <2>5 DEF Registry!Start
  <2> QED BY <2>6 DEF Registry!Next
<1> QED BY <1>3, <1>4, <1>5, <1>6, <1>7, <1>8 DEF ServerStep

\* The initial states are those of the registry.
LEMMA InitRefines == Init => Registry!Init
<1> SUFFICES ASSUME Init PROVE Registry!Init
  OBVIOUS
<1>1. \A a \in Agents : PhaseOf(a) = "new" /\ SessOf(a) = "none"
  BY DEF Init, PhaseOf, SessOf, ByAgentId
<1>2. [a \in Agents |-> /\ PhaseOf(a) # "left"
                        /\ sigpend[a] \/ mainloop[a]] = [a \in Agents |-> FALSE]
  BY DEF Init
<1>3. srv = "up" /\ ~(restarts > 0)
  BY DEF Init
<1> QED BY <1>1, <1>2, <1>3 DEF Registry!Init

\* Late execution of calls that timed out, crashes of agents and restarts of
\* the server included, the sessions of the D-Bus server behave as the registry
\* promises, as long as the PIDs fit into the 16 bits that an agent sends and
\* no client asks to kill its own session.  PIDs may be used again.
THEOREM DBusImplementsRegistry ==
    ASSUME PidsFit, NoOwnKill PROVE Spec => ImplementsRegistry
<1>1. ASSUME IInv, IInv', GrantInv, PidInv, KillInv, [Next]_vars
      PROVE  Registry!Next \/ UNCHANGED Registry!vars
  <2>1. CASE UNCHANGED vars
    BY <2>1 DEF vars, agentVars, busVars, Registry!vars, PhaseOf, SessOf, ByAgentId, Queued
  <2> QED BY <1>1, <2>1, AgentRefines, ServerRefines DEF Next
<1>2. Init => GrantInv /\ PidInv /\ KillInv
  BY DEF Init, GrantInv, PidInv, KillInv, Running
<1>3. IInv /\ GrantInv /\ PidInv /\ KillInv /\ [Next]_vars => GrantInv' /\ PidInv' /\ KillInv'
  BY GrantStep, PidStep, KillStep DEF IInv
<1>4. Spec => []IInv
  BY Inductive
<1>5. Spec => []GrantInv /\ []PidInv /\ []KillInv
  BY <1>2, <1>3, <1>4, PTL DEF Spec
<1> QED BY <1>1, <1>4, <1>5, InitRefines, PTL DEF Spec, ImplementsRegistry, Registry!Spec
-----------------------------------------------------------------------------
(* The locks                                                               *)

\* LockHasSession holds, and there is a lock for each datastore.
LockInv == LockHasSession /\ DOMAIN lock = Stores

\* The step of DBusServer that an RPC which locks or unlocks is part of.
LEMMA LockStep ==
    ASSUME LockInv, ProcessOperation, LockOrUnlock
    PROVE  LockInv'
<1>1. agents' = agents
  BY DEF ProcessOperation
<1>2. PICK s \in Sender, d \in Stores :
        \/ lock[d] = NoSession /\ lock' = [lock EXCEPT ![d] = s.ncsid]
        \/ lock[d] = s.ncsid /\ lock' = [lock EXCEPT ![d] = NoSession]
  BY DEF LockOrUnlock
<1>3. s \in agents
  BY <1>2 DEF Sender, ByAgentId
<1>0. DOMAIN lock' = Stores
  BY <1>2 DEF LockInv
<1> SUFFICES ASSUME NEW e \in Stores, lock'[e] # NoSession
             PROVE  \E r \in agents : r.ncsid = lock'[e]
  BY <1>0, <1>1 DEF LockInv, LockHasSession, NoSession
<1>4. lock'[e] = lock[e] \/ lock'[e] = s.ncsid \/ lock'[e] = NoSession
  BY <1>2 DEF LockInv
<1> QED BY <1>3, <1>4 DEF LockInv, LockHasSession

\* The locks of the sessions that a step takes away are broken in that step.
LEMMA BreakStep ==
    ASSUME LockInv, BreakLocks
    PROVE  LockInv'
<1> SUFFICES ASSUME NEW d \in Stores, lock'[d] # NoSession
             PROVE  \E r \in agents' : r.ncsid = lock'[d]
  BY DEF LockInv, LockHasSession, NoSession, BreakLocks
<1>1. lock'[d] = lock[d] /\ lock[d] \notin {s.ncsid : s \in agents \ agents'}
  BY DEF BreakLocks
<1>2. PICK s \in agents : s.ncsid = lock[d]
  BY <1>1 DEF LockInv, LockHasSession
<1>3. s \in agents'
  BY <1>1, <1>2
<1> QED BY <1>1, <1>2, <1>3

\* Whatever calls are queued, executed late or answered by nobody, a datastore
\* is never locked for a session that kill_session, close_session or the end of
\* the server took away.
THEOREM LocksGoWithSessions == DSpec => []LockHasSession
<1>1. DInit => LockInv
  BY DEF DInit, LockInv, LockHasSession
<1>2. LockInv /\ [DNext]_dvars => LockInv'
  <2> SUFFICES ASSUME LockInv, [DNext]_dvars PROVE LockInv'
    OBVIOUS
  <2>1. UNCHANGED <<agents, lock>> => LockInv'
    BY DEF LockInv, LockHasSession, NoSession
  <2>2. CASE DServerStep
    BY <2>2, LockStep, BreakStep DEF DServerStep
  <2>3. CASE ServerEnds /\ BreakLocks
    BY <2>3, BreakStep
  <2>4. CASE ServerStarts /\ UNCHANGED lock
    BY <2>1, <2>4 DEF ServerStarts
  <2>5. ASSUME NEW a \in Agents, UNCHANGED lock,
               AgentStep(a) \/ ClientStep(a) \/ Timeout(a) \/ Signal(a) \/ Crash(a)
        PROVE  LockInv'
    <3>1. AgentStep(a) => UNCHANGED agents
      BY DEF AgentStep, GetSrvCpblts, Send, Return, CommDestroy, HandleSignal, busVars
    <3>2. ClientStep(a) => UNCHANGED agents
      BY DEF ClientStep, CommInit, SessionInfo, Leave, Operation, RequestKill, Send, busVars
    <3>3. Timeout(a) \/ Signal(a) \/ Crash(a) => UNCHANGED agents
      BY DEF Timeout, Signal, Crash, busVars
    <3> QED BY <2>1, <2>5, <3>1, <3>2, <3>3
  <2>6. CASE UNCHANGED dvars
    BY <2>1, <2>6 DEF dvars, vars, busVars
  <2> QED BY <2>2, <2>3, <2>4, <2>5, <2>6 DEF DNext
<1> QED BY <1>1, <1>2, PTL DEF DSpec, LockInv
=============================================================================
