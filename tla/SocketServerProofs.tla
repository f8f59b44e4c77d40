------------------------- MODULE SocketServerProofs -------------------------
(***************************************************************************)
(* Proofs about SocketServer, for any number of agents, slots, descriptors *)
(* and faults: type correctness, the accounting of slots, the identity of  *)
(* sessions, and that only dead agents lose their slot.                    *)
(***************************************************************************)
EXTENDS SocketServer, FiniteSetTheorems, TLAPS

(* The inductive invariant.                                                *)

\* What a scan still has to handle: slots in use, whose hung-up peers are
\* gone, and no more of them than comm_loop counts.
EventsInv ==
    /\ loop = "scan" /\ srv = "up" =>
         /\ \A i \in Slots : revents[i] # "none" => slot[i] # 0
         /\ \A i \in Slots : revents[i] = "hup" => pc[fds[slot[i]]] = "exited"
         /\ Cardinality({i \in 0..AGENTS_QUEUE : revents[i] # "none"}) <= ret
    /\ loop # "poll" /\ srv = "up" /\ revents[0] # "none" => listening

\* The slots hold open descriptors, each at most once.
SlotsInv ==
    srv = "up" =>
        /\ \A i \in Slots : slot[i] # 0 => fds[slot[i]] # NoAgent
        /\ \A i, j \in Slots : slot[i] # 0 /\ slot[i] = slot[j] => i = j

CountInv ==
    srv = "up" =>
        /\ connected_agents = Cardinality(UsedSlots)
        /\ listening <=> connected_agents < AGENTS_QUEUE

\* Before an agent has announced itself there is no trace of its session.
Unannounced == {"new", "caps", "accepting"}

IsSet(a, k) == inbox[a][k].op = "SET"

AnnounceInv ==
    \A a \in Agents :
        /\ \A k \in DOMAIN inbox[a] : IsSet(a, k) =>
              /\ inbox[a][k].ncsid = a
              /\ pc[a] \notin Unannounced
              /\ \A s \in agents : s.ncsid # a
              /\ \A l \in DOMAIN inbox[a] : IsSet(a, l) => l = k
        /\ pc[a] \in Unannounced => \A s \in agents : s.ncsid # a

IInv == TypeOK /\ EventsInv /\ SlotsInv /\ CountInv /\ AnnounceInv
        /\ SessionIdentity /\ StaleSessionsAreDead

-----------------------------------------------------------------------------
(* Facts about a step of the scan.                                         *)

\* The slot that the scan handles is in use, and its peer is an agent.
LEMMA AtSlot ==
    ASSUME TypeOK, EventsInv, SlotsInv, NEW i \in Slots, NEW e \in {"in", "hup"},
           At(i, e)
    PROVE  slot[i] \in Fds /\ fds[slot[i]] \in Agents
BY SocketAssumption DEF TypeOK, EventsInv, SlotsInv, At, Slots, Fds

\* The request that is read was sent by the peer of the slot.
LEMMA ReadRequest ==
    ASSUME TypeOK, EventsInv, SlotsInv, NEW i \in Slots, Read(i)
    PROVE  /\ slot[i] \in Fds
           /\ Peer(i) \in Agents
           /\ inbox[Peer(i)] \in Seq(Request)
           /\ Len(inbox[Peer(i)]) > 0
           /\ Req(i) = inbox[Peer(i)][1]
           /\ Req(i) \in Request
           /\ Tail(inbox[Peer(i)]) \in Seq(Request)
<1>1. slot[i] \in Fds /\ Peer(i) \in Agents
  BY AtSlot DEF Read, Peer
<1>2. inbox[Peer(i)] \in Seq(Request) /\ inbox[Peer(i)] # <<>>
  BY <1>1 DEF Read, Peer, TypeOK
<1> QED BY <1>1, <1>2 DEF Req

\* A scan that reads has a descriptor left to count.
LEMMA ReadCounts ==
    ASSUME TypeOK, EventsInv, NEW i \in Slots, At(i, "in")
    PROVE  ret >= 1
<1> DEFINE E == {j \in 0..AGENTS_QUEUE : revents[j] # "none"}
<1>1. i \in E
  BY SocketAssumption DEF At, Slots
<1>2. IsFiniteSet(E) /\ Cardinality(E) \in Nat
  <2>1. IsFiniteSet(0..AGENTS_QUEUE)
    BY FS_Interval, SocketAssumption
  <2> QED BY <2>1, FS_Subset, FS_CardinalityType
<1>3. Cardinality(E) # 0
  BY <1>1, <1>2, FS_EmptySet
<1>4. Cardinality(E) <= ret
  BY DEF EventsInv, At
<1> QED BY <1>2, <1>3, <1>4 DEF TypeOK

-----------------------------------------------------------------------------
(* Type correctness                                                        *)

\* The program starts in a state of the inductive invariant.
LEMMA InitInv == Init => IInv
<1> SUFFICES ASSUME Init PROVE IInv
  OBVIOUS
<1>1. TypeOK
  <2>1. /\ pc \in [Agents -> {"new"}]
        /\ mainloop \in [Agents -> BOOLEAN] /\ sigpend \in [Agents -> BOOLEAN]
        /\ inbox \in [Agents -> Seq(Request)] /\ outbox \in [Agents -> Seq(Reply)]
        /\ fds \in [Fds -> Agents \cup {NoAgent}]
        /\ backlog \in Seq(Agents)
    BY DEF Init
  <2>2. /\ slot \in [Slots -> Fds \cup {0}]
        /\ revents \in [0..AGENTS_QUEUE -> {"none", "in", "hup"}]
    BY DEF Init
  <2> QED BY <2>1, <2>2 DEF Init, TypeOK
<1>2. UsedSlots = {}
  BY DEF Init, UsedSlots
<1>3. CountInv
  BY <1>2, FS_EmptySet, SocketAssumption DEF Init, CountInv
<1>4. EventsInv /\ SlotsInv /\ AnnounceInv /\ SessionIdentity /\ StaleSessionsAreDead
  BY SocketAssumption DEF Init, EventsInv, SlotsInv, AnnounceInv, SessionIdentity,
     StaleSessionsAreDead, Slots, Fds, IsSet
<1> QED BY <1>1, <1>3, <1>4 DEF IInv

\* The agents' own steps keep the types.
LEMMA AgentTypes ==
    ASSUME TypeOK, NEW a \in Agents,
           AgentStep(a) \/ ClientStep(a) \/ Signal(a) \/ Crash(a)
    PROVE  TypeOK'
<1> USE SocketAssumption
<1>0. /\ Message("CAPS", NoAgent, 0) \in Request
      /\ Message("SET", a, PidOf[a] % PidMod) \in Request
      /\ Message("OP", NoAgent, 0) \in Request
      /\ Message("CLOSE", NoAgent, 0) \in Request
      /\ \A b \in Victims : Message("KILL", b, 0) \in Request
  BY DEF Message, Request
<1>1. CASE Connect(a)
  BY <1>0, <1>1 DEF TypeOK, Connect, Goto, serverVars, Waiting
<1>2. CASE ConnectFails(a)
  BY <1>2 DEF TypeOK, ConnectFails, Goto, serverVars, sockVars
<1>3. CASE SessionInfo(a)
  BY <1>0, <1>3 DEF TypeOK, SessionInfo, AgentSend, Goto, serverVars, Waiting
<1>4. CASE Leave(a)
  BY <1>4 DEF TypeOK, Leave, Goto, serverVars, sockVars
<1>5. CASE Operation(a)
  BY <1>0, <1>5 DEF TypeOK, Operation, AgentSend, Goto, serverVars, Waiting
<1>6. ASSUME NEW b \in Victims, RequestKill(a, b) PROVE TypeOK'
  BY <1>0, <1>6 DEF TypeOK, RequestKill, AgentSend, Goto, serverVars, Waiting
<1>7. CASE Cleanup(a)
  BY <1>0, <1>7 DEF TypeOK, Cleanup, AgentSend, Goto, serverVars, Waiting
<1>8. CASE RecvReply(a)
  BY <1>8 DEF TypeOK, RecvReply, Goto, DropIfExited, OkTo, FailTo, serverVars, Waiting
<1>9. CASE RecvFails(a)
  BY <1>9 DEF TypeOK, RecvFails, Goto, DropIfExited, FailTo, serverVars, sockVars, Waiting
<1>10. CASE HandleSignal(a)
  <2>1. UNCHANGED <<backlog, inbox, fds, serverVars, faults>>
    BY <1>10 DEF HandleSignal
  <2>2. /\ mainloop' \in [Agents -> BOOLEAN] /\ sigpend' \in [Agents -> BOOLEAN]
    BY <1>10 DEF HandleSignal, Exit, TypeOK
  <2>3. outbox' \in [Agents -> Seq(Reply)]
    <3>1. [outbox EXCEPT ![a] = <<>>] \in [Agents -> Seq(Reply)]
      BY DEF TypeOK
    <3> QED BY <1>10, <3>1 DEF HandleSignal, Exit, DropIfExited, TypeOK
  <2>4. pc' \in [Agents -> Waiting \cup {"new", "accepting", "ready", "cleanup", "exited"}]
    BY <1>10 DEF HandleSignal, Exit, Goto, FailTo, Waiting, TypeOK
  <2> QED BY <2>1, <2>2, <2>3, <2>4 DEF TypeOK, serverVars
<1>11. CASE Signal(a)
  BY <1>11 DEF TypeOK, Signal, Fault, serverVars, sockVars
<1>12. CASE Crash(a)
  BY <1>12 DEF TypeOK, Crash, Exit, Goto, Fault, serverVars
<1> QED
  BY <1>1, <1>2, <1>3, <1>4, <1>5, <1>6, <1>7, <1>8, <1>9, <1>10, <1>11, <1>12
     DEF AgentStep, ClientStep

\* The server's steps keep the types.
LEMMA ServerTypes ==
    ASSUME TypeOK, EventsInv, SlotsInv, AnnounceInv,
           ServerStep \/ ServerSignal \/ ServerDies
    PROVE  TypeOK'
<1> USE SocketAssumption
<1>1. CASE Poll
  <2> DEFINE ev == [i \in 0..AGENTS_QUEUE |-> PollEvent(i)]
             E  == {i \in 0..AGENTS_QUEUE : ev[i] # "none"}
  <2>1. \A i \in 0..AGENTS_QUEUE : PollEvent(i) \in {"none", "in", "hup"}
    BY DEF PollEvent
  <2>2. Cardinality(E) \in Nat
    <3>1. IsFiniteSet(0..AGENTS_QUEUE)
      BY FS_Interval
    <3>2. E \subseteq 0..AGENTS_QUEUE
      OBVIOUS
    <3>3. IsFiniteSet(E)
      BY <3>1, <3>2, FS_Subset
    <3> QED BY <3>3, FS_CardinalityType
  <2>3. revents' = ev /\ ret' = Cardinality(E)
    BY <1>1 DEF Poll
  <2>4. revents' \in [0..AGENTS_QUEUE -> {"none", "in", "hup"}]
    BY <2>1, <2>3
  <2> HIDE DEF ev, E
  <2> QED BY <1>1, <2>2, <2>3, <2>4 DEF Poll, TypeOK, agentVars, sockVars
<1>2. ASSUME NEW i \in Slots, HangUp(i) PROVE TypeOK'
  <2>1. connected_agents' \in Nat
    BY <1>2 DEF HangUp, At, FreeSlot, TypeOK
  <2>2. slot' \in [Slots -> Fds \cup {0}] /\ listening' \in BOOLEAN
    BY <1>2 DEF HangUp, FreeSlot, TypeOK
  <2>3. revents' \in [0..AGENTS_QUEUE -> {"none", "in", "hup"}]
    BY <1>2 DEF HangUp, TypeOK
  <2> QED BY <1>2, <2>1, <2>2, <2>3 DEF TypeOK, HangUp, agentVars, sockVars
<1>3. ASSUME NEW i \in Slots, Read(i)
      PROVE  ret' \in Nat /\ loop' \in {"poll", "scan", "accept"}
             /\ revents' \in [0..AGENTS_QUEUE -> {"none", "in", "hup"}]
             /\ connected_agents \in Nat \ {0}
  <2>1. ret >= 1 /\ ret \in Nat /\ ret' = ret - 1
    BY <1>3, ReadCounts DEF Read, TypeOK
  <2>2. revents' \in [0..AGENTS_QUEUE -> {"none", "in", "hup"}]
    BY <1>3 DEF Read, TypeOK
  <2>3. connected_agents \in Nat \ {0}
    BY <1>3 DEF Read, At, TypeOK
  <2>4. loop' \in {"poll", "scan", "accept"}
    BY <1>3 DEF Read
  <2>5. ret' \in Nat
    BY <2>1
  <2> QED BY <2>2, <2>3, <2>4, <2>5
<1>4. ASSUME NEW i \in Slots, Read(i), Consume(i)
      PROVE  inbox' \in [Agents -> Seq(Request)]
  BY <1>4, ReadRequest DEF Consume, TypeOK
<1>5. ASSUME NEW a \in Agents, NEW op \in {"CAPS", "SET", "OP", "KILL", "CLOSE", "ERR"},
             NEW x \in Agents \cup {NoAgent}, ServerSend(a, op, x)
      PROVE  outbox' \in [Agents -> Seq(Reply)]
  <2>1. [op |-> op, as |-> x] \in Reply
    BY DEF Reply
  <2>2. Append(outbox[a], [op |-> op, as |-> x]) \in Seq(Reply)
    BY <2>1 DEF TypeOK
  <2> QED BY <1>5, <2>2 DEF ServerSend, TypeOK
<1>6. ASSUME NEW i \in Slots, GetCapabilities(i) PROVE TypeOK'
  BY <1>6, <1>3, <1>4, <1>5, ReadRequest DEF TypeOK, GetCapabilities, agentVars
<1>7. ASSUME NEW i \in Slots, SetSession(i) PROVE TypeOK'
  <2>1. Req(i).ncsid = Peer(i)
    BY <1>7, ReadRequest DEF SetSession, AnnounceInv, IsSet
  <2>2. [id |-> slot[i], ncsid |-> Req(i).ncsid, pid |-> Req(i).pid] \in Session
    BY <1>7, <2>1, ReadRequest DEF SetSession, Session, Request
  <2> QED BY <1>7, <2>2, <1>3, <1>4, <1>5, ReadRequest DEF TypeOK, SetSession, agentVars
<1>8. ASSUME NEW i \in Slots, CloseSession(i) PROVE TypeOK'
  <2>1. Read(i) /\ FreeSlot(i) /\ CloseDescriptor(i)
        /\ UNCHANGED <<agentVars, backlog, srv, quit, faults>>
    BY <1>8 DEF CloseSession
  <2>2. agents' \in SUBSET Session /\ outbox' \in [Agents -> Seq(Reply)]
    <3>1. CASE UNCHANGED <<agents, outbox>>
      BY <3>1 DEF TypeOK
    <3>2. ASSUME NEW t \in ByAgentId(slot[i]), SrvAgentStop(t),
                 ServerSend(Peer(i), "CLOSE", t.ncsid)
          PROVE  agents' \in SUBSET Session /\ outbox' \in [Agents -> Seq(Reply)]
      <4>1. t.ncsid \in Agents
        BY DEF ByAgentId, TypeOK, Session
      <4> QED BY <3>2, <4>1, <2>1, <1>5, ReadRequest DEF SrvAgentStop, TypeOK
    <3> QED BY <1>8, <3>1, <3>2 DEF CloseSession
  <2>3. fds' \in [Fds -> Agents \cup {NoAgent}] /\ inbox' \in [Agents -> Seq(Request)]
    <3>1. [fds EXCEPT ![slot[i]] = NoAgent] \in [Fds -> Agents \cup {NoAgent}]
      BY DEF TypeOK
    <3>2. [inbox EXCEPT ![Peer(i)] = <<>>] \in [Agents -> Seq(Request)]
      <4>1. Peer(i) \in Agents
        BY <2>1, ReadRequest
      <4> QED BY <4>1 DEF TypeOK
    <3> QED BY <2>1, <3>1, <3>2 DEF CloseDescriptor
  <2>4. slot' \in [Slots -> Fds \cup {0}] /\ connected_agents' \in Nat /\ listening'
    BY <2>1, <1>3 DEF FreeSlot, TypeOK
  <2> QED BY <2>1, <2>2, <2>3, <2>4, <1>3 DEF TypeOK, agentVars
<1>9. ASSUME NEW i \in Slots, KillSessionError(i) PROVE TypeOK'
  BY <1>9, <1>3, <1>4, <1>5, ReadRequest DEF TypeOK, KillSessionError, agentVars
<1>10. ASSUME NEW i \in Slots, KillSession(i) PROVE TypeOK'
  <2>1. Read(i) /\ Consume(i) /\ ServerSend(Peer(i), "KILL", NoAgent)
        /\ UNCHANGED <<pc, mainloop, backlog, fds, srv, slot, connected_agents,
                       listening, faults>>
    BY <1>10 DEF KillSession
  <2>2. PICK t \in ByNcsid(Req(i).ncsid) : SrvAgentKill(t)
    BY <1>10 DEF KillSession
  <2>3. /\ sigpend' \in [Agents -> BOOLEAN]
        /\ quit' \in BOOLEAN
        /\ agents' \in SUBSET Session
    BY <2>2 DEF SrvAgentKill, SrvAgentStop, TypeOK
  <2> QED BY <2>1, <2>3, <1>3, <1>4, <1>5, ReadRequest DEF TypeOK
<1>11. ASSUME NEW i \in Slots, ProcessOperation(i) PROVE TypeOK'
  <2>1. Read(i) /\ Consume(i)
        /\ UNCHANGED <<agentVars, backlog, fds, srv, quit, slot,
                       connected_agents, listening, agents, faults>>
    BY <1>11 DEF ProcessOperation
  <2>2. PICK x \in Agents \cup {NoAgent} : ServerSend(Peer(i), "OP", x)
    BY <1>11 DEF ProcessOperation, ByAgentId, TypeOK, Session
  <2> QED BY <2>1, <2>2, <1>3, <1>4, <1>5, ReadRequest DEF TypeOK, agentVars
<1>12. CASE ScanDone
  BY <1>12 DEF TypeOK, ScanDone, agentVars, sockVars
<1>13. CASE AcceptDone
  BY <1>13 DEF TypeOK, AcceptDone, LeaveLoop, NoEvents, agentVars, sockVars
<1>14. CASE Accept
  <2>1. Head(backlog) \in Agents /\ backlog' \in Seq(Agents)
    BY <1>14 DEF Accept, TypeOK
  <2>2. fds' \in [Fds -> Agents \cup {NoAgent}] /\ slot' \in [Slots -> Fds \cup {0}]
    <3>1. PICK f \in Fds, i \in 1..(AGENTS_QUEUE + 1) :
             fds' = [fds EXCEPT ![f] = Head(backlog)] /\ slot' = [slot EXCEPT ![i] = f]
      BY <1>14 DEF Accept
    <3>2. fds' \in [Fds -> Agents \cup {NoAgent}]
      BY <3>1, <2>1 DEF TypeOK
    <3>3. slot' \in [Slots -> Fds \cup {0}]
      BY <3>1 DEF TypeOK
    <3> QED BY <3>2, <3>3
  <2>3. /\ connected_agents' \in Nat /\ listening' \in BOOLEAN
        /\ loop' \in {"poll", "scan", "accept"} /\ ret' \in Nat
        /\ revents' \in [0..AGENTS_QUEUE -> {"none", "in", "hup"}]
    <3>1. NoEvents \in [0..AGENTS_QUEUE -> {"none", "in", "hup"}]
      BY DEF NoEvents
    <3>2. connected_agents' \in Nat
      BY <1>14 DEF Accept, TypeOK
    <3>3. CASE Full
      <4>1. listening' = FALSE /\ LeaveLoop
        BY <1>14, <3>3 DEF Accept
      <4> QED BY <3>1, <3>2, <4>1 DEF LeaveLoop
    <3>4. CASE ~Full
      BY <1>14, <3>2, <3>4 DEF Accept, TypeOK
    <3> QED BY <3>3, <3>4
  <2> QED BY <1>14, <2>1, <2>2, <2>3 DEF Accept, TypeOK, agentVars
<1>15. CASE AcceptFails
  <2>1. fds' \in [Fds -> Agents \cup {NoAgent}] /\ inbox' \in [Agents -> Seq(Request)]
        /\ backlog' \in Seq(Agents) /\ connected_agents' \in Nat
    BY <1>15 DEF AcceptFails, CommDestroy, TypeOK
  <2> QED BY <1>15, <2>1 DEF TypeOK, AcceptFails, LeaveLoop, NoEvents, agentVars
<1>16. CASE ServerSignal
  BY <1>16 DEF TypeOK, ServerSignal, Fault, agentVars, sockVars
<1>17. CASE ServerStop \/ ServerDies
  <2>1. ServerExits /\ faults' \in Nat
    BY <1>17 DEF ServerStop, ServerDies, Fault, TypeOK
  <2>2. fds' \in [Fds -> Agents \cup {NoAgent}] /\ inbox' \in [Agents -> Seq(Request)]
        /\ backlog' \in Seq(Agents) /\ connected_agents' \in Nat
    BY <2>1 DEF ServerExits, TypeOK
  <2> QED BY <2>1, <2>2 DEF TypeOK, ServerExits, LeaveLoop, NoEvents, agentVars
<1> QED
  BY <1>1, <1>2, <1>6, <1>7, <1>8, <1>9, <1>10, <1>11, <1>12, <1>13, <1>14, <1>15,
     <1>16, <1>17
     DEF ServerStep, Serve

\* Every step keeps the types.
LEMMA TypeStep ==
    ASSUME TypeOK, EventsInv, SlotsInv, AnnounceInv, [Next]_vars
    PROVE  TypeOK'
<1>1. CASE UNCHANGED vars
  BY <1>1 DEF vars, agentVars, sockVars, serverVars, TypeOK
<1> QED BY <1>1, AgentTypes, ServerTypes DEF Next

-----------------------------------------------------------------------------
(* The steps of the agents                                                 *)

\* An agent's step changes neither the server nor its descriptors, and an
\* agent that ended stays so.
LEMMA AgentFrame ==
    ASSUME TypeOK, NEW a \in Agents,
           AgentStep(a) \/ ClientStep(a) \/ Signal(a) \/ Crash(a)
    PROVE  /\ UNCHANGED <<fds, serverVars>>
           /\ \A b \in Agents : pc[b] = "exited" => pc'[b] = "exited"
           /\ \A b \in Agents : pc'[b] \in Unannounced => pc[b] \in Unannounced
<1>0. pc \in [Agents -> Waiting \cup {"new", "accepting", "ready", "cleanup", "exited"}]
  BY DEF TypeOK
<1>1. CASE Connect(a)
  BY <1>0, <1>1 DEF Connect, Goto, Unannounced
<1>2. CASE ConnectFails(a)
  BY <1>0, <1>2 DEF ConnectFails, sockVars, Goto, Unannounced
<1>3. CASE SessionInfo(a)
  BY <1>0, <1>3 DEF SessionInfo, Goto, Unannounced
<1>4. CASE Leave(a)
  BY <1>0, <1>4 DEF Leave, sockVars, Goto, Unannounced
<1>5. CASE Operation(a)
  BY <1>0, <1>5 DEF Operation, Goto, Unannounced
<1>6. ASSUME NEW b \in Victims, RequestKill(a, b)
      PROVE  /\ UNCHANGED <<fds, serverVars>>
             /\ \A c \in Agents : pc[c] = "exited" => pc'[c] = "exited"
             /\ \A c \in Agents : pc'[c] \in Unannounced => pc[c] \in Unannounced
  BY <1>0, <1>6 DEF RequestKill, Goto, Unannounced
<1>7. CASE Cleanup(a)
  BY <1>0, <1>7 DEF Cleanup, Goto, Unannounced
<1>8. CASE RecvReply(a)
  BY <1>0, <1>8 DEF RecvReply, Goto, OkTo, FailTo, Waiting, Unannounced
<1>9. CASE RecvFails(a)
  BY <1>0, <1>9 DEF RecvFails, sockVars, Goto, FailTo, Waiting, Unannounced
<1>10. CASE HandleSignal(a)
  BY <1>0, <1>10 DEF HandleSignal, Exit, Goto, FailTo, Waiting, Unannounced
<1>11. CASE Signal(a)
  BY <1>0, <1>11 DEF Signal, sockVars
<1>12. CASE Crash(a)
  BY <1>0, <1>12 DEF Crash, Exit, Goto, Running, Unannounced
<1> QED
  BY <1>1, <1>2, <1>3, <1>4, <1>5, <1>6, <1>7, <1>8, <1>9, <1>10, <1>11, <1>12
     DEF AgentStep, ClientStep

\* What an agent's step does to the requests it has sent: nothing; a fresh
\* connection; or one more request, which announces a session only as the
\* agent leaves "accepting".
LEMMA AgentInbox ==
    ASSUME TypeOK, NEW a \in Agents,
           AgentStep(a) \/ ClientStep(a) \/ Signal(a) \/ Crash(a)
    PROVE  \/ UNCHANGED inbox
           \/ inbox' = [inbox EXCEPT ![a] = <<Message("CAPS", NoAgent, 0)>>]
           \/ \E m \in Request :
                 /\ inbox' = [inbox EXCEPT ![a] = Append(@, m)]
                 /\ m.op = "SET" => /\ m.ncsid = a
                                    /\ pc[a] = "accepting"
                                    /\ pc' = [pc EXCEPT ![a] = "set"]
<1> DEFINE Sent(m) == UNCHANGED inbox \/ inbox' = [inbox EXCEPT ![a] = Append(@, m)]
<1>0. ASSUME NEW op \in {"SET", "OP", "KILL", "CLOSE"},
             NEW x \in Agents \cup {NoAgent}, NEW pid \in Nat
      PROVE  /\ Message(op, x, pid) \in Request
             /\ Message(op, x, pid).op = op /\ Message(op, x, pid).ncsid = x
  BY DEF Message, Request
<1>1. CASE Connect(a)
  BY <1>1 DEF Connect
<1>2. CASE SessionInfo(a)
  <2>1. PidOf[a] % PidMod \in Nat
    BY SocketAssumption
  <2>2. Sent(Message("SET", a, PidOf[a] % PidMod))
    BY <1>2 DEF SessionInfo, AgentSend
  <2>3. pc[a] = "accepting" /\ pc' = [pc EXCEPT ![a] = "set"]
    BY <1>2 DEF SessionInfo, Goto
  <2> QED BY <1>0, <2>1, <2>2, <2>3
<1>3. CASE Operation(a)
  <2>1. Sent(Message("OP", NoAgent, 0))
    BY <1>3 DEF Operation, AgentSend
  <2>2. /\ Message("OP", NoAgent, 0) \in Request
        /\ Message("OP", NoAgent, 0).op # "SET"
    BY <1>0
  <2> HIDE DEF Sent
  <2>3. \E m \in Request : Sent(m) /\ m.op # "SET"
    BY <2>1, <2>2
  <2> QED BY <2>3 DEF Sent
<1>4. ASSUME NEW b \in Victims, RequestKill(a, b)
      PROVE  UNCHANGED inbox \/ \E m \in Request :
                 inbox' = [inbox EXCEPT ![a] = Append(@, m)] /\ m.op # "SET"
  <2>1. Sent(Message("KILL", b, 0)) /\ b \in Agents
    BY <1>4, SocketAssumption DEF RequestKill, AgentSend
  <2> QED BY <1>0, <2>1
<1>5. CASE Cleanup(a)
  <2>1. Sent(Message("CLOSE", NoAgent, 0))
    BY <1>5 DEF Cleanup, AgentSend
  <2>2. /\ Message("CLOSE", NoAgent, 0) \in Request
        /\ Message("CLOSE", NoAgent, 0).op # "SET"
    BY <1>0
  <2> HIDE DEF Sent
  <2>3. \E m \in Request : Sent(m) /\ m.op # "SET"
    BY <2>1, <2>2
  <2> QED BY <2>3 DEF Sent
<1>6. CASE \/ ConnectFails(a) \/ Leave(a) \/ RecvReply(a) \/ RecvFails(a)
           \/ HandleSignal(a) \/ Signal(a) \/ Crash(a)
  BY <1>6 DEF ConnectFails, Leave, RecvReply, RecvFails, HandleSignal, Signal, Crash,
     sockVars
<1> QED
  BY <1>1, <1>2, <1>3, <1>4, <1>5, <1>6 DEF AgentStep, ClientStep

\* The agents' steps keep it true that an agent announces itself at most once,
\* on its own connection, before it serves a client.
LEMMA AgentAnnounce ==
    ASSUME TypeOK, AnnounceInv, NEW a \in Agents,
           AgentStep(a) \/ ClientStep(a) \/ Signal(a) \/ Crash(a)
    PROVE  AnnounceInv'
<1>1. UNCHANGED agents /\ \A b \in Agents : pc'[b] \in Unannounced => pc[b] \in Unannounced
  BY AgentFrame DEF serverVars
<1>2. inbox \in [Agents -> Seq(Request)]
  BY DEF TypeOK
<1>3. CASE UNCHANGED inbox
  BY <1>1, <1>3 DEF AnnounceInv, IsSet
<1>4. CASE inbox' = [inbox EXCEPT ![a] = <<Message("CAPS", NoAgent, 0)>>]
  <2>1. Message("CAPS", NoAgent, 0).op # "SET"
    BY DEF Message
  <2>2. \A k \in DOMAIN inbox'[a] : ~IsSet(a, k)'
    BY <1>2, <1>4, <2>1 DEF IsSet
  <2>3. \A b \in Agents \ {a} : inbox'[b] = inbox[b]
    BY <1>2, <1>4
  <2> QED BY <1>1, <2>2, <2>3 DEF AnnounceInv, IsSet
<1>5. ASSUME NEW m \in Request, inbox' = [inbox EXCEPT ![a] = Append(@, m)],
             m.op = "SET" => /\ m.ncsid = a /\ pc[a] = "accepting"
                             /\ pc' = [pc EXCEPT ![a] = "set"]
      PROVE  AnnounceInv'
  <2> DEFINE n == Len(inbox[a])
  <2>1. /\ n \in Nat
        /\ inbox[a] \in Seq(Request) /\ DOMAIN inbox[a] = 1..n
        /\ inbox'[a] = Append(inbox[a], m)
        /\ DOMAIN inbox'[a] = 1..(n + 1)
        /\ inbox'[a][n + 1] = m
        /\ \A k \in 1..n : inbox'[a][k] = inbox[a][k]
    BY <1>2, <1>5
  <2> HIDE DEF n
  <2>2. \A b \in Agents \ {a} : inbox'[b] = inbox[b]
    BY <1>2, <1>5
  <2>3. CASE m.op # "SET"
    <3>1. \A k \in DOMAIN inbox'[a] : IsSet(a, k)' =>
             k \in DOMAIN inbox[a] /\ IsSet(a, k) /\ inbox'[a][k] = inbox[a][k]
      BY <2>1, <2>3 DEF IsSet
    <3> QED BY <1>1, <2>2, <3>1 DEF AnnounceInv, IsSet
  <2>4. CASE m.op = "SET"
    <3>1. pc[a] \in Unannounced /\ pc'[a] \notin Unannounced
      BY <1>5, <2>4 DEF Unannounced, TypeOK
    <3>2. \A k \in 1..n : ~IsSet(a, k)
      BY <2>1, <3>1 DEF AnnounceInv
    <3>3. \A k \in DOMAIN inbox'[a] : IsSet(a, k)' => k = n + 1 /\ inbox'[a][k] = m
      BY <2>1, <3>2 DEF IsSet
    <3>4. \A t \in agents : t.ncsid # a
      BY <3>1 DEF AnnounceInv
    <3> QED BY <1>1, <1>5, <2>2, <2>4, <3>1, <3>3, <3>4 DEF AnnounceInv, IsSet
  <2> QED BY <2>3, <2>4
<1> QED BY <1>3, <1>4, <1>5, AgentInbox

\* The agents' steps keep the rest of the invariant: the server's state is not
\* theirs to change.
LEMMA AgentInv ==
    ASSUME IInv, NEW a \in Agents,
           AgentStep(a) \/ ClientStep(a) \/ Signal(a) \/ Crash(a)
    PROVE  EventsInv' /\ SlotsInv' /\ CountInv' /\ SessionIdentity'
           /\ StaleSessionsAreDead'
<1>1. /\ UNCHANGED <<fds, srv, slot, connected_agents, listening, agents, loop,
                     revents, ret>>
      /\ \A b \in Agents : pc[b] = "exited" => pc'[b] = "exited"
  BY AgentFrame DEF IInv, serverVars
<1>2. EventsInv'
  <2>1. \A i \in Slots : srv = "up" /\ slot[i] # 0 => fds[slot[i]] \in Agents
    BY SocketAssumption DEF IInv, SlotsInv, TypeOK
  <2> QED BY <1>1, <2>1 DEF IInv, EventsInv
<1>3. SlotsInv' /\ CountInv' /\ SessionIdentity'
  BY <1>1 DEF IInv, SlotsInv, CountInv, SessionIdentity, UsedSlots
<1>4. StaleSessionsAreDead'
  BY <1>1 DEF IInv, StaleSessionsAreDead, TypeOK, Session
<1> QED BY <1>2, <1>3, <1>4

-----------------------------------------------------------------------------
(* The steps of the server                                                 *)

\* The slots in use are a finite set of at most AGENTS_QUEUE members.
LEMMA SlotsFinite ==
    /\ IsFiniteSet(Slots) /\ Cardinality(Slots) = AGENTS_QUEUE
    /\ IsFiniteSet(UsedSlots) /\ UsedSlots \subseteq Slots
    /\ Cardinality(UsedSlots) \in Nat
<1>1. IsFiniteSet(Slots) /\ Cardinality(Slots) = AGENTS_QUEUE
  <2>1. 1 \in Int /\ AGENTS_QUEUE \in Int /\ 1 <= AGENTS_QUEUE
    BY SocketAssumption
  <2> QED BY <2>1, FS_Interval DEF Slots
<1>2. UsedSlots \subseteq Slots
  BY DEF UsedSlots
<1>3. IsFiniteSet(UsedSlots)
  BY <1>1, <1>2, FS_Subset
<1> QED BY <1>1, <1>2, <1>3, FS_CardinalityType

\* Giving up a slot keeps the count right and makes room for an agent.
LEMMA FreeSlotCount ==
    ASSUME TypeOK, CountInv, srv = "up", NEW i \in Slots, slot[i] # 0, FreeSlot(i)
    PROVE  CountInv'
<1>1. i \in UsedSlots
  BY DEF UsedSlots
<1>2. UsedSlots' = UsedSlots \ {i}
  BY DEF UsedSlots, FreeSlot, TypeOK
<1>3. Cardinality(UsedSlots') = Cardinality(UsedSlots) - 1
  BY <1>1, <1>2, SlotsFinite, FS_RemoveElement
<1>4. Cardinality(UsedSlots) <= AGENTS_QUEUE
  BY SlotsFinite, FS_Subset
<1>5. connected_agents' = Cardinality(UsedSlots') /\ connected_agents' < AGENTS_QUEUE
  BY <1>3, <1>4, SlotsFinite, SocketAssumption DEF CountInv, FreeSlot
<1> QED BY <1>5 DEF CountInv, FreeSlot

\* One event is handled: the others are still as the scan needs them.
LEMMA HandleEvent ==
    ASSUME TypeOK, EventsInv, SlotsInv, NEW i \in Slots, NEW e \in {"in", "hup"},
           At(i, e),
           revents' = [revents EXCEPT ![i] = "none"],
           ret' = ret \/ (ret' = ret - 1 /\ e = "in"),
           UNCHANGED <<pc, srv>>,
           listening' = listening \/ listening',
           loop' \in {"poll", "scan"},
           \A j \in Slots \ {i} : slot'[j] = slot[j],
           \A j \in Slots \ {i} : slot[j] # 0 => fds'[slot[j]] = fds[slot[j]]
    PROVE  EventsInv'
<1> DEFINE E == {j \in 0..AGENTS_QUEUE : revents[j] # "none"}
           F == {j \in 0..AGENTS_QUEUE : revents'[j] # "none"}
<1>0. srv = "up" /\ loop = "scan" /\ revents[i] # "none" /\ i \in 0..AGENTS_QUEUE
      /\ i # 0
  BY SocketAssumption DEF At, Slots
<1>1. F = E \ {i} /\ i \in E
  BY <1>0 DEF TypeOK
<1>2. IsFiniteSet(E)
  <2>1. IsFiniteSet(0..AGENTS_QUEUE)
    BY FS_Interval, SocketAssumption
  <2> QED BY <2>1, FS_Subset
<1>3. Cardinality(E) \in Nat /\ Cardinality(F) = Cardinality(E) - 1
  <2>1. Cardinality(E \ {i}) = Cardinality(E) - 1
    BY <1>1, <1>2, FS_RemoveElement
  <2> QED BY <1>1, <1>2, <2>1, FS_CardinalityType
<1>4. Cardinality(E) <= ret
  BY <1>0 DEF EventsInv
<1>5. Cardinality(F) <= ret'
  <2> HIDE DEF E, F
  <2> QED BY <1>3, <1>4 DEF TypeOK
<1>6. \A j \in Slots : revents'[j] # "none" => j # i /\ revents'[j] = revents[j]
  BY <1>0 DEF TypeOK, Slots
<1>7. \A j \in Slots : revents'[j] # "none" => slot'[j] # 0
  BY <1>0, <1>6 DEF EventsInv
<1>8. \A j \in Slots : revents'[j] = "hup" => pc[fds'[slot'[j]]] = "exited"
  BY <1>0, <1>6 DEF EventsInv
<1>9. revents'[0] = revents[0]
  BY <1>0 DEF TypeOK
<1>10. revents'[0] # "none" => listening'
  BY <1>0, <1>9 DEF EventsInv
<1> QED BY <1>5, <1>7, <1>8, <1>10 DEF EventsInv

\* A request is taken from the stream, or the whole stream is dropped; no
\* session is added.
LEMMA ConsumeAnnounce ==
    ASSUME TypeOK, EventsInv, SlotsInv, AnnounceInv, NEW i \in Slots, Read(i),
           Consume(i) \/ inbox' = [inbox EXCEPT ![Peer(i)] = <<>>],
           agents' \subseteq agents, UNCHANGED pc
    PROVE  AnnounceInv'
<1>0. PICK a \in Agents : a = Peer(i)
  BY ReadRequest
<1>1. inbox[a] \in Seq(Request) /\ Len(inbox[a]) > 0
  BY <1>0, ReadRequest
<1>2. inbox \in [Agents -> Seq(Request)]
  BY DEF TypeOK
<1>3. \A b \in Agents \ {a} : inbox'[b] = inbox[b]
  BY <1>0, <1>2 DEF Consume
<1>4. CASE inbox' = [inbox EXCEPT ![Peer(i)] = <<>>]
  <2>1. inbox'[a] = <<>>
    BY <1>0, <1>2, <1>4
  <2> QED BY <1>3, <2>1 DEF AnnounceInv, IsSet
<1>5. CASE Consume(i)
  <2>1. /\ inbox'[a] = Tail(inbox[a])
        /\ DOMAIN inbox[a] = 1..Len(inbox[a])
        /\ DOMAIN inbox'[a] = 1..(Len(inbox[a]) - 1)
        /\ \A k \in DOMAIN inbox'[a] : inbox'[a][k] = inbox[a][k + 1]
    BY <1>0, <1>1, <1>2, <1>5 DEF Consume
  <2>2. \A k \in DOMAIN inbox'[a] : k \in Nat /\ k + 1 \in DOMAIN inbox[a]
    BY <1>1, <2>1
  <2>3. \A k \in DOMAIN inbox'[a] : IsSet(a, k)' => IsSet(a, k + 1)
    BY <2>1 DEF IsSet
  <2>4. \A k \in DOMAIN inbox'[a] : IsSet(a, k)' =>
           /\ inbox'[a][k].ncsid = a
           /\ pc[a] \notin Unannounced
           /\ \A t \in agents : t.ncsid # a
           /\ \A l \in DOMAIN inbox'[a] : IsSet(a, l)' => l + 1 = k + 1
    BY <1>1, <2>1, <2>2, <2>3 DEF AnnounceInv
  <2>5. \A k, l \in DOMAIN inbox'[a] : l + 1 = k + 1 => l = k
    BY <2>2
  <2> QED BY <1>1, <1>3, <2>4, <2>5 DEF AnnounceInv, IsSet
<1> QED BY <1>4, <1>5

\* The inductive invariant without the types.
Rest == EventsInv /\ SlotsInv /\ CountInv /\ AnnounceInv /\ SessionIdentity
        /\ StaleSessionsAreDead

\* Requests that are answered and add no session.
LEMMA AnswerInv ==
    ASSUME IInv, NEW i \in Slots, Read(i), Consume(i),
           UNCHANGED <<pc, fds, srv, slot, connected_agents, listening>>,
           agents' \subseteq agents
    PROVE  Rest'
<1> USE DEF IInv
<1>1. AnnounceInv'
  BY ConsumeAnnounce
<1>2. EventsInv'
  <2>1. /\ At(i, "in") /\ revents' = [revents EXCEPT ![i] = "none"]
        /\ ret' = ret - 1 /\ loop' \in {"poll", "scan"}
    BY DEF Read
  <2> QED BY <2>1, HandleEvent
<1>3. SlotsInv' /\ CountInv'
  BY DEF SlotsInv, CountInv, UsedSlots
<1>4. SessionIdentity' /\ StaleSessionsAreDead'
  BY DEF SessionIdentity, StaleSessionsAreDead
<1> QED BY <1>1, <1>2, <1>3, <1>4 DEF Rest

\* set_session: the new record names the descriptor of the agent that sent it.
LEMMA SetSessionInv ==
    ASSUME IInv, NEW i \in Slots, SetSession(i)
    PROVE  Rest'
<1> USE DEF IInv
<1>0. /\ Read(i) /\ Consume(i) /\ Req(i).op = "SET"
      /\ UNCHANGED <<pc, fds, srv, slot, connected_agents, listening>>
      /\ agents' = agents \cup
            {[id |-> slot[i], ncsid |-> Req(i).ncsid, pid |-> Req(i).pid]}
  BY DEF SetSession, agentVars
<1>1. PICK a \in Agents : a = Peer(i)
  BY <1>0, ReadRequest
<1>2. /\ inbox[a] \in Seq(Request) /\ Len(inbox[a]) > 0 /\ IsSet(a, 1)
      /\ slot[i] \in Fds /\ Req(i) = inbox[a][1]
  BY <1>0, <1>1, ReadRequest DEF IsSet
<1>3. /\ Req(i).ncsid = a /\ pc[a] \notin Unannounced
      /\ \A t \in agents : t.ncsid # a
      /\ \A k \in DOMAIN inbox[a] : IsSet(a, k) => k = 1
  BY <1>2 DEF AnnounceInv
<1>4. PICK new : /\ new.id = slot[i] /\ new.ncsid = a
                 /\ agents' = agents \cup {new}
  BY <1>0, <1>3
<1>5. EventsInv'
  <2>1. /\ At(i, "in") /\ revents' = [revents EXCEPT ![i] = "none"]
        /\ ret' = ret - 1 /\ loop' \in {"poll", "scan"}
    BY <1>0 DEF Read
  <2> QED BY <1>0, <2>1, HandleEvent
<1>6. SlotsInv' /\ CountInv'
  BY <1>0 DEF SlotsInv, CountInv, UsedSlots
<1>7. SessionIdentity'
  BY <1>0, <1>1, <1>3, <1>4 DEF SessionIdentity, Peer
<1>8. StaleSessionsAreDead'
  BY <1>0, <1>4 DEF StaleSessionsAreDead
<1>9. AnnounceInv'
  <2>1. inbox \in [Agents -> Seq(Request)]
    BY DEF TypeOK
  <2>2. /\ inbox'[a] = Tail(inbox[a])
        /\ DOMAIN inbox[a] = 1..Len(inbox[a])
        /\ DOMAIN inbox'[a] = 1..(Len(inbox[a]) - 1)
        /\ \A k \in DOMAIN inbox'[a] : inbox'[a][k] = inbox[a][k + 1]
        /\ \A k \in DOMAIN inbox'[a] : k \in Nat \ {0} /\ k + 1 \in DOMAIN inbox[a]
    BY <1>0, <1>1, <1>2, <2>1 DEF Consume
  <2>3. \A b \in Agents \ {a} : inbox'[b] = inbox[b]
    BY <1>0, <1>1, <2>1 DEF Consume
  <2>4. \A k \in DOMAIN inbox'[a] : ~IsSet(a, k)'
    <3>1. \A k \in DOMAIN inbox'[a] : IsSet(a, k)' => IsSet(a, k + 1)
      BY <2>2 DEF IsSet
    <3>2. \A k \in DOMAIN inbox'[a] : k + 1 # 1
      BY <2>2
    <3> QED BY <1>3, <2>2, <3>1, <3>2
  <2>5. \A b \in Agents \ {a} : \A t \in agents' : t.ncsid = b => t \in agents
    BY <1>4
  <2> QED BY <1>0, <1>3, <2>3, <2>4, <2>5 DEF AnnounceInv, IsSet
<1> QED BY <1>5, <1>6, <1>7, <1>8, <1>9 DEF Rest

\* close_session: the record, the slot and the descriptor go together.
LEMMA CloseSessionInv ==
    ASSUME IInv, NEW i \in Slots, CloseSession(i)
    PROVE  Rest'
<1> USE DEF IInv
<1>0. /\ Read(i) /\ FreeSlot(i) /\ CloseDescriptor(i)
      /\ UNCHANGED <<pc, srv>> /\ srv = "up"
  BY DEF CloseSession, agentVars, Read, At
<1>1. slot[i] \in Fds /\ Peer(i) \in Agents /\ slot[i] # 0
  BY <1>0, ReadRequest, SocketAssumption DEF Fds
<1>2. agents' = agents \ ByAgentId(slot[i])
  <2>1. \A t, u \in ByAgentId(slot[i]) : t = u
    BY <1>0 DEF ByAgentId, SessionIdentity
  <2> QED BY <2>1 DEF CloseSession, SrvAgentStop, ByAgentId
<1>3. agents' \subseteq agents /\ \A t \in agents' : t.id # slot[i]
  BY <1>2 DEF ByAgentId
<1>4. /\ \A j \in Slots \ {i} : slot'[j] = slot[j]
      /\ slot'[i] = 0
      /\ \A f \in Fds \ {slot[i]} : fds'[f] = fds[f]
      /\ listening' = TRUE
  BY <1>0, <1>1 DEF FreeSlot, CloseDescriptor, TypeOK
<1>5. \A j \in Slots \ {i} : slot[j] # 0 => slot[j] \in Fds \ {slot[i]}
  BY <1>0 DEF SlotsInv, TypeOK
<1>6. AnnounceInv'
  BY <1>0, <1>3, ConsumeAnnounce DEF CloseDescriptor
<1>7. EventsInv'
  <2>1. /\ At(i, "in") /\ revents' = [revents EXCEPT ![i] = "none"]
        /\ ret' = ret - 1 /\ loop' \in {"poll", "scan"}
    BY <1>0 DEF Read
  <2> QED BY <1>0, <1>4, <1>5, <2>1, HandleEvent
<1>8. CountInv'
  BY <1>0, <1>1, FreeSlotCount
<1>9. SlotsInv'
  BY <1>0, <1>4, <1>5 DEF SlotsInv
<1>10. SessionIdentity'
  <2>1. \A t \in agents' : t.id \in Fds \ {slot[i]}
    BY <1>3 DEF TypeOK, Session
  <2> QED BY <1>0, <1>3, <1>4, <2>1 DEF SessionIdentity
<1>11. StaleSessionsAreDead'
  BY <1>0, <1>3, <1>4 DEF StaleSessionsAreDead
<1> QED BY <1>6, <1>7, <1>8, <1>9, <1>10, <1>11 DEF Rest

\* A broken connection gives up a slot whose agent has ended.
LEMMA HangUpInv ==
    ASSUME IInv, NEW i \in Slots, HangUp(i)
    PROVE  Rest'
<1> USE DEF IInv
<1>0. /\ At(i, "hup") /\ FreeSlot(i) /\ srv = "up" /\ loop = "scan"
      /\ revents' = [revents EXCEPT ![i] = "none"]
      /\ UNCHANGED <<pc, fds, inbox, srv, agents, loop, ret>>
  BY DEF HangUp, At, agentVars, sockVars
<1>1. slot[i] \in Fds /\ fds[slot[i]] \in Agents /\ slot[i] # 0
  BY <1>0, AtSlot, SocketAssumption DEF Fds
<1>2. /\ \A j \in Slots \ {i} : slot'[j] = slot[j]
      /\ slot'[i] = 0 /\ listening' = TRUE
  BY <1>0 DEF FreeSlot, TypeOK
<1>3. EventsInv'
  BY <1>0, <1>2, HandleEvent
<1>4. CountInv'
  BY <1>0, <1>1, FreeSlotCount
<1>5. SlotsInv'
  BY <1>0, <1>2 DEF SlotsInv
<1>6. AnnounceInv' /\ SessionIdentity'
  BY <1>0 DEF AnnounceInv, SessionIdentity, IsSet
<1>7. StaleSessionsAreDead'
  <2>1. pc[fds[slot[i]]] = "exited"
    BY <1>0 DEF EventsInv, At
  <2>2. \A t \in agents : t.id = slot[i] => pc[t.ncsid] = "exited"
    BY <1>0, <2>1 DEF SessionIdentity
  <2> QED BY <1>0, <1>2, <2>2 DEF StaleSessionsAreDead
<1> QED BY <1>3, <1>4, <1>5, <1>6, <1>7 DEF Rest

\* poll() reports events only for descriptors that are polled.
LEMMA PollInv ==
    ASSUME IInv, Poll
    PROVE  Rest'
<1> USE DEF IInv
<1>0. /\ revents' = [i \in 0..AGENTS_QUEUE |-> PollEvent(i)]
      /\ UNCHANGED <<pc, fds, inbox, srv, slot, connected_agents, listening, agents>>
      /\ srv = "up"
  BY DEF Poll, agentVars, sockVars
<1>1. EventsInv'
  <2>1. \A i \in Slots : i \in 0..AGENTS_QUEUE /\ i # 0
    BY SocketAssumption DEF Slots
  <2>2. \A i \in Slots : revents'[i] # "none" => slot[i] # 0
    BY <1>0, <2>1 DEF PollEvent
  <2>3. \A i \in Slots : revents'[i] = "hup" => pc[fds[slot[i]]] = "exited"
    BY <1>0, <2>1 DEF PollEvent
  <2>4. revents'[0] # "none" => listening
    BY <1>0, SocketAssumption DEF PollEvent
  <2>5. ret' = Cardinality({i \in 0..AGENTS_QUEUE : revents'[i] # "none"})
    BY DEF Poll
  <2>6. ret' \in Nat
    BY TypeStep DEF TypeOK, Next, ServerStep
  <2> QED BY <1>0, <2>2, <2>3, <2>4, <2>5, <2>6 DEF EventsInv
<1>2. SlotsInv' /\ CountInv'
  BY <1>0 DEF SlotsInv, CountInv, UsedSlots
<1>3. AnnounceInv' /\ SessionIdentity' /\ StaleSessionsAreDead'
  BY <1>0 DEF AnnounceInv, IsSet, SessionIdentity, StaleSessionsAreDead
<1> QED BY <1>1, <1>2, <1>3 DEF Rest

\* accept() always finds a free slot, because it runs only while the
\* listening socket is polled.
LEMMA AcceptInv ==
    ASSUME IInv, Accept
    PROVE  Rest'
<1> USE DEF IInv
<1>0. /\ srv = "up" /\ loop = "accept" /\ revents[0] = "in" /\ backlog # <<>>
      /\ UNCHANGED <<pc, inbox, srv, agents>>
      /\ connected_agents' = connected_agents + 1
  BY DEF Accept, agentVars
<1>1. PICK f \in Fds, i \in 1..(AGENTS_QUEUE + 1) :
         /\ IsLeast(f, FreeFds) /\ FreeSlotFor(i)
         /\ fds' = [fds EXCEPT ![f] = Head(backlog)]
         /\ slot' = [slot EXCEPT ![i] = f]
  BY DEF Accept
<1>2. listening /\ connected_agents < AGENTS_QUEUE
  BY <1>0 DEF EventsInv, CountInv
<1>3. i \in Slots /\ slot[i] = 0
  <2>1. UsedSlots # Slots
    BY <1>0, <1>2, SlotsFinite DEF CountInv, TypeOK
  <2>2. PICK j \in Slots : slot[j] = 0
    BY <2>1 DEF UsedSlots
  <2>3. i <= j /\ ((i \in Slots /\ slot[i] = 0) \/ i = AGENTS_QUEUE + 1)
    BY <1>1, <2>2 DEF FreeSlotFor, IsLeast
  <2> QED BY <2>2, <2>3, SocketAssumption DEF Slots
<1>4. fds[f] = NoAgent /\ f # 0 /\ Head(backlog) \in Agents
  BY <1>0, <1>1, SocketAssumption DEF IsLeast, FreeFds, Fds, TypeOK
<1>5. /\ slot'[i] = f /\ \A j \in Slots \ {i} : slot'[j] = slot[j]
      /\ fds'[f] \in Agents /\ \A g \in Fds \ {f} : fds'[g] = fds[g]
  BY <1>1, <1>3, <1>4 DEF TypeOK
<1>6. \A j \in Slots : slot[j] # 0 => slot[j] \in Fds \ {f}
  BY <1>0, <1>4 DEF SlotsInv, TypeOK
<1>7. SlotsInv'
  BY <1>0, <1>3, <1>4, <1>5, <1>6, SocketAssumption DEF SlotsInv
<1>8. CountInv'
  <2>1. UsedSlots' = UsedSlots \cup {i} /\ i \notin UsedSlots
    BY <1>3, <1>4, <1>5 DEF UsedSlots
  <2>2. Cardinality(UsedSlots') = Cardinality(UsedSlots) + 1
    BY <2>1, SlotsFinite, FS_AddElement
  <2>3. connected_agents' = Cardinality(UsedSlots')
    BY <1>0, <2>2 DEF CountInv
  <2>4. CASE Full
    <3>1. listening' = FALSE /\ connected_agents' = AGENTS_QUEUE
      BY <1>0, <2>4 DEF Accept, Full
    <3>2. ~(connected_agents' < AGENTS_QUEUE)
      BY <3>1, SocketAssumption
    <3> QED BY <2>3, <3>1, <3>2 DEF CountInv
  <2>5. CASE ~Full
    <3>1. listening' = listening
      BY <2>5 DEF Accept
    <3>2. connected_agents' < AGENTS_QUEUE
      BY <1>0, <1>2, <2>5, SocketAssumption DEF Full, TypeOK
    <3> QED BY <1>2, <2>3, <3>1, <3>2 DEF CountInv
  <2> QED BY <2>4, <2>5
<1>9. EventsInv'
  <2>1. CASE Full
    BY <2>1 DEF Accept, LeaveLoop, EventsInv
  <2>2. CASE ~Full
    BY <1>0, <2>2 DEF Accept, EventsInv
  <2> QED BY <2>1, <2>2
<1>10. AnnounceInv'
  BY <1>0 DEF AnnounceInv, IsSet
<1>11. SessionIdentity'
  <2>1. \A t \in agents : t.id \in Fds /\ t.id # f
    BY <1>0, <1>4, SocketAssumption DEF SessionIdentity, TypeOK, Session
  <2> QED BY <1>0, <1>5, <2>1 DEF SessionIdentity
<1>12. StaleSessionsAreDead'
  <2>1. \A t \in agents, j \in Slots : slot[j] = t.id => slot'[j] = t.id
    <3>1. \A t \in agents : t.id # 0
      BY SocketAssumption DEF TypeOK, Session, Fds
    <3> QED BY <1>3, <1>5, <3>1
  <2> QED BY <1>0, <2>1 DEF StaleSessionsAreDead
<1> QED BY <1>7, <1>8, <1>9, <1>10, <1>11, <1>12 DEF Rest

\* The server's steps keep the invariant.
LEMMA ServerInv ==
    ASSUME IInv, ServerStep \/ ServerSignal \/ ServerDies
    PROVE  Rest'
<1> USE DEF IInv
<1>1. ASSUME NEW i \in Slots,
             GetCapabilities(i) \/ KillSessionError(i) \/ ProcessOperation(i)
      PROVE  Rest'
  BY <1>1, AnswerInv DEF GetCapabilities, KillSessionError, ProcessOperation, agentVars
<1>2. ASSUME NEW i \in Slots, KillSession(i) PROVE Rest'
  <2>1. agents' \subseteq agents
    BY <1>2 DEF KillSession, SrvAgentKill, SrvAgentStop
  <2> QED BY <1>2, <2>1, AnswerInv DEF KillSession
<1>3. CASE ScanDone \/ AcceptDone \/ ServerSignal
  <2>1. /\ UNCHANGED <<pc, inbox, fds, srv, slot, connected_agents, listening, agents>>
        /\ loop' = "poll" \/ (loop' = "accept" /\ loop = "scan" /\ revents' = revents)
           \/ UNCHANGED <<loop, revents, ret>>
    BY <1>3 DEF ScanDone, AcceptDone, ServerSignal, LeaveLoop, agentVars, sockVars
  <2>2. EventsInv'
    BY <2>1 DEF EventsInv
  <2>3. SlotsInv' /\ CountInv'
    BY <2>1 DEF SlotsInv, CountInv, UsedSlots
  <2>4. AnnounceInv' /\ SessionIdentity' /\ StaleSessionsAreDead'
    BY <2>1 DEF AnnounceInv, IsSet, SessionIdentity, StaleSessionsAreDead
  <2> QED BY <2>2, <2>3, <2>4 DEF Rest
<1>4. CASE AcceptFails \/ ServerStop \/ ServerDies
  <2>1. /\ srv' # "up" /\ agents' \subseteq agents /\ UNCHANGED pc
        /\ inbox' = [a \in Agents |-> <<>>]
    BY <1>4 DEF AcceptFails, CommDestroy, ServerStop, ServerDies, ServerExits, agentVars
  <2>2. AnnounceInv'
    BY <2>1 DEF AnnounceInv
  <2> QED
    BY <2>1, <2>2 DEF Rest, EventsInv, SlotsInv, CountInv, SessionIdentity,
       StaleSessionsAreDead
<1> QED
  BY <1>1, <1>2, <1>3, <1>4, PollInv, HangUpInv, SetSessionInv, CloseSessionInv, AcceptInv
     DEF ServerStep, Serve

-----------------------------------------------------------------------------
(* The theorems                                                            *)

\* Every step keeps the invariant.
LEMMA StepInv == IInv /\ [Next]_vars => IInv'
<1> SUFFICES ASSUME IInv, [Next]_vars PROVE IInv'
  OBVIOUS
<1>1. TypeOK'
  BY TypeStep DEF IInv
<1>2. ASSUME NEW a \in Agents,
             AgentStep(a) \/ ClientStep(a) \/ Signal(a) \/ Crash(a)
      PROVE  Rest'
  BY <1>2, AgentInv, AgentAnnounce DEF IInv, Rest
<1>3. ASSUME UNCHANGED vars PROVE Rest'
  <2>1. EventsInv' /\ SlotsInv' /\ CountInv'
    BY <1>3 DEF IInv, EventsInv, SlotsInv, CountInv, UsedSlots, vars, agentVars, sockVars,
       serverVars
  <2>2. AnnounceInv' /\ SessionIdentity' /\ StaleSessionsAreDead'
    BY <1>3 DEF IInv, AnnounceInv, IsSet, SessionIdentity, StaleSessionsAreDead, vars,
       agentVars, sockVars, serverVars
  <2> QED BY <2>1, <2>2 DEF Rest
<1>4. Rest'
  BY <1>2, <1>3, ServerInv DEF Next
<1> QED BY <1>1, <1>4 DEF IInv, Rest

\* The invariant holds in every reachable state.
LEMMA Inductive == Spec => []IInv
BY InitInv, StepInv, PTL DEF Spec

\* Every variable keeps its type: in particular no request makes comm_loop
\* count below zero, and every session record is complete.
THEOREM TypeCorrect == Spec => []TypeOK
<1>1. IInv => TypeOK
  BY DEF IInv
<1> QED BY <1>1, Inductive, PTL

\* The slot array, its counter and the polling of the listening socket agree
\* for any number of slots, descriptors and agents.
THEOREM SlotsAccounted == Spec => []SlotAccounting
<1>1. IInv => SlotAccounting
  BY DEF IInv, SlotsInv, CountInv, SlotAccounting, UsedSlots
<1> QED BY <1>1, Inductive, PTL

\* A request is never executed in the session of another agent, although the
\* sessions are found by descriptor numbers that are reused.
THEOREM SessionsIdentified == Spec => []SessionIdentity
<1>1. IInv => SessionIdentity
  BY DEF IInv
<1> QED BY <1>1, Inductive, PTL

\* Only an agent that ended can lose its slot while its session is recorded.
THEOREM OnlyDeadLoseSlots == Spec => []StaleSessionsAreDead
<1>1. IInv => StaleSessionsAreDead
  BY DEF IInv
<1> QED BY <1>1, Inductive, PTL
=============================================================================
