------------------------ MODULE SocketRegistryProofs ------------------------
(***************************************************************************)
(* More proofs about SocketServer: requests and answers stay paired, the   *)
(* server gives up its socket only for lack of descriptors, an agent whose *)
(* session was killed is told so, and the whole transport implements       *)
(* SessionRegistry.                                                        *)
(***************************************************************************)
EXTENDS SocketServerProofs

(* What the invariant of SocketServerProofs lacks: the streams.            *)

\* The requests of an agent wait on a connection of which the server has an
\* end; an agent that has not announced itself is connected; the request to
\* close the session is the last one, and its sender has left.
Stream(a) ==
    /\ inbox[a] # <<>> => ServerEnd(a)
    /\ srv = "up" /\ pc[a] \in {"caps", "accepting"} => ServerEnd(a)
    /\ \A k \in DOMAIN inbox[a] : inbox[a][k].op = "CLOSE" =>
          /\ pc[a] \in {"close", "exited"}
          /\ \A l \in DOMAIN inbox[a] : inbox[a][l].op = "SET" => l < k

StreamInv == \A a \in Agents : Stream(a)

\* An announcement, and the record made of it, have the PID as it was sent.
PidInv ==
    /\ \A a \in Agents : \A k \in DOMAIN inbox[a] :
          inbox[a][k].op = "SET" => inbox[a][k].pid = PidOf[a] % PidMod
    /\ \A s \in agents : s.pid = PidOf[s.ncsid] % PidMod

\* The answers are for the agent; until it is told to terminate, which it can
\* be once it is connected, it has one request or one answer at most on its
\* connection, the one it waits for.
Expects(a, op) == op = Answer(pc[a]) \/ (pc[a] = "kill" /\ op = "ERR")

Pair(a) ==
    /\ \A k \in DOMAIN outbox[a] : outbox[a][k].as \in {a, NoAgent}
    /\ pc[a] = "exited" => outbox[a] = <<>>
    /\ pc[a] = "new" => ~mainloop[a]
    /\ ~mainloop[a] /\ pc[a] # "exited" =>
         /\ Len(inbox[a]) <= 1 /\ Len(outbox[a]) <= 1
         /\ inbox[a] = <<>> \/ outbox[a] = <<>>
         /\ inbox[a] # <<>> => pc[a] \in Waiting /\ inbox[a][1].op = Answer(pc[a])
         /\ outbox[a] # <<>> => pc[a] \in Waiting /\ Expects(a, outbox[a][1].op)

PairInv == \A a \in Agents : Pair(a)

\* A server that gave up its socket had lost descriptors.
SInv == IInv /\ StreamInv /\ PidInv /\ PairInv /\ CommDownNeedsLeaks

-----------------------------------------------------------------------------
(* Sequences                                                               *)

\* A message is put at the end of a stream.
LEMMA Pushed ==
    ASSUME NEW S, NEW q \in Seq(S), NEW m \in S
    PROVE  /\ Append(q, m) \in Seq(S) /\ Append(q, m) # <<>>
           /\ Len(q) \in Nat /\ Len(Append(q, m)) = Len(q) + 1
           /\ DOMAIN q = 1..Len(q) /\ DOMAIN Append(q, m) = 1..(Len(q) + 1)
           /\ \A k \in 1..Len(q) : Append(q, m)[k] = q[k]
           /\ Append(q, m)[Len(q) + 1] = m
           /\ q = <<>> => Append(q, m)[1] = m
OBVIOUS

\* The first message is taken from a stream.
LEMMA Popped ==
    ASSUME NEW S, NEW q \in Seq(S), q # <<>>
    PROVE  /\ Tail(q) \in Seq(S) /\ Head(q) = q[1] /\ Head(q) \in S
           /\ Len(q) \in Nat /\ Len(q) >= 1 /\ Len(Tail(q)) = Len(q) - 1
           /\ DOMAIN q = 1..Len(q) /\ DOMAIN Tail(q) = 1..(Len(q) - 1)
           /\ \A k \in 1..(Len(q) - 1) : Tail(q)[k] = q[k + 1]
           /\ Len(q) <= 1 => Tail(q) = <<>>
<1>1. /\ Tail(q) \in Seq(S) /\ Head(q) = q[1] /\ Head(q) \in S
      /\ Len(q) \in Nat /\ Len(q) >= 1 /\ Len(Tail(q)) = Len(q) - 1
      /\ DOMAIN q = 1..Len(q) /\ DOMAIN Tail(q) = 1..(Len(q) - 1)
      /\ \A k \in 1..(Len(q) - 1) : Tail(q)[k] = q[k + 1]
  OBVIOUS
<1>2. Len(q) <= 1 => Len(Tail(q)) = 0
  BY <1>1
<1>3. \A s \in Seq(S) : Len(s) = 0 => s = <<>>
  OBVIOUS
<1> QED BY <1>1, <1>2, <1>3

-----------------------------------------------------------------------------
(* The steps of the agents                                                 *)

Places == Waiting \cup {"new", "accepting", "ready", "cleanup", "exited"}

\* The agent sends a request and waits for the answer.
Sends(a, from, to, m) ==
    /\ pc[a] = from
    /\ AgentSend(a, m)
    /\ Goto(a, to)
    /\ UNCHANGED <<mainloop, sigpend, backlog, outbox, fds, serverVars>>

\* The requests that an agent sends once it is connected.
LEMMA SendCases ==
    ASSUME NEW a \in Agents,
           \/ SessionInfo(a) \/ Operation(a) \/ Cleanup(a)
           \/ \E b \in Victims : RequestKill(a, b)
    PROVE  \E from \in {"accepting", "ready", "cleanup"}, to \in Waiting, m \in Request :
              /\ Sends(a, from, to, m)
              /\ m.op = Answer(to)
              /\ from = "accepting" => to = "set" /\ m.pid = PidOf[a] % PidMod
              /\ from = "ready" => to \in {"op", "kill"}
              /\ from = "cleanup" => to = "close"
<1>0. PidOf[a] % PidMod \in Nat
  BY SocketAssumption
<1>1. ASSUME NEW op \in {"SET", "OP", "KILL", "CLOSE"},
             NEW x \in Agents \cup {NoAgent}, NEW pid \in Nat
      PROVE  /\ Message(op, x, pid) \in Request
             /\ Message(op, x, pid).op = op /\ Message(op, x, pid).pid = pid
  BY DEF Message, Request
<1>2. /\ Answer("set") = "SET" /\ Answer("op") = "OP" /\ Answer("kill") = "KILL"
      /\ Answer("close") = "CLOSE"
      /\ {"set", "op", "kill", "close"} \subseteq Waiting
  BY DEF Answer, Waiting
<1>3. CASE SessionInfo(a)
  <2> DEFINE m == Message("SET", a, PidOf[a] % PidMod)
  <2>1. m \in Request /\ m.op = "SET" /\ m.pid = PidOf[a] % PidMod
    BY <1>0, <1>1
  <2>2. Sends(a, "accepting", "set", m)
    BY <1>3 DEF SessionInfo, Sends
  <2> HIDE DEF m
  <2> QED BY <1>2, <2>1, <2>2
<1>4. CASE Operation(a)
  <2> DEFINE m == Message("OP", NoAgent, 0)
  <2>1. m \in Request /\ m.op = "OP"
    BY <1>1
  <2>2. Sends(a, "ready", "op", m)
    BY <1>4 DEF Operation, Sends
  <2> HIDE DEF m
  <2> QED BY <1>2, <2>1, <2>2
<1>5. CASE Cleanup(a)
  <2> DEFINE m == Message("CLOSE", NoAgent, 0)
  <2>1. m \in Request /\ m.op = "CLOSE"
    BY <1>1
  <2>2. Sends(a, "cleanup", "close", m)
    BY <1>5 DEF Cleanup, Sends
  <2> HIDE DEF m
  <2> QED BY <1>2, <2>1, <2>2
<1>6. CASE \E b \in Victims : RequestKill(a, b)
  <2>1. PICK b \in Victims : RequestKill(a, b)
    BY <1>6
  <2> DEFINE m == Message("KILL", b, 0)
  <2>2. m \in Request /\ m.op = "KILL"
    BY <1>1, SocketAssumption
  <2>3. Sends(a, "ready", "kill", m)
    BY <2>1 DEF RequestKill, Sends
  <2> HIDE DEF m
  <2> QED BY <1>2, <2>2, <2>3
<1> QED BY <1>3, <1>4, <1>5, <1>6

\* A request keeps the streams and the pairing.
LEMMA SendInv ==
    ASSUME TypeOK, StreamInv, PidInv, PairInv, NEW a \in Agents,
           NEW from \in {"accepting", "ready", "cleanup"}, NEW to \in Waiting,
           NEW m \in Request, Sends(a, from, to, m), m.op = Answer(to),
           from = "accepting" => to = "set" /\ m.pid = PidOf[a] % PidMod,
           from = "ready" => to \in {"op", "kill"},
           from = "cleanup" => to = "close"
    PROVE  StreamInv' /\ PidInv' /\ PairInv'
<1>0. /\ \A b \in Agents : b # a => pc'[b] = pc[b] /\ inbox'[b] = inbox[b]
      /\ pc[a] = from /\ pc'[a] = to
      /\ UNCHANGED <<mainloop, sigpend, backlog, outbox, fds, srv, agents>>
      /\ from \notin Waiting /\ from # "exited"
  BY DEF Sends, AgentSend, Goto, TypeOK, serverVars, Waiting
<1>1. \A b \in Agents : ServerEnd(b)' = ServerEnd(b)
  BY <1>0 DEF ServerEnd
<1>2. \A b \in Agents : b # a => Stream(b)' /\ Pair(b)'
  BY <1>0, <1>1 DEF StreamInv, Stream, PairInv, Pair, Expects
<1>3. m.op = "CLOSE" => to = "close"
  BY DEF Answer, Waiting
<1>4. m.op = "SET" => from = "accepting"
  BY DEF Answer, Waiting
<1>5. \A k \in DOMAIN inbox[a] : inbox[a][k].op # "CLOSE"
  <2>1. pc[a] \notin {"close", "exited"}
    BY <1>0
  <2> QED BY <2>1 DEF StreamInv, Stream
<1>6. to \notin {"caps", "accepting"}
  OBVIOUS
<1>7. inbox[a] \in Seq(Request)
  BY DEF TypeOK
<1>8. CASE ~ServerEnd(a)
  <2>1. inbox' = inbox
    BY <1>8 DEF Sends, AgentSend
  <2>2. inbox[a] = <<>>
    BY <1>8 DEF StreamInv, Stream
  <2>3. Stream(a)'
    BY <1>0, <1>6, <2>1, <2>2 DEF Stream
  <2>4. Pair(a)'
    BY <1>0, <2>1, <2>2 DEF PairInv, Pair
  <2>5. PidInv'
    BY <1>0, <2>1 DEF PidInv
  <2> QED BY <1>2, <2>3, <2>4, <2>5 DEF StreamInv, PairInv
<1>9. CASE ServerEnd(a)
  <2>1. inbox'[a] = Append(inbox[a], m)
    BY <1>9 DEF Sends, AgentSend, TypeOK
  <2> DEFINE n == Len(inbox[a])
  <2>2. /\ n \in Nat /\ Len(inbox'[a]) = n + 1 /\ inbox'[a] # <<>>
        /\ DOMAIN inbox[a] = 1..n /\ DOMAIN inbox'[a] = 1..(n + 1)
        /\ \A k \in 1..n : inbox'[a][k] = inbox[a][k]
        /\ inbox'[a][n + 1] = m
        /\ inbox[a] = <<>> => inbox'[a][1] = m
    BY <1>7, <2>1, Pushed
  <2> HIDE DEF n
  <2>3. Stream(a)'
    <3>1. \A k \in DOMAIN inbox'[a] : inbox'[a][k].op = "CLOSE" => k = n + 1 /\ to = "close"
      BY <1>3, <1>5, <2>2
    <3>2. ASSUME NEW k \in DOMAIN inbox'[a], inbox'[a][k].op = "CLOSE",
                 NEW l \in DOMAIN inbox'[a], inbox'[a][l].op = "SET"
          PROVE  l < k
      <4>1. k = n + 1 /\ l # k
        BY <3>1, <3>2
      <4> QED BY <2>2, <4>1
    <3> QED BY <1>0, <1>1, <1>6, <1>9, <3>1, <3>2 DEF Stream
  <2>4. Pair(a)'
    <3>1. ~mainloop[a] => inbox[a] = <<>> /\ outbox[a] = <<>>
      BY <1>0 DEF PairInv, Pair
    <3>2. inbox[a] = <<>> => n = 0
      BY DEF n
    <3>3. ~mainloop[a] => Len(inbox'[a]) <= 1 /\ Len(outbox[a]) <= 1
                          /\ inbox'[a][1].op = Answer(to) /\ outbox[a] = <<>>
      BY <2>2, <3>1, <3>2
    <3>4. to # "exited"
      BY DEF Waiting
    <3> QED BY <1>0, <3>3, <3>4 DEF PairInv, Pair
  <2>5. PidInv'
    <3>1. \A k \in DOMAIN inbox'[a] : inbox'[a][k].op = "SET" => inbox'[a][k].pid = PidOf[a] % PidMod
      BY <1>4, <2>2 DEF PidInv
    <3> QED BY <1>0, <3>1 DEF PidInv
  <2> QED BY <1>2, <2>3, <2>4, <2>5 DEF StreamInv, PairInv
<1> QED BY <1>8, <1>9

\* connect() starts the stream of an agent that has none.
LEMMA ConnectInv ==
    ASSUME TypeOK, StreamInv, PidInv, PairInv, NEW a \in Agents, Connect(a)
    PROVE  StreamInv' /\ PidInv' /\ PairInv'
<1> DEFINE m == Message("CAPS", NoAgent, 0)
<1>0. /\ \A b \in Agents : b # a => pc'[b] = pc[b] /\ inbox'[b] = inbox[b]
      /\ pc[a] = "new" /\ pc'[a] = "caps" /\ inbox'[a] = <<m>>
      /\ UNCHANGED <<mainloop, outbox, fds, srv, agents>>
      /\ backlog' = Append(backlog, a) /\ backlog \in Seq(Agents)
  BY DEF Connect, Goto, TypeOK, serverVars
<1>1. m.op = "CAPS" /\ Answer("caps") = "CAPS" /\ "caps" \in Waiting /\ "new" \notin Waiting
  BY DEF Message, Answer, Waiting
<1> HIDE DEF m
<1>2. \A b \in Agents : (ServerEnd(b) => ServerEnd(b)') /\ ServerEnd(a)'
  <2>1. /\ DOMAIN backlog = 1..Len(backlog) /\ DOMAIN backlog' = 1..(Len(backlog) + 1)
        /\ \A k \in 1..Len(backlog) : backlog'[k] = backlog[k]
        /\ backlog'[Len(backlog) + 1] = a /\ Len(backlog) \in Nat
    BY <1>0, Pushed
  <2>2. \A k \in DOMAIN backlog : k \in DOMAIN backlog' /\ backlog'[k] = backlog[k]
    BY <2>1
  <2>3. Len(backlog) + 1 \in DOMAIN backlog'
    BY <2>1
  <2> QED BY <1>0, <2>1, <2>2, <2>3 DEF ServerEnd
<1>3. \A b \in Agents : b # a => Stream(b)' /\ Pair(b)'
  BY <1>0, <1>2 DEF StreamInv, Stream, PairInv, Pair, Expects
<1>4. DOMAIN inbox'[a] = {1} /\ Len(inbox'[a]) = 1 /\ inbox'[a][1] = m /\ inbox'[a] # <<>>
  BY <1>0
<1>5. Stream(a)'
  BY <1>0, <1>1, <1>2, <1>4 DEF Stream
<1>6. ~mainloop[a] => outbox[a] = <<>>
  BY <1>0, <1>1 DEF PairInv, Pair
<1>7. Pair(a)'
  BY <1>0, <1>1, <1>4, <1>6 DEF PairInv, Pair
<1>8. PidInv'
  BY <1>0, <1>1, <1>4 DEF PidInv
<1> QED BY <1>3, <1>5, <1>7, <1>8 DEF StreamInv, PairInv

\* What a step of an agent that sends nothing may do.
Moves(a) ==
    /\ \A b \in Agents : b # a =>
          /\ pc'[b] = pc[b] /\ outbox'[b] = outbox[b]
          /\ sigpend'[b] = sigpend[b] /\ mainloop'[b] = mainloop[b]
    /\ UNCHANGED <<inbox, backlog, fds, serverVars>>
    /\ mainloop[a] => mainloop'[a]
    /\ pc'[a] = "exited" => outbox'[a] = <<>>
    /\ \/ pc'[a] = pc[a] /\ outbox'[a] = outbox[a]
       \/ /\ pc[a] \in {"new", "accepting", "ready"} /\ outbox'[a] = outbox[a]
          /\ pc'[a] \in {"cleanup", "exited"}
       \/ /\ pc[a] \in Waiting /\ outbox[a] # <<>> /\ outbox'[a] = Tail(outbox[a])
          /\ pc'[a] = IF Head(outbox[a]).op = Answer(pc[a]) THEN OkTo(pc[a]) ELSE FailTo(pc[a])
       \/ /\ pc[a] \in Waiting /\ outbox[a] = <<>> /\ ~ServerEnd(a) /\ outbox'[a] = <<>>
          /\ pc'[a] = FailTo(pc[a])
       \/ /\ pc[a] \in Waiting /\ mainloop'[a] /\ outbox'[a] = outbox[a]
          /\ pc'[a] = FailTo(pc[a])
       \/ pc'[a] = "exited"

\* The steps that send nothing.
LEMMA MoveCases ==
    ASSUME TypeOK, NEW a \in Agents, PairInv,
           \/ ConnectFails(a) \/ Leave(a) \/ RecvReply(a) \/ RecvFails(a)
           \/ HandleSignal(a) \/ Signal(a) \/ Crash(a)
    PROVE  /\ Moves(a)
           /\ pc'[a] # "exited" /\ sigpend[a] => sigpend'[a] \/ mainloop'[a]
           /\ pc[a] = "exited" => pc'[a] = "exited" /\ UNCHANGED <<sigpend, mainloop>>
<1>0. /\ pc \in [Agents -> Places] /\ outbox \in [Agents -> Seq(Reply)]
      /\ mainloop \in [Agents -> BOOLEAN] /\ sigpend \in [Agents -> BOOLEAN]
      /\ pc[a] = "exited" => outbox[a] = <<>>
      /\ "exited" \notin Waiting
  BY DEF TypeOK, Places, PairInv, Pair, Waiting
<1>1. CASE ConnectFails(a)
  <2>1. pc[a] = "new" /\ ~mainloop[a] /\ pc[a] \notin Waiting
    BY <1>1 DEF ConnectFails, PairInv, Pair, Waiting
  <2>2. outbox[a] = <<>>
    BY <2>1 DEF PairInv, Pair
  <2> QED BY <1>0, <1>1, <2>2 DEF ConnectFails, Moves, Goto, sockVars
<1>2. CASE Leave(a)
  BY <1>0, <1>2 DEF Leave, Moves, Goto, sockVars, Waiting
<1>3. CASE RecvReply(a)
  BY <1>0, <1>3 DEF RecvReply, Moves, Goto, DropIfExited
<1>4. CASE RecvFails(a)
  BY <1>0, <1>4 DEF RecvFails, Moves, Goto, DropIfExited, sockVars
<1>5. CASE HandleSignal(a)
  BY <1>0, <1>5 DEF HandleSignal, Moves, Goto, DropIfExited, Exit, Running
<1>6. CASE Signal(a)
  BY <1>0, <1>6 DEF Signal, Moves, sockVars, Running
<1>7. CASE Crash(a)
  BY <1>0, <1>7 DEF Crash, Moves, Exit, Goto, Running
<1> QED BY <1>1, <1>2, <1>3, <1>4, <1>5, <1>6, <1>7

\* Such a step keeps the streams and the pairing.
LEMMA MoveInv ==
    ASSUME TypeOK, StreamInv, PidInv, PairInv, NEW a \in Agents, Moves(a),
           pc'[a] = "new" => ~mainloop'[a]
    PROVE  StreamInv' /\ PidInv' /\ PairInv'
<1>0. /\ \A b \in Agents : b # a => pc'[b] = pc[b] /\ outbox'[b] = outbox[b]
                                    /\ mainloop'[b] = mainloop[b]
      /\ UNCHANGED <<inbox, backlog, fds, srv, agents>>
      /\ outbox[a] \in Seq(Reply)
  BY DEF Moves, serverVars, TypeOK
<1>1. \A b \in Agents : ServerEnd(b)' = ServerEnd(b)
  BY <1>0 DEF ServerEnd
<1>2. \A b \in Agents : b # a => Stream(b)' /\ Pair(b)'
  BY <1>0, <1>1 DEF StreamInv, Stream, PairInv, Pair, Expects
<1>3. PidInv'
  BY <1>0 DEF PidInv
<1>4. \A p \in Waiting : /\ FailTo(p) \in {"cleanup", "ready", "exited"}
                         /\ OkTo(p) \in {"accepting", "ready", "exited"}
                         /\ OkTo(p) = "accepting" => p = "caps"
                         /\ p = "close" => FailTo(p) = "exited" /\ OkTo(p) = "exited"
  BY DEF Waiting, OkTo, FailTo
<1>5. Stream(a)'
  <2>1. /\ pc'[a] \in {"caps", "accepting"} => pc[a] \in {"caps", "accepting"}
        /\ pc[a] \in {"close", "exited"} => pc'[a] \in {"close", "exited"}
    BY <1>4 DEF Moves, Waiting
  <2> QED BY <1>0, <1>1, <2>1 DEF StreamInv, Stream
<1>6. Pair(a)'
  <2>1. \A k \in DOMAIN outbox'[a] : outbox'[a][k].as \in {a, NoAgent}
    <3>1. CASE outbox'[a] = outbox[a]
      BY <3>1 DEF PairInv, Pair
    <3>2. CASE outbox'[a] = <<>>
      BY <3>2
    <3>3. CASE outbox[a] # <<>> /\ outbox'[a] = Tail(outbox[a])
      <4>1. /\ DOMAIN outbox[a] = 1..Len(outbox[a]) /\ Len(outbox[a]) \in Nat
            /\ DOMAIN outbox'[a] = 1..(Len(outbox[a]) - 1)
            /\ \A k \in 1..(Len(outbox[a]) - 1) : outbox'[a][k] = outbox[a][k + 1]
        BY <1>0, <3>3, Popped
      <4>2. \A k \in DOMAIN outbox'[a] : k + 1 \in DOMAIN outbox[a]
        BY <4>1
      <4> QED BY <4>1, <4>2 DEF PairInv, Pair
    <3> QED BY <3>1, <3>2, <3>3 DEF Moves
  <2>2. ASSUME ~mainloop'[a], pc'[a] # "exited"
        PROVE  \/ pc'[a] = pc[a] /\ outbox'[a] = outbox[a]
               \/ inbox[a] = <<>> /\ outbox'[a] = <<>>
    <3>0. ~mainloop[a] /\ pc[a] # "exited"
      <4>1. pc[a] = "exited" => pc'[a] = "exited"
        BY DEF Moves, Waiting
      <4> QED BY <2>2, <4>1 DEF Moves
    <3>1. CASE pc[a] \in {"new", "accepting", "ready"} /\ outbox'[a] = outbox[a]
      <4>1. pc[a] \notin Waiting
        BY <3>1 DEF Waiting
      <4> QED BY <3>0, <3>1, <4>1 DEF PairInv, Pair
    <3>2. CASE outbox[a] # <<>> /\ outbox'[a] = Tail(outbox[a])
      <4>1. Len(outbox[a]) <= 1 /\ inbox[a] = <<>>
        BY <3>0, <3>2 DEF PairInv, Pair
      <4>2. Tail(outbox[a]) = <<>>
        BY <1>0, <3>2, <4>1, Popped
      <4> QED BY <3>2, <4>1, <4>2
    <3>3. CASE ~ServerEnd(a) /\ outbox'[a] = <<>>
      BY <3>3 DEF StreamInv, Stream
    <3> QED BY <2>2, <3>1, <3>2, <3>3 DEF Moves
  <2>3. ~mainloop'[a] => ~mainloop[a]
    BY DEF Moves
  <2>4. pc'[a] = "exited" => outbox'[a] = <<>>
    BY DEF Moves
  <2>5. ASSUME inbox[a] = <<>>, outbox'[a] = <<>> PROVE Pair(a)'
    BY <1>0, <2>1, <2>5 DEF Pair
  <2>6. ASSUME pc'[a] = pc[a], outbox'[a] = outbox[a] PROVE Pair(a)'
    BY <1>0, <2>1, <2>3, <2>6 DEF PairInv, Pair, Expects
  <2>7. ASSUME mainloop'[a] \/ pc'[a] = "exited" PROVE Pair(a)'
    BY <2>1, <2>4, <2>7 DEF Pair
  <2> QED BY <2>2, <2>5, <2>6, <2>7
<1> QED BY <1>2, <1>3, <1>5, <1>6 DEF StreamInv, PairInv

\* The agents' steps keep the streams and the pairing.
LEMMA AgentStreams ==
    ASSUME TypeOK, StreamInv, PidInv, PairInv, NEW a \in Agents,
           AgentStep(a) \/ ClientStep(a) \/ Signal(a) \/ Crash(a)
    PROVE  StreamInv' /\ PidInv' /\ PairInv'
<1>1. CASE \/ SessionInfo(a) \/ Operation(a) \/ Cleanup(a)
           \/ \E b \in Victims : RequestKill(a, b)
  BY <1>1, SendCases, SendInv
<1>2. CASE Connect(a)
  BY <1>2, ConnectInv
<1>3. CASE \/ ConnectFails(a) \/ Leave(a) \/ RecvReply(a) \/ RecvFails(a)
           \/ HandleSignal(a) \/ Signal(a) \/ Crash(a)
  <2>1. Moves(a)
    BY <1>3, MoveCases
  <2>2. pc'[a] = "new" => ~mainloop'[a]
    <3>1. pc'[a] = "new" => pc[a] = "new"
      BY <2>1 DEF Moves, OkTo, FailTo, Waiting
    <3>2. pc[a] = "new" => mainloop' = mainloop
      BY <1>3 DEF ConnectFails, Leave, RecvReply, RecvFails, HandleSignal, Signal, Crash,
         Running, Waiting
    <3> QED BY <3>1, <3>2 DEF PairInv, Pair
  <2> QED BY <2>1, <2>2, MoveInv
<1> QED BY <1>1, <1>2, <1>3 DEF AgentStep, ClientStep

-----------------------------------------------------------------------------
(* The steps of the server                                                 *)

\* What the server sends is for the agent behind the descriptor, and answers
\* the request that it has read.
LEMMA ReplyPair ==
    ASSUME IInv, StreamInv, PairInv, NEW i \in Slots, Read(i),
           inbox'[Peer(i)] = Tail(inbox[Peer(i)]) \/ inbox'[Peer(i)] = <<>>,
           \A b \in Agents : b # Peer(i) => inbox'[b] = inbox[b],
           UNCHANGED <<pc, mainloop>>,
           NEW op \in {"CAPS", "SET", "OP", "KILL", "CLOSE", "ERR"},
           NEW x \in {Peer(i), NoAgent},
           ServerSend(Peer(i), op, x),
           op = Req(i).op \/ (op = "ERR" /\ Req(i).op = "KILL")
    PROVE  PairInv'
<1> USE DEF IInv
<1>0. PICK a \in Agents : a = Peer(i)
  BY ReadRequest
<1>1. /\ inbox[a] \in Seq(Request) /\ inbox[a] # <<>> /\ Req(i) = inbox[a][1]
      /\ inbox'[a] = Tail(inbox[a]) \/ inbox'[a] = <<>>
  BY <1>0, ReadRequest
<1>2. outbox \in [Agents -> Seq(Reply)]
  BY DEF TypeOK
<1> DEFINE r == [op |-> op, as |-> x]
<1>3. r \in Reply /\ r.op = op /\ r.as = x
  BY <1>0, SocketAssumption DEF Reply
<1>4. \A b \in Agents : b # a => outbox'[b] = outbox[b]
  BY <1>0, <1>2 DEF ServerSend
<1>5. \A b \in Agents : b # a => Pair(b)'
  BY <1>0, <1>4 DEF PairInv, Pair, Expects
<1>6. CASE pc[a] = "exited"
  <2>1. outbox'[a] = outbox[a]
    BY <1>0, <1>6 DEF ServerSend
  <2>2. Pair(a)'
    BY <1>6, <2>1 DEF PairInv, Pair
  <2> QED BY <1>5, <2>2 DEF PairInv
<1>7. CASE pc[a] # "exited"
  <2>1. outbox'[a] = Append(outbox[a], r)
    BY <1>0, <1>2, <1>7 DEF ServerSend
  <2> DEFINE n == Len(outbox[a])
  <2> HIDE DEF r
  <2>2. /\ n \in Nat /\ Len(outbox'[a]) = n + 1
        /\ DOMAIN outbox[a] = 1..n /\ DOMAIN outbox'[a] = 1..(n + 1)
        /\ \A k \in 1..n : outbox'[a][k] = outbox[a][k]
        /\ outbox'[a][n + 1] = r
        /\ outbox[a] = <<>> => outbox'[a][1] = r
    BY <1>2, <1>3, <2>1, Pushed
  <2> HIDE DEF n
  <2>3. \A k \in DOMAIN outbox'[a] : outbox'[a][k].as \in {a, NoAgent}
    BY <1>0, <1>3, <2>2 DEF PairInv, Pair
  <2>4. ASSUME ~mainloop[a]
        PROVE  /\ Len(inbox'[a]) <= 1 /\ Len(outbox'[a]) <= 1
               /\ inbox'[a] = <<>>
               /\ pc[a] \in Waiting /\ Expects(a, outbox'[a][1].op)
    <3>1. /\ Len(inbox[a]) <= 1 /\ outbox[a] = <<>>
          /\ pc[a] \in Waiting /\ inbox[a][1].op = Answer(pc[a])
      BY <1>1, <1>7, <2>4 DEF PairInv, Pair
    <3>2. inbox'[a] = <<>>
      BY <1>1, <3>1, Popped
    <3>3. n = 0
      BY <3>1 DEF n
    <3>4. Len(inbox'[a]) <= 1 /\ Len(outbox'[a]) <= 1
      BY <2>2, <3>2, <3>3
    <3>5. "KILL" = Answer(pc[a]) => pc[a] = "kill"
      BY <3>1 DEF Answer, Waiting
    <3>6. Expects(a, outbox'[a][1].op)
      BY <1>1, <1>3, <2>2, <3>1, <3>5 DEF Expects
    <3> QED BY <3>1, <3>2, <3>4, <3>6
  <2>5. pc[a] = "new" => ~mainloop[a]
    BY DEF PairInv, Pair
  <2>6. Pair(a)'
    BY <1>7, <2>3, <2>4, <2>5 DEF Pair, Expects
  <2> QED BY <1>5, <2>6 DEF PairInv
<1> QED BY <1>6, <1>7

\* A request is taken from its stream.
LEMMA ConsumeStream ==
    ASSUME IInv, StreamInv, PidInv, NEW i \in Slots, Read(i), Consume(i),
           UNCHANGED <<pc, backlog, fds, srv>>
    PROVE  /\ StreamInv'
           /\ \A a \in Agents : \A k \in DOMAIN inbox'[a] :
                 inbox'[a][k].op = "SET" => inbox'[a][k].pid = PidOf[a] % PidMod
<1> USE DEF IInv
<1>0. PICK a \in Agents : a = Peer(i)
  BY ReadRequest
<1>1. inbox[a] \in Seq(Request) /\ inbox[a] # <<>>
  BY <1>0, ReadRequest
<1>2. inbox'[a] = Tail(inbox[a]) /\ \A b \in Agents : b # a => inbox'[b] = inbox[b]
  BY <1>0 DEF Consume, TypeOK
<1>3. \A b \in Agents : ServerEnd(b)' = ServerEnd(b)
  BY DEF ServerEnd
<1>4. /\ DOMAIN inbox[a] = 1..Len(inbox[a]) /\ Len(inbox[a]) \in Nat
      /\ DOMAIN inbox'[a] = 1..(Len(inbox[a]) - 1)
      /\ \A k \in DOMAIN inbox'[a] : inbox'[a][k] = inbox[a][k + 1]
  BY <1>1, <1>2, Popped
<1>5. \A k \in DOMAIN inbox'[a] : k \in Nat /\ k + 1 \in DOMAIN inbox[a]
  BY <1>4
<1>6. \A b \in Agents : b # a => Stream(b)'
  BY <1>2, <1>3 DEF StreamInv, Stream
<1>7. Stream(a)'
  <2>1. ServerEnd(a)'
    BY <1>1, <1>3 DEF StreamInv, Stream
  <2>2. ASSUME NEW k \in DOMAIN inbox'[a], inbox'[a][k].op = "CLOSE"
        PROVE  /\ pc'[a] \in {"close", "exited"}
               /\ \A l \in DOMAIN inbox'[a] : inbox'[a][l].op = "SET" => l < k
    <3>1. inbox[a][k + 1].op = "CLOSE"
      BY <1>4, <2>2
    <3>2. /\ pc[a] \in {"close", "exited"}
          /\ \A l \in DOMAIN inbox'[a] : inbox'[a][l].op = "SET" => l + 1 < k + 1
      BY <1>4, <1>5, <3>1 DEF StreamInv, Stream
    <3>3. \A l \in DOMAIN inbox'[a] : l + 1 < k + 1 => l < k
      BY <1>5
    <3> QED BY <3>2, <3>3
  <2> QED BY <2>1, <2>2 DEF Stream
<1>8. \A k \in DOMAIN inbox'[a] :
         inbox'[a][k].op = "SET" => inbox'[a][k].pid = PidOf[a] % PidMod
  BY <1>4, <1>5 DEF PidInv
<1>9. \A b \in Agents : b # a => \A k \in DOMAIN inbox'[b] :
         inbox'[b][k].op = "SET" => inbox'[b][k].pid = PidOf[b] % PidMod
  BY <1>2 DEF PidInv
<1> QED BY <1>6, <1>7, <1>8, <1>9 DEF StreamInv

\* A session record for the descriptor of a slot is that of the slot's peer.
LEMMA RecordOfPeer ==
    ASSUME IInv, NEW i \in Slots, Read(i), NEW s \in ByAgentId(slot[i])
    PROVE  s \in agents /\ s.ncsid = Peer(i)
BY DEF IInv, ByAgentId, SessionIdentity, Peer, Read, At

\* The handlers that answer one request.
LEMMA HandlerStreams ==
    ASSUME IInv, StreamInv, PidInv, PairInv, NEW i \in Slots,
           \/ GetCapabilities(i) \/ SetSession(i) \/ KillSessionError(i) \/ KillSession(i)
           \/ ProcessOperation(i)
    PROVE  StreamInv' /\ PidInv' /\ PairInv'
<1> USE DEF IInv
<1>0. Read(i) /\ Consume(i) /\ UNCHANGED <<pc, mainloop, backlog, fds, srv>>
  BY DEF GetCapabilities, SetSession, KillSessionError, KillSession, ProcessOperation, agentVars
<1>1. /\ Peer(i) \in Agents /\ inbox'[Peer(i)] = Tail(inbox[Peer(i)])
      /\ \A b \in Agents : b # Peer(i) => inbox'[b] = inbox[b]
  BY <1>0, ReadRequest DEF Consume, TypeOK
<1>2. StreamInv'
  BY <1>0, ConsumeStream
<1>3. PidInv'
  <2>1. \A s \in agents' : s.pid = PidOf[s.ncsid] % PidMod
    <3>1. CASE agents' \subseteq agents
      BY <3>1 DEF PidInv
    <3>2. CASE SetSession(i)
      <4>1. /\ Req(i).ncsid = Peer(i) /\ Req(i).pid = PidOf[Peer(i)] % PidMod
        <5>1. Req(i) = inbox[Peer(i)][1] /\ 1 \in DOMAIN inbox[Peer(i)] /\ Req(i).op = "SET"
          BY <1>0, <3>2, ReadRequest DEF SetSession
        <5> QED BY <1>1, <5>1 DEF AnnounceInv, IsSet, PidInv
      <4>2. agents' = agents \cup
               {[id |-> slot[i], ncsid |-> Peer(i), pid |-> PidOf[Peer(i)] % PidMod]}
        BY <3>2, <4>1 DEF SetSession
      <4> QED BY <4>2 DEF PidInv
    <3> QED
      BY <3>1, <3>2 DEF GetCapabilities, KillSessionError, KillSession, ProcessOperation,
         SrvAgentKill, SrvAgentStop
  <2> QED BY <1>0, <2>1, ConsumeStream DEF PidInv
<1>4. PICK op \in {"CAPS", "SET", "OP", "KILL", "CLOSE", "ERR"}, x \in {Peer(i), NoAgent} :
         /\ ServerSend(Peer(i), op, x)
         /\ op = Req(i).op \/ (op = "ERR" /\ Req(i).op = "KILL")
  <2>1. CASE ProcessOperation(i)
    <3>1. PICK x \in {Peer(i), NoAgent} : ServerSend(Peer(i), "OP", x)
      BY <1>0, <2>1, RecordOfPeer DEF ProcessOperation
    <3> QED BY <2>1, <3>1 DEF ProcessOperation
  <2> QED BY <2>1 DEF GetCapabilities, SetSession, KillSessionError, KillSession
<1>5. PairInv'
  BY <1>0, <1>1, <1>4, ReplyPair
<1> QED BY <1>2, <1>3, <1>5

\* close_session: the stream ends with the connection.
LEMMA CloseStreams ==
    ASSUME IInv, StreamInv, PidInv, PairInv, NEW i \in Slots, CloseSession(i)
    PROVE  StreamInv' /\ PidInv' /\ PairInv'
<1> USE DEF IInv
<1>0. /\ Read(i) /\ CloseDescriptor(i) /\ UNCHANGED <<pc, mainloop, backlog, srv>>
      /\ Req(i).op = "CLOSE"
  BY DEF CloseSession, agentVars
<1>1. PICK a \in Agents : a = Peer(i)
  BY <1>0, ReadRequest
<1>2. /\ inbox[a] \in Seq(Request) /\ inbox[a] # <<>> /\ slot[i] \in Fds
      /\ 1 \in DOMAIN inbox[a] /\ inbox[a][1].op = "CLOSE"
  BY <1>0, <1>1, ReadRequest
<1>3. /\ inbox'[a] = <<>> /\ \A b \in Agents : b # a => inbox'[b] = inbox[b]
      /\ fds[slot[i]] = a /\ \A f \in Fds : f # slot[i] => fds'[f] = fds[f]
  BY <1>0, <1>1, <1>2 DEF CloseDescriptor, TypeOK, Peer
<1>4. \A b \in Agents : b # a /\ ServerEnd(b) => ServerEnd(b)'
  BY <1>0, <1>3 DEF ServerEnd
<1>5. \A b \in Agents : b # a => Stream(b)'
  BY <1>0, <1>3, <1>4 DEF StreamInv, Stream
<1>6. pc[a] \in {"close", "exited"}
  BY <1>2 DEF StreamInv, Stream
<1>7. Stream(a)'
  BY <1>0, <1>3, <1>6 DEF Stream
<1>8. PidInv'
  <2>1. agents' \subseteq agents
    BY DEF CloseSession, SrvAgentStop
  <2>2. \A b \in Agents : \A k \in DOMAIN inbox'[b] :
           inbox'[b][k].op = "SET" => inbox'[b][k].pid = PidOf[b] % PidMod
    BY <1>3 DEF PidInv
  <2> QED BY <2>1, <2>2 DEF PidInv
<1>9. PairInv'
  <2>1. CASE UNCHANGED outbox
    <3>1. Pair(a)'
      <4>1. Len(inbox'[a]) <= 1
        BY <1>3
      <4> QED BY <1>0, <1>3, <2>1, <4>1 DEF PairInv, Pair, Expects
    <3>2. \A b \in Agents : b # a => Pair(b)'
      BY <1>0, <1>3, <2>1 DEF PairInv, Pair, Expects
    <3> QED BY <3>1, <3>2 DEF PairInv
  <2>2. ASSUME NEW s \in ByAgentId(slot[i]), ServerSend(Peer(i), "CLOSE", s.ncsid)
        PROVE  PairInv'
    <3>1. s.ncsid = Peer(i)
      BY <1>0, RecordOfPeer
    <3>2. ServerSend(Peer(i), "CLOSE", Peer(i))
      BY <2>2, <3>1
    <3>3. inbox'[Peer(i)] = <<>> /\ \A b \in Agents : b # Peer(i) => inbox'[b] = inbox[b]
      BY <1>1, <1>3
    <3> QED BY <1>0, <3>2, <3>3, ReplyPair
  <2> QED BY <2>1, <2>2 DEF CloseSession
<1> QED BY <1>5, <1>7, <1>8, <1>9 DEF StreamInv

\* accept() moves a connection from the queue to a descriptor.
LEMMA AcceptStreams ==
    ASSUME IInv, StreamInv, PidInv, PairInv, Accept
    PROVE  StreamInv' /\ PidInv' /\ PairInv'
<1> USE DEF IInv
<1>0. /\ backlog # <<>> /\ backlog' = Tail(backlog) /\ backlog \in Seq(Agents)
      /\ UNCHANGED <<pc, mainloop, inbox, outbox, srv, agents>>
  BY DEF Accept, agentVars, TypeOK
<1>1. PICK f \in Fds : fds[f] = NoAgent /\ fds' = [fds EXCEPT ![f] = Head(backlog)]
  BY DEF Accept, IsLeast, FreeFds
<1>2. fds'[f] = Head(backlog) /\ \A g \in Fds : g # f => fds'[g] = fds[g]
  BY <1>1 DEF TypeOK
<1>3. \A b \in Agents : ServerEnd(b) => ServerEnd(b)'
  <2> SUFFICES ASSUME NEW b \in Agents, ServerEnd(b) PROVE ServerEnd(b)'
    OBVIOUS
  <2>1. ASSUME NEW g \in Fds, fds[g] = b PROVE ServerEnd(b)'
    BY <1>1, <1>2, <2>1, SocketAssumption DEF ServerEnd
  <2>2. ASSUME NEW k \in DOMAIN backlog, backlog[k] = b PROVE ServerEnd(b)'
    <3>1. /\ DOMAIN backlog = 1..Len(backlog) /\ Len(backlog) \in Nat
          /\ DOMAIN backlog' = 1..(Len(backlog) - 1) /\ Head(backlog) = backlog[1]
          /\ \A j \in 1..(Len(backlog) - 1) : backlog'[j] = backlog[j + 1]
      BY <1>0, Popped
    <3>2. CASE k = 1
      BY <1>2, <2>2, <3>1, <3>2 DEF ServerEnd
    <3>3. CASE k # 1
      <4>1. k - 1 \in DOMAIN backlog' /\ (k - 1) + 1 = k
        BY <3>1, <3>3
      <4>2. backlog'[k - 1] = b
        BY <2>2, <3>1, <4>1
      <4> QED BY <4>1, <4>2 DEF ServerEnd
    <3> QED BY <3>2, <3>3
  <2> QED BY <2>1, <2>2 DEF ServerEnd
<1>4. StreamInv'
  BY <1>0, <1>3 DEF StreamInv, Stream
<1>5. PairInv'
  BY <1>0 DEF PairInv, Pair, Expects
<1>6. PidInv'
  BY <1>0 DEF PidInv
<1> QED BY <1>4, <1>5, <1>6

\* The server's steps keep the streams and the pairing.
LEMMA ServerStreams ==
    ASSUME IInv, StreamInv, PidInv, PairInv, ServerStep \/ ServerSignal \/ ServerDies
    PROVE  StreamInv' /\ PidInv' /\ PairInv'
<1>1. ASSUME Poll \/ ScanDone \/ AcceptDone \/ ServerSignal \/ \E i \in Slots : HangUp(i)
      PROVE  StreamInv' /\ PidInv' /\ PairInv'
  <2>1. UNCHANGED <<pc, mainloop, inbox, outbox, backlog, fds, srv, agents>>
    BY <1>1 DEF Poll, ScanDone, AcceptDone, ServerSignal, HangUp, agentVars, sockVars
  <2>2. \A b \in Agents : ServerEnd(b)' = ServerEnd(b)
    BY <2>1 DEF ServerEnd
  <2>3. StreamInv'
    BY <2>1, <2>2 DEF StreamInv, Stream
  <2>4. PairInv'
    BY <2>1 DEF PairInv, Pair, Expects
  <2> QED BY <2>1, <2>3, <2>4 DEF PidInv
<1>2. ASSUME AcceptFails \/ ServerStop \/ ServerDies
      PROVE  StreamInv' /\ PidInv' /\ PairInv'
  <2>1. /\ srv' # "up" /\ UNCHANGED <<pc, mainloop, outbox>> /\ agents' \subseteq agents
        /\ inbox' = [a \in Agents |-> <<>>]
    BY <1>2 DEF AcceptFails, CommDestroy, ServerStop, ServerDies, ServerExits, agentVars
  <2>2. \A a \in Agents : inbox'[a] = <<>> /\ Len(inbox'[a]) <= 1 /\ DOMAIN inbox'[a] = {}
    BY <2>1
  <2>3. StreamInv'
    BY <2>1, <2>2 DEF StreamInv, Stream
  <2>4. PairInv'
    BY <2>1, <2>2 DEF PairInv, Pair, Expects
  <2>5. PidInv'
    BY <2>1, <2>2 DEF PidInv
  <2> QED BY <2>3, <2>4, <2>5
<1> QED
  BY <1>1, <1>2, HandlerStreams, CloseStreams, AcceptStreams DEF ServerStep, Serve

\* The descriptors that are open.
OpenFds == {f \in Fds : fds[f] # NoAgent}

\* comm_destroy() closes the descriptors in the slots, and when accept() finds
\* none free there are fewer of them than slots.
LEMMA DestroyLeaks ==
    ASSUME IInv, AcceptFails
    PROVE  Cardinality(OpenFds') > MaxFds - AGENTS_QUEUE
<1> USE DEF IInv
<1>0. /\ srv = "up" /\ loop = "accept" /\ revents[0] = "in" /\ FreeFds = {}
      /\ fds' = [f \in Fds |-> IF \E i \in Slots : slot[i] = f THEN NoAgent ELSE fds[f]]
  BY DEF AcceptFails, AcceptError, CommDestroy
<1> DEFINE Held == {slot[i] : i \in UsedSlots}
<1>1. Held \subseteq Fds
  BY DEF UsedSlots, TypeOK
<1>2. OpenFds' = Fds \ Held
  <2>1. \A f \in Fds : (\E i \in Slots : slot[i] = f) <=> f \in Held
    BY SocketAssumption DEF UsedSlots, Fds
  <2> QED BY <1>0, <2>1 DEF OpenFds, FreeFds
<1>3. IsFiniteSet(Fds) /\ Cardinality(Fds) = MaxFds
  <2>1. 1 \in Int /\ MaxFds \in Int /\ MaxFds \in Nat
    BY SocketAssumption
  <2>2. IsFiniteSet(1..MaxFds) /\ Cardinality(1..MaxFds) = IF 1 > MaxFds THEN 0 ELSE MaxFds - 1 + 1
    BY <2>1, FS_Interval
  <2> QED BY <2>1, <2>2 DEF Fds
<1>4. IsFiniteSet(Held) /\ Cardinality(Held) <= Cardinality(UsedSlots)
  <2> DEFINE g == [i \in UsedSlots |-> slot[i]]
  <2>1. g \in Surjection(UsedSlots, Held)
    BY DEF Surjection
  <2> HIDE DEF g, Held
  <2> QED BY <2>1, SlotsFinite, FS_Surjection
<1>5. Cardinality(UsedSlots) < AGENTS_QUEUE /\ Cardinality(UsedSlots) \in Nat
  BY <1>0, SlotsFinite DEF EventsInv, CountInv
<1>6. Cardinality(Fds \ Held) = MaxFds - Cardinality(Held)
  <2>1. Fds \cap Held = Held
    BY <1>1
  <2> HIDE DEF Held
  <2> QED BY <1>3, <2>1, FS_Difference
<1>7. Cardinality(Held) \in Nat
  BY <1>4, FS_CardinalityType
<1> HIDE DEF Held
<1> QED BY <1>2, <1>4, <1>5, <1>6, <1>7, SocketAssumption

\* The descriptors stay as they are once the socket was given up.
LEMMA DownStep ==
    ASSUME IInv, CommDownNeedsLeaks, [Next]_vars
    PROVE  CommDownNeedsLeaks'
<1> USE DEF IInv
<1>1. CASE AcceptFails
  BY <1>1, DestroyLeaks DEF CommDownNeedsLeaks, OpenFds
<1>2. CASE ~AcceptFails
  <2> SUFFICES ASSUME srv' = "down" PROVE srv = "down" /\ fds' = fds
    BY DEF CommDownNeedsLeaks
  <2>1. CASE UNCHANGED vars
    BY <2>1 DEF vars, sockVars, serverVars
  <2>2. ASSUME NEW a \in Agents, AgentStep(a) \/ ClientStep(a) \/ Signal(a) \/ Crash(a)
        PROVE  srv = "down" /\ fds' = fds
    BY <2>2, AgentFrame DEF serverVars
  <2>3. ASSUME NEW i \in Slots, Serve(i) PROVE FALSE
    <3>1. At(i, "hup") \/ Read(i)
      BY <2>3 DEF Serve, HangUp, GetCapabilities, SetSession, CloseSession, KillSessionError,
         KillSession, ProcessOperation
    <3>2. srv = "up"
      BY <3>1 DEF At, Read
    <3> QED
      BY <2>3, <3>2 DEF Serve, HangUp, GetCapabilities, SetSession, CloseSession,
         KillSessionError, KillSession, ProcessOperation
  <2>4. CASE Poll \/ ScanDone \/ AcceptDone \/ Accept \/ ServerSignal \/ ServerStop \/ ServerDies
    BY <2>4 DEF Poll, ScanDone, AcceptDone, Accept, ServerSignal, ServerStop, ServerDies,
       ServerExits, sockVars
  <2> QED BY <1>2, <2>1, <2>2, <2>3, <2>4 DEF Next, ServerStep
<1> QED BY <1>1, <1>2

-----------------------------------------------------------------------------
(* The invariants                                                          *)

\* The program starts in, and every step keeps, the strengthened invariant.
LEMMA StreamsInductive == Spec => []SInv
<1>1. Init => SInv
  <2> SUFFICES ASSUME Init PROVE SInv
    OBVIOUS
  <2>1. StreamInv /\ PidInv
    BY DEF Init, StreamInv, Stream, PidInv
  <2>2. PairInv
    BY DEF Init, PairInv, Pair
  <2>3. CommDownNeedsLeaks
    BY DEF Init, CommDownNeedsLeaks
  <2> QED BY <2>1, <2>2, <2>3, InitInv DEF SInv
<1>2. SInv /\ [Next]_vars => SInv'
  <2> SUFFICES ASSUME SInv, [Next]_vars PROVE SInv'
    OBVIOUS
  <2> USE DEF SInv
  <2>1. IInv'
    BY StepInv
  <2>2. StreamInv' /\ PidInv' /\ PairInv'
    <3>1. CASE UNCHANGED vars
      <4>1. UNCHANGED <<pc, mainloop, inbox, outbox, backlog, fds, srv, agents>>
        BY <3>1 DEF vars, agentVars, sockVars, serverVars
      <4>2. StreamInv'
        BY <4>1 DEF StreamInv, Stream, ServerEnd
      <4>3. PairInv'
        BY <4>1 DEF PairInv, Pair, Expects
      <4> QED BY <4>1, <4>2, <4>3 DEF PidInv
    <3> QED BY <3>1, AgentStreams, ServerStreams DEF Next, IInv
  <2>3. CommDownNeedsLeaks'
    BY DownStep
  <2> QED BY <2>1, <2>2, <2>3
<1> QED BY <1>1, <1>2, PTL DEF Spec

\* Requests and answers stay paired on the stream of an agent that was not told
\* to terminate, and nothing is executed in another agent's session, for any
\* number of agents and whatever crashes, signals and closes come between.
THEOREM AnswersArePaired == Spec => []AnswersPaired
<1>1. SInv => AnswersPaired
  <2> SUFFICES ASSUME SInv, NEW a \in Agents
               PROVE  /\ \A k \in DOMAIN outbox[a] : outbox[a][k].as \in {a, NoAgent}
                      /\ outbox[a] # <<>> /\ ~mainloop[a] =>
                            /\ pc[a] \in Waiting
                            /\ Len(outbox[a]) = 1 /\ inbox[a] = <<>>
                            /\ Expects(a, outbox[a][1].op)
    BY DEF AnswersPaired, Expects
  <2>1. Pair(a) /\ outbox[a] \in Seq(Reply)
    BY DEF SInv, PairInv, IInv, TypeOK
  <2>2. outbox[a] # <<>> => Len(outbox[a]) >= 1 /\ Len(outbox[a]) \in Nat
    BY <2>1, Popped
  <2>3. outbox[a] # <<>> /\ ~mainloop[a] =>
           /\ Len(outbox[a]) <= 1 /\ inbox[a] = <<>>
           /\ pc[a] \in Waiting /\ Expects(a, outbox[a][1].op)
    BY <2>1 DEF Pair
  <2>4. \A n \in Nat : n >= 1 /\ n <= 1 => n = 1
    OBVIOUS
  <2>5. \A k \in DOMAIN outbox[a] : outbox[a][k].as \in {a, NoAgent}
    BY <2>1 DEF Pair
  <2> QED BY <2>2, <2>3, <2>4, <2>5
<1> QED BY <1>1, StreamsInductive, PTL

\* The server gives up its socket only when broken connections have cost it
\* more descriptors than a full house of agents leaves free.
THEOREM CommDownLeaks == Spec => []CommDownNeedsLeaks
<1>1. SInv => CommDownNeedsLeaks
  BY DEF SInv
<1> QED BY <1>1, StreamsInductive, PTL

-----------------------------------------------------------------------------
(* A killed session is no secret                                           *)

\* The PIDs of the agents are not cut when they are sent (uint16_t).
PidsFit == \A a \in Agents : PidOf[a] < PidMod

\* An agent that serves its client, or is about to, has its session or is told
\* to terminate.
Granted(a) ==
    \/ sigpend[a] \/ mainloop[a] \/ ByNcsid(a) # {}
    \/ pc[a] \notin {"ready", "op", "kill"} /\ (pc[a] = "set" => outbox[a] = <<>>)

GrantInv == srv = "up" => \A a \in Agents : Granted(a)

\* A PID that fits is recorded as it is.
LEMMA RecordedPid ==
    ASSUME PidsFit, IInv, PidInv, NEW s \in agents
    PROVE  s.ncsid \in Agents /\ s.pid = PidOf[s.ncsid] /\ s.pid # 0
<1>1. s.ncsid \in Agents
  BY DEF IInv, TypeOK, Session
<1>2. /\ PidOf[s.ncsid] \in Nat /\ PidOf[s.ncsid] # 0 /\ PidOf[s.ncsid] < PidMod
      /\ PidMod \in Nat \ {0}
  BY <1>1, SocketAssumption DEF PidsFit
<1>3. PidOf[s.ncsid] % PidMod = PidOf[s.ncsid]
  BY <1>2
<1> QED BY <1>1, <1>2, <1>3 DEF PidInv

\* The agents' steps keep what was granted.
LEMMA AgentGrants ==
    ASSUME SInv, GrantInv, NEW a \in Agents,
           AgentStep(a) \/ ClientStep(a) \/ Signal(a) \/ Crash(a)
    PROVE  GrantInv'
<1> USE DEF SInv, IInv
<1>0. UNCHANGED <<srv, agents>>
  BY AgentFrame DEF serverVars
<1> SUFFICES ASSUME srv = "up", NEW b \in Agents PROVE Granted(b)'
  BY <1>0 DEF GrantInv
<1>1. Granted(b)
  BY DEF GrantInv
<1>2. ByNcsid(b)' = ByNcsid(b)
  BY <1>0 DEF ByNcsid
<1>3. CASE \/ SessionInfo(a) \/ Operation(a) \/ Cleanup(a)
           \/ \E c \in Victims : RequestKill(a, c)
  <2>1. PICK from \in {"accepting", "ready", "cleanup"}, to \in Waiting, m \in Request :
              /\ Sends(a, from, to, m)
              /\ from = "accepting" => to = "set"
              /\ from = "ready" => to \in {"op", "kill"}
              /\ from = "cleanup" => to = "close"
    BY <1>3, SendCases
  <2>2. /\ UNCHANGED <<sigpend, mainloop, outbox>> /\ pc[a] = from /\ pc'[a] = to
        /\ a # b => pc'[b] = pc[b]
    BY <2>1 DEF Sends, Goto, TypeOK
  <2>3. from = "accepting" /\ ~mainloop[a] => outbox[a] = <<>>
    BY <2>2 DEF PairInv, Pair, Waiting
  <2> QED BY <1>1, <1>2, <2>1, <2>2, <2>3 DEF Granted
<1>4. CASE Connect(a)
  <2>1. UNCHANGED <<sigpend, mainloop, outbox>> /\ (pc'[b] = pc[b] \/ pc'[b] = "caps")
    BY <1>4 DEF Connect, Goto, TypeOK
  <2> QED BY <1>1, <1>2, <2>1 DEF Granted
<1>5. CASE \/ ConnectFails(a) \/ Leave(a) \/ RecvReply(a) \/ RecvFails(a)
           \/ HandleSignal(a) \/ Signal(a) \/ Crash(a)
  <2>1. /\ Moves(a)
        /\ pc'[a] # "exited" /\ sigpend[a] => sigpend'[a] \/ mainloop'[a]
    BY <1>5, MoveCases
  <2>2. CASE b # a
    BY <1>1, <1>2, <2>1, <2>2 DEF Granted, Moves
  <2>3. CASE b = a /\ pc'[a] \in {"cleanup", "exited", "accepting"}
    BY <2>3 DEF Granted
  <2>4. CASE b = a /\ pc'[a] = pc[a] /\ outbox'[a] = outbox[a]
    BY <1>1, <1>2, <2>1, <2>3, <2>4 DEF Granted, Moves
  <2>5. CASE b = a /\ pc[a] \in Waiting /\ mainloop'[a]
    BY <2>5 DEF Granted
  <2>6. CASE b = a /\ pc[a] \in Waiting /\ outbox[a] = <<>> /\ pc'[a] = FailTo(pc[a])
    <3>1. pc[a] \in {"op", "kill"} \/ pc'[a] \in {"cleanup", "exited"}
      BY <2>6 DEF FailTo, Waiting
    <3> QED BY <1>1, <1>2, <2>1, <2>3, <2>6, <3>1 DEF Granted, Moves
  <2>7. CASE /\ b = a /\ pc[a] \in Waiting /\ outbox[a] # <<>>
             /\ pc'[a] \in {OkTo(pc[a]), FailTo(pc[a])}
    <3>1. pc[a] \in {"set", "op", "kill"} \/ pc'[a] \in {"cleanup", "exited", "accepting"}
      BY <2>7 DEF OkTo, FailTo, Waiting
    <3> QED BY <1>1, <1>2, <2>1, <2>3, <2>7, <3>1 DEF Granted, Moves
  <2> QED BY <2>1, <2>2, <2>3, <2>4, <2>5, <2>6, <2>7 DEF Moves
<1> QED BY <1>3, <1>4, <1>5 DEF AgentStep, ClientStep

\* The server's steps keep what was granted: it takes a session away when its
\* agent has left, or tells it.
LEMMA ServerGrants ==
    ASSUME PidsFit, SInv, GrantInv, ServerStep \/ ServerSignal \/ ServerDies
    PROVE  GrantInv'
<1> USE DEF SInv, IInv
<1>1. ASSUME srv' = "up" => srv = "up",
             \A b \in Agents :
                /\ pc'[b] = pc[b] /\ mainloop'[b] = mainloop[b]
                /\ sigpend[b] => sigpend'[b]
                /\ pc[b] # "exited" /\ ByNcsid(b) # {} => ByNcsid(b)' # {} \/ sigpend'[b]
                                                          \/ pc[b] = "close"
                /\ pc[b] = "set" /\ ~mainloop[b] /\ outbox'[b] # <<>> =>
                      outbox[b] # <<>> \/ ByNcsid(b)' # {}
      PROVE  GrantInv'
  <2> SUFFICES ASSUME srv' = "up", NEW b \in Agents PROVE Granted(b)'
    BY DEF GrantInv
  <2>1. Granted(b)
    BY <1>1 DEF GrantInv
  <2> QED BY <1>1, <2>1 DEF Granted
<1>2. CASE Poll \/ ScanDone \/ AcceptDone \/ Accept \/ ServerSignal \/ \E i \in Slots : HangUp(i)
  <2>1. UNCHANGED <<pc, mainloop, sigpend, outbox, srv, agents>>
    BY <1>2 DEF Poll, ScanDone, AcceptDone, Accept, ServerSignal, HangUp, agentVars, sockVars
  <2>2. \A b \in Agents : ByNcsid(b)' = ByNcsid(b)
    BY <2>1 DEF ByNcsid
  <2> QED BY <1>1, <2>1, <2>2
<1>3. CASE AcceptFails \/ ServerStop \/ ServerDies
  BY <1>3 DEF AcceptFails, ServerStop, ServerDies, ServerExits, GrantInv
<1>4. ASSUME NEW i \in Slots,
             \/ GetCapabilities(i) \/ KillSessionError(i) \/ KillSession(i) \/ ProcessOperation(i)
      PROVE  \A b \in Agents :
                pc[b] = "set" /\ ~mainloop[b] /\ outbox'[b] # <<>> => outbox[b] # <<>>
  <2>0. Read(i) /\ Req(i).op # "SET"
    BY <1>4 DEF GetCapabilities, KillSessionError, KillSession, ProcessOperation
  <2>1. PICK op, x : ServerSend(Peer(i), op, x)
    BY <1>4 DEF GetCapabilities, KillSessionError, KillSession, ProcessOperation
  <2>2. Peer(i) \in Agents /\ inbox[Peer(i)] # <<>> /\ Req(i) = inbox[Peer(i)][1]
    BY <2>0, ReadRequest
  <2>3. pc[Peer(i)] = "set" => mainloop[Peer(i)]
    BY <2>0, <2>2 DEF PairInv, Pair, Answer
  <2>4. \A b \in Agents : b # Peer(i) => outbox'[b] = outbox[b]
    BY <2>1 DEF ServerSend, TypeOK
  <2> QED BY <2>3, <2>4
<1>5. ASSUME NEW i \in Slots, GetCapabilities(i) \/ KillSessionError(i) \/ ProcessOperation(i)
      PROVE  GrantInv'
  <2>1. UNCHANGED <<pc, mainloop, sigpend, srv, agents>>
    BY <1>5 DEF GetCapabilities, KillSessionError, ProcessOperation, agentVars
  <2>2. \A b \in Agents : ByNcsid(b)' = ByNcsid(b)
    BY <2>1 DEF ByNcsid
  <2> QED BY <1>1, <1>4, <1>5, <2>1, <2>2
<1>6. ASSUME NEW i \in Slots, SetSession(i) PROVE GrantInv'
  <2>0. Read(i) /\ Req(i).op = "SET" /\ ServerSend(Peer(i), "SET", NoAgent)
        /\ UNCHANGED <<pc, mainloop, sigpend, srv>>
    BY <1>6 DEF SetSession, agentVars
  <2>1. PICK a \in Agents : a = Peer(i)
    BY <2>0, ReadRequest
  <2>2. Req(i) = inbox[a][1] /\ 1 \in DOMAIN inbox[a]
    BY <2>0, <2>1, ReadRequest
  <2>3. Req(i).ncsid = a
    BY <2>0, <2>2 DEF AnnounceInv, IsSet
  <2>4. PICK s : s.ncsid = a /\ agents' = agents \cup {s}
    BY <1>6, <2>3 DEF SetSession
  <2>5. ByNcsid(a)' # {} /\ \A b \in Agents : ByNcsid(b) # {} => ByNcsid(b)' # {}
    BY <2>4 DEF ByNcsid
  <2>6. \A b \in Agents : b # a => outbox'[b] = outbox[b]
    BY <2>0, <2>1 DEF ServerSend, TypeOK
  <2> QED BY <1>1, <2>0, <2>5, <2>6
<1>7. ASSUME NEW i \in Slots, CloseSession(i) PROVE GrantInv'
  <2>0. Read(i) /\ Req(i).op = "CLOSE" /\ UNCHANGED <<pc, mainloop, sigpend, srv>>
    BY <1>7 DEF CloseSession, agentVars
  <2>1. Peer(i) \in Agents /\ Req(i) = inbox[Peer(i)][1] /\ 1 \in DOMAIN inbox[Peer(i)]
    BY <2>0, ReadRequest
  <2>2. pc[Peer(i)] \in {"close", "exited"}
    BY <2>0, <2>1 DEF StreamInv, Stream
  <2>3. \A b \in Agents : b # Peer(i) => outbox'[b] = outbox[b]
    BY <1>7 DEF CloseSession, ServerSend, TypeOK
  <2>4. \A s \in agents : s.ncsid # Peer(i) => s \in agents'
    BY <1>7, <2>0, RecordOfPeer DEF CloseSession, SrvAgentStop
  <2>5. \A b \in Agents : b # Peer(i) /\ ByNcsid(b) # {} => ByNcsid(b)' # {}
    BY <2>4 DEF ByNcsid
  <2> QED BY <1>1, <2>0, <2>2, <2>3, <2>5
<1>8. ASSUME NEW i \in Slots, KillSession(i) PROVE GrantInv'
  <2>0. UNCHANGED <<pc, mainloop, srv>>
    BY <1>8 DEF KillSession
  <2>1. PICK s \in agents : SrvAgentKill(s)
    BY <1>8 DEF KillSession, ByNcsid
  <2>2. s.ncsid \in Agents /\ s.pid = PidOf[s.ncsid]
    BY RecordedPid
  <2>3. /\ agents' = agents \ {s}
        /\ sigpend' = [b \in Agents |-> sigpend[b] \/ (Running(b) /\ PidOf[b] = s.pid)]
    BY <2>1 DEF SrvAgentKill, SrvAgentStop
  <2>4. \A b \in Agents : sigpend[b] => sigpend'[b]
    BY <2>3
  <2>5. \A b \in Agents : b # s.ncsid /\ ByNcsid(b) # {} => ByNcsid(b)' # {}
    BY <2>3 DEF ByNcsid
  <2>6. ByNcsid(s.ncsid) # {} => pc[s.ncsid] \notin {"new", "caps", "accepting"}
    BY <2>2 DEF AnnounceInv, Unannounced, ByNcsid
  <2>7. \A b \in Agents : b = s.ncsid /\ pc[b] # "exited" /\ ByNcsid(b) # {} => sigpend'[b]
    BY <2>2, <2>3, <2>6 DEF Running
  <2> QED BY <1>1, <1>4, <1>8, <2>0, <2>4, <2>5, <2>7
<1> QED BY <1>2, <1>3, <1>5, <1>6, <1>7, <1>8 DEF ServerStep, Serve

\* What was granted is kept for ever.
LEMMA GrantsInductive == ASSUME PidsFit PROVE Spec => []GrantInv
<1>1. Init => GrantInv
  BY DEF Init, GrantInv, Granted
<1>2. SInv /\ GrantInv /\ [Next]_vars => GrantInv'
  <2> SUFFICES ASSUME SInv, GrantInv, [Next]_vars PROVE GrantInv'
    OBVIOUS
  <2>1. CASE UNCHANGED vars
    BY <2>1 DEF vars, agentVars, sockVars, serverVars, GrantInv, Granted, ByNcsid
  <2> QED BY <2>1, AgentGrants, ServerGrants DEF Next
<1> QED BY <1>1, <1>2, StreamsInductive, PTL DEF Spec

\* An agent that serves its client without a session has been told to
\* terminate, as long as its PID survives the 16 bits in which it is sent.
THEOREM KilledAreSignalled == ASSUME PidsFit PROVE Spec => []KilledIsSignalled
<1>1. GrantInv => KilledIsSignalled
  BY DEF GrantInv, Granted, KilledIsSignalled
<1> QED BY <1>1, GrantsInductive, PTL

-----------------------------------------------------------------------------
(* The registry                                                            *)

\* Agents that live at the same time have different PIDs.
LivePids == \A a, b \in Agents : Running(a) /\ Running(b) /\ PidOf[a] = PidOf[b] => a = b

\* Only connect() is the start of a process: whoever lives after a step lived
\* before it.
LEMMA Births ==
    ASSUME TypeOK, [Next]_vars
    PROVE  \A b \in Agents : Running(b)' => Running(b) \/ Connect(b)
<1> SUFFICES ASSUME NEW b \in Agents, Running(b)', ~Running(b) PROVE Connect(b)
  OBVIOUS
<1>1. pc[b] \in {"new", "exited"} /\ pc'[b] \notin {"new", "exited"}
  BY DEF Running
<1>2. ~UNCHANGED pc
  BY <1>1
<1>3. PICK a \in Agents : AgentStep(a) \/ ClientStep(a) \/ Crash(a)
  BY <1>2 DEF Next, vars, agentVars, Signal, ServerStep, Serve, Poll, HangUp, GetCapabilities,
     SetSession, CloseSession, KillSessionError, KillSession, ProcessOperation, ScanDone, AcceptDone,
     Accept, AcceptFails, ServerStop, ServerSignal, ServerDies, ServerExits
<1>4. CASE SessionInfo(a) \/ Leave(a) \/ Operation(a) \/ Cleanup(a)
           \/ \E c \in Victims : RequestKill(a, c)
  <2>1. pc[a] \notin {"new", "exited"} /\ \E p : Goto(a, p)
    BY <1>4 DEF SessionInfo, Leave, Operation, Cleanup, RequestKill
  <2> QED BY <1>1, <2>1 DEF Goto, TypeOK
<1>5. CASE RecvReply(a) \/ RecvFails(a) \/ HandleSignal(a) \/ Crash(a)
  <2>1. pc[a] \notin {"new", "exited"} /\ (UNCHANGED pc \/ \E p : Goto(a, p))
    BY <1>5 DEF RecvReply, RecvFails, HandleSignal, Crash, Exit, Running, Waiting
  <2> QED BY <1>1, <2>1 DEF Goto, TypeOK
<1>6. CASE Connect(a) \/ ConnectFails(a)
  <2>1. a = b
    BY <1>1, <1>6 DEF Connect, ConnectFails, Goto, TypeOK
  <2> QED BY <1>1, <1>6, <2>1 DEF ConnectFails, Goto, TypeOK
<1> QED BY <1>3, <1>4, <1>5, <1>6 DEF AgentStep, ClientStep

\* The kernel keeps the PIDs of living agents apart.
LEMMA LiveStep ==
    ASSUME TypeOK, LivePids, [Next]_vars
    PROVE  LivePids'
<1> SUFFICES ASSUME NEW a \in Agents, NEW b \in Agents, Running(a)', Running(b)',
                    PidOf[a] = PidOf[b]
             PROVE  a = b
  BY DEF LivePids
<1>1. ASSUME NEW c \in Agents, Connect(c), NEW d \in Agents, Running(d)', d # c
      PROVE  PidOf[d] # PidOf[c]
  <2>1. Running(d)
    BY <1>1 DEF Connect, Goto, TypeOK, Running
  <2> QED BY <1>1, <2>1 DEF Connect, PidFree
<1>2. /\ Running(a) \/ Connect(a)
      /\ Running(b) \/ Connect(b)
  BY Births
<1> QED BY <1>1, <1>2 DEF LivePids

\* What the registry sees of an agent that is told to terminate.
Told(a) == PhaseOf(a) # "left" /\ (sigpend[a] \/ mainloop[a])

\* A step that the registry does not see in an agent.
Same(a) == PhaseOf(a)' = PhaseOf(a) /\ SessOf(a)' = SessOf(a) /\ Told(a)' = Told(a)

\* A step that changes one agent, or none, in a way that the registry allows.
LEMMA OneAgent ==
    ASSUME NEW a \in Agents, \A b \in Agents : b # a => Same(b),
           UNCHANGED srv,
           \/ Same(a)
           \/ /\ srv = "up" /\ SessOf(a) = "none" /\ SessOf(a)' = "open"
              /\ PhaseOf(a)' = PhaseOf(a) /\ Told(a)' = Told(a)
           \/ /\ SessOf(a) = "open" \/ Told(a) \/ srv # "up"
              /\ PhaseOf(a) = "new" /\ PhaseOf(a)' = "serving"
              /\ SessOf(a)' = SessOf(a) /\ Told(a)' = Told(a)
           \/ /\ PhaseOf(a) # "left" /\ PhaseOf(a)' = "left"
              /\ SessOf(a)' = SessOf(a) \/ (SessOf(a) = "none" /\ SessOf(a)' = "gone")
           \/ /\ srv = "up" /\ PhaseOf(a) = "left" /\ SessOf(a) = "open" /\ SessOf(a)' = "gone"
              /\ PhaseOf(a)' = PhaseOf(a) /\ Told(a)' = Told(a)
           \/ /\ PhaseOf(a) # "left" /\ ~Told(a) /\ Told(a)'
              /\ PhaseOf(a)' = PhaseOf(a) /\ SessOf(a)' = SessOf(a)
           \/ /\ srv # "up" /\ SessOf(a) = "none" /\ SessOf(a)' = "gone"
              /\ PhaseOf(a)' = PhaseOf(a) /\ Told(a)' = Told(a)
    PROVE  Registry!Next \/ UNCHANGED Registry!vars
<1> USE DEF Same
<1> DEFINE ph == [b \in Agents |-> PhaseOf(b)]
           se == [b \in Agents |-> SessOf(b)]
           to == [b \in Agents |-> /\ PhaseOf(b) # "left"
                                   /\ sigpend[b] \/ mainloop[b]]
<1>1. \A b \in Agents : Told(b) \in BOOLEAN /\ Told(b)' \in BOOLEAN
                        /\ to[b] = Told(b) /\ to'[b] = Told(b)'
  BY DEF Told
<1>2. /\ PhaseOf(a)' = PhaseOf(a) => ph' = ph
      /\ SessOf(a)' = SessOf(a) => se' = se
      /\ ph' = [ph EXCEPT ![a] = PhaseOf(a)']
      /\ se' = [se EXCEPT ![a] = SessOf(a)']
  OBVIOUS
<1>3. /\ Told(a)' = Told(a) => to' = to
      /\ to' = [to EXCEPT ![a] = Told(a)']
  BY DEF Told
<1>4. ph[a] = PhaseOf(a) /\ se[a] = SessOf(a) /\ to[a] = Told(a)
  BY DEF Told
<1>5. CASE Same(a)
  BY <1>2, <1>3, <1>5 DEF Registry!vars
<1>6. CASE /\ srv = "up" /\ SessOf(a) = "none" /\ SessOf(a)' = "open"
           /\ PhaseOf(a)' = PhaseOf(a) /\ Told(a)' = Told(a)
  <2>1. Registry!Open(a)
    BY <1>2, <1>3, <1>4, <1>6 DEF Registry!Open
  <2> QED BY <2>1 DEF Registry!Next
<1>7. CASE /\ SessOf(a) = "open" \/ Told(a) \/ srv # "up"
           /\ PhaseOf(a) = "new" /\ PhaseOf(a)' = "serving"
           /\ SessOf(a)' = SessOf(a) /\ Told(a)' = Told(a)
  <2>1. Registry!Begin(a)
    BY <1>2, <1>3, <1>4, <1>7 DEF Registry!Begin
  <2> QED BY <2>1 DEF Registry!Next
<1>8. CASE /\ PhaseOf(a) # "left" /\ PhaseOf(a)' = "left"
           /\ SessOf(a)' = SessOf(a) \/ (SessOf(a) = "none" /\ SessOf(a)' = "gone")
  <2>0. Told(a)' = FALSE
    BY <1>8 DEF Told
  <2>1. Registry!Leave(a)
    BY <1>2, <1>3, <1>4, <1>8, <2>0 DEF Registry!Leave
  <2> QED BY <2>1 DEF Registry!Next
<1>9. CASE /\ srv = "up" /\ PhaseOf(a) = "left" /\ SessOf(a) = "open" /\ SessOf(a)' = "gone"
           /\ PhaseOf(a)' = PhaseOf(a) /\ Told(a)' = Told(a)
  <2>1. Registry!Close(a)
    BY <1>2, <1>3, <1>4, <1>9 DEF Registry!Close, Registry!Stop
  <2> QED BY <2>1 DEF Registry!Next
<1>10. CASE /\ PhaseOf(a) # "left" /\ ~Told(a) /\ Told(a)'
            /\ PhaseOf(a)' = PhaseOf(a) /\ SessOf(a)' = SessOf(a)
  <2>0. Told(a)' = TRUE
    BY <1>1, <1>10
  <2>1. Registry!Signal(a)
    BY <1>2, <1>3, <1>4, <1>10, <2>0 DEF Registry!Signal
  <2> QED BY <2>1 DEF Registry!Next
<1>11. CASE /\ srv # "up" /\ SessOf(a) = "none" /\ SessOf(a)' = "gone"
            /\ PhaseOf(a)' = PhaseOf(a) /\ Told(a)' = Told(a)
  <2>1. Registry!Forget(a)
    BY <1>2, <1>3, <1>4, <1>11 DEF Registry!Forget
  <2> QED BY <2>1 DEF Registry!Next
<1> QED BY <1>5, <1>6, <1>7, <1>8, <1>9, <1>10, <1>11

\* The session of an agent: it is recorded, not asked for or asked for and not
\* recorded yet, or gone.
Sess(a) == IF ByNcsid(a) # {} THEN "open"
           ELSE IF pc[a] \in Unannounced \/ Announces(a) THEN "none" ELSE "gone"

\* It is what the registry sees of the session.
LEMMA SessIs == \A a \in Agents : SessOf(a) = Sess(a)
BY DEF SessOf, Sess, Unannounced

\* The same after a step.
LEMMA SessNext == \A a \in Agents : SessOf(a)' = Sess(a)'
<1>1. TRUE => (\A a \in Agents : SessOf(a) = Sess(a))'
  BY SessIs, PTL
<1> QED BY <1>1

\* An agent that moves, for the registry: it stays where it is, begins to
\* serve, or leaves.
LEMMA MoveRefines ==
    ASSUME NEW a \in Agents,
           \A b \in Agents : b # a => pc'[b] = pc[b] /\ sigpend'[b] = sigpend[b]
                                      /\ mainloop'[b] = mainloop[b],
           UNCHANGED <<srv, agents>>,
           \A b \in Agents : Announces(b)' <=> Announces(b),
           \/ /\ PhaseOf(a)' = PhaseOf(a) /\ (pc'[a] \in Unannounced <=> pc[a] \in Unannounced)
              /\ PhaseOf(a) = "left" \/ (sigpend[a] \/ mainloop[a] => sigpend'[a] \/ mainloop'[a])
           \/ /\ pc[a] = "set" /\ pc'[a] = "ready" /\ UNCHANGED <<sigpend, mainloop>>
              /\ ByNcsid(a) # {} \/ sigpend[a] \/ mainloop[a] \/ srv # "up"
           \/ PhaseOf(a) # "left" /\ PhaseOf(a)' = "left"
    PROVE  Registry!Next \/ UNCHANGED Registry!vars
<1>0. /\ \A b \in Agents : SessOf(b) = Sess(b) /\ SessOf(b)' = Sess(b)'
      /\ \A b \in Agents : Told(b) \in BOOLEAN /\ Told(b)' \in BOOLEAN
      /\ \A b \in Agents : ByNcsid(b)' = ByNcsid(b)
  BY SessIs, SessNext DEF Told, ByNcsid
<1>1. \A b \in Agents : b # a => Same(b)
  <2> SUFFICES ASSUME NEW b \in Agents, b # a PROVE Same(b)
    OBVIOUS
  <2>1. PhaseOf(b)' = PhaseOf(b) /\ Told(b)' = Told(b)
    BY DEF PhaseOf, Told
  <2>2. Sess(b)' = Sess(b)
    BY <1>0 DEF Sess
  <2> QED BY <1>0, <2>1, <2>2 DEF Same
<1>2. CASE /\ PhaseOf(a)' = PhaseOf(a) /\ (pc'[a] \in Unannounced <=> pc[a] \in Unannounced)
           /\ PhaseOf(a) = "left" \/ (sigpend[a] \/ mainloop[a] => sigpend'[a] \/ mainloop'[a])
  <2>1. SessOf(a)' = SessOf(a)
    BY <1>0, <1>2 DEF Sess
  <2>2. CASE Told(a)' = Told(a)
    BY <1>1, <1>2, <2>1, <2>2, OneAgent DEF Same
  <2>3. CASE Told(a)' # Told(a)
    <3>1. PhaseOf(a) # "left" /\ ~Told(a) /\ Told(a)'
      BY <1>0, <1>2, <2>3 DEF Told
    <3> QED BY <1>1, <1>2, <2>1, <3>1, OneAgent
  <2> QED BY <2>2, <2>3
<1>3. CASE /\ pc[a] = "set" /\ pc'[a] = "ready" /\ UNCHANGED <<sigpend, mainloop>>
           /\ ByNcsid(a) # {} \/ sigpend[a] \/ mainloop[a] \/ srv # "up"
  <2>1. PhaseOf(a) = "new" /\ PhaseOf(a)' = "serving"
    BY <1>3 DEF PhaseOf
  <2>2. SessOf(a)' = SessOf(a) /\ (ByNcsid(a) # {} => SessOf(a) = "open")
    BY <1>0, <1>3 DEF Sess, Unannounced
  <2>3. Told(a)' = Told(a) /\ (sigpend[a] \/ mainloop[a] => Told(a))
    BY <1>3, <2>1 DEF Told
  <2> QED BY <1>1, <1>3, <2>1, <2>2, <2>3, OneAgent
<1>4. CASE PhaseOf(a) # "left" /\ PhaseOf(a)' = "left"
  <2>1. pc'[a] \notin Unannounced
    BY <1>4 DEF PhaseOf, Unannounced
  <2>2. SessOf(a)' = SessOf(a) \/ (SessOf(a) = "none" /\ SessOf(a)' = "gone")
    BY <1>0, <2>1 DEF Sess
  <2> QED BY <1>1, <1>4, <2>2, OneAgent
<1> QED BY <1>2, <1>3, <1>4

\* A request is nothing to the registry, but for the announcement of a session
\* to a server that is not there.
LEMMA SendRefines ==
    ASSUME SInv, NEW a \in Agents,
           NEW from \in {"accepting", "ready", "cleanup"}, NEW to \in Waiting,
           NEW m \in Request, Sends(a, from, to, m), m.op = Answer(to),
           from = "accepting" => to = "set",
           from = "ready" => to \in {"op", "kill"},
           from = "cleanup" => to = "close"
    PROVE  Registry!Next \/ UNCHANGED Registry!vars
<1> USE DEF SInv, IInv
<1>0. /\ \A b \in Agents : b # a => pc'[b] = pc[b] /\ inbox'[b] = inbox[b]
      /\ pc[a] = from /\ pc'[a] = to
      /\ UNCHANGED <<mainloop, sigpend, srv, agents>>
  BY DEF Sends, AgentSend, Goto, TypeOK, serverVars
<1>1. m.op = "SET" <=> to = "set"
  BY DEF Answer, Waiting
<1>2. \A b \in Agents : b # a => (Announces(b)' <=> Announces(b))
  BY <1>0 DEF Announces
<1>3. /\ ServerEnd(a) => (Announces(a)' <=> Announces(a) \/ to = "set")
      /\ ~ServerEnd(a) => (Announces(a)' <=> Announces(a))
  <2>1. CASE ~ServerEnd(a)
    BY <2>1 DEF Sends, AgentSend, Announces
  <2>2. CASE ServerEnd(a)
    <3>0. inbox[a] \in Seq(Request)
      BY DEF TypeOK
    <3>1. inbox'[a] = Append(inbox[a], m)
      BY <2>2 DEF Sends, AgentSend, TypeOK
    <3>2. /\ Len(inbox[a]) \in Nat
          /\ DOMAIN inbox[a] = 1..Len(inbox[a]) /\ DOMAIN inbox'[a] = 1..(Len(inbox[a]) + 1)
          /\ \A k \in 1..Len(inbox[a]) : inbox'[a][k] = inbox[a][k]
          /\ inbox'[a][Len(inbox[a]) + 1] = m
      BY <3>0, <3>1, Pushed
    <3>3. /\ \A k \in DOMAIN inbox'[a] : k \in DOMAIN inbox[a] \/ k = Len(inbox[a]) + 1
          /\ \A k \in DOMAIN inbox[a] : k \in DOMAIN inbox'[a] /\ inbox'[a][k] = inbox[a][k]
          /\ Len(inbox[a]) + 1 \in DOMAIN inbox'[a]
      BY <3>2
    <3>4. Announces(a)' <=> Announces(a) \/ m.op = "SET"
      BY <3>2, <3>3 DEF Announces
    <3> QED BY <1>1, <2>2, <3>4
  <2> QED BY <2>1, <2>2
<1>4. PhaseOf(a)' = PhaseOf(a)
  <2>1. CASE from = "ready"
    BY <1>0, <2>1 DEF PhaseOf
  <2>2. CASE from = "accepting"
    BY <1>0, <2>2 DEF PhaseOf
  <2>3. CASE from = "cleanup"
    BY <1>0, <2>3 DEF PhaseOf
  <2> QED BY <2>1, <2>2, <2>3
<1>5. CASE from # "accepting"
  <2>1. to # "set" /\ pc[a] \notin Unannounced /\ pc'[a] \notin Unannounced
    BY <1>0, <1>5 DEF Unannounced
  <2>2. \A b \in Agents : Announces(b)' <=> Announces(b)
    BY <1>2, <1>3, <2>1
  <2> QED BY <1>0, <1>4, <2>1, <2>2, MoveRefines
<1>6. CASE from = "accepting"
  <2>1. to = "set" /\ pc[a] \in Unannounced /\ pc'[a] \notin Unannounced
    BY <1>0, <1>6 DEF Unannounced
  <2>2. ByNcsid(a) = {} /\ ~Announces(a)
    BY <2>1 DEF AnnounceInv, IsSet, Announces, ByNcsid
  <2>3. /\ \A b \in Agents : SessOf(b) = Sess(b) /\ SessOf(b)' = Sess(b)'
        /\ \A b \in Agents : ByNcsid(b)' = ByNcsid(b)
    BY <1>0, SessIs, SessNext DEF ByNcsid
  <2>4. \A b \in Agents : b # a => Same(b)
    <3> SUFFICES ASSUME NEW b \in Agents, b # a PROVE Same(b)
      OBVIOUS
    <3>1. PhaseOf(b)' = PhaseOf(b) /\ Told(b)' = Told(b)
      BY <1>0 DEF PhaseOf, Told
    <3>2. Sess(b)' = Sess(b)
      BY <1>0, <1>2, <2>3 DEF Sess
    <3> QED BY <2>3, <3>1, <3>2 DEF Same
  <2>5. Told(a)' = Told(a)
    BY <1>0, <1>4 DEF Told
  <2>6. SessOf(a) = "none"
    BY <2>1, <2>2, <2>3 DEF Sess
  <2>7. CASE ServerEnd(a)
    <3>1. SessOf(a)' = "none"
      BY <1>3, <2>1, <2>2, <2>3, <2>7 DEF Sess
    <3> QED BY <1>0, <1>4, <2>4, <2>5, <2>6, <3>1, OneAgent DEF Same
  <2>8. CASE ~ServerEnd(a)
    <3>1. srv # "up"
      BY <1>0, <1>6, <2>8 DEF StreamInv, Stream
    <3>2. SessOf(a)' = "gone"
      BY <1>3, <2>1, <2>2, <2>3, <2>8 DEF Sess
    <3> QED BY <1>0, <1>4, <2>4, <2>5, <2>6, <3>1, <3>2, OneAgent
  <2> QED BY <2>7, <2>8
<1> QED BY <1>5, <1>6

\* Every step of an agent is a step of the registry, or nothing to it.
LEMMA AgentRefines ==
    ASSUME SInv, GrantInv, NEW a \in Agents,
           AgentStep(a) \/ ClientStep(a) \/ Signal(a) \/ Crash(a)
    PROVE  Registry!Next \/ UNCHANGED Registry!vars
<1> USE DEF SInv, IInv
<1>1. CASE \/ SessionInfo(a) \/ Operation(a) \/ Cleanup(a)
           \/ \E b \in Victims : RequestKill(a, b)
  BY <1>1, SendCases, SendRefines
<1>2. CASE Connect(a)
  <2>1. /\ \A b \in Agents : b # a => pc'[b] = pc[b] /\ inbox'[b] = inbox[b]
        /\ UNCHANGED <<sigpend, mainloop, srv, agents>>
        /\ pc[a] = "new" /\ pc'[a] = "caps" /\ inbox'[a] = <<Message("CAPS", NoAgent, 0)>>
    BY <1>2 DEF Connect, Goto, TypeOK, serverVars
  <2>2. Announces(a)' <=> Announces(a)
    <3>1. ~Announces(a)
      BY <2>1 DEF Announces, AnnounceInv, IsSet, Unannounced
    <3>2. Message("CAPS", NoAgent, 0).op # "SET"
      BY DEF Message
    <3>3. ~Announces(a)'
      BY <2>1, <3>2 DEF Announces
    <3> QED BY <3>1, <3>3
  <2>3. \A b \in Agents : Announces(b)' <=> Announces(b)
    BY <2>1, <2>2 DEF Announces
  <2>4. PhaseOf(a)' = PhaseOf(a) /\ pc'[a] \in Unannounced /\ pc[a] \in Unannounced
    BY <2>1 DEF PhaseOf, Unannounced
  <2> QED BY <2>1, <2>3, <2>4, MoveRefines
<1>3. CASE \/ ConnectFails(a) \/ Leave(a) \/ RecvReply(a) \/ RecvFails(a)
           \/ HandleSignal(a) \/ Signal(a) \/ Crash(a)
  <2>0. /\ Moves(a)
        /\ pc'[a] # "exited" /\ sigpend[a] => sigpend'[a] \/ mainloop'[a]
    BY <1>3, MoveCases
  <2>1. /\ \A b \in Agents : b # a => pc'[b] = pc[b] /\ sigpend'[b] = sigpend[b]
                                      /\ mainloop'[b] = mainloop[b]
        /\ UNCHANGED <<srv, agents>>
        /\ \A b \in Agents : Announces(b)' <=> Announces(b)
    BY <2>0 DEF Moves, serverVars, Announces
  <2>2. pc[a] \in Places /\ pc'[a] \in Places
    <3>1. pc' \in [Agents -> Places]
      BY AgentTypes DEF TypeOK, Places
    <3> QED BY <3>1 DEF TypeOK, Places
  <2>3. CASE pc'[a] \in {"cleanup", "close", "exited"}
    <3>1. PhaseOf(a)' = "left" /\ pc'[a] \notin Unannounced
      BY <2>3 DEF PhaseOf, Unannounced
    <3>2. CASE PhaseOf(a) = "left"
      <4>1. pc[a] \notin Unannounced
        BY <3>2 DEF PhaseOf, Unannounced
      <4> QED BY <2>1, <3>1, <3>2, <4>1, MoveRefines
    <3>3. CASE PhaseOf(a) # "left"
      BY <2>1, <3>1, <3>3, MoveRefines
    <3> QED BY <3>2, <3>3
  <2>4. CASE pc'[a] = pc[a]
    <3>1. PhaseOf(a)' = PhaseOf(a) /\ (pc'[a] \in Unannounced <=> pc[a] \in Unannounced)
      BY <2>4 DEF PhaseOf
    <3>2. PhaseOf(a) = "left" \/ (sigpend[a] \/ mainloop[a] => sigpend'[a] \/ mainloop'[a])
      <4>1. pc[a] = "exited" => PhaseOf(a) = "left"
        BY DEF PhaseOf
      <4> QED BY <2>0, <2>4, <4>1 DEF Moves
    <3> QED BY <2>1, <3>1, <3>2, MoveRefines
  <2>5. CASE pc'[a] # pc[a] /\ pc'[a] \notin {"cleanup", "close", "exited"}
    <3>1. /\ pc[a] \in Waiting
          /\ pc'[a] \in {OkTo(pc[a]), FailTo(pc[a])}
          /\ pc[a] = "set" => pc'[a] = "ready" /\ outbox[a] # <<>>
      BY <2>0, <2>5 DEF Moves, OkTo, FailTo
    <3>2. CASE pc[a] = "set"
      <4>1. pc'[a] = "ready" /\ outbox[a] # <<>> /\ UNCHANGED <<sigpend, mainloop>>
        <5>1. ~HandleSignal(a) /\ ~Signal(a) /\ ~Crash(a)
          <6>1. ~Signal(a) /\ ~Crash(a)
            BY <2>5 DEF Signal, Crash, Exit, Goto, TypeOK
          <6>2. HandleSignal(a) => pc'[a] \in {pc[a], FailTo(pc[a]), "exited"}
            BY DEF HandleSignal, Exit, Goto, TypeOK
          <6>3. FailTo("set") = "cleanup"
            BY DEF FailTo
          <6> QED BY <2>5, <3>2, <6>1, <6>2, <6>3
        <5>2. ConnectFails(a) \/ Leave(a) \/ RecvReply(a) \/ RecvFails(a)
          BY <1>3, <5>1
        <5>3. UNCHANGED mainloop
          BY <5>2 DEF ConnectFails, Leave, RecvReply, RecvFails
        <5>4. UNCHANGED sigpend
          BY <2>5, <5>2 DEF ConnectFails, Leave, RecvReply, RecvFails, DropIfExited, Goto, TypeOK
        <5> QED BY <3>1, <3>2, <5>3, <5>4
      <4>2. ByNcsid(a) # {} \/ sigpend[a] \/ mainloop[a] \/ srv # "up"
        BY <3>2, <4>1 DEF GrantInv, Granted
      <4> QED BY <2>1, <3>2, <4>1, <4>2, MoveRefines
    <3>3. CASE pc[a] # "set"
      <4>1. \/ pc[a] = "caps" /\ pc'[a] = "accepting"
            \/ pc[a] \in {"op", "kill"} /\ pc'[a] = "ready"
        BY <2>5, <3>1, <3>3 DEF OkTo, FailTo, Waiting
      <4>2. PhaseOf(a)' = PhaseOf(a) /\ (pc'[a] \in Unannounced <=> pc[a] \in Unannounced)
        BY <4>1 DEF PhaseOf, Unannounced
      <4>3. sigpend[a] \/ mainloop[a] => sigpend'[a] \/ mainloop'[a]
        BY <2>0, <2>5 DEF Moves
      <4> QED BY <2>1, <4>2, <4>3, MoveRefines
    <3> QED BY <3>2, <3>3
  <2> QED BY <2>3, <2>4, <2>5
<1> QED BY <1>1, <1>2, <1>3 DEF AgentStep, ClientStep

\* Every step of the server is a step of the registry, or nothing to it.
LEMMA ServerRefines ==
    ASSUME PidsFit, LivePids, SInv, SInv', ServerStep \/ ServerSignal \/ ServerDies
    PROVE  Registry!Next \/ UNCHANGED Registry!vars
<1> USE DEF SInv, IInv
<1>0. \A b \in Agents : SessOf(b) = Sess(b) /\ SessOf(b)' = Sess(b)'
  BY SessIs, SessNext
<1>1. ASSUME UNCHANGED <<pc, sigpend, mainloop>>
      PROVE  \A b \in Agents : PhaseOf(b)' = PhaseOf(b) /\ Told(b)' = Told(b)
  BY <1>1 DEF PhaseOf, Told
<1>2. ASSUME UNCHANGED <<pc, sigpend, mainloop, srv>>, NEW a \in Agents,
             \A b \in Agents : b # a => Sess(b)' = Sess(b),
             \/ Sess(a)' = Sess(a)
             \/ srv = "up" /\ Sess(a) = "none" /\ Sess(a)' = "open"
             \/ srv = "up" /\ PhaseOf(a) = "left" /\ Sess(a) = "open" /\ Sess(a)' = "gone"
      PROVE  Registry!Next \/ UNCHANGED Registry!vars
  BY <1>0, <1>1, <1>2, OneAgent DEF Same
<1>3. CASE Poll \/ ScanDone \/ AcceptDone \/ Accept \/ ServerSignal \/ \E i \in Slots : HangUp(i)
  <2>1. UNCHANGED <<pc, sigpend, mainloop, srv, agents, inbox>>
    BY <1>3 DEF Poll, ScanDone, AcceptDone, Accept, ServerSignal, HangUp, agentVars, sockVars
  <2>2. \A b \in Agents : Same(b)
    <3>1. \A b \in Agents : Sess(b)' = Sess(b)
      BY <2>1 DEF Sess, ByNcsid, Announces
    <3> QED BY <1>0, <1>1, <2>1, <3>1 DEF Same
  <2>3. /\ [c \in Agents |-> PhaseOf(c)]' = [c \in Agents |-> PhaseOf(c)]
        /\ [c \in Agents |-> SessOf(c)]' = [c \in Agents |-> SessOf(c)]
    BY <2>2 DEF Same
  <2>4. [c \in Agents |-> /\ PhaseOf(c) # "left"
                          /\ sigpend[c] \/ mainloop[c]]'
        = [c \in Agents |-> /\ PhaseOf(c) # "left"
                            /\ sigpend[c] \/ mainloop[c]]
    BY <2>1 DEF PhaseOf
  <2> QED BY <2>1, <2>3, <2>4 DEF Registry!vars
<1>4. ASSUME NEW i \in Slots, Read(i), Consume(i)
      PROVE  /\ \A b \in Agents : b # Peer(i) => (Announces(b)' <=> Announces(b))
             /\ Announces(Peer(i)) =>
                   Req(i).op = "SET" \/ \E k \in DOMAIN inbox'[Peer(i)] : inbox'[Peer(i)][k].op = "SET"
             /\ (\E k \in DOMAIN inbox'[Peer(i)] : inbox'[Peer(i)][k].op = "SET")
                   => Announces(Peer(i))
  <2>0. PICK a \in Agents : a = Peer(i)
    BY <1>4, ReadRequest
  <2>1. inbox[a] \in Seq(Request) /\ inbox[a] # <<>> /\ Req(i) = inbox[a][1]
    BY <1>4, <2>0, ReadRequest
  <2>2. inbox'[a] = Tail(inbox[a]) /\ \A b \in Agents : b # a => inbox'[b] = inbox[b]
    BY <1>4, <2>0 DEF Consume, TypeOK
  <2>3. /\ DOMAIN inbox[a] = 1..Len(inbox[a]) /\ Len(inbox[a]) \in Nat
        /\ DOMAIN inbox'[a] = 1..(Len(inbox[a]) - 1)
        /\ \A k \in DOMAIN inbox'[a] : inbox'[a][k] = inbox[a][k + 1]
    BY <2>1, <2>2, Popped
  <2>4. \A k \in DOMAIN inbox'[a] : k + 1 \in DOMAIN inbox[a]
    BY <2>3
  <2>5. \A k \in DOMAIN inbox[a] : k = 1 \/ (k - 1 \in DOMAIN inbox'[a] /\ (k - 1) + 1 = k)
    BY <2>3
  <2>6. \A b \in Agents : b # a => (Announces(b)' <=> Announces(b))
    BY <2>2 DEF Announces
  <2>7. /\ Announces(a) =>
             Req(i).op = "SET" \/ \E k \in DOMAIN inbox'[a] : inbox'[a][k].op = "SET"
        /\ (\E k \in DOMAIN inbox'[a] : inbox'[a][k].op = "SET") => Announces(a)
    BY <2>1, <2>3, <2>4, <2>5 DEF Announces
  <2> QED BY <2>0, <2>6, <2>7
<1>5. ASSUME NEW i \in Slots, GetCapabilities(i) \/ KillSessionError(i) \/ ProcessOperation(i)
      PROVE  Registry!Next \/ UNCHANGED Registry!vars
  <2>1. /\ Read(i) /\ Consume(i) /\ Req(i).op # "SET"
        /\ UNCHANGED <<pc, sigpend, mainloop, srv, agents>>
    BY <1>5 DEF GetCapabilities, KillSessionError, ProcessOperation, agentVars
  <2>2. PICK a \in Agents : a = Peer(i)
    BY <2>1, ReadRequest
  <2>3. \A b \in Agents : Announces(b)' <=> Announces(b)
    <3>1. Announces(a)' <=> Announces(a)
      BY <1>4, <2>1, <2>2 DEF Announces
    <3> QED BY <1>4, <2>1, <2>2, <3>1
  <2>4. \A b \in Agents : Sess(b)' = Sess(b)
    BY <2>1, <2>3 DEF Sess, ByNcsid
  <2> QED BY <1>2, <2>1, <2>2, <2>4
<1>6. ASSUME NEW i \in Slots, SetSession(i)
      PROVE  Registry!Next \/ UNCHANGED Registry!vars
  <2>1. /\ Read(i) /\ Consume(i) /\ Req(i).op = "SET"
        /\ UNCHANGED <<pc, sigpend, mainloop, srv>> /\ srv = "up"
    BY <1>6 DEF SetSession, agentVars, Read, At
  <2>2. PICK a \in Agents : a = Peer(i)
    BY <2>1, ReadRequest
  <2>3. Req(i) = inbox[a][1] /\ 1 \in DOMAIN inbox[a]
    BY <2>1, <2>2, ReadRequest
  <2>4. Req(i).ncsid = a /\ ByNcsid(a) = {} /\ Announces(a)
    BY <2>1, <2>3 DEF AnnounceInv, IsSet, Announces, ByNcsid
  <2>5. PICK s : s.ncsid = a /\ agents' = agents \cup {s}
    BY <1>6, <2>4 DEF SetSession
  <2>6. ByNcsid(a)' # {} /\ \A b \in Agents : b # a => ByNcsid(b)' = ByNcsid(b)
    BY <2>5 DEF ByNcsid
  <2>7. Sess(a) = "none" /\ Sess(a)' = "open"
    BY <2>4, <2>6 DEF Sess
  <2>8. \A b \in Agents : b # a => (Announces(b)' <=> Announces(b))
    BY <1>4, <2>1, <2>2
  <2>9. \A b \in Agents : b # a => Sess(b)' = Sess(b)
    BY <2>1, <2>6, <2>8 DEF Sess
  <2> QED BY <1>2, <2>1, <2>7, <2>9
<1>7. ASSUME NEW i \in Slots, CloseSession(i)
      PROVE  Registry!Next \/ UNCHANGED Registry!vars
  <2>1. /\ Read(i) /\ CloseDescriptor(i) /\ Req(i).op = "CLOSE"
        /\ UNCHANGED <<pc, sigpend, mainloop, srv>> /\ srv = "up"
    BY <1>7 DEF CloseSession, agentVars, Read, At
  <2>2. PICK a \in Agents : a = Peer(i)
    BY <2>1, ReadRequest
  <2>3. /\ Req(i) = inbox[a][1] /\ 1 \in DOMAIN inbox[a] /\ inbox[a] \in Seq(Request)
    BY <2>1, <2>2, ReadRequest
  <2>4. pc[a] \in {"close", "exited"} /\ ~Announces(a)
    <3>1. \A l \in DOMAIN inbox[a] : inbox[a][l].op = "SET" => l < 1
      BY <2>1, <2>3 DEF StreamInv, Stream
    <3>2. \A l \in DOMAIN inbox[a] : ~(l < 1)
      BY <2>3
    <3> QED BY <2>1, <2>3, <3>1, <3>2 DEF StreamInv, Stream, Announces
  <2>5. PhaseOf(a) = "left" /\ pc[a] \notin Unannounced
    BY <2>4 DEF PhaseOf, Unannounced
  <2>6. inbox'[a] = <<>> /\ \A b \in Agents : b # a => inbox'[b] = inbox[b]
    BY <2>1, <2>2 DEF CloseDescriptor, TypeOK
  <2>7. ~Announces(a)' /\ \A b \in Agents : b # a => (Announces(b)' <=> Announces(b))
    BY <2>6 DEF Announces
  <2>8. \/ agents' = agents
        \/ \E s \in agents : s.ncsid = a /\ agents' = agents \ {s}
    BY <1>7, <2>1, <2>2, RecordOfPeer DEF CloseSession, SrvAgentStop
  <2>9. \A b \in Agents : b # a => ByNcsid(b)' = ByNcsid(b)
    BY <2>8 DEF ByNcsid
  <2>10. \A b \in Agents : b # a => Sess(b)' = Sess(b)
    BY <2>1, <2>7, <2>9 DEF Sess
  <2>11. CASE agents' = agents
    <3>1. Sess(a)' = Sess(a)
      BY <2>1, <2>4, <2>7, <2>11 DEF Sess, ByNcsid
    <3> QED BY <1>2, <2>1, <2>10, <3>1
  <2>12. ASSUME NEW s \in agents, s.ncsid = a, agents' = agents \ {s}
         PROVE  Registry!Next \/ UNCHANGED Registry!vars
    <3>1. ByNcsid(a) # {} /\ ByNcsid(a)' = {}
      BY <2>1, <2>12 DEF ByNcsid, SessionIdentity
    <3>2. Sess(a) = "open" /\ Sess(a)' = "gone"
      BY <2>1, <2>5, <2>7, <3>1 DEF Sess
    <3> QED BY <1>2, <2>1, <2>5, <2>10, <3>2
  <2> QED BY <2>8, <2>11, <2>12
<1>8. ASSUME NEW i \in Slots, KillSession(i)
      PROVE  Registry!Next \/ UNCHANGED Registry!vars
  <2>1. /\ Read(i) /\ Consume(i) /\ Req(i).op = "KILL" /\ ~KillRefused(i)
        /\ UNCHANGED <<pc, mainloop, srv>> /\ srv = "up"
    BY <1>8 DEF KillSession, Read, At
  <2>2. PICK s \in agents : s.ncsid = Req(i).ncsid /\ SrvAgentKill(s)
    BY <1>8 DEF KillSession, ByNcsid
  <2>3. PICK b \in Agents : b = s.ncsid /\ s.pid = PidOf[b]
    BY RecordedPid
  <2>4. PICK u \in agents : u.ncsid # b
    BY <2>1, <2>2, <2>3 DEF KillRefused, ByAgentId
  <2>5. PICK a \in Agents : a = u.ncsid /\ a # b
    BY <2>4, RecordedPid
  <2>6. /\ agents' = agents \ {s}
        /\ sigpend' = [d \in Agents |-> sigpend[d] \/ (Running(d) /\ PidOf[d] = PidOf[b])]
    BY <2>2, <2>3 DEF SrvAgentKill, SrvAgentStop
  <2>7. /\ ByNcsid(a) # {} /\ ByNcsid(b) # {} /\ ByNcsid(b)' = {}
        /\ \A c \in Agents : c # b => ByNcsid(c)' = ByNcsid(c)
    BY <2>1, <2>3, <2>5, <2>6 DEF ByNcsid, SessionIdentity
  <2>8. pc[b] \notin Unannounced /\ ~Announces(b)
    BY <2>3 DEF AnnounceInv, IsSet, Announces
  <2>9. \A c \in Agents : Announces(c)' <=> Announces(c)
    <3>0. PICK p \in Agents : p = Peer(i)
      BY <2>1, ReadRequest
    <3>1. Announces(p)' <=> Announces(p)
      BY <1>4, <2>1, <3>0 DEF Announces
    <3> QED BY <1>4, <2>1, <3>0, <3>1
  <2>10. SessOf(a) = "open" /\ SessOf(b) = "open"
    BY <1>0, <2>7 DEF Sess
  <2>11. \A c \in Agents : PhaseOf(c)' = PhaseOf(c)
    BY <2>1 DEF PhaseOf
  <2>12. \A c \in Agents : SessOf(c)' = IF c = b THEN "gone" ELSE SessOf(c)
    <3> SUFFICES ASSUME NEW c \in Agents PROVE Sess(c)' = IF c = b THEN "gone" ELSE Sess(c)
      BY <1>0
    <3> QED BY <2>1, <2>7, <2>8, <2>9 DEF Sess
  <2> DEFINE Hit(c) == Running(c) /\ PidOf[c] = PidOf[b] /\ PhaseOf(c) # "left"
             ph == [c \in Agents |-> PhaseOf(c)]
             se == [c \in Agents |-> SessOf(c)]
             to == [c \in Agents |-> /\ PhaseOf(c) # "left"
                                     /\ sigpend[c] \/ mainloop[c]]
  <2>13. \A c \in Agents : /\ to[c] \in BOOLEAN /\ to'[c] \in BOOLEAN
                           /\ to'[c] <=> to[c] \/ Hit(c)
    <3> SUFFICES ASSUME NEW c \in Agents PROVE to'[c] <=> to[c] \/ Hit(c)
      OBVIOUS
    <3>1. sigpend'[c] <=> sigpend[c] \/ (Running(c) /\ PidOf[c] = PidOf[b])
      BY <2>6
    <3> QED BY <2>1, <2>11, <3>1
  <2>14. \A c, d \in Agents : Hit(c) /\ Hit(d) => c = d
    BY DEF LivePids
  <2>15. PhaseOf(b) # "left" => Hit(b)
    BY <2>8 DEF PhaseOf, Running, Unannounced
  <2>16. ph' = ph /\ se' = [se EXCEPT ![b] = "gone"] /\ se[a] = "open" /\ se[b] = "open"
         /\ \A c \in Agents : ph[c] = PhaseOf(c)
    BY <2>10, <2>11, <2>12
  <2>17. \A c \in Agents : Hit(c) => to' = [to EXCEPT ![c] = TRUE] /\ ph[c] # "left"
    <3> SUFFICES ASSUME NEW c \in Agents, Hit(c)
                 PROVE  to' = [to EXCEPT ![c] = TRUE] /\ ph[c] # "left"
      OBVIOUS
    <3>1. \A d \in Agents : to'[d] = IF d = c THEN TRUE ELSE to[d]
      BY <2>13, <2>14
    <3>2. to' = [d \in Agents |-> to'[d]] /\ to = [d \in Agents |-> to[d]]
      OBVIOUS
    <3>3. ph[c] # "left"
      BY <2>16
    <3> HIDE DEF to, ph
    <3> QED BY <3>1, <3>2, <3>3
  <2>18. (\A c \in Agents : ~Hit(c)) => to' = to
    <3> SUFFICES ASSUME \A c \in Agents : ~Hit(c) PROVE to' = to
      OBVIOUS
    <3>1. \A d \in Agents : to'[d] = to[d]
      BY <2>13
    <3>2. to' = [d \in Agents |-> to'[d]] /\ to = [d \in Agents |-> to[d]]
      OBVIOUS
    <3> HIDE DEF to
    <3> QED BY <3>1, <3>2
  <2>19. Registry!Tell(b)
    <3>1. ph[b] = PhaseOf(b)
      BY <2>16
    <3>2. CASE ph[b] # "left"
      BY <2>15, <2>17, <3>1, <3>2 DEF Registry!Tell, Registry!TellAgent
    <3>3. CASE ph[b] = "left" /\ \A c \in Agents : ~Hit(c)
      BY <2>18, <3>3 DEF Registry!Tell
    <3>4. CASE ph[b] = "left" /\ \E c \in Agents : Hit(c)
      <4>1. PICK c \in Agents : Hit(c)
        BY <3>4
      <4>2. ph[c] # "left" /\ Registry!TellAgent(c)
        BY <2>17, <4>1 DEF Registry!TellAgent
      <4> QED BY <3>4, <4>2 DEF Registry!Tell
    <3> QED BY <3>2, <3>3, <3>4
  <2>20. Registry!Kill(a, b)
    BY <2>1, <2>5, <2>16, <2>19 DEF Registry!Kill, Registry!Stop
  <2> QED BY <2>20 DEF Registry!Next
<1>9. CASE AcceptFails \/ ServerStop \/ ServerDies
  <2>1. /\ inbox' = [a \in Agents |-> <<>>] /\ srv' # "up" /\ agents' \in {agents, {}}
        /\ UNCHANGED <<pc, mainloop, sigpend>>
    BY <1>9 DEF AcceptFails, CommDestroy, ServerStop, ServerDies, ServerExits, agentVars
  <2>2. \A b \in Agents : SessOf(b)' = SessOf(b) \/ SessOf(b)' = "gone"
    <3> SUFFICES ASSUME NEW b \in Agents PROVE Sess(b)' = Sess(b) \/ Sess(b)' = "gone"
      BY <1>0
    <3>1. ~Announces(b)' /\ (ByNcsid(b)' # {} => ByNcsid(b) # {})
      BY <2>1 DEF Announces, ByNcsid
    <3>2. pc[b] \in Unannounced => ByNcsid(b) = {}
      BY DEF AnnounceInv, ByNcsid
    <3> QED BY <2>1, <3>1, <3>2 DEF Sess
  <2> DEFINE S == {b \in Agents : SessOf(b)' = "gone"}
             se == [c \in Agents |-> SessOf(c)]
  <2>3. se' = [b \in Agents |-> IF b \in S THEN "gone" ELSE se[b]] /\ S \in SUBSET Agents
    BY <2>2
  <2>4. [c \in Agents |-> PhaseOf(c)]' = [c \in Agents |-> PhaseOf(c)]
    BY <2>1 DEF PhaseOf
  <2>5. [c \in Agents |-> /\ PhaseOf(c) # "left"
                          /\ sigpend[c] \/ mainloop[c]]'
        = [c \in Agents |-> /\ PhaseOf(c) # "left"
                            /\ sigpend[c] \/ mainloop[c]]
    BY <2>1 DEF PhaseOf
  <2>6. Registry!End
    <3> HIDE DEF S
    <3> QED BY <2>1, <2>3, <2>4, <2>5 DEF Registry!End
  <2> QED BY <2>6 DEF Registry!Next
<1> QED BY <1>3, <1>5, <1>6, <1>7, <1>8, <1>9 DEF ServerStep, Serve

\* The initial states are those of the registry.
LEMMA InitRefines == Init => Registry!Init
<1> SUFFICES ASSUME Init PROVE Registry!Init
  OBVIOUS
<1>1. \A a \in Agents : PhaseOf(a) = "new" /\ SessOf(a) = "none"
  BY DEF Init, PhaseOf, SessOf, ByNcsid
<1>2. [a \in Agents |-> /\ PhaseOf(a) # "left"
                        /\ sigpend[a] \/ mainloop[a]] = [a \in Agents |-> FALSE]
  BY DEF Init
<1>3. srv = "up"
  BY DEF Init
<1> QED BY <1>1, <1>2, <1>3 DEF Registry!Init

\* Whatever the order of requests, broken connections, signals and crashes, and
\* although sessions are found by descriptor numbers, and agents by PIDs, that
\* are used again, the sessions of the socket server behave as the registry
\* promises, as long as the PIDs fit into the 16 bits that an agent sends.
THEOREM SocketImplementsRegistry ==
    ASSUME PidsFit PROVE Spec => ImplementsRegistry
<1>1. ASSUME SInv, SInv', GrantInv, LivePids, [Next]_vars
      PROVE  Registry!Next \/ UNCHANGED Registry!vars
  <2>1. CASE UNCHANGED vars
    BY <2>1 DEF vars, agentVars, sockVars, serverVars, Registry!vars, PhaseOf, SessOf, ByNcsid,
       Announces
  <2> QED BY <1>1, <2>1, AgentRefines, ServerRefines DEF Next
<1>2. Spec => []SInv /\ []GrantInv
  BY StreamsInductive, GrantsInductive
<1>3. Init => LivePids
  BY DEF Init, LivePids, Running
<1>4. SInv /\ LivePids /\ [Next]_vars => LivePids'
  BY LiveStep DEF SInv, IInv
<1>5. Spec => []LivePids
  BY <1>2, <1>3, <1>4, PTL DEF Spec
<1> QED BY <1>1, <1>2, <1>5, InitRefines, PTL DEF Spec, ImplementsRegistry, Registry!Spec
=============================================================================
