---------------------------- MODULE SocketServer ----------------------------
(***************************************************************************)
(* ofc-server and its ofc-agent processes over the UNIX socket             *)
(* (server_comm_socket.c, server_ops.c, agent_comm_socket.c, agent.c).     *)
(*                                                                         *)
(* One agent process serves one NETCONF client.  The server is one thread  *)
(* that polls a fixed array of connections: slot 0 is the listening        *)
(* socket, slots 1..AGENTS_QUEUE are agents.  An agent identifies itself   *)
(* once (SET); from then on the server recognises it by the number of the  *)
(* descriptor its connection has, which is the "id" of its session record. *)
(*                                                                         *)
(* Agents may crash, be signalled while they wait for a reply, or leave;   *)
(* descriptors are a bounded resource, and the kernel reuses their numbers.*)
(***************************************************************************)
EXTENDS Naturals, Sequences, FiniteSets

CONSTANTS
    Agents,         \* agent processes, each used for one life
    NoAgent,        \* a value that is no agent
    AGENTS_QUEUE,   \* slots for connected agents (10 in the code)
    MaxFds,         \* descriptors the server may hold for connections
    PidOf,          \* the process ID of each agent, which one that starts
                    \* later may have again
    PidMod,         \* 2^16: the agent sends its PID as a uint16_t
    Victims,        \* sessions that clients ask to kill
    MaxFaults       \* bound: crashes and signals from outside, in all

ASSUME SocketAssumption ==
    /\ NoAgent \notin Agents
    /\ IsFiniteSet(Agents)
    /\ AGENTS_QUEUE \in Nat \ {0}
    /\ MaxFds \in Nat
    /\ MaxFds >= AGENTS_QUEUE
    /\ PidOf \in [Agents -> Nat \ {0}]
    /\ PidMod \in Nat \ {0}
    /\ Victims \subseteq Agents
    /\ MaxFaults \in Nat

VARIABLES
    (* agent processes *)
    pc,               \* where each agent is in main()
    mainloop,         \* mainloop[a]: the agent was told to terminate
    sigpend,          \* sigpend[a]: SIGTERM is pending for a
    (* the sockets *)
    backlog,          \* connections not accepted yet, oldest first
    inbox,            \* inbox[a]: requests a sent, not read by the server
    outbox,           \* outbox[a]: replies to a, not read by a
    fds,              \* fds[f]: the agent at the other end of descriptor f
    (* the server *)
    srv,              \* "up", "down" (comm_destroy done, still looping), "exit"
    quit,             \* the server's mainloop flag
    slot,             \* agents[i].fd for i >= 1; 0 stands for -1
    connected_agents,
    listening,        \* agents[0].fd # -1
    agents,           \* session records (server_ops.c)
    loop,             \* position in comm_loop
    revents,          \* what poll reported and the scan has not handled yet
    ret,              \* comm_loop's count of descriptors still to handle
    (* the environment *)
    faults            \* crashes and signals so far

agentVars  == <<pc, mainloop, sigpend>>
sockVars   == <<backlog, inbox, outbox, fds>>
serverVars == <<srv, quit, slot, connected_agents, listening, agents,
                loop, revents, ret>>
vars == <<agentVars, sockVars, serverVars, faults>>

Slots == 1..AGENTS_QUEUE
Fds   == 1..MaxFds

Request == [op : {"CAPS", "SET", "OP", "KILL", "CLOSE"},
            ncsid : Agents \cup {NoAgent}, pid : Nat]
\* "as" is the session in which the server executed the request.
Reply   == [op : {"CAPS", "SET", "OP", "KILL", "CLOSE", "ERR"},
            as : Agents \cup {NoAgent}]
Session == [id : Fds, ncsid : Agents, pid : Nat]

-----------------------------------------------------------------------------
(* Helpers                                                                 *)

Waiting == {"caps", "set", "op", "kill", "close"}

Running(a) == pc[a] \notin {"new", "exited"}

\* The server's kernel still has an end of a's connection.
ServerEnd(a) == \/ \E k \in DOMAIN backlog : backlog[k] = a
                \/ \E f \in Fds : fds[f] = a

Message(op, ncsid, pid) == [op |-> op, ncsid |-> ncsid, pid |-> pid]

\* send() by the agent: lost (EPIPE, MSG_NOSIGNAL) when the peer is gone.
AgentSend(a, m) ==
    inbox' = IF ServerEnd(a) THEN [inbox EXCEPT ![a] = Append(@, m)] ELSE inbox

\* send() by the server to the agent behind a descriptor.
ServerSend(a, op, as) ==
    outbox' = IF pc[a] = "exited" THEN outbox
              ELSE [outbox EXCEPT ![a] = Append(@, [op |-> op, as |-> as])]

\* Where an agent goes after the answer it waits for, and after a failure
\* (unexpected answer, connection closed, recv() interrupted by a signal).
Answer(p) == CASE p = "caps" -> "CAPS" [] p = "set" -> "SET" [] p = "op" -> "OP"
               [] p = "kill" -> "KILL" [] p = "close" -> "CLOSE"
OkTo(p)   == CASE p = "caps" -> "accepting" [] p = "set" -> "ready"
               [] p = "op" -> "ready" [] p = "kill" -> "ready"
               [] p = "close" -> "exited"
FailTo(p) == CASE p = "caps" -> "cleanup" [] p = "set" -> "cleanup"
               [] p = "op" -> "ready" [] p = "kill" -> "ready"
               [] p = "close" -> "exited"

\* The process a leaves for pc p; the kernel drops what an exited one holds.
Goto(a, p) == pc' = [pc EXCEPT ![a] = p]
DropIfExited(f, a, p, v) == IF p = "exited" THEN [f EXCEPT ![a] = v] ELSE f

-----------------------------------------------------------------------------
Init ==
    /\ pc = [a \in Agents |-> "new"]
    /\ mainloop = [a \in Agents |-> FALSE]
    /\ sigpend = [a \in Agents |-> FALSE]
    /\ backlog = <<>>
    /\ inbox = [a \in Agents |-> <<>>]
    /\ outbox = [a \in Agents |-> <<>>]
    /\ fds = [f \in Fds |-> NoAgent]
    /\ srv = "up"
    /\ quit = FALSE
    /\ slot = [i \in Slots |-> 0]
    /\ connected_agents = 0
    /\ listening = TRUE
    /\ agents = {}
    /\ loop = "poll"
    /\ revents = [i \in 0..AGENTS_QUEUE |-> "none"]
    /\ ret = 0
    /\ faults = 0

-----------------------------------------------------------------------------
(* The agent process                                                       *)

\* The kernel gives a new process a pid that no living process has.
PidFree(a) == \A b \in Agents : Running(b) => PidOf[b] # PidOf[a]

\* connect(), then the request for the server's capabilities.  listen() was
\* called with AGENTS_QUEUE: the kernel queues one connection more than that,
\* the next connect() blocks.
Connect(a) ==
    /\ pc[a] = "new" /\ PidFree(a)
    /\ srv = "up"
    /\ Len(backlog) <= AGENTS_QUEUE
    /\ backlog' = Append(backlog, a)
    /\ inbox' = [inbox EXCEPT ![a] = <<Message("CAPS", NoAgent, 0)>>]
    /\ Goto(a, "caps")
    /\ UNCHANGED <<mainloop, sigpend, outbox, fds, serverVars, faults>>

\* No server listens on the socket: comm_init() fails and main() ends.
ConnectFails(a) ==
    /\ pc[a] = "new"
    /\ srv # "up"
    /\ Goto(a, "exited")
    /\ UNCHANGED <<mainloop, sigpend, sockVars, serverVars, faults>>

\* nc_session_accept() finished the hello exchange with the client; the
\* session is announced to the server with the agent's (truncated) PID.
SessionInfo(a) ==
    /\ pc[a] = "accepting"
    /\ AgentSend(a, Message("SET", a, PidOf[a] % PidMod))
    /\ Goto(a, "set")
    /\ UNCHANGED <<mainloop, sigpend, backlog, outbox, fds, serverVars, faults>>

\* nc_session_accept() failed, or the main loop ends: the client closed the
\* session or disappeared, or a signal set mainloop.
Leave(a) ==
    /\ pc[a] \in {"accepting", "ready"}
    /\ Goto(a, "cleanup")
    /\ UNCHANGED <<mainloop, sigpend, sockVars, serverVars, faults>>

\* comm_operation()
Operation(a) ==
    /\ pc[a] = "ready" /\ ~mainloop[a]
    /\ AgentSend(a, Message("OP", NoAgent, 0))
    /\ Goto(a, "op")
    /\ UNCHANGED <<mainloop, sigpend, backlog, outbox, fds, serverVars, faults>>

\* comm_kill_session()
RequestKill(a, b) ==
    /\ pc[a] = "ready" /\ ~mainloop[a]
    /\ AgentSend(a, Message("KILL", b, 0))
    /\ Goto(a, "kill")
    /\ UNCHANGED <<mainloop, sigpend, backlog, outbox, fds, serverVars, faults>>

\* comm_destroy() -> comm_close()
Cleanup(a) ==
    /\ pc[a] = "cleanup"
    /\ AgentSend(a, Message("CLOSE", NoAgent, 0))
    /\ Goto(a, "close")
    /\ UNCHANGED <<mainloop, sigpend, backlog, outbox, fds, serverVars, faults>>

\* recv() of the answer.
RecvReply(a) ==
    /\ pc[a] \in Waiting
    /\ outbox[a] # <<>>
    /\ LET next == IF Head(outbox[a]).op = Answer(pc[a])
                   THEN OkTo(pc[a]) ELSE FailTo(pc[a])
       IN  /\ Goto(a, next)
           /\ outbox' = [outbox EXCEPT ![a] =
                           IF next = "exited" THEN <<>> ELSE Tail(@)]
           /\ sigpend' = DropIfExited(sigpend, a, next, FALSE)
    /\ UNCHANGED <<mainloop, backlog, inbox, fds, serverVars, faults>>

\* recv() returns 0: the server closed the connection without an answer.
RecvFails(a) ==
    /\ pc[a] \in Waiting
    /\ outbox[a] = <<>>
    /\ ~ServerEnd(a)
    /\ Goto(a, FailTo(pc[a]))
    /\ sigpend' = DropIfExited(sigpend, a, FailTo(pc[a]), FALSE)
    /\ UNCHANGED <<mainloop, sockVars, serverVars, faults>>

Exit(a) ==
    /\ Goto(a, "exited")
    /\ outbox' = [outbox EXCEPT ![a] = <<>>]
    /\ sigpend' = [sigpend EXCEPT ![a] = FALSE]

\* The agent's signal_handler: the first signal sets mainloop, and interrupts
\* the blocking recv() if the agent is in it already (sa_flags = 0, EINTR is
\* not retried); the second one ends the process.
HandleSignal(a) ==
    /\ sigpend[a] /\ Running(a)
    /\ \/ /\ ~mainloop[a]
          /\ mainloop' = [mainloop EXCEPT ![a] = TRUE]
          /\ sigpend' = [sigpend EXCEPT ![a] = FALSE]
          /\ \/ /\ pc[a] \in Waiting
                /\ Goto(a, FailTo(pc[a]))
                /\ outbox' = DropIfExited(outbox, a, FailTo(pc[a]), <<>>)
             \/ UNCHANGED <<pc, outbox>>
       \/ /\ mainloop[a]
          /\ Exit(a)
          /\ UNCHANGED mainloop
    /\ UNCHANGED <<backlog, inbox, fds, serverVars, faults>>

\* The environment: a signal from outside, and a crash, at any moment.
Fault == faults < MaxFaults /\ faults' = faults + 1

Signal(a) ==
    /\ Running(a) /\ ~sigpend[a]
    /\ Fault
    /\ sigpend' = [sigpend EXCEPT ![a] = TRUE]
    /\ UNCHANGED <<pc, mainloop, sockVars, serverVars>>

Crash(a) ==
    /\ Running(a)
    /\ Fault
    /\ Exit(a)
    /\ UNCHANGED <<mainloop, backlog, inbox, fds, serverVars>>

-----------------------------------------------------------------------------
(* The server: comm_loop                                                   *)

NoEvents == [i \in 0..AGENTS_QUEUE |-> "none"]

\* A closed peer is reported as POLLHUP, with or without unread requests.
PollEvent(i) ==
    IF i = 0
    THEN IF listening /\ backlog # <<>> THEN "in" ELSE "none"
    ELSE CASE slot[i] = 0                                      -> "none"
           [] slot[i] # 0 /\ pc[fds[slot[i]]] = "exited"       -> "hup"
           [] slot[i] # 0 /\ pc[fds[slot[i]]] # "exited"
                          /\ inbox[fds[slot[i]]] # <<>>        -> "in"
           [] OTHER                                            -> "none"

\* poll() returned at least one descriptor (a timeout changes nothing).
Poll ==
    /\ srv = "up" /\ ~quit /\ loop = "poll"
    /\ LET ev == [i \in 0..AGENTS_QUEUE |-> PollEvent(i)]
           n  == Cardinality({i \in 0..AGENTS_QUEUE : ev[i] # "none"})
       IN  /\ n > 0
           /\ revents' = ev
           /\ ret' = n
    /\ loop' = "scan"
    /\ UNCHANGED <<agentVars, sockVars, srv, quit, slot, connected_agents,
                   listening, agents, faults>>

\* The scan has reached slot i, for which poll reported event e.
At(i, e) ==
    /\ srv = "up" /\ loop = "scan"
    /\ connected_agents > 0
    /\ revents[i] = e
    /\ \A j \in 1..(i - 1) : revents[j] = "none"

\* Variants of FreeSlot: the count is taken down twice (by the handler and
\* by comm_loop); the listening socket is not polled again.
FreeSlotTwice(i) ==
    /\ slot' = [slot EXCEPT ![i] = 0]
    /\ connected_agents' = connected_agents - 2
    /\ listening' = TRUE

FreeSlotDeaf(i) ==
    /\ slot' = [slot EXCEPT ![i] = 0]
    /\ connected_agents' = connected_agents - 1
    /\ UNCHANGED listening

\* agents[i].fd = -1; connected_agents--; accept new connections again.
FreeSlot(i) ==
    /\ slot' = [slot EXCEPT ![i] = 0]
    /\ connected_agents' = connected_agents - 1
    /\ listening' = TRUE

\* Variant of HangUp: the descriptor is closed, the session is kept.
HangUpCloses(i) ==
    /\ At(i, "hup")
    /\ FreeSlot(i)
    /\ fds' = [fds EXCEPT ![slot[i]] = NoAgent]
    /\ revents' = [revents EXCEPT ![i] = "none"]
    /\ UNCHANGED <<agentVars, backlog, inbox, outbox, srv, quit, agents,
                   loop, ret, faults>>

\* The POLLHUP branch: the slot is given up; close() and srv_agent_stop()
\* are not called.
HangUp(i) ==
    /\ At(i, "hup")
    /\ FreeSlot(i)
    /\ revents' = [revents EXCEPT ![i] = "none"]
    /\ UNCHANGED <<agentVars, sockVars, srv, quit, agents, loop, ret, faults>>

\* The POLLIN branch reads one request from slot i; the loop is left early
\* when no reported descriptor remains.
Read(i) ==
    /\ At(i, "in")
    /\ inbox[fds[slot[i]]] # <<>>
    /\ revents' = [revents EXCEPT ![i] = "none"]
    /\ ret' = ret - 1
    /\ loop' = IF ret = 1 THEN "poll" ELSE "scan"

Peer(i) == fds[slot[i]]
Req(i)  == Head(inbox[Peer(i)])
Consume(i) == inbox' = [inbox EXCEPT ![Peer(i)] = Tail(@)]

\* srv_get_agent_by_agentid, srv_get_agent_by_ncsid: the records that match.
\* (The list order, which only says which of several matches is found first,
\* is left open.)
ByAgentId(f) == {s \in agents : s.id = f}
ByNcsid(n)   == {s \in agents : s.ncsid = n}

\* Variants: the record stays in the list; the process is not signalled.
SrvAgentForget(s) == UNCHANGED agents

SrvAgentKillQuiet(s) ==
    /\ UNCHANGED <<sigpend, quit>>
    /\ agents' = agents \ {s}

\* srv_agent_stop
SrvAgentStop(s) == agents' = agents \ {s}

\* srv_agent_kill: kill(pid, SIGTERM) to whatever process has the recorded
\* PID (PID 0 is the server's own process group), then srv_agent_stop.
SrvAgentKill(s) ==
    /\ sigpend' = [b \in Agents |->
                     sigpend[b] \/ (Running(b) /\ PidOf[b] = s.pid)]
    /\ quit' = (quit \/ s.pid = 0)
    /\ SrvAgentStop(s)

GetCapabilities(i) ==
    /\ Read(i)
    /\ Req(i).op = "CAPS"
    /\ Consume(i)
    /\ ServerSend(Peer(i), "CAPS", NoAgent)
    /\ UNCHANGED <<agentVars, backlog, fds, srv, quit, slot,
                   connected_agents, listening, agents, faults>>

\* set_session -> srv_agent_new
SetSession(i) ==
    /\ Read(i)
    /\ Req(i).op = "SET"
    /\ Consume(i)
    /\ agents' = agents \cup
          {[id |-> slot[i], ncsid |-> Req(i).ncsid, pid |-> Req(i).pid]}
    /\ ServerSend(Peer(i), "SET", NoAgent)
    /\ UNCHANGED <<agentVars, backlog, fds, srv, quit, slot,
                   connected_agents, listening, faults>>

\* Variant: the descriptor stays open.
KeepDescriptor(i) == Consume(i) /\ UNCHANGED fds

\* close(agents[i].fd): unread requests are gone with it.
CloseDescriptor(i) ==
    /\ fds' = [fds EXCEPT ![slot[i]] = NoAgent]
    /\ inbox' = [inbox EXCEPT ![Peer(i)] = <<>>]

\* close_session -> srv_agent_stop; without a record there is no reply.
\* comm_loop closes the descriptor in both cases.
CloseSession(i) ==
    /\ Read(i)
    /\ Req(i).op = "CLOSE"
    /\ \/ /\ ByAgentId(slot[i]) = {}
          /\ UNCHANGED <<agents, outbox>>
       \/ \E s \in ByAgentId(slot[i]) :
            /\ SrvAgentStop(s)
            /\ ServerSend(Peer(i), "CLOSE", s.ncsid)
    /\ CloseDescriptor(i)
    /\ FreeSlot(i)
    /\ UNCHANGED <<agentVars, backlog, srv, quit, faults>>

\* Variant: an agent may kill its own session.
KillRefusedToStrangers(i) ==
    ByNcsid(Req(i).ncsid) = {} \/ ByAgentId(slot[i]) = {}

\* kill_session.  The checks come in the code's order: the victim's record,
\* the sender's record, the sender's own session.
KillRefused(i) ==
    \/ ByNcsid(Req(i).ncsid) = {}
    \/ ByAgentId(slot[i]) = {}
    \/ \E s \in ByAgentId(slot[i]) : s.ncsid = Req(i).ncsid

KillSessionError(i) ==
    /\ Read(i)
    /\ Req(i).op = "KILL"
    /\ KillRefused(i)
    /\ Consume(i)
    /\ ServerSend(Peer(i), "ERR", NoAgent)
    /\ UNCHANGED <<agentVars, backlog, fds, srv, quit, slot,
                   connected_agents, listening, agents, faults>>

KillSession(i) ==
    /\ Read(i)
    /\ Req(i).op = "KILL"
    /\ ~KillRefused(i)
    /\ \E s \in ByNcsid(Req(i).ncsid) : SrvAgentKill(s)
    /\ Consume(i)
    /\ ServerSend(Peer(i), "KILL", NoAgent)
    /\ UNCHANGED <<pc, mainloop, backlog, fds, srv, slot, connected_agents,
                   listening, faults>>

\* process_operation: the RPC runs in the session recorded for the
\* descriptor, or is answered with an error.
ProcessOperation(i) ==
    /\ Read(i)
    /\ Req(i).op = "OP"
    /\ Consume(i)
    /\ \/ /\ ByAgentId(slot[i]) = {}
          /\ ServerSend(Peer(i), "OP", NoAgent)
       \/ \E s \in ByAgentId(slot[i]) : ServerSend(Peer(i), "OP", s.ncsid)
    /\ UNCHANGED <<agentVars, backlog, fds, srv, quit, slot,
                   connected_agents, listening, agents, faults>>

\* The for loop is over: no slot left, or no agent connected any more.
ScanDone ==
    /\ srv = "up" /\ loop = "scan"
    /\ \/ \A i \in Slots : revents[i] = "none"
       \/ connected_agents = 0
    /\ loop' = "accept"
    /\ UNCHANGED <<agentVars, sockVars, srv, quit, slot, connected_agents,
                   listening, agents, revents, ret, faults>>

LeaveLoop == loop' = "poll" /\ revents' = NoEvents /\ ret' = 0

\* Nothing (more) to accept: no event on the listening socket, or EAGAIN.
AcceptDone ==
    /\ srv = "up" /\ loop = "accept"
    /\ revents[0] = "none" \/ backlog = <<>>
    /\ LeaveLoop
    /\ UNCHANGED <<agentVars, sockVars, srv, quit, slot, connected_agents,
                   listening, agents, faults>>

FreeFds == {f \in Fds : fds[f] = NoAgent}
IsLeast(x, S) == x \in S /\ \A y \in S : x <= y

\* Variants: the array is taken to be full one connection late; every
\* connection goes to the first slot.
FullLate == connected_agents = AGENTS_QUEUE
FirstSlot(i) == i = 1

Full == connected_agents + 1 = AGENTS_QUEUE
FreeSlotFor(i) == IsLeast(i, {j \in Slots : slot[j] = 0} \cup {AGENTS_QUEUE + 1})

\* accept(): the connection gets the lowest free descriptor and the first
\* slot that holds -1; the last slot disables the listening socket.
Accept ==
    /\ srv = "up" /\ loop = "accept"
    /\ revents[0] = "in" /\ backlog # <<>>
    /\ \E f \in Fds, i \in 1..(AGENTS_QUEUE + 1) :
         /\ IsLeast(f, FreeFds)
         /\ FreeSlotFor(i)
         /\ fds' = [fds EXCEPT ![f] = Head(backlog)]
         /\ slot' = [slot EXCEPT ![i] = f]
    /\ backlog' = Tail(backlog)
    /\ connected_agents' = connected_agents + 1
    /\ IF Full
       THEN listening' = FALSE /\ LeaveLoop
       ELSE UNCHANGED <<listening, loop, revents, ret>>
    /\ UNCHANGED <<agentVars, inbox, outbox, srv, quit, agents, faults>>

\* comm_destroy: the listening socket and the descriptors in the slots are
\* closed, and with them every connection that waits in the queue.
CommDestroy ==
    /\ fds' = [f \in Fds |-> IF \E i \in Slots : slot[i] = f
                             THEN NoAgent ELSE fds[f]]
    /\ backlog' = <<>>
    /\ inbox' = [a \in Agents |-> <<>>]
    /\ connected_agents' = 0

AcceptError == backlog # <<>> /\ FreeFds = {}

\* accept() fails with EMFILE: communication ends, the process goes on.
AcceptFails ==
    /\ srv = "up" /\ loop = "accept"
    /\ revents[0] = "in"
    /\ AcceptError
    /\ CommDestroy
    /\ LeaveLoop
    /\ srv' = "down"
    /\ UNCHANGED <<agentVars, outbox, quit, slot, listening, agents, faults>>

\* The server's signal handler sets its mainloop flag ...
ServerSignal ==
    /\ srv # "exit" /\ ~quit
    /\ Fault
    /\ quit' = TRUE
    /\ UNCHANGED <<agentVars, sockVars, srv, slot, connected_agents,
                   listening, agents, loop, revents, ret>>

\* ... main() leaves its loop between two calls of comm_loop ...
ServerExits ==
    /\ fds' = [f \in Fds |-> NoAgent]
    /\ backlog' = <<>>
    /\ inbox' = [a \in Agents |-> <<>>]
    /\ connected_agents' = 0
    /\ agents' = {}
    /\ LeaveLoop
    /\ srv' = "exit"
    /\ UNCHANGED <<agentVars, outbox, quit, slot, listening>>

ServerStop ==
    srv # "exit" /\ quit /\ loop = "poll" /\ ServerExits /\ UNCHANGED faults

\* ... and a second signal, or a crash, ends it anywhere.
ServerDies == srv # "exit" /\ Fault /\ ServerExits

-----------------------------------------------------------------------------
AgentStep(a) ==
    \/ RecvReply(a) \/ RecvFails(a) \/ HandleSignal(a) \/ Cleanup(a)

ClientStep(a) ==
    \/ Connect(a) \/ ConnectFails(a) \/ SessionInfo(a) \/ Leave(a)
    \/ Operation(a)
    \/ \E b \in Victims : RequestKill(a, b)

Serve(i) ==
    \/ HangUp(i) \/ GetCapabilities(i) \/ SetSession(i) \/ CloseSession(i)
    \/ KillSessionError(i) \/ KillSession(i) \/ ProcessOperation(i)

ServerStep ==
    \/ Poll
    \/ \E i \in Slots : Serve(i)
    \/ ScanDone \/ AcceptDone \/ Accept \/ AcceptFails \/ ServerStop

Next ==
    \/ \E a \in Agents : AgentStep(a) \/ ClientStep(a) \/ Signal(a) \/ Crash(a)
    \/ ServerStep
    \/ ServerSignal
    \/ ServerDies

Spec == Init /\ [][Next]_vars

\* The server polls for ever, an agent that is not waiting for its client
\* goes on, and the kernel delivers a pending signal.  Clients owe nothing:
\* they may keep an idle session open for ever.
Fairness ==
    /\ WF_vars(ServerStep)
    /\ \A a \in Agents : /\ WF_vars(AgentStep(a))
                         /\ WF_vars(HandleSignal(a))
                         /\ WF_vars(mainloop[a] /\ Leave(a))

FairSpec == Spec /\ Fairness
-----------------------------------------------------------------------------
(* Properties                                                              *)

\* Type invariant: the range of every variable; in particular connected_agents
\* and comm_loop's ret are decremented without a check and never fall below 0.
TypeOK ==
    /\ pc \in [Agents -> Waiting \cup {"new", "accepting", "ready", "cleanup",
                                       "exited"}]
    /\ mainloop \in [Agents -> BOOLEAN]
    /\ sigpend \in [Agents -> BOOLEAN]
    /\ backlog \in Seq(Agents)
    /\ inbox \in [Agents -> Seq(Request)]
    /\ outbox \in [Agents -> Seq(Reply)]
    /\ fds \in [Fds -> Agents \cup {NoAgent}]
    /\ srv \in {"up", "down", "exit"}
    /\ quit \in BOOLEAN
    /\ slot \in [Slots -> Fds \cup {0}]
    /\ connected_agents \in Nat
    /\ listening \in BOOLEAN
    /\ agents \in SUBSET Session
    /\ loop \in {"poll", "scan", "accept"}
    /\ revents \in [0..AGENTS_QUEUE -> {"none", "in", "hup"}]
    /\ ret \in Nat
    /\ faults \in Nat

UsedSlots == {i \in Slots : slot[i] # 0}

\* The slot array and its counter agree, whatever the order of connections,
\* requests to close and broken connections in one pass of comm_loop: the
\* counter is the number of slots in use, the listening socket is polled
\* exactly while a slot is free (so accept() never runs off the array), and
\* two slots never share a descriptor.
SlotAccounting ==
    srv = "up" =>
        /\ connected_agents = Cardinality(UsedSlots)
        /\ listening <=> connected_agents < AGENTS_QUEUE
        /\ \A i \in UsedSlots : fds[slot[i]] # NoAgent
        /\ \A i, j \in UsedSlots : slot[i] = slot[j] => i = j

\* A session record names a descriptor, and descriptor numbers are reused:
\* still, the descriptor of a record always belongs to the agent that
\* announced that session, and no agent has two records.  Without this a
\* request could run in, or close, the session of somebody else.
SessionIdentity ==
    srv = "up" =>
        /\ \A s \in agents : fds[s.id] = s.ncsid
        /\ \A s, t \in agents : s.ncsid = t.ncsid => s = t

\* A session loses its slot only when its agent is dead: a living agent that
\* announced itself is always polled.
StaleSessionsAreDead ==
    srv = "up" =>
        \A s \in agents : \/ \E i \in Slots : slot[i] = s.id
                          \/ pc[s.ncsid] = "exited"

\* Requests and answers stay paired on the stream until a signal interrupts
\* the agent: an agent that was not told to terminate finds at most one
\* answer, to the request it waits for, and no RPC of an agent is ever
\* executed in another agent's session.
AnswersPaired ==
    \A a \in Agents :
        /\ \A k \in DOMAIN outbox[a] : outbox[a][k].as \in {a, NoAgent}
        /\ outbox[a] # <<>> /\ ~mainloop[a] =>
              /\ pc[a] \in Waiting
              /\ Len(outbox[a]) = 1 /\ inbox[a] = <<>>
              /\ \/ outbox[a][1].op = Answer(pc[a])
                 \/ pc[a] = "kill" /\ outbox[a][1].op = "ERR"

\* An agent that goes on serving its client although the server dropped its
\* session has been told to terminate (srv_agent_kill signals the process
\* whose session it removes).
KilledIsSignalled ==
    \A a \in Agents :
        (srv = "up" /\ pc[a] \in {"ready", "op", "kill"} /\ ByNcsid(a) = {})
            => (sigpend[a] \/ mainloop[a])

\* The server gives up its socket only when descriptors were lost to broken
\* connections: more of them than a full house of agents leaves free.
CommDownNeedsLeaks ==
    srv = "down" =>
        Cardinality({f \in Fds : fds[f] # NoAgent}) > MaxFds - AGENTS_QUEUE

\* A request of a connected agent is answered, or the connection is closed:
\* no agent waits for ever on a server that runs.
AnsweredEventually ==
    \A a \in Agents :
        (pc[a] \in Waiting /\ \E f \in Fds : fds[f] = a) ~> pc[a] \notin Waiting

\* If a slot is free time and again, a connection in the queue is taken from
\* it: giving up a slot always makes the server listen again.
AcceptedEventually ==
    ([]<>(connected_agents < AGENTS_QUEUE)) =>
        \A a \in Agents :
            (\E k \in DOMAIN backlog : backlog[k] = a)
                ~> ~(\E k \in DOMAIN backlog : backlog[k] = a)

\* A killed session's agent terminates (unless the server is gone).
KilledAgentExits ==
    \A a \in Agents :
        (srv = "up" /\ pc[a] \in {"ready", "op", "kill"} /\ ByNcsid(a) = {})
            ~> (pc[a] = "exited" \/ srv # "up")
-----------------------------------------------------------------------------
(* The registry that this transport implements: a session is "none" while  *)
(* its agent has not announced it or the announcement is not read yet.     *)

Announces(a) == \E k \in DOMAIN inbox[a] : inbox[a][k].op = "SET"

PhaseOf(a) ==
    CASE pc[a] \in {"new", "caps", "accepting", "set"} -> "new"
      [] pc[a] \in {"ready", "op", "kill"}             -> "serving"
      [] pc[a] \in {"cleanup", "close", "exited"}      -> "left"

SessOf(a) ==
    CASE ByNcsid(a) # {} -> "open"
      [] ByNcsid(a) = {} /\ (\/ pc[a] \in {"new", "caps", "accepting"}
                              \/ Announces(a)) -> "none"
      [] OTHER -> "gone"

Registry ==
    INSTANCE SessionRegistry WITH
        phase <- [a \in Agents |-> PhaseOf(a)],
        sess <- [a \in Agents |-> SessOf(a)],
        told <- [a \in Agents |-> /\ PhaseOf(a) # "left"
                                  /\ sigpend[a] \/ mainloop[a]],
        up <- srv = "up",
        lost <- srv # "up"

\* Whatever agents and server do, in whatever order requests, broken
\* connections, signals and crashes are met, the list of sessions behaves as
\* the registry promises.
ImplementsRegistry == Registry!Spec
=============================================================================
