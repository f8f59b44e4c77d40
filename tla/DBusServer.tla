----------------------------- MODULE DBusServer -----------------------------
(***************************************************************************)
(* ofc-server and its ofc-agent processes over D-Bus                       *)
(* (server_comm_dbus.c, agent_comm_dbus.c, server_ops.c, agent.c).         *)
(*                                                                         *)
(* Agents call methods of the server by the well-known name it owns on the *)
(* system bus.  The bus delivers the calls in one queue; the server pops   *)
(* and handles them one at a time.  A session record holds the unique bus  *)
(* name of its agent, which the bus never gives to anybody else.           *)
(*                                                                         *)
(* Every call but CloseSession blocks the agent until the reply comes or   *)
(* the timeout of libdbus expires; the call itself stays queued and is     *)
(* executed late.  The server may stop and be started again: the bus       *)
(* answers the calls it had not answered, and the new one knows no agent.  *)
(***************************************************************************)
EXTENDS Naturals, Sequences, FiniteSets

CONSTANTS
    Agents,       \* agent processes, each used for one life
    PidOf,        \* the process ID of each agent, which one that starts later
                  \* may have again
    PidMod,       \* 2^16: the agent sends its PID as a uint16_t
    Kills,        \* the kill requests of clients: pairs of a sender and the
                  \* agent whose session is to be killed
    MaxCalls,     \* bound: method calls of one agent
    MaxFaults,    \* bound: crashes, signals from outside and timeouts
    MaxRestarts   \* bound: times the server is started again

ASSUME DBusAssumption ==
    /\ IsFiniteSet(Agents)
    /\ PidOf \in [Agents -> Nat \ {0}]
    /\ PidMod \in Nat \ {0}
    /\ Kills \subseteq Agents \X Agents
    /\ MaxCalls \in Nat
    /\ MaxFaults \in Nat
    /\ MaxRestarts \in Nat

VARIABLES
    (* agent processes *)
    pc,          \* where each agent is in main(); "dead": exit without cleanup
    mainloop,    \* mainloop[a]: the agent was told to terminate
    sigpend,     \* sigpend[a]: SIGTERM is pending for a
    calls,       \* calls[a]: serial number of the last call of a
    reply,       \* reply[a]: what the pending call of a was answered
    (* the bus and the server *)
    queue,       \* method calls the server has not popped, oldest first
    srv,         \* "up" or "down"
    quit,        \* the server's mainloop flag
    agents,      \* session records (server_ops.c)
    (* the environment *)
    faults, restarts

agentVars == <<pc, mainloop, sigpend, calls, reply>>
busVars   == <<queue, srv, quit, agents>>
vars == <<agentVars, busVars, faults, restarts>>

Waiting == {"ping", "caps", "set", "op", "kill"}

\* Two kinds of strings the server compares: unique names on the bus
\* (":1.42") and NETCONF session identifiers.
BusName(a) == <<"name", a>>
NcSid(a)   == <<"session", a>>
BusNames   == {BusName(a) : a \in Agents}
NcSids     == {NcSid(a) : a \in Agents}

Session == [id : BusNames, ncsid : NcSids, pid : Nat]
Call    == [op : {"PING", "CAPS", "SET", "OP", "KILL", "CLOSE"},
            from : Agents, serial : Nat, ncsid : NcSids, pid : Nat]

Running(a) == pc[a] \notin {"new", "exited", "dead"}

-----------------------------------------------------------------------------
Init ==
    /\ pc = [a \in Agents |-> "new"]
    /\ mainloop = [a \in Agents |-> FALSE]
    /\ sigpend = [a \in Agents |-> FALSE]
    /\ calls = [a \in Agents |-> 0]
    /\ reply = [a \in Agents |-> "none"]
    /\ queue = <<>>
    /\ srv = "up"
    /\ quit = FALSE
    /\ agents = {}
    /\ faults = 0
    /\ restarts = 0

-----------------------------------------------------------------------------
(* The agent process                                                       *)

Message(a, op, ncsid, pid) ==
    [op |-> op, from |-> a, serial |-> calls[a] + 1, ncsid |-> ncsid, pid |-> pid]

\* dbus_connection_send_with_reply_and_block: while nobody owns the server's
\* name the bus answers with an error at once.
Send(a, from, to, op, ncsid, pid) ==
    /\ pc[a] = from
    /\ calls[a] < MaxCalls
    /\ pc' = [pc EXCEPT ![a] = to]
    /\ calls' = [calls EXCEPT ![a] = @ + 1]
    /\ IF srv = "up"
       THEN /\ queue' = Append(queue, Message(a, op, ncsid, pid))
            /\ UNCHANGED reply
       ELSE /\ reply' = [reply EXCEPT ![a] = "error"]
            /\ UNCHANGED queue
    /\ UNCHANGED <<mainloop, sigpend, srv, quit, agents, faults, restarts>>

\* The kernel gives a new process a pid that no living process has.
PidFree(a) == \A b \in Agents : Running(b) => PidOf[b] # PidOf[a]

\* comm_init: the connection is tried with Ping.
CommInit(a) == PidFree(a) /\ Send(a, "new", "ping", "PING", NcSid(a), 0)

\* comm_get_srv_cpblts
GetSrvCpblts(a) == Send(a, "connected", "caps", "CAPS", NcSid(a), 0)

\* comm_session_info_send, after nc_session_accept: the PID is cut to 16 bits.
SessionInfo(a) == Send(a, "accepting", "set", "SET", NcSid(a), PidOf[a] % PidMod)

\* comm_operation and comm_kill_session, for a request of the client.
Operation(a) == ~mainloop[a] /\ Send(a, "ready", "op", "OP", NcSid(a), 0)
RequestKill(a, b) ==
    /\ <<a, b>> \in Kills
    /\ ~mainloop[a]
    /\ Send(a, "ready", "kill", "KILL", NcSid(b), 0)

\* After a reply, and after an error reply or a timeout.
OkTo(p)   == CASE p = "ping" -> "connected" [] p = "caps" -> "accepting"
               [] p \in {"set", "op", "kill"} -> "ready"
FailTo(p) == IF p \in {"op", "kill"} THEN "ready" ELSE "cleanup"

\* The blocked call returns with the reply.
Return(a) ==
    /\ pc[a] \in Waiting /\ reply[a] # "none"
    /\ pc' = [pc EXCEPT ![a] = IF reply[a] = "ok" THEN OkTo(@) ELSE FailTo(@)]
    /\ reply' = [reply EXCEPT ![a] = "none"]
    /\ UNCHANGED <<mainloop, sigpend, calls, busVars, faults, restarts>>

Fault == faults < MaxFaults /\ faults' = faults + 1

\* The blocked call returns without one; a reply that comes later has a
\* serial number nobody waits for and is dropped.
Timeout(a) ==
    /\ Fault
    /\ pc[a] \in Waiting
    /\ pc' = [pc EXCEPT ![a] = FailTo(@)]
    /\ reply' = [reply EXCEPT ![a] = "none"]
    /\ UNCHANGED <<mainloop, sigpend, calls, busVars, restarts>>

\* The client is refused or leaves, or the main loop ends.
Leave(a) ==
    /\ pc[a] \in {"accepting", "ready"}
    /\ pc' = [pc EXCEPT ![a] = "cleanup"]
    /\ UNCHANGED <<mainloop, sigpend, calls, reply, busVars, faults, restarts>>

\* The bug of an agent that closes only the sessions it saw confirmed.
CommDestroyIfReady(a) ==
    /\ pc[a] = "cleanup"
    /\ pc' = [pc EXCEPT ![a] = "exited"]
    /\ queue' = IF srv = "up" /\ calls[a] > 3
                THEN Append(queue, Message(a, "CLOSE", NcSid(a), 0))
                ELSE queue
    /\ UNCHANGED <<mainloop, sigpend, calls, reply, srv, quit, agents, faults,
                   restarts>>

\* comm_destroy -> comm_close: CloseSession is sent and flushed, no reply is
\* awaited, and the process ends.
CommDestroy(a) ==
    /\ pc[a] = "cleanup"
    /\ pc' = [pc EXCEPT ![a] = "exited"]
    /\ queue' = IF srv = "up" THEN Append(queue, Message(a, "CLOSE", NcSid(a), 0))
                ELSE queue
    /\ UNCHANGED <<mainloop, sigpend, calls, reply, srv, quit, agents, faults,
                   restarts>>

\* signal_handler: the first signal ends the main loop (a blocked call goes
\* on), the second one exits without comm_destroy.
HandleSignal(a) ==
    /\ Running(a) /\ sigpend[a]
    /\ sigpend' = [sigpend EXCEPT ![a] = FALSE]
    /\ mainloop' = [mainloop EXCEPT ![a] = TRUE]
    /\ pc' = IF mainloop[a] THEN [pc EXCEPT ![a] = "dead"] ELSE pc
    /\ reply' = IF mainloop[a] THEN [reply EXCEPT ![a] = "none"] ELSE reply
    /\ UNCHANGED <<calls, busVars, faults, restarts>>

Signal(a) ==
    /\ Fault
    /\ Running(a)
    /\ sigpend' = [sigpend EXCEPT ![a] = TRUE]
    /\ UNCHANGED <<pc, mainloop, calls, reply, busVars, restarts>>

Crash(a) ==
    /\ Fault
    /\ Running(a)
    /\ pc' = [pc EXCEPT ![a] = "dead"]
    /\ reply' = [reply EXCEPT ![a] = "none"]
    /\ UNCHANGED <<mainloop, sigpend, calls, busVars, restarts>>

-----------------------------------------------------------------------------
(* The server: comm_loop pops one message and calls its handler            *)

Msg == Head(queue)

Pop(op) ==
    /\ srv = "up" /\ queue # <<>> /\ Msg.op = op
    /\ queue' = Tail(queue)
    /\ UNCHANGED <<pc, mainloop, calls, srv, faults, restarts>>

\* The bug of an agent that takes any reply for the one it waits for.
AnswerAnyCall(kind) == reply' = [reply EXCEPT ![Msg.from] = kind]

\* _dbus_positive_reply, _dbus_error_reply: the reply reaches the agent if it
\* still waits for that very call.
Answer(kind) ==
    reply' = IF pc[Msg.from] \in Waiting /\ calls[Msg.from] = Msg.serial
             THEN [reply EXCEPT ![Msg.from] = kind] ELSE reply

\* srv_get_agent_by_agentid, srv_get_agent_by_ncsid
ByAgentId(id)  == {s \in agents : s.id = id}
ByNcsid(ncsid) == {s \in agents : s.ncsid = ncsid}
Sender == ByAgentId(BusName(Msg.from))

\* srv_agent_stop
SrvAgentStop(s) == agents' = agents \ {s}

\* The bug of a record that is removed without the signal.
SrvAgentKillQuiet(s) ==
    /\ UNCHANGED <<sigpend, quit>>
    /\ SrvAgentStop(s)

\* srv_agent_kill: SIGTERM to the process with the recorded PID, PID 0 being
\* the process group of the server itself.
SrvAgentKill(s) ==
    /\ sigpend' = [b \in Agents |->
                     sigpend[b] \/ (Running(b) /\ PidOf[b] = s.pid)]
    /\ quit' = (quit \/ s.pid = 0)
    /\ SrvAgentStop(s)

\* _dbus_handlestdif
HandleStdIf ==
    /\ Pop("PING")
    /\ Answer("ok")
    /\ UNCHANGED <<sigpend, quit, agents>>

GetCapabilities ==
    /\ Pop("CAPS")
    /\ Answer("ok")
    /\ UNCHANGED <<sigpend, quit, agents>>

\* set_session -> srv_agent_new
SetSession ==
    /\ Pop("SET")
    /\ agents' = agents \cup
         {[id |-> BusName(Msg.from), ncsid |-> Msg.ncsid, pid |-> Msg.pid]}
    /\ Answer("ok")
    /\ UNCHANGED <<sigpend, quit>>

\* close_session: no reply; an unknown sender is only logged.
CloseSession ==
    /\ Pop("CLOSE")
    /\ \/ Sender = {} /\ UNCHANGED agents
       \/ \E s \in Sender : SrvAgentStop(s)
    /\ UNCHANGED <<reply, sigpend, quit>>

\* kill_session answers with an error when the session does not exist, when
\* the sender has none, and when the NETCONF identifier of the sender's
\* session equals the sender's name on the bus.
KillRefused ==
    \/ ByNcsid(Msg.ncsid) = {}
    \/ Sender = {}
    \/ \E s \in Sender : s.ncsid = BusName(Msg.from)

\* The bug of an early return without a reply.
KillSessionErrorMute ==
    /\ Pop("KILL")
    /\ KillRefused
    /\ UNCHANGED <<reply, sigpend, quit, agents>>

KillSessionError ==
    /\ Pop("KILL")
    /\ KillRefused
    /\ Answer("error")
    /\ UNCHANGED <<sigpend, quit, agents>>

KillSession ==
    /\ Pop("KILL")
    /\ ~KillRefused
    /\ \E s \in ByNcsid(Msg.ncsid) : SrvAgentKill(s)
    /\ Answer("ok")

\* process_operation: an error when the session is no longer valid.
ProcessOperation ==
    /\ Pop("OP")
    /\ Answer(IF Sender = {} THEN "error" ELSE "ok")
    /\ UNCHANGED <<sigpend, quit, agents>>

ServerStep ==
    \/ HandleStdIf \/ GetCapabilities \/ SetSession \/ CloseSession
    \/ KillSessionError \/ KillSession \/ ProcessOperation

\* The process ends (told to, or a crash): the list of sessions is lost and
\* the bus answers every call it had delivered with an error.
ServerEnds ==
    /\ srv = "up"
    /\ quit \/ restarts < MaxRestarts
    /\ srv' = "down"
    /\ quit' = FALSE
    /\ agents' = {}
    /\ queue' = <<>>
    /\ reply' = [a \in Agents |->
                   IF pc[a] \in Waiting /\ reply[a] = "none" THEN "error"
                   ELSE reply[a]]
    /\ UNCHANGED <<pc, mainloop, sigpend, calls, faults, restarts>>

\* comm_init: a new server takes the name.
ServerStarts ==
    /\ srv = "down"
    /\ restarts < MaxRestarts
    /\ restarts' = restarts + 1
    /\ srv' = "up"
    /\ UNCHANGED <<agentVars, queue, quit, agents, faults>>

-----------------------------------------------------------------------------
AgentStep(a) ==
    \/ GetSrvCpblts(a) \/ Return(a) \/ CommDestroy(a) \/ HandleSignal(a)

ClientStep(a) ==
    \/ CommInit(a) \/ SessionInfo(a) \/ Leave(a) \/ Operation(a)
    \/ \E b \in Agents : RequestKill(a, b)

Next ==
    \/ \E a \in Agents : \/ AgentStep(a) \/ ClientStep(a)
                         \/ Timeout(a) \/ Signal(a) \/ Crash(a)
    \/ ServerStep
    \/ ServerEnds \/ ServerStarts

Spec == Init /\ [][Next]_vars

\* The server pops what is queued and a blocked call returns once its reply is
\* there.  Neither the client, nor the timeout, nor a restart is relied on.
FairSpec ==
    /\ Spec
    /\ WF_vars(ServerStep)
    /\ \A a \in Agents : WF_vars(Return(a))

-----------------------------------------------------------------------------
(* Properties                                                              *)

\* Types of the variables; a reply is only ever held for a call that is
\* waiting for it.
TypeOK ==
    /\ pc \in [Agents -> Waiting \cup {"new", "connected", "accepting", "ready",
                                       "cleanup", "exited", "dead"}]
    /\ mainloop \in [Agents -> BOOLEAN]
    /\ sigpend \in [Agents -> BOOLEAN]
    /\ calls \in [Agents -> 0..MaxCalls]
    /\ reply \in [Agents -> {"none", "ok", "error"}]
    /\ \A a \in Agents : reply[a] # "none" => pc[a] \in Waiting
    /\ queue \in Seq(Call)
    /\ srv \in {"up", "down"}
    /\ quit \in BOOLEAN
    /\ agents \in SUBSET Session
    /\ faults \in 0..MaxFaults
    /\ restarts \in 0..MaxRestarts

Queued(a, op) == \E k \in DOMAIN queue : queue[k].from = a /\ queue[k].op = op

\* An agent that ended through comm_destroy leaves no session behind, even if
\* its SetSessionParams timed out and is executed after it has gone: whenever
\* such an agent has a session, or may still get one, its CloseSession is
\* queued behind.
DepartedIsClosed ==
    \A a \in Agents :
        pc[a] = "exited" /\ (ByAgentId(BusName(a)) # {} \/ Queued(a, "SET"))
            => Queued(a, "CLOSE")

\* A call to the server is answered: by a handler, or by the bus when the
\* server is gone.  No handler that owes a reply returns without one.
AnsweredEventually ==
    \A a \in Agents : pc[a] \in Waiting ~> pc[a] \notin Waiting

\* The session of an agent that left is removed in the end.
SessionEventuallyRemoved ==
    \A a \in Agents : pc[a] = "exited" ~> ByAgentId(BusName(a)) = {}

-----------------------------------------------------------------------------
(* The registry that this transport implements.                            *)

PhaseOf(a) ==
    CASE pc[a] \in {"new", "ping", "connected", "caps", "accepting", "set"} -> "new"
      [] pc[a] \in {"ready", "op", "kill"}                                 -> "serving"
      [] pc[a] \in {"cleanup", "exited", "dead"}                           -> "left"

SessOf(a) ==
    CASE ByAgentId(BusName(a)) # {} -> "open"
      [] /\ ByAgentId(BusName(a)) = {}
         /\ \/ pc[a] \in {"new", "ping", "connected", "caps", "accepting"}
            \/ Queued(a, "SET") -> "none"
      [] OTHER -> "gone"

Registry ==
    INSTANCE SessionRegistry WITH
        phase <- [a \in Agents |-> PhaseOf(a)],
        sess <- [a \in Agents |-> SessOf(a)],
        told <- [a \in Agents |-> /\ PhaseOf(a) # "left"
                                  /\ sigpend[a] \/ mainloop[a]],
        up <- srv = "up",
        lost <- srv = "down" \/ restarts > 0

\* Late execution of calls that timed out, crashes and restarts of the server
\* included, the list of sessions behaves as the registry promises.  It does
\* where no client asks to kill its own session.
ImplementsRegistry == Registry!Spec

\* kill_session refuses a request that relates to the session of its sender.
\* The code compares that session's identifier with the sender's name on the
\* bus, and never refuses one.
OwnSessionKept ==
    [][KillSession => ByAgentId(BusName(Msg.from)) \subseteq agents']_vars
=============================================================================
