-------------------------- MODULE SessionRegistry --------------------------
(***************************************************************************)
(* What the session registry of ofc-server promises (server_ops.c as it is *)
(* used by both transports), without sockets, bus names, queues, polling   *)
(* or process identifiers.                                                 *)
(*                                                                         *)
(* An agent has at most one session in its life: the server may open it    *)
(* late, when the agent has already given up, but never a second time.     *)
(* The server takes a session away only because its agent left and said    *)
(* so, because somebody else with a session killed it, in which case the   *)
(* agent is told to terminate, or because the server itself ends.  Nothing *)
(* is promised about whom the kill of a session reaches whose agent has    *)
(* left: the server knows a pid, and the kernel may have given it away.    *)
(* SocketServer and DBusServer are shown to implement this specification.  *)
(***************************************************************************)
CONSTANT
    Agents      \* agent processes, each used for one life

VARIABLES
    phase,   \* phase[a]: "new", "serving" its client, or "left"
    sess,    \* sess[a]: "none" yet, "open" (srv_agent_new), or "gone"
    told,    \* told[a]: a was told to terminate and has not left yet
    up,      \* the server handles requests
    lost     \* a server has ended since the start

vars == <<phase, sess, told, up, lost>>

Init ==
    /\ phase = [a \in Agents |-> "new"]
    /\ sess = [a \in Agents |-> "none"]
    /\ told = [a \in Agents |-> FALSE]
    /\ up = TRUE
    /\ lost = FALSE

\* srv_agent_new, for an agent that may have left in the meantime.
Open(a) ==
    /\ up
    /\ sess[a] = "none"
    /\ sess' = [sess EXCEPT ![a] = "open"]
    /\ UNCHANGED <<phase, told, up, lost>>

\* The agent takes its session for open and starts to serve its client.
Begin(a) ==
    /\ phase[a] = "new"
    /\ sess[a] = "open" \/ told[a] \/ lost
    /\ phase' = [phase EXCEPT ![a] = "serving"]
    /\ UNCHANGED <<sess, told, up, lost>>

\* The agent ends, with comm_destroy or by a crash.  A session it has not
\* asked for will never be opened.
Leave(a) ==
    /\ phase[a] # "left"
    /\ phase' = [phase EXCEPT ![a] = "left"]
    /\ told' = [told EXCEPT ![a] = FALSE]
    /\ \/ sess[a] = "none" /\ sess' = [sess EXCEPT ![a] = "gone"]
       \/ UNCHANGED sess
    /\ UNCHANGED <<up, lost>>

\* srv_agent_stop
Stop(a) == sess' = [sess EXCEPT ![a] = "gone"]

\* srv_agent_stop for an agent that says that it leaves.
Close(a) ==
    /\ up
    /\ phase[a] = "left" /\ sess[a] = "open"
    /\ Stop(a)
    /\ UNCHANGED <<phase, told, up, lost>>

TellAgent(b) == told' = [told EXCEPT ![b] = TRUE]

\* kill(pid, SIGTERM) reaches the agent, or if that is gone nobody or the one
\* process that has its pid now.
Tell(b) ==
    \/ phase[b] # "left" /\ TellAgent(b)
    \/ phase[b] = "left" /\ UNCHANGED told
    \/ phase[b] = "left" /\ \E c \in Agents : phase[c] # "left" /\ TellAgent(c)

\* srv_agent_kill, asked for by an agent a with a session.
Kill(a, b) ==
    /\ up
    /\ sess[a] = "open" /\ sess[b] = "open"
    /\ a # b
    /\ Tell(b)
    /\ Stop(b)
    /\ UNCHANGED <<phase, up, lost>>

\* A signal from outside.
Signal(a) ==
    /\ phase[a] # "left" /\ ~told[a]
    /\ told' = [told EXCEPT ![a] = TRUE]
    /\ UNCHANGED <<phase, sess, up, lost>>

\* The server stops to handle requests, or its process ends: the sessions
\* are lost sooner or later, and so are the requests to open one.
End ==
    /\ up' = FALSE
    /\ lost' = TRUE
    /\ \E S \in SUBSET Agents :
         sess' = [a \in Agents |-> IF a \in S THEN "gone" ELSE sess[a]]
    /\ UNCHANGED <<phase, told>>

\* A request to open a session that is sent to a server that is not there.
Forget(a) ==
    /\ lost /\ ~up
    /\ sess[a] = "none"
    /\ sess' = [sess EXCEPT ![a] = "gone"]
    /\ UNCHANGED <<phase, told, up, lost>>

Start ==
    /\ ~up
    /\ up' = TRUE
    /\ UNCHANGED <<phase, sess, told, lost>>

Next ==
    \/ \E a \in Agents : \/ Open(a) \/ Begin(a) \/ Leave(a) \/ Close(a)
                         \/ Signal(a) \/ Forget(a)
                         \/ \E b \in Agents : Kill(a, b)
    \/ End \/ Start

Spec == Init /\ [][Next]_vars

-----------------------------------------------------------------------------
\* Type invariant.
TypeOK ==
    /\ phase \in [Agents -> {"new", "serving", "left"}]
    /\ sess \in [Agents -> {"none", "open", "gone"}]
    /\ told \in [Agents -> BOOLEAN]
    /\ up \in BOOLEAN
    /\ lost \in BOOLEAN

\* An agent that serves its client without a session has been told to
\* terminate, unless a server has ended under it.
ServedOrTold ==
    \A a \in Agents :
        phase[a] = "serving" /\ sess[a] # "open" /\ ~lost => told[a]
=============================================================================
