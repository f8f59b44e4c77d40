----------------------------- MODULE DBusLocks -----------------------------
(***************************************************************************)
(* The datastore locks in the server over D-Bus: DBusServer together with  *)
(* what ofcds_lock, ofcds_unlock and nc_session_free do to the locks while *)
(* the handlers run.                                                       *)
(*                                                                         *)
(* It is shown to implement Locks.  Locks says nothing about when a session*)
(* is closed; here an agent that leaves has sent CloseSession, which the   *)
(* server gets to behind the calls it has not handled.                     *)
(***************************************************************************)
EXTENDS DBusServer

CONSTANTS
    Stores,      \* the lockable datastores: running, startup, candidate
    NoAgent      \* a value that is no agent

ASSUME DBusLocksAssumption == NoAgent \notin Agents

VARIABLE
    lock         \* lock[d]: the identifier of the session that holds d

dvars == <<vars, lock>>

NoSession == NcSid(NoAgent)

DInit == Init /\ lock = [d \in Stores |-> NoSession]

\* Variant: ofcds_lock does not ask whether the datastore is locked.
LockAnyOrUnlock ==
    \E s \in Sender, d \in Stores :
        \/ lock[d] # s.ncsid /\ lock' = [lock EXCEPT ![d] = s.ncsid]
        \/ lock[d] = s.ncsid /\ lock' = [lock EXCEPT ![d] = NoSession]

\* The RPC is lock or unlock, and is not refused.
LockOrUnlock ==
    \E s \in Sender, d \in Stores :
        \/ lock[d] = NoSession /\ lock' = [lock EXCEPT ![d] = s.ncsid]
        \/ lock[d] = s.ncsid /\ lock' = [lock EXCEPT ![d] = NoSession]

\* Variant: srv_agent_stop does not free the session.
KeepLocks == UNCHANGED lock

\* The locks of the sessions that this step takes away: srv_agent_stop frees
\* the session, and a process that ends loses all of them.
BreakLocks ==
    lock' = [d \in Stores |-> IF lock[d] \in {s.ncsid : s \in agents \ agents'}
                              THEN NoSession ELSE lock[d]]

DServerStep ==
    \/ ProcessOperation /\ LockOrUnlock
    \/ ServerStep /\ BreakLocks

DNext ==
    \/ DServerStep
    \/ ServerEnds /\ BreakLocks
    \/ /\ \/ ServerStarts
          \/ \E a \in Agents : AgentStep(a) \/ ClientStep(a) \/ Timeout(a) \/ Signal(a) \/ Crash(a)
       /\ UNCHANGED lock

DSpec == DInit /\ [][DNext]_dvars

\* As in DBusServer!FairSpec: the server pops what is queued, and a blocked call
\* returns once its reply is there.
DFairSpec ==
    /\ DSpec
    /\ WF_dvars(DServerStep)
    /\ \A a \in Agents : WF_dvars(Return(a) /\ UNCHANGED lock)

-----------------------------------------------------------------------------
TheLocks ==
    INSTANCE Locks WITH
        phase <- [a \in Agents |-> PhaseOf(a)],
        sess <- [a \in Agents |-> SessOf(a)],
        told <- [a \in Agents |-> /\ PhaseOf(a) # "left"
                                  /\ sigpend[a] \/ mainloop[a]],
        up <- srv = "up",
        lost <- srv = "down" \/ restarts > 0,
        lock <- [d \in Stores |->
                   CHOOSE a \in Agents \cup {NoAgent} : lock[d] = NcSid(a)]

\* The locks change as Locks allows: a session gets a lock that is free and
\* gives back its own, also when its request is executed after the agent gave
\* up, and the locks of a session go with it, whoever takes it away.
ImplementsLocks == TheLocks!LSpec

\* A datastore is never locked for a session that is gone: nobody could unlock
\* it any more, since identifiers are not used again.  Whichever handler takes a
\* session away, for a request that may have waited in the queue, a lock that
\* it still holds goes with it.
LockHasSession ==
    \A d \in Stores : lock[d] # NoSession => \E s \in agents : s.ncsid = lock[d]

\* An agent that left through comm_destroy, told to or not, ends up without a
\* lock for good, even if its request for one is executed after it has gone.
\* (The lock of an agent that crashed stays until its session is killed.)
LockReleased ==
    \A a \in Agents, d \in Stores :
        pc[a] = "exited" ~> [](lock[d] # NcSid(a))
=============================================================================
