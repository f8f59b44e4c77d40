------------------------------- MODULE Locks -------------------------------
(***************************************************************************)
(* The locks of the datastores (ofcds_lock and ofcds_unlock in             *)
(* ofconfig-datastore.c) together with the sessions that hold them.        *)
(*                                                                         *)
(* The sessions are those of SessionRegistry: this is what the locks       *)
(* promise over either transport.  DBusLocks implements it.  A lock is     *)
(* kept in the server as the identifier of the session that took it;       *)
(* nothing but ofcds_unlock ever clears it.  When srv_agent_stop frees a   *)
(* session, libnetconf calls ofcds_unlock for what the session had locked. *)
(***************************************************************************)
EXTENDS SessionRegistry

CONSTANTS
    Stores,     \* the lockable datastores: running, startup, candidate
    NoAgent     \* a value that is no agent

VARIABLE
    lock        \* lock[d]: the session that holds d (locks.running_sid, ...)

lvars == <<vars, lock>>

LInit ==
    /\ Init
    /\ lock = [d \in Stores |-> NoAgent]

\* ofcds_lock, executed in the session of a, which may have left meanwhile.
\* A datastore that is locked, by a itself too, is refused: nothing changes.
Lock(a, d) ==
    /\ up /\ sess[a] = "open"
    /\ lock[d] = NoAgent
    /\ lock' = [lock EXCEPT ![d] = a]
    /\ UNCHANGED vars

HeldBy(a, d) == lock[d] = a

\* ofcds_unlock: refused unless the session holds the lock.
Unlock(a, d) ==
    /\ up /\ sess[a] = "open"
    /\ HeldBy(a, d)
    /\ lock' = [lock EXCEPT ![d] = NoAgent]
    /\ UNCHANGED vars

\* nc_session_free: libnetconf unlocks for the session what it holds.
BreakLocks(a) ==
    lock' = [d \in Stores |-> IF HeldBy(a, d) THEN NoAgent ELSE lock[d]]

LClose(a) == Close(a) /\ BreakLocks(a)

LKill(a, b) == Kill(a, b) /\ BreakLocks(b)

\* The process ends and its memory with it, sessions and locks; or it goes on
\* without communication, and both stay.
LEnd ==
    /\ End
    /\ \/ /\ \A a \in Agents : sess'[a] # "open"
          /\ lock' = [d \in Stores |-> NoAgent]
       \/ /\ \A a \in Agents : sess[a] = "open" => sess'[a] = "open"
          /\ UNCHANGED lock

\* A new server process, with no session.
LStart ==
    /\ \A a \in Agents : sess[a] # "open"
    /\ Start
    /\ UNCHANGED lock

Other(a) ==
    /\ Open(a) \/ Begin(a) \/ Leave(a) \/ Signal(a) \/ Forget(a)
    /\ UNCHANGED lock

LNext ==
    \/ \E a \in Agents :
         \/ Other(a) \/ LClose(a)
         \/ \E b \in Agents : LKill(a, b)
         \/ \E d \in Stores : Lock(a, d) \/ Unlock(a, d)
    \/ LEnd \/ LStart

LSpec == LInit /\ [][LNext]_lvars

-----------------------------------------------------------------------------
\* Type invariant.
LTypeOK ==
    /\ TypeOK
    /\ lock \in [Stores -> Agents \cup {NoAgent}]

\* A lock never outlives the session that took it: with identifiers that are
\* never used again, nobody could unlock the datastore any more.
LockHasSession ==
    \A d \in Stores : lock[d] # NoAgent => sess[lock[d]] = "open"
=============================================================================
