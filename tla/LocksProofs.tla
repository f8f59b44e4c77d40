---------------------------- MODULE LocksProofs ----------------------------
(***************************************************************************)
(* Proofs about SessionRegistry and Locks, for any set of agents and any   *)
(* set of datastores.  Both invariants are inductive together with the     *)
(* types of the variables.                                                 *)
(***************************************************************************)
EXTENDS Locks, TLAPS

-----------------------------------------------------------------------------
(* The registry                                                            *)

RegistryInv == TypeOK /\ ServedOrTold

\* The initial state of the registry satisfies the invariant.
LEMMA RegistryInit == Init => RegistryInv
BY DEF Init, RegistryInv, TypeOK, ServedOrTold

\* Every step of srv_agent_new, srv_agent_stop, srv_agent_kill, of an agent
\* and of the server process keeps the registry's variables in their types.
LEMMA RegistryTypes == TypeOK /\ [Next]_vars => TypeOK'
<1> SUFFICES ASSUME TypeOK, [Next]_vars PROVE TypeOK'
  OBVIOUS
<1> USE DEF TypeOK
<1>1. ASSUME NEW a \in Agents, Open(a) PROVE TypeOK'
  BY <1>1 DEF Open
<1>2. ASSUME NEW a \in Agents, Begin(a) PROVE TypeOK'
  BY <1>2 DEF Begin
<1>3. ASSUME NEW a \in Agents, Leave(a) PROVE TypeOK'
  BY <1>3 DEF Leave
<1>4. ASSUME NEW a \in Agents, Close(a) PROVE TypeOK'
  BY <1>4 DEF Close, Stop
<1>5. ASSUME NEW a \in Agents, Signal(a) PROVE TypeOK'
  BY <1>5 DEF Signal
<1>6. ASSUME NEW a \in Agents, Forget(a) PROVE TypeOK'
  BY <1>6 DEF Forget
<1>7. ASSUME NEW a \in Agents, NEW b \in Agents, Kill(a, b) PROVE TypeOK'
  <2>1. told' \in [Agents -> BOOLEAN]
    BY <1>7 DEF Kill, Tell, TellAgent
  <2>2. QED
    BY <1>7, <2>1 DEF Kill, Stop
<1>8. CASE End
  BY <1>8 DEF End
<1>9. CASE Start
  BY <1>9 DEF Start
<1>10. CASE UNCHANGED vars
  BY <1>10 DEF vars
<1>11. QED
  BY <1>1, <1>2, <1>3, <1>4, <1>5, <1>6, <1>7, <1>8, <1>9, <1>10 DEF Next

\* An agent without a session stays told: srv_agent_kill tells the agent in
\* the step that takes the session away.
LEMMA RegistryStep == RegistryInv /\ [Next]_vars => RegistryInv'
<1> SUFFICES ASSUME RegistryInv, [Next]_vars PROVE RegistryInv'
  OBVIOUS
<1>1. TypeOK'
  BY RegistryTypes DEF RegistryInv
<1> SUFFICES ASSUME NEW c \in Agents,
                    phase'[c] = "serving", sess'[c] # "open", ~lost'
             PROVE  told'[c]
  BY <1>1 DEF RegistryInv, ServedOrTold
<1>2. TypeOK /\ (phase[c] = "serving" /\ sess[c] # "open" /\ ~lost => told[c])
  BY DEF RegistryInv, ServedOrTold
<1> USE DEF TypeOK
<1>3. ASSUME NEW a \in Agents, Open(a) PROVE told'[c]
  BY <1>2, <1>3 DEF Open
<1>4. ASSUME NEW a \in Agents, Begin(a) PROVE told'[c]
  BY <1>2, <1>4 DEF Begin
<1>5. ASSUME NEW a \in Agents, Leave(a) PROVE told'[c]
  BY <1>2, <1>5 DEF Leave
<1>6. ASSUME NEW a \in Agents, Close(a) PROVE told'[c]
  BY <1>2, <1>6 DEF Close, Stop
<1>7. ASSUME NEW a \in Agents, Signal(a) PROVE told'[c]
  BY <1>2, <1>7 DEF Signal
<1>8. ASSUME NEW a \in Agents, Forget(a) PROVE told'[c]
  BY <1>2, <1>8 DEF Forget
<1>9. ASSUME NEW a \in Agents, NEW b \in Agents, Kill(a, b) PROVE told'[c]
  <2>1. CASE c = b
    BY <1>2, <1>9, <2>1 DEF Kill, Tell, TellAgent
  <2>2. CASE c # b
    BY <1>2, <1>9, <2>2 DEF Kill, Tell, TellAgent, Stop
  <2>3. QED
    BY <2>1, <2>2
<1>10. CASE End
  BY <1>10 DEF End
<1>11. CASE Start
  BY <1>2, <1>11 DEF Start
<1>12. CASE UNCHANGED vars
  BY <1>2, <1>12 DEF vars
<1>13. QED
  BY <1>3, <1>4, <1>5, <1>6, <1>7, <1>8, <1>9, <1>10, <1>11, <1>12 DEF Next

\* No agent of the registry serves a client without a session unless it was
\* told to terminate or a server has ended: what srv_agent_kill guarantees.
THEOREM RegistryTells == Spec => []ServedOrTold
<1>1. RegistryInv => ServedOrTold
  BY DEF RegistryInv
<1>2. QED
  BY <1>1, RegistryInit, RegistryStep, PTL DEF Spec

-----------------------------------------------------------------------------
(* The locks                                                               *)

LocksInv == LTypeOK /\ LockHasSession

\* Every step of Locks is a step of the registry, or leaves it alone.
LEMMA LocksRefine == [LNext]_lvars => [Next]_vars
<1> SUFFICES ASSUME LNext \/ UNCHANGED lvars PROVE [Next]_vars
  OBVIOUS
<1>1. ASSUME NEW a \in Agents, Other(a) PROVE Next
  BY <1>1 DEF Other, Next
<1>2. ASSUME NEW a \in Agents, LClose(a) PROVE Next
  BY <1>2 DEF LClose, Next
<1>4. ASSUME NEW a \in Agents, NEW b \in Agents, LKill(a, b) PROVE Next
  BY <1>4 DEF LKill, Next
<1>5. ASSUME NEW a \in Agents, NEW d \in Stores, Lock(a, d) \/ Unlock(a, d)
      PROVE UNCHANGED vars
  BY <1>5 DEF Lock, Unlock
<1>6. CASE LEnd \/ LStart
  BY <1>6 DEF LEnd, LStart, Next
<1>7. CASE UNCHANGED lvars
  BY <1>7 DEF lvars
<1>8. QED
  BY <1>1, <1>2, <1>4, <1>5, <1>6, <1>7 DEF LNext

\* The behaviours of Locks are behaviours of the registry, so what the
\* registry promises holds with locks as well.
THEOREM LocksImplementRegistry == LSpec => Spec
<1>1. LInit => Init
  BY DEF LInit
<1>2. QED
  BY <1>1, LocksRefine, PTL DEF LSpec, Spec

\* The initial state of the locks satisfies the invariant.
LEMMA LocksInit == LInit => LocksInv
BY DEF LInit, Init, LocksInv, LTypeOK, TypeOK, LockHasSession

\* A step keeps the variables of Locks in their types.
LEMMA LocksTypes == LTypeOK /\ [LNext]_lvars => LTypeOK'
<1> SUFFICES ASSUME LTypeOK, [LNext]_lvars PROVE LTypeOK'
  OBVIOUS
<1>1. TypeOK'
  BY LocksRefine, RegistryTypes DEF LTypeOK
<1> SUFFICES lock' \in [Stores -> Agents \cup {NoAgent}]
  BY <1>1 DEF LTypeOK
<1> USE DEF LTypeOK
<1>2. ASSUME NEW a \in Agents,
             \/ Other(a) \/ LClose(a)
             \/ \E b \in Agents : LKill(a, b)
             \/ \E d \in Stores : Lock(a, d) \/ Unlock(a, d)
      PROVE  lock' \in [Stores -> Agents \cup {NoAgent}]
  BY <1>2 DEF Other, LClose, LKill, Lock, Unlock, BreakLocks
<1>3. CASE LEnd \/ LStart
  BY <1>3 DEF LEnd, LStart
<1>4. CASE UNCHANGED lvars
  BY <1>4 DEF lvars
<1>5. QED
  BY <1>2, <1>3, <1>4 DEF LNext

\* A session is taken away together with its locks, and a lock is only given
\* to an open session.
LEMMA LocksStep ==
    ASSUME NoAgent \notin Agents
    PROVE  LocksInv /\ [LNext]_lvars => LocksInv'
<1> SUFFICES ASSUME LocksInv, [LNext]_lvars PROVE LocksInv'
  OBVIOUS
<1>1. LTypeOK'
  BY LocksTypes DEF LocksInv
<1> SUFFICES ASSUME NEW d \in Stores, lock'[d] # NoAgent
             PROVE  sess'[lock'[d]] = "open"
  BY <1>1 DEF LocksInv, LockHasSession
<1>2. LTypeOK /\ TypeOK /\ (lock[d] # NoAgent => sess[lock[d]] = "open")
  BY DEF LocksInv, LockHasSession, LTypeOK
<1> USE DEF LTypeOK, TypeOK
<1>3. ASSUME NEW a \in Agents, Other(a) PROVE sess'[lock'[d]] = "open"
  <2>1. lock'[d] = lock[d] /\ sess[lock[d]] = "open" /\ lock[d] \in Agents
    BY <1>2, <1>3 DEF Other
  <2>2. QED
    BY <1>2, <1>3, <2>1 DEF Other, Open, Begin, Leave, Signal, Forget
<1>4. ASSUME NEW a \in Agents, LClose(a) PROVE sess'[lock'[d]] = "open"
  BY <1>2, <1>4 DEF LClose, Close, Stop, BreakLocks, HeldBy
<1>6. ASSUME NEW a \in Agents, NEW b \in Agents, LKill(a, b)
      PROVE sess'[lock'[d]] = "open"
  BY <1>2, <1>6 DEF LKill, Kill, Stop, BreakLocks, HeldBy
<1>7. ASSUME NEW a \in Agents, NEW e \in Stores, Lock(a, e) \/ Unlock(a, e)
      PROVE sess'[lock'[d]] = "open"
  BY <1>2, <1>7 DEF Lock, Unlock, vars
<1>8. CASE LEnd
  BY <1>2, <1>8 DEF LEnd
<1>9. CASE LStart
  BY <1>2, <1>9 DEF LStart, Start
<1>10. CASE UNCHANGED lvars
  BY <1>2, <1>10 DEF lvars, vars
<1>11. QED
  BY <1>3, <1>4, <1>6, <1>7, <1>8, <1>9, <1>10 DEF LNext

\* A lock never outlives the session that took it, over either transport.
THEOREM LocksHaveSessions == ASSUME NoAgent \notin Agents PROVE LSpec => []LockHasSession
<1>1. LocksInv => LockHasSession
  BY DEF LocksInv
<1>2. QED
  BY <1>1, LocksInit, LocksStep, PTL DEF LSpec

\* With locks as well, no agent serves its client without a session unless it
\* was told to terminate.
THEOREM LocksTell == LSpec => []ServedOrTold
BY LocksImplementRegistry, RegistryTells, PTL
=============================================================================
