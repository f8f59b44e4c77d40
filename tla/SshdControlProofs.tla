------------------------- MODULE SshdControlProofs -------------------------
(***************************************************************************)
(* Proof that the server loses track of no SSH daemon it starts.  The      *)
(* invariant is SshdKnown with the types of the variables it speaks of: a  *)
(* new daemon is started only when sshd_pid is 0, and 0 is no pid, so that *)
(* by SshdKnown every earlier daemon has ended or has SIGTERM pending.     *)
(* The only assumption beyond SshdAssumption is that pids fit in sshd_pid, *)
(* a u_int16_t.                                                            *)
(***************************************************************************)
EXTENDS SshdControl, TLAPS

PidsFit == \A p \in Pids : p < PidLimit

States == {"none", "forked", "running", "reload", "term", "ended"}

ProcType ==
    /\ daemon \in [Pids -> States]
    /\ own \subseteq Pids

IInv == ProcType /\ SshdKnown

(* A pid that fits is stored as it is. *)
LEMMA PidKept == ASSUME PidsFit, NEW p \in Pids PROVE p % PidLimit = p /\ p # 0
<1>1. p \in Nat /\ PidLimit \in Nat /\ p # 0 /\ p < PidLimit
  BY SshdAssumption DEF PidsFit
<1> QED  BY <1>1

(* kill_sshd leaves no daemon of this server that is not told to end. *)
LEMMA KillReachesAll ==
    ASSUME IInv, KillSshd
    PROVE  /\ daemon' \in [Pids -> States]
           /\ \A p \in own : daemon'[p] \notin {"forked", "running", "reload"}
  BY DEF IInv, ProcType, SshdKnown, KillSshd, Terminated, Alive, States

(* A callback that fails changes no daemon, except that the module is      *)
(* closed when the server is starting.                                     *)
LEMMA FailKeeps == ASSUME IInv, Fail, own' = own, phase \in {"open", "write"} PROVE IInv'
<1>1. CASE booting
  <2>1. KillSshd /\ phase' = "down"  BY <1>1 DEF Fail
  <2> QED  BY <2>1, KillReachesAll DEF IInv, ProcType, SshdKnown, Alive
<1>2. CASE ~booting
  BY <1>2 DEF Fail, IInv, ProcType, SshdKnown, Alive
<1> QED  BY <1>1, <1>2

LEMMA Inductive == ASSUME PidsFit, IInv, [Next]_vars PROVE IInv'
<1> USE DEF IInv, ProcType, SshdKnown, Alive
<1>1. CASE Start
  BY <1>1 DEF Start, States
<1>2. CASE Close
  BY <1>2, KillReachesAll DEF Close
<1>3. CASE Crash
  BY <1>3 DEF Crash
<1>4. CASE Change \/ Described \/ DescribeFails
  BY <1>4 DEF Change, Described, DescribeFails, proc
<1>5. ASSUME NEW port \in Ports, OnePort(port) PROVE IInv'
  BY <1>5 DEF OnePort, proc
<1>6. ASSUME NEW i \in Interfaces, ManyPorts(i) PROVE IInv'
  BY <1>6 DEF ManyPorts, proc, srv
<1>7. CASE ListenRemoved
  BY <1>7, KillReachesAll DEF ListenRemoved
<1>8. CASE OpenFails \/ WriteFails \/ ForkFails
  BY <1>8, FailKeeps DEF OpenFails, WriteFails, ForkFails
<1>9. CASE OpenFile
  BY <1>9 DEF OpenFile, proc
<1>10. CASE Reload
  BY <1>10 DEF Reload, HungUp, States
<1>11. ASSUME NEW p \in Pids, Fork(p) PROVE IInv'
  <2>1. \A q \in own : ~ Alive(q)
    BY <1>11, PidKept DEF Fork, MayFork
  <2>2. sshd_pid' = p  BY <1>11, PidKept DEF Fork
  <2> QED  BY <1>11, <2>1, <2>2 DEF Fork, States
<1>12. ASSUME NEW p \in Pids, ReadFile(p) PROVE IInv'
  BY <1>12 DEF ReadFile, States, srv
<1>13. ASSUME NEW p \in Pids, Ends(p) PROVE IInv'
  BY <1>13 DEF Ends, States, srv
<1>14. ASSUME NEW p \in Pids, Terminates(p) PROVE IInv'
  BY <1>14 DEF Terminates, States, srv
<1>15. CASE UNCHANGED vars
  BY <1>15 DEF vars
<1> QED
  BY <1>1, <1>2, <1>3, <1>4, <1>5, <1>6, <1>7, <1>8, <1>9, <1>10, <1>11,
     <1>12, <1>13, <1>14, <1>15 DEF Next

(* Whatever fails, ends or is signalled, at most one of the daemons that a *)
(* run of the server started is not told to end, sshd_pid names it, and    *)
(* after server_transapi_close there is none.  A daemon with SIGTERM       *)
(* pending may still live.                                                 *)
THEOREM SshdManaged == ASSUME PidsFit PROVE Spec => []SshdKnown
<1>1. Init => IInv
  BY DEF Init, IInv, ProcType, SshdKnown, States
<1>2. IInv /\ [Next]_vars => IInv'
  BY Inductive
<1>3. IInv => SshdKnown
  BY DEF IInv
<1> QED  BY <1>1, <1>2, <1>3, PTL DEF Spec

-----------------------------------------------------------------------------
(***************************************************************************)
(* What the daemon listens to.  While a change is described, opened and    *)
(* written, sshd_listen holds what the change has described; between       *)
(* changes it is empty, and a daemon that has yet to read the file finds   *)
(* the last change there.                                                  *)
(***************************************************************************)

Text ==
    /\ described \in Seq(Ports \cup Interfaces)
    /\ phase = "describe" => described \in Seq(Interfaces)
    /\ phase \in {"describe", "open", "write"} => sshd_listen = described
    /\ phase = "idle" => sshd_listen = <<>>

Read ==
    phase = "idle" =>
        \A p \in own :
            /\ daemon[p] = "running" =>
                  /\ lines[p] \subseteq ToSet(described)
                  /\ p \notin short => lines[p] = ToSet(described)
            /\ daemon[p] \in {"forked", "reload"} => file.state = "written" /\ file.text = described

LInv ==
    /\ lines = [p \in Pids |-> lines[p]]
    /\ refused \in BOOLEAN
    /\ phase # "down" /\ ~ refused => Text /\ Read

(* The text of interfaces grows by a line of its own. *)
LEMMA InterfaceAppended ==
    ASSUME NEW t \in Seq(Interfaces), NEW i \in Interfaces
    PROVE  AddInterface(t, i) = Append(t, i)
<1>1. CASE t = <<>>  BY <1>1 DEF AddInterface
<1>2. CASE t # <<>>
  <2>1. Last(t) \in Interfaces  BY <1>2 DEF Last
  <2> QED  BY <2>1, SshdAssumption DEF AddInterface
<1> QED  BY <1>1, <1>2

LEMMA LInductive == ASSUME PidsFit, IInv, IInv', LInv, [Next]_vars PROVE LInv'
<1> USE DEF LInv
<1>1. CASE Start
  <2>1. ~ refused' => phase' = "open" /\ sshd_listen' = <<Default>> /\ described' = <<Default>>
    BY <1>1 DEF Start, AddPort
  <2>2. <<Default>> \in Seq(Ports \cup Interfaces)  BY SshdAssumption
  <2>3. lines' = lines /\ refused' \in BOOLEAN  BY <1>1 DEF Start
  <2> QED  BY <2>1, <2>2, <2>3 DEF Text, Read
<1>2. CASE Close \/ Crash
  BY <1>2 DEF Close, Crash, hist
<1>3. CASE Change
  BY <1>3 DEF Change, Text, Read, proc
<1>4. CASE Described
  BY <1>4 DEF Described, Text, Read, proc, hist
<1>5. CASE DescribeFails
  BY <1>5 DEF DescribeFails, proc
<1>6. ASSUME NEW port \in Ports, OnePort(port) PROVE LInv'
  BY <1>6 DEF OnePort, AddPort, Text, Read, proc
<1>7. ASSUME NEW i \in Interfaces, ManyPorts(i) PROVE LInv'
  <2>1. lines' = lines /\ refused' = refused /\ phase = "describe" /\ phase' = "describe"
    BY <1>7 DEF ManyPorts, proc, srv
  <2>2. ~ refused => /\ described' \in Seq(Interfaces)
                     /\ described' \in Seq(Ports \cup Interfaces)
                     /\ sshd_listen' = described'
    <3> HAVE ~ refused
    <3>1. described \in Seq(Interfaces) /\ sshd_listen = described
      BY <2>1 DEF Text
    <3>2. described' = Append(described, i) /\ sshd_listen' = Append(described, i)
      BY <1>7, <3>1, InterfaceAppended DEF ManyPorts
    <3>3. Append(described, i) \in Seq(Interfaces)
      BY <3>1
    <3>4. described \in Seq(Ports \cup Interfaces)  BY <2>1 DEF Text
    <3>5. Append(described, i) \in Seq(Ports \cup Interfaces)  BY <3>4
    <3> QED  BY <3>2, <3>3, <3>5
  <2> QED  BY <2>1, <2>2 DEF Text, Read
<1>8. CASE ListenRemoved
  <2>1. \A p \in own : daemon'[p] \notin {"forked", "running", "reload"}
    BY <1>8, KillReachesAll DEF ListenRemoved
  <2> QED  BY <1>8, <2>1 DEF ListenRemoved, Text, Read, hist
<1>9. CASE OpenFails \/ WriteFails \/ ForkFails
  BY <1>9 DEF OpenFails, WriteFails, ForkFails, Fail
<1>10. CASE OpenFile
  BY <1>10 DEF OpenFile, Text, Read, proc, hist
<1>11. CASE Reload
  <2>1. \A p \in own : daemon'[p] \in {"none", "reload", "term", "ended"}
    BY <1>11 DEF Reload, HungUp, IInv, ProcType, SshdKnown, Alive, States
  <2>2. /\ phase = "write" /\ phase' = "idle" /\ UNCHANGED <<lines, own, described, refused>>
        /\ sshd_listen' = <<>> /\ file'.state = "written" /\ file'.text = sshd_listen
    BY <1>11 DEF Reload, WriteFile
  <2> QED  BY <2>1, <2>2 DEF Text, Read
<1>12. ASSUME NEW p \in Pids, Fork(p) PROVE LInv'
  <2>1. \A q \in own : ~ Alive(q)
    BY <1>12, PidKept DEF Fork, MayFork, IInv, ProcType, SshdKnown
  <2>2. \A q \in own' : daemon'[q] \in {"none", "forked", "term", "ended"}
    BY <1>12, <2>1 DEF Fork, IInv, ProcType, Alive, States
  <2>3. /\ phase = "write" /\ phase' = "idle" /\ UNCHANGED <<described, refused>>
        /\ lines' = [q \in Pids |-> lines'[q]] /\ sshd_listen' = <<>> /\ file'.state = "written" /\ file'.text = sshd_listen
    BY <1>12 DEF Fork, WriteFile
  <2> QED  BY <2>2, <2>3 DEF Text, Read
<1>13. ASSUME NEW p \in Pids, ReadFile(p) PROVE LInv'
  <2>1. UNCHANGED <<phase, sshd_listen, file, own, described, refused>>
    BY <1>13 DEF ReadFile, srv, hist
  <2>2. lines' = [q \in Pids |-> lines'[q]]
    BY <1>13 DEF ReadFile
  <2>3. \A q \in Pids \ {p} : /\ daemon'[q] = daemon[q] /\ lines'[q] = lines[q]
                              /\ q \in short' <=> q \in short
    BY <1>13 DEF ReadFile, IInv, ProcType
  <2>4. \/ /\ daemon'[p] = "running" /\ lines'[p] \subseteq ToSet(file.text)
           /\ p \notin short' => lines'[p] = ToSet(file.text)
        \/ daemon'[p] = "ended"
    BY <1>13 DEF ReadFile, IInv, ProcType
  <2>5. daemon[p] \in {"forked", "reload"}  BY <1>13 DEF ReadFile
  <2>6. own \subseteq Pids  BY DEF IInv, ProcType
  <2>7. phase # "down" /\ ~ refused => Text' /\ Read'
    BY <2>1, <2>3, <2>4, <2>5, <2>6 DEF Text, Read
  <2> QED  BY <2>1, <2>2, <2>7
<1>14. ASSUME NEW p \in Pids, Ends(p) PROVE LInv'
  BY <1>14 DEF Ends, Text, Read, srv, IInv, ProcType
<1>15. ASSUME NEW p \in Pids, Terminates(p) PROVE LInv'
  BY <1>15 DEF Terminates, Text, Read, srv, hist, IInv, ProcType
<1>16. CASE UNCHANGED vars
  BY <1>16 DEF vars, Text, Read
<1> QED
  BY <1>1, <1>2, <1>3, <1>4, <1>5, <1>6, <1>7, <1>8, <1>9, <1>10, <1>11,
     <1>12, <1>13, <1>14, <1>15, <1>16 DEF Next

(* As long as no callback fails, no daemon keeps an address of an earlier  *)
(* change, and one misses an address of the last change only if another    *)
(* process held it, however the server's steps and those of the daemons    *)
(* interleave.                                                             *)
THEOREM ListensToLastChange == ASSUME PidsFit PROVE Spec => []LastChangeServed
<1>1. Init => IInv /\ LInv
  BY DEF Init, IInv, ProcType, SshdKnown, States, LInv
<1>2. IInv /\ LInv /\ [Next]_vars => IInv' /\ LInv'
  BY Inductive, LInductive
<1>3. LInv => LastChangeServed
  BY DEF LInv, Read, LastChangeServed
<1> QED  BY <1>1, <1>2, <1>3, PTL DEF Spec

-----------------------------------------------------------------------------
(***************************************************************************)
(* Why a daemon is lost.  A daemon that gets to the file, at any time,     *)
(* finds one it can read.                                                  *)
(***************************************************************************)

SInv ==
    phase # "down" /\ ~ refused /\ ~ disturbed /\ sshd_pid # 0 =>
        /\ sshd_pid \in own /\ Readable(file)
        /\ sshd_pid \notin short => Alive(sshd_pid)

(* What a change has described is a file that sshd understands. *)
LEMMA WrittenIsReadable ==
    ASSUME LInv, phase = "write", ~ refused, described # <<>>, WriteFile
    PROVE  Readable(file)'
<1>1. sshd_listen = described /\ described \in Seq(Ports \cup Interfaces)
  BY DEF LInv, Text
<1>2. Garbled \notin ToSet(described)
  BY <1>1, SshdAssumption DEF ToSet
<1> QED  BY <1>1, <1>2 DEF WriteFile, Readable

LEMMA SInductive == ASSUME PidsFit, IInv, LInv, SInv, [Next]_vars PROVE SInv'
<1> USE DEF SInv
<1>1. CASE Start \/ Close \/ Crash
  BY <1>1 DEF Start, Close, Crash
<1>2. CASE Change \/ Described \/ DescribeFails
  BY <1>2 DEF Change, Described, DescribeFails, Alive, Readable, proc, hist
<1>3. ASSUME NEW port \in Ports, OnePort(port) PROVE SInv'
  BY <1>3 DEF OnePort, Alive, Readable, proc
<1>4. ASSUME NEW i \in Interfaces, ManyPorts(i) PROVE SInv'
  BY <1>4 DEF ManyPorts, Alive, Readable, proc, srv
<1>5. CASE ListenRemoved
  BY <1>5 DEF ListenRemoved, KillSshd
<1>6. CASE OpenFails \/ WriteFails \/ ForkFails
  BY <1>6 DEF OpenFails, WriteFails, ForkFails, Fail
<1>7. CASE OpenFile
  BY <1>7 DEF OpenFile, Alive, Readable, proc, hist
<1>8. CASE Reload
  <2>1. SUFFICES ASSUME ~ refused', ~ disturbed' PROVE SInv'
    OBVIOUS
  <2>2. ~ refused /\ ~ disturbed /\ described # <<>> /\ phase = "write" /\ WriteFile
    BY <1>8, <2>1 DEF Reload
  <2>3. Readable(file)'  BY <2>2, WrittenIsReadable
  <2>4. /\ sshd_pid \in own /\ UNCHANGED <<sshd_pid, own, short>>
        /\ sshd_pid \notin short => Alive(sshd_pid)
    BY <1>8, <2>2 DEF Reload
  <2>5. sshd_pid \in Pids  BY <2>4 DEF IInv, ProcType
  <2>6. daemon[sshd_pid] # "forked"  BY <1>8, <2>1, <2>5 DEF Reload
  <2>7. sshd_pid \notin short => daemon'[sshd_pid] = "reload"
    BY <1>8, <2>4, <2>5, <2>6 DEF Reload, HungUp
  <2> QED  BY <2>3, <2>4, <2>7 DEF Alive
<1>9. ASSUME NEW p \in Pids, Fork(p) PROVE SInv'
  <2>1. SUFFICES ASSUME ~ refused', ~ disturbed' PROVE SInv'
    OBVIOUS
  <2>2. ~ refused /\ described # <<>> /\ phase = "write" /\ WriteFile
    BY <1>9, <2>1 DEF Fork
  <2>3. Readable(file)'  BY <2>2, WrittenIsReadable
  <2>4. sshd_pid' = p  BY <1>9, PidKept DEF Fork
  <2>5. p \in own' /\ daemon'[p] = "forked"  BY <1>9 DEF Fork, IInv, ProcType
  <2> QED  BY <2>3, <2>4, <2>5 DEF Alive
<1>10. ASSUME NEW p \in Pids, ReadFile(p) PROVE SInv'
  <2>1. UNCHANGED <<phase, sshd_pid, file, own, refused, disturbed>>
    BY <1>10 DEF ReadFile, srv
  <2>2. Readable(file)' <=> Readable(file)  BY <2>1 DEF Readable
  <2>3. \A q \in Pids \ {p} : daemon'[q] = daemon[q] /\ (q \in short' <=> q \in short)
    BY <1>10 DEF ReadFile, IInv, ProcType
  <2>4. Readable(file) /\ p \notin short' => daemon'[p] = "running"
    BY <1>10 DEF ReadFile, IInv, ProcType
  <2>5. own \subseteq Pids  BY DEF IInv, ProcType
  <2> QED  BY <2>1, <2>2, <2>3, <2>4, <2>5 DEF Alive
<1>11. ASSUME NEW p \in Pids, Ends(p) PROVE SInv'
  BY <1>11 DEF Ends, Alive, Readable, srv, IInv, ProcType
<1>12. ASSUME NEW p \in Pids, Terminates(p) PROVE SInv'
  BY <1>12 DEF Terminates, Alive, Readable, srv, hist, IInv, ProcType
<1>13. CASE UNCHANGED vars
  BY <1>13 DEF vars, Alive, Readable
<1> QED
  BY <1>1, <1>2, <1>3, <1>4, <1>5, <1>6, <1>7, <1>8, <1>9, <1>10, <1>11,
     <1>12, <1>13 DEF Next

(* The five ways in which the server can be wrong about the daemon it      *)
(* believes in are the only ones: no file that the callbacks write makes   *)
(* the daemon end, at whichever moment it reads it.                        *)
THEOREM SshdNotLost == ASSUME PidsFit PROVE Spec => []SshdLostForReason
<1>1. Init => IInv /\ LInv /\ SInv
  BY DEF Init, IInv, ProcType, SshdKnown, States, LInv, SInv
<1>2. IInv /\ LInv /\ SInv /\ [Next]_vars => IInv' /\ LInv' /\ SInv'
  BY Inductive, LInductive, SInductive
<1>3. SInv => SshdLostForReason
  BY DEF SInv, SshdLostForReason
<1> QED  BY <1>1, <1>2, <1>3, PTL DEF Spec
=============================================================================
