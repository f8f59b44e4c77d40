---------------------------- MODULE SshdControl ----------------------------
(***************************************************************************)
(* How the server configures, starts, reloads and stops the SSH daemon     *)
(* through which NETCONF clients reach it (netconf-server-transapi.c).     *)
(*                                                                         *)
(* libnetconf calls one callback per changed child of <listen>, then the   *)
(* callback of <listen> itself.  The first ones collect text in            *)
(* sshd_listen; the last one writes the configuration file and starts the  *)
(* daemon or sends it SIGHUP.  The daemon is a process of its own: it      *)
(* reads the file when it gets to it, and it ends some time after it got   *)
(* SIGTERM, until when its addresses are taken.  Nobody waits for it, so   *)
(* the pid of an ended daemon stays taken as long as the server lives.     *)
(***************************************************************************)
EXTENDS Naturals, Sequences, SequencesExt

CONSTANTS
    Ports,       \* values of /netconf/ssh/listen/port
    Default,     \* the port of the default configuration, 830
    Interfaces,  \* entries of /netconf/ssh/listen/interface
    Garbled,     \* a line that sshd does not understand
    Pids,        \* process ids that the kernel may give to the daemon
    PidLimit,    \* sshd_pid holds a pid modulo this, 2^16 in the code
    MaxChanges   \* bound: changes of <listen>, and starts of the server

ASSUME SshdAssumption ==
    /\ Default \in Ports
    /\ Ports \cap Interfaces = {} /\ Garbled \notin Ports \cup Interfaces
    /\ Pids \subseteq Nat \ {0} /\ PidLimit \in Nat \ {0} /\ MaxChanges \in Nat

VARIABLES
    phase,        \* "down", "idle", or where a change is: "describe", "open", "write"
    booting,      \* the change is the one of server_transapi_init
    sshd_pid,     \* the daemon the server knows of, 0 for none
    sshd_listen,  \* lines collected for the configuration file, <<>> is NULL
    file,         \* the configuration file: its state and listening lines
    daemon,       \* per pid: "none", "forked", "running", "reload", "term" or
                  \* "ended"; "reload" and "term" are signals yet to be handled
    lines,        \* per pid: the listening lines whose addresses it holds
    own,          \* the daemons that this run of the server has started
    changes,      \* number of changes so far
    described,    \* history: the lines the callbacks of this change described
    refused,      \* history: a callback has failed since the server started
    short,        \* history: the daemons that found addresses taken
    disturbed     \* history: the daemon ended by itself, got SIGHUP before it
                  \* was ready, or was given a file without listening lines

srv  == <<phase, booting, changes>>
proc == <<daemon, lines, own>>
hist == <<described, refused, disturbed, short>>
vars == <<phase, booting, sshd_pid, sshd_listen, file, daemon, lines, own,
          changes, described, refused, disturbed, short>>

\* p serves or will serve: it has not been told to end.
Alive(p) == daemon[p] \in {"forked", "running", "reload"}

Init ==
    /\ phase = "down" /\ booting = FALSE /\ changes = 0
    /\ sshd_pid = 0 /\ sshd_listen = <<>>
    /\ file = [state |-> "absent", text |-> <<>>]
    /\ daemon = [p \in Pids |-> "none"] /\ lines = [p \in Pids |-> {}]
    /\ own = {} /\ described = <<>> /\ refused = FALSE /\ disturbed = FALSE
    /\ short = {}

-----------------------------------------------------------------------------
(* The callbacks that describe a change.                                   *)

\* The text for one port does not end with a newline.
AddPort(text, port) == <<port>>

AddInterfaceUnended(text, i) == IF text = <<>> THEN <<i>> ELSE Append(Front(text), Garbled)

\* A line per interface goes after the text there is.
AddInterface(text, i) ==
    IF text # <<>> /\ Last(text) \in Ports
    THEN Append(Front(text), Garbled)
    ELSE Append(text, i)

\* A change of <listen> begins.  The child elements it removes have callbacks
\* that do nothing.
Change ==
    /\ phase = "idle" /\ changes < MaxChanges
    /\ phase' = "describe" /\ changes' = changes + 1 /\ described' = <<>>
    /\ UNCHANGED <<booting, sshd_pid, sshd_listen, file, proc, refused, disturbed, short>>

\* callback_srv_netconf_srv_ssh_srv_listen_oneport.  A change has one port or
\* interfaces.
OnePort(port) ==
    /\ phase = "describe" /\ described = <<>>
    /\ sshd_listen' = AddPort(sshd_listen, port) /\ described' = <<port>>
    /\ phase' = "open"
    /\ UNCHANGED <<booting, changes, sshd_pid, file, proc, refused, disturbed, short>>

\* callback_srv_netconf_srv_ssh_srv_listen_manyports.
ManyPorts(i) ==
    /\ phase = "describe" /\ i \notin ToSet(described)
    /\ sshd_listen' = AddInterface(sshd_listen, i)
    /\ described' = Append(described, i)
    /\ UNCHANGED <<srv, sshd_pid, file, proc, refused, disturbed, short>>

\* One of them has no memory: the text is lost.  libnetconf goes on with the
\* other callbacks or drops the change, as the error option says.
DescribeFails ==
    /\ phase = "describe"
    /\ sshd_listen' = <<>> /\ refused' = TRUE
    /\ phase' \in {"describe", "idle"}
    /\ UNCHANGED <<booting, changes, sshd_pid, file, proc, described, disturbed, short>>

Described ==
    /\ phase = "describe" /\ phase' = "open"
    /\ UNCHANGED <<booting, changes, sshd_pid, sshd_listen, file, proc, hist>>

-----------------------------------------------------------------------------
(* Signals to the daemon.                                                  *)

\* kill_sshd sends SIGTERM to the process that sshd_pid names, forgets the pid
\* and does not wait.
Terminated == [p \in Pids |-> IF p = sshd_pid /\ Alive(p) THEN "term" ELSE daemon[p]]

KillSshd == daemon' = Terminated /\ sshd_pid' = 0

\* SIGHUP ends a process that has not set its handler yet.
HungUp ==
    [p \in Pids |->
        IF p # sshd_pid \/ ~ Alive(p) THEN daemon[p]
        ELSE IF daemon[p] = "forked" THEN "ended" ELSE "reload"]

-----------------------------------------------------------------------------
(* callback_srv_netconf_srv_ssh_srv_listen.                                *)

\* What the server does when the callback returns EXIT_FAILURE: the start
\* fails and the module is closed, or the change has failed.
Fail ==
    /\ refused' = TRUE /\ booting' = FALSE
    /\ IF booting THEN phase' = "down" /\ KillSshd
                  ELSE phase' = "idle" /\ UNCHANGED <<sshd_pid, daemon>>

\* XMLDIFF_REM: the daemon is stopped.
ListenRemoved ==
    /\ phase = "open" /\ ~booting /\ described = <<>>
    /\ KillSshd /\ phase' = "idle"
    /\ UNCHANGED <<booting, changes, sshd_listen, file, lines, own, hist>>

\* The template or the configuration file cannot be opened.
OpenFails ==
    /\ phase = "open" /\ Fail
    /\ UNCHANGED <<sshd_listen, file, lines, own, changes, described, disturbed, short>>

\* The configuration file is opened, which empties it.
OpenFile ==
    /\ phase = "open" /\ phase' = "write"
    /\ file' = [state |-> "emptied", text |-> <<>>]
    /\ UNCHANGED <<booting, changes, sshd_pid, sshd_listen, proc, hist>>

\* fstat() or sendfile() fails.
WriteFails ==
    /\ phase = "write" /\ Fail
    /\ UNCHANGED <<sshd_listen, file, lines, own, changes, described, disturbed, short>>

WriteFileKeepsText ==
    file' = [state |-> "written", text |-> sshd_listen] /\ UNCHANGED sshd_listen

\* The template and the lines are in the file, "(null)" when there are none.
WriteFile == file' = [state |-> "written", text |-> sshd_listen] /\ sshd_listen' = <<>>

Reload ==
    /\ phase = "write" /\ sshd_pid # 0
    /\ WriteFile
    /\ daemon' = HungUp
    /\ disturbed' = \/ disturbed \/ described = <<>>
                    \/ \E p \in Pids : p = sshd_pid /\ daemon[p] = "forked"
    /\ phase' = "idle" /\ booting' = FALSE
    /\ UNCHANGED <<changes, sshd_pid, lines, own, described, refused, short>>

MayForkAlways == TRUE

\* The test that chooses between SIGHUP and a new daemon.
MayFork == sshd_pid = 0

\* The child may fail to become sshd; the parent does not learn it (Ends).
Fork(p) ==
    /\ phase = "write" /\ MayFork /\ daemon[p] = "none"
    /\ WriteFile
    /\ daemon' = [daemon EXCEPT ![p] = "forked"] /\ own' = own \cup {p}
    /\ lines' = [lines EXCEPT ![p] = {}] /\ short' = short \ {p}
    /\ sshd_pid' = p % PidLimit
    /\ disturbed' = (described = <<>>)
    /\ phase' = "idle" /\ booting' = FALSE
    /\ UNCHANGED <<changes, described, refused>>

ForkFails ==
    /\ phase = "write" /\ sshd_pid = 0
    /\ WriteFile /\ Fail
    /\ UNCHANGED <<lines, own, changes, described, disturbed, short>>

-----------------------------------------------------------------------------
(* The daemon.                                                             *)

\* sshd refuses a file with a line it does not understand.
Readable(f) == \/ f.state = "emptied"
               \/ f.state = "written" /\ f.text # <<>> /\ Garbled \notin ToSet(f.text)

\* The addresses that other processes hold, those told to end included.
Taken(p) ==
    UNION {lines[q] : q \in {r \in Pids \ {p} : daemon[r] \in {"running", "reload", "term"}}}

\* sshd passes over an address that is taken and ends when it has none left.
ReadFile(p) ==
    LET wanted == ToSet(file.text)
        free   == wanted \ Taken(p)
    IN  /\ daemon[p] \in {"forked", "reload"}
        /\ IF Readable(file) /\ (wanted # {} => free # {})
           THEN /\ daemon' = [daemon EXCEPT ![p] = "running"]
                /\ lines' = [lines EXCEPT ![p] = free]
           ELSE daemon' = [daemon EXCEPT ![p] = "ended"] /\ UNCHANGED lines
        /\ short' = IF Readable(file) /\ free # wanted THEN short \cup {p} ELSE short \ {p}
        /\ UNCHANGED <<srv, sshd_pid, sshd_listen, file, own, described, refused, disturbed>>

\* It handles SIGTERM.
Terminates(p) ==
    /\ daemon[p] = "term" /\ daemon' = [daemon EXCEPT ![p] = "ended"]
    /\ UNCHANGED <<srv, sshd_pid, sshd_listen, file, lines, own, hist>>

\* It is not installed, it fails, somebody else kills it.
Ends(p) ==
    /\ Alive(p) /\ daemon' = [daemon EXCEPT ![p] = "ended"]
    /\ disturbed' = (disturbed \/ p = sshd_pid)
    /\ UNCHANGED <<srv, sshd_pid, sshd_listen, file, lines, own, described, refused, short>>

-----------------------------------------------------------------------------
(* The server.                                                             *)

\* A new server process: the kernel has forgotten the ended daemons of the
\* last one.  server_transapi_init describes the default port first.
Start ==
    /\ phase = "down" /\ changes < MaxChanges
    /\ changes' = changes + 1 /\ booting' = TRUE
    /\ sshd_pid' = 0 /\ own' = {}
    /\ daemon' = [p \in Pids |-> IF daemon[p] = "ended" THEN "none" ELSE daemon[p]]
    /\ \/ /\ phase' = "open" /\ refused' = FALSE
          /\ sshd_listen' = AddPort(<<>>, Default) /\ described' = <<Default>>
       \/ /\ phase' = "down" /\ refused' = TRUE
          /\ sshd_listen' = <<>> /\ described' = <<>>
    /\ disturbed' = FALSE
    /\ UNCHANGED <<file, lines, short>>

\* server_transapi_close, called when the server stops.
Close ==
    /\ phase = "idle" /\ phase' = "down"
    /\ KillSshd
    /\ UNCHANGED <<booting, changes, sshd_listen, file, lines, own, hist>>

\* The server ends without closing the module: a second signal, a crash.
Crash ==
    /\ phase # "down" /\ phase' = "down" /\ booting' = FALSE
    /\ own' = {}
    /\ UNCHANGED <<changes, sshd_pid, sshd_listen, file, daemon, lines, hist>>

Next ==
    \/ Start \/ Close \/ Crash
    \/ Change \/ Described \/ DescribeFails
    \/ \E port \in Ports : OnePort(port)
    \/ \E i \in Interfaces : ManyPorts(i)
    \/ ListenRemoved \/ OpenFails \/ OpenFile \/ WriteFails \/ Reload \/ ForkFails
    \/ \E p \in Pids : Fork(p) \/ ReadFile(p) \/ Terminates(p) \/ Ends(p)

Spec == Init /\ [][Next]_vars

-----------------------------------------------------------------------------
(* A daemon that this run of the server started and that was not told to   *)
(* end is the one sshd_pid names, and none is left after the module was    *)
(* closed: kill_sshd and SIGHUP reach every daemon, and the daemons that   *)
(* can be alive besides have SIGTERM pending.                              *)
SshdKnown == \A p \in own : Alive(p) => phase # "down" /\ sshd_pid = p

(* As long as no callback has failed, a daemon that has read its           *)
(* configuration listens to what the callbacks of the last change          *)
(* described and to nothing of an earlier change; an address is missing    *)
(* only if another process held it when the daemon read the file.          *)
LastChangeServed ==
    phase = "idle" /\ ~refused =>
        \A p \in own : daemon[p] = "running" =>
            /\ lines[p] \subseteq ToSet(described)
            /\ p \notin short => lines[p] = ToSet(described)

(* A daemon the server believes in is really there, unless a callback has  *)
(* failed, the daemon ended by itself, found addresses taken or was        *)
(* signalled before it had set its handler, or a change described no       *)
(* address: the files that the callbacks write never make it end.          *)
SshdLostForReason ==
    phase = "idle" /\ sshd_pid # 0 /\ ~refused /\ ~disturbed /\ sshd_pid \notin short =>
        sshd_pid \in own /\ Alive(sshd_pid)

=============================================================================
