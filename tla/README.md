# A TLA+ verification of of-config

of-config makes an Open vSwitch configurable over NETCONF.  This directory
models the run-time behaviour of `src/server/`: the processes and the two
transports between them, the registry of sessions, the datastores and their
locks, the rows, files and ports that an edit of running changes, and the SSH
daemon that the server controls.  TLC checks small instances; TLAPS proves, for
every size, the safety properties of both transports and that they implement the
session registry, those of locks and datastores, of the rows of OVSDB, of the settings
outside the transaction and of the control of sshd.  Liveness, and that the D-Bus server with its
locks implements `Locks`, are left to TLC.

Run a check with `tlc -config X.cfg MCModule`, the proofs with
`tlapm M.tla` for each of the `*Proofs` modules (`SocketRegistryProofs` extends
`SocketServerProofs`).
`PROJECT.json` lists the runs, the source lines of every definition, the hazards
and the findings.

## 1. The system

| component | state | operations |
|---|---|---|
| **agent process** (`agent.c`, `agent_comm_socket.c`, `agent_comm_dbus.c`) – one per NETCONF client, started by sshd | position in `main()`, `mainloop`, the connection | connect, get capabilities, announce the session, forward an RPC, ask for a kill, close; signal handler |
| **socket server** (`server_comm_socket.c`) | `agents[0..AGENTS_QUEUE]` (poll slots; slot 0 listens), `connected_agents`, `sock` | `comm_loop`: poll, scan, handlers, accept; `comm_destroy` |
| **D-Bus server** (`server_comm_dbus.c`) – chosen at build time instead of the socket | the well-known name on the bus | `comm_loop`: pop a message, call its handler |
| **session registry** (`server_ops.c`) | list of records: agent id (descriptor number, or bus name), NETCONF id, PID | `srv_agent_new`, `_stop`, `_kill`, look-ups |
| **datastore** (`ofconfig-datastore.c`) | `gds_startup`, `gds_cand`, `startup.xml`, the rollback document, three locks | init, free, lock, unlock, get/edit/copy/delete-config, rollback |
| **edit-config engine** (`edit-config.c`) | none of its own | checks, then delete, remove, replace, create, merge over two XML trees, and the same in OVSDB for running |
| **OVSDB access** (`ovs-data.c`) | the IDL connection, the open transaction, `cs_id` | `txn_*`, readers, `of_post_ports` |
| **sshd control** (`netconf-server-transapi.c`) | `sshd_listen` (text collected for the configuration file), `sshd_pid` | transAPI callbacks that describe listening addresses, rewrite sshd_config, start, reload and stop sshd |
| **of-config transAPI** (`ofconfig-transapi.c`) | none | state data, empty callbacks |
| **server process** (`server.c`) | `mainloop` | start, loop, signals, end |

Interactions.  An agent sends requests over its connection; the server, one
thread, handles one request at a time and calls libnetconf, which calls the
datastore functions.  `srv_agent_kill` goes round the connection: it signals
the agent's PID.  The datastore calls `edit-config.c`, which changes the XML
tree in memory and, for running, calls `txn_*` of `ovs-data.c`.

What is hard here: agents end at any point of a request (crash, one signal, two
signals) and the server sees the remains in any order; descriptor numbers are
reused while they serve as identifiers; the slot array and the queue of
connections are bounded; D-Bus calls time out and are executed later;
changes of running take several steps, one of them a commit in the middle;
rollback relies on a snapshot of the right operation; startup is in memory
until the process ends.  Rows of OVSDB refer to each other, OVSDB collects some of
them by itself, and an edit must leave no reference behind in any order of its
elements.  Files, devices and OpenFlow ports change at once, while the transaction
that belongs to them may still be given up.  sshd reads its file, ends and handles
signals when it likes.

What makes each part correct:

* sessions: a record belongs to the connection (or bus name) that announced it,
  disappears for a reason, and its agent is told; every request is answered;
  every connection is accepted;
* datastores: one transaction at a time; failed edits leave OVSDB alone; a
  copy replaces everything; a rollback restores what was there; startup
  survives a restart; operations end;
* locks: a lock has a living session, and is released when the session ends;
* rows, files and ports: what a successful edit asked for is what running shows;
  references lead to rows; shared rows live as long as they are needed;
* sshd: one daemon at most that was not told to end, with the configuration of the last change.

## 2. Modules

| module | models |
|---|---|
| `SessionRegistry` | what the registry of sessions promises, whatever the transport (abstract) |
| `SocketServer` | agents + socket server + registry; implements `SessionRegistry` |
| `DBusServer` | agents + D-Bus server + registry; implements `SessionRegistry` |
| `Locks` | datastore locks on top of `SessionRegistry` (extends it) |
| `DBusLocks` | datastore locks in the D-Bus server (extends `DBusServer`); implements `Locks` |
| `Datastore` | datastores, top of the edit engine, transactions |
| `OvsRows` | rows of OVSDB with references, and the document read from them |
| `OvsEffects` | certificates, tunnels, device and OpenFlow settings: what an edit changes outside the transaction |
| `SshdControl` | callbacks of the NETCONF server module, the configuration file, sshd |
| `SocketServerProofs`, `SocketRegistryProofs`, `DBusServerProofs`, `LocksProofs`, `DatastoreProofs`, `OvsRowsProofs`, `OvsEffectsProofs`, `SshdControlProofs` | theorems |
| `MC*` | model values for the runs |

Operators commented as a *bug* or a *variant* (`FullLate`, `TxnAbortLater`, ...) are not
part of any specification: they are the mutations that show the properties can
fail.

### SessionRegistry and the refinement

An agent is `new`, `serving` its client or has `left`; its session does not exist
yet (`none`), is `open` or `gone`; `told` says that its process has been told to
terminate.  `Open`, `Close`, `Kill` are `srv_agent_new`, `srv_agent_stop` and
`srv_agent_kill`.  `Kill` needs a sender with a session and tells the agent before
the session is gone; nobody kills the own session; `Close` is only for an agent that has left.  `lost` records that
a server has ended: sessions may be gone without their agents knowing.

Both transports carry the refinement mapping at their end (`PhaseOf`, `SessOf`,
`Registry`) and are checked against `ImplementsRegistry == Registry!Spec`.  In
`SocketServer` a session is `none` also while its announcement is unread in the
socket of an agent that has died; in `DBusServer` while it is queued at the bus.  `Kill` tells the
agent of the session if it still serves a client; it may tell others as well (`Tell`), since a record that is
left of a dead agent names a pid that may belong to somebody else by now.  Over D-Bus an agent can
kill its own session, against the comment at `server_comm_dbus.c:515`; the D-Bus server is checked
against the registry where no agent asks for that (`NoOwnKill`), and `dbus_ownkill` shows the rest.

### SocketServer

`pc[a]` is the position of agent `a` in `main()`: `new`, waiting for the
capabilities (`caps`), in `nc_session_accept` (`accepting`), waiting for the answer
to the announcement (`set`), in the main loop (`ready`), waiting for an RPC or a
kill (`op`, `kill`), at the `cleanup` label, waiting for the answer to the close
(`close`), `exited`.  The kernel's part is `backlog` (the listen queue), `inbox` and
`outbox` (the two directions of each stream, one element per message) and
`fds` (which agent is behind a descriptor of the server).  The server has
`slot`, `connected_agents`, `listening` and `agents` as in the code, and its
place in `comm_loop`: `loop`, `revents` (what `poll` reported and the scan has not
handled) and `ret`.

One action of the server is one iteration of the scan: `HangUp` (the branch for
`POLLHUP`), or one handler (`GetCapabilities`, `SetSession`, `CloseSession`, `KillSession`,
`KillSessionError`, `ProcessOperation`); then `Accept`, `AcceptDone`, `AcceptFails`.
Everything between two of them can interleave with agents, signals and crashes.
`poll` results are a snapshot: an agent that dies during the scan is noticed in the next pass only.

Facts about the kernel that are assumed: `accept` returns the lowest free
descriptor; `listen(n)` queues `n + 1` connections; a signal may interrupt a `recv`
that blocks (`sa_flags = 0`), or come just before it; a connection whose peer
exited is reported as hung up even when requests are still unread; no two living processes have the same
pid (`PidFree`), but a pid can be used again.

Three branches of `comm_loop` are left out: `poll` fails, the listening socket has an error, a
message has an unknown type (`server_comm_socket.c:396-403`, `476-479`, `460-463`).

### DBusServer

The bus is one queue of calls.  `Send` is
`dbus_connection_send_with_reply_and_block`; the reply is delivered only to the call
that still waits for it (`calls[a]` is the serial number).  `Timeout` lets the
agent go on while the call stays queued.  `CommDestroy` is the fire-and-forget
CloseSession and the end of the process.  `"dead"` is an end without it: a crash
or a second signal.  `ServerEnds`/`ServerStarts` model the loss of all sessions under
living agents; the bus answers the calls the server had not.  `Kills` is the set of pairs of an agent and the
session it may ask to kill.  Bus names and
NETCONF identifiers are different values (`BusName`, `NcSid`), since the code
compares one with the other.

### Datastore

A document is `Null` (no document), `Empty` (no root) or the set of items under
`capable-switch`.  Three kinds of items behave differently in the code: the `id`
(a variable of the server, changed at once), rows that OVSDB collects when no
bridge refers to them (`Collected`), and rows that stay until deleted (`Kept`:
Queue, QoS).  startup and candidate change in one step.  An edit has items to delete and others, which are created,
merged, replaced or removed, by an operation of their own or by the default one; or the root has an operation
(`Edits`).  A change of running is
a sequence of steps kept in `work`: `Wipe` (`txn_del_all` with its commit; also the first step of a
replace of the root),
`EditDelete`, `EditRemove` and `EditCreate` for single items, `TxnCommit`, `PostPorts`; each may fail,
and the process may crash between any two.  `Spin` is a loop of the code that
has no end.  `last` is a history variable with what the last operation found.

### Locks

`lock[d]` is the identifier that `ofcds_lock` stores; only `ofcds_unlock` clears it.
The module extends `SessionRegistry`, so it speaks of either transport.  What
connects the two is outside this repository: `srv_agent_stop` frees the session,
and libnetconf's `nc_session_free` unlocks what the session holds (`BreakLocks`,
external; `ofcds_funcs.is_locked` is NULL at `ofconfig-datastore.c:615`).

`Locks` says nothing about when a session is closed, and over sockets there is no such promise: an agent that was interrupted in a request
sends CLOSE, takes the late answer for its own and exits, and `POLLHUP` makes the server give up the slot with
CLOSE unread, so that session and lock stay.  Over D-Bus there is one.  `DBusLocks` adds the locks to the handlers of `DBusServer`, with the fairness of that
module only, and `LockReleased` says that the lock of an agent that left in order is released.  A request
to lock may be executed after its agent has left, which is what makes it more than the sum of two handlers.

### OvsRows

A state of the database is a record of sets and references: `bp`, `bt`, `bc` are the
columns of a bridge for ports, flow tables and controllers, `pq` a port's QoS, `qos` a
QoS's map from keys to queues.  Every `txn_` function is an operator from rows to the
set of possible results, empty for an error; where the code takes the first
matching row of a hash table, any of them is possible.  References to deleted rows
are kept in `dead` and `lost`: OVSDB refuses to commit while there is one (`CommitRefused`).  `dead` are those that
the IDL's copy of the column still shows.  When the column is written, the transaction gets exactly the rows that are
passed, deleted ones included, and the IDL's copy leaves these out (`SetPorts`, `SetTables`): they are `lost`, and
`txn_del_bridge_port` and `txn_del_bridge_flowtable` do not find them any more and are silent.  `Collect` is OVSDB's garbage collection.  `cache` is the
protocol of a controller in the IDL's own memory, which one function changes in
place.

An edit is `Begin`, then deletions, then writes (the order of `edit_operations`), then
`Commit` or an abort at the first error.  `doc` is the document that the elements are
looked up in, `ask` the document the client asks for.  A replace of a whole element is its
deletion and its creation.

### OvsEffects

Results of a `txn_` function are a state and whether it failed; a failure may
leave a file truncated (`Broken`).  `db` has the columns that the abort restores; `now` has
columns, files and ports as they are.  `Begin` reads the document.  A port that OpenFlow does not list, or all of them
when the switch is out of reach, has no settings there but the `admin_state` of OVSDB, which may be
old (`Views`); `ask` has the settings as they are, since leaves that the edit does not see remain as they were.
The result of `dev_set_ethtool` is ignored by the code, so a rate may be refused in silence
(`DevSetEthtool`).  `seen` collects what successful edits asked
for, `dirty` the parts of the configuration for which running is not promised to show it
(see section 3).

### SshdControl

`phase` is where a change of `<listen>` is: children are described (`OnePort`,
`ManyPorts`), the file is opened, which empties it, and written.  `daemon[p]` is the
daemon's side: `forked` (its signal handler is not set, SIGHUP ends it), `running`,
`reload` (SIGHUP is pending), `term` (SIGTERM is pending: `kill_sshd` does not wait), `ended`.  A daemon holds its addresses until it has ended, and one that
reads the file passes over addresses that are taken (`Taken`), or ends if there is no other.  It reads the file at a moment of its own, also
between `OpenFile` and `WriteFile`.  Text for one port has no newline at its end, so
that an interface after it gives a line sshd rejects (`Garbled`); no text at all is
written as `(null)`, which sshd rejects as well.  libnetconf calls callbacks for changed children
only, before that of their parent; after a failed one it goes on or stops, as the
error option says.  Its rollback option, which calls callbacks again, is not modelled.

## 3. Runs

| run | instance | shows |
|---|---|---|
| `socket_slots` | 3 agents, 2 slots, 2 descriptors, 1 fault, a pid that is cut to that of another agent | slot array, counter, listening flag, descriptors and records agree (`SlotAccounting`, `SessionIdentity`); only dead agents lose their slot (`StaleSessionsAreDead`); the socket is given up only after leaks (`CommDownNeedsLeaks`) |
| `socket_faults` | 3 agents, 2 slots, 1 fault, kills of two of them, a pid that is used again | `TypeOK`; answers are paired with requests, and RPCs run in the session of their sender (`AnswersPaired`); `KilledIsSignalled`; the sessions are those of the registry (`ImplementsRegistry`) |
| `socket_live` | 3 agents, 2 slots, fair, kills | no request and no connection waits for ever; the agent of a killed session ends |
| `dbus` | 2 agents, 5 calls each, 1 fault, 1 restart, 1 datastore, kills of the other's session, fair | `TypeOK`; no session remains of an agent that left in order, in spite of timeouts and late execution (`DepartedIsClosed`, `SessionEventuallyRemoved`); no lock without a session (`LockHasSession`); sessions and locks are those of the registry and of `Locks` (`ImplementsRegistry`, `ImplementsLocks`); calls are answered (`AnsweredEventually`); agents that leave in order do not block others (`LockReleased`) |
| `ds_running` | 1 collected and 1 kept row, 2 deletes per edit, 1 crash, fair | `SingleTransaction`, `FailedEditKeepsOVSDB`, `CopyReplaces`, `RollbackUndoes`; every operation ends, but for edits of the whole document (`OperationsReturn`) |
| `ds_xml` | startup and candidate | `RollbackUndoes` after partial edits, `CleanRestartKeepsStartup` |
| `ovs_queues` | 1 bridge, 2 ports, 2 queues, 2 ids, 3 QoS rows, 2 elements per edit, symmetry | references lead to rows (`TypeOK`); a successful edit is read back (`ReadBack`); what OVSDB refuses has a reason (`RefusedForReason`); QoS keys are queue numbers (`KeyIsId`) |
| `ovs_bridges` | 2 bridges, 2 ports, 1 flow table, 1 controller id, 3 elements per edit, symmetry | `ReadBack`, `RefusedForReason` |
| `ovs_effects` | 2 resource-ids, 2 texts, a usual device, a bare device and an internal port, 2 elements per edit, any step may fail, OpenFlow may not list the port, symmetry | the SSL row lives as long as a certificate (`RowInUse`); running shows what was asked (`ShownAsAsked`) |
| `sshd` | 2 ports, 2 interfaces, 3 pids, 4 changes or starts | daemons not told to end are known (`SshdKnown`), `LastChangeServed`, `SshdLostForReason` |

Runs that end with a counterexample, each against a line of the code:

| run | property | against | shows |
|---|---|---|---|
| `ds_hang` | `EveryEditReturns` | `edit-config.c:953` | deleting the root of running, or a default replace that fails, never ends |
| `dbus_ownkill` | `OwnSessionKept` | `server_comm_dbus.c:515` | an agent kills its own session |

What the properties deliberately leave open, because the code does not provide
it: the session of an agent that crashed stays in the registry for ever, over
both transports (`StaleSessionsAreDead` and `DepartedIsClosed` speak of the others);
a copy-config to running, or a rollback, keeps OVSDB's content when the capable-switch had no id
(`CopyReplaces`, `RollbackUndoes`); a replace of the root that fails leaves a wiped database, and an edit
that fails in `of_post_ports` is in the database (`FailedEditKeepsOVSDB`); a crash loses the changes of startup since the start
(`CleanRestartKeepsStartup`); an agent that outlives a restart of the D-Bus server stays
without a session (`lost` in the registry); a lock of an agent that crashed, or that left over a socket with its
CLOSE unread, stays until its session is killed (`LockReleased` speaks of the others, over D-Bus).

Other places where the code does not do what one would expect, met while
modelling, and how the modules treat them:

* Sessions.  A broken connection leaves its descriptor open although the comment at
  `server_comm_socket.c:417` says that it is closed.  The PID is cut to 16 bits by the
  agent (`PidMod`): an agent whose PID does not fit is not reached by a kill of its session, and another process is.  A
  record that is left of a dead agent can outlive its PID, and a kill of that session signals the next owner.  The check against killing the own session over D-Bus
  (`server_comm_dbus.c:518`) compares a session identifier with a bus name and never applies (`dbus_ownkill`).
* Transactions.  `txn_del_all` commits in the middle of a change, and the capable-switch id
  changes at once: an abort does not undo them.  A replace of the root is such a change.  An edit that is refused
  leaves what a rollback would restore, so that a rollback after it takes back an earlier operation.  An edit that
  deletes the id and adds a row cannot be rolled back: running shows nothing, and the row stays.
* References (`OvsRows`).  An edit that deletes a port, or a flow table, and two references of its bridge, its own one last, is refused (`Crossed` in `RefusedForReason`; `ovs_bridges` reaches it): the first reference that is removed hides the other one from the IDL.
* Ports and QoS (`OvsRows`; excluded by `Plain`).  A QoS stays when OVSDB collects its port, so a queue
  can be in two QoS, and `txn_mod_queue_id` (`ovs-data.c:2569`) changes the first one found.  Two queues
  with the same number at one port take each other's place.  A port or flow table that is deleted and created in one
  edit loses its bridge, which refers to the old row.
* Controllers (`OvsRows`).  They are looked up by id among those of all bridges
  (`ovs-data.c:4228`, excluded by `Plain`).  A change of the protocol (`4334`) and the deletion of the port
  are written into the IDL's memory and not into the transaction: running shows the
  change and the switch never gets it.  `ReadBack` is about what running shows.
* Certificates (`OvsEffects`, `spoilt`).  Removing the certificate of the owned entry clears the column of
  the external one (`ovs-data.c:3446`), which running then hides and which cannot be added
  again under another id.  Deleting or replacing a `private-key` removes the certificate
  (`edit-config.c:1268`).
* Ports (`OvsEffects`, `spoilt`).  The administrative state is tested with `&& IFF_UP`, so its deletion
  reports success and does nothing for a device with any flag (`ovs-data.c:1968`).  A tunnel that
  changes its type keeps the options of the old one; `checksum-present` is neither created nor deleted
  with its tunnel.  A driver that refuses a rate is not noticed (`ovs-data.c:2255`, `2303`).  The setters spell `symetric` what the readers spell
  `symmetric` (`ovs-data.c:2178`, `791`), so a pause feature is not set; of the four advertised leaves only the
  rate is modelled.
* sshd (`SshdControl`).  Since callbacks exist for changed children only, a change that adds one
  interface makes sshd listen to that one only, and a change that only removes
  one makes sshd end.  Text of a failed change is written by the next one.  SIGHUP ends a daemon that
  has just been forked, as may happen when the startup datastore is applied right after the
  start.  In all these cases, and when sshd ends by itself, `sshd_pid` stays set and
  later changes succeed without a daemon.  A server that crashes leaves its daemon
  on the ports, and one that stops does so until the daemon has handled SIGTERM: a daemon that is started
  meanwhile finds the addresses taken and ends, while the server believes in it.  `sshd_pid` has 16 bits, and a daemon whose pid
  does not fit is never told to end (`PidLimit`).  `LastChangeServed` and `SshdLostForReason` hold besides.

### Bounds

`AGENTS_QUEUE` is 10 in the code and 1 or 2 here: one slot more or less than the
number of agents is what distinguishes "full" from "not full", and three
agents on two slots reach: a full house, a waiting connection, a slot reused in
the pass in which it was freed.  `MaxFds` gives room for one leaked
descriptor or none, so that `accept` fails within the bound.  `MaxFaults` bounds
crashes, outside signals and D-Bus timeouts together; the signals of kills come besides, so that one
fault is enough for an agent that is interrupted twice, or for a crash next to a kill.  `MaxCalls` 5 is
ping, capabilities, announcement and two requests, so that a late reply can meet
the next request.  `MaxDels` 2 allows the same element to be deleted
twice.  `PidMod` and `PidLimit` stand for 2^16; one
agent of `socket_slots` has a pid above it.  `MaxOps` bounds the elements of one edit; two reach a
deletion after a deletion and a write after a deletion, three (`ovs_bridges`) a port that is deleted together with two references of its bridge, and the number of edits is not
bounded, so that any database the edits can lead to is a start of the next one.  `QosRows` leaves one QoS
more than ports, for the one that an earlier port left behind.  `Areas` says
which parts of the configuration the clients of one behaviour of `OvsEffects` edit: the
parts share no state but the transaction.  `MaxChanges` 4 in `SshdControl` is a start and three changes,
or two starts and two changes.

Deadlock is checked in the runs of `Datastore`, `OvsRows` and `OvsEffects`.  The session models may stop: every
agent lives once, and the clients need not go on.

### Fairness

Only steps of code that runs by itself are fair: the server's loop
(`WF(ServerStep)`: one thread that polls), an agent that has an answer to read or
a pending signal to handle, and, in `SocketServer`, an agent told to
terminate that leaves its main loop (`nc_session_recv_rpc` has a timeout).  Clients,
faults, D-Bus timeouts and restarts are never assumed to happen.  In `Datastore`
the server thread goes on with the operation it has begun (`WF(Work)`).  `DBusLocks` has the fairness of `DBusServer`:
the server handles what is queued, and blocked calls return once their reply is there.  `Locks` has none.

## 4. Proofs

`SocketServerProofs` proves, for every set of agents, number of slots and of
descriptors that satisfy `SocketAssumption`:

* `TypeCorrect` – `Spec => []TypeOK`;
* `SlotsAccounted` – `Spec => []SlotAccounting`;
* `SessionsIdentified` – `Spec => []SessionIdentity`;
* `OnlyDeadLoseSlots` – `Spec => []StaleSessionsAreDead`.

None of these is inductive.  The invariant `IInv` adds

* `EventsInv`: what the scan still has to handle is true of the state it finds
  (a hang-up is of an agent that ended, a readable slot is in use, and `ret` covers the
  readable slots) – `poll` results are older than the actions that use them;
* `SlotsInv`, `CountInv`: `SlotAccounting` in parts;
* `AnnounceInv`: an agent announces itself once, with its own identifier, and before
  that there is no trace of its session – otherwise `SetSession` could create a
  second record or one for somebody else.

The proof has one lemma per group of actions.  `AgentInv`: agents change
neither slots nor records.  `HandleEvent` and `FreeSlotCount`: one iteration of the scan
keeps the other events true, and giving up a slot lowers the count by one.
`AcceptInv`: a free slot exists because the server listens.  `StepInv` puts them together.

`SocketRegistryProofs` goes on from there:

* `AnswersArePaired` – `Spec => []AnswersPaired`;
* `CommDownLeaks` – `Spec => []CommDownNeedsLeaks`;
* `KilledAreSignalled` – `Spec => []KilledIsSignalled`, if `PidsFit`;
* `SocketImplementsRegistry` – `Spec => ImplementsRegistry`, if `PidsFit`.

`SInv` adds the streams to `IInv`.  `StreamInv`: requests wait only on a connection of which the
server has an end, and the request to close is the last one of an agent that has left.
`PidInv`: announcement and record have the pid as it was sent.  `PairInv`: until it is told to
terminate an agent has at most one request or one answer outstanding, the one it
waits for.  `CommDownNeedsLeaks` is inductive with these, since `accept` fails only
when the numbers are used up and a free slot means that one of them is not an agent's.
`GrantInv` says that an agent which has been granted a session has it or was told, also
while the answer is on its way.

The refinement is proved agent by agent.  The step of the registry is determined by what happens
to `PhaseOf`, `SessOf` and `told` of one agent, so `OneAgent` says when a change of one agent is a step
of the registry, `Same` that the others stand still; `MoveRefines` and `SendRefines` treat the steps of
agents, `AgentRefines` and `ServerRefines` put the cases together, with `SInv` before and after the step.

`PidsFit` says that pids are below 2^16.  The code needs it: the socket agent sends its pid in 16 bits (Linux starts
with `pid_max` 32768 on small machines, and much more on large ones).  Pids may be used again: that two agents which live at the
same time have different ones (`LivePids`) is an invariant.  A kill of the record of a dead agent may signal another one; the
registry allows it, and does not allow that another session goes.

`DBusServerProofs` proves, about `DBusServer` and `DBusLocks`, for all agents, datastores, numbers of calls, faults and restarts:

* `TypeCorrect` – `Spec => []TypeOK`;
* `DepartedAreClosed` – `Spec => []DepartedIsClosed`;
* `DBusImplementsRegistry` – `Spec => ImplementsRegistry`, if `PidsFit` and `NoOwnKill`: no agent asks
  for the end of its own session.  Pids may be used again here, while the agents of the run have one each;
* `LocksGoWithSessions` – `DSpec => []LockHasSession`.

The invariant adds what the queue of the bus may hold (`QueueInv`: a CloseSession is of an agent that
ended, an announcement of an agent that got that far, with its own identifiers; a call with the
current serial number is the one the agent waits for), the order of the two calls
that matter (`OrderInv`: the announcement is queued once, and before the CloseSession), and that a
session is of an agent that asked for it and will not ask again (`SessionInv`).  Without `OrderInv` a late announcement
could be executed after the CloseSession and leave a session for ever.  `LockHasSession` is
inductive by itself: `LockStep` needs that the sender of a request to lock has a session when the request is executed, not when
it was sent, and `BreakStep` is about any step that takes sessions away.

`DatastoreProofs` proves, for every set of rows and however many operations, failures and crashes:

* `TypeCorrect`, `TransactionIsSingle` – `[]TypeOK`, `[]SingleTransaction`;
* `FailedEditIsAborted` – `[]FailedEditKeepsOVSDB`: nothing is changed, or, by a replace of the root, the collected
  rows are gone; an edit that fails in `of_post_ports` is not covered;
* `CopyIsExact`, `RollbackIsExact` – `[]CopyReplaces`, `[]RollbackUndoes`, where running shows an id, and
  for operations that came to `store_rollback`;
* `RestartKeepsStartup` – `Spec => CleanRestartKeepsStartup`, an action property.

The properties speak of the end of an operation, the invariant of its middle.  `EditInv`: an edit has
not changed OVSDB before its commit, but for the wipe of a replace.  `ReplaceInv`: while running is replaced, the transaction has
deleted all that is in OVSDB, and what it has inserted together with what is left to insert is the
document that is wanted; the same for the `id`, which changes at once.  `RollbackInv`:
a snapshot that can be used is that of the last operation.  `FileInv`: a stopped server
has saved what it had in memory.

`OvsRowsProofs` proves, for all sets of names, numbers and rows that satisfy `RowsAssumption` and edits of any
length:

* `TypeCorrect` – `Spec => []TypeOK`: references lead to rows;
* `KeysAreIds` – `Spec => []KeyIsId`;
* `RefusalsExplained` – `Spec => []RefusedForReason`: a refused edit keeps a reference to a row it deletes, creates that row again, or
  deletes it together with two references of its bridge (`Crossed`);
* `EditsReadBack` – `Spec => []ReadBack`: the document of a plain edit is read back.

`TypeOK` is not inductive: `txn_del_queue` removes one reference to a queue, so a port could be left with an
empty QoS, or with one that is gone, if QoS rows were shared or had a queue twice.  `Good` adds what
excludes it: two ports never share a QoS (`OwnQos`), a queue is once at most in the QoS rows that ports
use (`OnePlace`), what is not a bridge refers to nothing (`NoBridge`), a bridge refers to controllers that
exist (`HasContrs`).  `OnePlace` in turn depends on the document: `txn_add_queue_port` does not look whether another port has the queue,
and is only called where the document has no port for it.  `AskInv` therefore says that the requested document has
every queue, every port of a queue and every reference of a bridge.  While an edit has met nothing ambiguous, `KeyInv`
and `ContrInv` say that keys are numbers and that the controllers of the document are the bridge's own, and `DeadInv`
that each dead reference is one the edit keeps to a row it has deleted, or was hidden by the removal of another one.  Each `txn_` function has a lemma
about the rows it returns, each action one that its results fit (`Fits`), and `HandleInv` does the rest.
The assumption that `QosRows`, `Queues` and `Ctrls` are finite is needed where the code compares a number of
references with 1.

`ReadBack` compares two documents after the commit; `RInv` says what is true in the middle of an edit.
While nothing ambiguous was met, `Told(txn, cache, ask, swap)` holds: the document asked for has exactly the
ports, flow tables, queues, numbers, bridges and controllers of the rows; the protocol of a controller is the one
the transaction wrote, or else the one in the IDL's copy (`Target`); a leafref to a port or a flow table has its
reference among the rows, or leads to a row that the edit has deleted.  Deletion makes the last
case unavoidable: `txn_del_port` takes the reference out of the rows and the document keeps the leafref.  Each
action has a lemma that its results are told by the document it leaves (`Tells`).  The hard ones are about
queues.  `SetQueues` may drop a pair when two have the same key, and the lemmas `...Keeps` show that a result that is not
ambiguous has lost none, so that the port of every other queue stays what it was.  For controllers, `OwnContr`
shows that a controller found by its id alone is the one meant.  At the commit a plain edit has no leafref to
what it deleted (`PlainRefs`), so the document and the references agree in both directions; what `Collect` drops is
what `Kept` leaves out (`CommittedRead`, one case per kind of element); and each queue has one
port at most, so that there is one document to read (`ShownPort`).  `UsedTables` is needed at the start of the next
edit: flow tables are shown by the bridges that use them, and OVSDB keeps no others.

`OvsEffectsProofs` proves, for all ports, certificates, values and lengths of edits that satisfy
`EffectsAssumption`:

* `TypeCorrect`, `RowIsInUse` – `[]TypeOK`, `[]RowInUse`: every `txn_` function, in all its
  outcomes, keeps the types and the SSL row for as long as one of its columns is set (one lemma per function), and so
  do commit and abort;
* `SettingsShown` – `Spec => []ShownAsAsked`.

`ShownAsAsked` speaks of the time between edits, of one document and the last state.  `WInv` keeps two comparisons through an edit, part by part
(`Match`: own and external certificate, requested number, tunnel, key, and the three device settings of each port):
the state as it is with the document asked for, except in parts that were spoilt before this edit and not replaced as a
whole, or that it spoils itself; and the state as an abort would leave it (`Restored`: columns go back,
files, devices and OpenFlow ports do not) with what earlier edits asked for, except in the parts that this edit has touched.
The second one is what makes a failed edit harmless: it becomes the first one when the edit is given up.
The document that was read may differ from the settings as they are in what OpenFlow did not list (`Alike`).
`StillThere` and `KeyHasTunnel` say that what a deletion looks for in the document is there in the rows, and that a key
never outlives its tunnel.  `Absent` must differ from the literal values of leaves; the other
constants need no more than disjointness.

`LocksProofs` proves about `SessionRegistry` and `Locks`, for all sets of agents and
datastores:

* `RegistryTells` – `Spec => []ServedOrTold`, from the invariant that adds the types and that an agent
  that has left is not told any more;
* `LocksImplementRegistry` – `LSpec => Spec`, one case per action: each is a step of the
  registry or leaves it alone.  `LocksTell` follows;
* `LocksHaveSessions` – `LSpec => []LockHasSession`, if `NoAgent` is no agent; with `LTypeOK` it is inductive, and the argument is
  that each action that ends a session breaks its locks.

They are about the abstract modules, and reach the code through the refinements.

`SshdControlProofs` proves about `SshdControl`, if all pids are below `PidLimit` (`PidsFit`):

* `SshdManaged` – `Spec => []SshdKnown`.  A daemon is started only when `sshd_pid` is 0, which is no
  pid, so by `SshdKnown` itself every other one was told to end;
* `ListensToLastChange` – `Spec => []LastChangeServed`.  `LInv` adds that `sshd_listen` is what the
  change in progress has described, is empty between changes, and that a daemon which
  has yet to read the file will find the last change there;
* `SshdNotLost` – `Spec => []SshdLostForReason`.  `SInv` adds that the file can be read whenever the
  daemon gets to it.

Model-checked only: `ImplementsLocks`, and the liveness properties (`AnsweredEventually`, `AcceptedEventually`, `KilledAgentExits`,
`SessionEventuallyRemoved`, `LockReleased`, `OperationsReturn`), since fairness and `ENABLED` are out
of the prover's reach.  Every invariant of a passing run, and every other action property and refinement, is proved.  The inductive invariants
were checked by TLC on the instances of the runs before they were proved.

## 5. Not modelled

* The server blocked in the middle of a message: a message is read in one step.
* Malformed and unknown messages: the agents of this repository send none.  `poll` failing, and errors of the listening
  socket.
* The notification thread; libnetconf's own session monitoring.
* Writers of OVSDB other than the server; a crash in the middle of writing `startup.xml`.
* Matching of XML elements by text, keys, default values, `compact_edit_operations`: the elements
  of an edit are sets of tuples here.
* Readers of state data, which keep no state; columns without references (queue
  options, datapath-id, fail mode, local-ip-address); the exchange of OpenFlow messages; advertised
  features other than the rate, and a `dev_get_ethtool` that fails.
* The rollback error option of libnetconf in the sshd callbacks; descriptors that failed callbacks leak.
* transAPI callbacks of of-config, command line, logging, build, data models.

## 6. Plan

*EditConfig* is what is left: the tree algorithms (`matching_elements`, `check_edit_ops_hierarchy`,
`compact_edit_operations`, merge) as operators against a reference definition of
edit-config, over bounded trees.
