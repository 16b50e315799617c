--------------------------- MODULE DaemonProcess ---------------------------
(***************************************************************************)
(* The life of the uxc daemon as the files of its state directory show it: *)
(* the owner lock (an flock on daemon.lock, which also holds the owner's   *)
(* pid), the socket and start.lock.  Daemon processes start, serve, are    *)
(* watched over by their own watchdog and exit; clients start, stop and    *)
(* repair them, each step of both a system call on those files, in the     *)
(* order of src/daemon.rs.                                                 *)
(*                                                                         *)
(* A file that is removed and created again is another inode: an flock on  *)
(* the removed one excludes nobody.  Asking whether the owner lock is held *)
(* takes it for a moment (daemon_lock_is_held).                            *)
(***************************************************************************)
EXTENDS Naturals, FiniteSets

CONSTANTS
    Daemons,        \* pids of the daemon processes that may be spawned
    Clients,        \* CLI processes
    Ops,            \* the operations clients call: subset of AllOps
    MaxOps,         \* bound: operations called in a behaviour
    MaxInodes,      \* bound: times the owner lock file is created
    NoOne

AllOps == {"start", "restart", "stop", "doctor"}

ASSUME OpsAssumption == Ops \subseteq AllOps
ASSUME NoOneAssumption == NoOne \notin Daemons \cup Clients
ASSUME DisjointAssumption == Daemons \cap Clients = {}
ASSUME BoundsAssumption == MaxOps \in Nat /\ MaxInodes \in Nat \ {0}

Inodes == 1 .. MaxInodes
NoFile == 0

VARIABLES
    lockFile,   \* inode daemon.lock names, NoFile when it does not exist
    created,    \* inodes created so far
    flock,      \* inode -> the process holding the lock on it
    meta,       \* inode -> the pid written in it
    sock,       \* the daemon whose bind made the socket file
    startLock,  \* the client that created start.lock, and its age
    dpc,        \* daemon -> where it is in run_daemon_server
    lockIno,    \* daemon -> inode of its owner lock
    sockIno,    \* daemon -> whose socket file it saw after its bind
    stop,       \* daemon -> should_stop
    nudged,     \* daemon -> request_stop has tried to wake the accept loop
    signal,     \* daemons a fatal signal is on its way to
    me,         \* client -> its step, the operation it runs, whether it created
                \* start.lock, the diagnostics it read and where it goes on after
    ops,        \* operations called so far
    torn        \* a doctor removed the lock file under a daemon that has it open

files == <<lockFile, created, flock, meta, sock, startLock>>
daemons == <<dpc, lockIno, sockIno, stop, nudged, signal>>
clients == <<me, ops>>
vars == <<files, daemons, clients, torn>>

ServerSteps == {"off", "open", "lock", "write", "unlink", "bind", "stat", "serve",
                "clear", "remove", "unlock", "gone"}
Owning == {"write", "unlink", "bind", "stat", "serve", "clear", "remove", "unlock"}
ClientSteps == {"idle", "status", "startlock", "unstale", "read", "probe", "unprobe",
                "spawn", "poll", "expired", "send", "stopping", "signal", "wait", "gone", "clear",
                "unsock", "repair", "unlockfile"}

Held(d) == dpc[d] \in Owning
NoDiagnostics == [held |-> FALSE, pid |-> NoOne]
Idle == [pc |-> "idle", op |-> "start", got |-> FALSE, seen |-> NoDiagnostics, ret |-> "idle"]

Init ==
    /\ lockFile = NoFile /\ created = 0
    /\ flock = [i \in Inodes |-> NoOne]
    /\ meta = [i \in Inodes |-> NoOne]
    /\ sock = NoOne
    /\ startLock = [by |-> NoOne, stale |-> FALSE]
    /\ dpc = [d \in Daemons |-> "off"]
    /\ lockIno = [d \in Daemons |-> NoFile]
    /\ sockIno = [d \in Daemons |-> NoOne]
    /\ stop = [d \in Daemons |-> FALSE]
    /\ nudged = [d \in Daemons |-> FALSE]
    /\ signal = {}
    /\ me = [c \in Clients |-> Idle]
    /\ ops = 0
    /\ torn = FALSE

----------------------------------------------------------------------------
(* The daemon: run_daemon_server.                                          *)

Goto(d, step) == dpc' = [dpc EXCEPT ![d] = step]

\* The process ends: the kernel drops its flock, its files stay.
Ends(d) ==
    /\ Goto(d, "gone")
    /\ flock' = [i \in Inodes |-> IF flock[i] = d THEN NoOne ELSE flock[i]]

\* DaemonOwnerLockGuard::acquire opens daemon.lock and creates it when absent.
OpenLock(d) ==
    /\ dpc[d] = "open"
    /\ lockFile # NoFile \/ created < MaxInodes
    /\ created' = IF lockFile = NoFile THEN created + 1 ELSE created
    /\ lockFile' = IF lockFile = NoFile THEN created + 1 ELSE lockFile
    /\ lockIno' = [lockIno EXCEPT ![d] = lockFile']
    /\ Goto(d, "lock")
    /\ UNCHANGED <<flock, meta, sock, startLock, sockIno, stop, nudged, signal, clients, torn>>

\* Fault for TryLock: WouldBlock is not looked at.
TryLockAnyway(d) ==
    /\ dpc[d] = "lock"
    /\ flock' = [flock EXCEPT ![lockIno[d]] = d] /\ Goto(d, "write")
    /\ UNCHANGED <<lockFile, created, meta, sock, startLock, lockIno, sockIno, stop, nudged,
                   signal, clients, torn>>

\* ... tries its lock without waiting: DAEMON_OWNER_HELD ends the process.
TryLock(d) ==
    /\ dpc[d] = "lock"
    /\ IF flock[lockIno[d]] = NoOne
         THEN flock' = [flock EXCEPT ![lockIno[d]] = d] /\ Goto(d, "write")
         ELSE Goto(d, "gone") /\ UNCHANGED flock
    /\ UNCHANGED <<lockFile, created, meta, sock, startLock, lockIno, sockIno, stop, nudged,
                   signal, clients, torn>>

\* ... and writes the pid in it.
WriteMetadata(d) ==
    /\ dpc[d] = "write"
    /\ meta' = [meta EXCEPT ![lockIno[d]] = d]
    /\ Goto(d, "unlink")
    /\ UNCHANGED <<lockFile, created, flock, sock, startLock, lockIno, sockIno, stop, nudged,
                   signal, clients, torn>>

RemoveOldSocket(d) ==
    /\ dpc[d] = "unlink"
    /\ sock' = NoOne
    /\ Goto(d, "bind")
    /\ UNCHANGED <<lockFile, created, flock, meta, startLock, lockIno, sockIno, stop, nudged,
                   signal, clients, torn>>

\* bind fails on an existing file; the metadata stays behind.
Bind(d) ==
    /\ dpc[d] = "bind"
    /\ IF sock = NoOne
         THEN sock' = d /\ Goto(d, "stat") /\ UNCHANGED flock
         ELSE Ends(d) /\ UNCHANGED sock
    /\ UNCHANGED <<lockFile, created, meta, startLock, lockIno, sockIno, stop, nudged, signal,
                   clients, torn>>

\* The inode the watchdog will look for is the one the path names now.
StatSocket(d) ==
    /\ dpc[d] = "stat"
    /\ IF sock = NoOne
         THEN Ends(d) /\ UNCHANGED sockIno
         ELSE /\ sockIno' = [sockIno EXCEPT ![d] = sock]
              /\ Goto(d, "serve")
              /\ UNCHANGED flock
    /\ UNCHANGED <<lockFile, created, meta, sock, startLock, lockIno, stop, nudged, signal,
                   clients, torn>>

\* Fault for Orphaned: only a socket of another daemon, not a missing one.
OrphanedByOther(d) == sock \notin {NoOne, sockIno[d]}

\* classify_daemon_socket_watch: gone, or another daemon's.
Orphaned(d) == sock # sockIno[d]

\* The watchdog's tick: an orphaned daemon exits on the spot.
WatchdogExits(d) ==
    /\ dpc[d] = "serve" /\ ~stop[d]
    /\ Orphaned(d)
    /\ Ends(d)
    /\ UNCHANGED <<lockFile, created, meta, sock, startLock, lockIno, sockIno, stop, nudged,
                   signal, clients, torn>>

\* ... and one nobody called for the idle window asks itself to stop.
WatchdogIdles(d) ==
    /\ dpc[d] = "serve" /\ ~stop[d]
    /\ ~Orphaned(d)
    /\ stop' = [stop EXCEPT ![d] = TRUE]
    /\ UNCHANGED <<files, dpc, lockIno, sockIno, nudged, signal, clients, torn>>

\* request_stop wakes the accept loop by a connection to the path, which only
\* reaches this daemon while the path is its own.
Nudge(d) ==
    /\ dpc[d] = "serve" /\ stop[d] /\ ~nudged[d]
    /\ nudged' = [nudged EXCEPT ![d] = TRUE]
    /\ dpc' = IF sock = d THEN [dpc EXCEPT ![d] = "clear"] ELSE dpc
    /\ UNCHANGED <<files, lockIno, sockIno, stop, signal, clients, torn>>

\* The way out: clear the metadata, remove the socket path whoever's it is,
\* drop the owner lock.
ClearMetadata(d) ==
    /\ dpc[d] = "clear"
    /\ meta' = [meta EXCEPT ![lockIno[d]] = NoOne]
    /\ Goto(d, "remove")
    /\ UNCHANGED <<lockFile, created, flock, sock, startLock, lockIno, sockIno, stop, nudged,
                   signal, clients, torn>>

RemoveSocket(d) ==
    /\ dpc[d] = "remove"
    /\ sock' = NoOne
    /\ Goto(d, "unlock")
    /\ UNCHANGED <<lockFile, created, flock, meta, startLock, lockIno, sockIno, stop, nudged,
                   signal, clients, torn>>

Unlock(d) ==
    /\ dpc[d] = "unlock"
    /\ Ends(d)
    /\ UNCHANGED <<lockFile, created, meta, sock, startLock, lockIno, sockIno, stop, nudged,
                   signal, clients, torn>>

\* SIGTERM and SIGKILL both end the process: it handles neither.
Die(d) ==
    /\ d \in signal
    /\ dpc[d] \notin {"off", "gone"}
    /\ Ends(d)
    /\ UNCHANGED <<lockFile, created, meta, sock, startLock, lockIno, sockIno, stop, nudged,
                   signal, clients, torn>>

DaemonStep(d) ==
    \/ OpenLock(d) \/ TryLock(d) \/ WriteMetadata(d) \/ RemoveOldSocket(d) \/ Bind(d)
    \/ StatSocket(d) \/ WatchdogExits(d) \/ Nudge(d) \/ ClearMetadata(d) \/ RemoveSocket(d)
    \/ Unlock(d) \/ Die(d)

----------------------------------------------------------------------------
(* Clients.                                                                *)

At(c, step) == me' = [me EXCEPT ![c].pc = step]

\* daemon_status_client: somebody listens behind the path and answers.
Answers == sock # NoOne /\ dpc[sock] = "serve"

NoStartLock == [by |-> NoOne, stale |-> FALSE]

\* The operation returns; dropping the StartLockGuard removes start.lock,
\* whoever created the one that is there now.
Return(c) ==
    /\ me' = [me EXCEPT ![c] = Idle]
    /\ startLock' = IF me[c].got THEN NoStartLock ELSE startLock

\* daemon_stop_local is over: a restart goes on with start_daemon_process.
StopDone(c) ==
    me' = [me EXCEPT ![c] = IF me[c].op = "restart"
                              THEN [Idle EXCEPT !.pc = "startlock"] ELSE Idle]

Call(c, o) ==
    /\ me[c] = Idle /\ ops < MaxOps
    /\ ops' = ops + 1
    /\ me' = [me EXCEPT ![c].op = o, ![c].pc = "status"]
    /\ UNCHANGED <<files, daemons, torn>>

\* inspect_daemon_local_diagnostics, then on to `after`.
Inspect(c, after) == me' = [me EXCEPT ![c].pc = "read", ![c].ret = after]

\* Every operation asks for the status first: ensure_compatible_daemon_running
\* starts a daemon when nobody answers (and restarts one of another version),
\* daemon_stop_local sends the shutdown or turns to the owner, the doctor
\* inspects.
Status(c) ==
    /\ me[c].pc = "status"
    /\ \/ Answers /\ me[c].op \in {"start", "doctor"} /\ me' = [me EXCEPT ![c] = Idle]
       \/ Answers /\ me[c].op \in {"stop", "restart"} /\ At(c, "send")
       \/ ~Answers /\ me[c].op \in {"start", "restart"}
            /\ me' = [me EXCEPT ![c] = [Idle EXCEPT !.pc = "startlock"]]
       \/ ~Answers /\ me[c].op = "stop" /\ Inspect(c, "signal")
       \/ ~Answers /\ me[c].op = "doctor" /\ Inspect(c, "repair")
    /\ UNCHANGED <<files, daemons, ops, torn>>

\* read_daemon_owner_metadata, the first half of the diagnostics.
ReadMetadata(c) ==
    /\ me[c].pc = "read"
    /\ me' = [me EXCEPT ![c].pc = "probe",
                        ![c].seen = [held |-> FALSE,
                                     pid |-> IF lockFile = NoFile THEN NoOne ELSE meta[lockFile]]]
    /\ UNCHANGED <<files, daemons, ops, torn>>

\* daemon_lock_is_held: try the lock ...
ProbeLock(c) ==
    /\ me[c].pc = "probe"
    /\ IF lockFile # NoFile /\ flock[lockFile] = NoOne
         THEN /\ flock' = [flock EXCEPT ![lockFile] = c]
              /\ At(c, "unprobe")
         ELSE /\ me' = [me EXCEPT ![c].pc = me[c].ret, ![c].seen.held = lockFile # NoFile]
              /\ UNCHANGED flock
    /\ UNCHANGED <<lockFile, created, meta, sock, startLock, daemons, ops, torn>>

LetGo(c) == flock' = [i \in Inodes |-> IF flock[i] = c THEN NoOne ELSE flock[i]]

\* ... and let go of it when it was free.
UnprobeLock(c) ==
    /\ me[c].pc = "unprobe"
    /\ LetGo(c)
    /\ At(c, me[c].ret)
    /\ UNCHANGED <<lockFile, created, meta, sock, startLock, daemons, ops, torn>>

\* try_acquire_start_lock: create it; when it exists go on without it, unless
\* it is stale.
TryStartLock(c) ==
    /\ me[c].pc = "startlock"
    /\ \/ /\ startLock = NoStartLock
          /\ startLock' = [by |-> c, stale |-> FALSE]
          /\ me' = [me EXCEPT ![c].got = TRUE, ![c].pc = "read", ![c].ret = "spawn"]
       \/ /\ startLock # NoStartLock
          /\ IF startLock.stale THEN At(c, "unstale") ELSE Inspect(c, "spawn")
          /\ UNCHANGED startLock
    /\ UNCHANGED <<lockFile, created, flock, meta, sock, daemons, ops, torn>>

RemoveStale(c) ==
    /\ me[c].pc = "unstale"
    /\ startLock' = NoStartLock
    /\ At(c, "startlock")
    /\ UNCHANGED <<lockFile, created, flock, meta, sock, daemons, ops, torn>>

\* start_daemon_process: refuse beside an owner, spawn with the start lock.
Spawn(c) ==
    /\ me[c].pc = "spawn"
    /\ \/ /\ me[c].seen.held
          /\ Return(c)
          /\ UNCHANGED dpc
       \/ /\ ~me[c].seen.held /\ me[c].got
          /\ \E d \in Daemons : dpc[d] = "off" /\ Goto(d, "open")
          /\ At(c, "poll")
          /\ UNCHANGED startLock
       \/ /\ ~me[c].seen.held /\ ~me[c].got
          /\ At(c, "poll")
          /\ UNCHANGED <<dpc, startLock>>
    /\ UNCHANGED <<lockFile, created, flock, meta, sock, lockIno, sockIno, stop, nudged, signal,
                   ops, torn>>

PollStarted(c) ==
    /\ me[c].pc = "poll" /\ Answers
    /\ Return(c)
    /\ UNCHANGED <<lockFile, created, flock, meta, sock, daemons, ops, torn>>

\* START_POLL_TRIES are used up: one last look, then the error.
PollExpires(c) ==
    /\ me[c].pc = "poll" /\ ~Answers
    /\ Inspect(c, "expired")
    /\ UNCHANGED <<files, daemons, ops, torn>>

\* Fault for StartFails: the socket of the daemon that did not come up is removed.
StartFailsTidily(c) ==
    /\ me[c].pc = "expired"
    /\ Return(c)
    /\ sock' = NoOne
    /\ UNCHANGED <<lockFile, created, flock, meta, daemons, ops, torn>>

StartFails(c) ==
    /\ me[c].pc = "expired"
    /\ Return(c)
    /\ UNCHANGED <<lockFile, created, flock, meta, sock, daemons, ops, torn>>

\* daemon_stop_client: daemon.shutdown reaches whoever listens now.
SendShutdown(c) ==
    /\ me[c].pc = "send"
    /\ stop' = IF Answers THEN [stop EXCEPT ![sock] = TRUE] ELSE stop
    /\ At(c, "stopping")
    /\ UNCHANGED <<files, dpc, lockIno, sockIno, nudged, signal, ops, torn>>

\* daemon_stop_local polls until nobody answers ...
Stopped(c) ==
    /\ me[c].pc = "stopping" /\ ~Answers
    /\ StopDone(c)
    /\ UNCHANGED <<files, daemons, ops, torn>>

\* ... and turns to the owner when STOP_POLL_TRIES are used up.
StopExpires(c) ==
    /\ me[c].pc = "stopping" /\ Answers
    /\ Inspect(c, "signal")
    /\ UNCHANGED <<files, daemons, ops, torn>>

\* force_kill_daemon_owner: nothing to kill without a holder, an error without
\* a live pid in its metadata.
SignalOwner(c) ==
    /\ me[c].pc = "signal"
    /\ LET pid == me[c].seen.pid
       IN  IF me[c].seen.held /\ pid # NoOne /\ dpc[pid] # "gone"
             THEN signal' = signal \cup {pid} /\ Inspect(c, "gone")
             ELSE me' = [me EXCEPT ![c] = Idle] /\ UNCHANGED signal
    /\ UNCHANGED <<files, dpc, lockIno, sockIno, stop, nudged, ops, torn>>

\* It polls until the lock is free, then clears the metadata and the socket;
\* when the tries are used up it sends SIGKILL, polls again and gives up.
OwnerGone(c) ==
    /\ me[c].pc = "gone"
    /\ \/ ~me[c].seen.held /\ At(c, "clear")
       \/ me[c].seen.held /\ Inspect(c, "gone")
       \/ me[c].seen.held /\ me' = [me EXCEPT ![c] = Idle]
    /\ UNCHANGED <<files, daemons, ops, torn>>

ForceClear(c) ==
    /\ me[c].pc = "clear"
    /\ meta' = IF lockFile = NoFile THEN meta ELSE [meta EXCEPT ![lockFile] = NoOne]
    /\ At(c, "unsock")
    /\ UNCHANGED <<lockFile, created, flock, sock, startLock, daemons, ops, torn>>

ForceRemove(c) ==
    /\ me[c].pc = "unsock"
    /\ sock' = NoOne
    /\ StopDone(c)
    /\ UNCHANGED <<lockFile, created, flock, meta, startLock, daemons, ops, torn>>

\* daemon_doctor_local_blocking: beside an owner it repairs nothing; otherwise
\* it removes the socket ...
RepairSocket(c) ==
    /\ me[c].pc = "repair"
    /\ \/ me[c].seen.held /\ me' = [me EXCEPT ![c] = Idle] /\ UNCHANGED sock
       \/ ~me[c].seen.held /\ sock' = NoOne /\ At(c, "unlockfile")
    /\ UNCHANGED <<lockFile, created, flock, meta, startLock, daemons, ops, torn>>

\* ... and the lock file.
RepairLock(c) ==
    /\ me[c].pc = "unlockfile"
    /\ lockFile' = NoFile
    /\ torn' = (torn \/ \E d \in Daemons :
                          lockFile # NoFile /\ lockIno[d] = lockFile
                            /\ dpc[d] \in Owning \cup {"lock"})
    /\ me' = [me EXCEPT ![c] = Idle]
    /\ UNCHANGED <<created, flock, meta, sock, startLock, daemons, ops>>

\* The CLI process is killed while it starts a daemon: start.lock stays.
ClientDies(c) ==
    /\ me[c].got
    /\ me' = [me EXCEPT ![c] = Idle]
    /\ LetGo(c)
    /\ UNCHANGED <<lockFile, created, meta, sock, startLock, daemons, ops, torn>>

\* START_LOCK_STALE_SECS pass, ten times what a start takes.
StartLockAges ==
    /\ startLock.by # NoOne /\ ~startLock.stale
    /\ ~me[startLock.by].got
    /\ startLock' = [startLock EXCEPT !.stale = TRUE]
    /\ UNCHANGED <<lockFile, created, flock, meta, sock, daemons, clients, torn>>

ClientStep(c) ==
    \/ Status(c) \/ ReadMetadata(c) \/ ProbeLock(c) \/ UnprobeLock(c) \/ TryStartLock(c)
    \/ RemoveStale(c) \/ Spawn(c) \/ PollStarted(c) \/ PollExpires(c) \/ StartFails(c)
    \/ SendShutdown(c) \/ Stopped(c) \/ StopExpires(c) \/ SignalOwner(c) \/ OwnerGone(c)
    \/ ForceClear(c) \/ ForceRemove(c) \/ RepairSocket(c) \/ RepairLock(c)

Next ==
    \/ \E d \in Daemons : DaemonStep(d) \/ WatchdogIdles(d)
    \/ \E c \in Clients : ClientStep(c) \/ ClientDies(c)
    \/ \E c \in Clients, o \in Ops : Call(c, o)
    \/ StartLockAges

\* Daemon processes run and the watchdog's interval ticks; nothing else is
\* owed: clients may be killed, the idle window need not pass.
Fairness == \A d \in Daemons : WF_vars(DaemonStep(d))

Spec == Init /\ [][Next]_vars /\ Fairness

----------------------------------------------------------------------------
(* Properties.                                                             *)

TypeOK ==
    /\ lockFile \in Inodes \cup {NoFile} /\ created \in 0 .. MaxInodes
    /\ flock \in [Inodes -> Daemons \cup Clients \cup {NoOne}]
    /\ meta \in [Inodes -> Daemons \cup {NoOne}]
    /\ sock \in Daemons \cup {NoOne}
    /\ startLock \in [by : Clients \cup {NoOne}, stale : BOOLEAN]
    /\ dpc \in [Daemons -> ServerSteps]
    /\ lockIno \in [Daemons -> Inodes \cup {NoFile}]
    /\ sockIno \in [Daemons -> Daemons \cup {NoOne}]
    /\ stop \in [Daemons -> BOOLEAN] /\ nudged \in [Daemons -> BOOLEAN]
    /\ signal \subseteq Daemons
    /\ me \in [Clients -> [pc : ClientSteps, op : AllOps, got : BOOLEAN, ret : ClientSteps,
                            seen : [held : BOOLEAN, pid : Daemons \cup {NoOne}]]]
    /\ ops \in 0 .. MaxOps
    /\ torn \in BOOLEAN

\* Two daemons never own the state directory at once, whatever clients start,
\* stop and kill in between (start_daemon_process refuses a second daemon,
\* DaemonOwnerLockGuard::acquire is what makes it true); the one exception is
\* a doctor that removed the lock file under a daemon that had it open.
OneOwner == ~torn => Cardinality({d \in Daemons : Held(d)}) <= 1

\* The socket of a serving daemon and the pid in its lock file are only taken
\* away by the cleanup after a forced stop or by a doctor, which both act on
\* diagnostics that may be old, never by another daemon that starts or exits.
OnlyCleanupTakes ==
    [][\A d \in Daemons :
         dpc[d] = "serve" /\ dpc'[d] = "serve" /\ ~torn =>
           /\ sock = d /\ sock' # d => \E c \in Clients : me[c].pc \in {"unsock", "repair"}
           /\ meta[lockIno[d]] = d /\ meta'[lockIno[d]] # d
                => \E c \in Clients : me[c].pc = "clear"]_vars

\* A daemon whose socket path is gone or another's does not linger with the
\* owner lock: unless it was asked to stop, its watchdog ends it.  (With the
\* lock file removed under it a daemon may have taken another's socket for its
\* own, and stays.)
OrphanExits ==
    \A d \in Daemons :
      (dpc[d] = "serve" /\ sock # d) ~> (dpc[d] = "gone" \/ stop[d] \/ torn)
============================================================================
