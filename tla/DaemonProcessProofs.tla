------------------------ MODULE DaemonProcessProofs ------------------------
(***************************************************************************)
(* Theorems about DaemonProcess, for every set of daemons and clients and  *)
(* every bound on the operations called and the inodes created.            *)
(***************************************************************************)
EXTENDS DaemonProcess, FiniteSetTheorems, TLAPS

-----------------------------------------------------------------------------
(* The inductive invariant. *)

\* A daemon past the open of daemon.lock has it open.
HasOpen(d) == dpc[d] \in Owning \cup {"lock"}

\* What is open is an inode; unless a doctor removed the file under a daemon,
\* it is the one the path names.
OpenedIsNamed ==
    \A d \in Daemons : HasOpen(d) =>
      /\ lockIno[d] \in Inodes
      /\ ~torn => lockIno[d] = lockFile

\* A daemon past its try_lock has the flock on the inode it opened.
OwnersLock == \A d \in Daemons : Held(d) => flock[lockIno[d]] = d

IInv == TypeOK /\ OpenedIsNamed /\ OwnersLock

\* Two owners have the same inode open, and an flock has one holder.
LEMMA SameOwner ==
    ASSUME IInv, ~torn, NEW d \in Daemons, NEW e \in Daemons, Held(d), Held(e)
    PROVE  d = e
BY DEF IInv, OpenedIsNamed, OwnersLock, HasOpen, Held

-----------------------------------------------------------------------------
(* What a client knows of itself. *)

Diagnostics == [held : BOOLEAN, pid : Daemons \cup {NoOne}]
Caller == [pc : ClientSteps, op : AllOps, got : BOOLEAN, ret : ClientSteps, seen : Diagnostics]

\* The steps clients go to.
LEMMA StepNames ==
    /\ "idle" \in ClientSteps /\ "status" \in ClientSteps /\ "startlock" \in ClientSteps
    /\ "unstale" \in ClientSteps /\ "read" \in ClientSteps /\ "probe" \in ClientSteps
    /\ "unprobe" \in ClientSteps /\ "spawn" \in ClientSteps /\ "poll" \in ClientSteps
    /\ "expired" \in ClientSteps /\ "send" \in ClientSteps /\ "stopping" \in ClientSteps
    /\ "signal" \in ClientSteps /\ "gone" \in ClientSteps /\ "clear" \in ClientSteps
    /\ "unsock" \in ClientSteps /\ "repair" \in ClientSteps /\ "unlockfile" \in ClientSteps
BY DEF ClientSteps

\* A client between two operations, and one that goes on with a start.
LEMMA IdleIsCaller == Idle \in Caller /\ [Idle EXCEPT !.pc = "startlock"] \in Caller
<1>1. NoDiagnostics \in Diagnostics
  BY DEF NoDiagnostics, Diagnostics
<1>2. Idle \in Caller
  BY <1>1 DEF Idle, Caller, ClientSteps, AllOps
<1> QED
  BY <1>2, StepNames DEF Caller

-----------------------------------------------------------------------------
(* Each action preserves the invariant. *)

\* The empty state directory satisfies the invariant.
LEMMA InitEstablishes == Init => IInv
<1> SUFFICES ASSUME Init PROVE IInv
  OBVIOUS
<1>1. me \in [Clients -> Caller]
  BY IdleIsCaller DEF Init
<1>2. me \in [Clients -> [pc : ClientSteps, op : AllOps, got : BOOLEAN, ret : ClientSteps,
                           seen : [held : BOOLEAN, pid : Daemons \cup {NoOne}]]]
  BY <1>1 DEF Caller, Diagnostics
<1>3. TypeOK
  <2>1. created \in 0 .. MaxInodes /\ ops \in 0 .. MaxOps
    BY BoundsAssumption DEF Init
  <2>2. dpc \in [Daemons -> ServerSteps]
    BY DEF Init, ServerSteps
  <2>3. startLock \in [by : Clients \cup {NoOne}, stale : BOOLEAN]
    BY DEF Init
  <2> QED
    BY <1>2, <2>1, <2>2, <2>3 DEF Init, TypeOK
<1>4. OpenedIsNamed /\ OwnersLock
  BY DEF Init, OpenedIsNamed, OwnersLock, HasOpen, Held, Owning
<1> QED
  BY <1>3, <1>4 DEF IInv

\* A step of a daemon, its watchdog and its death included, keeps the types.
LEMMA DaemonKeepsTypes ==
    ASSUME IInv, NEW d \in Daemons, DaemonStep(d) \/ WatchdogIdles(d)
    PROVE  TypeOK'
<1> USE DEF IInv, TypeOK, ServerSteps, Owning, OpenedIsNamed, HasOpen, Goto, Ends
<1>1. CASE OpenLock(d)
  BY <1>1, BoundsAssumption DEF OpenLock, clients, Inodes, NoFile
<1>2. CASE TryLock(d)
  BY <1>2 DEF TryLock, clients
<1>3. CASE WriteMetadata(d)
  BY <1>3 DEF WriteMetadata, clients
<1>4. CASE RemoveOldSocket(d)
  BY <1>4 DEF RemoveOldSocket, clients
<1>5. CASE Bind(d)
  BY <1>5 DEF Bind, clients
<1>6. CASE StatSocket(d)
  BY <1>6 DEF StatSocket, clients
<1>7. CASE WatchdogExits(d)
  BY <1>7 DEF WatchdogExits, clients
<1>8. CASE WatchdogIdles(d)
  BY <1>8 DEF WatchdogIdles, clients, files
<1>9. CASE Nudge(d)
  BY <1>9 DEF Nudge, clients, files
<1>10. CASE ClearMetadata(d)
  BY <1>10 DEF ClearMetadata, clients
<1>11. CASE RemoveSocket(d)
  BY <1>11 DEF RemoveSocket, clients
<1>12. CASE Unlock(d)
  BY <1>12 DEF Unlock, clients
<1>13. CASE Die(d)
  BY <1>13 DEF Die, clients
<1> QED
  BY <1>1, <1>2, <1>3, <1>4, <1>5, <1>6, <1>7, <1>8, <1>9, <1>10, <1>11, <1>12, <1>13
  DEF DaemonStep

\* So does a step of a client.
LEMMA ClientKeepsTypes ==
    ASSUME IInv, NEW c \in Clients, ClientStep(c) \/ ClientDies(c)
    PROVE  TypeOK'
<1> USE StepNames DEF At, Inspect, Caller, Diagnostics
<1>1. TypeOK /\ me \in [Clients -> Caller] /\ me[c] \in Caller
  BY DEF IInv, TypeOK
<1>2. me[c].ret \in ClientSteps
  BY <1>1
<1>3. CASE Status(c)
  <2>1. me' \in [Clients -> Caller]
    <3>1. CASE me' = [me EXCEPT ![c] = Idle]
      BY <1>1, <3>1, IdleIsCaller
    <3>2. CASE At(c, "send")
      BY <1>1, <3>2
    <3>3. CASE me' = [me EXCEPT ![c] = [Idle EXCEPT !.pc = "startlock"]]
      BY <1>1, <3>3, IdleIsCaller
    <3>4. CASE Inspect(c, "signal") \/ Inspect(c, "repair")
      BY <1>1, <3>4
    <3> QED
      BY <1>3, <3>1, <3>2, <3>3, <3>4 DEF Status
  <2> QED
    BY <1>1, <1>3, <2>1 DEF Status, files, daemons, TypeOK
<1>4. CASE ReadMetadata(c)
  BY <1>1, <1>4 DEF ReadMetadata, files, daemons, TypeOK
<1>5. CASE ProbeLock(c)
  <2>1. me' \in [Clients -> Caller]
    <3>1. CASE At(c, "unprobe")
      BY <1>1, <1>2, <3>1
    <3>2. CASE me' = [me EXCEPT ![c].pc = me[c].ret, ![c].seen.held = lockFile # NoFile]
      BY <1>1, <1>2, <3>2
    <3> QED
      BY <1>5, <3>1, <3>2 DEF ProbeLock
  <2> QED
    BY <1>1, <1>5, <2>1 DEF ProbeLock, daemons, TypeOK
<1>6. CASE UnprobeLock(c)
  <2>1. me' \in [Clients -> Caller]
    BY <1>1, <1>2, <1>6 DEF UnprobeLock
  <2> QED
    BY <1>1, <1>2, <1>6, <2>1 DEF UnprobeLock, daemons, LetGo, TypeOK
<1>7. CASE TryStartLock(c)
  <2>1. me' \in [Clients -> Caller]
    <3>1. CASE me' = [me EXCEPT ![c].got = TRUE, ![c].pc = "read", ![c].ret = "spawn"]
      BY <1>1, <1>2, <3>1
    <3>2. CASE At(c, "unstale")
      BY <1>1, <1>2, <3>2
    <3>3. CASE Inspect(c, "spawn")
      BY <1>1, <1>2, <3>3
    <3> QED
      BY <1>7, <3>1, <3>2, <3>3 DEF TryStartLock
  <2> QED
    BY <1>1, <1>7, <2>1 DEF TryStartLock, daemons, NoStartLock, TypeOK
<1>8. CASE RemoveStale(c)
  <2>1. me' \in [Clients -> Caller]
    BY <1>1, <1>8 DEF RemoveStale
  <2> QED
    BY <1>1, <1>8, <2>1 DEF RemoveStale, daemons, NoStartLock, TypeOK
<1>9. CASE Spawn(c)
  <2>1. me' \in [Clients -> Caller]
    <3>1. CASE me' = [me EXCEPT ![c] = Idle]
      BY <1>1, <1>2, <3>1, IdleIsCaller
    <3>2. CASE At(c, "poll")
      BY <1>1, <1>2, <3>2
    <3> QED
      BY <1>9, <3>1, <3>2 DEF Spawn, Return
  <2>2. dpc' \in [Daemons -> ServerSteps]
    BY <1>1, <1>9 DEF Spawn, Goto, ServerSteps, TypeOK
  <2>3. startLock' \in [by : Clients \cup {NoOne}, stale : BOOLEAN]
    <3>1. startLock' \in {startLock, NoStartLock}
      BY <1>9 DEF Spawn, Return
    <3>2. NoStartLock \in [by : Clients \cup {NoOne}, stale : BOOLEAN]
      BY DEF NoStartLock
    <3> QED
      BY <1>1, <3>1, <3>2 DEF TypeOK
  <2>4. UNCHANGED <<lockFile, created, flock, meta, sock, lockIno, sockIno, stop, nudged,
                    signal, ops, torn>>
    BY <1>9 DEF Spawn
  <2> QED
    BY <1>1, <2>1, <2>2, <2>3, <2>4 DEF TypeOK
<1>10. CASE PollStarted(c)
  BY <1>1, <1>10, IdleIsCaller DEF PollStarted, daemons, Return, NoStartLock, TypeOK
<1>11. CASE PollExpires(c)
  BY <1>1, <1>11 DEF PollExpires, files, daemons, TypeOK
<1>12. CASE StartFails(c)
  BY <1>1, <1>12, IdleIsCaller DEF StartFails, daemons, Return, NoStartLock, TypeOK
<1>13. CASE SendShutdown(c)
  BY <1>1, <1>13 DEF SendShutdown, files, Answers, TypeOK
<1>14. CASE Stopped(c)
  BY <1>1, <1>14, IdleIsCaller DEF Stopped, files, daemons, StopDone, TypeOK
<1>15. CASE StopExpires(c)
  BY <1>1, <1>15 DEF StopExpires, files, daemons, TypeOK
<1>16. CASE SignalOwner(c)
  BY <1>1, <1>16, IdleIsCaller DEF SignalOwner, files, TypeOK
<1>17. CASE OwnerGone(c)
  BY <1>1, <1>17, IdleIsCaller DEF OwnerGone, files, daemons, TypeOK
<1>18. CASE ForceClear(c)
  BY <1>1, <1>18 DEF ForceClear, daemons, NoFile, TypeOK
<1>19. CASE ForceRemove(c)
  BY <1>1, <1>19, IdleIsCaller DEF ForceRemove, daemons, StopDone, TypeOK
<1>20. CASE RepairSocket(c)
  <2>1. me' \in [Clients -> Caller]
    <3>1. CASE me' = [me EXCEPT ![c] = Idle]
      BY <1>1, <1>2, <3>1, IdleIsCaller
    <3>2. CASE At(c, "unlockfile")
      BY <1>1, <1>2, <3>2
    <3> QED
      BY <1>20, <3>1, <3>2 DEF RepairSocket
  <2> QED
    BY <1>1, <1>20, <2>1 DEF RepairSocket, daemons, TypeOK
<1>21. CASE RepairLock(c)
  BY <1>1, <1>21, IdleIsCaller DEF RepairLock, daemons, TypeOK
<1>22. CASE ClientDies(c)
  BY <1>1, <1>22, IdleIsCaller DEF ClientDies, daemons, LetGo, TypeOK
<1> QED
  BY <1>3, <1>4, <1>5, <1>6, <1>7, <1>8, <1>9, <1>10, <1>11, <1>12, <1>13, <1>14, <1>15, <1>16, <1>17, <1>18, <1>19, <1>20, <1>21, <1>22 DEF ClientStep

\* Daemons open the file the path names, and only its holder gives a lock up.
LEMMA DaemonKeepsLocks ==
    ASSUME IInv, NEW d \in Daemons, DaemonStep(d) \/ WatchdogIdles(d)
    PROVE  OpenedIsNamed' /\ OwnersLock'
<1> USE NoOneAssumption DEF IInv, TypeOK, Owning, OpenedIsNamed, OwnersLock, HasOpen, Held, Goto, Ends
<1>1. CASE OpenLock(d)
  BY <1>1, BoundsAssumption DEF OpenLock, Inodes, NoFile
<1>2. CASE TryLock(d)
  BY <1>2 DEF TryLock
<1>3. CASE WriteMetadata(d)
  BY <1>3 DEF WriteMetadata
<1>4. CASE RemoveOldSocket(d)
  BY <1>4 DEF RemoveOldSocket
<1>5. CASE Bind(d)
  BY <1>5 DEF Bind
<1>6. CASE StatSocket(d)
  BY <1>6 DEF StatSocket
<1>7. CASE WatchdogExits(d)
  BY <1>7 DEF WatchdogExits
<1>8. CASE WatchdogIdles(d)
  BY <1>8 DEF WatchdogIdles, files
<1>9. CASE Nudge(d)
  BY <1>9 DEF Nudge, files
<1>10. CASE ClearMetadata(d)
  BY <1>10 DEF ClearMetadata
<1>11. CASE RemoveSocket(d)
  BY <1>11 DEF RemoveSocket
<1>12. CASE Unlock(d)
  BY <1>12 DEF Unlock
<1>13. CASE Die(d)
  BY <1>13 DEF Die
<1> QED
  BY <1>1, <1>2, <1>3, <1>4, <1>5, <1>6, <1>7, <1>8, <1>9, <1>10, <1>11, <1>12, <1>13
  DEF DaemonStep

\* A client takes a lock only when it is free, lets go only of its own, and
\* names a daemon whose lock file it removes.
LEMMA ClientKeepsLocks ==
    ASSUME IInv, NEW c \in Clients, ClientStep(c) \/ ClientDies(c)
    PROVE  OpenedIsNamed' /\ OwnersLock'
<1>1. CASE UNCHANGED <<lockFile, flock, dpc, lockIno, torn>>
  BY <1>1 DEF IInv, OpenedIsNamed, OwnersLock, HasOpen, Held
<1>2. CASE ProbeLock(c)
  BY <1>2, NoOneAssumption
  DEF ProbeLock, daemons, IInv, TypeOK, OpenedIsNamed, OwnersLock, HasOpen, Held
<1>3. CASE LetGo(c) /\ UNCHANGED <<lockFile, dpc, lockIno, torn>>
  BY <1>3, DisjointAssumption
  DEF LetGo, IInv, TypeOK, OpenedIsNamed, OwnersLock, HasOpen, Held
<1>4. CASE Spawn(c)
  BY <1>4 DEF Spawn, Goto, IInv, TypeOK, OpenedIsNamed, OwnersLock, HasOpen, Held, Owning
<1>5. CASE RepairLock(c)
  BY <1>5 DEF RepairLock, daemons, IInv, TypeOK, OpenedIsNamed, OwnersLock, HasOpen, Held
<1> QED
  BY <1>1, <1>2, <1>3, <1>4, <1>5
  DEF ClientStep, Status, ReadMetadata, UnprobeLock, TryStartLock, RemoveStale, PollStarted,
      PollExpires, StartFails, SendShutdown, Stopped, StopExpires, SignalOwner, OwnerGone,
      ForceClear, ForceRemove, RepairSocket, ClientDies, files, daemons

\* Every step preserves the invariant.
LEMMA NextPreserves == IInv /\ [Next]_vars => IInv'
<1> SUFFICES ASSUME IInv, [Next]_vars PROVE IInv'
  OBVIOUS
<1>1. ASSUME NEW d \in Daemons, DaemonStep(d) \/ WatchdogIdles(d) PROVE IInv'
  BY <1>1, DaemonKeepsTypes, DaemonKeepsLocks DEF IInv
<1>2. ASSUME NEW c \in Clients, ClientStep(c) \/ ClientDies(c) PROVE IInv'
  BY <1>2, ClientKeepsTypes, ClientKeepsLocks DEF IInv
<1>3. ASSUME NEW c \in Clients, NEW o \in Ops, Call(c, o) PROVE IInv'
  <2>1. TypeOK'
    <3>1. me' \in [Clients -> Caller]
      <4>1. o \in AllOps /\ me \in [Clients -> Caller]
        BY OpsAssumption DEF Caller, Diagnostics, IInv, TypeOK
      <4> QED
        BY <1>3, <4>1, StepNames DEF Call, Caller
    <3>2. ops' \in 0 .. MaxOps
      BY <1>3, BoundsAssumption DEF Call, IInv, TypeOK
    <3> QED
      BY <1>3, <3>1, <3>2 DEF Call, files, daemons, Caller, Diagnostics, IInv, TypeOK
  <2>2. OpenedIsNamed' /\ OwnersLock'
    BY <1>3 DEF Call, files, daemons, IInv, OpenedIsNamed, OwnersLock, HasOpen, Held
  <2> QED
    BY <2>1, <2>2 DEF IInv
<1>4. CASE StartLockAges
  <2>1. TypeOK'
    BY <1>4 DEF StartLockAges, daemons, clients, IInv, TypeOK
  <2>2. OpenedIsNamed' /\ OwnersLock'
    BY <1>4 DEF StartLockAges, daemons, IInv, OpenedIsNamed, OwnersLock, HasOpen, Held
  <2> QED
    BY <2>1, <2>2 DEF IInv
<1>5. CASE UNCHANGED vars
  BY <1>5 DEF vars, files, daemons, clients, IInv, TypeOK, OpenedIsNamed, OwnersLock, HasOpen, Held
<1> QED
  BY <1>1, <1>2, <1>3, <1>4, <1>5 DEF Next

-----------------------------------------------------------------------------
(* The theorems. *)

\* The invariant holds throughout: an owner has the flock on the inode that
\* daemon.lock names, as DaemonOwnerLockGuard::acquire leaves it, until a
\* doctor removes the file under a daemon.
THEOREM Invariance == Spec => []IInv
BY InitEstablishes, NextPreserves, PTL DEF Spec

\* The files, the daemons and the clients keep their types.
THEOREM TypeCorrect == Spec => []TypeOK
<1>1. IInv => TypeOK
  BY DEF IInv
<1> QED
  BY <1>1, Invariance, PTL

\* At most one daemon owns the state directory, for every number of daemons
\* and clients: what the exclusive try_lock in DaemonOwnerLockGuard::acquire
\* is for.
THEOREM AtMostOneOwner == Spec => []OneOwner
<1>1. IInv => OneOwner
  <2> SUFFICES ASSUME IInv, ~torn
               PROVE  Cardinality({d \in Daemons : Held(d)}) <= 1
    BY DEF OneOwner
  <2>1. CASE {d \in Daemons : Held(d)} = {}
    BY <2>1, FS_EmptySet
  <2>2. ASSUME NEW e \in {d \in Daemons : Held(d)}
        PROVE  Cardinality({d \in Daemons : Held(d)}) <= 1
    <3>1. {d \in Daemons : Held(d)} = {e}
      BY <2>2, SameOwner
    <3> QED
      BY <3>1, FS_Singleton
  <2> QED
    BY <2>1, <2>2
<1> QED
  BY <1>1, Invariance, PTL

\* A daemon that starts or exits never takes the socket or the metadata of
\* the one that serves (remove_file in run_daemon_server is only reached with
\* the owner lock): only a client's cleanup does.
THEOREM OnlyClientsTake == Spec => OnlyCleanupTakes
<1> DEFINE Taken ==
      \A d \in Daemons :
         dpc[d] = "serve" /\ dpc'[d] = "serve" /\ ~torn =>
           /\ sock = d /\ sock' # d => \E c \in Clients : me[c].pc \in {"unsock", "repair"}
           /\ meta[lockIno[d]] = d /\ meta'[lockIno[d]] # d
                => \E c \in Clients : me[c].pc = "clear"
<1>1. IInv /\ [Next]_vars => [Taken]_vars
  <2> SUFFICES ASSUME IInv, Next, NEW d \in Daemons, dpc[d] = "serve", ~torn
               PROVE  /\ sock = d /\ sock' # d
                           => \E c \in Clients : me[c].pc \in {"unsock", "repair"}
                      /\ meta[lockIno[d]] = d /\ meta'[lockIno[d]] # d
                           => \E c \in Clients : me[c].pc = "clear"
    OBVIOUS
  <2>1. CASE sock' = sock /\ meta' = meta
    BY <2>1
  <2>2. ASSUME NEW e \in Daemons, DaemonStep(e) \/ WatchdogIdles(e)
        PROVE  (sock = d => sock' = d) /\ meta'[lockIno[d]] = meta[lockIno[d]]
    <3>1. Held(e) => e = d
      BY SameOwner DEF Held, Owning
    <3> QED
      BY <2>2, <3>1, NoOneAssumption
      DEF DaemonStep, OpenLock, TryLock, WriteMetadata, RemoveOldSocket, Bind, StatSocket,
          WatchdogExits, WatchdogIdles, Nudge, ClearMetadata, RemoveSocket, Unlock, Die, files,
          Held, Owning
  <2>3. ASSUME NEW c \in Clients, ForceClear(c)
        PROVE  sock' = sock /\ me[c].pc = "clear"
    BY <2>3 DEF ForceClear
  <2>4. ASSUME NEW c \in Clients, ForceRemove(c) \/ RepairSocket(c)
        PROVE  meta' = meta /\ me[c].pc \in {"unsock", "repair"}
    BY <2>4 DEF ForceRemove, RepairSocket
  <2>5. ASSUME NEW c \in Clients, ClientStep(c) \/ ClientDies(c)
        PROVE  \/ sock' = sock /\ meta' = meta
               \/ ForceClear(c) \/ ForceRemove(c) \/ RepairSocket(c)
    BY <2>5
    DEF ClientStep, Status, ReadMetadata, ProbeLock, UnprobeLock, TryStartLock, RemoveStale,
        Spawn, PollStarted, PollExpires, StartFails, SendShutdown, Stopped, StopExpires,
        SignalOwner, OwnerGone, RepairLock, ClientDies, files
  <2>6. ASSUME NEW c \in Clients, NEW o \in Ops, Call(c, o)
        PROVE  sock' = sock /\ meta' = meta
    BY <2>6 DEF Call, files
  <2>7. CASE StartLockAges
    BY <2>7 DEF StartLockAges
  <2> QED
    BY <2>1, <2>2, <2>3, <2>4, <2>5, <2>6, <2>7 DEF Next
<1> QED
  BY <1>1, Invariance, PTL DEF Spec, OnlyCleanupTakes
============================================================================
