---------------------------- MODULE StdioSessions ----------------------------
(***************************************************************************)
(* McpSessionManager (daemon.rs): the daemon's cache of MCP stdio child    *)
(* processes.  A request is handed the session cached under its key, or    *)
(* spawns one; a key may be evicted by a request that claims one of its    *)
(* exclusive keys, reaped when idle, or killed by the user, and a child    *)
(* may exit by itself.                                                     *)
(*                                                                         *)
(* Every map of the manager has a mutex of its own that is held for one    *)
(* look-up or update, which is one step here; the per-key init lock, the   *)
(* exclusive locks and the session's mutex are held across awaits and are  *)
(* modelled as locks.  Dropping idle lock entries is left out: an entry is *)
(* kept while anyone holds or waits for its lock.                          *)
(***************************************************************************)
EXTENDS Integers, Sequences, FiniteSets

CONSTANTS
  Keys,          \* session keys: endpoint, auth, environment and directory
  XKeys,         \* daemon_exclusive keys, ordered as strings are
  Clients,       \* request handlers and subscription jobs
  Cleaner,       \* the task that runs cleanup_idle
  None,
  Requests,      \* the requests that may arrive
  Lifecycles,    \* what children answer to the lifecycle contract request
  KillMayFail,   \* whether a child may outlive kill_and_wait
  MaxSessions,   \* bound on the children ever spawned
  MaxRequests,   \* bound on the requests handled
  MaxExits,      \* bound on children exiting by themselves
  MaxSweeps,     \* bound on the runs of cleanup_idle
  MaxActive      \* bound on the tasks active at a time

Ops == {"execute", "help", "subscribe", "kill"}

ASSUME SessionsAssumption ==
  /\ XKeys \subseteq Nat
  /\ Cleaner \notin Clients
  /\ None \notin Clients \cup {Cleaner} \cup Keys \cup Nat
  /\ Requests \subseteq [op : Ops, key : Keys, excl : SUBSET XKeys,
                         ttl : BOOLEAN, bad_args : BOOLEAN]
  /\ Lifecycles \subseteq {"unsupported", "unknown", "safe", "stateful"}
  /\ KillMayFail \in BOOLEAN

Procs == Clients \cup {Cleaner}
SessionIds == 1..MaxSessions

VARIABLES
  stdio,               \* key -> the cached session, or 0
  stdio_snapshots,     \* key -> in_flight_requests of its snapshot, or None
  exclusive_owners,    \* exclusive key -> session key, or None
  session_exclusives,  \* key -> the exclusive keys registered for it
  init_lock,           \* key -> the task that holds its init lock, or None
  exclusive_lock,      \* exclusive key -> the task that holds it, or None
  session,             \* the sessions spawned so far
  task,                \* what each task is doing
  requests, exits, sweeps

lockVars == <<init_lock, exclusive_lock>>
registryVars == <<exclusive_owners, session_exclusives>>
boundVars == <<requests, exits, sweeps>>
vars == <<stdio, stdio_snapshots, registryVars, lockVars, session, task, boundVars>>

\* McpStdioSession; ttl is idle_ttl_secs # 0, stale that last_used lies
\* further back than that, and lock the holder of the session's mutex.
Session ==
  [key : Keys, alive : BOOLEAN, reuse_eligible : BOOLEAN,
   daemon_exclusive : SUBSET XKeys, ttl : BOOLEAN, stale : BOOLEAN,
   subscriptions : Nat, lifecycle : Lifecycles, auto_reap_allowed : BOOLEAN,
   lock : Procs \cup {None}]

Idle ==
  [pc |-> "idle", op |-> "none", key |-> None, excl |-> {}, ttl |-> TRUE,
   bad_args |-> FALSE, s |-> 0, todo |-> {}, arcs |-> {}, reaped |-> {},
   target |-> None, taken |-> {}, snapshot |-> FALSE, then |-> "idle"]

\* The maps refer to sessions, keys and tasks that exist, and the counters of
\* requests and subscriptions do not go below zero.
TypeOK ==
  /\ stdio \in [Keys -> SessionIds \cup {0}]
  /\ stdio_snapshots \in [Keys -> Nat \cup {None}]
  /\ exclusive_owners \in [XKeys -> Keys \cup {None}]
  /\ session_exclusives \in [Keys -> SUBSET XKeys]
  /\ init_lock \in [Keys -> Clients \cup {None}]
  /\ exclusive_lock \in [XKeys -> Clients \cup {None}]
  /\ session \in Seq(Session) /\ Len(session) <= MaxSessions
  /\ DOMAIN task = Procs

Init ==
  /\ stdio = [k \in Keys |-> 0]
  /\ stdio_snapshots = [k \in Keys |-> None]
  /\ exclusive_owners = [x \in XKeys |-> None]
  /\ session_exclusives = [k \in Keys |-> {}]
  /\ init_lock = [k \in Keys |-> None]
  /\ exclusive_lock = [x \in XKeys |-> None]
  /\ session = <<>>
  /\ task = [p \in Procs |-> Idle]
  /\ requests = 0 /\ exits = 0 /\ sweeps = 0

At(p, pc) == task[p].pc = pc
Goto(p, pc) == task' = [task EXCEPT ![p].pc = pc]
Active == {p \in Procs : ~At(p, "idle")}

\* The task's next step and the session it works on.
GotoWith(p, pc, s) == task' = [task EXCEPT ![p].pc = pc, ![p].s = s]

Free(s) == session[s].lock = None
Locked(s, p, after) == session' = [session EXCEPT ![s] = [after EXCEPT !.lock = p]]
Unlocked(s, after) == session' = [session EXCEPT ![s] = [after EXCEPT !.lock = None]]

\* The guards of get_or_create_stdio go out of scope.
DropGuards(p) ==
  /\ init_lock' = [k \in Keys |-> IF init_lock[k] = p THEN None ELSE init_lock[k]]
  /\ exclusive_lock' =
       [x \in XKeys |-> IF exclusive_lock[x] = p THEN None ELSE exclusive_lock[x]]

\* The task ends, with an answer or an error.
Done(p) == task' = [task EXCEPT ![p] = Idle] /\ DropGuards(p)

-----------------------------------------------------------------------------
(************************ taking a session off the maps ********************)

\* map.remove(session_key): by key, whichever session is cached there now.
RemoveSession(p) ==
  /\ At(p, "remove")
  /\ stdio' = [stdio EXCEPT ![task[p].target] = 0]
  /\ Goto(p, "clean")
  /\ UNCHANGED <<stdio_snapshots, registryVars, lockVars, session, boundVars>>

AfterCleanup(p) == IF task[p].snapshot THEN "remove_snapshot" ELSE task[p].then

\* cleanup_stdio_exclusive_for_session_key, in its two sections.
CleanupTake(p) ==
  /\ At(p, "clean")
  /\ session_exclusives' = [session_exclusives EXCEPT ![task[p].target] = {}]
  /\ task' = [task EXCEPT ![p].taken = session_exclusives[task[p].target],
                ![p].pc = IF session_exclusives[task[p].target] # {}
                          THEN "clean_owners" ELSE AfterCleanup(p)]
  /\ UNCHANGED <<stdio, stdio_snapshots, exclusive_owners, lockVars, session, boundVars>>

\* Fault for CleanupOwners: the owners stay.
CleanupOwnersKept(p) ==
  /\ At(p, "clean_owners")
  /\ task' = [task EXCEPT ![p].taken = {}, ![p].pc = AfterCleanup(p)]
  /\ UNCHANGED <<stdio, stdio_snapshots, registryVars, lockVars, session, boundVars>>

CleanupOwners(p) ==
  /\ At(p, "clean_owners")
  /\ exclusive_owners' =
       [x \in XKeys |->
          IF x \in task[p].taken /\ exclusive_owners[x] = task[p].target
          THEN None ELSE exclusive_owners[x]]
  /\ task' = [task EXCEPT ![p].taken = {},
                ![p].pc = AfterCleanup(p)]
  /\ UNCHANGED <<stdio, stdio_snapshots, session_exclusives, lockVars, session, boundVars>>

\* Fault for RemoveSnapshot: the session's view is forgotten.
KeepSnapshot(p) ==
  /\ At(p, "remove_snapshot")
  /\ session' = [s \in DOMAIN session |->
                   IF session[s].lock = p THEN [session[s] EXCEPT !.lock = None]
                   ELSE session[s]]
  /\ Goto(p, task[p].then)
  /\ UNCHANGED <<stdio, stdio_snapshots, registryVars, lockVars, boundVars>>

\* remove_stdio_snapshot; a guard that is still held is dropped after it.
RemoveSnapshot(p) ==
  /\ At(p, "remove_snapshot")
  /\ stdio_snapshots' = [stdio_snapshots EXCEPT ![task[p].target] = None]
  /\ session' = [s \in DOMAIN session |->
                   IF session[s].lock = p THEN [session[s] EXCEPT !.lock = None]
                   ELSE session[s]]
  /\ Goto(p, task[p].then)
  /\ UNCHANGED <<stdio, registryVars, lockVars, boundVars>>

\* The task starts at pc to take target off the maps and goes on at then.
StartRemoval(p, pc, target, snapshot, then) ==
  task' = [task EXCEPT ![p].pc = pc, ![p].target = target,
                       ![p].snapshot = snapshot, ![p].then = then]

\* kill_and_wait: the child has exited, or outlived both timeouts.
KillOutcomes(s) ==
  {[session[s] EXCEPT !.alive = FALSE]} \cup (IF KillMayFail THEN {session[s]} ELSE {})

-----------------------------------------------------------------------------
(*************************** get_or_create_stdio ***************************)

Request(c, r) ==
  /\ At(c, "idle")
  /\ requests < MaxRequests /\ Cardinality(Active) < MaxActive
  /\ requests' = requests + 1
  /\ task' = [task EXCEPT ![c] =
       [Idle EXCEPT !.op = r.op, !.key = r.key, !.excl = r.excl, !.ttl = r.ttl,
                    !.bad_args = r.bad_args,
                    !.pc = CASE r.op = "help" -> "help_get"
                             [] r.op = "kill" -> "kill_get"
                             [] OTHER -> IF r.excl = {} THEN "lookup" ELSE "xlock"]]
  /\ UNCHANGED <<stdio, stdio_snapshots, registryVars, lockVars, session, exits, sweeps>>

StillToLock(p) == {x \in task[p].excl : exclusive_lock[x] # p}

\* Fault for AcquireExclusiveLock: the keys are taken in any order.
AcquireAnyExclusiveLock(p) ==
  /\ At(p, "xlock")
  /\ \E x \in StillToLock(p) :
       /\ exclusive_lock[x] = None
       /\ exclusive_lock' = [exclusive_lock EXCEPT ![x] = p]
       /\ Goto(p, IF StillToLock(p) = {x} THEN "evict" ELSE "xlock")
  /\ UNCHANGED <<stdio, stdio_snapshots, registryVars, init_lock, session, boundVars>>

\* acquire_stdio_exclusive_locks: one lock after the other, in order.
AcquireExclusiveLock(p) ==
  /\ At(p, "xlock")
  /\ \E x \in StillToLock(p) :
       /\ \A y \in StillToLock(p) : x <= y
       /\ exclusive_lock[x] = None
       /\ exclusive_lock' = [exclusive_lock EXCEPT ![x] = p]
       /\ Goto(p, IF StillToLock(p) = {x} THEN "evict" ELSE "xlock")
  /\ UNCHANGED <<stdio, stdio_snapshots, registryVars, init_lock, session, boundVars>>

\* Fault for ConflictingOwners: only the lowest key is looked up.
LowestConflictingOwner(p) ==
  {exclusive_owners[x] : x \in {y \in task[p].excl :
                                  \A z \in task[p].excl : y <= z}} \ {None, task[p].key}

ConflictingOwners(p) ==
  {exclusive_owners[x] : x \in task[p].excl} \ {None, task[p].key}

\* evict_stdio_exclusive_conflicts collects the owners to evict.
EvictScan(p) ==
  /\ At(p, "evict")
  /\ task' = [task EXCEPT ![p].todo = ConflictingOwners(p), ![p].pc = "evict_next"]
  /\ UNCHANGED <<stdio, stdio_snapshots, registryVars, lockVars, session, boundVars>>

\* The next owner: nobody is left; its session is gone; its session is
\* locked and the request fails; or the session is locked for the kill.  The
\* look-up in the map and the try_lock that follows it are one step here.
EvictNext(p) ==
  /\ At(p, "evict_next")
  /\ \/ /\ task[p].todo = {}
        /\ GotoWith(p, "lookup", 0)
        /\ UNCHANGED <<exclusive_owners, session, lockVars>>
     \/ \E owner \in task[p].todo :
          LET s == stdio[owner]
              rest == [task[p] EXCEPT !.todo = @ \ {owner}, !.target = owner,
                                      !.then = "evict_next"]
          IN  \/ /\ s = 0
                 /\ exclusive_owners' =
                      [x \in XKeys |->
                         IF x \in task[p].excl /\ exclusive_owners[x] = owner
                         THEN None ELSE exclusive_owners[x]]
                 /\ task' = [task EXCEPT ![p] = [rest EXCEPT !.pc = "clean",
                                                             !.snapshot = FALSE]]
                 /\ UNCHANGED <<session, lockVars>>
              \/ /\ s # 0 /\ ~Free(s)
                 /\ Done(p)
                 /\ UNCHANGED <<exclusive_owners, session>>
              \/ /\ s # 0 /\ Free(s)
                 /\ Locked(s, p, session[s])
                 /\ task' = [task EXCEPT ![p] = [rest EXCEPT !.pc = "evict_kill",
                                                             !.s = s]]
                 /\ UNCHANGED <<exclusive_owners, lockVars>>
  /\ UNCHANGED <<stdio, stdio_snapshots, session_exclusives, boundVars>>

\* The owner's child is killed; a failure is the request's error.
EvictKill(p) ==
  LET s == task[p].s
  IN  /\ At(p, "evict_kill")
      /\ \E after \in KillOutcomes(s) :
           \/ /\ ~after.alive
              /\ Locked(s, p, after)
              /\ StartRemoval(p, "remove", task[p].target, TRUE, "evict_next")
              /\ UNCHANGED lockVars
           \/ /\ after.alive
              /\ Unlocked(s, after)
              /\ Done(p)
      /\ UNCHANGED <<stdio, stdio_snapshots, registryVars, boundVars>>

HoldsInit(p) == init_lock[task[p].key] = p

\* The two look-ups, without and with the init lock.
Lookup(p) ==
  LET s == stdio[task[p].key]
  IN  /\ At(p, "lookup")
      /\ GotoWith(p, IF s # 0 THEN "reuse" ELSE IF HoldsInit(p) THEN "spawn" ELSE "init", s)
      /\ UNCHANGED <<stdio, stdio_snapshots, registryVars, lockVars, session, boundVars>>

\* Fault for AcquireInitLock: no second look-up.
AcquireInitLockAndSpawn(p) ==
  /\ At(p, "init")
  /\ init_lock[task[p].key] = None
  /\ init_lock' = [init_lock EXCEPT ![task[p].key] = p]
  /\ Goto(p, "spawn")
  /\ UNCHANGED <<stdio, stdio_snapshots, registryVars, exclusive_lock, session, boundVars>>

AcquireInitLock(p) ==
  /\ At(p, "init")
  /\ init_lock[task[p].key] = None
  /\ init_lock' = [init_lock EXCEPT ![task[p].key] = p]
  /\ Goto(p, "lookup")
  /\ UNCHANGED <<stdio, stdio_snapshots, registryVars, exclusive_lock, session, boundVars>>

\* apply_request_metadata: exclusive keys stay when none are given.
ApplyRequestMetadata(s, t) ==
  [session[s] EXCEPT !.ttl = t.ttl,
                     !.daemon_exclusive = IF t.excl = {} THEN @ ELSE t.excl]

\* try_reuse_existing_stdio_session, under the session's mutex: refused
\* after a failed kill, taken off the maps when its child has exited.
TryReuse(p) ==
  LET s == task[p].s
  IN  /\ At(p, "reuse") /\ Free(s)
      /\ \/ /\ ~session[s].reuse_eligible
            /\ Done(p)
            /\ UNCHANGED session
         \/ /\ session[s].reuse_eligible /\ ~session[s].alive
            /\ StartRemoval(p, "remove", task[p].key, TRUE, "reuse_gone")
            /\ UNCHANGED <<session, lockVars>>
         \/ /\ session[s].reuse_eligible /\ session[s].alive
            /\ Unlocked(s, ApplyRequestMetadata(s, task[p]))
            /\ StartRemoval(p, IF task[p].excl = {} THEN "hand_out" ELSE "clean",
                            task[p].key, FALSE, "register")
            /\ UNCHANGED lockVars
      /\ UNCHANGED <<stdio, stdio_snapshots, registryVars, boundVars>>

ReuseGone(p) ==
  /\ At(p, "reuse_gone")
  /\ GotoWith(p, IF HoldsInit(p) THEN "spawn" ELSE "init", 0)
  /\ UNCHANGED <<stdio, stdio_snapshots, registryVars, lockVars, session, boundVars>>

\* The child is started and answers for its lifecycle, or cannot be.
Spawn(p) ==
  /\ At(p, "spawn")
  /\ \/ /\ Len(session) < MaxSessions
        /\ \E lifecycle \in Lifecycles :
             session' = Append(session,
               [key |-> task[p].key, alive |-> TRUE, reuse_eligible |-> TRUE,
                daemon_exclusive |-> task[p].excl, ttl |-> task[p].ttl,
                stale |-> FALSE, subscriptions |-> 0, lifecycle |-> lifecycle,
                auto_reap_allowed |-> FALSE, lock |-> None])
        /\ GotoWith(p, "insert", Len(session) + 1)
        /\ UNCHANGED lockVars
     \/ Done(p) /\ UNCHANGED session
  /\ UNCHANGED <<stdio, stdio_snapshots, registryVars, boundVars>>

InsertSession(p) ==
  /\ At(p, "insert")
  /\ stdio' = [stdio EXCEPT ![task[p].key] = task[p].s]
  /\ Goto(p, "insert_snapshot")
  /\ UNCHANGED <<stdio_snapshots, registryVars, lockVars, session, boundVars>>

InsertSnapshot(p) ==
  /\ At(p, "insert_snapshot")
  /\ stdio_snapshots' = [stdio_snapshots EXCEPT ![task[p].key] = 0]
  /\ StartRemoval(p, IF task[p].excl = {} THEN "hand_out" ELSE "clean",
                  task[p].key, FALSE, "register")
  /\ UNCHANGED <<stdio, registryVars, lockVars, session, boundVars>>

\* register_stdio_exclusive_keys, after its clean-up of the key.
RegisterSession(p) ==
  /\ At(p, "register")
  /\ session_exclusives' = [session_exclusives EXCEPT ![task[p].key] = task[p].excl]
  /\ Goto(p, "register_owners")
  /\ UNCHANGED <<stdio, stdio_snapshots, exclusive_owners, lockVars, session, boundVars>>

RegisterOwners(p) ==
  /\ At(p, "register_owners")
  /\ exclusive_owners' =
       [x \in XKeys |-> IF x \in task[p].excl THEN task[p].key ELSE exclusive_owners[x]]
  /\ Goto(p, "hand_out")
  /\ UNCHANGED <<stdio, stdio_snapshots, session_exclusives, lockVars, session, boundVars>>

\* get_or_create_stdio returns the session.
HandOut(p) ==
  /\ At(p, "hand_out")
  /\ Goto(p, IF task[p].op = "subscribe" THEN "sub_lock" ELSE "start")
  /\ DropGuards(p)
  /\ UNCHANGED <<stdio, stdio_snapshots, registryVars, session, boundVars>>

-----------------------------------------------------------------------------
(************************* what is done with a session *********************)

\* mark_stdio_request_started
MarkStarted(p) ==
  /\ At(p, "start")
  /\ stdio_snapshots' =
       [stdio_snapshots EXCEPT ![task[p].key] = IF @ = None THEN None ELSE @ + 1]
  /\ Goto(p, "call")
  /\ UNCHANGED <<stdio, registryVars, lockVars, session, boundVars>>

\* The session's mutex, and last_used; a help request also applies its
\* metadata here.
StartCall(p) ==
  LET s == task[p].s
      after == IF task[p].op = "help" THEN ApplyRequestMetadata(s, task[p]) ELSE session[s]
  IN  /\ At(p, "call") /\ Free(s)
      /\ Locked(s, p, [after EXCEPT !.stale = FALSE])
      /\ Goto(p, "calling")
      /\ UNCHANGED <<stdio, stdio_snapshots, registryVars, lockVars, boundVars>>

\* The child answers, fails or times out.  Arguments that do not fit the
\* tool, or help for a tool it does not have, end the request on the spot,
\* with "?".
EndCall(p) ==
  LET s == task[p].s
  IN  /\ At(p, "calling")
      /\ Unlocked(s, session[s])
      /\ \/ Goto(p, "finish") /\ UNCHANGED lockVars
         \/ task[p].bad_args /\ Done(p)
      /\ UNCHANGED <<stdio, stdio_snapshots, registryVars, boundVars>>

\* mark_stdio_request_finished
MarkFinished(p) ==
  /\ At(p, "finish")
  /\ stdio_snapshots' =
       [stdio_snapshots EXCEPT ![task[p].key] = IF @ \in {None, 0} THEN @ ELSE @ - 1]
  /\ Done(p)
  /\ UNCHANGED <<stdio, registryVars, session, boundVars>>

\* invoke_live_stdio_mcp_help uses a session that is there, and spawns none.
HelpGet(p) ==
  LET s == stdio[task[p].key]
  IN  /\ At(p, "help_get")
      /\ \/ s = 0 /\ Done(p)
         \/ s # 0 /\ GotoWith(p, "start", s) /\ UNCHANGED lockVars
      /\ UNCHANGED <<stdio, stdio_snapshots, registryVars, session, boundVars>>

\* run_mcp_subscription_job: the resource is subscribed to under the
\* session's mutex, polled under it, and released when the job stops.
SubscribeLock(p) ==
  LET s == task[p].s
  IN  /\ At(p, "sub_lock") /\ Free(s)
      /\ Locked(s, p, session[s])
      /\ Goto(p, "sub_ensure")
      /\ UNCHANGED <<stdio, stdio_snapshots, registryVars, lockVars, boundVars>>

\* The job fails when the server refuses, or after it when its first events
\* cannot be emitted: then the subscription is not released.
SubscribeEnsure(p) ==
  LET s == task[p].s
  IN  /\ At(p, "sub_ensure")
      /\ \/ /\ Unlocked(s, [session[s] EXCEPT !.subscriptions = @ + 1])
            /\ \/ Goto(p, "subscribed") /\ UNCHANGED lockVars
               \/ Done(p)
         \/ Unlocked(s, session[s]) /\ Done(p)
      /\ UNCHANGED <<stdio, stdio_snapshots, registryVars, boundVars>>

SubscriptionPoll(p) ==
  LET s == task[p].s
  IN  /\ \/ At(p, "subscribed") /\ Free(s) /\ Locked(s, p, session[s]) /\ Goto(p, "sub_poll")
         \/ At(p, "sub_poll") /\ Unlocked(s, session[s]) /\ Goto(p, "subscribed")
      /\ UNCHANGED <<stdio, stdio_snapshots, registryVars, lockVars, boundVars>>

SubscriptionStop(p) ==
  /\ At(p, "subscribed") /\ Free(task[p].s)
  /\ Locked(task[p].s, p, session[task[p].s])
  /\ Goto(p, "sub_release")
  /\ UNCHANGED <<stdio, stdio_snapshots, registryVars, lockVars, boundVars>>

\* await_task_with_grace gives up on the job: nothing is released but the
\* mutex.
SubscriptionAborted(p) ==
  LET s == task[p].s
  IN  /\ task[p].pc \in {"subscribed", "sub_poll"}
      /\ IF session[s].lock = p THEN Unlocked(s, session[s]) ELSE UNCHANGED session
      /\ Done(p)
      /\ UNCHANGED <<stdio, stdio_snapshots, registryVars, boundVars>>

SubscriptionRelease(p) ==
  LET s == task[p].s
  IN  /\ At(p, "sub_release")
      /\ Unlocked(s, [session[s] EXCEPT !.subscriptions = IF @ = 0 THEN 0 ELSE @ - 1])
      /\ Done(p)
      /\ UNCHANGED <<stdio, stdio_snapshots, registryVars, boundVars>>

\* kill_stdio_session
KillGet(p) ==
  LET s == stdio[task[p].key]
  IN  /\ At(p, "kill_get")
      /\ \/ s = 0 /\ Done(p)
         \/ s # 0 /\ GotoWith(p, "kill_lock", s) /\ UNCHANGED lockVars
      /\ UNCHANGED <<stdio, stdio_snapshots, registryVars, session, boundVars>>

KillLock(p) ==
  LET s == task[p].s
  IN  /\ At(p, "kill_lock") /\ Free(s)
      /\ Locked(s, p, [session[s] EXCEPT !.reuse_eligible = FALSE])
      /\ Goto(p, "kill_wait")
      /\ UNCHANGED <<stdio, stdio_snapshots, registryVars, lockVars, boundVars>>

KillWait(p) ==
  LET s == task[p].s
  IN  /\ At(p, "kill_wait")
      /\ \E after \in KillOutcomes(s) :
           /\ Unlocked(s, after)
           /\ \/ /\ ~after.alive
                 /\ StartRemoval(p, "remove", task[p].key, TRUE, "killed")
                 /\ UNCHANGED lockVars
              \/ after.alive /\ Done(p)
      /\ UNCHANGED <<stdio, stdio_snapshots, registryVars, boundVars>>

Killed(p) ==
  /\ At(p, "killed")
  /\ Done(p)
  /\ UNCHANGED <<stdio, stdio_snapshots, registryVars, session, boundVars>>

-----------------------------------------------------------------------------
(******************************* cleanup_idle ******************************)

\* A sweep starts with the sessions that are cached now, and keeps them
\* referenced to its end.
SweepStart ==
  LET cached == {<<k, stdio[k]>> : k \in {j \in Keys : stdio[j] # 0}}
  IN  /\ At(Cleaner, "idle")
      /\ sweeps < MaxSweeps /\ Cardinality(Active) < MaxActive
      /\ sweeps' = sweeps + 1
      /\ task' = [task EXCEPT ![Cleaner] =
                    [Idle EXCEPT !.pc = "sweep", !.todo = cached,
                                 !.arcs = {e[2] : e \in cached}]]
      /\ UNCHANGED <<stdio, stdio_snapshots, registryVars, lockVars, session, requests, exits>>

Reapable(s) ==
  /\ session[s].ttl /\ session[s].stale
  /\ \/ session[s].lifecycle \in {"safe", "unsupported"}
     \/ session[s].lifecycle = "stateful" /\ session[s].auto_reap_allowed

\* try_lock: a session in use is left for the next sweep.  The session's mutex
\* is not shown as held while the notifications of one that stays are synced.
SweepNext ==
  /\ At(Cleaner, "sweep")
  /\ \E e \in task[Cleaner].todo :
       LET s == e[2]
           rest == [task[Cleaner] EXCEPT !.todo = @ \ {e}]
       IN  \/ /\ ~Free(s) \/ ~Reapable(s)
              /\ task' = [task EXCEPT ![Cleaner] = rest]
              /\ UNCHANGED session
           \/ /\ Free(s) /\ Reapable(s)
              /\ Locked(s, Cleaner, session[s])
              /\ task' = [task EXCEPT ![Cleaner] =
                            [rest EXCEPT !.pc = "sweep_kill", !.key = e[1], !.s = s]]
  /\ UNCHANGED <<stdio, stdio_snapshots, registryVars, lockVars, boundVars>>

\* The child is killed, or not: its key is removed in either case.
SweepKill ==
  LET s == task[Cleaner].s
  IN  /\ At(Cleaner, "sweep_kill")
      /\ \E after \in KillOutcomes(s) : Unlocked(s, after)
      /\ task' = [task EXCEPT ![Cleaner].pc = "sweep", ![Cleaner].s = 0,
                              ![Cleaner].reaped = @ \cup {task[Cleaner].key}]
      /\ UNCHANGED <<stdio, stdio_snapshots, registryVars, lockVars, boundVars>>

\* After the loop, the reaped keys leave the map together, and the other
\* maps one by one.
SweepRemove ==
  /\ At(Cleaner, "sweep") /\ task[Cleaner].todo = {}
  /\ stdio' = [k \in Keys |-> IF k \in task[Cleaner].reaped THEN 0 ELSE stdio[k]]
  /\ Goto(Cleaner, "sweep_clean")
  /\ UNCHANGED <<stdio_snapshots, registryVars, lockVars, session, boundVars>>

SweepClean ==
  /\ At(Cleaner, "sweep_clean")
  /\ \/ /\ task[Cleaner].reaped = {}
        /\ task' = [task EXCEPT ![Cleaner] = Idle]
     \/ \E k \in task[Cleaner].reaped :
          task' = [task EXCEPT ![Cleaner] =
                     [task[Cleaner] EXCEPT !.reaped = @ \ {k}, !.pc = "clean", !.target = k,
                                           !.snapshot = TRUE, !.then = "sweep_clean"]]
  /\ UNCHANGED <<stdio, stdio_snapshots, registryVars, lockVars, session, boundVars>>

-----------------------------------------------------------------------------
(****************************** the environment ****************************)

\* The session's Arc is in the map or in a task; when the last one goes, the
\* transport is dropped and its child killed.
Referenced(s) ==
  \/ \E k \in Keys : stdio[k] = s
  \/ \E p \in Procs : task[p].s = s \/ s \in task[p].arcs

ChildExits(s) ==
  /\ exits < MaxExits
  /\ session[s].alive /\ Referenced(s)
  /\ session' = [session EXCEPT ![s].alive = FALSE]
  /\ exits' = exits + 1
  /\ UNCHANGED <<stdio, stdio_snapshots, registryVars, lockVars, task, requests, sweeps>>

\* What only cleanup_idle looks at changes while a sweep is to come or on.
SweepAhead == sweeps < MaxSweeps \/ ~At(Cleaner, "idle")

\* The idle TTL passes without a call.
Ages(s) ==
  /\ SweepAhead
  /\ ~session[s].stale /\ Free(s) /\ Referenced(s)
  /\ session' = [session EXCEPT ![s].stale = TRUE]
  /\ UNCHANGED <<stdio, stdio_snapshots, registryVars, lockVars, task, boundVars>>

\* apply_lifecycle_notification, in whichever task next syncs the session's
\* notifications under its mutex.
LifecycleChanged(s) ==
  /\ SweepAhead
  /\ session[s].lifecycle = "stateful" /\ session[s].alive /\ Free(s) /\ Referenced(s)
  /\ session' = [session EXCEPT ![s].auto_reap_allowed = ~@]
  /\ UNCHANGED <<stdio, stdio_snapshots, registryVars, lockVars, task, boundVars>>

-----------------------------------------------------------------------------

RemovalStep(p) ==
  RemoveSession(p) \/ CleanupTake(p) \/ CleanupOwners(p) \/ RemoveSnapshot(p)

ClientStep(p) ==
  \/ RemovalStep(p)
  \/ AcquireExclusiveLock(p) \/ EvictScan(p) \/ EvictNext(p) \/ EvictKill(p)
  \/ Lookup(p) \/ AcquireInitLock(p) \/ TryReuse(p) \/ ReuseGone(p) \/ Spawn(p)
  \/ InsertSession(p) \/ InsertSnapshot(p)
  \/ RegisterSession(p) \/ RegisterOwners(p) \/ HandOut(p)
  \/ MarkStarted(p) \/ StartCall(p) \/ EndCall(p) \/ MarkFinished(p)
  \/ HelpGet(p) \/ SubscribeLock(p) \/ SubscribeEnsure(p) \/ SubscriptionRelease(p)
  \/ KillGet(p) \/ KillLock(p) \/ KillWait(p) \/ Killed(p)

SweepStep ==
  SweepNext \/ SweepKill \/ SweepRemove \/ SweepClean \/ RemovalStep(Cleaner)

Next ==
  \/ \E c \in Clients :
       \/ \E r \in Requests : Request(c, r)
       \/ ClientStep(c) \/ SubscriptionPoll(c) \/ SubscriptionStop(c)
       \/ SubscriptionAborted(c)
  \/ SweepStart \/ SweepStep
  \/ \E s \in DOMAIN session : ChildExits(s) \/ Ages(s) \/ LifecycleChanged(s)

Spec == Init /\ [][Next]_vars

\* Calls, kills and connects have timeouts, and tokio's mutexes are fair, so
\* a task that waits for a lock that keeps becoming free gets it.
Fairness ==
  /\ \A c \in Clients : SF_vars(ClientStep(c))
  /\ WF_vars(SweepStep)

FairSpec == Spec /\ Fairness

-----------------------------------------------------------------------------

Live(s) == session[s].alive /\ Referenced(s)

\* "This avoids duplicate process spawns": a session key has at most one
\* running child, however many requests find the cache empty together.
Singleflight ==
  \A s, t \in DOMAIN session :
    (Live(s) /\ Live(t) /\ session[s].key = session[t].key) => s = t

\* No two running children hold the same exclusive key, whichever requests
\* claimed it, created sessions, reused them or evicted an owner meanwhile
\* (evict_stdio_exclusive_conflicts, register_stdio_exclusive_keys), provided
\* that those for one session claim the same keys.
ExclusiveHeld ==
  \A s, t \in DOMAIN session :
    (Live(s) /\ Live(t) /\ s # t) =>
      session[s].daemon_exclusive \cap session[t].daemon_exclusive = {}

Quiet == Active = {}

\* Between requests the two exclusive maps are inverse to each other and say
\* of every cached session what the session itself says, after evictions,
\* failed kills, exits and reaps.
RegistryAgrees ==
  Quiet => \A k \in Keys :
    /\ session_exclusives[k] = {x \in XKeys : exclusive_owners[x] = k}
    /\ session_exclusives[k] =
         IF stdio[k] = 0 THEN {} ELSE session[stdio[k]].daemon_exclusive

\* Between requests "uxc daemon sessions" lists exactly the cached sessions,
\* none of them as active.
ViewAgrees ==
  Quiet => \A k \in Keys : stdio_snapshots[k] = IF stdio[k] = 0 THEN None ELSE 0

\* Every request is answered: the locks are taken in an order that cannot
\* close a cycle, and nobody waits for a lock while it kills another child.
Answered ==
  \A c \in Clients :
    ~(At(c, "idle") \/ At(c, "subscribed")) ~> (At(c, "idle") \/ At(c, "subscribed"))
=============================================================================
