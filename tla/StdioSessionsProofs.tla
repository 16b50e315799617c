------------------------- MODULE StdioSessionsProofs -------------------------
(***************************************************************************)
(* Theorems about StdioSessions, for any number of keys, exclusive keys,   *)
(* clients, sessions and requests.  One child per session key and per      *)
(* exclusive key with any number of requests at once, as long as no child  *)
(* exits, is reaped or killed other than by an eviction, and requests for  *)
(* a session claim the same keys.  And with one request, kill or sweep at  *)
(* a time, and children that exit when they like: what the registry and    *)
(* the views say of the cached sessions between requests.                  *)
(***************************************************************************)
EXTENDS StdioSessions, SequenceTheorems, FiniteSetTheorems, TLAPS

-----------------------------------------------------------------------------
(* The requests. *)

Users == {"execute", "subscribe"}

\* The exclusive keys claimed for a session.
XOf(k) == UNION {r.excl : r \in {q \in Requests : q.key = k /\ q.op \in Users}}

\* No child exits by itself, is reaped or is killed by hand, and the requests
\* for a session claim the same keys; help claims none.
Disciplined ==
  /\ MaxExits = 0 /\ MaxSweeps = 0
  /\ \A r \in Requests : r.op \in Users \/ (r.op = "help" /\ r.excl = {})
  /\ \A r \in Requests : r.op \in Users => r.excl = XOf(r.key)

-----------------------------------------------------------------------------
(* The inductive invariant. *)

\* Where a request holds its exclusive locks.
Evicting == {"evict_next", "evict_kill", "remove"}
Removing == {"clean", "clean_owners", "remove_snapshot"}
Settling == {"lookup", "init", "reuse", "spawn", "insert", "insert_snapshot",
             "register", "register_owners", "hand_out"}
Guarded == {"evict"} \cup Evicting \cup Removing \cup Settling
Holding == {"calling", "sub_ensure", "sub_poll", "sub_release"}
Using == {"start", "call", "finish", "sub_lock", "subscribed"} \cup Holding
Pcs == {"idle", "xlock", "help_get"} \cup Guarded \cup Using

Task == [pc : Pcs, op : Users \cup {"help", "none"}, key : Keys \cup {None}, excl : SUBSET XKeys,
         ttl : BOOLEAN, bad_args : BOOLEAN, s : Nat, todo : SUBSET Keys, arcs : {{}}, reaped : {{}},
         target : Keys \cup {None}, taken : SUBSET XKeys, snapshot : BOOLEAN,
         then : {"idle", "evict_next", "register"}]

FlightTypes ==
  /\ stdio \in [Keys -> Nat]
  /\ exclusive_owners \in [XKeys -> Keys \cup {None}]
  /\ session_exclusives \in [Keys -> SUBSET XKeys]
  /\ init_lock \in [Keys -> Clients \cup {None}]
  /\ exclusive_lock \in [XKeys -> Clients \cup {None}]
  /\ session \in Seq(Session)
  /\ task \in [Procs -> Task]
  /\ exits \in Nat /\ sweeps \in Nat
  /\ At(Cleaner, "idle")

\* The map has a session under its own key; a session holds what its requests
\* claim, and is never refused.
CachedUnderKey ==
  \A k \in Keys : stdio[k] # 0 => stdio[k] \in DOMAIN session /\ session[stdio[k]].key = k
SessionsClaim ==
  \A s \in DOMAIN session :
    session[s].daemon_exclusive = XOf(session[s].key) /\ session[s].reuse_eligible
OwnersClaim ==
  \A x \in XKeys : exclusive_owners[x] # None => x \in XOf(exclusive_owners[x])

\* A running child is in the map, or about to be put there.
AliveKept ==
  \A s \in DOMAIN session : session[s].alive =>
    \/ stdio[session[s].key] = s
    \/ \E p \in Clients : At(p, "insert") /\ task[p].s = s

\* A child in the map runs, unless the eviction that killed it is about to take
\* it off.
CachedRuns ==
  \A k \in Keys : stdio[k] # 0 =>
    session[stdio[k]].alive \/ \E p \in Clients : At(p, "remove") /\ task[p].target = k

\* The removal at the start of a registration, not that of an eviction.
Registers(t) == t.then = "register"
InFlight(t) ==
  \/ t.pc \in {"insert", "insert_snapshot", "register", "register_owners"}
  \/ t.pc \in Removing /\ Registers(t)
Evicts(t) == t.pc \in Evicting \/ (t.pc \in Removing /\ ~Registers(t))
Rivals(t) == {k \in Keys \ {t.key} : XOf(k) \cap t.excl # {}}

\* What a request holds, and what it has found, at each of its steps.
Claims(t) ==
  /\ t.pc # "idle" => t.key \in Keys
  /\ t.pc \in Guarded \cup {"xlock"} => t.op \in Users
  /\ t.pc # "idle" /\ t.op \in Users => t.excl = XOf(t.key)
  /\ t.op = "help" => t.excl = {}
Locks(p, t) ==
  /\ t.pc \in Guarded => \A x \in t.excl : exclusive_lock[x] = p
  /\ t.pc \in {"spawn", "insert"} => init_lock[t.key] = p /\ stdio[t.key] = 0
Finds(p, t) ==
  /\ InFlight(t) \/ t.pc = "hand_out" \/ t.pc \in Using => t.s \in DOMAIN session
  /\ t.pc = "insert" => session[t.s].key = t.key /\ session[t.s].alive
  /\ t.pc = "reuse" => t.s # 0 /\ stdio[t.key] = t.s /\ session[t.s].alive
  /\ t.pc \in Holding => session[t.s].lock = p
Removes(p, t) ==
  /\ t.pc \in {"evict_kill", "remove"} =>
       /\ t.target \in Keys /\ t.s # 0 /\ stdio[t.target] = t.s /\ session[t.s].lock = p
  /\ t.pc = "remove" => ~session[t.s].alive /\ t.then = "evict_next"
  /\ t.pc \in Removing => /\ t.target \in Keys /\ t.then \in {"evict_next", "register"}
                          /\ Registers(t) =>
                               t.target = t.key /\ ~t.snapshot /\ t.pc # "remove_snapshot"
  /\ Evicts(t) => t.todo \subseteq Rivals(t)
  /\ Evicts(t) /\ t.pc # "evict_next" => t.target \in Rivals(t) \ t.todo

\* No other running child holds a key of a request that has evicted; while it
\* evicts, those that do are still on its list.
Cleared(t) ==
  \A s \in DOMAIN session :
    session[s].alive /\ session[s].key \in Rivals(t) =>
      /\ t.pc \in Settling \/ InFlight(t) => FALSE
      /\ Evicts(t) => session[s].key \in t.todo \/ (t.pc = "evict_kill" /\ session[s].key = t.target)

TaskOk(p, t) == Claims(t) /\ Locks(p, t) /\ Finds(p, t) /\ Removes(p, t) /\ Cleared(t)

\* A running child's keys are registered, or about to be.
Owned ==
  \A s \in DOMAIN session : session[s].alive =>
    \A x \in session[s].daemon_exclusive :
      \/ exclusive_owners[x] = session[s].key
      \/ \E p \in Clients : InFlight(task[p]) /\ task[p].key = session[s].key

FlightInv ==
  /\ FlightTypes /\ CachedUnderKey /\ SessionsClaim /\ OwnersClaim /\ AliveKept /\ CachedRuns
  /\ Owned
  /\ \A p \in Clients : TaskOk(p, task[p])

-----------------------------------------------------------------------------
(* What the locks are good for. *)

LEMMA GuardedPcs ==
  /\ \A t : InFlight(t) \/ Evicts(t) \/ t.pc \in Settling => t.pc \in Guarded
  /\ "idle" \notin Guarded
BY DEF InFlight, Evicts, Registers, Guarded, Settling, Removing, Evicting

\* Two requests past their exclusive locks share no exclusive key, so a request
\* for a rival's session is not past its own.
LEMMA RivalsWait ==
  ASSUME FlightInv, NEW p \in Clients, NEW q \in Clients,
         task[p].pc \in Guarded, task[q].pc \in Guarded
  PROVE  task[q].key \notin Rivals(task[p])
<1> SUFFICES ASSUME task[q].key \in Rivals(task[p]) PROVE FALSE
  OBVIOUS
<1>1. p # q
  BY DEF Rivals
<1>2. task[q].excl = XOf(task[q].key)
  BY GuardedPcs DEF FlightInv, TaskOk, Claims
<1>3. PICK x \in XOf(task[q].key) : x \in task[p].excl
  BY DEF Rivals
<1>4. exclusive_lock[x] = p /\ exclusive_lock[x] = q
  BY <1>2, <1>3 DEF FlightInv, TaskOk, Locks
<1> QED
  BY <1>1, <1>4

\* A rival's running child is in the map, and registered with what the two
\* sessions both claim.
LEMMA RivalsAreKnown ==
  ASSUME FlightInv, NEW p \in Clients, task[p].pc \in Guarded,
         NEW s \in DOMAIN session, session[s].alive, session[s].key \in Rivals(task[p])
  PROVE  /\ stdio[session[s].key] = s
         /\ \A x \in XOf(session[s].key) : exclusive_owners[x] = session[s].key
<1>1. ASSUME NEW q \in Clients, InFlight(task[q]) PROVE task[q].key # session[s].key
  BY <1>1, GuardedPcs, RivalsWait
<1>2. ASSUME NEW q \in Clients, At(q, "insert"), task[q].s = s PROVE FALSE
  <2>1. InFlight(task[q])
    BY <1>2 DEF InFlight, At
  <2>2. session[s].key = task[q].key
    BY <1>2 DEF FlightInv, TaskOk, Finds, At
  <2> QED
    BY <2>1, <2>2, <1>1
<1>3. stdio[session[s].key] = s
  BY <1>2 DEF FlightInv, AliveKept
<1>4. \A x \in XOf(session[s].key) : exclusive_owners[x] = session[s].key
  BY <1>1 DEF FlightInv, Owned, SessionsClaim
<1> QED
  BY <1>3, <1>4

-----------------------------------------------------------------------------
(* Steps that move neither children nor owners. *)

\* The sessions are as before but for their mutexes and their counters.
Alike ==
  /\ session' \in Seq(Session) /\ DOMAIN session' = DOMAIN session
  /\ \A s \in DOMAIN session :
       /\ session'[s].key = session[s].key /\ session'[s].alive = session[s].alive
       /\ session'[s].daemon_exclusive = session[s].daemon_exclusive
       /\ session'[s].reuse_eligible = session[s].reuse_eligible

\* Nobody but p loses a lock.
OthersLock(p) ==
  /\ init_lock' \in [Keys -> Clients \cup {None}]
  /\ exclusive_lock' \in [XKeys -> Clients \cup {None}]
  /\ \A q \in Clients \ {p} :
       /\ \A k \in Keys : init_lock[k] = q => init_lock'[k] = q
       /\ \A x \in XKeys : exclusive_lock[x] = q => exclusive_lock'[x] = q
       /\ \A s \in DOMAIN session : session[s].lock = q => session'[s].lock = q

OnlyTask(p) ==
  /\ task' \in [Procs -> Task]
  /\ \A q \in Procs \ {p} : task'[q] = task[q]

LEMMA ClearedAlike ==
  ASSUME FlightInv, Alike, NEW t, Cleared(t)
  PROVE  Cleared(t)'
BY DEF Cleared, Alike

\* What another request holds and has found stays as it is.
LEMMA OthersOkWhen ==
  ASSUME FlightInv, NEW p \in Clients, OthersLock(p), OnlyTask(p), NEW q \in Clients \ {p},
         NEW t, t = task[q],
         DOMAIN session \subseteq DOMAIN session',
         \A s \in DOMAIN session : session'[s].key = session[s].key,
         t.pc \in {"spawn", "insert", "reuse"} => stdio'[t.key] = stdio[t.key],
         t.pc \in {"evict_kill", "remove"} => stdio'[t.target] = stdio[t.target],
         t.pc \in {"insert", "reuse"} => session'[t.s].alive,
         t.pc = "remove" => ~session'[t.s].alive,
         Cleared(t)'
  PROVE  TaskOk(q, task[q])'
<1>1. t \in Task /\ t = task'[q]
  BY DEF OnlyTask, Procs, FlightInv, FlightTypes
<1>2. TaskOk(q, t)
  BY <1>1 DEF FlightInv
<1>3. Claims(t)
  BY <1>2 DEF TaskOk
<1>4. Locks(q, t)'
  <2>1. t.excl \subseteq XKeys
    BY <1>1 DEF Task
  <2>2. t.pc \in {"spawn", "insert"} => t.key \in Keys
    BY <1>3 DEF Claims
  <2> QED
    BY <1>2, <2>1, <2>2 DEF TaskOk, Locks, OthersLock
<1>5. Finds(q, t)'
  <2>1. t.pc \in Holding => t.s \in DOMAIN session
    BY <1>2 DEF TaskOk, Finds, Using
  <2>2. t.pc = "reuse" => t.s \in DOMAIN session
    BY <1>2, <1>3 DEF TaskOk, Finds, FlightInv, CachedUnderKey, Claims
  <2>3. t.pc = "insert" => t.s \in DOMAIN session
    BY <1>2 DEF TaskOk, Finds, InFlight
  <2> QED
    BY <1>2, <2>1, <2>2, <2>3 DEF TaskOk, Finds, OthersLock
<1>6. Removes(q, t)'
  <2>1. t.pc \in {"evict_kill", "remove"} => t.s \in DOMAIN session
    BY <1>2 DEF TaskOk, Removes, FlightInv, CachedUnderKey
  <2> QED
    BY <1>2, <2>1 DEF TaskOk, Removes, OthersLock
<1>7. TaskOk(q, t)'
  BY <1>3, <1>4, <1>5, <1>6 DEF TaskOk
<1> QED
  BY <1>1, <1>7

LEMMA OthersOk ==
  ASSUME FlightInv, NEW p \in Clients, Alike, OthersLock(p), OnlyTask(p), UNCHANGED stdio,
         NEW q \in Clients \ {p}
  PROVE  TaskOk(q, task[q])'
<1>1. PICK t : t = task[q]
  OBVIOUS
<1>2. TaskOk(q, t)
  BY <1>1 DEF FlightInv
<1>3. t.pc \in {"insert", "reuse"} => t.s \in DOMAIN session /\ session[t.s].alive
  BY <1>2 DEF TaskOk, Finds, InFlight, Claims, FlightInv, CachedUnderKey
<1>4. t.pc = "remove" => t.s \in DOMAIN session /\ ~session[t.s].alive
  BY <1>2 DEF TaskOk, Removes, FlightInv, CachedUnderKey
<1>5. Cleared(t)'
  BY <1>2, ClearedAlike DEF TaskOk
<1>6. /\ DOMAIN session \subseteq DOMAIN session'
      /\ \A s \in DOMAIN session : session'[s].key = session[s].key
      /\ t.pc \in {"insert", "reuse"} => session'[t.s].alive
      /\ t.pc = "remove" => ~session'[t.s].alive
  BY <1>3, <1>4 DEF Alike
<1> QED
  BY <1>1, <1>5, <1>6, OthersOkWhen

\* A step that may register and forget owners.
LEMMA OwnersStep ==
  ASSUME FlightInv, NEW p \in Clients, Alike, OthersLock(p), OnlyTask(p),
         UNCHANGED <<stdio, exits, sweeps>>,
         exclusive_owners' \in [XKeys -> Keys \cup {None}], OwnersClaim', Owned',
         session_exclusives' \in [Keys -> SUBSET XKeys],
         task[p].pc \notin {"insert", "remove"},
         NEW t \in Task, t = task'[p],
         Claims(t), Locks(p, t)', Finds(p, t)', Removes(p, t)', Cleared(t)
  PROVE  FlightInv'
<1>1. FlightTypes'
  <2>1. task'[Cleaner] = task[Cleaner]
    BY SessionsAssumption DEF OnlyTask, Procs
  <2> QED
    BY <2>1 DEF FlightInv, FlightTypes, OnlyTask, OthersLock, Alike, At
<1>2. CachedUnderKey' /\ SessionsClaim'
  BY DEF FlightInv, CachedUnderKey, SessionsClaim, Alike
<1>3. AliveKept'
  <2> SUFFICES ASSUME NEW s \in DOMAIN session, session[s].alive, stdio[session[s].key] # s
               PROVE  \E q \in Clients : At(q, "insert")' /\ task'[q].s = s
    BY DEF AliveKept, Alike
  <2>1. PICK q \in Clients : At(q, "insert") /\ task[q].s = s
    BY DEF FlightInv, AliveKept
  <2>2. q # p /\ task'[q] = task[q]
    BY <2>1 DEF At, OnlyTask, Procs
  <2> QED
    BY <2>1, <2>2 DEF At
<1>4. CachedRuns'
  <2> SUFFICES ASSUME NEW k \in Keys, stdio[k] # 0, ~session[stdio[k]].alive
               PROVE  \E q \in Clients : At(q, "remove")' /\ task'[q].target = k
    BY DEF CachedRuns, Alike, FlightInv, CachedUnderKey
  <2>1. PICK q \in Clients : At(q, "remove") /\ task[q].target = k
    BY DEF FlightInv, CachedRuns
  <2>2. q # p /\ task'[q] = task[q]
    BY <2>1 DEF At, OnlyTask, Procs
  <2> QED
    BY <2>1, <2>2 DEF At
<1>5. TaskOk(p, t)'
  BY ClearedAlike DEF TaskOk, Claims
<1>6. \A q \in Clients : TaskOk(q, task[q])'
  <2>1. TaskOk(p, task[p])'
    BY <1>5
  <2> QED
    BY <2>1, OthersOk
<1> QED
  BY <1>1, <1>2, <1>3, <1>4, <1>6 DEF FlightInv

\* A step that does not.
LEMMA CalmStep ==
  ASSUME FlightInv, NEW p \in Clients, Alike, OthersLock(p), OnlyTask(p),
         UNCHANGED <<stdio, exclusive_owners, exits, sweeps>>,
         session_exclusives' \in [Keys -> SUBSET XKeys],
         task[p].pc \notin {"insert", "remove"},
         NEW t \in Task, t = task'[p],
         InFlight(task[p]) => t.key = task[p].key /\ (InFlight(t) \/ XOf(t.key) = {}),
         Claims(t), Locks(p, t)', Finds(p, t)', Removes(p, t)', Cleared(t)
  PROVE  FlightInv'
<1>1. OwnersClaim' /\ exclusive_owners' \in [XKeys -> Keys \cup {None}]
  BY DEF FlightInv, FlightTypes, OwnersClaim
<1>2. Owned'
  <2> SUFFICES ASSUME NEW s \in DOMAIN session, session[s].alive, NEW x \in session[s].daemon_exclusive,
                      exclusive_owners[x] # session[s].key
               PROVE  \E q \in Clients : InFlight(task'[q]) /\ task'[q].key = session[s].key
    BY DEF Owned, Alike, InFlight, Registers
  <2>1. PICK q \in Clients : InFlight(task[q]) /\ task[q].key = session[s].key
    BY DEF FlightInv, Owned
  <2>2. CASE q = p
    BY <2>1, <2>2 DEF FlightInv, SessionsClaim
  <2>3. CASE q # p
    BY <2>1, <2>3 DEF OnlyTask, Procs
  <2> QED
    BY <2>2, <2>3
<1> QED
  BY <1>1, <1>2, OwnersStep

\* A step that ends outside of the guarded part of a request.
LEMMA FreeStep ==
  ASSUME FlightInv, NEW p \in Clients, Alike, OthersLock(p), OnlyTask(p),
         UNCHANGED <<stdio, exclusive_owners, exits, sweeps>>,
         session_exclusives' \in [Keys -> SUBSET XKeys],
         ~InFlight(task[p]), task[p].pc # "remove",
         NEW t \in Task, t = task'[p], t.pc \notin Guarded, Claims(t),
         t.pc \in Using => t.s \in DOMAIN session,
         t.pc \in Holding => session'[t.s].lock = p
  PROVE  FlightInv'
<1>1. task[p].pc \notin {"insert", "remove"}
  BY DEF InFlight
<1>2. ~InFlight(t) /\ ~Evicts(t) /\ t.pc \notin Settling
  BY GuardedPcs
<1>3. Locks(p, t)'
  BY DEF Locks, Guarded, Settling
<1>4. Finds(p, t)'
  BY <1>2 DEF Finds, Alike, Settling, InFlight, Registers
<1>5. Removes(p, t)'
  BY <1>2 DEF Removes, Guarded, Evicting, Removing, Evicts, Registers
<1>6. Cleared(t)
  BY <1>2 DEF Cleared
<1> QED
  BY <1>1, <1>3, <1>4, <1>5, <1>6, CalmStep

-----------------------------------------------------------------------------
(* The shapes of steps. *)

LEMMA PcNames ==
  /\ \A pc \in {"idle", "xlock", "help_get"} \cup Guarded \cup Using : pc \in Pcs
  /\ Settling \cup Evicting \cup Removing \cup {"evict"} \subseteq Guarded
  /\ Guarded \cap Using = {}
BY DEF Pcs, Guarded, Using, Settling, Evicting, Removing, Holding

\* The fields of a task that no step of a request changes.
SameRequest(t, u) == u.op = t.op /\ u.key = t.key /\ u.excl = t.excl

LEMMA GotoShape ==
  ASSUME FlightTypes, NEW p \in Clients, NEW pc \in Pcs, Goto(p, pc)
  PROVE  /\ OnlyTask(p)
         /\ \E t \in Task : /\ t = task'[p] /\ SameRequest(task[p], t) /\ t.pc = pc
                            /\ t.s = task[p].s /\ t.todo = task[p].todo
                            /\ t.target = task[p].target /\ t.snapshot = task[p].snapshot
                            /\ t.then = task[p].then
<1>1. task[p] \in Task /\ task \in [Procs -> Task] /\ p \in Procs
  BY DEF FlightTypes, Procs
<1> DEFINE t == [task[p] EXCEPT !.pc = pc]
<1>2. task' = [task EXCEPT ![p] = t]
  BY DEF Goto
<1>3. t \in Task
  BY <1>1 DEF Task
<1>4. /\ SameRequest(task[p], t) /\ t.pc = pc /\ t.s = task[p].s /\ t.todo = task[p].todo
      /\ t.target = task[p].target /\ t.snapshot = task[p].snapshot /\ t.then = task[p].then
  BY <1>1 DEF Task, SameRequest
<1> HIDE DEF t
<1>5. task'[p] = t /\ OnlyTask(p)
  BY <1>1, <1>2, <1>3 DEF OnlyTask
<1> QED
  BY <1>3, <1>4, <1>5

LEMMA GotoWithShape ==
  ASSUME FlightTypes, NEW p \in Clients, NEW pc \in Pcs, NEW s \in Nat, GotoWith(p, pc, s)
  PROVE  /\ OnlyTask(p)
         /\ \E t \in Task : /\ t = task'[p] /\ SameRequest(task[p], t) /\ t.pc = pc /\ t.s = s
<1>1. task[p] \in Task /\ task \in [Procs -> Task] /\ p \in Procs
  BY DEF FlightTypes, Procs
<1> DEFINE t == [task[p] EXCEPT !.pc = pc, !.s = s]
<1>2. task' = [task EXCEPT ![p] = t]
  BY <1>1 DEF GotoWith, Task
<1>3. t \in Task
  BY <1>1 DEF Task
<1>4. SameRequest(task[p], t) /\ t.pc = pc /\ t.s = s
  BY <1>1 DEF Task, SameRequest
<1> HIDE DEF t
<1>5. task'[p] = t /\ OnlyTask(p)
  BY <1>1, <1>2, <1>3 DEF OnlyTask
<1> QED
  BY <1>3, <1>4, <1>5

LEMMA RemovalShape ==
  ASSUME FlightTypes, NEW p \in Clients, NEW pc \in Pcs, NEW target \in Keys, NEW snapshot \in BOOLEAN,
         NEW then \in {"evict_next", "register"}, StartRemoval(p, pc, target, snapshot, then)
  PROVE  /\ OnlyTask(p)
         /\ \E t \in Task : /\ t = task'[p] /\ SameRequest(task[p], t) /\ t.pc = pc /\ t.s = task[p].s
                            /\ t.todo = task[p].todo /\ t.target = target /\ t.snapshot = snapshot
                            /\ t.then = then
<1>1. task[p] \in Task /\ task \in [Procs -> Task] /\ p \in Procs
  BY DEF FlightTypes, Procs
<1> DEFINE t == [task[p] EXCEPT !.pc = pc, !.target = target, !.snapshot = snapshot, !.then = then]
<1>2. task' = [task EXCEPT ![p] = t]
  BY <1>1 DEF StartRemoval, Task
<1>3. t \in Task
  BY <1>1 DEF Task
<1>4. /\ SameRequest(task[p], t) /\ t.pc = pc /\ t.s = task[p].s /\ t.todo = task[p].todo
      /\ t.target = target /\ t.snapshot = snapshot /\ t.then = then
  BY <1>1 DEF Task, SameRequest
<1> HIDE DEF t
<1>5. task'[p] = t /\ OnlyTask(p)
  BY <1>1, <1>2, <1>3 DEF OnlyTask
<1> QED
  BY <1>3, <1>4, <1>5

\* One session is written.
LEMMA Rewritten ==
  ASSUME session \in Seq(Session), NEW s \in DOMAIN session, NEW r \in Session,
         session' = [session EXCEPT ![s] = r]
  PROVE  /\ session' \in Seq(Session) /\ DOMAIN session' = DOMAIN session
         /\ session'[s] = r /\ \A u \in DOMAIN session \ {s} : session'[u] = session[u]
<1>1. PICK n \in Nat : session \in [1..n -> Session]
  BY SeqDef
<1>2. session' \in [1..n -> Session]
  BY <1>1
<1> QED
  BY <1>1, <1>2, SeqDef

\* The mutex of a session is taken or released by the one task that may, which
\* may write a session's counters too.
LEMMA MutexStep ==
  ASSUME FlightInv, NEW p \in Clients, NEW s \in DOMAIN session, NEW after \in Session,
         after.key = session[s].key, after.alive = session[s].alive,
         after.daemon_exclusive = session[s].daemon_exclusive,
         after.reuse_eligible = session[s].reuse_eligible,
         session[s].lock \in {None, p}, NEW holder \in {None, p},
         session' = [session EXCEPT ![s] = [after EXCEPT !.lock = holder]]
  PROVE  /\ Alike /\ session'[s].lock = holder
         /\ \A q \in Clients \ {p} : \A u \in DOMAIN session :
              session[u].lock = q => session'[u].lock = q
<1> DEFINE r == [after EXCEPT !.lock = holder]
<1>1. r \in Session
  BY DEF Session, Procs
<1>2. /\ r.key = session[s].key /\ r.alive = session[s].alive
      /\ r.daemon_exclusive = session[s].daemon_exclusive
      /\ r.reuse_eligible = session[s].reuse_eligible /\ r.lock = holder
  BY DEF Session
<1> HIDE DEF r
<1>3. session \in Seq(Session) /\ session' = [session EXCEPT ![s] = r]
  BY DEF FlightInv, FlightTypes, r
<1>4. /\ session' \in Seq(Session) /\ DOMAIN session' = DOMAIN session
      /\ session'[s] = r /\ \A u \in DOMAIN session \ {s} : session'[u] = session[u]
  BY <1>1, <1>3, Rewritten
<1>5. Alike
  BY <1>2, <1>4 DEF Alike
<1> QED
  BY <1>2, <1>4, <1>5, SessionsAssumption

LEMMA IdleTask == Idle \in Task /\ Idle.pc = "idle" /\ Idle.op = "none" /\ Idle.excl = {}
BY DEF Idle, Task, Pcs

\* The end of a request.
LEMMA DoneShape ==
  ASSUME FlightTypes, NEW p \in Clients, Done(p)
  PROVE  /\ OnlyTask(p) /\ task'[p] = Idle
         /\ init_lock' \in [Keys -> Clients \cup {None}]
         /\ exclusive_lock' \in [XKeys -> Clients \cup {None}]
         /\ \A q \in Clients \ {p} :
              /\ \A k \in Keys : init_lock[k] = q => init_lock'[k] = q
              /\ \A x \in XKeys : exclusive_lock[x] = q => exclusive_lock'[x] = q
BY IdleTask DEF FlightTypes, Done, DropGuards, OnlyTask, Procs

LEMMA DoneStep ==
  ASSUME FlightInv, NEW p \in Clients, Done(p), Alike,
         \A q \in Clients \ {p} : \A s \in DOMAIN session : session[s].lock = q => session'[s].lock = q,
         ~InFlight(task[p]), task[p].pc # "remove",
         UNCHANGED <<stdio, exclusive_owners, session_exclusives, exits, sweeps>>
  PROVE  FlightInv'
<1>1. FlightTypes
  BY DEF FlightInv
<1>2. OnlyTask(p) /\ task'[p] = Idle /\ OthersLock(p)
  BY <1>1, DoneShape DEF OthersLock
<1>3. "idle" \notin Guarded /\ "idle" \notin Using /\ "idle" \notin Holding
  BY DEF Guarded, Using, Holding, Settling, Evicting, Removing
<1>4. Claims(Idle)
  BY IdleTask DEF Claims, Guarded, Settling, Evicting, Removing, Users
<1>5. session_exclusives' \in [Keys -> SUBSET XKeys]
  BY <1>1 DEF FlightTypes
<1> QED
  BY <1>2, <1>3, <1>4, <1>5, IdleTask, FreeStep

-----------------------------------------------------------------------------
(* The steps of a request that leave the children and the owners alone. *)

LEMMA SessionsStay ==
  ASSUME FlightInv, UNCHANGED session
  PROVE  /\ Alike
         /\ \A p \in Clients : \A q \in Clients \ {p} : \A s \in DOMAIN session :
              session[s].lock = q => session'[s].lock = q
BY DEF Alike, FlightInv, FlightTypes

LEMMA LocksStay ==
  ASSUME FlightInv, UNCHANGED lockVars, NEW p \in Clients,
         \A q \in Clients \ {p} : \A s \in DOMAIN session : session[s].lock = q => session'[s].lock = q
  PROVE  OthersLock(p)
BY DEF OthersLock, FlightInv, FlightTypes, lockVars

LEMMA FlightTypesOf ==
  ASSUME FlightInv, NEW p \in Clients
  PROVE  /\ FlightTypes /\ task[p] \in Task /\ TaskOk(p, task[p])
         /\ UNCHANGED session_exclusives => session_exclusives' \in [Keys -> SUBSET XKeys]
BY DEF FlightInv, FlightTypes, Procs

LEMMA AcquireExclusiveLockKeeps ==
  ASSUME FlightInv, NEW p \in Clients, AcquireExclusiveLock(p)
  PROVE  FlightInv'
<1>1. PICK x \in StillToLock(p) :
        /\ exclusive_lock[x] = None
        /\ exclusive_lock' = [exclusive_lock EXCEPT ![x] = p]
        /\ Goto(p, IF StillToLock(p) = {x} THEN "evict" ELSE "xlock")
  BY DEF AcquireExclusiveLock
<1> DEFINE pc == IF StillToLock(p) = {x} THEN "evict" ELSE "xlock"
<1>2. pc \in Pcs /\ pc \notin Using /\ task[p].pc = "xlock"
  BY DEF Pcs, Guarded, Using, Holding, AcquireExclusiveLock, At
<1>3. /\ FlightTypes /\ TaskOk(p, task[p]) /\ task[p] \in Task
      /\ UNCHANGED <<stdio, exclusive_owners, exits, sweeps, session, init_lock>>
      /\ session_exclusives' \in [Keys -> SUBSET XKeys]
  BY FlightTypesOf DEF AcquireExclusiveLock, registryVars, boundVars
<1>4. OnlyTask(p)
  BY <1>1, <1>2, <1>3, GotoShape
<1>5. PICK t \in Task : t = task'[p] /\ SameRequest(task[p], t) /\ t.pc = pc
  BY <1>1, <1>2, <1>3, GotoShape
<1>6. Alike /\ OthersLock(p)
  <2>1. /\ Alike
        /\ \A q \in Clients \ {p} : \A s \in DOMAIN session :
             session[s].lock = q => session'[s].lock = q
    BY <1>3, SessionsStay
  <2>2. exclusive_lock \in [XKeys -> Clients \cup {None}] /\ None \notin Clients
    BY <1>3, SessionsAssumption DEF FlightTypes
  <2>3. exclusive_lock' \in [XKeys -> Clients \cup {None}]
    BY <1>1, <2>2
  <2>4. \A q \in Clients \ {p}, y \in XKeys : exclusive_lock[y] = q => exclusive_lock'[y] = q
    BY <1>1, <2>2
  <2>5. init_lock' \in [Keys -> Clients \cup {None}]
        /\ \A q \in Clients \ {p}, k \in Keys : init_lock[k] = q => init_lock'[k] = q
    BY <1>3 DEF FlightTypes
  <2> QED BY <2>1, <2>3, <2>4, <2>5 DEF OthersLock
<1>7. ~InFlight(task[p]) /\ task[p].pc \notin {"insert", "remove"}
  BY <1>2 DEF InFlight, Removing
<1>8. Claims(t)
  BY <1>2, <1>3, <1>5 DEF TaskOk, Claims, SameRequest
<1>9. CASE StillToLock(p) = {x}
  <2>1. t.pc = "evict"
    BY <1>5, <1>9
  <2>2. \A y \in t.excl : exclusive_lock'[y] = p
    BY <1>1, <1>3, <1>5, <1>9 DEF StillToLock, SameRequest, FlightTypes, Task
  <2>3. Locks(p, t)'
    BY <2>1, <2>2 DEF Locks
  <2>4. Finds(p, t)' /\ Removes(p, t)' /\ Cleared(t)
    BY <2>1 DEF Finds, Removes, Cleared, InFlight, Evicts, Evicting, Removing, Settling, Holding, Using
  <2> QED
    BY <1>3, <1>4, <1>5, <1>6, <1>7, <1>8, <2>3, <2>4, CalmStep
<1>10. CASE StillToLock(p) # {x}
  <2>1. t.pc = "xlock"
    BY <1>5, <1>10
  <2>2. t.pc \notin Guarded /\ t.pc \notin Using /\ t.pc \notin Holding
    BY <2>1 DEF Guarded, Using, Holding, Settling, Evicting, Removing
  <2> QED
    BY <1>3, <1>4, <1>5, <1>6, <1>7, <1>8, <2>2, FreeStep
<1> QED
  BY <1>9, <1>10

LEMMA EvictScanKeeps ==
  ASSUME FlightInv, NEW p \in Clients, EvictScan(p)
  PROVE  FlightInv'
<1>1. task[p].pc = "evict" /\ task[p].pc \in Guarded
  BY DEF EvictScan, At, Guarded
<1>2. /\ FlightTypes /\ TaskOk(p, task[p]) /\ task[p] \in Task
      /\ UNCHANGED <<stdio, exclusive_owners, exits, sweeps, session>> /\ UNCHANGED lockVars
      /\ session_exclusives' \in [Keys -> SUBSET XKeys]
  BY FlightTypesOf DEF EvictScan, registryVars, boundVars
<1>3. ConflictingOwners(p) \subseteq Rivals(task[p])
  <2> SUFFICES ASSUME NEW x \in task[p].excl, exclusive_owners[x] \notin {None, task[p].key}
               PROVE  exclusive_owners[x] \in Rivals(task[p])
    BY DEF ConflictingOwners
  <2>1. x \in XKeys /\ exclusive_owners[x] \in Keys /\ x \in XOf(exclusive_owners[x])
    BY <1>2 DEF FlightTypes, Task, FlightInv, OwnersClaim
  <2> QED
    BY <2>1 DEF Rivals
<1> DEFINE t == [task[p] EXCEPT !.todo = ConflictingOwners(p), !.pc = "evict_next"]
<1>4. ConflictingOwners(p) \subseteq Keys
  BY <1>3 DEF Rivals
<1>5. t \in Task /\ SameRequest(task[p], t) /\ t.pc = "evict_next" /\ t.todo = ConflictingOwners(p)
  BY <1>2, <1>4 DEF Task, SameRequest, Pcs, Guarded, Evicting
<1>6. task' = [task EXCEPT ![p] = t]
  BY <1>2, <1>4 DEF EvictScan, Task, FlightTypes, Procs
<1> HIDE DEF t
<1>7. task'[p] = t /\ OnlyTask(p)
  BY <1>2, <1>5, <1>6 DEF OnlyTask, FlightTypes, Procs
<1>8. PICK u \in Task : u = t
  BY <1>5
<1>9. Alike /\ OthersLock(p)
  BY <1>2, SessionsStay, LocksStay
<1>10. Claims(u)
  BY <1>1, <1>2, <1>5, <1>8 DEF TaskOk, Claims, SameRequest, Guarded, Evicting
<1>11. Locks(p, u)'
  BY <1>1, <1>2, <1>5, <1>8 DEF TaskOk, Locks, SameRequest, lockVars
<1>12. Finds(p, u)'
  BY <1>5, <1>8 DEF Finds, InFlight, Removing, Using, Holding
<1>13. Rivals(u) = Rivals(task[p])
  BY <1>5, <1>8 DEF Rivals, SameRequest
<1>14. Removes(p, u)'
  BY <1>3, <1>5, <1>8, <1>13 DEF Removes, Removing
<1>15. Cleared(u)
  <2> SUFFICES ASSUME NEW s \in DOMAIN session, session[s].alive, session[s].key \in Rivals(u)
               PROVE  session[s].key \in ConflictingOwners(p)
    BY <1>5, <1>8 DEF Cleared, Settling, InFlight, Removing
  <2>1. PICK x \in XOf(session[s].key) : x \in task[p].excl
    BY <1>13 DEF Rivals
  <2>2. exclusive_owners[x] = session[s].key
    BY <1>1, <1>13, <2>1, RivalsAreKnown
  <2>3. session[s].key \notin {None, task[p].key}
    BY <1>13, SessionsAssumption DEF Rivals
  <2> QED
    BY <2>1, <2>2, <2>3 DEF ConflictingOwners
<1>16. ~InFlight(task[p]) /\ task[p].pc \notin {"insert", "remove"}
  BY <1>1 DEF InFlight, Removing
<1> QED
  BY <1>2, <1>7, <1>8, <1>9, <1>10, <1>11, <1>12, <1>14, <1>15, <1>16, CalmStep

LEMMA RequestKeeps ==
  ASSUME FlightInv, Disciplined, NEW p \in Clients, NEW r \in Requests, Request(p, r)
  PROVE  FlightInv'
<1>1. /\ r.op \in Users \cup {"help"} /\ r.key \in Keys /\ r.excl \in SUBSET XKeys
      /\ r.ttl \in BOOLEAN /\ r.bad_args \in BOOLEAN
      /\ r.op \in Users => r.excl = XOf(r.key)
      /\ r.op = "help" => r.excl = {}
  BY SessionsAssumption DEF Disciplined, Users
<1> DEFINE pc == CASE r.op = "help" -> "help_get"
                   [] r.op = "kill" -> "kill_get"
                   [] OTHER -> IF r.excl = {} THEN "lookup" ELSE "xlock"
           t == [Idle EXCEPT !.op = r.op, !.key = r.key, !.excl = r.excl, !.ttl = r.ttl,
                             !.bad_args = r.bad_args, !.pc = pc]
<1>2. /\ pc \in {"help_get", "lookup", "xlock"}
      /\ pc = "help_get" <=> r.op = "help"
      /\ pc = "lookup" => r.excl = {}
  BY <1>1 DEF Users
<1> HIDE DEF pc
<1>3. t \in Task
  BY <1>1, <1>2 DEF Idle, Task, Pcs, Guarded, Settling
<1>4. t.pc = pc /\ t.op = r.op /\ t.key = r.key /\ t.excl = r.excl
  BY DEF Idle
<1>5. task' = [task EXCEPT ![p] = t] /\ task[p].pc = "idle"
  BY DEF Request, pc, At
<1> HIDE DEF t
<1>6. /\ FlightTypes /\ UNCHANGED <<stdio, exclusive_owners, exits, sweeps, session>>
      /\ UNCHANGED lockVars /\ session_exclusives' \in [Keys -> SUBSET XKeys]
  BY FlightTypesOf DEF Request, registryVars, boundVars
<1>7. task'[p] = t /\ OnlyTask(p)
  BY <1>3, <1>5, <1>6 DEF OnlyTask, FlightTypes, Procs
<1>8. PICK u \in Task : u = t
  BY <1>3
<1>9. Alike /\ OthersLock(p)
  BY <1>6, SessionsStay, LocksStay
<1>10. ~InFlight(task[p]) /\ task[p].pc \notin {"insert", "remove"}
  BY <1>5 DEF InFlight, Removing
<1>11. Claims(u)
  BY <1>1, <1>2, <1>4, <1>8 DEF Claims, Users, Guarded, Settling, Evicting, Removing
<1>12. CASE pc = "lookup"
  <2>1. u.pc = "lookup" /\ u.excl = {}
    BY <1>2, <1>4, <1>8, <1>12
  <2>2. Locks(p, u)' /\ Finds(p, u)' /\ Removes(p, u)' /\ Cleared(u)
    BY <2>1 DEF Locks, Finds, Removes, Cleared, Rivals, InFlight, Evicts, Evicting, Removing, Using, Holding
  <2> QED
    BY <1>6, <1>7, <1>8, <1>9, <1>10, <1>11, <2>2, CalmStep
<1>13. CASE pc # "lookup"
  <2>1. u.pc \notin Guarded /\ u.pc \notin Using /\ u.pc \notin Holding
    BY <1>2, <1>4, <1>8, <1>13 DEF Guarded, Using, Holding, Settling, Evicting, Removing
  <2> QED
    BY <1>6, <1>7, <1>8, <1>9, <1>10, <1>11, <2>1, FreeStep
<1> QED
  BY <1>12, <1>13

LEMMA LookupKeeps ==
  ASSUME FlightInv, NEW p \in Clients, Lookup(p)
  PROVE  FlightInv'
<1> DEFINE s == stdio[task[p].key]
           pc == IF s # 0 THEN "reuse" ELSE IF HoldsInit(p) THEN "spawn" ELSE "init"
<1>1. task[p].pc = "lookup" /\ task[p].pc \in Guarded /\ GotoWith(p, pc, s)
  BY DEF Lookup, At, Guarded, Settling
<1>2. /\ FlightTypes /\ TaskOk(p, task[p]) /\ task[p] \in Task
      /\ UNCHANGED <<stdio, exclusive_owners, exits, sweeps, session>> /\ UNCHANGED lockVars
      /\ session_exclusives' \in [Keys -> SUBSET XKeys]
  BY FlightTypesOf DEF Lookup, registryVars, boundVars
<1>3. task[p].key \in Keys /\ s \in Nat
  BY <1>1, <1>2 DEF TaskOk, Claims, FlightTypes
<1>4. pc \in {"reuse", "spawn", "init"} /\ pc \in Pcs
  BY DEF Pcs, Guarded, Settling
<1>5. OnlyTask(p)
  BY <1>1, <1>2, <1>3, <1>4, GotoWithShape
<1>6. PICK t \in Task : t = task'[p] /\ SameRequest(task[p], t) /\ t.pc = pc /\ t.s = s
  BY <1>1, <1>2, <1>3, <1>4, GotoWithShape
<1>7. Alike /\ OthersLock(p)
  BY <1>2, SessionsStay, LocksStay
<1>8. Claims(t)
  BY <1>1, <1>2, <1>4, <1>6 DEF TaskOk, Claims, SameRequest, Guarded, Settling
<1>9. Locks(p, t)'
  BY <1>1, <1>2, <1>4, <1>6 DEF TaskOk, Locks, SameRequest, HoldsInit, lockVars
<1>10. s # 0 => session[s].alive
  <2> SUFFICES ASSUME s # 0, ~session[s].alive PROVE FALSE
    OBVIOUS
  <2>1. PICK q \in Clients : At(q, "remove") /\ task[q].target = task[p].key
    BY <1>3 DEF FlightInv, CachedRuns
  <2>2. task[q].pc \in Guarded /\ Evicts(task[q])
    BY <2>1 DEF At, Guarded, Evicting, Evicts
  <2>3. task[q].target \in Rivals(task[q])
    BY <2>1, <2>2 DEF At, FlightInv, TaskOk, Removes
  <2> QED
    BY <1>1, <2>1, <2>2, <2>3, RivalsWait
<1>11. Finds(p, t)'
  BY <1>2, <1>4, <1>6, <1>10 DEF Finds, InFlight, Removing, Using, Holding, SameRequest
<1>12. Removes(p, t)'
  BY <1>4, <1>6 DEF Removes, Removing, Evicts, Evicting
<1>13. Cleared(t)
  <2>1. Rivals(t) = Rivals(task[p])
    BY <1>6 DEF Rivals, SameRequest
  <2> QED
    BY <1>1, <1>2, <1>4, <1>6, <2>1 DEF TaskOk, Cleared, Settling, Evicts, Evicting, Removing
<1>14. ~InFlight(task[p]) /\ task[p].pc \notin {"insert", "remove"}
  BY <1>1 DEF InFlight, Removing
<1> QED
  BY <1>2, <1>5, <1>6, <1>7, <1>8, <1>9, <1>11, <1>12, <1>13, <1>14, CalmStep

LEMMA AcquireInitLockKeeps ==
  ASSUME FlightInv, NEW p \in Clients, AcquireInitLock(p)
  PROVE  FlightInv'
<1>1. /\ task[p].pc = "init" /\ task[p].pc \in Guarded /\ Goto(p, "lookup")
      /\ init_lock[task[p].key] = None /\ init_lock' = [init_lock EXCEPT ![task[p].key] = p]
  BY DEF AcquireInitLock, At, Guarded, Settling
<1>2. /\ FlightTypes /\ TaskOk(p, task[p]) /\ task[p] \in Task
      /\ UNCHANGED <<stdio, exclusive_owners, exits, sweeps, session, exclusive_lock>>
      /\ session_exclusives' \in [Keys -> SUBSET XKeys]
  BY FlightTypesOf DEF AcquireInitLock, registryVars, boundVars
<1>3. "lookup" \in Pcs
  BY DEF Pcs, Guarded, Settling
<1>4. OnlyTask(p)
  BY <1>1, <1>2, <1>3, GotoShape
<1>5. PICK t \in Task : t = task'[p] /\ SameRequest(task[p], t) /\ t.pc = "lookup"
  BY <1>1, <1>2, <1>3, GotoShape
<1>6. Alike /\ OthersLock(p)
  <2>1. /\ Alike
        /\ \A q \in Clients \ {p} : \A s \in DOMAIN session :
             session[s].lock = q => session'[s].lock = q
    BY <1>2, SessionsStay
  <2>2. init_lock \in [Keys -> Clients \cup {None}] /\ None \notin Clients
    BY <1>2, SessionsAssumption DEF FlightTypes
  <2>3. init_lock' \in [Keys -> Clients \cup {None}]
    BY <1>1, <2>2
  <2>4. \A q \in Clients \ {p}, k \in Keys : init_lock[k] = q => init_lock'[k] = q
    BY <1>1, <2>2
  <2>5. exclusive_lock' \in [XKeys -> Clients \cup {None}]
        /\ \A q \in Clients \ {p}, x \in XKeys : exclusive_lock[x] = q => exclusive_lock'[x] = q
    BY <1>2 DEF FlightTypes
  <2> QED BY <2>1, <2>3, <2>4, <2>5 DEF OthersLock
<1>7. Claims(t)
  BY <1>1, <1>2, <1>5 DEF TaskOk, Claims, SameRequest, Guarded, Settling
<1>8. Locks(p, t)'
  BY <1>1, <1>2, <1>5 DEF TaskOk, Locks, SameRequest
<1>9. Finds(p, t)' /\ Removes(p, t)'
  BY <1>5 DEF Finds, InFlight, Removing, Using, Holding, Removes, Evicts, Evicting
<1>10. Cleared(t)
  <2>1. Rivals(t) = Rivals(task[p])
    BY <1>5 DEF Rivals, SameRequest
  <2> QED
    BY <1>1, <1>2, <1>5, <2>1 DEF TaskOk, Cleared, Settling, Evicts, Evicting, Removing
<1>11. ~InFlight(task[p]) /\ task[p].pc \notin {"insert", "remove"}
  BY <1>1 DEF InFlight, Removing
<1> QED
  BY <1>2, <1>4, <1>5, <1>6, <1>7, <1>8, <1>9, <1>10, <1>11, CalmStep

\* The start of register_stdio_exclusive_keys, if there is any to register.
LEMMA StartRegistration ==
  ASSUME FlightInv, NEW p \in Clients, task[p].pc \in {"reuse", "insert_snapshot"},
         task[p].s \in DOMAIN session, Alike, OthersLock(p), UNCHANGED lockVars,
         UNCHANGED <<stdio, exclusive_owners, exits, sweeps>>,
         session_exclusives' \in [Keys -> SUBSET XKeys],
         StartRemoval(p, IF task[p].excl = {} THEN "hand_out" ELSE "clean",
                      task[p].key, FALSE, "register")
  PROVE  FlightInv'
<1>1. FlightTypes /\ TaskOk(p, task[p]) /\ task[p] \in Task /\ task[p].pc \in Guarded
  BY FlightTypesOf DEF Guarded, Settling
<1>2. task[p].key \in Keys /\ task[p].excl = XOf(task[p].key)
  BY <1>1 DEF TaskOk, Claims
<1>3. PICK pc \in Pcs : pc = IF task[p].excl = {} THEN "hand_out" ELSE "clean"
  BY DEF Pcs, Guarded, Settling, Removing
<1>4. pc \in {"hand_out", "clean"}
  BY <1>3
<1>5. PICK no \in BOOLEAN : no = FALSE
  OBVIOUS
<1>6. StartRemoval(p, pc, task[p].key, no, "register")
  BY <1>3, <1>5 DEF StartRemoval
<1>7. OnlyTask(p)
  BY <1>1, <1>2, <1>6, RemovalShape
<1>8. PICK t \in Task : /\ t = task'[p] /\ SameRequest(task[p], t) /\ t.pc = pc /\ t.s = task[p].s
                        /\ t.target = task[p].key /\ ~t.snapshot /\ t.then = "register"
  BY <1>1, <1>2, <1>5, <1>6, RemovalShape
<1>9. Claims(t)
  BY <1>1, <1>4, <1>8 DEF TaskOk, Claims, SameRequest, Guarded, Settling, Removing
<1>10. Locks(p, t)'
  BY <1>1, <1>4, <1>8 DEF TaskOk, Locks, SameRequest, lockVars
<1>11. Finds(p, t)'
  BY <1>4, <1>8 DEF Finds, Alike, Using, Holding
<1>12. Removes(p, t)'
  BY <1>2, <1>4, <1>8 DEF Removes, Removing, Evicts, Evicting, Registers, SameRequest
<1>13. Cleared(t)
  <2>1. Rivals(t) = Rivals(task[p])
    BY <1>8 DEF Rivals, SameRequest
  <2>2. ~Evicts(t)
    BY <1>4, <1>8 DEF Evicts, Evicting, Registers
  <2> QED
    BY <1>1, <2>1, <2>2 DEF TaskOk, Cleared, Settling
<1>14. t.key = task[p].key /\ (InFlight(t) \/ XOf(t.key) = {})
  BY <1>2, <1>3, <1>8 DEF InFlight, Removing, Registers, SameRequest
<1> QED
  BY <1>7, <1>8, <1>9, <1>10, <1>11, <1>12, <1>13, <1>14, CalmStep

LEMMA TryReuseKeeps ==
  ASSUME FlightInv, NEW p \in Clients, TryReuse(p)
  PROVE  FlightInv'
<1> DEFINE s == task[p].s
           after == ApplyRequestMetadata(s, task[p])
<1>1. task[p].pc = "reuse" /\ Free(s)
  BY DEF TryReuse, At
<1>2. FlightTypes /\ TaskOk(p, task[p]) /\ task[p] \in Task
  BY FlightTypesOf
<1>3. task[p].key \in Keys /\ task[p].excl = XOf(task[p].key) /\ task[p].excl \in SUBSET XKeys
      /\ task[p].ttl \in BOOLEAN
  BY <1>1, <1>2 DEF TaskOk, Claims, Task, Guarded, Settling
<1>4. s \in DOMAIN session /\ session[s].alive /\ session[s].key = task[p].key /\ session[s] \in Session
  <2>1. s # 0 /\ stdio[task[p].key] = s /\ session[s].alive
    BY <1>1, <1>2 DEF TaskOk, Finds
  <2>2. s \in DOMAIN session /\ session[s].key = task[p].key
    BY <1>3, <2>1 DEF FlightInv, CachedUnderKey
  <2>3. session[s] \in Session
    BY <1>2, <2>2, ElementOfSeq DEF FlightTypes
  <2> QED
    BY <2>1, <2>2, <2>3
<1>5. session[s].reuse_eligible /\ session[s].daemon_exclusive = XOf(task[p].key)
  BY <1>4 DEF FlightInv, SessionsClaim
<1>6. /\ Unlocked(s, after)
      /\ StartRemoval(p, IF task[p].excl = {} THEN "hand_out" ELSE "clean",
                      task[p].key, FALSE, "register")
      /\ UNCHANGED <<stdio, exclusive_owners, exits, sweeps>> /\ UNCHANGED lockVars
      /\ session_exclusives' \in [Keys -> SUBSET XKeys]
  BY <1>4, <1>5, FlightTypesOf DEF TryReuse, registryVars, boundVars
<1>7. /\ after \in Session /\ after.key = session[s].key /\ after.alive = session[s].alive
      /\ after.daemon_exclusive = session[s].daemon_exclusive
      /\ after.reuse_eligible = session[s].reuse_eligible
  BY <1>3, <1>4, <1>5 DEF ApplyRequestMetadata, Session
<1>8. session[s].lock = None /\ session' = [session EXCEPT ![s] = [after EXCEPT !.lock = None]]
  BY <1>1, <1>6 DEF Free, Unlocked
<1> HIDE DEF after
<1>9. /\ Alike
      /\ \A q \in Clients \ {p} : \A u \in DOMAIN session : session[u].lock = q => session'[u].lock = q
  BY <1>4, <1>7, <1>8, MutexStep
<1>10. OthersLock(p)
  BY <1>6, <1>9, LocksStay
<1> QED
  BY <1>1, <1>4, <1>6, <1>9, <1>10, StartRegistration

LEMMA InsertSnapshotKeeps ==
  ASSUME FlightInv, NEW p \in Clients, InsertSnapshot(p)
  PROVE  FlightInv'
<1>1. task[p].pc = "insert_snapshot"
  BY DEF InsertSnapshot, At
<1>2. task[p].s \in DOMAIN session
  BY <1>1, FlightTypesOf DEF TaskOk, Finds, InFlight
<1>3. /\ UNCHANGED <<stdio, exclusive_owners, exits, sweeps, session>> /\ UNCHANGED lockVars
      /\ session_exclusives' \in [Keys -> SUBSET XKeys]
      /\ StartRemoval(p, IF task[p].excl = {} THEN "hand_out" ELSE "clean",
                      task[p].key, FALSE, "register")
  BY FlightTypesOf DEF InsertSnapshot, registryVars, boundVars
<1>4. Alike /\ OthersLock(p)
  BY <1>3, SessionsStay, LocksStay
<1> QED
  BY <1>1, <1>2, <1>3, <1>4, StartRegistration

-----------------------------------------------------------------------------
(* What is done with a session. *)

LEMMA UsedSession ==
  ASSUME FlightInv, NEW p \in Clients, task[p].pc \in Using
  PROVE  /\ task[p].s \in DOMAIN session /\ session[task[p].s] \in Session
         /\ task[p].pc \in Holding => session[task[p].s].lock = p
         /\ ~InFlight(task[p]) /\ task[p].pc # "remove" /\ task[p].key \in Keys
<1>1. FlightTypes /\ TaskOk(p, task[p])
  BY FlightTypesOf
<1>2. task[p].s \in DOMAIN session
  BY <1>1 DEF TaskOk, Finds
<1>3. session[task[p].s] \in Session
  BY <1>1, <1>2, ElementOfSeq DEF FlightTypes
<1>4. task[p].pc \in Holding => session[task[p].s].lock = p
  BY <1>1 DEF TaskOk, Finds
<1>5. task[p].pc \notin Guarded
  BY PcNames
<1>6. task[p].pc # "idle"
  BY DEF Using, Holding
<1>7. task[p].key \in Keys
  BY <1>1, <1>6 DEF TaskOk, Claims
<1> QED
  BY <1>2, <1>3, <1>4, <1>5, <1>7, GuardedPcs DEF Guarded, Evicting

LEMMA UseStep ==
  ASSUME FlightInv, NEW p \in Clients, task[p].pc \in Using, NEW pc \in Using, Goto(p, pc),
         Alike, OthersLock(p),
         UNCHANGED <<stdio, exclusive_owners, session_exclusives, exits, sweeps>>,
         pc \in Holding => session'[task[p].s].lock = p
  PROVE  FlightInv'
<1>1. FlightTypes /\ TaskOk(p, task[p]) /\ session_exclusives' \in [Keys -> SUBSET XKeys]
  BY FlightTypesOf
<1>2. pc \in Pcs /\ pc \notin Guarded /\ pc \notin {"idle", "xlock"}
  BY PcNames DEF Using, Holding
<1>3. OnlyTask(p)
  BY <1>1, <1>2, GotoShape
<1>4. PICK t \in Task : t = task'[p] /\ SameRequest(task[p], t) /\ t.pc = pc /\ t.s = task[p].s
  BY <1>1, <1>2, GotoShape
<1>5. task[p].pc # "idle"
  BY DEF Using, Holding
<1>6. Claims(t)
  BY <1>1, <1>2, <1>4, <1>5 DEF TaskOk, Claims, SameRequest
<1> QED
  BY <1>1, <1>2, <1>3, <1>4, <1>6, UsedSession, FreeStep

\* A step of a request that takes or releases the mutex of its session.
LEMMA UseMutex ==
  ASSUME FlightInv, NEW p \in Clients, task[p].pc \in Using, NEW after \in Session,
         after.key = session[task[p].s].key, after.alive = session[task[p].s].alive,
         after.daemon_exclusive = session[task[p].s].daemon_exclusive,
         after.reuse_eligible = session[task[p].s].reuse_eligible,
         Free(task[p].s) \/ task[p].pc \in Holding,
         NEW holder \in {None, p},
         session' = [session EXCEPT ![task[p].s] = [after EXCEPT !.lock = holder]]
  PROVE  /\ Alike /\ session'[task[p].s].lock = holder
         /\ \A q \in Clients \ {p} : \A u \in DOMAIN session :
              session[u].lock = q => session'[u].lock = q
<1>1. task[p].s \in DOMAIN session /\ session[task[p].s].lock \in {None, p}
  BY UsedSession DEF Free
<1> QED
  BY <1>1, MutexStep

LEMMA HandOutKeeps ==
  ASSUME FlightInv, NEW p \in Clients, HandOut(p)
  PROVE  FlightInv'
<1>1. FlightTypes /\ TaskOk(p, task[p]) /\ task[p].pc = "hand_out"
  BY FlightTypesOf DEF HandOut, At
<1>2. PICK pc \in Pcs : /\ pc = IF task[p].op = "subscribe" THEN "sub_lock" ELSE "start"
                        /\ pc \in Using /\ pc \notin Holding /\ pc \notin Guarded
  BY DEF Pcs, Using, Holding, Guarded, Settling, Evicting, Removing
<1>3. Goto(p, pc) /\ DropGuards(p)
  BY <1>2 DEF HandOut
<1>4. OnlyTask(p)
  BY <1>1, <1>3, GotoShape
<1>5. PICK t \in Task : t = task'[p] /\ SameRequest(task[p], t) /\ t.pc = pc /\ t.s = task[p].s
  BY <1>1, <1>3, GotoShape
<1>6. /\ UNCHANGED <<stdio, exclusive_owners, exits, sweeps, session>>
      /\ session_exclusives' \in [Keys -> SUBSET XKeys]
  BY FlightTypesOf DEF HandOut, registryVars, boundVars
<1>7. Alike /\ OthersLock(p)
  BY <1>1, <1>3, <1>6, SessionsStay DEF DropGuards, OthersLock, FlightTypes
<1>8. Claims(t)
  BY <1>1, <1>2, <1>5 DEF TaskOk, Claims, SameRequest, Using, Holding
<1>9. t.s \in DOMAIN session
  BY <1>1, <1>5 DEF TaskOk, Finds
<1>10. ~InFlight(task[p]) /\ task[p].pc # "remove"
  BY <1>1 DEF InFlight, Removing
<1> QED
  BY <1>2, <1>4, <1>5, <1>6, <1>7, <1>8, <1>9, <1>10, FreeStep

LEMMA MarksKeep ==
  ASSUME FlightInv, NEW p \in Clients, MarkStarted(p) \/ MarkFinished(p)
  PROVE  FlightInv'
<1>1. UNCHANGED <<stdio, exclusive_owners, session_exclusives, exits, sweeps, session>>
  BY DEF MarkStarted, MarkFinished, registryVars, boundVars
<1>2. /\ Alike
      /\ \A q \in Clients \ {p} : \A s \in DOMAIN session : session[s].lock = q => session'[s].lock = q
  BY <1>1, SessionsStay
<1>3. CASE MarkStarted(p)
  <2>1. /\ task[p].pc \in Using /\ "call" \in Using /\ "call" \notin Holding
        /\ Goto(p, "call") /\ UNCHANGED lockVars
    BY <1>3 DEF MarkStarted, At, Using, Holding
  <2>2. OthersLock(p)
    BY <1>2, <2>1, LocksStay
  <2> QED
    BY <1>1, <1>2, <2>1, <2>2, UseStep
<1>4. CASE MarkFinished(p)
  <2>1. task[p].pc \in Using /\ Done(p)
    BY <1>4 DEF MarkFinished, At, Using
  <2> QED
    BY <1>1, <1>2, <2>1, UsedSession, DoneStep
<1> QED
  BY <1>3, <1>4

LEMMA StartCallKeeps ==
  ASSUME FlightInv, NEW p \in Clients, StartCall(p)
  PROVE  FlightInv'
<1>1. /\ task[p].pc \in Using /\ task[p].pc = "call" /\ Free(task[p].s) /\ Goto(p, "calling")
      /\ "calling" \in Using /\ UNCHANGED lockVars
      /\ UNCHANGED <<stdio, exclusive_owners, session_exclusives, exits, sweeps>>
  BY DEF StartCall, At, Using, Holding, registryVars, boundVars
<1>2. /\ session[task[p].s] \in Session /\ task[p] \in Task
      /\ task[p].op = "help" => task[p].excl = {}
  BY <1>1, UsedSession, FlightTypesOf DEF TaskOk, Claims
<1> DEFINE s == task[p].s
           met == IF task[p].op = "help" THEN ApplyRequestMetadata(s, task[p]) ELSE session[s]
           after == [met EXCEPT !.stale = FALSE]
<1>3. /\ met \in Session /\ met.key = session[s].key /\ met.alive = session[s].alive
      /\ met.daemon_exclusive = session[s].daemon_exclusive
      /\ met.reuse_eligible = session[s].reuse_eligible
  <2>1. CASE task[p].op = "help"
    BY <1>2, <2>1 DEF ApplyRequestMetadata, Session, Task
  <2> QED
    BY <1>2, <2>1
<1>4. session' = [session EXCEPT ![s] = [after EXCEPT !.lock = p]]
  BY DEF StartCall, Locked
<1> HIDE DEF met
<1>5. /\ after \in Session /\ after.key = session[s].key /\ after.alive = session[s].alive
      /\ after.daemon_exclusive = session[s].daemon_exclusive
      /\ after.reuse_eligible = session[s].reuse_eligible
  BY <1>3 DEF Session
<1> HIDE DEF after
<1>6. /\ Alike /\ session'[s].lock = p
      /\ \A q \in Clients \ {p} : \A u \in DOMAIN session : session[u].lock = q => session'[u].lock = q
  BY <1>1, <1>4, <1>5, UseMutex
<1>7. OthersLock(p)
  BY <1>1, <1>6, LocksStay
<1> QED
  BY <1>1, <1>6, <1>7, UseStep

\* The mutex changes hands and the request goes on, or ends.
LEMMA UseMutexStep ==
  ASSUME FlightInv, NEW p \in Clients, task[p].pc \in Using, NEW after \in Session,
         after.key = session[task[p].s].key, after.alive = session[task[p].s].alive,
         after.daemon_exclusive = session[task[p].s].daemon_exclusive,
         after.reuse_eligible = session[task[p].s].reuse_eligible,
         Free(task[p].s) \/ task[p].pc \in Holding,
         NEW holder \in {None, p},
         session' = [session EXCEPT ![task[p].s] = [after EXCEPT !.lock = holder]],
         NEW pc \in Using, pc \in Holding => holder = p,
         (Goto(p, pc) /\ UNCHANGED lockVars) \/ Done(p),
         UNCHANGED <<stdio, exclusive_owners, session_exclusives, exits, sweeps>>
  PROVE  FlightInv'
<1>1. /\ Alike /\ session'[task[p].s].lock = holder
      /\ \A q \in Clients \ {p} : \A u \in DOMAIN session : session[u].lock = q => session'[u].lock = q
  BY UseMutex
<1>2. CASE Goto(p, pc) /\ UNCHANGED lockVars
  <2>1. OthersLock(p)
    BY <1>1, <1>2, LocksStay
  <2> QED
    BY <1>1, <1>2, <2>1, UseStep
<1>3. CASE Done(p)
  BY <1>1, <1>3, UsedSession, DoneStep
<1> QED
  BY <1>2, <1>3

\* The mutex is taken, or released, with the session as it is.
LEMMA UseLock ==
  ASSUME FlightInv, NEW p \in Clients, task[p].pc \in Using, Free(task[p].s),
         Locked(task[p].s, p, session[task[p].s]),
         NEW pc \in Using, Goto(p, pc), UNCHANGED lockVars,
         UNCHANGED <<stdio, exclusive_owners, session_exclusives, exits, sweeps>>
  PROVE  FlightInv'
<1>1. PICK after \in Session : after = session[task[p].s]
  BY UsedSession
<1>2. session' = [session EXCEPT ![task[p].s] = [after EXCEPT !.lock = p]]
  BY <1>1 DEF Locked
<1> QED
  BY <1>1, <1>2, UseMutexStep

LEMMA UseUnlock ==
  ASSUME FlightInv, NEW p \in Clients, task[p].pc \in Holding,
         Unlocked(task[p].s, session[task[p].s]),
         NEW pc \in Using \ Holding, (Goto(p, pc) /\ UNCHANGED lockVars) \/ Done(p),
         UNCHANGED <<stdio, exclusive_owners, session_exclusives, exits, sweeps>>
  PROVE  FlightInv'
<1>1. task[p].pc \in Using
  BY DEF Using
<1>2. PICK after \in Session : after = session[task[p].s]
  BY <1>1, UsedSession
<1>3. session' = [session EXCEPT ![task[p].s] = [after EXCEPT !.lock = None]]
  BY <1>2 DEF Unlocked
<1> QED
  BY <1>1, <1>2, <1>3, UseMutexStep

LEMMA EndCallKeeps ==
  ASSUME FlightInv, NEW p \in Clients, EndCall(p)
  PROVE  FlightInv'
<1>1. /\ task[p].pc \in Holding /\ "finish" \in Using \ Holding
      /\ Unlocked(task[p].s, session[task[p].s])
      /\ (Goto(p, "finish") /\ UNCHANGED lockVars) \/ Done(p)
      /\ UNCHANGED <<stdio, exclusive_owners, session_exclusives, exits, sweeps>>
  BY DEF EndCall, At, Using, Holding, registryVars, boundVars
<1> QED
  BY <1>1, UseUnlock

LEMMA HelpGetKeeps ==
  ASSUME FlightInv, NEW p \in Clients, HelpGet(p)
  PROVE  FlightInv'
<1>1. /\ FlightTypes /\ TaskOk(p, task[p]) /\ task[p] \in Task /\ task[p].pc = "help_get"
      /\ session_exclusives' \in [Keys -> SUBSET XKeys]
      /\ UNCHANGED <<stdio, exclusive_owners, session_exclusives, exits, sweeps, session>>
  BY FlightTypesOf DEF HelpGet, At, registryVars, boundVars
<1>2. /\ Alike
      /\ \A q \in Clients \ {p} : \A s \in DOMAIN session : session[s].lock = q => session'[s].lock = q
  BY <1>1, SessionsStay
<1>3. ~InFlight(task[p]) /\ task[p].pc # "remove"
  BY <1>1 DEF InFlight, Removing
<1>4. CASE Done(p)
  BY <1>1, <1>2, <1>3, <1>4, DoneStep
<1>5. CASE /\ stdio[task[p].key] # 0 /\ GotoWith(p, "start", stdio[task[p].key])
           /\ UNCHANGED lockVars
  <2>1. task[p].key \in Keys
    BY <1>1 DEF TaskOk, Claims
  <2>2. stdio[task[p].key] \in DOMAIN session /\ stdio[task[p].key] \in Nat
    BY <1>1, <1>5, <2>1 DEF FlightInv, CachedUnderKey, FlightTypes
  <2>3. "start" \in Pcs /\ "start" \in Using /\ "start" \notin Guarded /\ "start" \notin Holding
    BY DEF Pcs, Guarded, Using, Holding, Settling, Evicting, Removing
  <2>4. OnlyTask(p)
    BY <1>1, <1>5, <2>2, <2>3, GotoWithShape
  <2>5. PICK t \in Task : /\ t = task'[p] /\ SameRequest(task[p], t) /\ t.pc = "start"
                          /\ t.s = stdio[task[p].key]
    BY <1>1, <1>5, <2>2, <2>3, GotoWithShape
  <2>6. Claims(t)
    BY <1>1, <2>3, <2>5 DEF TaskOk, Claims, SameRequest
  <2>7. OthersLock(p)
    BY <1>2, <1>5, LocksStay
  <2> QED
    BY <1>1, <1>2, <1>3, <2>2, <2>3, <2>4, <2>5, <2>6, <2>7, FreeStep
<1> QED
  BY <1>4, <1>5 DEF HelpGet

LEMMA SubscriptionLocksKeep ==
  ASSUME FlightInv, NEW p \in Clients,
         SubscribeLock(p) \/ SubscriptionPoll(p) \/ SubscriptionStop(p)
  PROVE  FlightInv'
<1>1. /\ UNCHANGED <<stdio, exclusive_owners, session_exclusives, exits, sweeps>>
      /\ UNCHANGED lockVars
  BY DEF SubscribeLock, SubscriptionPoll, SubscriptionStop, registryVars, boundVars
<1>2. CASE SubscribeLock(p)
  BY <1>1, <1>2, UseLock DEF SubscribeLock, At, Using, Holding
<1>3. CASE SubscriptionStop(p)
  BY <1>1, <1>3, UseLock DEF SubscriptionStop, At, Using, Holding
<1>4. CASE SubscriptionPoll(p) /\ At(p, "subscribed")
  <2>1. Free(task[p].s) /\ Locked(task[p].s, p, session[task[p].s]) /\ Goto(p, "sub_poll")
    BY <1>4 DEF SubscriptionPoll, At
  <2> QED
    BY <1>1, <1>4, <2>1, UseLock DEF At, Using, Holding
<1>5. CASE SubscriptionPoll(p) /\ ~At(p, "subscribed")
  <2>1. At(p, "sub_poll") /\ Unlocked(task[p].s, session[task[p].s]) /\ Goto(p, "subscribed")
    BY <1>5 DEF SubscriptionPoll
  <2>2. "subscribed" \in Using \ Holding /\ task[p].pc \in Holding
    BY <2>1 DEF At, Using, Holding
  <2> QED
    BY <1>1, <2>1, <2>2, UseUnlock
<1> QED
  BY <1>2, <1>3, <1>4, <1>5

\* The session with another count of subscriptions.
LEMMA Recounted ==
  ASSUME NEW r \in Session, NEW n \in Nat, NEW after, after = [r EXCEPT !.subscriptions = n]
  PROVE  /\ after \in Session /\ after.key = r.key /\ after.alive = r.alive
         /\ after.daemon_exclusive = r.daemon_exclusive /\ after.reuse_eligible = r.reuse_eligible
BY DEF Session

LEMMA SubscribeEnsureKeeps ==
  ASSUME FlightInv, NEW p \in Clients, SubscribeEnsure(p)
  PROVE  FlightInv'
<1>1. /\ UNCHANGED <<stdio, exclusive_owners, session_exclusives, exits, sweeps>>
      /\ task[p].pc \in Holding /\ task[p].pc \in Using /\ "subscribed" \in Using \ Holding
  BY DEF SubscribeEnsure, At, Using, Holding, registryVars, boundVars
<1>2. session[task[p].s] \in Session /\ session[task[p].s].subscriptions + 1 \in Nat
  BY <1>1, UsedSession DEF Session
<1>3. CASE Unlocked(task[p].s, session[task[p].s]) /\ Done(p)
  BY <1>1, <1>3, UseUnlock
<1>4. CASE /\ Unlocked(task[p].s, [session[task[p].s] EXCEPT !.subscriptions = @ + 1])
           /\ (Goto(p, "subscribed") /\ UNCHANGED lockVars) \/ Done(p)
  <2>1. PICK after : after = [session[task[p].s] EXCEPT !.subscriptions = session[task[p].s].subscriptions + 1]
    OBVIOUS
  <2>2. /\ after \in Session /\ after.key = session[task[p].s].key /\ after.alive = session[task[p].s].alive
        /\ after.daemon_exclusive = session[task[p].s].daemon_exclusive
        /\ after.reuse_eligible = session[task[p].s].reuse_eligible
    BY <1>2, <2>1, Recounted
  <2>3. session' = [session EXCEPT ![task[p].s] = [after EXCEPT !.lock = None]]
    BY <1>4, <2>1 DEF Unlocked
  <2> QED
    BY <1>1, <1>4, <2>2, <2>3, UseMutexStep
<1> QED
  BY <1>3, <1>4 DEF SubscribeEnsure

LEMMA SubscriptionReleaseKeeps ==
  ASSUME FlightInv, NEW p \in Clients, SubscriptionRelease(p)
  PROVE  FlightInv'
<1>1. /\ UNCHANGED <<stdio, exclusive_owners, session_exclusives, exits, sweeps>>
      /\ task[p].pc \in Holding /\ task[p].pc \in Using /\ Done(p)
      /\ "subscribed" \in Using \ Holding
  BY DEF SubscriptionRelease, At, Using, Holding, registryVars, boundVars
<1>2. session[task[p].s] \in Session
  BY <1>1, UsedSession
<1>3. PICK n \in Nat : n = IF session[task[p].s].subscriptions = 0 THEN 0
                           ELSE session[task[p].s].subscriptions - 1
  BY <1>2 DEF Session
<1>4. PICK after : after = [session[task[p].s] EXCEPT !.subscriptions = n]
  OBVIOUS
<1>5. /\ after \in Session /\ after.key = session[task[p].s].key /\ after.alive = session[task[p].s].alive
      /\ after.daemon_exclusive = session[task[p].s].daemon_exclusive
      /\ after.reuse_eligible = session[task[p].s].reuse_eligible
  BY <1>2, <1>4, Recounted
<1>6. session' = [session EXCEPT ![task[p].s] = [after EXCEPT !.lock = None]]
  BY <1>3, <1>4 DEF SubscriptionRelease, Unlocked
<1> QED
  BY <1>1, <1>5, <1>6, UseMutexStep

LEMMA SubscriptionAbortedKeeps ==
  ASSUME FlightInv, NEW p \in Clients, SubscriptionAborted(p)
  PROVE  FlightInv'
<1>1. /\ UNCHANGED <<stdio, exclusive_owners, session_exclusives, exits, sweeps>>
      /\ task[p].pc \in Using /\ Done(p) /\ "subscribed" \in Using
      /\ "subscribed" \notin Holding
  BY DEF SubscriptionAborted, At, Using, Holding, registryVars, boundVars
<1>2. CASE session[task[p].s].lock = p
  <2>1. PICK after \in Session : after = session[task[p].s]
    BY <1>1, UsedSession
  <2>2. session' = [session EXCEPT ![task[p].s] = [after EXCEPT !.lock = None]]
    BY <1>2, <2>1 DEF SubscriptionAborted, Unlocked
  <2>3. task[p].s \in DOMAIN session
    BY <1>1, UsedSession
  <2>4. /\ Alike
        /\ \A q \in Clients \ {p} : \A u \in DOMAIN session : session[u].lock = q => session'[u].lock = q
    BY <1>2, <2>1, <2>2, <2>3, MutexStep
  <2> QED
    BY <1>1, <2>4, UsedSession, DoneStep
<1>3. CASE session[task[p].s].lock # p
  <2>1. UNCHANGED session
    BY <1>3 DEF SubscriptionAborted
  <2>2. /\ Alike
        /\ \A q \in Clients \ {p} : \A s \in DOMAIN session : session[s].lock = q => session'[s].lock = q
    BY <2>1, SessionsStay
  <2> QED
    BY <1>1, <2>2, UsedSession, DoneStep
<1> QED
  BY <1>2, <1>3

-----------------------------------------------------------------------------
(* The clean-up of an eviction, or at the start of a registration. *)

LEMMA CleanupMoves ==
  ASSUME FlightInv, NEW p \in Clients, task[p].pc \in Removing, UNCHANGED stdio, UNCHANGED lockVars,
         Alike, NEW t \in Task, SameRequest(task[p], t),
         \/ t.pc \in {"clean_owners", task[p].then}
         \/ t.pc = "remove_snapshot" /\ ~Registers(task[p]),
         t.s = task[p].s, t.todo = task[p].todo, t.target = task[p].target,
         t.snapshot = task[p].snapshot, t.then = task[p].then
  PROVE  /\ Claims(t) /\ Locks(p, t)' /\ Finds(p, t)' /\ Removes(p, t)' /\ Cleared(t)
         /\ InFlight(task[p]) <=> Registers(task[p])
         /\ InFlight(task[p]) => InFlight(t)
<1>1. TaskOk(p, task[p]) /\ task[p].pc \in Guarded
  BY FlightTypesOf, PcNames
<1>2. task[p].then \in {"evict_next", "register"} /\ task[p].pc # "idle" /\ task[p].target \in Keys
  BY <1>1 DEF TaskOk, Removes, Removing
<1>3. t.pc \in {"clean_owners", "remove_snapshot", "evict_next", "register"} /\ t.pc \in Guarded
  BY <1>2 DEF Guarded, Removing, Evicting, Settling
<1>4. Claims(t)
  BY <1>1, <1>2, <1>3 DEF TaskOk, Claims, SameRequest
<1>5. Locks(p, t)'
  BY <1>1, <1>3 DEF TaskOk, Locks, SameRequest, lockVars
<1>6. Rivals(t) = Rivals(task[p])
  BY DEF Rivals, SameRequest
<1>7. CASE Registers(task[p])
  <2>1. InFlight(task[p]) /\ task[p].s \in DOMAIN session /\ t.pc \in {"clean_owners", "register"}
    BY <1>1, <1>2, <1>7 DEF InFlight, TaskOk, Finds, Registers
  <2>2. InFlight(t) /\ ~Evicts(t)
    BY <1>7, <2>1 DEF InFlight, Evicts, Evicting, Removing, Registers
  <2>3. Finds(p, t)'
    BY <2>1 DEF Finds, Alike, Holding
  <2>4. Removes(p, t)'
    BY <1>1, <1>2, <1>7, <2>1, <2>2 DEF Removes, TaskOk, Registers, Removing, SameRequest
  <2>5. Cleared(t)
    BY <1>1, <1>6, <2>1, <2>2 DEF TaskOk, Cleared
  <2> QED
    BY <1>4, <1>5, <1>7, <2>1, <2>2, <2>3, <2>4, <2>5
<1>8. CASE ~Registers(task[p])
  <2>1. ~InFlight(task[p]) /\ Evicts(task[p])
    BY <1>8 DEF InFlight, Evicts, Removing
  <2>2. t.pc \in {"clean_owners", "remove_snapshot", "evict_next"}
    BY <1>2, <1>8 DEF Registers
  <2>3. ~InFlight(t) /\ Evicts(t)
    BY <1>8, <2>2 DEF InFlight, Evicts, Evicting, Removing, Registers
  <2>4. Finds(p, t)'
    BY <2>2, <2>3 DEF Finds, Using, Holding
  <2>5. Removes(p, t)'
    <3>1. task[p].todo \subseteq Rivals(t) /\ task[p].target \in Rivals(t) \ task[p].todo
      BY <1>1, <1>6, <2>1 DEF TaskOk, Removes, Removing
    <3> QED
      BY <1>2, <1>8, <2>2, <3>1 DEF Removes, Registers
  <2>6. Cleared(t)
    <3>1. task[p].pc # "evict_kill"
      BY DEF Removing
    <3> QED
      BY <1>1, <1>6, <2>1, <2>2, <2>3, <3>1 DEF TaskOk, Cleared, Settling
  <2> QED
    BY <1>4, <1>5, <1>8, <2>1, <2>4, <2>5, <2>6
<1> QED
  BY <1>7, <1>8

CleansUp(p, taken, pc) == task' = [task EXCEPT ![p].taken = taken, ![p].pc = pc]

LEMMA CleanupShape ==
  ASSUME FlightTypes, NEW p \in Clients, NEW pc \in Pcs, NEW taken \in SUBSET XKeys,
         CleansUp(p, taken, pc)
  PROVE  /\ OnlyTask(p)
         /\ \E t \in Task : /\ t = task'[p] /\ SameRequest(task[p], t) /\ t.pc = pc
                            /\ t.s = task[p].s /\ t.todo = task[p].todo
                            /\ t.target = task[p].target /\ t.snapshot = task[p].snapshot
                            /\ t.then = task[p].then
<1>1. task[p] \in Task /\ task \in [Procs -> Task] /\ p \in Procs
  BY DEF FlightTypes, Procs
<1> DEFINE t == [task[p] EXCEPT !.taken = taken, !.pc = pc]
<1>2. task' = [task EXCEPT ![p] = t]
  BY <1>1 DEF Task, CleansUp
<1>3. t \in Task
  BY <1>1 DEF Task
<1>4. /\ SameRequest(task[p], t) /\ t.pc = pc /\ t.s = task[p].s /\ t.todo = task[p].todo
      /\ t.target = task[p].target /\ t.snapshot = task[p].snapshot /\ t.then = task[p].then
  BY <1>1 DEF Task, SameRequest
<1> HIDE DEF t
<1>5. task'[p] = t /\ OnlyTask(p)
  BY <1>1, <1>2, <1>3 DEF OnlyTask
<1> QED
  BY <1>3, <1>4, <1>5

\* Where a clean-up goes on.
LEMMA AfterCleanupPcs ==
  ASSUME FlightInv, NEW p \in Clients, task[p].pc \in Removing
  PROVE  /\ task[p].target \in Keys /\ task[p].then \in Pcs /\ AfterCleanup(p) \in Pcs
         /\ \/ AfterCleanup(p) = task[p].then
            \/ AfterCleanup(p) = "remove_snapshot" /\ ~Registers(task[p])
<1>1. TaskOk(p, task[p])
  BY FlightTypesOf
<1>2. /\ task[p].target \in Keys /\ task[p].then \in {"evict_next", "register"}
      /\ Registers(task[p]) => ~task[p].snapshot
  BY <1>1 DEF TaskOk, Removes
<1> QED
  BY <1>2 DEF AfterCleanup, Pcs, Guarded, Evicting, Removing, Settling

LEMMA CleanupTakeKeeps ==
  ASSUME FlightInv, NEW p \in Clients, CleanupTake(p)
  PROVE  FlightInv'
<1>1. task[p].pc = "clean" /\ task[p].pc \in Removing
  BY DEF CleanupTake, At, Removing
<1>2. FlightTypes
  BY FlightTypesOf
<1>3. PICK taken \in SUBSET XKeys : taken = session_exclusives[task[p].target]
  BY <1>1, <1>2, AfterCleanupPcs DEF FlightTypes
<1>4. PICK pc \in Pcs : pc = IF taken # {} THEN "clean_owners" ELSE AfterCleanup(p)
  BY <1>1, AfterCleanupPcs DEF Pcs, Guarded, Removing
<1>5. /\ CleansUp(p, taken, pc)
      /\ session_exclusives' \in [Keys -> SUBSET XKeys]
      /\ UNCHANGED <<stdio, exclusive_owners, exits, sweeps, session>> /\ UNCHANGED lockVars
  BY <1>2, <1>3, <1>4 DEF CleanupTake, boundVars, FlightTypes, CleansUp
<1>6. OnlyTask(p)
  BY <1>2, <1>5, CleanupShape
<1>7. PICK t \in Task :
        /\ t = task'[p] /\ SameRequest(task[p], t) /\ t.pc = pc
        /\ t.s = task[p].s /\ t.todo = task[p].todo /\ t.target = task[p].target
        /\ t.snapshot = task[p].snapshot /\ t.then = task[p].then
  BY <1>2, <1>5, CleanupShape
<1>8. Alike /\ OthersLock(p)
  BY <1>5, SessionsStay, LocksStay
<1>9. \/ t.pc \in {"clean_owners", task[p].then}
      \/ t.pc = "remove_snapshot" /\ ~Registers(task[p])
  BY <1>1, <1>4, <1>7, AfterCleanupPcs
<1>10. /\ Claims(t) /\ Locks(p, t)' /\ Finds(p, t)' /\ Removes(p, t)' /\ Cleared(t)
       /\ InFlight(task[p]) => InFlight(t)
  BY <1>1, <1>5, <1>7, <1>8, <1>9, CleanupMoves
<1>11. task[p].pc \notin {"insert", "remove"} /\ t.key = task[p].key
  BY <1>1, <1>7 DEF SameRequest
<1> QED
  BY <1>5, <1>6, <1>7, <1>8, <1>10, <1>11, CalmStep

LEMMA RemoveSnapshotKeeps ==
  ASSUME FlightInv, NEW p \in Clients, RemoveSnapshot(p)
  PROVE  FlightInv'
<1>1. task[p].pc = "remove_snapshot" /\ task[p].pc \in Removing
  BY DEF RemoveSnapshot, At, Removing
<1>2. FlightTypes /\ task[p].then \in Pcs
  BY <1>1, FlightTypesOf, AfterCleanupPcs
<1>3. /\ Goto(p, task[p].then) /\ session_exclusives' \in [Keys -> SUBSET XKeys]
      /\ UNCHANGED <<stdio, exclusive_owners, exits, sweeps>> /\ UNCHANGED lockVars
  BY FlightTypesOf DEF RemoveSnapshot, registryVars, boundVars
<1>4. OnlyTask(p)
  BY <1>2, <1>3, GotoShape
<1>5. PICK t \in Task :
        /\ t = task'[p] /\ SameRequest(task[p], t) /\ t.pc = task[p].then
        /\ t.s = task[p].s /\ t.todo = task[p].todo /\ t.target = task[p].target
        /\ t.snapshot = task[p].snapshot /\ t.then = task[p].then
  BY <1>2, <1>3, GotoShape
<1>6. /\ session' = [s \in DOMAIN session |->
                       IF session[s].lock = p THEN [session[s] EXCEPT !.lock = None] ELSE session[s]]
      /\ session \in Seq(Session)
  BY <1>2 DEF RemoveSnapshot, FlightTypes
<1>7. \A s \in DOMAIN session :
        /\ session'[s] \in Session /\ session'[s].key = session[s].key
        /\ session'[s].alive = session[s].alive
        /\ session'[s].daemon_exclusive = session[s].daemon_exclusive
        /\ session'[s].reuse_eligible = session[s].reuse_eligible
        /\ \A q \in Clients \ {p} : session[s].lock = q => session'[s].lock = q
  <2> SUFFICES ASSUME NEW s \in DOMAIN session
               PROVE  /\ session'[s] \in Session /\ session'[s].key = session[s].key
                      /\ session'[s].alive = session[s].alive
                      /\ session'[s].daemon_exclusive = session[s].daemon_exclusive
                      /\ session'[s].reuse_eligible = session[s].reuse_eligible
                      /\ \A q \in Clients \ {p} : session[s].lock = q => session'[s].lock = q
    OBVIOUS
  <2>1. session[s] \in Session
    BY <1>6, ElementOfSeq
  <2>2. session'[s] = IF session[s].lock = p THEN [session[s] EXCEPT !.lock = None] ELSE session[s]
    BY <1>6
  <2>3. None \in Procs \cup {None}
    OBVIOUS
  <2> QED
    BY <2>1, <2>2, <2>3 DEF Session
<1>8. Alike
  <2>1. PICK n \in Nat : session \in [1..n -> Session]
    BY <1>6, SeqDef
  <2>2. session' \in [1..n -> Session]
    BY <1>6, <1>7, <2>1
  <2>3. session' \in Seq(Session) /\ DOMAIN session' = DOMAIN session
    BY <2>1, <2>2, SeqDef
  <2> QED
    BY <1>7, <2>3 DEF Alike
<1>9. OthersLock(p)
  BY <1>3, <1>7, LocksStay
<1>10. /\ Claims(t) /\ Locks(p, t)' /\ Finds(p, t)' /\ Removes(p, t)' /\ Cleared(t)
       /\ InFlight(task[p]) => InFlight(t)
  BY <1>1, <1>3, <1>5, <1>8, CleanupMoves
<1>11. task[p].pc \notin {"insert", "remove"} /\ t.key = task[p].key
  BY <1>1, <1>5 DEF SameRequest
<1> QED
  BY <1>3, <1>4, <1>5, <1>8, <1>9, <1>10, <1>11, CalmStep

LEMMA CleanupOwnersKeeps ==
  ASSUME FlightInv, NEW p \in Clients, CleanupOwners(p)
  PROVE  FlightInv'
<1>1. task[p].pc = "clean_owners" /\ task[p].pc \in Removing
  BY DEF CleanupOwners, At, Removing
<1>2. FlightTypes /\ TaskOk(p, task[p])
  BY FlightTypesOf
<1>3. PICK pc \in Pcs : pc = AfterCleanup(p)
  BY <1>1, AfterCleanupPcs
<1>4. /\ CleansUp(p, {}, pc)
      /\ session_exclusives' \in [Keys -> SUBSET XKeys]
      /\ UNCHANGED <<stdio, exits, sweeps, session>> /\ UNCHANGED lockVars
      /\ exclusive_owners' =
           [x \in XKeys |-> IF x \in task[p].taken /\ exclusive_owners[x] = task[p].target
                            THEN None ELSE exclusive_owners[x]]
  BY <1>3, FlightTypesOf DEF CleanupOwners, boundVars, CleansUp
<1>5. OnlyTask(p)
  BY <1>2, <1>4, {} \in SUBSET XKeys, CleanupShape
<1>6. PICK t \in Task :
        /\ t = task'[p] /\ SameRequest(task[p], t) /\ t.pc = pc
        /\ t.s = task[p].s /\ t.todo = task[p].todo /\ t.target = task[p].target
        /\ t.snapshot = task[p].snapshot /\ t.then = task[p].then
  BY <1>2, <1>4, {} \in SUBSET XKeys, CleanupShape
<1>7. Alike /\ OthersLock(p)
  BY <1>4, SessionsStay, LocksStay
<1>8. \/ t.pc \in {"clean_owners", task[p].then}
      \/ t.pc = "remove_snapshot" /\ ~Registers(task[p])
  BY <1>1, <1>3, <1>6, AfterCleanupPcs
<1>9. /\ Claims(t) /\ Locks(p, t)' /\ Finds(p, t)' /\ Removes(p, t)' /\ Cleared(t)
      /\ InFlight(task[p]) <=> Registers(task[p])
      /\ InFlight(task[p]) => InFlight(t)
  BY <1>1, <1>4, <1>6, <1>7, <1>8, CleanupMoves
<1>10. task[p].pc \notin {"insert", "remove"} /\ t.key = task[p].key
  BY <1>1, <1>6 DEF SameRequest
<1>11. exclusive_owners' \in [XKeys -> Keys \cup {None}] /\ OwnersClaim'
  BY <1>2, <1>4 DEF FlightTypes, FlightInv, OwnersClaim
<1>12. Owned'
  <2> SUFFICES ASSUME NEW s \in DOMAIN session, session[s].alive, NEW x \in session[s].daemon_exclusive,
                      exclusive_owners'[x] # session[s].key
               PROVE  \E q \in Clients : InFlight(task'[q]) /\ task'[q].key = session[s].key
    BY <1>7 DEF Owned, Alike, InFlight, Registers
  <2>1. CASE exclusive_owners[x] = session[s].key
    <3>1. x \in XKeys
      <4>1. session[s] \in Session
        BY <1>2, ElementOfSeq DEF FlightTypes
      <4> QED
        BY <4>1 DEF Session
    <3>2. session[s].key = task[p].target
      BY <1>4, <2>1, <3>1
    <3>3. CASE Registers(task[p])
      <4>1. task[p].target = task[p].key
        BY <1>1, <1>2, <3>3 DEF TaskOk, Removes
      <4> QED
        BY <1>6, <1>9, <1>10, <3>2, <3>3, <4>1
    <3>4. CASE ~Registers(task[p])
      <4>1. Evicts(task[p])
        BY <1>1, <3>4 DEF Evicts
      <4>2. task[p].target \in Rivals(task[p]) \ task[p].todo
        BY <1>1, <1>2, <4>1 DEF TaskOk, Removes
      <4> QED
        BY <1>1, <1>2, <3>2, <4>1, <4>2 DEF TaskOk, Cleared
    <3> QED
      BY <3>3, <3>4
  <2>2. CASE exclusive_owners[x] # session[s].key
    <3>1. PICK q \in Clients : InFlight(task[q]) /\ task[q].key = session[s].key
      BY <2>2 DEF FlightInv, Owned
    <3>2. CASE q = p
      BY <1>6, <1>9, <1>10, <3>1, <3>2
    <3>3. CASE q # p
      BY <1>5, <3>1, <3>3 DEF OnlyTask, Procs
    <3> QED
      BY <3>2, <3>3
  <2> QED
    BY <2>1, <2>2
<1> QED
  BY <1>4, <1>5, <1>6, <1>7, <1>9, <1>10, <1>11, <1>12, OwnersStep

-----------------------------------------------------------------------------
(* The registration. *)

\* A step from one pc of a registration to the next.
LEMMA RegistrationMoves ==
  ASSUME FlightInv, NEW p \in Clients,
         \/ task[p].pc = "register" /\ Goto(p, "register_owners")
         \/ task[p].pc = "register_owners" /\ Goto(p, "hand_out"),
         UNCHANGED stdio, UNCHANGED lockVars, Alike
  PROVE  /\ OnlyTask(p)
         /\ \E t \in Task :
              /\ t = task'[p] /\ SameRequest(task[p], t)
              /\ task[p].pc = "register" => InFlight(t)
              /\ Claims(t) /\ Locks(p, t)' /\ Finds(p, t)' /\ Removes(p, t)' /\ Cleared(t)
<1>1. PICK pc \in Pcs : /\ Goto(p, pc) /\ pc \in {"register_owners", "hand_out"}
                        /\ task[p].pc = "register" => pc = "register_owners"
  BY DEF Pcs, Guarded, Settling
<1>2. FlightTypes /\ TaskOk(p, task[p]) /\ InFlight(task[p]) /\ task[p].pc \in Guarded
  BY FlightTypesOf DEF InFlight, Guarded, Settling
<1>3. OnlyTask(p)
  BY <1>1, <1>2, GotoShape
<1>4. PICK t \in Task : t = task'[p] /\ SameRequest(task[p], t) /\ t.pc = pc /\ t.s = task[p].s
  BY <1>1, <1>2, GotoShape
<1>5. Claims(t)
  BY <1>1, <1>2, <1>4 DEF TaskOk, Claims, SameRequest, Guarded, Settling, InFlight, Removing
<1>6. Locks(p, t)'
  BY <1>1, <1>2, <1>4 DEF TaskOk, Locks, SameRequest, lockVars
<1>7. Finds(p, t)'
  BY <1>1, <1>2, <1>4 DEF TaskOk, Finds, Alike, Holding
<1>8. Removes(p, t)' /\ ~Evicts(t)
  BY <1>1, <1>4 DEF Removes, Removing, Evicts, Evicting
<1>9. Cleared(t)
  <2>1. Rivals(t) = Rivals(task[p])
    BY <1>4 DEF Rivals, SameRequest
  <2> QED
    BY <1>2, <1>8, <2>1 DEF TaskOk, Cleared
<1>10. task[p].pc = "register" => InFlight(t)
  BY <1>1, <1>4 DEF InFlight
<1> QED
  BY <1>3, <1>4, <1>5, <1>6, <1>7, <1>8, <1>9, <1>10

LEMMA RegisterSessionKeeps ==
  ASSUME FlightInv, NEW p \in Clients, RegisterSession(p)
  PROVE  FlightInv'
<1>1. /\ FlightTypes /\ task[p] \in Task /\ TaskOk(p, task[p])
      /\ task[p].pc = "register" /\ Goto(p, "register_owners")
      /\ UNCHANGED <<stdio, exclusive_owners, exits, sweeps, session>> /\ UNCHANGED lockVars
  BY FlightTypesOf DEF RegisterSession, At, boundVars
<1>2. session_exclusives' \in [Keys -> SUBSET XKeys]
  <2>1. task[p].excl \in SUBSET XKeys
    BY <1>1 DEF Task
  <2> QED
    BY <1>1, <2>1 DEF RegisterSession, FlightTypes
<1>3. Alike /\ OthersLock(p)
  BY <1>1, SessionsStay, LocksStay
<1>4. OnlyTask(p)
  BY <1>1, <1>3, RegistrationMoves
<1>5. PICK t \in Task :
        /\ t = task'[p] /\ SameRequest(task[p], t) /\ InFlight(t)
        /\ Claims(t) /\ Locks(p, t)' /\ Finds(p, t)' /\ Removes(p, t)' /\ Cleared(t)
  BY <1>1, <1>3, RegistrationMoves
<1>6. task[p].pc \notin {"insert", "remove"} /\ t.key = task[p].key
  BY <1>1, <1>5 DEF SameRequest
<1> QED
  BY <1>1, <1>2, <1>3, <1>4, <1>5, <1>6, CalmStep

\* Nobody else runs a child that holds the keys: no owner is overwritten.
LEMMA RegisterOwnersKeeps ==
  ASSUME FlightInv, NEW p \in Clients, RegisterOwners(p)
  PROVE  FlightInv'
<1>1. /\ FlightTypes /\ task[p] \in Task /\ TaskOk(p, task[p])
      /\ task[p].pc = "register_owners" /\ Goto(p, "hand_out")
      /\ UNCHANGED <<stdio, exits, sweeps, session>> /\ UNCHANGED lockVars
      /\ session_exclusives' \in [Keys -> SUBSET XKeys]
      /\ exclusive_owners' =
           [x \in XKeys |-> IF x \in task[p].excl THEN task[p].key ELSE exclusive_owners[x]]
  BY FlightTypesOf DEF RegisterOwners, At, boundVars
<1>2. /\ task[p].key \in Keys /\ task[p].excl = XOf(task[p].key) /\ InFlight(task[p])
  BY <1>1 DEF TaskOk, Claims, Guarded, Settling, InFlight
<1>3. Alike /\ OthersLock(p)
  BY <1>1, SessionsStay, LocksStay
<1>4. OnlyTask(p)
  BY <1>1, <1>3, RegistrationMoves
<1>5. PICK t \in Task :
        /\ t = task'[p]
        /\ Claims(t) /\ Locks(p, t)' /\ Finds(p, t)' /\ Removes(p, t)' /\ Cleared(t)
  BY <1>1, <1>3, RegistrationMoves
<1>6. exclusive_owners' \in [XKeys -> Keys \cup {None}] /\ OwnersClaim'
  BY <1>1, <1>2 DEF FlightTypes, FlightInv, OwnersClaim
<1>7. Owned'
  <2> SUFFICES ASSUME NEW s \in DOMAIN session, session[s].alive, NEW x \in session[s].daemon_exclusive,
                      exclusive_owners'[x] # session[s].key
               PROVE  \E q \in Clients : InFlight(task'[q]) /\ task'[q].key = session[s].key
    BY <1>3 DEF Owned, Alike, InFlight, Registers
  <2>1. session[s] \in Session /\ session[s].daemon_exclusive = XOf(session[s].key)
    BY <1>1, ElementOfSeq DEF FlightTypes, FlightInv, SessionsClaim
  <2>2. x \in XKeys /\ session[s].key \in Keys
    BY <2>1 DEF Session
  <2>3. session[s].key # task[p].key
    BY <1>1, <1>2, <2>1, <2>2
  <2>4. x \notin task[p].excl
    <3> SUFFICES ASSUME x \in task[p].excl PROVE FALSE
      OBVIOUS
    <3>1. session[s].key \in Rivals(task[p])
      BY <2>1, <2>2, <2>3 DEF Rivals
    <3> QED
      BY <1>1, <1>2, <3>1 DEF TaskOk, Cleared
  <2>5. exclusive_owners[x] # session[s].key
    BY <1>1, <2>2, <2>4
  <2>6. PICK q \in Clients : InFlight(task[q]) /\ task[q].key = session[s].key
    BY <2>5 DEF FlightInv, Owned
  <2>7. task'[q] = task[q]
    BY <1>4, <2>3, <2>6 DEF OnlyTask, Procs
  <2> QED
    BY <2>6, <2>7
<1>8. task[p].pc \notin {"insert", "remove"}
  BY <1>1
<1> QED
  BY <1>1, <1>3, <1>4, <1>5, <1>6, <1>7, <1>8, OwnersStep

-----------------------------------------------------------------------------
(* The eviction. *)

\* The next owner on the list is taken off it, and is the target.
LEMMA EvictionMoves ==
  ASSUME FlightInv, NEW p \in Clients, task[p].pc = "evict_next", NEW owner \in task[p].todo,
         NEW t, SameRequest(task[p], t), t.pc \in {"clean", "evict_kill"}, t.todo = task[p].todo \ {owner},
         t.target = owner, t.then = "evict_next"
  PROVE  /\ owner \in Keys /\ Rivals(t) = Rivals(task[p]) /\ owner \in Rivals(t) \ t.todo
         /\ t.todo \subseteq Rivals(t) /\ Evicts(t) /\ ~InFlight(t) /\ Claims(t)
<1>1. TaskOk(p, task[p])
  BY FlightTypesOf
<1>2. /\ task[p].key \in Keys /\ task[p].excl = XOf(task[p].key) /\ task[p].op \in Users
      /\ task[p].todo \subseteq Rivals(task[p])
  BY <1>1 DEF TaskOk, Claims, Removes, Evicts, Evicting, Guarded
<1>3. owner \in Keys
  BY <1>2 DEF Rivals
<1>4. Rivals(t) = Rivals(task[p])
  BY DEF Rivals, SameRequest
<1>5. Evicts(t) /\ ~InFlight(t)
  BY DEF Evicts, Evicting, Removing, Registers, InFlight
<1>6. Claims(t)
  BY <1>2 DEF Claims, SameRequest, Users
<1> QED
  BY <1>2, <1>3, <1>4, <1>5, <1>6

LEMMA EvictNextKeeps ==
  ASSUME FlightInv, NEW p \in Clients, EvictNext(p)
  PROVE  FlightInv'
<1>1. /\ FlightTypes /\ task[p] \in Task /\ TaskOk(p, task[p]) /\ p \in Procs
      /\ task[p].pc = "evict_next" /\ task[p].pc \in Guarded /\ Evicts(task[p])
      /\ UNCHANGED <<stdio, session_exclusives, exits, sweeps>>
      /\ session_exclusives' \in [Keys -> SUBSET XKeys]
  BY FlightTypesOf DEF EvictNext, At, boundVars, Guarded, Evicting, Evicts, Procs
<1>2. /\ task[p].key \in Keys /\ task[p].excl = XOf(task[p].key) /\ task[p].op \in Users
      /\ task[p].todo \subseteq Rivals(task[p]) /\ task[p].excl \subseteq XKeys
  BY <1>1 DEF TaskOk, Claims, Removes, Task
<1>3. ~InFlight(task[p]) /\ task[p].pc \notin {"insert", "remove"}
  BY <1>1 DEF InFlight, Removing
<1>4. CASE task[p].todo = {} /\ GotoWith(p, "lookup", 0) /\ UNCHANGED <<exclusive_owners, session, lockVars>>
  <2>1. "lookup" \in Pcs /\ 0 \in Nat
    BY DEF Pcs, Guarded, Settling
  <2>2. OnlyTask(p)
    BY <1>1, <1>4, <2>1, GotoWithShape
  <2>3. PICK t \in Task : t = task'[p] /\ SameRequest(task[p], t) /\ t.pc = "lookup"
    BY <1>1, <1>4, <2>1, GotoWithShape
  <2>4. Alike /\ OthersLock(p)
    BY <1>4, SessionsStay, LocksStay
  <2>5. Claims(t)
    BY <1>2, <2>3 DEF Claims, SameRequest, Users
  <2>6. Locks(p, t)'
    BY <1>1, <1>4, <2>3 DEF TaskOk, Locks, SameRequest, lockVars
  <2>7. Finds(p, t)' /\ Removes(p, t)'
    BY <2>3 DEF Finds, InFlight, Removing, Using, Holding, Removes, Evicts, Evicting
  <2>8. Cleared(t)
    <3>1. Rivals(t) = Rivals(task[p])
      BY <2>3 DEF Rivals, SameRequest
    <3> QED
      BY <1>1, <1>4, <2>3, <3>1 DEF TaskOk, Cleared, Evicts, Evicting, Removing
  <2> QED
    BY <1>1, <1>3, <1>4, <2>2, <2>3, <2>4, <2>5, <2>6, <2>7, <2>8, CalmStep
<1>5. ASSUME NEW owner \in task[p].todo, stdio[owner] # 0, ~Free(stdio[owner]), Done(p),
             UNCHANGED <<exclusive_owners, session>>
      PROVE  FlightInv'
  BY <1>1, <1>3, <1>5, SessionsStay, DoneStep
<1>6. ASSUME NEW owner \in task[p].todo, stdio[owner] = 0,
             exclusive_owners' = [x \in XKeys |-> IF x \in task[p].excl /\ exclusive_owners[x] = owner
                                                  THEN None ELSE exclusive_owners[x]],
             task' = [task EXCEPT ![p] = [task[p] EXCEPT !.todo = @ \ {owner}, !.target = owner,
                                            !.then = "evict_next", !.pc = "clean", !.snapshot = FALSE]],
             UNCHANGED <<session, lockVars>>
      PROVE  FlightInv'
  <2> DEFINE u == [task[p] EXCEPT !.todo = @ \ {owner}, !.target = owner, !.then = "evict_next",
                                  !.pc = "clean", !.snapshot = FALSE]
  <2>1. owner \in Keys /\ "clean" \in Pcs
    BY <1>2 DEF Rivals, Pcs, Guarded, Removing
  <2>2. /\ u \in Task /\ SameRequest(task[p], u) /\ u.pc = "clean" /\ u.todo = task[p].todo \ {owner}
        /\ u.target = owner /\ u.then = "evict_next"
    BY <1>1, <2>1 DEF Task, SameRequest
  <2>3. PICK t \in Task : t = u
    BY <2>2
  <2> HIDE DEF u
  <2>4. /\ t \in Task /\ t = task'[p] /\ OnlyTask(p) /\ SameRequest(task[p], t) /\ t.pc = "clean"
        /\ t.todo = task[p].todo \ {owner} /\ t.target = owner /\ t.then = "evict_next"
        /\ owner \in Keys /\ Rivals(t) = Rivals(task[p]) /\ owner \in Rivals(t) \ t.todo
        /\ t.todo \subseteq Rivals(t) /\ Evicts(t) /\ ~InFlight(t) /\ Claims(t)
    <3>1. t = task'[p] /\ OnlyTask(p)
      BY <1>1, <1>6, <2>3 DEF OnlyTask, FlightTypes, u
    <3> QED
      BY <1>1, <2>2, <2>3, <3>1, EvictionMoves
  <2>5. ASSUME NEW s \in DOMAIN session, session[s].alive PROVE session[s].key # owner
    <3> SUFFICES ASSUME session[s].key = owner PROVE FALSE
      OBVIOUS
    <3>1. stdio[owner] = s
      BY <1>1, <2>4, <2>5, RivalsAreKnown
    <3>2. s # 0
      BY <1>1, LenProperties DEF FlightTypes
    <3> QED
      BY <1>6, <3>1, <3>2
  <2>6. Alike /\ OthersLock(p)
    BY <1>6, SessionsStay, LocksStay
  <2>7. Locks(p, t)'
    BY <1>1, <1>6, <2>4 DEF TaskOk, Locks, SameRequest, lockVars
  <2>8. Finds(p, t)' /\ Removes(p, t)'
    BY <2>4 DEF Finds, Using, Holding, Removes, Removing, Registers
  <2>9. Cleared(t)
    BY <1>1, <2>4, <2>5 DEF TaskOk, Cleared, Settling
  <2>10. exclusive_owners' \in [XKeys -> Keys \cup {None}] /\ OwnersClaim'
    BY <1>1, <1>6 DEF FlightTypes, FlightInv, OwnersClaim
  <2>11. Owned'
    <3> SUFFICES ASSUME NEW s \in DOMAIN session, session[s].alive, NEW x \in session[s].daemon_exclusive,
                        exclusive_owners'[x] # session[s].key
                 PROVE  \E q \in Clients : InFlight(task'[q]) /\ task'[q].key = session[s].key
      BY <2>6 DEF Owned, Alike, InFlight, Registers
    <3>1. session[s] \in Session
      BY <1>1, ElementOfSeq DEF FlightTypes
    <3>2. exclusive_owners[x] # session[s].key
      BY <1>6, <2>5, <3>1 DEF Session
    <3>3. PICK q \in Clients : InFlight(task[q]) /\ task[q].key = session[s].key
      BY <3>2 DEF FlightInv, Owned
    <3>4. task'[q] = task[q]
      BY <1>3, <2>4, <3>3 DEF OnlyTask, Procs
    <3> QED
      BY <3>3, <3>4
  <2> QED
    BY <1>1, <1>3, <2>4, <2>6, <2>7, <2>8, <2>9, <2>10, <2>11, OwnersStep
<1>7. ASSUME NEW owner \in task[p].todo, stdio[owner] # 0, Free(stdio[owner]),
             Locked(stdio[owner], p, session[stdio[owner]]),
             task' = [task EXCEPT ![p] = [task[p] EXCEPT !.todo = @ \ {owner}, !.target = owner,
                                            !.then = "evict_next", !.pc = "evict_kill", !.s = stdio[owner]]],
             UNCHANGED <<exclusive_owners, lockVars>>
      PROVE  FlightInv'
  <2>1. owner \in Keys
    BY <1>2 DEF Rivals
  <2>2. PICK s \in DOMAIN session : s = stdio[owner] /\ s # 0 /\ s \in Nat
    BY <1>1, <1>7, <2>1 DEF FlightInv, CachedUnderKey, FlightTypes
  <2>3. PICK after \in Session : after = session[s]
    BY <1>1, <2>2, ElementOfSeq DEF FlightTypes
  <2>4. session[s].lock = None /\ session' = [session EXCEPT ![s] = [after EXCEPT !.lock = p]]
    BY <1>7, <2>2, <2>3 DEF Free, Locked
  <2>5. /\ Alike /\ session'[s].lock = p
        /\ \A q \in Clients \ {p} : \A u \in DOMAIN session : session[u].lock = q => session'[u].lock = q
    BY <2>3, <2>4, MutexStep
  <2>6. OthersLock(p)
    BY <1>7, <2>5, LocksStay
  <2> DEFINE u == [task[p] EXCEPT !.todo = @ \ {owner}, !.target = owner, !.then = "evict_next",
                                  !.pc = "evict_kill", !.s = stdio[owner]]
  <2>7. /\ u \in Task /\ SameRequest(task[p], u) /\ u.pc = "evict_kill" /\ u.todo = task[p].todo \ {owner}
        /\ u.target = owner /\ u.then = "evict_next" /\ u.s = s
    <3>1. "evict_kill" \in Pcs /\ stdio[owner] \in Nat
      BY <2>2 DEF Pcs, Guarded, Evicting
    <3> QED
      BY <1>1, <2>1, <2>2, <3>1 DEF Task, SameRequest
  <2>8. PICK t \in Task : t = u
    BY <2>7
  <2> HIDE DEF u
  <2>9. /\ t \in Task /\ t = task'[p] /\ OnlyTask(p) /\ SameRequest(task[p], t) /\ t.pc = "evict_kill"
        /\ t.s = s /\ t.todo = task[p].todo \ {owner} /\ t.target = owner /\ t.then = "evict_next"
        /\ Rivals(t) = Rivals(task[p]) /\ owner \in Rivals(t) \ t.todo
        /\ t.todo \subseteq Rivals(t) /\ Evicts(t) /\ ~InFlight(t) /\ Claims(t)
    <3>1. t = task'[p] /\ OnlyTask(p)
      BY <1>1, <1>7, <2>8 DEF OnlyTask, FlightTypes, u
    <3> QED
      BY <1>1, <2>7, <2>8, <3>1, EvictionMoves
  <2>10. Locks(p, t)'
    BY <1>1, <1>7, <2>9 DEF TaskOk, Locks, SameRequest, lockVars
  <2>11. Finds(p, t)'
    BY <2>9 DEF Finds, Using, Holding
  <2>12. Removes(p, t)'
    BY <1>1, <2>1, <2>2, <2>5, <2>9 DEF Removes, Removing
  <2>13. Cleared(t)
    BY <1>1, <2>9 DEF TaskOk, Cleared, Settling
  <2> QED
    BY <1>1, <1>3, <1>7, <2>5, <2>6, <2>9, <2>10, <2>11, <2>12, <2>13, CalmStep
<1> QED
  BY <1>4, <1>5, <1>6, <1>7 DEF EvictNext

\* The child is killed: it was the only one left of its owner, whose requests
\* wait for the exclusive locks.
LEMMA EvictionKills ==
  ASSUME FlightInv, NEW p \in Clients, task[p].pc = "evict_kill",
         NEW after \in Session, after.key = session[task[p].s].key, ~after.alive,
         after.daemon_exclusive = session[task[p].s].daemon_exclusive,
         after.reuse_eligible = session[task[p].s].reuse_eligible, after.lock = p,
         session' = [session EXCEPT ![task[p].s] = after],
         StartRemoval(p, "remove", task[p].target, TRUE, "evict_next"),
         UNCHANGED lockVars,
         UNCHANGED <<stdio, exclusive_owners, session_exclusives, exits, sweeps>>
  PROVE  FlightInv'
<1>1. /\ FlightTypes /\ task[p] \in Task /\ TaskOk(p, task[p]) /\ task[p].pc \in Guarded
      /\ Evicts(task[p]) /\ ~InFlight(task[p])
  BY FlightTypesOf DEF Guarded, Evicting, Evicts, InFlight, Removing
<1>2. PICK s : s = task[p].s
  OBVIOUS
<1>3. PICK k \in Keys : k = task[p].target
  BY <1>1 DEF TaskOk, Removes
<1>4. /\ s # 0 /\ stdio[k] = s /\ session[s].lock = p /\ s \in DOMAIN session /\ session[s].key = k
      /\ task[p].todo \subseteq Rivals(task[p]) /\ k \in Rivals(task[p]) \ task[p].todo
  BY <1>1, <1>2, <1>3 DEF TaskOk, Removes, FlightInv, CachedUnderKey
<1>5. /\ session' \in Seq(Session) /\ DOMAIN session' = DOMAIN session
      /\ session'[s] = after /\ \A u \in DOMAIN session \ {s} : session'[u] = session[u]
  BY <1>1, <1>2, <1>4, Rewritten DEF FlightTypes
<1>6. \A u \in DOMAIN session :
        /\ session'[u].key = session[u].key
        /\ session'[u].daemon_exclusive = session[u].daemon_exclusive
        /\ session'[u].reuse_eligible = session[u].reuse_eligible
        /\ session'[u].alive => session[u].alive /\ u # s
        /\ u # s => session'[u].alive = session[u].alive
        /\ session'[u].lock = session[u].lock
  BY <1>2, <1>4, <1>5
<1>7. OthersLock(p)
  BY <1>1, <1>6 DEF OthersLock, lockVars, FlightTypes
<1>8. PICK yes \in BOOLEAN : yes = TRUE
  OBVIOUS
<1>9. StartRemoval(p, "remove", k, yes, "evict_next") /\ "remove" \in Pcs
  BY <1>3, <1>8 DEF StartRemoval, Pcs, Guarded, Evicting
<1>10. OnlyTask(p)
  BY <1>1, <1>9, RemovalShape
<1>11. PICK t \in Task : /\ t = task'[p] /\ SameRequest(task[p], t) /\ t.pc = "remove" /\ t.s = s
                         /\ t.todo = task[p].todo /\ t.target = k /\ t.then = "evict_next"
  BY <1>1, <1>2, <1>9, RemovalShape
<1>12. FlightTypes'
  <2>1. task'[Cleaner] = task[Cleaner]
    BY <1>10, SessionsAssumption DEF OnlyTask, Procs
  <2> QED
    BY <1>1, <1>5, <1>7, <1>10, <2>1 DEF FlightTypes, OnlyTask, OthersLock, At
<1>13. CachedUnderKey' /\ SessionsClaim' /\ OwnersClaim'
  BY <1>5, <1>6 DEF FlightInv, CachedUnderKey, SessionsClaim, OwnersClaim
<1>14. AliveKept'
  <2> SUFFICES ASSUME NEW u \in DOMAIN session, session[u].alive, stdio[session[u].key] # u
               PROVE  \E q \in Clients : At(q, "insert")' /\ task'[q].s = u
    BY <1>5, <1>6 DEF AliveKept
  <2>1. PICK q \in Clients : At(q, "insert") /\ task[q].s = u
    BY DEF FlightInv, AliveKept
  <2>2. q # p /\ task'[q] = task[q]
    BY <1>10, <2>1 DEF At, OnlyTask, Procs
  <2> QED
    BY <2>1, <2>2 DEF At
<1>15. CachedRuns'
  <2> SUFFICES ASSUME NEW j \in Keys, stdio[j] # 0, ~session'[stdio[j]].alive
               PROVE  \E q \in Clients : At(q, "remove")' /\ task'[q].target = j
    BY DEF CachedRuns
  <2>1. CASE j = k
    BY <1>11, <2>1 DEF At
  <2>2. CASE j # k
    <3>1. stdio[j] \in DOMAIN session /\ stdio[j] # s
      BY <1>4, <2>2 DEF FlightInv, CachedUnderKey
    <3>2. PICK q \in Clients : At(q, "remove") /\ task[q].target = j
      BY <1>6, <3>1 DEF FlightInv, CachedRuns
    <3>3. q # p /\ task'[q] = task[q]
      BY <1>10, <3>2 DEF At, OnlyTask, Procs
    <3> QED
      BY <3>2, <3>3 DEF At
  <2> QED
    BY <2>1, <2>2
<1>16. Owned'
  <2> SUFFICES ASSUME NEW u \in DOMAIN session, session[u].alive, NEW x \in session[u].daemon_exclusive,
                      exclusive_owners[x] # session[u].key
               PROVE  \E q \in Clients : InFlight(task'[q]) /\ task'[q].key = session[u].key
    BY <1>5, <1>6 DEF Owned, InFlight, Registers
  <2>1. PICK q \in Clients : InFlight(task[q]) /\ task[q].key = session[u].key
    BY DEF FlightInv, Owned
  <2>2. task'[q] = task[q]
    BY <1>1, <1>10, <2>1 DEF OnlyTask, Procs
  <2> QED
    BY <2>1, <2>2
<1>17. TaskOk(p, t)'
  <2>1. Rivals(t) = Rivals(task[p])
    BY <1>11 DEF Rivals, SameRequest
  <2>2. Claims(t)
    BY <1>1, <1>11 DEF TaskOk, Claims, SameRequest, Guarded, Evicting
  <2>3. Locks(p, t)'
    BY <1>1, <1>11 DEF TaskOk, Locks, SameRequest, lockVars
  <2>4. Finds(p, t)'
    BY <1>11 DEF Finds, InFlight, Removing, Using, Holding
  <2>5. Removes(p, t)'
    BY <1>4, <1>5, <1>11, <2>1 DEF Removes, Removing
  <2>6. Cleared(t)'
    <3> SUFFICES ASSUME NEW u \in DOMAIN session, session'[u].alive, session[u].key \in Rivals(t)
                 PROVE  session[u].key \in t.todo
      BY <1>5, <1>6, <1>11 DEF Cleared, Settling, InFlight, Removing
    <3>1. session[u].alive /\ u # s
      BY <1>6
    <3>2. stdio[session[u].key] = u
      BY <1>1, <2>1, <3>1, RivalsAreKnown
    <3>3. session[u].key # k
      BY <1>4, <3>1, <3>2
    <3> QED
      BY <1>1, <1>3, <1>11, <2>1, <3>1, <3>3 DEF TaskOk, Cleared
  <2> QED
    BY <2>2, <2>3, <2>4, <2>5, <2>6 DEF TaskOk, Claims
<1>18. ASSUME NEW q \in Clients \ {p} PROVE TaskOk(q, task[q])'
  <2>1. PICK r : r = task[q]
    OBVIOUS
  <2>2. TaskOk(q, r)
    BY <2>1 DEF FlightInv
  <2>3. r.pc \in {"insert", "reuse"} => session'[r.s].alive
    <3> SUFFICES ASSUME r.pc \in {"insert", "reuse"} PROVE session'[r.s].alive
      OBVIOUS
    <3>1. r.pc \in Guarded /\ r.pc # "idle"
      BY DEF Guarded, Settling
    <3>2. r.s \in DOMAIN session /\ session[r.s].alive /\ session[r.s].key = r.key
      BY <2>2, <3>1 DEF TaskOk, Finds, InFlight, Claims, FlightInv, CachedUnderKey
    <3>3. r.key # k
      BY <1>1, <1>4, <2>1, <3>1, RivalsWait
    <3> QED
      BY <1>4, <1>6, <3>2, <3>3
  <2>4. r.pc = "remove" => ~session'[r.s].alive
    <3>1. r.pc = "remove" => r.s \in DOMAIN session /\ ~session[r.s].alive
      BY <2>2 DEF TaskOk, Removes, FlightInv, CachedUnderKey
    <3> QED
      BY <1>6, <3>1
  <2>5. Cleared(r)'
    BY <1>5, <1>6, <2>2 DEF TaskOk, Cleared
  <2> QED
    BY <1>5, <1>6, <1>7, <1>10, <2>1, <2>3, <2>4, <2>5, OthersOkWhen
<1> QED
  BY <1>11, <1>12, <1>13, <1>14, <1>15, <1>16, <1>17, <1>18 DEF FlightInv

LEMMA EvictKillKeeps ==
  ASSUME FlightInv, NEW p \in Clients, EvictKill(p)
  PROVE  FlightInv'
<1>1. /\ FlightTypes /\ task[p].pc = "evict_kill" /\ TaskOk(p, task[p])
      /\ UNCHANGED <<stdio, exclusive_owners, session_exclusives, exits, sweeps>>
  BY FlightTypesOf DEF EvictKill, At, registryVars, boundVars
<1>2. PICK s \in DOMAIN session : s = task[p].s /\ session[s].lock = p
  BY <1>1 DEF TaskOk, Removes, FlightInv, CachedUnderKey
<1>3. session[s] \in Session
  BY <1>1, <1>2, ElementOfSeq DEF FlightTypes
<1>4. PICK out \in KillOutcomes(s) :
        \/ /\ ~out.alive /\ Locked(s, p, out)
           /\ StartRemoval(p, "remove", task[p].target, TRUE, "evict_next") /\ UNCHANGED lockVars
        \/ out.alive /\ Unlocked(s, out) /\ Done(p)
  BY <1>2 DEF EvictKill
<1>5. /\ out \in Session /\ out.key = session[s].key
      /\ out.daemon_exclusive = session[s].daemon_exclusive
      /\ out.reuse_eligible = session[s].reuse_eligible
      /\ out.alive => session[s].alive
  BY <1>3, <1>4 DEF KillOutcomes, Session
<1>6. CASE ~out.alive
  <2> DEFINE after == [out EXCEPT !.lock = p]
  <2>1. /\ after \in Session /\ after.key = session[s].key /\ ~after.alive
        /\ after.daemon_exclusive = session[s].daemon_exclusive
        /\ after.reuse_eligible = session[s].reuse_eligible /\ after.lock = p
    BY <1>5, <1>6 DEF Session, Procs
  <2>2. /\ session' = [session EXCEPT ![s] = after]
        /\ StartRemoval(p, "remove", task[p].target, TRUE, "evict_next") /\ UNCHANGED lockVars
    BY <1>4, <1>6 DEF Locked
  <2> HIDE DEF after
  <2> QED
    BY <1>1, <1>2, <2>1, <2>2, EvictionKills
<1>7. CASE out.alive
  <2>1. Unlocked(s, out) /\ Done(p) /\ session[s].alive
    BY <1>4, <1>5, <1>7
  <2>2. session' = [session EXCEPT ![s] = [out EXCEPT !.lock = None]]
    BY <2>1 DEF Unlocked
  <2>3. out.alive = session[s].alive
    BY <1>3, <1>5, <1>7, <2>1 DEF Session
  <2>4. /\ Alike
        /\ \A q \in Clients \ {p} : \A u \in DOMAIN session : session[u].lock = q => session'[u].lock = q
    BY <1>2, <1>5, <2>2, <2>3, MutexStep
  <2>5. ~InFlight(task[p]) /\ task[p].pc # "remove"
    BY <1>1 DEF InFlight, Removing
  <2> QED
    BY <1>1, <2>1, <2>4, <2>5, DoneStep
<1> QED
  BY <1>6, <1>7

\* The eviction takes off the map the session it has killed, and no other: the
\* map has had nothing else under the key since.
LEMMA RemoveSessionKeeps ==
  ASSUME FlightInv, NEW p \in Clients, RemoveSession(p)
  PROVE  FlightInv'
<1>1. /\ FlightTypes /\ task[p] \in Task /\ TaskOk(p, task[p]) /\ task[p].pc = "remove"
      /\ task[p].pc \in Guarded /\ Evicts(task[p]) /\ ~InFlight(task[p])
      /\ Goto(p, "clean") /\ UNCHANGED lockVars
      /\ UNCHANGED <<exclusive_owners, session_exclusives, exits, sweeps, session>>
  BY FlightTypesOf DEF RemoveSession, At, registryVars, boundVars, Guarded, Evicting, Evicts,
                       InFlight, Removing
<1>2. PICK k \in Keys : k = task[p].target
  BY <1>1 DEF TaskOk, Removes
<1>3. PICK s : s = task[p].s
  OBVIOUS
<1>4. /\ s # 0 /\ stdio[k] = s /\ session[s].lock = p /\ ~session[s].alive
      /\ task[p].then = "evict_next"
      /\ task[p].todo \subseteq Rivals(task[p]) /\ k \in Rivals(task[p]) \ task[p].todo
  BY <1>1, <1>2, <1>3 DEF TaskOk, Removes
<1>5. /\ stdio' \in [Keys -> Nat] /\ stdio'[k] = 0 /\ \A j \in Keys \ {k} : stdio'[j] = stdio[j]
  BY <1>1, <1>2 DEF RemoveSession, FlightTypes
<1>6. Alike /\ OthersLock(p) /\ "clean" \in Pcs
  BY <1>1, SessionsStay, LocksStay DEF Pcs, Guarded, Removing
<1>7. OnlyTask(p)
  BY <1>1, <1>6, GotoShape
<1>8. PICK t \in Task : /\ t = task'[p] /\ SameRequest(task[p], t) /\ t.pc = "clean" /\ t.s = s
                        /\ t.todo = task[p].todo /\ t.target = k /\ t.then = "evict_next"
  BY <1>1, <1>2, <1>3, <1>4, <1>6, GotoShape
<1>9. FlightTypes'
  <2>1. task'[Cleaner] = task[Cleaner]
    BY <1>7, SessionsAssumption DEF OnlyTask, Procs
  <2> QED
    BY <1>1, <1>5, <1>6, <1>7, <2>1 DEF FlightTypes, OnlyTask, OthersLock, At
<1>10. CachedUnderKey' /\ SessionsClaim' /\ OwnersClaim'
  BY <1>1, <1>5 DEF FlightInv, CachedUnderKey, SessionsClaim, OwnersClaim
<1>11. AliveKept'
  <2> SUFFICES ASSUME NEW u \in DOMAIN session, session[u].alive, stdio'[session[u].key] # u
               PROVE  \E q \in Clients : At(q, "insert")' /\ task'[q].s = u
    BY <1>1 DEF AliveKept
  <2>1. session[u].key \in Keys
    <3>1. session[u] \in Session
      BY <1>1, ElementOfSeq DEF FlightTypes
    <3> QED
      BY <3>1 DEF Session
  <2>2. stdio[session[u].key] # u
    BY <1>4, <1>5, <2>1
  <2>3. PICK q \in Clients : At(q, "insert") /\ task[q].s = u
    BY <2>2 DEF FlightInv, AliveKept
  <2>4. q # p /\ task'[q] = task[q]
    BY <1>1, <1>7, <2>3 DEF At, OnlyTask, Procs
  <2> QED
    BY <2>3, <2>4 DEF At
<1>12. CachedRuns'
  <2> SUFFICES ASSUME NEW j \in Keys, stdio'[j] # 0, ~session[stdio'[j]].alive
               PROVE  \E q \in Clients : At(q, "remove")' /\ task'[q].target = j
    BY <1>1 DEF CachedRuns
  <2>1. j # k /\ stdio'[j] = stdio[j]
    BY <1>5
  <2>2. PICK q \in Clients : At(q, "remove") /\ task[q].target = j
    BY <2>1 DEF FlightInv, CachedRuns
  <2>3. q # p /\ task'[q] = task[q]
    BY <1>2, <1>7, <2>1, <2>2 DEF OnlyTask, Procs
  <2> QED
    BY <2>2, <2>3 DEF At
<1>13. Owned'
  <2> SUFFICES ASSUME NEW u \in DOMAIN session, session[u].alive, NEW x \in session[u].daemon_exclusive,
                      exclusive_owners[x] # session[u].key
               PROVE  \E q \in Clients : InFlight(task'[q]) /\ task'[q].key = session[u].key
    BY <1>1 DEF Owned, InFlight, Registers
  <2>1. PICK q \in Clients : InFlight(task[q]) /\ task[q].key = session[u].key
    BY DEF FlightInv, Owned
  <2>2. task'[q] = task[q]
    BY <1>1, <1>7, <2>1 DEF OnlyTask, Procs
  <2> QED
    BY <2>1, <2>2
<1>14. TaskOk(p, t)'
  <2>1. Rivals(t) = Rivals(task[p])
    BY <1>8 DEF Rivals, SameRequest
  <2>2. Claims(t)
    BY <1>1, <1>8 DEF TaskOk, Claims, SameRequest, Guarded, Removing
  <2>3. Locks(p, t)'
    BY <1>1, <1>8 DEF TaskOk, Locks, SameRequest, lockVars
  <2>4. Finds(p, t)'
    BY <1>8 DEF Finds, InFlight, Removing, Registers, Using, Holding
  <2>5. Removes(p, t)'
    BY <1>4, <1>8, <2>1 DEF Removes, Removing, Registers
  <2>6. Cleared(t)'
    BY <1>1, <1>8, <2>1 DEF TaskOk, Cleared, Settling, InFlight, Removing, Registers
  <2> QED
    BY <2>2, <2>3, <2>4, <2>5, <2>6 DEF TaskOk, Claims
<1>15. ASSUME NEW q \in Clients \ {p} PROVE TaskOk(q, task[q])'
  <2>1. PICK r : r = task[q]
    OBVIOUS
  <2>2. TaskOk(q, r)
    BY <2>1 DEF FlightInv
  <2>3. r.pc \in {"spawn", "insert", "reuse"} => stdio'[r.key] = stdio[r.key]
    <3> SUFFICES ASSUME r.pc \in {"spawn", "insert", "reuse"} PROVE stdio'[r.key] = stdio[r.key]
      OBVIOUS
    <3>1. r.pc \in Guarded /\ r.pc # "idle"
      BY DEF Guarded, Settling
    <3>2. r.key # k /\ r.key \in Keys
      BY <1>1, <1>4, <2>1, <2>2, <3>1, RivalsWait DEF TaskOk, Claims
    <3> QED
      BY <1>5, <3>2
  <2>4. r.pc \in {"evict_kill", "remove"} => stdio'[r.target] = stdio[r.target]
    <3> SUFFICES ASSUME r.pc \in {"evict_kill", "remove"} PROVE stdio'[r.target] = stdio[r.target]
      OBVIOUS
    <3>1. r.target \in Keys /\ session[stdio[r.target]].lock = q
      BY <2>2 DEF TaskOk, Removes
    <3> QED
      BY <1>4, <1>5, <3>1
  <2>5. r.pc \in {"insert", "reuse"} => session[r.s].alive
    BY <2>2 DEF TaskOk, Finds
  <2>6. r.pc = "remove" => ~session[r.s].alive
    BY <2>2 DEF TaskOk, Removes
  <2>7. Cleared(r)'
    BY <1>1, <2>2 DEF TaskOk, Cleared
  <2> QED
    BY <1>1, <1>6, <1>7, <2>1, <2>3, <2>4, <2>5, <2>6, <2>7, OthersOkWhen
<1> QED
  BY <1>8, <1>9, <1>10, <1>11, <1>12, <1>13, <1>14, <1>15 DEF FlightInv

-----------------------------------------------------------------------------
(* The child is started, and put into the map. *)

\* No request past its locks is for a session that claims one of the keys, so
\* nobody has ruled the new child out.
LEMMA ChildStarts ==
  ASSUME FlightInv, NEW p \in Clients, task[p].pc = "spawn", NEW r \in Session,
         r.key = task[p].key, r.alive, r.daemon_exclusive = task[p].excl, r.reuse_eligible,
         session' = Append(session, r), GotoWith(p, "insert", Len(session) + 1), UNCHANGED lockVars,
         UNCHANGED <<stdio, exclusive_owners, session_exclusives, exits, sweeps>>
  PROVE  FlightInv'
<1>1. /\ FlightTypes /\ task[p] \in Task /\ TaskOk(p, task[p]) /\ task[p].pc \in Guarded
      /\ task[p].pc \in Settling /\ ~InFlight(task[p])
  BY FlightTypesOf DEF Guarded, Settling, InFlight, Removing
<1>2. /\ task[p].key \in Keys /\ task[p].op \in Users /\ task[p].excl = XOf(task[p].key)
      /\ init_lock[task[p].key] = p /\ stdio[task[p].key] = 0
  BY <1>1 DEF TaskOk, Claims, Locks
<1>3. PICK n \in Nat : n = Len(session) + 1 /\ DOMAIN session = 1 .. n - 1
  BY <1>1, LenProperties DEF FlightTypes
<1>4. /\ session' \in Seq(Session) /\ DOMAIN session' = 1 .. n /\ session'[n] = r
      /\ \A s \in DOMAIN session : session'[s] = session[s]
  BY <1>1, <1>3, AppendProperties, LenProperties DEF FlightTypes
<1>5. DOMAIN session' = DOMAIN session \cup {n} /\ n \notin DOMAIN session
  BY <1>3, <1>4
<1>6. OthersLock(p) /\ "insert" \in Pcs
  BY <1>1, <1>4 DEF OthersLock, lockVars, FlightTypes, Pcs, Guarded, Settling
<1>7. OnlyTask(p)
  BY <1>1, <1>3, <1>6, GotoWithShape
<1>8. PICK t \in Task : t = task'[p] /\ SameRequest(task[p], t) /\ t.pc = "insert" /\ t.s = n
  BY <1>1, <1>3, <1>6, GotoWithShape
<1>9. FlightTypes'
  <2>1. task'[Cleaner] = task[Cleaner]
    BY <1>7, SessionsAssumption DEF OnlyTask, Procs
  <2> QED
    BY <1>1, <1>4, <1>6, <1>7, <2>1 DEF FlightTypes, OnlyTask, OthersLock, At
<1>10. CachedUnderKey' /\ OwnersClaim'
  BY <1>4, <1>5 DEF FlightInv, CachedUnderKey, OwnersClaim
<1>11. SessionsClaim'
  BY <1>2, <1>4, <1>5 DEF FlightInv, SessionsClaim
<1>12. AliveKept'
  <2> SUFFICES ASSUME NEW u \in DOMAIN session', session'[u].alive, stdio[session'[u].key] # u
               PROVE  \E q \in Clients : At(q, "insert")' /\ task'[q].s = u
    BY DEF AliveKept
  <2>1. CASE u = n
    BY <1>8, <2>1 DEF At
  <2>2. CASE u # n
    <3>1. PICK q \in Clients : At(q, "insert") /\ task[q].s = u
      BY <1>4, <1>5, <2>2 DEF FlightInv, AliveKept
    <3>2. q # p /\ task'[q] = task[q]
      BY <1>7, <3>1 DEF At, OnlyTask, Procs
    <3> QED
      BY <3>1, <3>2 DEF At
  <2> QED
    BY <2>1, <2>2
<1>13. CachedRuns'
  <2> SUFFICES ASSUME NEW k \in Keys, stdio[k] # 0, ~session'[stdio[k]].alive
               PROVE  \E q \in Clients : At(q, "remove")' /\ task'[q].target = k
    BY DEF CachedRuns
  <2>1. stdio[k] \in DOMAIN session
    BY DEF FlightInv, CachedUnderKey
  <2>2. PICK q \in Clients : At(q, "remove") /\ task[q].target = k
    BY <1>4, <2>1 DEF FlightInv, CachedRuns
  <2>3. q # p /\ task'[q] = task[q]
    BY <1>7, <2>2 DEF At, OnlyTask, Procs
  <2> QED
    BY <2>2, <2>3 DEF At
<1>14. Owned'
  <2> SUFFICES ASSUME NEW u \in DOMAIN session', session'[u].alive,
                      NEW x \in session'[u].daemon_exclusive, exclusive_owners[x] # session'[u].key
               PROVE  \E q \in Clients : InFlight(task'[q]) /\ task'[q].key = session'[u].key
    BY DEF Owned, InFlight, Registers
  <2>1. CASE u = n
    BY <1>4, <1>8, <2>1 DEF InFlight, SameRequest
  <2>2. CASE u # n
    <3>1. PICK q \in Clients : InFlight(task[q]) /\ task[q].key = session'[u].key
      BY <1>4, <1>5, <2>2 DEF FlightInv, Owned
    <3>2. task'[q] = task[q]
      BY <1>1, <1>7, <3>1 DEF OnlyTask, Procs
    <3> QED
      BY <3>1, <3>2
  <2> QED
    BY <2>1, <2>2
<1>15. TaskOk(p, t)'
  <2>1. Rivals(t) = Rivals(task[p]) /\ t.key \notin Rivals(t)
    BY <1>8 DEF Rivals, SameRequest
  <2>2. Claims(t)
    BY <1>2, <1>8 DEF Claims, SameRequest, Users
  <2>3. Locks(p, t)'
    BY <1>1, <1>2, <1>8 DEF TaskOk, Locks, SameRequest, lockVars
  <2>4. Finds(p, t)'
    BY <1>4, <1>5, <1>8 DEF Finds, Using, Holding, SameRequest
  <2>5. Removes(p, t)' /\ ~Evicts(t)
    BY <1>8 DEF Removes, Removing, Evicts, Evicting
  <2>6. Cleared(t)'
    <3> SUFFICES ASSUME NEW u \in DOMAIN session', session'[u].alive, session'[u].key \in Rivals(t)
                 PROVE  FALSE
      BY DEF Cleared
    <3>1. u # n
      BY <1>4, <1>8, <2>1 DEF SameRequest
    <3> QED
      BY <1>1, <1>4, <1>5, <2>1, <3>1 DEF TaskOk, Cleared
  <2> QED
    BY <2>2, <2>3, <2>4, <2>5, <2>6 DEF TaskOk, Claims
<1>16. ASSUME NEW q \in Clients \ {p} PROVE TaskOk(q, task[q])'
  <2>1. PICK v : v = task[q]
    OBVIOUS
  <2>2. TaskOk(q, v)
    BY <2>1 DEF FlightInv
  <2>3. v.pc \in {"insert", "reuse"} => v.s \in DOMAIN session /\ session[v.s].alive
    BY <2>2 DEF TaskOk, Finds, InFlight, Claims, FlightInv, CachedUnderKey
  <2>4. v.pc = "remove" => v.s \in DOMAIN session /\ ~session[v.s].alive
    BY <2>2 DEF TaskOk, Removes, FlightInv, CachedUnderKey
  <2>5. Cleared(v)'
    <3> SUFFICES ASSUME NEW u \in DOMAIN session', session'[u].alive, session'[u].key \in Rivals(v)
                 PROVE  /\ v.pc \in Settling \/ InFlight(v) => FALSE
                        /\ Evicts(v) => \/ session'[u].key \in v.todo
                                        \/ v.pc = "evict_kill" /\ session'[u].key = v.target
      BY DEF Cleared
    <3>1. CASE u = n
      BY <1>1, <1>4, <2>1, <3>1, GuardedPcs, RivalsWait
    <3>2. CASE u # n
      BY <1>4, <1>5, <2>2, <3>2 DEF TaskOk, Cleared
    <3> QED
      BY <3>1, <3>2
  <2> QED
    BY <1>4, <1>5, <1>6, <1>7, <2>1, <2>3, <2>4, <2>5, OthersOkWhen
<1> QED
  BY <1>8, <1>9, <1>10, <1>11, <1>12, <1>13, <1>14, <1>15, <1>16 DEF FlightInv

LEMMA SpawnKeeps ==
  ASSUME FlightInv, NEW p \in Clients, Spawn(p)
  PROVE  FlightInv'
<1>1. /\ task[p] \in Task /\ TaskOk(p, task[p]) /\ task[p].pc = "spawn"
      /\ UNCHANGED <<stdio, exclusive_owners, session_exclusives, exits, sweeps>>
  BY FlightTypesOf DEF Spawn, At, registryVars, boundVars
<1>2. CASE Done(p) /\ UNCHANGED session
  <2>1. ~InFlight(task[p]) /\ task[p].pc # "remove"
    BY <1>1 DEF InFlight, Removing
  <2> QED
    BY <1>1, <1>2, <2>1, SessionsStay, DoneStep
<1>3. ASSUME NEW lifecycle \in Lifecycles,
             session' = Append(session,
               [key |-> task[p].key, alive |-> TRUE, reuse_eligible |-> TRUE,
                daemon_exclusive |-> task[p].excl, ttl |-> task[p].ttl,
                stale |-> FALSE, subscriptions |-> 0, lifecycle |-> lifecycle,
                auto_reap_allowed |-> FALSE, lock |-> None]),
             GotoWith(p, "insert", Len(session) + 1), UNCHANGED lockVars
      PROVE  FlightInv'
  <2> DEFINE r == [key |-> task[p].key, alive |-> TRUE, reuse_eligible |-> TRUE,
                   daemon_exclusive |-> task[p].excl, ttl |-> task[p].ttl,
                   stale |-> FALSE, subscriptions |-> 0, lifecycle |-> lifecycle,
                   auto_reap_allowed |-> FALSE, lock |-> None]
  <2>1. task[p].key \in Keys /\ task[p].excl \in SUBSET XKeys /\ task[p].ttl \in BOOLEAN
    BY <1>1 DEF TaskOk, Claims, Task
  <2>2. /\ r \in Session /\ r.key = task[p].key /\ r.alive /\ r.daemon_exclusive = task[p].excl
        /\ r.reuse_eligible
    BY <1>3, <2>1 DEF Session
  <2>3. session' = Append(session, r)
    BY <1>3
  <2> HIDE DEF r
  <2> QED
    BY <1>1, <1>3, <2>2, <2>3, ChildStarts
<1> QED
  BY <1>2, <1>3 DEF Spawn

\* The init lock keeps the place in the map empty until the child is put there.
LEMMA InsertSessionKeeps ==
  ASSUME FlightInv, NEW p \in Clients, InsertSession(p)
  PROVE  FlightInv'
<1>1. /\ FlightTypes /\ task[p] \in Task /\ TaskOk(p, task[p]) /\ task[p].pc = "insert"
      /\ task[p].pc \in Guarded /\ InFlight(task[p])
      /\ Goto(p, "insert_snapshot") /\ UNCHANGED lockVars
      /\ UNCHANGED <<exclusive_owners, session_exclusives, exits, sweeps, session>>
  BY FlightTypesOf DEF InsertSession, At, registryVars, boundVars, Guarded, Settling, InFlight
<1>2. PICK k \in Keys : k = task[p].key
  BY <1>1 DEF TaskOk, Claims
<1>3. PICK s \in DOMAIN session : s = task[p].s
  BY <1>1 DEF TaskOk, Finds
<1>4. /\ init_lock[k] = p /\ stdio[k] = 0 /\ session[s].key = k /\ session[s].alive
      /\ s \in Nat /\ s # 0
  BY <1>1, <1>2, <1>3, LenProperties DEF TaskOk, Locks, Finds, FlightTypes
<1>5. stdio' \in [Keys -> Nat] /\ stdio'[k] = s /\ \A j \in Keys \ {k} : stdio'[j] = stdio[j]
  BY <1>1, <1>2, <1>3, <1>4 DEF InsertSession, FlightTypes
<1>6. Alike /\ OthersLock(p) /\ "insert_snapshot" \in Pcs
  BY <1>1, SessionsStay, LocksStay DEF Pcs, Guarded, Settling
<1>7. OnlyTask(p)
  BY <1>1, <1>6, GotoShape
<1>8. PICK t \in Task : t = task'[p] /\ SameRequest(task[p], t) /\ t.pc = "insert_snapshot" /\ t.s = s
  BY <1>1, <1>3, <1>6, GotoShape
<1>9. FlightTypes'
  <2>1. task'[Cleaner] = task[Cleaner]
    BY <1>7, SessionsAssumption DEF OnlyTask, Procs
  <2> QED
    BY <1>1, <1>5, <1>6, <1>7, <2>1 DEF FlightTypes, OnlyTask, OthersLock, At
<1>10. CachedUnderKey' /\ SessionsClaim' /\ OwnersClaim'
  BY <1>1, <1>4, <1>5 DEF FlightInv, CachedUnderKey, SessionsClaim, OwnersClaim
<1>11. AliveKept'
  <2> SUFFICES ASSUME NEW u \in DOMAIN session, session[u].alive, stdio'[session[u].key] # u
               PROVE  \E q \in Clients : At(q, "insert")' /\ task'[q].s = u
    BY <1>1 DEF AliveKept
  <2>1. session[u] \in Session /\ u # 0
    BY <1>1, ElementOfSeq, LenProperties DEF FlightTypes
  <2>2. session[u].key \in Keys
    BY <2>1 DEF Session
  <2>3. stdio[session[u].key] # u
    BY <1>4, <1>5, <2>1, <2>2
  <2>4. PICK q \in Clients : At(q, "insert") /\ task[q].s = u
    BY <2>3 DEF FlightInv, AliveKept
  <2>5. q # p
    BY <1>3, <1>4, <1>5, <2>4
  <2>6. task'[q] = task[q]
    BY <1>7, <2>5 DEF OnlyTask, Procs
  <2> QED
    BY <2>4, <2>6 DEF At
<1>12. CachedRuns'
  <2> SUFFICES ASSUME NEW j \in Keys, stdio'[j] # 0, ~session[stdio'[j]].alive
               PROVE  \E q \in Clients : At(q, "remove")' /\ task'[q].target = j
    BY <1>1 DEF CachedRuns
  <2>1. stdio'[j] = stdio[j]
    BY <1>4, <1>5
  <2>2. PICK q \in Clients : At(q, "remove") /\ task[q].target = j
    BY <2>1 DEF FlightInv, CachedRuns
  <2>3. q # p /\ task'[q] = task[q]
    BY <1>1, <1>7, <2>2 DEF At, OnlyTask, Procs
  <2> QED
    BY <2>2, <2>3 DEF At
<1>13. Owned'
  <2> SUFFICES ASSUME NEW u \in DOMAIN session, session[u].alive, NEW x \in session[u].daemon_exclusive,
                      exclusive_owners[x] # session[u].key
               PROVE  \E q \in Clients : InFlight(task'[q]) /\ task'[q].key = session[u].key
    BY <1>1 DEF Owned, InFlight, Registers
  <2>1. PICK q \in Clients : InFlight(task[q]) /\ task[q].key = session[u].key
    BY DEF FlightInv, Owned
  <2>2. CASE q = p
    BY <1>8, <2>1, <2>2 DEF InFlight, SameRequest
  <2>3. CASE q # p
    BY <1>7, <2>1, <2>3 DEF OnlyTask, Procs
  <2> QED
    BY <2>2, <2>3
<1>14. TaskOk(p, t)'
  <2>1. Rivals(t) = Rivals(task[p])
    BY <1>8 DEF Rivals, SameRequest
  <2>2. Claims(t)
    BY <1>1, <1>8 DEF TaskOk, Claims, SameRequest, Guarded, Settling
  <2>3. Locks(p, t)'
    BY <1>1, <1>8 DEF TaskOk, Locks, SameRequest, lockVars
  <2>4. Finds(p, t)'
    BY <1>1, <1>8 DEF Finds, Using, Holding
  <2>5. Removes(p, t)' /\ ~Evicts(t)
    BY <1>8 DEF Removes, Removing, Evicts, Evicting
  <2>6. Cleared(t)'
    BY <1>1, <1>8, <2>1, <2>5 DEF TaskOk, Cleared
  <2> QED
    BY <2>2, <2>3, <2>4, <2>5, <2>6 DEF TaskOk, Claims
<1>15. ASSUME NEW q \in Clients \ {p} PROVE TaskOk(q, task[q])'
  <2>1. PICK v : v = task[q]
    OBVIOUS
  <2>2. TaskOk(q, v)
    BY <2>1 DEF FlightInv
  <2>3. v.pc \in {"spawn", "insert", "reuse"} => stdio'[v.key] = stdio[v.key]
    <3> SUFFICES ASSUME v.pc \in {"spawn", "insert", "reuse"} PROVE stdio'[v.key] = stdio[v.key]
      OBVIOUS
    <3>1. v.key \in Keys
      BY <2>2 DEF TaskOk, Claims
    <3>2. v.key # k
      BY <1>4, <2>2 DEF TaskOk, Locks, Finds
    <3> QED
      BY <1>5, <3>1, <3>2
  <2>4. v.pc \in {"evict_kill", "remove"} => stdio'[v.target] = stdio[v.target]
    <3> SUFFICES ASSUME v.pc \in {"evict_kill", "remove"} PROVE stdio'[v.target] = stdio[v.target]
      OBVIOUS
    <3>1. v.target \in Keys /\ stdio[v.target] # 0
      BY <2>2 DEF TaskOk, Removes
    <3> QED
      BY <1>4, <1>5, <3>1
  <2>5. v.pc \in {"insert", "reuse"} => session[v.s].alive
    BY <2>2 DEF TaskOk, Finds
  <2>6. v.pc = "remove" => ~session[v.s].alive
    BY <2>2 DEF TaskOk, Removes
  <2>7. Cleared(v)'
    BY <1>1, <2>2 DEF TaskOk, Cleared
  <2> QED
    BY <1>1, <1>6, <1>7, <2>1, <2>3, <2>4, <2>5, <2>6, <2>7, OthersOkWhen
<1> QED
  BY <1>8, <1>9, <1>10, <1>11, <1>12, <1>13, <1>14, <1>15 DEF FlightInv

-----------------------------------------------------------------------------
(* The theorems. *)

LEMMA FlightInvInit == Init => FlightInv
<1> SUFFICES ASSUME Init PROVE FlightInv
  OBVIOUS
<1>1. session \in Seq(Session) /\ DOMAIN session = {}
  BY EmptySeq DEF Init
<1>2. FlightTypes
  BY <1>1, IdleTask DEF Init, FlightTypes, Procs, At
<1>3. CachedUnderKey /\ SessionsClaim /\ AliveKept /\ CachedRuns /\ Owned
  BY <1>1 DEF Init, CachedUnderKey, SessionsClaim, AliveKept, CachedRuns, Owned
<1>4. OwnersClaim
  BY DEF Init, OwnersClaim
<1>5. ASSUME NEW p \in Clients PROVE TaskOk(p, task[p])
  <2>1. task[p] = Idle
    BY DEF Init, Procs
  <2>2. "idle" \notin Guarded /\ "idle" \notin Using /\ "idle" \notin Holding
    BY DEF Guarded, Using, Holding, Settling, Evicting, Removing
  <2>3. Claims(Idle)
    BY <2>2, IdleTask DEF Claims, Users
  <2>4. Locks(p, Idle) /\ Finds(p, Idle) /\ Removes(p, Idle)
    BY <2>2, IdleTask, GuardedPcs DEF Locks, Finds, Removes, Guarded, Evicting, Removing
  <2>5. Cleared(Idle)
    BY <1>1 DEF Cleared
  <2> QED
    BY <2>1, <2>3, <2>4, <2>5 DEF TaskOk
<1> QED
  BY <1>2, <1>3, <1>4, <1>5 DEF FlightInv

LEMMA ClientStepKeeps ==
  ASSUME FlightInv, NEW p \in Clients, ClientStep(p)
  PROVE  FlightInv'
<1>1. task[p].pc \in Pcs
  BY FlightTypesOf DEF Task
<1>2. ~(ReuseGone(p) \/ KillGet(p) \/ KillLock(p) \/ KillWait(p) \/ Killed(p))
  BY <1>1 DEF ReuseGone, KillGet, KillLock, KillWait, Killed, At, Pcs, Guarded, Using, Holding,
              Settling, Evicting, Removing
<1>3. CASE RemovalStep(p)
  BY <1>3, RemoveSessionKeeps, CleanupTakeKeeps, CleanupOwnersKeeps, RemoveSnapshotKeeps
  DEF RemovalStep
<1>4. CASE AcquireExclusiveLock(p) \/ EvictScan(p) \/ EvictNext(p) \/ EvictKill(p)
  BY <1>4, AcquireExclusiveLockKeeps, EvictScanKeeps, EvictNextKeeps, EvictKillKeeps
<1>5. CASE Lookup(p) \/ AcquireInitLock(p) \/ TryReuse(p) \/ Spawn(p) \/ InsertSession(p)
  BY <1>5, LookupKeeps, AcquireInitLockKeeps, TryReuseKeeps, SpawnKeeps, InsertSessionKeeps
<1>6. CASE InsertSnapshot(p) \/ RegisterSession(p) \/ RegisterOwners(p) \/ HandOut(p)
  BY <1>6, InsertSnapshotKeeps, RegisterSessionKeeps, RegisterOwnersKeeps, HandOutKeeps
<1>7. CASE MarkStarted(p) \/ StartCall(p) \/ EndCall(p) \/ MarkFinished(p) \/ HelpGet(p)
  BY <1>7, MarksKeep, StartCallKeeps, EndCallKeeps, HelpGetKeeps
<1>8. CASE SubscribeLock(p) \/ SubscribeEnsure(p) \/ SubscriptionRelease(p)
  BY <1>8, SubscriptionLocksKeep, SubscribeEnsureKeeps, SubscriptionReleaseKeeps
<1> QED
  BY <1>2, <1>3, <1>4, <1>5, <1>6, <1>7, <1>8 DEF ClientStep

LEMMA FlightInvNext ==
  ASSUME Disciplined, FlightInv, [Next]_vars
  PROVE  FlightInv'
<1>1. FlightTypes /\ MaxExits = 0 /\ MaxSweeps = 0
  BY DEF FlightInv, Disciplined
<1>2. At(Cleaner, "idle") /\ ~(exits < MaxExits) /\ ~(sweeps < MaxSweeps)
  BY <1>1 DEF FlightTypes
<1>3. CASE UNCHANGED vars
  <2>1. UNCHANGED <<stdio, exclusive_owners, session_exclusives, init_lock, exclusive_lock,
                    session, task, exits, sweeps>>
    BY <1>3 DEF vars, registryVars, lockVars, boundVars
  <2>2. FlightTypes' /\ CachedUnderKey' /\ SessionsClaim' /\ OwnersClaim'
    BY <2>1 DEF FlightInv, FlightTypes, CachedUnderKey, SessionsClaim, OwnersClaim, At
  <2>3. AliveKept' /\ CachedRuns' /\ Owned'
    BY <2>1 DEF FlightInv, AliveKept, CachedRuns, Owned, At, InFlight, Registers
  <2>4. ASSUME NEW p \in Clients PROVE TaskOk(p, task[p])'
    <3>1. PICK t : t = task[p]
      OBVIOUS
    <3>2. Claims(t) /\ Locks(p, t) /\ Finds(p, t) /\ Removes(p, t) /\ Cleared(t)
      BY <3>1 DEF FlightInv, TaskOk
    <3>3. Locks(p, t)' /\ Finds(p, t)' /\ Removes(p, t)' /\ Cleared(t)'
      BY <2>1, <3>2 DEF Locks, Finds, Removes, Cleared
    <3>4. TaskOk(p, t)'
      BY <3>2, <3>3 DEF TaskOk, Claims
    <3> QED
      BY <2>1, <3>1, <3>4
  <2> QED
    BY <2>2, <2>3, <2>4 DEF FlightInv
<1>4. ASSUME NEW c \in Clients, NEW r \in Requests, Request(c, r) PROVE FlightInv'
  BY <1>4, RequestKeeps
<1>5. ASSUME NEW c \in Clients,
             ClientStep(c) \/ SubscriptionPoll(c) \/ SubscriptionStop(c) \/ SubscriptionAborted(c)
      PROVE  FlightInv'
  BY <1>5, ClientStepKeeps, SubscriptionLocksKeep, SubscriptionAbortedKeeps
<1>6. ~(SweepStart \/ SweepStep)
  BY <1>2 DEF SweepStart, SweepStep, SweepNext, SweepKill, SweepRemove, SweepClean, RemovalStep,
              RemoveSession, CleanupTake, CleanupOwners, RemoveSnapshot, At
<1>7. ASSUME NEW s \in DOMAIN session PROVE ~(ChildExits(s) \/ Ages(s) \/ LifecycleChanged(s))
  BY <1>2 DEF ChildExits, Ages, LifecycleChanged, SweepAhead
<1> QED
  BY <1>3, <1>4, <1>5, <1>6, <1>7 DEF Next

\* FlightInv holds of every behaviour in which no child exits by itself, no
\* sweep runs, nobody kills a session by hand, and the requests for a session
\* claim the same exclusive keys (get_or_create_stdio with
\* evict_stdio_exclusive_conflicts and register_stdio_exclusive_keys).
THEOREM FlightInvInvariant ==
  ASSUME Disciplined
  PROVE  Spec => []FlightInv
<1>1. Init => FlightInv
  BY FlightInvInit
<1>2. FlightInv /\ [Next]_vars => FlightInv'
  BY FlightInvNext
<1> QED
  BY <1>1, <1>2, PTL DEF Spec

\* However many requests find the cache empty together, the init lock and the
\* second look-up under it start one child per session key: evictions, failed
\* kills and failed starts do not make a second one.
THEOREM OneChildPerKey ==
  ASSUME Disciplined
  PROVE  Spec => []Singleflight
<1>1. FlightInv => Singleflight
  <2> SUFFICES ASSUME FlightInv, NEW s \in DOMAIN session, NEW t \in DOMAIN session,
                      session[s].alive, session[t].alive, session[s].key = session[t].key
               PROVE  s = t
    BY DEF Singleflight, Live
  <2>1. s # 0 /\ t # 0
    BY LenProperties DEF FlightInv, FlightTypes
  <2>2. ASSUME NEW u \in DOMAIN session, NEW p \in Clients, At(p, "insert"), task[p].s = u
        PROVE  init_lock[session[u].key] = p /\ stdio[session[u].key] = 0
    BY <2>2 DEF FlightInv, TaskOk, Finds, Locks, At
  <2>3. CASE stdio[session[s].key] = s
    BY <2>1, <2>2, <2>3 DEF FlightInv, AliveKept
  <2>4. CASE stdio[session[s].key] # s
    <3>1. PICK p \in Clients : At(p, "insert") /\ task[p].s = s
      BY <2>4 DEF FlightInv, AliveKept
    <3>2. stdio[session[t].key] # t
      BY <2>1, <2>2, <3>1
    <3>3. PICK q \in Clients : At(q, "insert") /\ task[q].s = t
      BY <3>2 DEF FlightInv, AliveKept
    <3> QED
      BY <2>2, <3>1, <3>3
  <2> QED
    BY <2>3, <2>4
<1> QED
  BY <1>1, FlightInvInvariant, PTL

\* "so the invariant holds": no two running children hold an exclusive key in
\* common, between the eviction of its owner, the start of the child that takes
\* over and its registration too, provided that the requests for a session
\* claim the same keys.
THEOREM OneChildPerExclusiveKey ==
  ASSUME Disciplined
  PROVE  Spec => []ExclusiveHeld
<1>1. FlightInv /\ Singleflight => ExclusiveHeld
  <2> SUFFICES ASSUME FlightInv, NEW s \in DOMAIN session, NEW t \in DOMAIN session,
                      session[s].alive, session[t].alive, session[s].key # session[t].key,
                      NEW x, x \in session[s].daemon_exclusive, x \in session[t].daemon_exclusive
               PROVE  FALSE
    BY DEF ExclusiveHeld, Singleflight, Live
  <2>1. /\ x \in XOf(session[s].key) /\ x \in XOf(session[t].key)
        /\ session[s].key \in Keys /\ session[t].key \in Keys
    <3>1. session[s] \in Session /\ session[t] \in Session
      BY ElementOfSeq DEF FlightInv, FlightTypes
    <3> QED
      BY <3>1 DEF Session, FlightInv, SessionsClaim
  <2>2. ASSUME NEW u \in DOMAIN session, session[u].alive, NEW p \in Clients, InFlight(task[p]),
               x \in XOf(session[u].key), session[u].key \in Keys,
               x \in XOf(task[p].key), session[u].key # task[p].key
        PROVE  FALSE
    <3>1. task[p].pc \in Guarded /\ TaskOk(p, task[p])
      BY <2>2, GuardedPcs, FlightTypesOf
    <3>2. task[p].excl = XOf(task[p].key)
      BY <3>1, GuardedPcs DEF TaskOk, Claims
    <3>3. session[u].key \in Rivals(task[p])
      BY <2>2, <3>2 DEF Rivals
    <3> QED
      BY <2>2, <3>1, <3>3 DEF TaskOk, Cleared
  <2>3. CASE exclusive_owners[x] = session[s].key
    <3>1. PICK q \in Clients : InFlight(task[q]) /\ task[q].key = session[t].key
      BY <2>3 DEF FlightInv, Owned
    <3> QED
      BY <2>1, <2>2, <3>1
  <2>4. CASE exclusive_owners[x] # session[s].key
    <3>1. PICK q \in Clients : InFlight(task[q]) /\ task[q].key = session[s].key
      BY <2>4 DEF FlightInv, Owned
    <3> QED
      BY <2>1, <2>2, <3>1
  <2> QED
    BY <2>3, <2>4
<1> QED
  BY <1>1, FlightInvInvariant, OneChildPerKey, PTL

-----------------------------------------------------------------------------
(* Requests one at a time: the maps and the views between them.             *)

\* A request, a kill or a sweep starts when nothing else is under way.
OneAtATime == MaxActive = 1
\* What the agreement of the registry and that of the views take of requests.
HelpClaimsNone == \A r \in Requests : r.op = "help" => r.excl = {}
AllAnswered == \A r \in Requests : ~r.bad_args

\* Where a job works on the entries of one key.
Taking == {"remove", "clean", "clean_owners", "remove_snapshot"}
Claiming == {"insert_snapshot", "register", "register_owners"}
Calling == {"call", "calling", "finish"}
Opening == {"lookup", "init", "reuse", "reuse_gone", "spawn", "insert"} \cup Claiming
Working == {"xlock", "evict", "evict_next", "evict_kill", "hand_out", "start", "help_get", "kill_get",
            "kill_lock", "kill_wait"} \cup Opening \cup Calling
Bound == {"evict_kill", "reuse", "insert", "hand_out", "start", "sub_lock", "sub_ensure", "subscribed",
          "sub_poll", "sub_release", "kill_lock", "kill_wait", "sweep_kill"} \cup Claiming \cup Calling
Sweeping == {"sweep", "sweep_kill", "sweep_clean"}
JobPcs == {"idle", "killed"} \cup Working \cup Taking \cup Bound \cup Sweeping

Job == [pc : JobPcs, op : Ops \cup {"none"}, key : Keys \cup {None}, excl : SUBSET XKeys,
        ttl : BOOLEAN, bad_args : BOOLEAN, s : Nat, todo : SUBSET (Keys \cup (Keys \X Nat)),
        arcs : SUBSET Nat, reaped : SUBSET Keys, target : Keys \cup {None}, taken : SUBSET XKeys,
        snapshot : BOOLEAN, then : JobPcs]

JobTypes ==
  /\ stdio \in [Keys -> Nat]
  /\ stdio_snapshots \in [Keys -> Nat \cup {None}]
  /\ exclusive_owners \in [XKeys -> Keys \cup {None}]
  /\ session_exclusives \in [Keys -> SUBSET XKeys]
  /\ session \in Seq(Session)
  /\ task \in [Procs -> Job]

TakesFor(t, then) == t.pc \in Taking /\ t.then = then
EvictsOwner(t) == t.pc \in {"evict_next", "evict_kill"} \/ TakesFor(t, "evict_next")
ClaimsKeys(t) == t.pc \in Claiming \/ TakesFor(t, "register")

\* What a job refers to is there.
Placed(t) ==
  /\ t.pc = "idle" => t = Idle
  /\ t.pc \in Working => t.key \in Keys
  /\ t.pc \in Bound \/ TakesFor(t, "register") => t.s \in DOMAIN session
  /\ t.pc \in Taking =>
       /\ t.target \in Keys /\ t.target \notin t.reaped
       /\ t.then \in {"evict_next", "register", "reuse_gone", "killed", "sweep_clean"}
       /\ t.then # "sweep_clean" => t.key \in Keys
       /\ t.then \in {"register", "reuse_gone"} => t.target = t.key
       /\ t.then = "register" => ~t.snapshot
       /\ t.pc = "remove" => t.then # "register"
       /\ t.pc \in {"remove", "remove_snapshot"} => t.snapshot
  /\ t.pc = "evict_kill" => t.target \in Keys
  /\ EvictsOwner(t) => t.todo \subseteq Keys
  /\ t.pc = "sweep" => t.todo \subseteq Keys \X DOMAIN session
  /\ t.pc = "sweep_kill" => t.key \in Keys /\ t.todo \subseteq Keys \X DOMAIN session
  /\ t.reaped # {} => t.pc \in Sweeping \/ TakesFor(t, "sweep_clean")
  /\ HelpClaimsNone => (t.op = "help" => t.excl = {})
  /\ AllAnswered => ~t.bad_args

\* The sessions are in the map where the job expects them.
Stored(t) ==
  /\ t.pc = "reuse" => stdio[t.key] = t.s
  /\ t.pc = "insert" => session[t.s].key = t.key
  /\ t.pc \in {"hand_out", "start"} \cup Calling \/ ClaimsKeys(t) => stdio[t.key] # 0
  /\ t.pc \in {"spawn", "insert", "reuse_gone"} => stdio[t.key] = 0
  /\ t.pc \in Taking \ {"remove"} /\ t.then # "register" => stdio[t.target] = 0
  /\ t.pc \in Taking \cup {"sweep_clean"} => \A k \in t.reaped : stdio[k] = 0

\* What the map of owners and the session itself say of a key.
Owns(k) == {x \in XKeys : exclusive_owners[x] = k}
Holds(k) == IF stdio[k] = 0 THEN {} ELSE session[stdio[k]].daemon_exclusive
Agrees(k) == session_exclusives[k] = Owns(k) /\ session_exclusives[k] = Holds(k)

\* The keys whose entries the job has not put in order.
Loose(t) == CASE t.pc \in Taking -> {t.target} \cup t.reaped
              [] t.pc \in Claiming -> {t.key}
              [] t.pc = "sweep_clean" -> t.reaped
              [] OTHER -> {}

\* The registry step by step: what is left to take off or to register, and
\* that no other session has a key that the job is about to register.
Registered(t) ==
  /\ \A k \in Keys \ Loose(t) : Agrees(k)
  /\ t.pc \in Taking \cup {"sweep_clean"} => \A k \in t.reaped : session_exclusives[k] = Owns(k)
  /\ t.pc \in {"remove", "clean"} => Owns(t.target) \subseteq session_exclusives[t.target]
  /\ t.pc = "clean_owners" => session_exclusives[t.target] = {} /\ Owns(t.target) \subseteq t.taken
  /\ t.pc = "remove_snapshot" => session_exclusives[t.target] = {} /\ Owns(t.target) = {}
  /\ t.pc \in {"insert_snapshot", "register"} => session_exclusives[t.key] = {}
  /\ t.pc = "register_owners" => session_exclusives[t.key] = t.excl
  /\ t.pc \in Claiming => Owns(t.key) = {}
  /\ ClaimsKeys(t) => Holds(t.key) = t.excl
  /\ t.pc = "insert" => session[t.s].daemon_exclusive = t.excl
  /\ t.pc \in Opening \/ TakesFor(t, "register") \/ TakesFor(t, "reuse_gone") =>
       \A x \in t.excl : exclusive_owners[x] \in {None, t.key}
  /\ EvictsOwner(t) =>
       \A x \in t.excl : \/ exclusive_owners[x] \in {None, t.key} \cup t.todo
                         \/ t.pc # "evict_next" /\ exclusive_owners[x] = t.target

\* The keys whose view the job has not put in order.
Unseen(t) == CASE t.pc \in Taking -> (IF t.snapshot THEN {t.target} ELSE {}) \cup t.reaped
               [] t.pc \in {"insert_snapshot"} \cup Calling -> {t.key}
               [] t.pc = "sweep_clean" -> t.reaped
               [] OTHER -> {}
Shown(k) == stdio_snapshots[k] = IF stdio[k] = 0 THEN None ELSE 0
Viewed(t) ==
  /\ \A k \in Keys \ Unseen(t) : Shown(k)
  /\ t.pc \in Calling => stdio_snapshots[t.key] = 1

\* Everybody but p is idle, and p's job is in order.
Alone(p) == \A q \in Procs \ {p} : task[q] = Idle
JobOk(t) == /\ Placed(t) /\ Stored(t)
            /\ HelpClaimsNone => Registered(t)
            /\ AllAnswered => Viewed(t)
Solo(p) == JobTypes /\ CachedUnderKey /\ Alone(p) /\ JobOk(task[p])

SerialInv == \E p \in Procs : Solo(p)

-----------------------------------------------------------------------------
(* Steps of the only job. *)

SameRest(t, u) ==
  /\ u.op = t.op /\ u.key = t.key /\ u.excl = t.excl /\ u.bad_args = t.bad_args
  /\ u.todo = t.todo /\ u.reaped = t.reaped /\ u.taken = t.taken
SameTaking(t, u) == u.target = t.target /\ u.snapshot = t.snapshot /\ u.then = t.then

OnlyJob(p) ==
  /\ task' \in [Procs -> Job]
  /\ \A q \in Procs \ {p} : task'[q] = task[q]

\* The sessions are as before but for what the maps do not say of them.
Kin ==
  /\ session' \in Seq(Session) /\ DOMAIN session' = DOMAIN session
  /\ \A s \in DOMAIN session :
       /\ session'[s].key = session[s].key
       /\ HelpClaimsNone => session'[s].daemon_exclusive = session[s].daemon_exclusive

MapsStay == UNCHANGED <<stdio, stdio_snapshots, exclusive_owners, session_exclusives>>

LEMMA IdleJob ==
  /\ Idle \in Job /\ Idle.pc = "idle" /\ Idle.reaped = {} /\ Idle.op = "none" /\ Idle.excl = {}
  /\ ~Idle.bad_args
<1>1. {} \in SUBSET (Keys \cup (Keys \X Nat))
  OBVIOUS
<1>2. "idle" \in JobPcs
  BY DEF JobPcs
<1> QED
  BY <1>1, <1>2 DEF Idle, Job

LEMMA NewJob ==
  ASSUME JobTypes, NEW p \in Procs, NEW u \in Job, task' = [task EXCEPT ![p] = u]
  PROVE  OnlyJob(p) /\ task'[p] = u
BY DEF JobTypes, OnlyJob

LEMMA GotoJob ==
  ASSUME JobTypes, NEW p \in Procs, NEW pc \in JobPcs, Goto(p, pc)
  PROVE  /\ OnlyJob(p)
         /\ \E u \in Job : /\ u = task'[p] /\ u.pc = pc /\ u.s = task[p].s
                           /\ SameRest(task[p], u) /\ SameTaking(task[p], u)
<1>1. task[p] \in Job
  BY DEF JobTypes
<1> DEFINE u == [task[p] EXCEPT !.pc = pc]
<1>2. /\ u \in Job /\ u.pc = pc /\ u.s = task[p].s
      /\ SameRest(task[p], u) /\ SameTaking(task[p], u)
  BY <1>1 DEF Job, SameRest, SameTaking
<1>3. task' = [task EXCEPT ![p] = u]
  BY DEF Goto
<1> HIDE DEF u
<1> QED
  BY <1>2, <1>3, NewJob

LEMMA GotoWithJob ==
  ASSUME JobTypes, NEW p \in Procs, NEW pc \in JobPcs, NEW s \in Nat, GotoWith(p, pc, s)
  PROVE  /\ OnlyJob(p)
         /\ \E u \in Job : /\ u = task'[p] /\ u.pc = pc /\ u.s = s
                           /\ SameRest(task[p], u) /\ SameTaking(task[p], u)
<1>1. task[p] \in Job /\ task \in [Procs -> Job]
  BY DEF JobTypes
<1> DEFINE u == [task[p] EXCEPT !.pc = pc, !.s = s]
<1>2. u \in Job /\ u.pc = pc /\ u.s = s /\ SameRest(task[p], u) /\ SameTaking(task[p], u)
  BY <1>1 DEF Job, SameRest, SameTaking
<1>3. task' = [task EXCEPT ![p] = u]
  BY <1>1 DEF GotoWith, Job
<1> HIDE DEF u
<1> QED
  BY <1>2, <1>3, NewJob

LEMMA RemovalJob ==
  ASSUME JobTypes, NEW p \in Procs, NEW pc \in JobPcs, NEW target \in Keys, NEW snapshot \in BOOLEAN,
         NEW then \in JobPcs, StartRemoval(p, pc, target, snapshot, then)
  PROVE  /\ OnlyJob(p)
         /\ \E u \in Job : /\ u = task'[p] /\ u.pc = pc /\ u.s = task[p].s
                           /\ SameRest(task[p], u)
                           /\ u.target = target /\ u.snapshot = snapshot /\ u.then = then
<1>1. task[p] \in Job /\ task \in [Procs -> Job]
  BY DEF JobTypes
<1> DEFINE u == [task[p] EXCEPT !.pc = pc, !.target = target, !.snapshot = snapshot, !.then = then]
<1>2. /\ u \in Job /\ u.pc = pc /\ u.s = task[p].s /\ SameRest(task[p], u)
      /\ u.target = target /\ u.snapshot = snapshot /\ u.then = then
  BY <1>1 DEF Job, SameRest
<1>3. task' = [task EXCEPT ![p] = u]
  BY <1>1 DEF StartRemoval, Job
<1> HIDE DEF u
<1> QED
  BY <1>2, <1>3, NewJob

LEMMA DoneJob ==
  ASSUME JobTypes, NEW p \in Procs, Done(p)
  PROVE  OnlyJob(p) /\ task'[p] = Idle
BY IdleJob DEF JobTypes, Done, OnlyJob

LEMMA KinSame ==
  ASSUME JobTypes, UNCHANGED session
  PROVE  Kin
BY DEF JobTypes, Kin

\* The session's mutex, and whatever else of it the maps do not hold.
LEMMA KinMutex ==
  ASSUME JobTypes, NEW s \in DOMAIN session, NEW after \in Session,
         after.key = session[s].key,
         HelpClaimsNone => after.daemon_exclusive = session[s].daemon_exclusive,
         NEW holder \in Procs \cup {None},
         session' = [session EXCEPT ![s] = [after EXCEPT !.lock = holder]]
  PROVE  Kin
<1>1. PICK r : r = [after EXCEPT !.lock = holder]
  OBVIOUS
<1>2. r \in Session /\ r.key = after.key /\ r.daemon_exclusive = after.daemon_exclusive
  BY <1>1 DEF Session
<1> QED
  BY <1>1, <1>2, Rewritten DEF JobTypes, Kin

\* A step that changes neither the maps nor what they say of the sessions.
LEMMA CalmHolds ==
  ASSUME JobTypes, CachedUnderKey, Kin, HelpClaimsNone, UNCHANGED stdio, NEW k \in Keys
  PROVE  Holds(k)' = Holds(k)
BY DEF JobTypes, CachedUnderKey, Kin, Holds

LEMMA CalmJob ==
  ASSUME NEW p \in Procs, Solo(p), Kin, MapsStay, OnlyJob(p), NEW u, u = task'[p], JobOk(u)
  PROVE  Solo(p)'
<1>1. JobTypes'
  BY DEF Solo, JobTypes, Kin, MapsStay, OnlyJob
<1>2. CachedUnderKey'
  BY DEF Solo, CachedUnderKey, Kin, MapsStay
<1>3. Alone(p)'
  BY DEF Solo, Alone, OnlyJob
<1>4. Placed(u)'
  BY DEF JobOk, Placed, Kin
<1>5. u \in Job
  BY DEF OnlyJob
<1>6. u.pc = "insert" => u.s \in DOMAIN session
  BY DEF JobOk, Placed, Bound
<1>7. Stored(u)'
  BY <1>6 DEF JobOk, Stored, Kin, MapsStay
<1>8. ASSUME HelpClaimsNone PROVE Registered(u)'
  <2>1. Registered(u)
    BY <1>8 DEF JobOk
  <2>2. \A k \in Keys : Owns(k)' = Owns(k) /\ Holds(k)' = Holds(k) /\ session_exclusives'[k] = session_exclusives[k]
    BY <1>8, CalmHolds DEF Solo, Owns, MapsStay
  <2>3. \A k \in Keys : Agrees(k) => Agrees(k)'
    BY <2>2 DEF Agrees
  <2>4. ClaimsKeys(u) => u.key \in Keys
    BY DEF JobOk, Placed, ClaimsKeys, TakesFor, Working, Opening
  <2>5. u.pc \in Claiming => u.key \in Keys
    BY <2>4 DEF ClaimsKeys
  <2>6. u.pc \in Taking => u.target \in Keys
    BY DEF JobOk, Placed
  <2>7. u.reaped \subseteq Keys
    BY <1>5 DEF Job
  <2>8. \A k \in Keys \ Loose(u) : Agrees(k)'
    BY <2>1, <2>3 DEF Registered
  <2>9. /\ u.pc \in Taking \cup {"sweep_clean"} => \A k \in u.reaped : session_exclusives'[k] = Owns(k)'
        /\ u.pc \in {"remove", "clean"} => Owns(u.target)' \subseteq session_exclusives'[u.target]
        /\ u.pc = "clean_owners" => session_exclusives'[u.target] = {} /\ Owns(u.target)' \subseteq u.taken
        /\ u.pc = "remove_snapshot" => session_exclusives'[u.target] = {} /\ Owns(u.target)' = {}
    BY <2>1, <2>2, <2>6, <2>7 DEF Registered, Taking
  <2>10. /\ u.pc \in {"insert_snapshot", "register"} => session_exclusives'[u.key] = {}
         /\ u.pc = "register_owners" => session_exclusives'[u.key] = u.excl
         /\ u.pc \in Claiming => Owns(u.key)' = {}
         /\ ClaimsKeys(u) => Holds(u.key)' = u.excl
    BY <2>1, <2>2, <2>4, <2>5 DEF Registered, Claiming
  <2>11. u.pc = "insert" => session'[u.s].daemon_exclusive = u.excl
    BY <1>8, <2>1, <1>6 DEF Registered, Kin
  <2>12. exclusive_owners' = exclusive_owners
    BY DEF MapsStay
  <2> QED
    BY <2>1, <2>8, <2>9, <2>10, <2>11, <2>12 DEF Registered
<1>9. ASSUME AllAnswered PROVE Viewed(u)'
  BY <1>9 DEF JobOk, Viewed, Shown, MapsStay
<1> QED
  BY <1>1, <1>2, <1>3, <1>4, <1>7, <1>8, <1>9 DEF Solo, JobOk

\* A job that has put everything in order may end.
LEMMA EndsSolo ==
  ASSUME NEW p \in Procs, Solo(p), Kin, MapsStay, task' = [task EXCEPT ![p] = Idle],
         HelpClaimsNone => Loose(task[p]) = {}, AllAnswered => Unseen(task[p]) = {}
  PROVE  Solo(p)'
<1>1. OnlyJob(p) /\ task'[p] = Idle
  BY IdleJob DEF Solo, JobTypes, OnlyJob
<1>2. PICK u : u = Idle
  OBVIOUS
<1>3. u.pc = "idle" /\ u.reaped = {} /\ u.op = "none" /\ ~u.bad_args
  BY <1>2, IdleJob
<1>4. Placed(u)
  BY <1>2, <1>3 DEF Placed, Working, Bound, Taking, Claiming, Calling, Opening, Sweeping, TakesFor, EvictsOwner
<1>5. Stored(u)
  BY <1>3 DEF Stored, Taking, Claiming, Calling, TakesFor, ClaimsKeys
<1>6. HelpClaimsNone => Registered(u)
  BY <1>3 DEF Solo, JobOk, Registered, Loose, Taking, Claiming, Opening, TakesFor, ClaimsKeys, EvictsOwner
<1>7. AllAnswered => Viewed(u)
  BY <1>3 DEF Solo, JobOk, Viewed, Unseen, Taking, Calling
<1> QED
  BY <1>1, <1>2, <1>4, <1>5, <1>6, <1>7, CalmJob DEF JobOk

LEMMA DoneSolo ==
  ASSUME NEW p \in Procs, Solo(p), Kin, MapsStay, Done(p),
         HelpClaimsNone => Loose(task[p]) = {}, AllAnswered => Unseen(task[p]) = {}
  PROVE  Solo(p)'
BY EndsSolo DEF Done

-----------------------------------------------------------------------------
(* Steps that change neither the maps nor what they say of the sessions. *)

\* Where a job goes with the session it has.
Goes == {<<"xlock", "xlock">>, <<"xlock", "evict">>, <<"init", "lookup">>,
         <<"hand_out", "start">>, <<"hand_out", "sub_lock">>, <<"call", "calling">>, <<"calling", "finish">>,
         <<"sub_lock", "sub_ensure">>, <<"sub_ensure", "subscribed">>, <<"subscribed", "sub_poll">>,
         <<"sub_poll", "subscribed">>, <<"subscribed", "sub_release">>, <<"kill_lock", "kill_wait">>}

LEMMA GoesSolo ==
  ASSUME NEW p \in Procs, Solo(p), Kin, MapsStay, NEW pc, <<task[p].pc, pc>> \in Goes, Goto(p, pc)
  PROVE  Solo(p)'
<1> USE DEF Working, Bound, Taking, Claiming, Calling, Opening, Sweeping
<1>1. JobTypes /\ pc \in JobPcs
  BY DEF Solo, Goes, JobPcs
<1>2. PICK t : t = task[p]
  OBVIOUS
<1>3. PICK u \in Job : /\ u = task'[p] /\ u.pc = pc /\ u.s = t.s
                       /\ SameRest(t, u) /\ SameTaking(t, u)
  BY <1>1, <1>2, GotoJob
<1>4. OnlyJob(p)
  BY <1>1, GotoJob
<1>5. <<t.pc, u.pc>> \in Goes /\ JobOk(t)
  BY <1>2, <1>3 DEF Solo
<1>6. Placed(u)
  BY <1>3, <1>5 DEF JobOk, Placed, SameRest, SameTaking, Goes, TakesFor, EvictsOwner
<1>7. Stored(u)
  BY <1>3, <1>5 DEF JobOk, Stored, SameRest, SameTaking, Goes, TakesFor, ClaimsKeys
<1>8. HelpClaimsNone => Registered(u)
  BY <1>3, <1>5 DEF JobOk, Registered, Loose, SameRest, SameTaking, Goes, TakesFor, ClaimsKeys, EvictsOwner
<1>9. AllAnswered => Viewed(u)
  BY <1>3, <1>5 DEF JobOk, Viewed, Unseen, SameRest, SameTaking, Goes
<1> QED
  BY <1>3, <1>4, <1>6, <1>7, <1>8, <1>9, CalmJob DEF JobOk

\* The session found under the job's key, if there is one.
FoundAt == {<<"lookup", "reuse">>, <<"help_get", "start">>, <<"kill_get", "kill_lock">>}
Misses == {<<"lookup", "spawn">>, <<"lookup", "init">>, <<"reuse_gone", "spawn">>, <<"reuse_gone", "init">>}

LEMMA FindsSolo ==
  ASSUME NEW p \in Procs, Solo(p), NEW pc, NEW s,
         \/ <<task[p].pc, pc>> \in FoundAt /\ s = stdio[task[p].key] /\ s # 0
         \/ <<task[p].pc, pc>> \in Misses /\ s = 0 /\ stdio[task[p].key] = 0
         \/ task[p].pc = "evict_next" /\ task[p].todo = {} /\ pc = "lookup" /\ s = 0,
         GotoWith(p, pc, s), UNCHANGED session, MapsStay
  PROVE  Solo(p)'
<1> USE DEF Working, Bound, Taking, Claiming, Calling, Opening, Sweeping
<1>1. JobTypes /\ pc \in JobPcs /\ Kin /\ CachedUnderKey
  BY KinSame DEF Solo, FoundAt, Misses, JobPcs
<1>2. PICK t : t = task[p]
  OBVIOUS
<1>3. JobOk(t) /\ Placed(t) /\ Stored(t)
  BY <1>2 DEF Solo, JobOk
<1>4. t.key \in Keys
  BY <1>2, <1>3 DEF Placed, FoundAt, Misses
<1>5. s \in Nat /\ (s # 0 => s \in DOMAIN session)
  BY <1>1, <1>2, <1>4 DEF JobTypes, CachedUnderKey
<1>6. PICK u \in Job : /\ u = task'[p] /\ u.pc = pc /\ u.s = s
                       /\ SameRest(t, u) /\ SameTaking(t, u)
  BY <1>1, <1>2, <1>5, GotoWithJob
<1>7. OnlyJob(p)
  BY <1>1, <1>5, GotoWithJob
<1>8. \/ <<t.pc, u.pc>> \in FoundAt /\ u.s = stdio[t.key] /\ u.s # 0
      \/ <<t.pc, u.pc>> \in Misses /\ u.s = 0 /\ stdio[t.key] = 0
      \/ t.pc = "evict_next" /\ t.todo = {} /\ u.pc = "lookup" /\ u.s = 0
  BY <1>2, <1>6
<1>9. Placed(u)
  BY <1>3, <1>5, <1>6, <1>8 DEF Placed, SameRest, SameTaking, FoundAt, Misses, TakesFor, EvictsOwner
<1>10. Stored(u)
  BY <1>3, <1>6, <1>8 DEF Stored, SameRest, SameTaking, FoundAt, Misses, TakesFor, ClaimsKeys
<1>11. HelpClaimsNone => Registered(u)
  BY <1>3, <1>6, <1>8 DEF JobOk, Registered, Loose, SameRest, SameTaking, FoundAt, Misses, TakesFor, ClaimsKeys, EvictsOwner
<1>12. AllAnswered => Viewed(u)
  BY <1>3, <1>6, <1>8 DEF JobOk, Viewed, Unseen, SameRest, SameTaking, FoundAt, Misses
<1> QED
  BY <1>1, <1>6, <1>7, <1>9, <1>10, <1>11, <1>12, CalmJob DEF JobOk

\* A session is to be taken off the maps.
LEMMA StartsRemoval ==
  ASSUME NEW p \in Procs, Solo(p), Kin, MapsStay, NEW target, NEW then,
         \/ task[p].pc = "reuse" /\ target = task[p].key /\ then = "reuse_gone"
         \/ task[p].pc = "kill_wait" /\ target = task[p].key /\ then = "killed"
         \/ task[p].pc = "evict_kill" /\ target = task[p].target /\ then = "evict_next",
         StartRemoval(p, "remove", target, TRUE, then)
  PROVE  Solo(p)'
<1>0. PICK yes \in BOOLEAN : yes = TRUE
  OBVIOUS
<1>13. StartRemoval(p, "remove", target, yes, then)
  BY <1>0
<1> USE DEF Working, Bound, Taking, Claiming, Calling, Opening, Sweeping
<1>1. JobTypes /\ "remove" \in JobPcs /\ then \in JobPcs
  BY DEF Solo, JobPcs
<1>2. PICK t : t = task[p]
  OBVIOUS
<1>3. JobOk(t) /\ Placed(t) /\ Stored(t)
  BY <1>2 DEF Solo, JobOk
<1>4. target \in Keys /\ t.key \in Keys /\ t.reaped = {}
  BY <1>2, <1>3 DEF Placed, TakesFor
<1>5. PICK u \in Job : /\ u = task'[p] /\ u.pc = "remove" /\ u.s = task[p].s /\ SameRest(task[p], u)
                       /\ u.target = target /\ u.snapshot = yes /\ u.then = then
  BY <1>1, <1>4, <1>13, RemovalJob
<1>6. OnlyJob(p)
  BY <1>1, <1>4, <1>13, RemovalJob
<1>7. \/ t.pc = "reuse" /\ u.target = t.key /\ u.then = "reuse_gone"
      \/ t.pc = "kill_wait" /\ u.target = t.key /\ u.then = "killed"
      \/ t.pc = "evict_kill" /\ u.target = t.target /\ u.then = "evict_next"
  BY <1>2, <1>5
<1>12. u.s = t.s /\ SameRest(t, u)
  BY <1>2, <1>5
<1>8. Placed(u)
  BY <1>0, <1>3, <1>4, <1>5, <1>7, <1>12 DEF Placed, SameRest, TakesFor, EvictsOwner
<1>9. Stored(u)
  BY <1>4, <1>5, <1>7, <1>12 DEF Stored, SameRest, TakesFor, ClaimsKeys
<1>10. ASSUME HelpClaimsNone PROVE Registered(u)
  <2>1. Registered(t) /\ Loose(t) = {}
    BY <1>3, <1>7, <1>10 DEF JobOk, Loose
  <2>2. \A k \in Keys : Agrees(k)
    BY <2>1 DEF Registered
  <2> QED
    BY <1>4, <1>5, <1>7, <1>12, <2>1, <2>2 DEF Registered, Agrees, SameRest, TakesFor, ClaimsKeys, EvictsOwner
<1>11. AllAnswered => Viewed(u)
  BY <1>0, <1>3, <1>5, <1>7 DEF JobOk, Viewed, Unseen
<1> QED
  BY <1>5, <1>6, <1>8, <1>9, <1>10, <1>11, CalmJob DEF JobOk

\* The session of a request that claims nothing is handed out at once.
LEMMA HandsOut ==
  ASSUME NEW p \in Procs, Solo(p), Kin, MapsStay, task[p].pc = "reuse", task[p].excl = {}, stdio[task[p].key] # 0,
         NEW no \in BOOLEAN, StartRemoval(p, "hand_out", task[p].key, no, "register")
  PROVE  Solo(p)'
<1> USE DEF Working, Bound, Taking, Claiming, Calling, Opening, Sweeping
<1>1. JobTypes /\ "hand_out" \in JobPcs /\ "register" \in JobPcs
  BY DEF Solo, JobPcs
<1>2. PICK t : t = task[p]
  OBVIOUS
<1>3. JobOk(t) /\ Placed(t) /\ Stored(t) /\ t.pc = "reuse"
  BY <1>2 DEF Solo, JobOk
<1>4. t.key \in Keys
  BY <1>3 DEF Placed
<1>5. PICK u \in Job : u = task'[p] /\ u.pc = "hand_out" /\ u.s = t.s /\ SameRest(t, u)
  BY <1>1, <1>2, <1>4, RemovalJob
<1>6. OnlyJob(p)
  BY <1>1, <1>2, <1>4, RemovalJob
<1>7. Placed(u)
  BY <1>3, <1>5 DEF Placed, SameRest, TakesFor, EvictsOwner
<1>8. Stored(u)
  BY <1>2, <1>3, <1>5 DEF Stored, SameRest, TakesFor, ClaimsKeys
<1>9. HelpClaimsNone => Registered(u)
  BY <1>3, <1>5 DEF JobOk, Registered, Loose, SameRest, TakesFor, ClaimsKeys, EvictsOwner
<1>10. AllAnswered => Viewed(u)
  BY <1>3, <1>5 DEF JobOk, Viewed, Unseen, SameRest
<1> QED
  BY <1>5, <1>6, <1>7, <1>8, <1>9, <1>10, CalmJob DEF JobOk

-----------------------------------------------------------------------------
(* The steps one by one. *)

\* A session that the job has, as a record.
LEMMA SessionOf ==
  ASSUME JobTypes, NEW s \in DOMAIN session
  PROVE  session[s] \in Session
BY ElementOfSeq DEF JobTypes

LEMMA KinLocked ==
  ASSUME JobTypes, NEW p \in Procs, NEW s \in DOMAIN session, NEW after \in Session,
         after.key = session[s].key,
         HelpClaimsNone => after.daemon_exclusive = session[s].daemon_exclusive,
         Locked(s, p, after) \/ Unlocked(s, after)
  PROVE  Kin
<1>1. CASE Locked(s, p, after)
  <2>1. PICK holder \in Procs \cup {None} : holder = p
    OBVIOUS
  <2> QED
    BY <1>1, <2>1, KinMutex DEF Locked
<1>2. CASE Unlocked(s, after)
  <2>1. PICK holder \in Procs \cup {None} : holder = None
    OBVIOUS
  <2> QED
    BY <1>2, <2>1, KinMutex DEF Unlocked
<1> QED
  BY <1>1, <1>2

\* A session that is only locked or unlocked.
LEMMA KinTouched ==
  ASSUME JobTypes, NEW p \in Procs, NEW s \in DOMAIN session,
         Locked(s, p, session[s]) \/ Unlocked(s, session[s])
  PROVE  Kin
BY SessionOf, KinLocked

LEMMA KinKilled ==
  ASSUME JobTypes, NEW p \in Procs, NEW s \in DOMAIN session, NEW after \in KillOutcomes(s),
         Locked(s, p, after) \/ Unlocked(s, after)
  PROVE  Kin
<1>1. session[s] \in Session
  BY SessionOf
<1>2. /\ after \in Session /\ after.key = session[s].key
      /\ after.daemon_exclusive = session[s].daemon_exclusive
  BY <1>1 DEF KillOutcomes, Session
<1> QED
  BY <1>2, KinLocked

LEMMA SoloParts ==
  ASSUME NEW p \in Procs, Solo(p)
  PROVE  /\ JobTypes /\ CachedUnderKey /\ JobOk(task[p]) /\ Placed(task[p]) /\ Stored(task[p])
         /\ task[p] \in Job
         /\ UNCHANGED session => Kin
BY KinSame DEF Solo, JobOk, JobTypes

LEMMA BoundSession ==
  ASSUME NEW p \in Procs, Solo(p), task[p].pc \in Bound
  PROVE  task[p].s \in DOMAIN session
BY DEF Solo, JobOk, Placed

\* Where everything is in order.
Settled(t) == t.pc \notin Taking \cup Claiming \cup Calling \cup {"sweep_clean"}

LEMMA SettledJob ==
  ASSUME NEW t, Settled(t)
  PROVE  Loose(t) = {} /\ Unseen(t) = {}
BY DEF Settled, Loose, Unseen, Claiming

LEMMA AcquireExclusiveLockSolo ==
  ASSUME NEW p \in Procs, Solo(p), AcquireExclusiveLock(p)
  PROVE  Solo(p)'
<1>1. /\ task[p].pc = "xlock" /\ UNCHANGED session /\ MapsStay
      /\ Goto(p, "evict") \/ Goto(p, "xlock")
  BY DEF AcquireExclusiveLock, At, MapsStay, registryVars
<1> QED
  BY <1>1, SoloParts, GoesSolo DEF Goes

LEMMA EvictScanSolo ==
  ASSUME NEW p \in Procs, Solo(p), EvictScan(p)
  PROVE  Solo(p)'
<1>0. "evict_next" \in JobPcs
  BY DEF JobPcs, Working
<1>1. /\ task[p].pc = "evict" /\ UNCHANGED session /\ MapsStay /\ Kin
      /\ JobTypes /\ JobOk(task[p]) /\ task[p] \in Job
  BY SoloParts DEF EvictScan, At, MapsStay, registryVars
<1>2. PICK t : t = task[p]
  OBVIOUS
<1>3. ConflictingOwners(p) \subseteq Keys
  BY <1>1 DEF ConflictingOwners, JobTypes, Job
<1>12. PICK owners \in SUBSET (Keys \cup (Keys \X Nat)) : owners = ConflictingOwners(p)
  BY <1>3
<1> DEFINE u == [t EXCEPT !.todo = owners, !.pc = "evict_next"]
<1>4. /\ u \in Job /\ u.pc = "evict_next" /\ u.todo = owners /\ u.s = t.s
      /\ u.op = t.op /\ u.key = t.key /\ u.excl = t.excl /\ u.bad_args = t.bad_args /\ u.reaped = t.reaped
  BY <1>0, <1>1, <1>2 DEF Job
<1>5. task' = [task EXCEPT ![p] = u]
  BY <1>1, <1>2, <1>12 DEF EvictScan, JobTypes, Job
<1> HIDE DEF u
<1>6. OnlyJob(p) /\ task'[p] = u
  BY <1>1, <1>4, <1>5, NewJob
<1> USE DEF Working, Bound, Taking, Claiming, Calling, Opening, Sweeping
<1>7. t.pc = "evict" /\ JobOk(t)
  BY <1>1, <1>2
<1>8. Placed(u)
  BY <1>3, <1>4, <1>7, <1>12 DEF JobOk, Placed, TakesFor, EvictsOwner
<1>9. Stored(u)
  BY <1>4 DEF Stored, TakesFor, ClaimsKeys
<1>10. ASSUME HelpClaimsNone PROVE Registered(u)
  <2>1. \A k \in Keys : Agrees(k)
    BY <1>7, <1>10 DEF JobOk, Registered, Loose
  <2>2. \A x \in u.excl : exclusive_owners[x] \in {None, u.key} \cup u.todo
    BY <1>2, <1>4, <1>12 DEF ConflictingOwners
  <2> QED
    BY <1>4, <2>1, <2>2 DEF Registered, TakesFor, ClaimsKeys, EvictsOwner
<1>11. AllAnswered => Viewed(u)
  BY <1>4, <1>7 DEF JobOk, Viewed, Unseen
<1> QED
  BY <1>1, <1>6, <1>8, <1>9, <1>10, <1>11, CalmJob DEF JobOk

LEMMA EvictKillSolo ==
  ASSUME NEW p \in Procs, Solo(p), EvictKill(p)
  PROVE  Solo(p)'
<1>1. task[p].pc = "evict_kill" /\ MapsStay /\ JobTypes
  BY SoloParts DEF EvictKill, At, MapsStay, registryVars
<1>2. PICK s \in DOMAIN session : s = task[p].s
  BY <1>1, BoundSession DEF Bound
<1>3. PICK after \in KillOutcomes(s) :
        \/ Locked(s, p, after) /\ StartRemoval(p, "remove", task[p].target, TRUE, "evict_next")
        \/ Unlocked(s, after) /\ Done(p)
  BY <1>2 DEF EvictKill
<1>4. Kin
  BY <1>1, <1>3, KinKilled
<1>5. CASE StartRemoval(p, "remove", task[p].target, TRUE, "evict_next")
  BY <1>1, <1>4, <1>5, StartsRemoval
<1>6. CASE Done(p)
  BY <1>1, <1>4, <1>6, DoneSolo, SettledJob DEF Settled, Taking, Claiming, Calling
<1> QED
  BY <1>3, <1>5, <1>6

LEMMA LookupSolo ==
  ASSUME NEW p \in Procs, Solo(p), Lookup(p)
  PROVE  Solo(p)'
<1>1. PICK s : s = stdio[task[p].key]
  OBVIOUS
<1>2. /\ task[p].pc = "lookup" /\ MapsStay /\ UNCHANGED session
      /\ \/ s # 0 /\ GotoWith(p, "reuse", s)
         \/ s = 0 /\ (GotoWith(p, "spawn", s) \/ GotoWith(p, "init", s))
  BY <1>1 DEF Lookup, At, MapsStay, registryVars
<1> QED
  BY <1>1, <1>2, FindsSolo DEF FoundAt, Misses

LEMMA AcquireInitLockSolo ==
  ASSUME NEW p \in Procs, Solo(p), AcquireInitLock(p)
  PROVE  Solo(p)'
<1>1. task[p].pc = "init" /\ UNCHANGED session /\ MapsStay /\ Goto(p, "lookup")
  BY DEF AcquireInitLock, At, MapsStay, registryVars
<1> QED
  BY <1>1, SoloParts, GoesSolo DEF Goes

LEMMA ReuseGoneSolo ==
  ASSUME NEW p \in Procs, Solo(p), ReuseGone(p)
  PROVE  Solo(p)'
<1>1. /\ task[p].pc = "reuse_gone" /\ MapsStay /\ UNCHANGED session
      /\ GotoWith(p, "spawn", 0) \/ GotoWith(p, "init", 0)
  BY DEF ReuseGone, At, MapsStay, registryVars
<1>2. stdio[task[p].key] = 0
  BY <1>1, SoloParts DEF Stored
<1> QED
  BY <1>1, <1>2, FindsSolo DEF Misses

LEMMA HandOutSolo ==
  ASSUME NEW p \in Procs, Solo(p), HandOut(p)
  PROVE  Solo(p)'
<1>1. /\ task[p].pc = "hand_out" /\ UNCHANGED session /\ MapsStay
      /\ Goto(p, "sub_lock") \/ Goto(p, "start")
  BY DEF HandOut, At, MapsStay, registryVars
<1> QED
  BY <1>1, SoloParts, GoesSolo DEF Goes

LEMMA StartCallSolo ==
  ASSUME NEW p \in Procs, Solo(p), StartCall(p)
  PROVE  Solo(p)'
<1>1. task[p].pc = "call" /\ MapsStay /\ JobTypes /\ Goto(p, "calling") /\ task[p] \in Job
  BY SoloParts DEF StartCall, At, MapsStay, registryVars
<1>2. PICK s \in DOMAIN session : s = task[p].s
  BY <1>1, BoundSession DEF Bound, Calling
<1>3. session[s] \in Session
  BY <1>1, SessionOf
<1>4. PICK t \in Job : t = task[p]
  BY <1>1
<1>5. HelpClaimsNone => (t.op = "help" => t.excl = {})
  BY <1>4, SoloParts DEF Placed
<1>6. PICK after : /\ after = IF t.op = "help" THEN ApplyRequestMetadata(s, t) ELSE session[s]
                   /\ Locked(s, p, [after EXCEPT !.stale = FALSE])
  BY <1>2, <1>4 DEF StartCall
<1>7. /\ after \in Session /\ after.key = session[s].key
      /\ HelpClaimsNone => after.daemon_exclusive = session[s].daemon_exclusive
  BY <1>3, <1>5, <1>6 DEF ApplyRequestMetadata, Session, Job
<1>8. PICK used : used = [after EXCEPT !.stale = FALSE]
  OBVIOUS
<1>10. /\ used \in Session /\ used.key = after.key
       /\ used.daemon_exclusive = after.daemon_exclusive
  BY <1>7, <1>8 DEF Session
<1>9. Kin
  BY <1>1, <1>6, <1>7, <1>8, <1>10, KinLocked
<1> QED
  BY <1>1, <1>9, GoesSolo DEF Goes

LEMMA EndCallSolo ==
  ASSUME NEW p \in Procs, Solo(p), EndCall(p)
  PROVE  Solo(p)'
<1>1. /\ task[p].pc = "calling" /\ MapsStay /\ JobTypes /\ task[p].s \in DOMAIN session
      /\ Goto(p, "finish") \/ (task[p].bad_args /\ Done(p))
  BY SoloParts, BoundSession DEF EndCall, At, MapsStay, registryVars, Bound, Calling
<1>2. Kin
  BY <1>1, KinTouched DEF EndCall
<1>3. CASE Goto(p, "finish")
  BY <1>1, <1>2, <1>3, GoesSolo DEF Goes
<1>4. CASE task[p].bad_args /\ Done(p)
  <2>1. ~AllAnswered
    BY <1>4, SoloParts DEF Placed
  <2>2. Loose(task[p]) = {}
    BY <1>1 DEF Loose, Taking, Claiming
  <2> QED
    BY <1>1, <1>2, <1>4, <2>1, <2>2, DoneSolo
<1> QED
  BY <1>1, <1>3, <1>4

LEMMA HelpGetSolo ==
  ASSUME NEW p \in Procs, Solo(p), HelpGet(p)
  PROVE  Solo(p)'
<1>1. PICK s : s = stdio[task[p].key]
  OBVIOUS
<1>2. /\ task[p].pc = "help_get" /\ MapsStay /\ UNCHANGED session /\ Kin
      /\ Done(p) \/ (s # 0 /\ GotoWith(p, "start", s))
  BY <1>1, SoloParts DEF HelpGet, At, MapsStay, registryVars
<1>3. CASE Done(p)
  BY <1>2, <1>3, DoneSolo, SettledJob DEF Settled, Taking, Claiming, Calling
<1> QED
  BY <1>1, <1>2, <1>3, FindsSolo DEF FoundAt

LEMMA KillGetSolo ==
  ASSUME NEW p \in Procs, Solo(p), KillGet(p)
  PROVE  Solo(p)'
<1>1. PICK s : s = stdio[task[p].key]
  OBVIOUS
<1>2. /\ task[p].pc = "kill_get" /\ MapsStay /\ UNCHANGED session /\ Kin
      /\ Done(p) \/ (s # 0 /\ GotoWith(p, "kill_lock", s))
  BY <1>1, SoloParts DEF KillGet, At, MapsStay, registryVars
<1>3. CASE Done(p)
  BY <1>2, <1>3, DoneSolo, SettledJob DEF Settled, Taking, Claiming, Calling
<1> QED
  BY <1>1, <1>2, <1>3, FindsSolo DEF FoundAt

LEMMA KillLockSolo ==
  ASSUME NEW p \in Procs, Solo(p), KillLock(p)
  PROVE  Solo(p)'
<1>1. task[p].pc = "kill_lock" /\ MapsStay /\ JobTypes /\ Goto(p, "kill_wait")
  BY SoloParts DEF KillLock, At, MapsStay, registryVars
<1>2. PICK s \in DOMAIN session : s = task[p].s
  BY <1>1, BoundSession DEF Bound
<1>3. session[s] \in Session
  BY <1>1, SessionOf
<1>4. PICK after : after = [session[s] EXCEPT !.reuse_eligible = FALSE]
  OBVIOUS
<1>5. /\ after \in Session /\ after.key = session[s].key
      /\ after.daemon_exclusive = session[s].daemon_exclusive
  BY <1>3, <1>4 DEF Session
<1>6. Kin
  BY <1>1, <1>2, <1>4, <1>5, KinLocked DEF KillLock
<1> QED
  BY <1>1, <1>6, GoesSolo DEF Goes

LEMMA KillWaitSolo ==
  ASSUME NEW p \in Procs, Solo(p), KillWait(p)
  PROVE  Solo(p)'
<1>1. task[p].pc = "kill_wait" /\ MapsStay /\ JobTypes
  BY SoloParts DEF KillWait, At, MapsStay, registryVars
<1>2. PICK s \in DOMAIN session : s = task[p].s
  BY <1>1, BoundSession DEF Bound
<1>3. PICK after \in KillOutcomes(s) :
        Unlocked(s, after) /\ (StartRemoval(p, "remove", task[p].key, TRUE, "killed") \/ Done(p))
  BY <1>2 DEF KillWait
<1>4. Kin
  BY <1>1, <1>3, KinKilled
<1>5. CASE StartRemoval(p, "remove", task[p].key, TRUE, "killed")
  BY <1>1, <1>4, <1>5, StartsRemoval
<1>6. CASE Done(p)
  BY <1>1, <1>4, <1>6, DoneSolo, SettledJob DEF Settled, Taking, Claiming, Calling
<1> QED
  BY <1>3, <1>5, <1>6

LEMMA KilledSolo ==
  ASSUME NEW p \in Procs, Solo(p), Killed(p)
  PROVE  Solo(p)'
<1>1. task[p].pc = "killed" /\ MapsStay /\ Kin /\ Done(p)
  BY SoloParts DEF Killed, At, MapsStay, registryVars
<1> QED
  BY <1>1, DoneSolo, SettledJob DEF Settled, Taking, Claiming, Calling

LEMMA SubscriptionLocksSolo ==
  ASSUME NEW p \in Procs, Solo(p),
         SubscribeLock(p) \/ SubscriptionPoll(p) \/ SubscriptionStop(p)
  PROVE  Solo(p)'
<1>1. PICK s : s = task[p].s
  OBVIOUS
<1>2. PICK pc : /\ <<task[p].pc, pc>> \in Goes /\ Goto(p, pc) /\ MapsStay
                /\ Locked(s, p, session[s]) \/ Unlocked(s, session[s])
                /\ task[p].pc \in Bound
  BY <1>1 DEF SubscribeLock, SubscriptionPoll, SubscriptionStop, At, MapsStay, registryVars, Goes, Bound
<1>3. Kin
  BY <1>1, <1>2, BoundSession, SoloParts, KinTouched
<1> QED
  BY <1>2, <1>3, GoesSolo

LEMMA Recounts ==
  ASSUME NEW r \in Session, NEW n \in Nat, NEW after, after = [r EXCEPT !.subscriptions = n]
  PROVE  after \in Session /\ after.key = r.key /\ after.daemon_exclusive = r.daemon_exclusive
BY DEF Session

LEMMA SubscribeEnsureSolo ==
  ASSUME NEW p \in Procs, Solo(p), SubscribeEnsure(p)
  PROVE  Solo(p)'
<1>1. task[p].pc = "sub_ensure" /\ MapsStay /\ JobTypes
  BY SoloParts DEF SubscribeEnsure, At, MapsStay, registryVars
<1>2. PICK s \in DOMAIN session : s = task[p].s
  BY <1>1, BoundSession DEF Bound
<1>3. PICK r \in Session : r = session[s] /\ r.subscriptions \in Nat
  <2>1. session[s] \in Session
    BY <1>1, SessionOf
  <2> QED
    BY <2>1 DEF Session
<1>4. PICK n \in Nat : n = r.subscriptions + 1
  BY <1>3
<1>5. PICK after : after = [r EXCEPT !.subscriptions = n]
  OBVIOUS
<1>6. /\ Unlocked(s, after) \/ Unlocked(s, session[s])
      /\ Goto(p, "subscribed") \/ Done(p)
  BY <1>2, <1>3, <1>4, <1>5 DEF SubscribeEnsure
<1>7. Kin
  BY <1>1, <1>3, <1>5, <1>6, Recounts, KinLocked, KinTouched
<1>8. CASE Done(p)
  BY <1>1, <1>7, <1>8, DoneSolo, SettledJob DEF Settled, Taking, Claiming, Calling
<1> QED
  BY <1>1, <1>6, <1>7, <1>8, GoesSolo DEF Goes

LEMMA SubscriptionReleaseSolo ==
  ASSUME NEW p \in Procs, Solo(p), SubscriptionRelease(p)
  PROVE  Solo(p)'
<1>1. task[p].pc = "sub_release" /\ MapsStay /\ JobTypes /\ Done(p)
  BY SoloParts DEF SubscriptionRelease, At, MapsStay, registryVars
<1>2. PICK s \in DOMAIN session : s = task[p].s
  BY <1>1, BoundSession DEF Bound
<1>3. PICK r \in Session : r = session[s] /\ r.subscriptions \in Nat
  <2>1. session[s] \in Session
    BY <1>1, SessionOf
  <2> QED
    BY <2>1 DEF Session
<1>4. PICK n \in Nat : n = IF r.subscriptions = 0 THEN 0 ELSE r.subscriptions - 1
  BY <1>3
<1>5. PICK after : after = [r EXCEPT !.subscriptions = n]
  OBVIOUS
<1>6. Unlocked(s, after)
  BY <1>2, <1>3, <1>4, <1>5 DEF SubscriptionRelease
<1>7. Kin
  BY <1>1, <1>3, <1>5, <1>6, Recounts, KinLocked
<1> QED
  BY <1>1, <1>7, DoneSolo, SettledJob DEF Settled, Taking, Claiming, Calling

LEMMA SubscriptionAbortedSolo ==
  ASSUME NEW p \in Procs, Solo(p), SubscriptionAborted(p)
  PROVE  Solo(p)'
<1>1. task[p].pc \in {"subscribed", "sub_poll"} /\ MapsStay /\ JobTypes /\ Done(p)
  BY SoloParts DEF SubscriptionAborted, At, MapsStay, registryVars
<1>2. PICK s \in DOMAIN session : s = task[p].s
  BY <1>1, BoundSession DEF Bound
<1>3. Unlocked(s, session[s]) \/ UNCHANGED session
  BY <1>2 DEF SubscriptionAborted
<1>4. Kin
  BY <1>1, <1>3, KinTouched, KinSame
<1> QED
  BY <1>1, <1>4, DoneSolo, SettledJob DEF Settled, Taking, Claiming, Calling

-----------------------------------------------------------------------------
(* Steps that change the maps. *)

\* A step that changes the entries of the key k and nothing of the sessions.
OthersStay(k) ==
  /\ \A j \in Keys \ {k} : stdio'[j] = stdio[j] /\ stdio_snapshots'[j] = stdio_snapshots[j]
  /\ \A j \in Keys \ {k} : session_exclusives'[j] = session_exclusives[j]
  /\ \A j \in Keys \ {k} : Owns(j)' = Owns(j)

LEMMA OthersAgree ==
  ASSUME JobTypes, CachedUnderKey, UNCHANGED session, NEW k \in Keys, OthersStay(k), NEW j \in Keys \ {k}
  PROVE  (Agrees(j) => Agrees(j)') /\ (Shown(j) => Shown(j)')
BY DEF OthersStay, Agrees, Shown, Holds

\* map.remove.
LEMMA RemoveSessionSolo ==
  ASSUME NEW p \in Procs, Solo(p), RemoveSession(p)
  PROVE  Solo(p)'
<1>1. PICK t : t = task[p]
  OBVIOUS
<1>2. /\ JobTypes /\ CachedUnderKey /\ JobOk(t) /\ Placed(t) /\ Stored(t) /\ t \in Job /\ t.pc = "remove"
      /\ Goto(p, "clean") /\ UNCHANGED session
      /\ UNCHANGED <<stdio_snapshots, exclusive_owners, session_exclusives>>
      /\ "clean" \in JobPcs
  BY <1>1, SoloParts DEF RemoveSession, At, registryVars, JobPcs, Taking
<1>3. PICK k \in Keys : k = t.target
  BY <1>2 DEF Placed, Taking
<1>4. stdio' \in [Keys -> Nat] /\ stdio'[k] = 0 /\ \A j \in Keys \ {k} : stdio'[j] = stdio[j]
  BY <1>1, <1>2, <1>3 DEF RemoveSession, JobTypes
<1>5. OnlyJob(p)
  BY <1>2, GotoJob
<1>6. PICK u \in Job : u = task'[p] /\ u.pc = "clean" /\ u.s = t.s /\ SameRest(t, u) /\ SameTaking(t, u)
  BY <1>1, <1>2, GotoJob
<1>7. JobTypes' /\ CachedUnderKey' /\ Alone(p)'
  BY <1>2, <1>4, <1>5 DEF Solo, JobTypes, CachedUnderKey, Alone, OnlyJob
<1> USE DEF Working, Bound, Taking, Claiming, Calling, Opening, Sweeping
<1>8. Placed(u)'
  BY <1>2, <1>6 DEF Placed, SameRest, SameTaking, TakesFor, EvictsOwner
<1>9. Stored(u)'
  <2>1. u.reaped \subseteq Keys /\ u.pc = "clean" /\ u.target = k /\ u.then # "register"
    BY <1>2, <1>3, <1>6 DEF Job, SameTaking, Placed
  <2>2. \A j \in u.reaped : stdio'[j] = 0
    BY <1>2, <1>4, <1>6, <2>1 DEF Stored, SameRest
  <2> QED
    BY <1>4, <2>1, <2>2 DEF Stored, TakesFor, ClaimsKeys
<1>10. OthersStay(k)
  BY <1>2, <1>4 DEF OthersStay, Owns
<1>11. ASSUME HelpClaimsNone PROVE Registered(u)'
  <2>1. Registered(t) /\ Loose(u) = Loose(t) /\ k \in Loose(t)
    BY <1>2, <1>3, <1>6, <1>11 DEF JobOk, Loose, SameRest, SameTaking
  <2>2. \A j \in Keys \ Loose(u) : Agrees(j)'
    BY <1>2, <1>10, <2>1, OthersAgree DEF Registered
  <2>3. \A j : Owns(j)' = Owns(j)
    BY <1>2 DEF Owns
  <2>4. u.then # "register" /\ u.pc = "clean"
    BY <1>2, <1>6 DEF Placed, SameTaking
  <2> QED
    BY <1>2, <1>6, <2>1, <2>2, <2>3, <2>4 DEF Registered, SameRest, SameTaking, TakesFor, ClaimsKeys, EvictsOwner
<1>12. ASSUME AllAnswered PROVE Viewed(u)'
  <2>1. Viewed(t) /\ Unseen(u) = Unseen(t) /\ k \in Unseen(t)
    BY <1>2, <1>3, <1>6, <1>12 DEF JobOk, Placed, Unseen, SameRest, SameTaking
  <2>2. \A j \in Keys \ Unseen(u) : Shown(j)'
    BY <1>2, <1>10, <2>1, OthersAgree DEF Viewed
  <2> QED
    BY <1>6, <2>2 DEF Viewed
<1> QED
  BY <1>6, <1>7, <1>8, <1>9, <1>11, <1>12 DEF Solo, JobOk

\* What a clean-up leaves of the key k.
CleansKey(t, u, k) ==
  /\ UNCHANGED stdio /\ Kin
  /\ \A j \in Keys \ {k} : session_exclusives'[j] = session_exclusives[j] /\ Owns(j)' = Owns(j)
  /\ \A j \in Keys \ {k} : stdio_snapshots'[j] = stdio_snapshots[j]
  /\ \A x \in XKeys : exclusive_owners'[x] \in {None, exclusive_owners[x]}
  /\ HelpClaimsNone => session_exclusives'[k] = {}
  /\ \/ u.pc = "clean_owners" /\ stdio_snapshots'[k] = stdio_snapshots[k]
        /\ (HelpClaimsNone => Owns(k)' \subseteq u.taken)
     \/ u.pc = "remove_snapshot" /\ t.snapshot /\ (HelpClaimsNone => Owns(k)' = {})
     \/ u.pc = t.then /\ (HelpClaimsNone => Owns(k)' = {})
        /\ stdio_snapshots'[k] = IF t.snapshot THEN None ELSE stdio_snapshots[k]

LEMMA CleansOk ==
  ASSUME JobTypes, CachedUnderKey, NEW t \in Job, NEW u \in Job, JobOk(t), t.pc \in Taking \ {"remove"},
         u.op = t.op, u.key = t.key, u.excl = t.excl, u.bad_args = t.bad_args, u.todo = t.todo,
         u.reaped = t.reaped, u.s = t.s, SameTaking(t, u),
         NEW k \in Keys, k = t.target, CleansKey(t, u, k)
  PROVE  JobOk(u)'
<1> USE DEF Working, Bound, Taking, Claiming, Calling, Opening, Sweeping
<1>1. /\ Placed(t) /\ Stored(t) /\ DOMAIN session' = DOMAIN session /\ UNCHANGED stdio
      /\ u.excl \subseteq XKeys /\ u.reaped \subseteq Keys /\ k \notin t.reaped
      /\ u.pc \in {"clean_owners", "remove_snapshot"} \/ u.pc = t.then
  BY DEF JobOk, CleansKey, Kin, Job, Placed
<1>2. t.then \in {"evict_next", "register", "reuse_gone", "killed", "sweep_clean"}
  BY <1>1 DEF Placed
<1>3. (u.pc = "remove_snapshot" => t.snapshot) /\ t.then = u.then
  BY <1>1, <1>2 DEF CleansKey, SameTaking
<1>4. Placed(u)'
  BY <1>1, <1>2, <1>3 DEF Placed, SameTaking, TakesFor, EvictsOwner
<1>5. Stored(u)'
  BY <1>1, <1>2, <1>3 DEF Placed, Stored, SameTaking, TakesFor, ClaimsKeys
<1>6. ASSUME HelpClaimsNone PROVE Registered(u)'
  <2>1. Registered(t) /\ Loose(t) = {k} \cup t.reaped
    BY <1>6 DEF JobOk, Loose
  <2>2. \A j \in Keys \ {k} : Agrees(j) => Agrees(j)'
    BY <1>6, CalmHolds DEF CleansKey, Agrees
  <2>3. \A j \in Keys \ ({k} \cup t.reaped) : Agrees(j)'
    BY <2>1, <2>2 DEF Registered
  <2>4. \A j \in t.reaped : session_exclusives'[j] = Owns(j)'
    BY <1>1, <2>1 DEF Registered, CleansKey
  <2>5. session_exclusives'[k] = {} /\ Holds(k)' = Holds(k)
    BY <1>6, CalmHolds DEF CleansKey
  <2>6. CASE u.pc \in {"clean_owners", "remove_snapshot"}
    <3>1. Loose(u) = {k} \cup t.reaped /\ u.target = k
      BY <2>6 DEF Loose, SameTaking
    <3>2. /\ u.pc = "clean_owners" => Owns(k)' \subseteq u.taken
          /\ u.pc = "remove_snapshot" => Owns(k)' = {}
      BY <1>2, <1>6, <2>6 DEF CleansKey
    <3>3. ClaimsKeys(u) => Holds(u.key)' = u.excl
      BY <1>1, <1>3, <2>1, <2>5, <2>6 DEF Registered, ClaimsKeys, TakesFor, Placed
    <3>4. \A x \in u.excl : exclusive_owners'[x] \in {None, exclusive_owners[x]}
      BY <1>1 DEF CleansKey
    <3>5. TakesFor(u, "register") \/ TakesFor(u, "reuse_gone") =>
            \A x \in u.excl : exclusive_owners'[x] \in {None, u.key}
      BY <1>3, <2>1, <3>4 DEF Registered, TakesFor
    <3>6. EvictsOwner(u) =>
            \A x \in u.excl : exclusive_owners'[x] \in {None, u.key} \cup u.todo \/ exclusive_owners'[x] = u.target
      BY <1>3, <2>1, <2>6, <3>4 DEF Registered, TakesFor, EvictsOwner, SameTaking
    <3> QED
      BY <2>3, <2>4, <2>5, <2>6, <3>1, <3>2, <3>3, <3>5, <3>6 DEF Registered
  <2>7. CASE u.pc = t.then
    <3>1. Owns(k)' = {}
      BY <1>2, <1>6, <2>7 DEF CleansKey
    <3>2. \A x \in u.excl : exclusive_owners'[x] # k /\ exclusive_owners'[x] \in {None, exclusive_owners[x]}
      BY <1>1, <3>1 DEF CleansKey, Owns
    <3>3. CASE t.then = "register"
      <4>1. u.key = k /\ Holds(k) = u.excl /\ Loose(u) = {k} /\ t.reaped = {}
        BY <1>1, <2>1, <2>7, <3>3 DEF Registered, ClaimsKeys, TakesFor, Placed, Loose
      <4>2. \A x \in u.excl : exclusive_owners'[x] \in {None, u.key}
        BY <2>1, <3>2, <3>3 DEF Registered, TakesFor
      <4> QED
        BY <2>3, <2>5, <2>7, <3>1, <3>3, <4>1, <4>2 DEF Registered, TakesFor, ClaimsKeys, EvictsOwner
    <3>4. CASE t.then # "register"
      <4>1. Agrees(k)'
        BY <1>1, <2>5, <3>1, <3>4 DEF Stored, Agrees, Holds
      <4>2. u.pc # "sweep_clean" => t.reaped = {}
        BY <1>1, <1>2, <2>7, <3>4 DEF Placed, TakesFor
      <4>3. \A j \in Keys \ Loose(u) : Agrees(j)'
        BY <1>2, <2>3, <2>7, <3>4, <4>1, <4>2 DEF Loose
      <4>4. u.pc = "reuse_gone" => \A x \in u.excl : exclusive_owners'[x] \in {None, u.key}
        BY <2>1, <2>7, <3>2 DEF Registered, TakesFor
      <4>5. u.pc = "evict_next" => \A x \in u.excl : exclusive_owners'[x] \in {None, u.key} \cup u.todo
        BY <2>1, <2>7, <3>2 DEF Registered, TakesFor, EvictsOwner
      <4> QED
        BY <1>2, <2>4, <2>7, <3>4, <4>3, <4>4, <4>5 DEF Registered, TakesFor, ClaimsKeys, EvictsOwner
    <3> QED
      BY <3>3, <3>4
  <2> QED
    BY <1>1, <2>6, <2>7
<1>7. ASSUME AllAnswered PROVE Viewed(u)'
  <2>1. \A j \in Keys \ {k} : Shown(j) => Shown(j)'
    BY DEF CleansKey, Shown
  <2>2. \A j \in Keys \ Unseen(t) : Shown(j)
    BY <1>7 DEF JobOk, Viewed
  <2>3. Unseen(t) = (IF t.snapshot THEN {k} ELSE {}) \cup t.reaped
    BY DEF Unseen
  <2>4. CASE u.pc \in {"clean_owners", "remove_snapshot"}
    <3>1. Unseen(u) = Unseen(t)
      BY <2>3, <2>4 DEF Unseen, SameTaking
    <3>2. ~t.snapshot => u.pc = "clean_owners" /\ stdio_snapshots'[k] = stdio_snapshots[k]
      BY <1>2, <2>4 DEF CleansKey
    <3>3. \A j \in Keys \ Unseen(u) : Shown(j)'
      BY <2>1, <2>2, <2>3, <3>1, <3>2 DEF Shown, CleansKey
    <3> QED
      BY <2>4, <3>3 DEF Viewed
  <2>5. CASE u.pc = t.then
    <3>1. stdio_snapshots'[k] = IF t.snapshot THEN None ELSE stdio_snapshots[k]
      BY <1>2, <2>5 DEF CleansKey
    <3>2. Shown(k)'
      <4>1. CASE t.snapshot
        BY <1>1, <3>1, <4>1 DEF Shown, Placed, Stored
      <4>2. CASE ~t.snapshot
        BY <1>1, <2>2, <2>3, <3>1, <4>2 DEF Shown
      <4> QED
        BY <4>1, <4>2
    <3>3. \A j \in Keys \ t.reaped : Shown(j)'
      BY <2>1, <2>2, <2>3, <3>2
    <3>4. t.then # "sweep_clean" => t.reaped = {}
      BY <1>1 DEF Placed, TakesFor
    <3>5. \A j \in Keys \ Unseen(u) : Shown(j)'
      BY <1>2, <2>5, <3>3, <3>4 DEF Unseen
    <3> QED
      BY <1>2, <2>5, <3>5 DEF Viewed
  <2> QED
    BY <1>1, <2>4, <2>5
<1> QED
  BY <1>4, <1>5, <1>6, <1>7 DEF JobOk

\* The whole state after a clean-up.
LEMMA CleansSolo ==
  ASSUME NEW p \in Procs, Solo(p), NEW t, t = task[p], NEW u \in Job, task' = [task EXCEPT ![p] = u],
         t.pc \in Taking \ {"remove"},
         u.op = t.op, u.key = t.key, u.excl = t.excl, u.bad_args = t.bad_args, u.todo = t.todo,
         u.reaped = t.reaped, u.s = t.s, SameTaking(t, u),
         NEW k \in Keys, k = t.target, CleansKey(t, u, k),
         stdio_snapshots' \in [Keys -> Nat \cup {None}],
         exclusive_owners' \in [XKeys -> Keys \cup {None}],
         session_exclusives' \in [Keys -> SUBSET XKeys]
  PROVE  Solo(p)'
<1>1. JobTypes /\ CachedUnderKey /\ JobOk(t) /\ t \in Job
  BY SoloParts
<1>2. OnlyJob(p) /\ task'[p] = u
  BY <1>1, NewJob
<1>3. JobTypes'
  BY <1>1, <1>2 DEF CleansKey, Kin, JobTypes, OnlyJob
<1>5. CachedUnderKey'
  BY <1>1 DEF CleansKey, Kin, CachedUnderKey
<1>6. Alone(p)'
  BY <1>2 DEF Solo, Alone, OnlyJob
<1>4. JobOk(u)'
  BY <1>1, CleansOk
<1> QED
  BY <1>2, <1>3, <1>4, <1>5, <1>6 DEF Solo

LEMMA AfterCleanupPc ==
  ASSUME NEW p \in Procs, Solo(p), task[p].pc \in Taking
  PROVE  AfterCleanup(p) \in JobPcs
BY SoloParts DEF AfterCleanup, Job, JobPcs, Taking

LEMMA CleanupTakeSolo ==
  ASSUME NEW p \in Procs, Solo(p), CleanupTake(p)
  PROVE  Solo(p)'
<1>1. PICK t : t = task[p]
  OBVIOUS
<1>2. /\ JobTypes /\ JobOk(t) /\ Placed(t) /\ t \in Job /\ t.pc = "clean" /\ t.pc \in Taking /\ Kin
      /\ UNCHANGED <<stdio, stdio_snapshots, exclusive_owners>>
  BY <1>1, SoloParts DEF CleanupTake, At, Taking
<1>3. PICK k \in Keys : k = t.target
  BY <1>2 DEF Placed
<1>4. PICK xs \in SUBSET XKeys : xs = session_exclusives[k]
  BY <1>2, <1>3 DEF JobTypes
<1>5. PICK pc \in JobPcs : pc = IF xs # {} THEN "clean_owners" ELSE AfterCleanup(p)
  BY <1>1, <1>2, AfterCleanupPc DEF JobPcs, Taking
<1> DEFINE u == [t EXCEPT !.taken = xs, !.pc = pc]
<1>6. /\ u \in Job /\ u.op = t.op /\ u.key = t.key /\ u.excl = t.excl /\ u.bad_args = t.bad_args
      /\ u.todo = t.todo /\ u.reaped = t.reaped /\ u.s = t.s /\ SameTaking(t, u)
      /\ u.pc = pc /\ u.taken = xs
  BY <1>2 DEF Job, SameTaking
<1>7. task' = [task EXCEPT ![p] = u]
  BY <1>1, <1>2, <1>3, <1>4, <1>5 DEF CleanupTake, JobTypes, Job
<1> HIDE DEF u
<1>8. /\ session_exclusives' \in [Keys -> SUBSET XKeys] /\ session_exclusives'[k] = {}
      /\ \A j \in Keys \ {k} : session_exclusives'[j] = session_exclusives[j]
  <2>1. {} \in SUBSET XKeys
    OBVIOUS
  <2> QED
    BY <1>1, <1>2, <1>3, <2>1 DEF CleanupTake, JobTypes
<1>9. HelpClaimsNone => Owns(k) \subseteq xs
  BY <1>2, <1>3, <1>4 DEF JobOk, Registered
<1>10. \A j : Owns(j)' = Owns(j)
  BY <1>2 DEF Owns
<1>11. CleansKey(t, u, k)
  <2>1. CASE xs # {}
    BY <1>2, <1>5, <1>6, <1>8, <1>9, <1>10, <2>1 DEF CleansKey
  <2>2. CASE xs = {}
    <3>1. HelpClaimsNone => Owns(k)' = {}
      BY <1>9, <1>10, <2>2
    <3>2. u.pc = IF t.snapshot THEN "remove_snapshot" ELSE t.then
      BY <1>1, <1>5, <1>6, <2>2 DEF AfterCleanup
    <3> QED
      BY <1>2, <1>8, <1>10, <3>1, <3>2 DEF CleansKey
  <2> QED
    BY <2>1, <2>2
<1>12. t.pc \in Taking \ {"remove"}
  BY <1>2
<1>13. /\ stdio_snapshots' \in [Keys -> Nat \cup {None}]
       /\ exclusive_owners' \in [XKeys -> Keys \cup {None}]
  BY <1>2 DEF JobTypes
<1> QED
  BY <1>1, <1>3, <1>6, <1>7, <1>8, <1>11, <1>12, <1>13, CleansSolo

LEMMA CleanupOwnersSolo ==
  ASSUME NEW p \in Procs, Solo(p), CleanupOwners(p)
  PROVE  Solo(p)'
<1>1. PICK t : t = task[p]
  OBVIOUS
<1>2. /\ JobTypes /\ JobOk(t) /\ Placed(t) /\ t \in Job /\ t.pc = "clean_owners" /\ t.pc \in Taking /\ Kin
      /\ UNCHANGED <<stdio, stdio_snapshots, session_exclusives>>
  BY <1>1, SoloParts DEF CleanupOwners, At, Taking
<1>3. PICK k \in Keys : k = t.target
  BY <1>2 DEF Placed
<1>4. PICK xs \in SUBSET XKeys : xs = {}
  OBVIOUS
<1>5. PICK pc \in JobPcs : pc = AfterCleanup(p)
  BY <1>1, <1>2, AfterCleanupPc
<1> DEFINE u == [t EXCEPT !.taken = xs, !.pc = pc]
<1>6. /\ u \in Job /\ u.op = t.op /\ u.key = t.key /\ u.excl = t.excl /\ u.bad_args = t.bad_args
      /\ u.todo = t.todo /\ u.reaped = t.reaped /\ u.s = t.s /\ SameTaking(t, u)
      /\ u.pc = pc
  BY <1>2 DEF Job, SameTaking
<1>7. task' = [task EXCEPT ![p] = u]
  BY <1>1, <1>2, <1>4, <1>5 DEF CleanupOwners, JobTypes, Job
<1> HIDE DEF u
<1>8. exclusive_owners' = [x \in XKeys |-> IF x \in t.taken /\ exclusive_owners[x] = k
                                           THEN None ELSE exclusive_owners[x]]
  BY <1>1, <1>3 DEF CleanupOwners
<1>9. /\ exclusive_owners' \in [XKeys -> Keys \cup {None}]
      /\ \A x \in XKeys : exclusive_owners'[x] \in {None, exclusive_owners[x]}
  BY <1>2, <1>8 DEF JobTypes
<1>10. \A j \in Keys \ {k} : Owns(j)' = Owns(j)
  <2>1. TAKE j \in Keys \ {k}
  <2>2. j # None
    BY SessionsAssumption
  <2> QED
    BY <1>8, <2>2 DEF Owns
<1>11. HelpClaimsNone => Owns(k)' = {}
  <2>1. HAVE HelpClaimsNone
  <2>2. Owns(k) \subseteq t.taken /\ k # None
    BY <1>2, <1>3, <2>1, SessionsAssumption DEF JobOk, Registered
  <2> QED
    BY <1>8, <2>2 DEF Owns
<1>12. u.pc = IF t.snapshot THEN "remove_snapshot" ELSE t.then
  BY <1>1, <1>5, <1>6 DEF AfterCleanup
<1>13. HelpClaimsNone => session_exclusives'[k] = {}
  BY <1>2, <1>3 DEF JobOk, Registered
<1>14. CleansKey(t, u, k)
  BY <1>2, <1>9, <1>10, <1>11, <1>12, <1>13 DEF CleansKey
<1>15. t.pc \in Taking \ {"remove"}
  BY <1>2
<1>16. /\ stdio_snapshots' \in [Keys -> Nat \cup {None}]
       /\ session_exclusives' \in [Keys -> SUBSET XKeys]
  BY <1>2 DEF JobTypes
<1> QED
  BY <1>1, <1>3, <1>6, <1>7, <1>9, <1>14, <1>15, <1>16, CleansSolo

LEMMA RemoveSnapshotSolo ==
  ASSUME NEW p \in Procs, Solo(p), RemoveSnapshot(p)
  PROVE  Solo(p)'
<1>1. PICK t : t = task[p]
  OBVIOUS
<1>2. /\ JobTypes /\ JobOk(t) /\ Placed(t) /\ t \in Job /\ t.pc = "remove_snapshot" /\ t.pc \in Taking
      /\ UNCHANGED <<stdio, exclusive_owners, session_exclusives>> /\ t.snapshot
  BY <1>1, SoloParts DEF RemoveSnapshot, At, Taking, Placed, registryVars
<1>3. PICK k \in Keys : k = t.target
  BY <1>2 DEF Placed
<1>4. PICK pc \in JobPcs : pc = t.then
  BY <1>2 DEF Job
<1> DEFINE u == [t EXCEPT !.pc = pc]
<1>5. /\ u \in Job /\ u.op = t.op /\ u.key = t.key /\ u.excl = t.excl /\ u.bad_args = t.bad_args
      /\ u.todo = t.todo /\ u.reaped = t.reaped /\ u.s = t.s /\ SameTaking(t, u)
      /\ u.pc = pc
  BY <1>2 DEF Job, SameTaking
<1>6. task' = [task EXCEPT ![p] = u]
  BY <1>1, <1>4 DEF RemoveSnapshot, Goto
<1> HIDE DEF u
<1>7. Kin
  <2>1. \A s \in DOMAIN session : session[s] \in Session
    BY <1>2, SessionOf
  <2>2. \A s \in DOMAIN session : [session[s] EXCEPT !.lock = None] \in Session
    BY <2>1 DEF Session
  <2>3. session' = [s \in DOMAIN session |->
                   IF session[s].lock = p THEN [session[s] EXCEPT !.lock = None] ELSE session[s]]
    BY DEF RemoveSnapshot
  <2>4. DOMAIN session = 1..Len(session) /\ Len(session) \in Nat
    BY <1>2 DEF JobTypes
  <2>5. DOMAIN session' = 1..Len(session) /\ \A s \in 1..Len(session) : session'[s] \in Session
    BY <2>1, <2>2, <2>3, <2>4
  <2>6. session' \in [1..Len(session) -> Session]
    BY <2>1, <2>2, <2>3, <2>4
  <2>7. session' \in Seq(Session)
    BY <2>4, <2>6, SeqDef
  <2>8. \A s \in DOMAIN session : /\ session'[s].key = session[s].key
                                  /\ session'[s].daemon_exclusive = session[s].daemon_exclusive
    BY <2>1, <2>3 DEF Session
  <2> QED
    BY <2>3, <2>7, <2>8 DEF Kin
<1>8. /\ stdio_snapshots' \in [Keys -> Nat \cup {None}] /\ stdio_snapshots'[k] = None
      /\ \A j \in Keys \ {k} : stdio_snapshots'[j] = stdio_snapshots[j]
  BY <1>1, <1>2, <1>3 DEF RemoveSnapshot, JobTypes
<1>9. \A j : Owns(j)' = Owns(j)
  BY <1>2 DEF Owns
<1>10. HelpClaimsNone => session_exclusives'[k] = {} /\ Owns(k)' = {}
  BY <1>2, <1>3, <1>9 DEF JobOk, Registered
<1>11. CleansKey(t, u, k)
  BY <1>2, <1>4, <1>5, <1>7, <1>8, <1>9, <1>10 DEF CleansKey
<1>12. t.pc \in Taking \ {"remove"}
  BY <1>2
<1>13. /\ exclusive_owners' \in [XKeys -> Keys \cup {None}]
       /\ session_exclusives' \in [Keys -> SUBSET XKeys]
  BY <1>2 DEF JobTypes
<1> QED
  BY <1>1, <1>3, <1>5, <1>6, <1>8, <1>11, <1>12, <1>13, CleansSolo

-----------------------------------------------------------------------------
(* A session is opened and handed out. *)

LEMMA InsertSessionSolo ==
  ASSUME NEW p \in Procs, Solo(p), InsertSession(p)
  PROVE  Solo(p)'
<1>1. PICK t : t = task[p]
  OBVIOUS
<1>2. /\ JobTypes /\ CachedUnderKey /\ JobOk(t) /\ Placed(t) /\ Stored(t) /\ t \in Job /\ t.pc = "insert"
      /\ UNCHANGED <<stdio_snapshots, exclusive_owners, session_exclusives, session>>
      /\ Goto(p, "insert_snapshot") /\ "insert_snapshot" \in JobPcs
  BY <1>1, SoloParts DEF InsertSession, At, registryVars, JobPcs, Working, Opening, Claiming
<1>3. PICK k \in Keys : k = t.key
  BY <1>2 DEF Placed, Working, Opening
<1>4. t.s \in DOMAIN session /\ session[t.s].key = k /\ stdio[k] = 0 /\ t.s \in Nat /\ t.s # 0
  BY <1>2, <1>3 DEF Placed, Stored, Bound, JobTypes
<1>5. stdio' \in [Keys -> Nat] /\ stdio'[k] = t.s /\ \A j \in Keys \ {k} : stdio'[j] = stdio[j]
  BY <1>1, <1>2, <1>3, <1>4 DEF InsertSession, JobTypes
<1>6. OnlyJob(p)
  BY <1>2, GotoJob
<1>7. PICK u \in Job : u = task'[p] /\ u.pc = "insert_snapshot" /\ u.s = t.s /\ SameRest(t, u)
  BY <1>1, <1>2, GotoJob
<1>8. JobTypes'
  BY <1>2, <1>5, <1>6 DEF JobTypes, OnlyJob
<1>9. CachedUnderKey'
  BY <1>2, <1>4, <1>5 DEF CachedUnderKey
<1>10. Alone(p)'
  BY <1>6 DEF Solo, Alone, OnlyJob
<1> USE DEF Working, Bound, Taking, Claiming, Calling, Opening, Sweeping
<1>11. Placed(u)'
  BY <1>2, <1>7 DEF Placed, SameRest, TakesFor, EvictsOwner
<1>12. Stored(u)'
  BY <1>3, <1>4, <1>5, <1>7 DEF Stored, SameRest, TakesFor, ClaimsKeys
<1>13. OthersStay(k)
  BY <1>2, <1>5 DEF OthersStay, Owns
<1>14. ASSUME HelpClaimsNone PROVE Registered(u)'
  <2>1. Registered(t) /\ Loose(t) = {} /\ Loose(u) = {k}
    BY <1>2, <1>3, <1>7, <1>14 DEF JobOk, Loose, SameRest
  <2>2. \A j \in Keys \ Loose(u) : Agrees(j)'
    BY <1>2, <1>13, <2>1, OthersAgree DEF Registered
  <2>3. session_exclusives[k] = {} /\ Owns(k) = {}
    BY <1>4, <2>1 DEF Registered, Agrees, Holds
  <2>4. session_exclusives'[k] = {} /\ Owns(k)' = {}
    BY <1>2, <2>3 DEF Owns
  <2>5. Holds(k)' = t.excl
    BY <1>2, <1>4, <1>5, <2>1 DEF Holds, Registered
  <2>6. \A x \in u.excl : exclusive_owners'[x] \in {None, u.key}
    BY <1>2, <1>7, <2>1 DEF Registered, SameRest
  <2> QED
    BY <1>3, <1>7, <2>2, <2>4, <2>5, <2>6 DEF Registered, SameRest, TakesFor, ClaimsKeys, EvictsOwner
<1>15. ASSUME AllAnswered PROVE Viewed(u)'
  <2>1. Viewed(t) /\ Unseen(t) = {} /\ Unseen(u) = {k}
    BY <1>2, <1>3, <1>7, <1>15 DEF JobOk, Unseen, SameRest
  <2>2. \A j \in Keys \ Unseen(u) : Shown(j)'
    BY <1>2, <1>13, <2>1, OthersAgree DEF Viewed
  <2> QED
    BY <1>7, <2>2 DEF Viewed
<1> QED
  BY <1>7, <1>8, <1>9, <1>10, <1>11, <1>12, <1>14, <1>15 DEF Solo, JobOk

LEMMA InsertSnapshotSolo ==
  ASSUME NEW p \in Procs, Solo(p), InsertSnapshot(p)
  PROVE  Solo(p)'
<1>1. PICK t : t = task[p]
  OBVIOUS
<1>2. /\ JobTypes /\ CachedUnderKey /\ JobOk(t) /\ Placed(t) /\ Stored(t) /\ t \in Job
      /\ t.pc = "insert_snapshot" /\ t.excl \subseteq XKeys
      /\ UNCHANGED <<stdio, exclusive_owners, session_exclusives, session>>
  BY <1>1, SoloParts DEF InsertSnapshot, At, registryVars, Job
<1>3. PICK k \in Keys : k = t.key
  BY <1>2 DEF Placed, Working, Opening, Claiming
<1>16. PICK no \in BOOLEAN : no = FALSE
  OBVIOUS
<1>4. PICK pc \in JobPcs : pc = IF t.excl = {} THEN "hand_out" ELSE "clean"
  BY DEF JobPcs, Working, Taking
<1>5. PICK then \in JobPcs : then = "register"
  BY DEF JobPcs, Working, Opening, Claiming
<1>6. StartRemoval(p, pc, k, no, then)
  BY <1>1, <1>3, <1>4, <1>5, <1>16 DEF InsertSnapshot
<1>7. OnlyJob(p)
  BY <1>2, <1>6, RemovalJob
<1>8. PICK u \in Job : /\ u = task'[p] /\ u.pc = pc /\ u.s = t.s /\ SameRest(t, u)
                       /\ u.target = k /\ u.snapshot = no /\ u.then = then
  BY <1>1, <1>2, <1>6, RemovalJob
<1>9. /\ stdio_snapshots' \in [Keys -> Nat \cup {None}] /\ stdio_snapshots'[k] = 0
      /\ \A j \in Keys \ {k} : stdio_snapshots'[j] = stdio_snapshots[j]
  BY <1>1, <1>2, <1>3 DEF InsertSnapshot, JobTypes
<1>10. JobTypes'
  BY <1>2, <1>7, <1>9 DEF JobTypes, OnlyJob
<1>11. CachedUnderKey'
  BY <1>2 DEF CachedUnderKey
<1>12. Alone(p)'
  BY <1>7 DEF Solo, Alone, OnlyJob
<1> USE DEF Working, Bound, Taking, Claiming, Calling, Opening, Sweeping
<1>17. t.reaped = {} /\ u.pc = (IF t.excl = {} THEN "hand_out" ELSE "clean") /\ u.then = "register" /\ ~u.snapshot
  BY <1>2, <1>4, <1>5, <1>8, <1>16 DEF Placed, TakesFor
<1>13. Placed(u)'
  BY <1>2, <1>3, <1>8, <1>17 DEF Placed, SameRest, TakesFor, EvictsOwner
<1>14. Stored(u)'
  BY <1>2, <1>3, <1>8, <1>17 DEF Stored, SameRest, TakesFor, ClaimsKeys
<1>15. ASSUME HelpClaimsNone PROVE Registered(u)'
  <2>1. Registered(t) /\ Loose(t) = {k}
    BY <1>2, <1>3, <1>15 DEF JobOk, Loose
  <2>2. \A j \in Keys : (Agrees(j) => Agrees(j)') /\ Owns(j)' = Owns(j) /\ Holds(j)' = Holds(j)
    BY <1>2 DEF Agrees, Owns, Holds
  <2>3. Owns(k)' = {} /\ session_exclusives'[k] = {} /\ Holds(k)' = t.excl
    BY <1>2, <1>3, <2>1, <2>2 DEF Registered, ClaimsKeys
  <2>4. \A x \in u.excl : exclusive_owners'[x] \in {None, u.key}
    BY <1>2, <1>8, <2>1 DEF Registered, SameRest
  <2>5. CASE t.excl = {}
    <3>1. Agrees(k)' /\ Loose(u) = {}
      BY <1>17, <2>3, <2>5 DEF Agrees, Loose
    <3>2. \A j \in Keys : Agrees(j)'
      BY <2>1, <2>2, <3>1 DEF Registered
    <3> QED
      BY <1>17, <2>5, <3>2 DEF Registered, TakesFor, ClaimsKeys, EvictsOwner
  <2>6. CASE t.excl # {}
    <3>1. Loose(u) = {k} /\ u.pc = "clean" /\ u.key = k /\ u.reaped = {}
      BY <1>3, <1>8, <1>17, <2>6 DEF Loose, SameRest
    <3>2. \A j \in Keys \ Loose(u) : Agrees(j)'
      BY <2>1, <2>2, <3>1 DEF Registered
    <3> QED
      BY <1>8, <1>17, <2>3, <2>4, <3>1, <3>2 DEF Registered, SameRest, TakesFor, ClaimsKeys, EvictsOwner
  <2> QED
    BY <2>5, <2>6
<1>18. ASSUME AllAnswered PROVE Viewed(u)'
  <2>1. Viewed(t) /\ Unseen(t) = {k} /\ Unseen(u) = {}
    BY <1>2, <1>3, <1>8, <1>17, <1>18 DEF JobOk, Unseen, SameRest
  <2>2. Shown(k)'
    BY <1>2, <1>3, <1>9 DEF Shown, Stored, ClaimsKeys
  <2>3. \A j \in Keys : Shown(j)'
    BY <1>2, <1>9, <2>1, <2>2 DEF Viewed, Shown
  <2> QED
    BY <1>17, <2>3 DEF Viewed
<1> QED
  BY <1>8, <1>10, <1>11, <1>12, <1>13, <1>14, <1>15, <1>18 DEF Solo, JobOk

LEMMA RegisterSessionSolo ==
  ASSUME NEW p \in Procs, Solo(p), RegisterSession(p)
  PROVE  Solo(p)'
<1>1. PICK t : t = task[p]
  OBVIOUS
<1>2. /\ JobTypes /\ CachedUnderKey /\ JobOk(t) /\ Placed(t) /\ Stored(t) /\ t \in Job /\ t.pc = "register"
      /\ UNCHANGED <<stdio, stdio_snapshots, exclusive_owners, session>>
      /\ Goto(p, "register_owners") /\ "register_owners" \in JobPcs /\ t.excl \subseteq XKeys
  BY <1>1, SoloParts DEF RegisterSession, At, JobPcs, Working, Opening, Claiming, Job
<1>3. PICK k \in Keys : k = t.key
  BY <1>2 DEF Placed, Working, Opening, Claiming
<1>5. /\ session_exclusives' \in [Keys -> SUBSET XKeys] /\ session_exclusives'[k] = t.excl
      /\ \A j \in Keys \ {k} : session_exclusives'[j] = session_exclusives[j]
  BY <1>1, <1>2, <1>3 DEF RegisterSession, JobTypes
<1>6. OnlyJob(p)
  BY <1>2, GotoJob
<1>7. PICK u \in Job : u = task'[p] /\ u.pc = "register_owners" /\ u.s = t.s /\ SameRest(t, u)
  BY <1>1, <1>2, GotoJob
<1>8. JobTypes'
  BY <1>2, <1>5, <1>6 DEF JobTypes, OnlyJob
<1>9. CachedUnderKey'
  BY <1>2 DEF CachedUnderKey
<1>10. Alone(p)'
  BY <1>6 DEF Solo, Alone, OnlyJob
<1> USE DEF Working, Bound, Taking, Claiming, Calling, Opening, Sweeping
<1>11. Placed(u)'
  BY <1>2, <1>7 DEF Placed, SameRest, TakesFor, EvictsOwner
<1>12. Stored(u)'
  BY <1>2, <1>7 DEF Stored, SameRest, TakesFor, ClaimsKeys
<1>13. OthersStay(k)
  BY <1>2, <1>5 DEF OthersStay, Owns
<1>14. ASSUME HelpClaimsNone PROVE Registered(u)'
  <2>1. Registered(t) /\ Loose(t) = {k} /\ Loose(u) = {k}
    BY <1>2, <1>3, <1>7, <1>14 DEF JobOk, Loose, SameRest
  <2>2. \A j \in Keys \ Loose(u) : Agrees(j)'
    BY <1>2, <1>13, <2>1, OthersAgree DEF Registered
  <2>4. Owns(k)' = {}
    BY <1>2, <1>3, <2>1 DEF Owns, Registered
  <2>5. Holds(k)' = t.excl
    BY <1>2, <1>3, <2>1 DEF Holds, Registered, ClaimsKeys
  <2>6. \A x \in u.excl : exclusive_owners'[x] \in {None, u.key}
    BY <1>2, <1>7, <2>1 DEF Registered, SameRest
  <2> QED
    BY <1>3, <1>5, <1>7, <2>2, <2>4, <2>5, <2>6 DEF Registered, SameRest, TakesFor, ClaimsKeys, EvictsOwner
<1>15. ASSUME AllAnswered PROVE Viewed(u)'
  <2>1. Viewed(t) /\ Unseen(t) = {} /\ Unseen(u) = {}
    BY <1>2, <1>3, <1>7, <1>15 DEF JobOk, Unseen, SameRest
  <2>2. \A j \in Keys \ Unseen(u) : Shown(j)'
    BY <1>2, <2>1 DEF Viewed, Shown
  <2> QED
    BY <1>7, <2>2 DEF Viewed
<1> QED
  BY <1>7, <1>8, <1>9, <1>10, <1>11, <1>12, <1>14, <1>15 DEF Solo, JobOk

LEMMA RegisterOwnersSolo ==
  ASSUME NEW p \in Procs, Solo(p), RegisterOwners(p)
  PROVE  Solo(p)'
<1>1. PICK t : t = task[p]
  OBVIOUS
<1>2. /\ JobTypes /\ CachedUnderKey /\ JobOk(t) /\ Placed(t) /\ Stored(t) /\ t \in Job /\ t.pc = "register_owners"
      /\ UNCHANGED <<stdio, stdio_snapshots, session_exclusives, session>>
      /\ Goto(p, "hand_out") /\ "hand_out" \in JobPcs /\ t.excl \subseteq XKeys
  BY <1>1, SoloParts DEF RegisterOwners, At, JobPcs, Working, Job
<1>3. PICK k \in Keys : k = t.key
  BY <1>2 DEF Placed, Working, Opening, Claiming
<1>4. exclusive_owners' = [x \in XKeys |-> IF x \in t.excl THEN k ELSE exclusive_owners[x]]
  BY <1>1, <1>3 DEF RegisterOwners
<1>5. exclusive_owners' \in [XKeys -> Keys \cup {None}]
  BY <1>2, <1>3, <1>4 DEF JobTypes
<1>6. OnlyJob(p)
  BY <1>2, GotoJob
<1>7. PICK u \in Job : u = task'[p] /\ u.pc = "hand_out" /\ u.s = t.s /\ SameRest(t, u)
  BY <1>1, <1>2, GotoJob
<1>8. JobTypes'
  BY <1>2, <1>5, <1>6 DEF JobTypes, OnlyJob
<1>9. CachedUnderKey'
  BY <1>2 DEF CachedUnderKey
<1>10. Alone(p)'
  BY <1>6 DEF Solo, Alone, OnlyJob
<1> USE DEF Working, Bound, Taking, Claiming, Calling, Opening, Sweeping
<1>11. Placed(u)'
  BY <1>2, <1>7 DEF Placed, SameRest, TakesFor, EvictsOwner
<1>12. Stored(u)'
  BY <1>2, <1>7 DEF Stored, SameRest, TakesFor, ClaimsKeys
<1>14. ASSUME HelpClaimsNone PROVE Registered(u)'
  <2>1. Registered(t) /\ Loose(t) = {k} /\ Loose(u) = {}
    BY <1>2, <1>3, <1>7, <1>14 DEF JobOk, Loose, SameRest
  <2>2. /\ Owns(k) = {} /\ Holds(k) = t.excl /\ session_exclusives[k] = t.excl
        /\ \A x \in t.excl : exclusive_owners[x] \in {None, k}
    BY <1>2, <1>3, <2>1 DEF Registered, ClaimsKeys
  <2>3. Owns(k)' = t.excl
    BY <1>2, <1>4, <2>2 DEF Owns
  <2>4. \A j \in Keys \ {k} : Owns(j)' = Owns(j)
    <3>1. TAKE j \in Keys \ {k}
    <3>2. j # None
      BY SessionsAssumption
    <3> QED
      BY <1>2, <1>4, <2>2, <3>2 DEF Owns
  <2>5. OthersStay(k)
    BY <1>2, <2>4 DEF OthersStay
  <2>6. Agrees(k)'
    BY <1>2, <2>2, <2>3 DEF Agrees, Holds
  <2>7. \A j \in Keys : Agrees(j)'
    BY <1>2, <2>1, <2>5, <2>6, OthersAgree DEF Registered
  <2> QED
    BY <1>7, <2>7 DEF Registered, TakesFor, ClaimsKeys, EvictsOwner
<1>15. ASSUME AllAnswered PROVE Viewed(u)'
  <2>1. Viewed(t) /\ Unseen(t) = {} /\ Unseen(u) = {}
    BY <1>2, <1>3, <1>7, <1>15 DEF JobOk, Unseen, SameRest
  <2>2. \A j \in Keys \ Unseen(u) : Shown(j)'
    BY <1>2, <2>1 DEF Viewed, Shown
  <2> QED
    BY <1>7, <2>2 DEF Viewed
<1> QED
  BY <1>7, <1>8, <1>9, <1>10, <1>11, <1>12, <1>14, <1>15 DEF Solo, JobOk

\* A step that changes no map but that of the views.
LEMMA ViewJob ==
  ASSUME NEW p \in Procs, Solo(p), UNCHANGED <<stdio, exclusive_owners, session_exclusives, session>>,
         stdio_snapshots' \in [Keys -> Nat \cup {None}], OnlyJob(p), NEW u, u = task'[p],
         Placed(u), Stored(u), HelpClaimsNone => Registered(u), AllAnswered => Viewed(u)'
  PROVE  Solo(p)'
<1>1. JobTypes'
  BY DEF Solo, JobTypes, OnlyJob
<1>2. CachedUnderKey' /\ Alone(p)'
  BY DEF Solo, CachedUnderKey, Alone, OnlyJob
<1>3. Placed(u)' /\ Stored(u)'
  BY DEF Placed, Stored
<1>4. Registered(u) => Registered(u)'
  <2>1. \A k \in Keys : Agrees(k) => Agrees(k)'
    BY DEF Agrees, Owns, Holds
  <2>2. \A k : Owns(k)' = Owns(k) /\ Holds(k)' = Holds(k)
    BY DEF Owns, Holds
  <2> QED
    BY <2>1, <2>2 DEF Registered
<1> QED
  BY <1>1, <1>2, <1>3, <1>4 DEF Solo, JobOk

LEMMA MarkStartedSolo ==
  ASSUME NEW p \in Procs, Solo(p), MarkStarted(p)
  PROVE  Solo(p)'
<1>1. PICK t : t = task[p]
  OBVIOUS
<1>2. /\ JobTypes /\ JobOk(t) /\ Placed(t) /\ Stored(t) /\ t \in Job /\ t.pc = "start"
      /\ UNCHANGED <<stdio, exclusive_owners, session_exclusives, session>>
      /\ Goto(p, "call") /\ "call" \in JobPcs
  BY <1>1, SoloParts DEF MarkStarted, At, registryVars, JobPcs, Working, Calling
<1>3. PICK k \in Keys : k = t.key
  BY <1>2 DEF Placed, Working
<1>4. PICK n \in Nat \cup {None} : n = stdio_snapshots[k]
  BY <1>2 DEF JobTypes
<1>5. PICK m \in Nat \cup {None} : m = IF n = None THEN None ELSE n + 1
  BY <1>4
<1>6. stdio_snapshots' = [stdio_snapshots EXCEPT ![k] = m]
  BY <1>1, <1>3, <1>4, <1>5 DEF MarkStarted
<1>7. /\ stdio_snapshots' \in [Keys -> Nat \cup {None}] /\ stdio_snapshots'[k] = m
      /\ \A j \in Keys \ {k} : stdio_snapshots'[j] = stdio_snapshots[j]
  BY <1>2, <1>6 DEF JobTypes
<1>8. OnlyJob(p)
  BY <1>2, GotoJob
<1>9. PICK u \in Job : u = task'[p] /\ u.pc = "call" /\ u.s = t.s /\ SameRest(t, u)
  BY <1>1, <1>2, GotoJob
<1> USE DEF Working, Bound, Taking, Claiming, Calling, Opening, Sweeping
<1>10. Placed(u)
  BY <1>2, <1>9 DEF Placed, SameRest, TakesFor, EvictsOwner
<1>11. Stored(u)
  BY <1>2, <1>9 DEF Stored, SameRest, TakesFor, ClaimsKeys
<1>12. HelpClaimsNone => Registered(u)
  BY <1>2, <1>9 DEF JobOk, Registered, Loose, SameRest, TakesFor, ClaimsKeys, EvictsOwner
<1>13. ASSUME AllAnswered PROVE Viewed(u)'
  <2>1. Viewed(t) /\ Unseen(t) = {} /\ Unseen(u) = {k} /\ u.key = k
    BY <1>2, <1>3, <1>9, <1>13 DEF JobOk, Unseen, SameRest
  <2>2. n = 0
    BY <1>2, <1>3, <1>4, <2>1 DEF Viewed, Shown, Stored
  <2>3. m = 1
    BY <1>5, <2>2, SessionsAssumption
  <2>4. \A j \in Keys \ {k} : Shown(j)'
    BY <1>2, <1>7, <2>1 DEF Viewed, Shown
  <2> QED
    BY <1>7, <2>1, <2>3, <2>4 DEF Viewed
<1> QED
  BY <1>2, <1>7, <1>8, <1>9, <1>10, <1>11, <1>12, <1>13, ViewJob

LEMMA MarkFinishedSolo ==
  ASSUME NEW p \in Procs, Solo(p), MarkFinished(p)
  PROVE  Solo(p)'
<1>1. PICK t : t = task[p]
  OBVIOUS
<1>2. /\ JobTypes /\ JobOk(t) /\ Placed(t) /\ Stored(t) /\ t \in Job /\ t.pc = "finish"
      /\ UNCHANGED <<stdio, exclusive_owners, session_exclusives, session>> /\ Done(p)
  BY <1>1, SoloParts DEF MarkFinished, At, registryVars
<1>3. PICK k \in Keys : k = t.key
  BY <1>2 DEF Placed, Working, Calling
<1>4. PICK n \in Nat \cup {None} : n = stdio_snapshots[k]
  BY <1>2 DEF JobTypes
<1>5. PICK m \in Nat \cup {None} : m = IF n \in {None, 0} THEN n ELSE n - 1
  BY <1>4
<1>6. stdio_snapshots' = [stdio_snapshots EXCEPT ![k] = m]
  BY <1>1, <1>3, <1>4, <1>5 DEF MarkFinished
<1>7. /\ stdio_snapshots' \in [Keys -> Nat \cup {None}] /\ stdio_snapshots'[k] = m
      /\ \A j \in Keys \ {k} : stdio_snapshots'[j] = stdio_snapshots[j]
  BY <1>2, <1>6 DEF JobTypes
<1>8. OnlyJob(p) /\ task'[p] = Idle
  BY <1>2, DoneJob
<1>9. PICK u : u = Idle
  OBVIOUS
<1>10. u.pc = "idle" /\ u.reaped = {} /\ u.op = "none" /\ ~u.bad_args
  BY <1>9, IdleJob
<1> USE DEF Working, Bound, Taking, Claiming, Calling, Opening, Sweeping
<1>11. Placed(u)
  BY <1>9, <1>10 DEF Placed, TakesFor, EvictsOwner
<1>12. Stored(u)
  BY <1>10 DEF Stored, TakesFor, ClaimsKeys
<1>13. HelpClaimsNone => Registered(u)
  BY <1>2, <1>10 DEF JobOk, Registered, Loose, TakesFor, ClaimsKeys, EvictsOwner
<1>14. ASSUME AllAnswered PROVE Viewed(u)'
  <2>1. Viewed(t) /\ Unseen(t) = {k} /\ Unseen(u) = {}
    BY <1>2, <1>3, <1>10, <1>14 DEF JobOk, Unseen
  <2>2. n = 1 /\ stdio[k] # 0
    BY <1>2, <1>3, <1>4, <2>1 DEF Viewed, Stored
  <2>3. m = 0
    BY <1>5, <2>2, SessionsAssumption
  <2>4. \A j \in Keys : Shown(j)'
    BY <1>2, <1>7, <2>1, <2>2, <2>3 DEF Viewed, Shown
  <2> QED
    BY <1>10, <2>4 DEF Viewed
<1> QED
  BY <1>2, <1>7, <1>8, <1>9, <1>11, <1>12, <1>13, <1>14, ViewJob

\* A cached session takes the keys of the request.
LEMMA RenewedSolo ==
  ASSUME NEW p \in Procs, Solo(p), MapsStay, NEW t, t = task[p], t.pc = "reuse",
         NEW r \in Session, r.key = session[t.s].key, r.daemon_exclusive = t.excl,
         session' = [session EXCEPT ![t.s] = r],
         NEW pc \in JobPcs, pc = "clean", NEW then \in JobPcs, then = "register",
         NEW no \in BOOLEAN, no = FALSE, StartRemoval(p, pc, t.key, no, then)
  PROVE  Solo(p)'
<1>2. JobTypes /\ CachedUnderKey /\ JobOk(t) /\ Placed(t) /\ Stored(t) /\ t \in Job /\ t.excl \subseteq XKeys
  BY SoloParts DEF Job
<1>3. PICK k \in Keys : k = t.key
  BY <1>2 DEF Placed, Working, Opening
<1>4. PICK s \in DOMAIN session : s = t.s
  BY BoundSession DEF Bound
<1>16. stdio[k] = s /\ stdio[k] # 0
  BY <1>2, <1>3, <1>4 DEF Stored, JobTypes
<1>5. /\ session' \in Seq(Session) /\ DOMAIN session' = DOMAIN session
      /\ session'[s] = r /\ \A v \in DOMAIN session \ {s} : session'[v] = session[v]
  BY <1>2, <1>4, Rewritten DEF JobTypes
<1>6. OnlyJob(p)
  BY <1>2, <1>3, RemovalJob
<1>7. PICK u \in Job : /\ u = task'[p] /\ u.pc = pc /\ u.s = t.s /\ SameRest(t, u)
                       /\ u.target = k /\ u.snapshot = no /\ u.then = then
  BY <1>2, <1>3, RemovalJob
<1>8. JobTypes'
  BY <1>2, <1>5, <1>6 DEF MapsStay, JobTypes, OnlyJob
<1>9. CachedUnderKey'
  BY <1>2, <1>4, <1>5 DEF MapsStay, CachedUnderKey
<1>10. Alone(p)'
  BY <1>6 DEF Solo, Alone, OnlyJob
<1> USE DEF Working, Bound, Taking, Claiming, Calling, Opening, Sweeping
<1>17. t.reaped = {} /\ u.pc = "clean" /\ u.then = "register" /\ ~u.snapshot
  BY <1>2, <1>7 DEF Placed, TakesFor
<1>11. Placed(u)'
  BY <1>2, <1>3, <1>5, <1>7, <1>17 DEF Placed, SameRest, TakesFor, EvictsOwner
<1>12. Stored(u)'
  BY <1>3, <1>7, <1>16, <1>17 DEF Stored, SameRest, TakesFor, ClaimsKeys, MapsStay
<1>14. ASSUME HelpClaimsNone PROVE Registered(u)'
  <2>1. Registered(t) /\ Loose(t) = {} /\ Loose(u) = {k} /\ u.key = k
    BY <1>2, <1>3, <1>7, <1>14, <1>17 DEF JobOk, Loose, SameRest
  <2>2. \A j \in Keys : Owns(j)' = Owns(j) /\ session_exclusives'[j] = session_exclusives[j]
    BY DEF Owns, MapsStay
  <2>3. \A j \in Keys \ {k} : Holds(j)' = Holds(j)
    BY <1>2, <1>5, <1>16 DEF Holds, MapsStay, CachedUnderKey
  <2>4. \A j \in Keys \ Loose(u) : Agrees(j)'
    BY <2>1, <2>2, <2>3 DEF Registered, Agrees
  <2>5. Holds(k)' = t.excl
    BY <1>5, <1>16 DEF Holds, MapsStay
  <2>6. \A x \in u.excl : exclusive_owners'[x] \in {None, u.key}
    BY <1>2, <1>7, <2>1 DEF Registered, SameRest, MapsStay
  <2>7. Owns(k)' \subseteq session_exclusives'[k]
    BY <2>1, <2>2 DEF Registered, Agrees
  <2> QED
    BY <1>7, <1>17, <2>1, <2>4, <2>5, <2>6, <2>7 DEF Registered, SameRest, TakesFor, ClaimsKeys, EvictsOwner
<1>15. ASSUME AllAnswered PROVE Viewed(u)'
  <2>1. Viewed(t) /\ Unseen(t) = {} /\ Unseen(u) = {}
    BY <1>2, <1>7, <1>15, <1>17 DEF JobOk, Unseen, SameRest
  <2>2. \A j \in Keys : Shown(j)'
    BY <2>1 DEF Viewed, Shown, MapsStay
  <2> QED
    BY <1>17, <2>2 DEF Viewed
<1> QED
  BY <1>7, <1>8, <1>9, <1>10, <1>11, <1>12, <1>14, <1>15 DEF Solo, JobOk

LEMMA TryReuseSolo ==
  ASSUME NEW p \in Procs, Solo(p), TryReuse(p)
  PROVE  Solo(p)'
<1>1. PICK t : t = task[p]
  OBVIOUS
<1>2. task[p].pc = "reuse" /\ MapsStay /\ JobTypes /\ t \in Job /\ Stored(t) /\ Placed(t)
  BY <1>1, SoloParts DEF TryReuse, At, MapsStay, registryVars
<1>3. PICK s \in DOMAIN session : s = t.s
  BY <1>1, <1>2, BoundSession DEF Bound
<1>4. session[s] \in Session /\ s # 0 /\ s = stdio[t.key]
  BY <1>1, <1>2, <1>3, SessionOf DEF JobTypes, Stored
<1>5. \/ Done(p) /\ UNCHANGED session
      \/ StartRemoval(p, "remove", t.key, TRUE, "reuse_gone") /\ UNCHANGED session
      \/ /\ Unlocked(s, ApplyRequestMetadata(s, t))
         /\ StartRemoval(p, IF t.excl = {} THEN "hand_out" ELSE "clean", t.key, FALSE, "register")
  BY <1>1, <1>3 DEF TryReuse
<1>6. CASE Done(p) /\ UNCHANGED session
  BY <1>2, <1>6, KinSame, DoneSolo, SettledJob DEF Settled, Taking, Claiming, Calling
<1>7. CASE StartRemoval(p, "remove", t.key, TRUE, "reuse_gone") /\ UNCHANGED session
  BY <1>1, <1>2, <1>7, KinSame, StartsRemoval
<1>8. CASE /\ Unlocked(s, ApplyRequestMetadata(s, t))
           /\ StartRemoval(p, IF t.excl = {} THEN "hand_out" ELSE "clean", t.key, FALSE, "register")
  <2>1. PICK after : after = ApplyRequestMetadata(s, t)
    OBVIOUS
  <2>2. /\ after \in Session /\ after.key = session[s].key
        /\ after.daemon_exclusive = IF t.excl = {} THEN session[s].daemon_exclusive ELSE t.excl
    BY <1>2, <1>4, <2>1 DEF ApplyRequestMetadata, Session, Job
  <2>3. PICK no \in BOOLEAN : no = FALSE
    OBVIOUS
  <2>4. CASE t.excl = {}
    <3>1. Kin
      BY <1>2, <1>8, <2>1, <2>2, <2>4, KinLocked
    <3>2. StartRemoval(p, "hand_out", task[p].key, no, "register")
      BY <1>1, <1>8, <2>3, <2>4
    <3> QED
      BY <1>1, <1>2, <1>4, <2>4, <3>1, <3>2, HandsOut
  <2>5. CASE t.excl # {}
    <3>1. PICK r : r = [after EXCEPT !.lock = None]
      OBVIOUS
    <3>2. r \in Session /\ r.key = session[t.s].key /\ r.daemon_exclusive = t.excl
      BY <1>3, <2>2, <2>5, <3>1 DEF Session
    <3>3. session' = [session EXCEPT ![t.s] = r]
      BY <1>3, <1>8, <2>1, <3>1 DEF Unlocked
    <3>4. PICK pc \in JobPcs : pc = "clean"
      BY DEF JobPcs, Taking
    <3>5. PICK then \in JobPcs : then = "register"
      BY DEF JobPcs, Working, Opening, Claiming
    <3>6. StartRemoval(p, pc, t.key, no, then)
      BY <1>8, <2>3, <2>5, <3>4, <3>5
    <3>7. t.pc = "reuse"
      BY <1>1, <1>2
    <3> QED
      BY <1>1, <1>2, <2>3, <3>2, <3>3, <3>4, <3>5, <3>6, <3>7, RenewedSolo
  <2> QED
    BY <2>4, <2>5
<1> QED
  BY <1>5, <1>6, <1>7, <1>8

LEMMA SpawnSolo ==
  ASSUME NEW p \in Procs, Solo(p), Spawn(p)
  PROVE  Solo(p)'
<1>1. PICK t : t = task[p]
  OBVIOUS
<1>2. /\ JobTypes /\ CachedUnderKey /\ JobOk(t) /\ Placed(t) /\ Stored(t) /\ t \in Job /\ t.pc = "spawn" /\ MapsStay
      /\ t.excl \subseteq XKeys
  BY <1>1, SoloParts DEF Spawn, At, MapsStay, registryVars, Job
<1>3. CASE Done(p) /\ UNCHANGED session
  BY <1>1, <1>2, <1>3, KinSame, DoneSolo, SettledJob DEF Settled, Taking, Claiming, Calling
<1>4. CASE ~(Done(p) /\ UNCHANGED session)
  <2>1. PICK k \in Keys : k = t.key
    BY <1>2 DEF Placed, Working, Opening
  <2>2. PICK lifecycle \in Lifecycles :
          session' = Append(session,
               [key |-> t.key, alive |-> TRUE, reuse_eligible |-> TRUE,
                daemon_exclusive |-> t.excl, ttl |-> t.ttl,
                stale |-> FALSE, subscriptions |-> 0, lifecycle |-> lifecycle,
                auto_reap_allowed |-> FALSE, lock |-> None])
    BY <1>1, <1>4 DEF Spawn
  <2>3. PICK r : r = [key |-> t.key, alive |-> TRUE, reuse_eligible |-> TRUE,
                daemon_exclusive |-> t.excl, ttl |-> t.ttl,
                stale |-> FALSE, subscriptions |-> 0, lifecycle |-> lifecycle,
                auto_reap_allowed |-> FALSE, lock |-> None]
    OBVIOUS
  <2>4. r \in Session /\ r.key = k /\ r.daemon_exclusive = t.excl
    BY <1>2, <2>1, <2>3 DEF Session, Job
  <2>5. session' = Append(session, r)
    BY <2>2, <2>3
  <2>6. PICK s \in Nat : s = Len(session) + 1
    BY <1>2 DEF JobTypes
  <2>7. /\ session' \in Seq(Session) /\ DOMAIN session' = DOMAIN session \cup {s}
        /\ session'[s] = r /\ \A v \in DOMAIN session : session'[v] = session[v]
    <3>1. session \in Seq(Session)
      BY <1>2 DEF JobTypes
    <3> QED
      BY <2>4, <2>5, <2>6, <3>1
  <2>8. GotoWith(p, "insert", s) /\ "insert" \in JobPcs
    BY <1>4, <2>6 DEF Spawn, JobPcs, Working, Opening
  <2>9. OnlyJob(p)
    BY <1>2, <2>8, GotoWithJob
  <2>10. PICK u \in Job : u = task'[p] /\ u.pc = "insert" /\ u.s = s /\ SameRest(t, u)
    BY <1>1, <1>2, <2>8, GotoWithJob
  <2>11. JobTypes'
    BY <1>2, <2>7, <2>9 DEF MapsStay, JobTypes, OnlyJob
  <2>12. CachedUnderKey'
    BY <1>2, <2>7 DEF MapsStay, CachedUnderKey
  <2>13. Alone(p)'
    BY <2>9 DEF Solo, Alone, OnlyJob
  <2> USE DEF Working, Bound, Taking, Claiming, Calling, Opening, Sweeping
  <2>14. Placed(u)'
    BY <1>2, <2>7, <2>10 DEF Placed, SameRest, TakesFor, EvictsOwner
  <2>15. Stored(u)'
    BY <1>2, <2>1, <2>4, <2>7, <2>10 DEF Stored, SameRest, TakesFor, ClaimsKeys, MapsStay
  <2>16. ASSUME HelpClaimsNone PROVE Registered(u)'
    <3>1. Registered(t) /\ Loose(t) = {} /\ Loose(u) = {}
      BY <1>2, <2>10, <2>16 DEF JobOk, Loose
    <3>2. \A j \in Keys : Agrees(j) => Agrees(j)'
      BY <1>2, <2>7 DEF Agrees, Owns, Holds, MapsStay, CachedUnderKey
    <3>3. \A x \in u.excl : exclusive_owners'[x] \in {None, u.key}
      BY <1>2, <2>10, <3>1 DEF Registered, SameRest, MapsStay
    <3>4. session'[u.s].daemon_exclusive = u.excl
      BY <2>4, <2>7, <2>10 DEF SameRest
    <3> QED
      BY <2>10, <3>1, <3>2, <3>3, <3>4 DEF Registered, TakesFor, ClaimsKeys, EvictsOwner
  <2>17. ASSUME AllAnswered PROVE Viewed(u)'
    BY <1>2, <2>10, <2>17 DEF JobOk, Viewed, Unseen, Shown, MapsStay
  <2> QED
    BY <2>10, <2>11, <2>12, <2>13, <2>14, <2>15, <2>16, <2>17 DEF Solo, JobOk
<1> QED
  BY <1>3, <1>4

-----------------------------------------------------------------------------
(* The owners of the keys that a request claims. *)

LEMMA EvictNextSolo ==
  ASSUME NEW p \in Procs, Solo(p), EvictNext(p)
  PROVE  Solo(p)'
<1>1. PICK t : t = task[p]
  OBVIOUS
<1>2. /\ JobTypes /\ CachedUnderKey /\ JobOk(t) /\ Placed(t) /\ Stored(t) /\ t \in Job /\ t.pc = "evict_next"
      /\ UNCHANGED <<stdio, stdio_snapshots, session_exclusives>>
      /\ t.excl \subseteq XKeys
  BY <1>1, SoloParts DEF EvictNext, At, Job
<1>3. t.todo \subseteq Keys /\ t.key \in Keys /\ t.reaped = {}
  BY <1>2 DEF Placed, Working, EvictsOwner, Sweeping, TakesFor, Taking
<1>4. PICK then \in JobPcs : then = "evict_next"
  BY DEF JobPcs, Working
<1>5. CASE t.todo = {} /\ GotoWith(p, "lookup", 0) /\ UNCHANGED <<exclusive_owners, session>>
  <2>1. MapsStay
    BY <1>2, <1>5 DEF MapsStay
  <2>2. PICK zero : zero = 0
    OBVIOUS
  <2>3. GotoWith(p, "lookup", zero)
    BY <1>5, <2>2
  <2> QED
    BY <1>1, <1>2, <1>5, <2>1, <2>2, <2>3, FindsSolo
<1>6. ASSUME NEW owner \in t.todo, stdio[owner] = 0,
             exclusive_owners' = [x \in XKeys |-> IF x \in t.excl /\ exclusive_owners[x] = owner
                                                  THEN None ELSE exclusive_owners[x]],
             task' = [task EXCEPT ![p] = [t EXCEPT !.todo = @ \ {owner}, !.target = owner,
                                            !.then = "evict_next", !.pc = "clean", !.snapshot = FALSE]],
             UNCHANGED session
      PROVE  Solo(p)'
  <2>1. PICK no \in BOOLEAN : no = FALSE
    OBVIOUS
  <2>2. PICK pc \in JobPcs : pc = "clean"
    BY DEF JobPcs, Taking
  <2>3. PICK s \in Nat : s = t.s
    BY <1>2 DEF Job
  <2>4. owner \in Keys /\ owner # None
    BY <1>3, SessionsAssumption
  <2>0. PICK u : u = [t EXCEPT !.todo = t.todo \ {owner}, !.target = owner, !.then = then, !.pc = pc,
                               !.s = s, !.snapshot = no]
    OBVIOUS
  <2>5. /\ u \in Job /\ u.pc = pc /\ u.s = s /\ u.snapshot = no /\ u.target = owner
        /\ u.then = then /\ u.todo = t.todo \ {owner}
        /\ u.op = t.op /\ u.key = t.key /\ u.excl = t.excl /\ u.bad_args = t.bad_args
        /\ u.reaped = t.reaped
    <3>1. t \in Job
      BY <1>2
    <3> QED
      BY <2>0, <2>4, <3>1 DEF Job
  <2>6. task' = [task EXCEPT ![p] = u]
    BY <1>2, <1>4, <1>6, <2>0, <2>1, <2>2, <2>3 DEF Job
  <2>7. OnlyJob(p) /\ task'[p] = u
    BY <1>2, <2>5, <2>6, NewJob
  <2>8. exclusive_owners' \in [XKeys -> Keys \cup {None}]
    BY <1>2, <1>6 DEF JobTypes
  <2>9. JobTypes'
    BY <1>2, <1>6, <2>7, <2>8 DEF JobTypes, OnlyJob
  <2>10. CachedUnderKey' /\ Alone(p)'
    BY <1>2, <1>6, <2>7 DEF Solo, CachedUnderKey, Alone, OnlyJob
  <2> USE DEF Working, Bound, Taking, Claiming, Calling, Opening, Sweeping
  <2>11. u.pc = "clean" /\ u.then = "evict_next" /\ ~u.snapshot /\ u.reaped = {}
    BY <1>3, <1>4, <2>1, <2>2, <2>5
  <2>12. Placed(u)'
    BY <1>2, <1>3, <2>4, <2>5, <2>11 DEF Placed, TakesFor, EvictsOwner
  <2>13. Stored(u)'
    BY <1>2, <1>6, <2>5, <2>11 DEF Stored, TakesFor, ClaimsKeys
  <2>14. ASSUME HelpClaimsNone PROVE Registered(u)'
    <3>1. Registered(t) /\ Loose(t) = {} /\ Loose(u) = {owner}
      BY <1>2, <2>5, <2>11, <2>14 DEF JobOk, Loose
    <3>2. \A j \in Keys \ {owner} : Owns(j)' = Owns(j)
      <4>1. TAKE j \in Keys \ {owner}
      <4>2. j # None
        BY SessionsAssumption
      <4> QED
        BY <1>6, <4>2 DEF Owns
    <3>3. OthersStay(owner)
      BY <1>2, <3>2 DEF OthersStay
    <3>4. \A j \in Keys \ Loose(u) : Agrees(j)'
      BY <1>2, <1>6, <2>4, <3>1, <3>3, OthersAgree DEF Registered
    <3>5. Owns(owner)' \subseteq session_exclusives'[owner]
      <4>1. Owns(owner) = session_exclusives[owner]
        BY <2>4, <3>1 DEF Registered, Agrees
      <4>2. Owns(owner)' \subseteq Owns(owner)
        BY <1>6, <2>4 DEF Owns
      <4> QED
        BY <1>2, <4>1, <4>2
    <3>6. \A x \in u.excl : exclusive_owners'[x] \in {None, u.key} \cup u.todo \/ exclusive_owners'[x] = u.target
      BY <1>2, <1>6, <2>5, <3>1 DEF Registered, EvictsOwner
    <3> QED
      BY <2>5, <2>11, <3>4, <3>5, <3>6 DEF Registered, TakesFor, ClaimsKeys, EvictsOwner
  <2>15. ASSUME AllAnswered PROVE Viewed(u)'
    <3>1. Viewed(t) /\ Unseen(t) = {} /\ Unseen(u) = {}
      BY <1>2, <2>11, <2>15 DEF JobOk, Unseen
    <3>2. \A j \in Keys : Shown(j)'
      BY <1>2, <3>1 DEF Viewed, Shown
    <3> QED
      BY <2>11, <3>2 DEF Viewed
  <2> QED
    BY <2>7, <2>9, <2>10, <2>12, <2>13, <2>14, <2>15 DEF Solo, JobOk
<1>7. CASE Done(p) /\ UNCHANGED <<exclusive_owners, session>>
  <2>1. MapsStay /\ Kin
    BY <1>2, <1>7, KinSame DEF MapsStay
  <2> QED
    BY <1>1, <1>2, <1>7, <2>1, DoneSolo, SettledJob DEF Settled, Taking, Claiming, Calling
<1>8. ASSUME NEW owner \in t.todo, NEW s, s = stdio[owner], s # 0, Locked(s, p, session[s]),
             task' = [task EXCEPT ![p] = [t EXCEPT !.todo = @ \ {owner}, !.target = owner,
                                            !.then = "evict_next", !.pc = "evict_kill", !.s = s]],
             UNCHANGED exclusive_owners
      PROVE  Solo(p)'
  <2>1. owner \in Keys /\ owner # None /\ s \in DOMAIN session /\ s \in Nat /\ MapsStay
    BY <1>2, <1>3, <1>8, SessionsAssumption DEF CachedUnderKey, JobTypes, MapsStay
  <2>2. PICK pc \in JobPcs : pc = "evict_kill"
    BY DEF JobPcs, Working
  <2>3. PICK no \in BOOLEAN : no = t.snapshot
    BY <1>2 DEF Job
  <2>0. PICK u : u = [t EXCEPT !.todo = t.todo \ {owner}, !.target = owner, !.then = then, !.pc = pc,
                               !.s = s, !.snapshot = no]
    OBVIOUS
  <2>5. /\ u \in Job /\ u.pc = pc /\ u.s = s /\ u.snapshot = no /\ u.target = owner
        /\ u.then = then /\ u.todo = t.todo \ {owner}
        /\ u.op = t.op /\ u.key = t.key /\ u.excl = t.excl /\ u.bad_args = t.bad_args
        /\ u.reaped = t.reaped
    <3>1. t \in Job /\ owner \in Keys /\ s \in Nat
      BY <1>2, <2>1
    <3> QED
      BY <2>0, <3>1 DEF Job
  <2>6. task' = [task EXCEPT ![p] = u]
    BY <1>2, <1>4, <1>8, <2>0, <2>2, <2>3 DEF Job
  <2>7. OnlyJob(p) /\ task'[p] = u
    BY <1>2, <2>5, <2>6, NewJob
  <2>8. Kin
    BY <1>2, <1>8, <2>1, KinTouched
  <2> USE DEF Working, Bound, Taking, Claiming, Calling, Opening, Sweeping
  <2>11. u.pc = "evict_kill" /\ u.reaped = {}
    BY <1>3, <2>2, <2>5
  <2>12. Placed(u)
    BY <1>2, <1>3, <2>1, <2>5, <2>11 DEF Placed, TakesFor, EvictsOwner
  <2>13. Stored(u)
    BY <2>5, <2>11 DEF Stored, TakesFor, ClaimsKeys
  <2>14. ASSUME HelpClaimsNone PROVE Registered(u)
    <3>1. Registered(t) /\ Loose(t) = {} /\ Loose(u) = {}
      BY <1>2, <2>11, <2>14 DEF JobOk, Loose
    <3>2. \A x \in u.excl : exclusive_owners[x] \in {None, u.key} \cup u.todo \/ exclusive_owners[x] = u.target
      BY <1>2, <2>5, <3>1 DEF Registered, EvictsOwner
    <3> QED
      BY <2>11, <3>1, <3>2 DEF Registered, TakesFor, ClaimsKeys, EvictsOwner
  <2>15. AllAnswered => Viewed(u)
    BY <1>2, <2>11 DEF JobOk, Viewed, Unseen
  <2> QED
    BY <2>1, <2>7, <2>8, <2>12, <2>13, <2>14, <2>15, CalmJob DEF JobOk
<1>9. \/ t.todo = {} /\ GotoWith(p, "lookup", 0) /\ UNCHANGED <<exclusive_owners, session>>
      \/ \E owner \in t.todo :
           \/ /\ stdio[owner] = 0
              /\ exclusive_owners' = [x \in XKeys |-> IF x \in t.excl /\ exclusive_owners[x] = owner
                                                      THEN None ELSE exclusive_owners[x]]
              /\ task' = [task EXCEPT ![p] = [t EXCEPT !.todo = @ \ {owner}, !.target = owner,
                                                !.then = "evict_next", !.pc = "clean", !.snapshot = FALSE]]
              /\ UNCHANGED session
           \/ Done(p) /\ UNCHANGED <<exclusive_owners, session>>
           \/ /\ stdio[owner] # 0 /\ Locked(stdio[owner], p, session[stdio[owner]])
              /\ task' = [task EXCEPT ![p] = [t EXCEPT !.todo = @ \ {owner}, !.target = owner,
                                                !.then = "evict_next", !.pc = "evict_kill", !.s = stdio[owner]]]
              /\ UNCHANGED exclusive_owners
  BY <1>1 DEF EvictNext
<1> QED
  BY <1>5, <1>6, <1>7, <1>8, <1>9

-----------------------------------------------------------------------------
(* cleanup_idle. *)

LEMMA SweepNextSolo ==
  ASSUME Solo(Cleaner), SweepNext
  PROVE  Solo(Cleaner)'
<1>0. PICK p \in Procs : p = Cleaner
  BY DEF Procs
<1>1. PICK t : t = task[p]
  OBVIOUS
<1>2. /\ JobTypes /\ JobOk(t) /\ Placed(t) /\ Stored(t) /\ t \in Job /\ t.pc = "sweep" /\ MapsStay /\ Solo(p)
  BY <1>0, <1>1, SoloParts DEF SweepNext, At, MapsStay, registryVars
<1>3. PICK e \in t.todo :
        \/ task' = [task EXCEPT ![p] = [t EXCEPT !.todo = t.todo \ {e}]] /\ UNCHANGED session
        \/ /\ Locked(e[2], p, session[e[2]])
           /\ task' = [task EXCEPT ![p] = [t EXCEPT !.todo = t.todo \ {e}, !.pc = "sweep_kill",
                                                    !.key = e[1], !.s = e[2]]]
  BY <1>0, <1>1 DEF SweepNext
<1>4. t.todo \subseteq Keys \X DOMAIN session /\ t.todo \in SUBSET (Keys \cup (Keys \X Nat))
  BY <1>2 DEF Placed, Job
<1>5. PICK k \in Keys, s \in DOMAIN session : k = e[1] /\ s = e[2]
  BY <1>4
<1>6. s \in Nat
  BY <1>2 DEF JobTypes
<1>7. PICK rest \in SUBSET (Keys \cup (Keys \X Nat)) : rest = t.todo \ {e}
  BY <1>4
<1>8. CASE task' = [task EXCEPT ![p] = [t EXCEPT !.todo = t.todo \ {e}]] /\ UNCHANGED session
  <2>1. PICK u : u = [t EXCEPT !.todo = rest]
    OBVIOUS
  <2>2. /\ u \in Job /\ u.pc = "sweep" /\ u.todo = rest /\ u.op = t.op /\ u.excl = t.excl
        /\ u.bad_args = t.bad_args /\ u.reaped = t.reaped
    BY <1>2, <2>1 DEF Job
  <2>3. task' = [task EXCEPT ![p] = u] /\ Kin
    BY <1>2, <1>7, <1>8, <2>1, KinSame
  <2>4. OnlyJob(p) /\ task'[p] = u
    BY <1>2, <2>2, <2>3, NewJob
  <2> USE DEF Working, Bound, Taking, Claiming, Calling, Opening, Sweeping
  <2>5. Placed(u)
    BY <1>2, <1>4, <1>7, <2>2 DEF Placed, TakesFor, EvictsOwner
  <2>6. Stored(u)
    BY <2>2 DEF Stored, TakesFor, ClaimsKeys
  <2>7. HelpClaimsNone => Registered(u)
    BY <1>2, <2>2 DEF JobOk, Registered, Loose, TakesFor, ClaimsKeys, EvictsOwner
  <2>8. AllAnswered => Viewed(u)
    BY <1>2, <2>2 DEF JobOk, Viewed, Unseen
  <2> QED
    BY <1>0, <1>2, <2>3, <2>4, <2>5, <2>6, <2>7, <2>8, CalmJob DEF JobOk
<1>9. CASE /\ Locked(e[2], p, session[e[2]])
           /\ task' = [task EXCEPT ![p] = [t EXCEPT !.todo = t.todo \ {e}, !.pc = "sweep_kill",
                                                    !.key = e[1], !.s = e[2]]]
  <2>0. PICK pc \in JobPcs : pc = "sweep_kill"
    BY DEF JobPcs, Sweeping
  <2>1. PICK u : u = [t EXCEPT !.todo = rest, !.pc = pc, !.key = k, !.s = s]
    OBVIOUS
  <2>2. /\ u \in Job /\ u.pc = pc /\ u.todo = rest /\ u.op = t.op /\ u.excl = t.excl
        /\ u.bad_args = t.bad_args /\ u.reaped = t.reaped /\ u.key = k /\ u.s = s
    BY <1>2, <1>6, <2>1 DEF Job
  <2>9. u.pc = "sweep_kill"
    BY <2>0, <2>2
  <2>3. task' = [task EXCEPT ![p] = u] /\ Kin
    BY <1>2, <1>5, <1>7, <1>9, <2>0, <2>1, KinTouched
  <2>4. OnlyJob(p) /\ task'[p] = u
    BY <1>2, <2>2, <2>3, NewJob
  <2> USE DEF Working, Bound, Taking, Claiming, Calling, Opening, Sweeping
  <2>5. Placed(u)
    BY <1>2, <1>4, <1>7, <2>2, <2>9 DEF Placed, TakesFor, EvictsOwner
  <2>6. Stored(u)
    BY <2>9 DEF Stored, TakesFor, ClaimsKeys
  <2>7. HelpClaimsNone => Registered(u)
    BY <1>2, <2>9 DEF JobOk, Registered, Loose, TakesFor, ClaimsKeys, EvictsOwner
  <2>8. AllAnswered => Viewed(u)
    BY <1>2, <2>9 DEF JobOk, Viewed, Unseen
  <2> QED
    BY <1>0, <1>2, <2>3, <2>4, <2>5, <2>6, <2>7, <2>8, CalmJob DEF JobOk
<1> QED
  BY <1>3, <1>8, <1>9

LEMMA SweepKillSolo ==
  ASSUME Solo(Cleaner), SweepKill
  PROVE  Solo(Cleaner)'
<1>0. PICK p \in Procs : p = Cleaner
  BY DEF Procs
<1>1. PICK t : t = task[p]
  OBVIOUS
<1>2. /\ JobTypes /\ JobOk(t) /\ Placed(t) /\ t \in Job /\ t.pc = "sweep_kill" /\ MapsStay /\ Solo(p)
  BY <1>0, <1>1, SoloParts DEF SweepKill, At, MapsStay, registryVars
<1>3. PICK s \in DOMAIN session : s = t.s
  BY <1>1, <1>2, BoundSession DEF Bound
<1>4. PICK after \in KillOutcomes(s) : Unlocked(s, after)
  BY <1>0, <1>1, <1>3 DEF SweepKill
<1>5. Kin
  BY <1>2, <1>4, KinKilled
<1>6. PICK pc \in JobPcs : pc = "sweep"
  BY DEF JobPcs, Sweeping
<1>7. PICK reaped \in SUBSET Keys : reaped = t.reaped \cup {t.key}
  BY <1>2 DEF Job, Placed
<1>8. PICK u : u = [t EXCEPT !.pc = pc, !.s = 0, !.reaped = reaped]
  OBVIOUS
<1>9. u \in Job /\ u.pc = pc /\ u.todo = t.todo /\ u.op = t.op /\ u.excl = t.excl /\ u.bad_args = t.bad_args
  BY <1>2, <1>8 DEF Job
<1>10. task' = [task EXCEPT ![p] = u]
  BY <1>0, <1>1, <1>2, <1>6, <1>7, <1>8 DEF SweepKill, JobTypes, Job
<1>11. OnlyJob(p) /\ task'[p] = u /\ u.pc = "sweep"
  BY <1>2, <1>6, <1>9, <1>10, NewJob
<1> USE DEF Working, Bound, Taking, Claiming, Calling, Opening, Sweeping
<1>12. Placed(u)
  BY <1>2, <1>9, <1>11 DEF Placed, TakesFor, EvictsOwner
<1>13. Stored(u)
  BY <1>11 DEF Stored, TakesFor, ClaimsKeys
<1>14. HelpClaimsNone => Registered(u)
  BY <1>2, <1>11 DEF JobOk, Registered, Loose, TakesFor, ClaimsKeys, EvictsOwner
<1>15. AllAnswered => Viewed(u)
  BY <1>2, <1>11 DEF JobOk, Viewed, Unseen
<1> QED
  BY <1>0, <1>2, <1>5, <1>11, <1>12, <1>13, <1>14, <1>15, CalmJob DEF JobOk

LEMMA SweepRemoveSolo ==
  ASSUME Solo(Cleaner), SweepRemove
  PROVE  Solo(Cleaner)'
<1>0. PICK p \in Procs : p = Cleaner
  BY DEF Procs
<1>1. PICK t : t = task[p]
  OBVIOUS
<1>2. /\ JobTypes /\ CachedUnderKey /\ JobOk(t) /\ Placed(t) /\ t \in Job /\ t.pc = "sweep" /\ Solo(p)
      /\ UNCHANGED <<stdio_snapshots, exclusive_owners, session_exclusives, session>>
      /\ Goto(p, "sweep_clean") /\ "sweep_clean" \in JobPcs /\ t.reaped \subseteq Keys
  BY <1>0, <1>1, SoloParts DEF SweepRemove, At, registryVars, Job, JobPcs, Sweeping
<1>3. stdio' = [k \in Keys |-> IF k \in t.reaped THEN 0 ELSE stdio[k]]
  BY <1>0, <1>1 DEF SweepRemove
<1>4. OnlyJob(p)
  BY <1>2, GotoJob
<1>5. PICK u \in Job : u = task'[p] /\ u.pc = "sweep_clean" /\ SameRest(t, u)
  BY <1>1, <1>2, GotoJob
<1>6. JobTypes'
  BY <1>2, <1>3, <1>4 DEF JobTypes, OnlyJob
<1>7. CachedUnderKey' /\ Alone(p)'
  BY <1>2, <1>3, <1>4 DEF Solo, CachedUnderKey, Alone, OnlyJob
<1> USE DEF Working, Bound, Taking, Claiming, Calling, Opening, Sweeping
<1>8. Placed(u)'
  BY <1>2, <1>5 DEF Placed, SameRest, TakesFor, EvictsOwner
<1>9. Stored(u)'
  BY <1>2, <1>3, <1>5 DEF Stored, SameRest, TakesFor, ClaimsKeys
<1>10. ASSUME HelpClaimsNone PROVE Registered(u)'
  <2>1. Registered(t) /\ Loose(t) = {} /\ Loose(u) = t.reaped
    BY <1>2, <1>5, <1>10 DEF JobOk, Loose, SameRest
  <2>2. \A k \in Keys : Agrees(k) /\ Owns(k)' = Owns(k)
    BY <1>2, <2>1 DEF Registered, Owns
  <2>3. \A k \in Keys \ t.reaped : Holds(k)' = Holds(k)
    BY <1>2, <1>3 DEF Holds
  <2>4. \A k \in Keys \ Loose(u) : Agrees(k)'
    BY <1>2, <2>1, <2>2, <2>3 DEF Agrees
  <2>5. \A k \in u.reaped : session_exclusives'[k] = Owns(k)'
    BY <1>2, <1>5, <2>2 DEF Agrees, SameRest
  <2> QED
    BY <1>5, <2>4, <2>5 DEF Registered, TakesFor, ClaimsKeys, EvictsOwner
<1>11. ASSUME AllAnswered PROVE Viewed(u)'
  <2>1. Viewed(t) /\ Unseen(t) = {} /\ Unseen(u) = t.reaped
    BY <1>2, <1>5, <1>11 DEF JobOk, Unseen, SameRest
  <2>2. \A k \in Keys \ Unseen(u) : Shown(k)'
    BY <1>2, <1>3, <2>1 DEF Viewed, Shown
  <2> QED
    BY <1>5, <2>2 DEF Viewed
<1> QED
  BY <1>0, <1>5, <1>6, <1>7, <1>8, <1>9, <1>10, <1>11 DEF Solo, JobOk

LEMMA SweepCleanSolo ==
  ASSUME Solo(Cleaner), SweepClean
  PROVE  Solo(Cleaner)'
<1>0. PICK p \in Procs : p = Cleaner
  BY DEF Procs
<1>1. PICK t : t = task[p]
  OBVIOUS
<1>2. /\ JobTypes /\ JobOk(t) /\ Placed(t) /\ Stored(t) /\ t \in Job /\ t.pc = "sweep_clean" /\ MapsStay /\ Kin
      /\ t.reaped \subseteq Keys /\ Solo(p)
  BY <1>0, <1>1, SoloParts DEF SweepClean, At, MapsStay, registryVars, Job
<1>3. CASE t.reaped = {} /\ task' = [task EXCEPT ![p] = Idle]
  <2>1. Loose(task[p]) = {} /\ Unseen(task[p]) = {}
    BY <1>1, <1>2, <1>3 DEF Loose, Unseen, Taking, Claiming, Calling
  <2> QED
    BY <1>0, <1>2, <1>3, <2>1, EndsSolo
<1>4. ASSUME NEW k \in t.reaped,
             task' = [task EXCEPT ![p] = [t EXCEPT !.reaped = @ \ {k}, !.pc = "clean", !.target = k,
                                                   !.snapshot = TRUE, !.then = "sweep_clean"]]
      PROVE  Solo(p)'
  <2>1. PICK pc \in JobPcs : pc = "clean"
    BY DEF JobPcs, Taking
  <2>2. PICK then \in JobPcs : then = "sweep_clean"
    BY DEF JobPcs, Sweeping
  <2>3. PICK yes \in BOOLEAN : yes = TRUE
    OBVIOUS
  <2>4. PICK reaped \in SUBSET Keys : reaped = t.reaped \ {k}
    BY <1>2
  <2>5. PICK u : u = [t EXCEPT !.reaped = reaped, !.pc = pc, !.target = k, !.snapshot = yes, !.then = then]
    OBVIOUS
  <2>6. k \in Keys
    BY <1>2
  <2>7. /\ u \in Job /\ u.reaped = reaped /\ u.pc = pc /\ u.target = k /\ u.snapshot = yes /\ u.then = then
        /\ u.op = t.op /\ u.excl = t.excl /\ u.bad_args = t.bad_args
    BY <1>2, <2>5, <2>6 DEF Job
  <2>8. task' = [task EXCEPT ![p] = u]
    BY <1>4, <2>1, <2>2, <2>3, <2>4, <2>5
  <2>9. OnlyJob(p) /\ task'[p] = u
    BY <1>2, <2>7, <2>8, NewJob
  <2>10. u.pc = "clean" /\ u.then = "sweep_clean" /\ u.snapshot /\ u.reaped = t.reaped \ {k}
    BY <2>1, <2>2, <2>3, <2>4, <2>7
  <2> USE DEF Working, Bound, Taking, Claiming, Calling, Opening, Sweeping
  <2>11. Placed(u)
    BY <1>2, <2>6, <2>7, <2>10 DEF Placed, TakesFor, EvictsOwner
  <2>12. Stored(u)
    BY <1>2, <2>7, <2>10 DEF Stored, TakesFor, ClaimsKeys
  <2>13. ASSUME HelpClaimsNone PROVE Registered(u)
    <3>1. Registered(t) /\ Loose(t) = t.reaped /\ Loose(u) = t.reaped
      BY <1>2, <2>7, <2>10, <2>13 DEF JobOk, Loose
    <3>2. \A j \in t.reaped : session_exclusives[j] = Owns(j)
      BY <1>2, <3>1 DEF Registered
    <3>3. \A j \in Keys \ Loose(u) : Agrees(j)
      BY <3>1 DEF Registered
    <3> QED
      BY <2>7, <2>10, <3>2, <3>3 DEF Registered, TakesFor, ClaimsKeys, EvictsOwner
  <2>14. ASSUME AllAnswered PROVE Viewed(u)
    <3>1. Viewed(t) /\ Unseen(t) = t.reaped /\ Unseen(u) = t.reaped
      BY <1>2, <2>7, <2>10, <2>14 DEF JobOk, Unseen
    <3> QED
      BY <2>10, <3>1 DEF Viewed
  <2> QED
    BY <1>2, <2>9, <2>11, <2>12, <2>13, <2>14, CalmJob DEF JobOk
<1>5. CASE t.reaped # {} \/ task' # [task EXCEPT ![p] = Idle]
  <2>1. PICK k \in t.reaped :
          task' = [task EXCEPT ![p] = [t EXCEPT !.reaped = @ \ {k}, !.pc = "clean", !.target = k,
                                                !.snapshot = TRUE, !.then = "sweep_clean"]]
    BY <1>0, <1>1, <1>5, Zenon DEF SweepClean
  <2> QED
    BY <1>0, <1>4, <2>1, Zenon
<1> QED
  BY <1>3, <1>5

-----------------------------------------------------------------------------
(* Requests, sweeps and what happens to the children. *)

\* A task may start only when nobody is at work.
LEMMA NobodyAtWork ==
  ASSUME OneAtATime, NEW p \in Procs, Solo(p), Cardinality(Active) < MaxActive
  PROVE  task = [q \in Procs |-> Idle]
<1>1. Active \subseteq {p}
  BY IdleJob DEF Solo, Alone, Active, At
<1>2. Active = {} \/ Active = {p}
  BY <1>1
<1>3. Cardinality({p}) = 1
  BY FS_Singleton
<1>4. Active = {}
  BY <1>2, <1>3 DEF OneAtATime
<1>5. task[p] = Idle
  BY <1>4, SoloParts DEF Active, At, Placed
<1>6. task \in [Procs -> Job] /\ \A q \in Procs : task[q] = Idle
  BY <1>5 DEF Solo, Alone, JobTypes
<1> QED
  BY <1>6

LEMMA AnyoneAlone ==
  ASSUME NEW p \in Procs, Solo(p), task = [q \in Procs |-> Idle], NEW c \in Procs
  PROVE  Solo(c)
BY DEF Solo, Alone

LEMMA RequestSolo ==
  ASSUME NEW c \in Clients, Solo(c), task[c] = Idle, NEW r \in Requests, Request(c, r)
  PROVE  Solo(c)'
<1>1. PICK p \in Procs : p = c
  BY DEF Procs
<1>2. JobTypes /\ JobOk(Idle) /\ MapsStay /\ Kin /\ Solo(p)
  BY <1>1, SoloParts DEF Request, MapsStay, registryVars
<1>3. PICK pc \in JobPcs : pc = CASE r.op = "help" -> "help_get"
                             [] r.op = "kill" -> "kill_get"
                             [] OTHER -> IF r.excl = {} THEN "lookup" ELSE "xlock"
  BY DEF JobPcs, Working, Opening
<1>4. /\ r.op \in Ops /\ r.key \in Keys /\ r.excl \in SUBSET XKeys /\ r.ttl \in BOOLEAN /\ r.bad_args \in BOOLEAN
  BY SessionsAssumption
<1>5. PICK u : u = [Idle EXCEPT !.op = r.op, !.key = r.key, !.excl = r.excl, !.ttl = r.ttl,
                                !.bad_args = r.bad_args, !.pc = pc]
  OBVIOUS
<1>6. u \in Job /\ u.op = r.op /\ u.key = r.key /\ u.excl = r.excl /\ u.bad_args = r.bad_args
      /\ u.pc = pc /\ u.reaped = Idle.reaped
  BY <1>4, <1>5, IdleJob DEF Job
<1>7. task' = [task EXCEPT ![p] = u]
  BY <1>1, <1>3, <1>5 DEF Request
<1>8. OnlyJob(p) /\ task'[p] = u
  BY <1>2, <1>6, <1>7, NewJob
<1>9. /\ u.pc \in {"help_get", "kill_get", "lookup", "xlock"} /\ u.reaped = {}
      /\ u.pc = "lookup" => u.excl = {}
  BY <1>3, <1>4, <1>6, IdleJob DEF Ops
<1> USE DEF Working, Bound, Taking, Claiming, Calling, Opening, Sweeping
<1>10. Placed(u)
  BY <1>4, <1>6, <1>9 DEF Placed, TakesFor, EvictsOwner, HelpClaimsNone, AllAnswered
<1>11. Stored(u)
  BY <1>9 DEF Stored, TakesFor, ClaimsKeys
<1>12. HelpClaimsNone => Registered(u)
  BY <1>2, <1>9, IdleJob DEF JobOk, Registered, Loose, TakesFor, ClaimsKeys, EvictsOwner
<1>13. AllAnswered => Viewed(u)
  BY <1>2, <1>9, IdleJob DEF JobOk, Viewed, Unseen
<1> QED
  BY <1>1, <1>2, <1>8, <1>10, <1>11, <1>12, <1>13, CalmJob DEF JobOk

LEMMA SweepStartSolo ==
  ASSUME Solo(Cleaner), task[Cleaner] = Idle, SweepStart
  PROVE  Solo(Cleaner)'
<1>1. PICK p \in Procs : p = Cleaner
  BY DEF Procs
<1>2. JobTypes /\ CachedUnderKey /\ JobOk(Idle) /\ MapsStay /\ Kin /\ Solo(p)
  BY <1>1, SoloParts DEF SweepStart, MapsStay, registryVars
<1>3. PICK pc \in JobPcs : pc = "sweep"
  BY DEF JobPcs, Sweeping
<1>4. PICK cached \in SUBSET (Keys \X DOMAIN session) : cached = {<<k, stdio[k]>> : k \in {j \in Keys : stdio[j] # 0}}
  <2>1. \A k \in {j \in Keys : stdio[j] # 0} : <<k, stdio[k]>> \in Keys \X DOMAIN session
    BY <1>2 DEF CachedUnderKey
  <2>2. {<<k, stdio[k]>> : k \in {j \in Keys : stdio[j] # 0}} \subseteq Keys \X DOMAIN session
    BY <2>1, Zenon
  <2> QED
    BY <2>2, Zenon
<1>5. DOMAIN session \subseteq Nat
  BY <1>2 DEF JobTypes
<1>6. PICK arcs \in SUBSET Nat : arcs = {e[2] : e \in cached}
  BY <1>5
<1>7. cached \in SUBSET (Keys \cup (Keys \X Nat))
  BY <1>5
<1>8. PICK u : u = [Idle EXCEPT !.pc = pc, !.todo = cached, !.arcs = arcs]
  OBVIOUS
<1>9. /\ u \in Job /\ u.op = Idle.op /\ u.excl = Idle.excl /\ u.bad_args = Idle.bad_args
      /\ u.pc = pc /\ u.reaped = Idle.reaped /\ u.todo = cached
  BY <1>7, <1>8, IdleJob DEF Job
<1>10. task' = [task EXCEPT ![p] = u]
  BY <1>1, <1>3, <1>4, <1>6, <1>8 DEF SweepStart
<1>11. OnlyJob(p) /\ task'[p] = u
  BY <1>2, <1>9, <1>10, NewJob
<1>12. u.pc = "sweep" /\ u.reaped = {} /\ u.excl = {} /\ ~u.bad_args
  BY <1>3, <1>9, IdleJob
<1> USE DEF Working, Bound, Taking, Claiming, Calling, Opening, Sweeping
<1>13. Placed(u)
  BY <1>9, <1>12 DEF Placed, TakesFor, EvictsOwner
<1>14. Stored(u)
  BY <1>12 DEF Stored, TakesFor, ClaimsKeys
<1>15. HelpClaimsNone => Registered(u)
  BY <1>2, <1>12, IdleJob DEF JobOk, Registered, Loose, TakesFor, ClaimsKeys, EvictsOwner
<1>16. AllAnswered => Viewed(u)
  BY <1>2, <1>12, IdleJob DEF JobOk, Viewed, Unseen
<1> QED
  BY <1>1, <1>2, <1>11, <1>13, <1>14, <1>15, <1>16, CalmJob DEF JobOk

LEMMA EnvironmentSolo ==
  ASSUME NEW p \in Procs, Solo(p), NEW s \in DOMAIN session, ChildExits(s) \/ Ages(s) \/ LifecycleChanged(s)
  PROVE  Solo(p)'
<1>1. JobTypes /\ JobOk(task[p]) /\ MapsStay /\ UNCHANGED task
  BY SoloParts DEF ChildExits, Ages, LifecycleChanged, MapsStay, registryVars
<1>2. session[s] \in Session
  BY <1>1, SessionOf
<1>3. PICK r : /\ session' = [session EXCEPT ![s] = r]
               /\ \/ r = [session[s] EXCEPT !.alive = FALSE]
                  \/ r = [session[s] EXCEPT !.stale = TRUE]
                  \/ r = [session[s] EXCEPT !.auto_reap_allowed = ~@]
  BY DEF ChildExits, Ages, LifecycleChanged
<1>4. r \in Session /\ r.key = session[s].key /\ r.daemon_exclusive = session[s].daemon_exclusive
  BY <1>2, <1>3 DEF Session
<1>5. Kin
  BY <1>1, <1>3, <1>4, Rewritten DEF JobTypes, Kin
<1>6. OnlyJob(p) /\ task'[p] = task[p]
  BY <1>1 DEF JobTypes, OnlyJob
<1> QED
  BY <1>1, <1>5, <1>6, CalmJob

LEMMA RemovalSolo ==
  ASSUME NEW p \in Procs, Solo(p), RemovalStep(p)
  PROVE  Solo(p)'
BY RemoveSessionSolo, CleanupTakeSolo, CleanupOwnersSolo, RemoveSnapshotSolo DEF RemovalStep

LEMMA ClientSolo ==
  ASSUME NEW p \in Procs, Solo(p),
         ClientStep(p) \/ SubscriptionPoll(p) \/ SubscriptionStop(p) \/ SubscriptionAborted(p)
  PROVE  Solo(p)'
<1>1. CASE \/ AcquireExclusiveLock(p) \/ EvictScan(p) \/ EvictNext(p) \/ EvictKill(p)
           \/ Lookup(p) \/ AcquireInitLock(p) \/ TryReuse(p) \/ ReuseGone(p) \/ Spawn(p)
  BY <1>1, AcquireExclusiveLockSolo, EvictScanSolo, EvictNextSolo, EvictKillSolo, LookupSolo,
     AcquireInitLockSolo, TryReuseSolo, ReuseGoneSolo, SpawnSolo
<1>2. CASE \/ InsertSession(p) \/ InsertSnapshot(p) \/ RegisterSession(p) \/ RegisterOwners(p) \/ HandOut(p)
           \/ MarkStarted(p) \/ StartCall(p) \/ EndCall(p) \/ MarkFinished(p)
  BY <1>2, InsertSessionSolo, InsertSnapshotSolo, RegisterSessionSolo, RegisterOwnersSolo, HandOutSolo,
     MarkStartedSolo, StartCallSolo, EndCallSolo, MarkFinishedSolo
<1>3. CASE \/ HelpGet(p) \/ SubscribeLock(p) \/ SubscribeEnsure(p) \/ SubscriptionRelease(p)
           \/ KillGet(p) \/ KillLock(p) \/ KillWait(p) \/ Killed(p)
           \/ SubscriptionPoll(p) \/ SubscriptionStop(p) \/ SubscriptionAborted(p)
  BY <1>3, HelpGetSolo, SubscriptionLocksSolo, SubscribeEnsureSolo, SubscriptionReleaseSolo, KillGetSolo,
     KillLockSolo, KillWaitSolo, KilledSolo, SubscriptionAbortedSolo
<1> QED
  BY <1>1, <1>2, <1>3, RemovalSolo DEF ClientStep

LEMMA SweepSolo ==
  ASSUME Solo(Cleaner), SweepStep
  PROVE  Solo(Cleaner)'
BY SweepNextSolo, SweepKillSolo, SweepRemoveSolo, SweepCleanSolo, RemovalSolo DEF SweepStep, Procs

\* Whoever takes a step of a job is not idle, so it is the one at work.
LEMMA AtWork ==
  ASSUME NEW q \in Procs,
         ClientStep(q) \/ SubscriptionPoll(q) \/ SubscriptionStop(q) \/ SubscriptionAborted(q) \/ RemovalStep(q)
  PROVE  task[q].pc # "idle"
<1>1. CASE RemovalStep(q)
  BY <1>1 DEF RemovalStep, RemoveSession, CleanupTake, CleanupOwners, RemoveSnapshot, At
<1>2. CASE \/ AcquireExclusiveLock(q) \/ EvictScan(q) \/ EvictNext(q) \/ EvictKill(q)
           \/ Lookup(q) \/ AcquireInitLock(q) \/ TryReuse(q) \/ ReuseGone(q) \/ Spawn(q)
  BY <1>2 DEF AcquireExclusiveLock, EvictScan, EvictNext, EvictKill, Lookup, AcquireInitLock, TryReuse,
              ReuseGone, Spawn, At
<1>3. CASE \/ InsertSession(q) \/ InsertSnapshot(q) \/ RegisterSession(q) \/ RegisterOwners(q) \/ HandOut(q)
           \/ MarkStarted(q) \/ StartCall(q) \/ EndCall(q) \/ MarkFinished(q)
  BY <1>3 DEF InsertSession, InsertSnapshot, RegisterSession, RegisterOwners, HandOut, MarkStarted, StartCall,
              EndCall, MarkFinished, At
<1>4. CASE \/ HelpGet(q) \/ SubscribeLock(q) \/ SubscribeEnsure(q) \/ SubscriptionRelease(q)
           \/ KillGet(q) \/ KillLock(q) \/ KillWait(q) \/ Killed(q)
           \/ SubscriptionPoll(q) \/ SubscriptionStop(q) \/ SubscriptionAborted(q)
  BY <1>4 DEF HelpGet, SubscribeLock, SubscribeEnsure, SubscriptionRelease, KillGet, KillLock, KillWait,
              Killed, SubscriptionPoll, SubscriptionStop, SubscriptionAborted, At
<1> QED
  BY <1>1, <1>2, <1>3, <1>4 DEF ClientStep

LEMMA SweeperAtWork ==
  ASSUME SweepStep
  PROVE  task[Cleaner].pc # "idle"
BY AtWork DEF SweepStep, SweepNext, SweepKill, SweepRemove, SweepClean, At, Procs

LEMMA Worker ==
  ASSUME NEW p \in Procs, Solo(p), NEW q \in Procs, task[q].pc # "idle"
  PROVE  p = q
BY IdleJob DEF Solo, Alone

\* One request, kill or sweep at a time: SerialInv is inductive.
LEMMA SerialInvNext ==
  ASSUME OneAtATime, SerialInv, [Next]_vars
  PROVE  SerialInv'
<1>1. PICK p \in Procs : Solo(p)
  BY DEF SerialInv
<1>2. SUFFICES \E q \in Procs : Solo(q)'
  BY DEF SerialInv
<1>3. ASSUME NEW c \in Clients, NEW r \in Requests, Request(c, r)
      PROVE  Solo(c)'
  <2>1. task = [q \in Procs |-> Idle] /\ c \in Procs
    BY <1>1, <1>3, NobodyAtWork DEF Request, Procs
  <2> QED
    BY <1>1, <1>3, <2>1, AnyoneAlone, RequestSolo
<1>4. ASSUME NEW c \in Clients,
             ClientStep(c) \/ SubscriptionPoll(c) \/ SubscriptionStop(c) \/ SubscriptionAborted(c)
      PROVE  Solo(c)'
  <2>1. c \in Procs
    BY DEF Procs
  <2>2. p = c
    BY <1>1, <1>4, <2>1, AtWork, Worker
  <2> QED
    BY <1>1, <1>4, <2>1, <2>2, ClientSolo
<1>5. CASE SweepStart
  <2>1. task = [q \in Procs |-> Idle] /\ Cleaner \in Procs
    BY <1>1, <1>5, NobodyAtWork DEF SweepStart, Procs
  <2>2. Solo(Cleaner)'
    BY <1>1, <1>5, <2>1, AnyoneAlone, SweepStartSolo
  <2> QED
    BY <2>1, <2>2
<1>6. CASE SweepStep
  <2>1. Cleaner \in Procs
    BY DEF Procs
  <2>2. p = Cleaner
    BY <1>1, <1>6, <2>1, SweeperAtWork, Worker
  <2> QED
    BY <1>1, <1>6, <2>2, SweepSolo
<1>7. ASSUME NEW s \in DOMAIN session, ChildExits(s) \/ Ages(s) \/ LifecycleChanged(s)
      PROVE  Solo(p)'
  BY <1>1, <1>7, EnvironmentSolo
<1>8. CASE UNCHANGED vars
  <2>1. JobTypes /\ JobOk(task[p]) /\ Kin
    BY <1>1, <1>8, SoloParts DEF vars
  <2>2. MapsStay /\ UNCHANGED task
    BY <1>8 DEF vars, registryVars, MapsStay
  <2>3. OnlyJob(p) /\ task'[p] = task[p]
    BY <2>1, <2>2 DEF JobTypes, OnlyJob
  <2> QED
    BY <1>1, <2>1, <2>2, <2>3, CalmJob
<1>9. Clients \subseteq Procs
  BY DEF Procs
<1> QED
  BY <1>3, <1>4, <1>5, <1>6, <1>7, <1>8, <1>9 DEF Next

LEMMA SerialInvInit ==
  ASSUME Init
  PROVE  SerialInv
<1>1. PICK p \in Procs : p = Cleaner
  BY DEF Procs
<1>2. JobTypes
  <2>1. {} \in SUBSET XKeys
    OBVIOUS
  <2> QED
    BY <2>1, IdleJob DEF Init, JobTypes
<1>3. CachedUnderKey /\ Alone(p)
  BY DEF Init, CachedUnderKey, Alone
<1>4. PICK u : u = Idle
  OBVIOUS
<1>5. u.pc = "idle" /\ u.reaped = {} /\ u.op = "none" /\ ~u.bad_args
  BY <1>4, IdleJob
<1> USE DEF Working, Bound, Taking, Claiming, Calling, Opening, Sweeping
<1>6. Placed(u)
  BY <1>4, <1>5 DEF Placed, TakesFor, EvictsOwner
<1>7. Stored(u)
  BY <1>5 DEF Stored, TakesFor, ClaimsKeys
<1>8. Registered(u)
  <2>1. \A k \in Keys : k # None
    BY SessionsAssumption
  <2>2. \A k \in Keys : Agrees(k)
    BY <2>1 DEF Init, Agrees, Owns, Holds
  <2> QED
    BY <1>5, <2>2 DEF Registered, TakesFor, ClaimsKeys, EvictsOwner
<1>9. Viewed(u)
  BY <1>5 DEF Init, Viewed, Shown
<1>10. task[p] = u
  BY <1>4 DEF Init
<1> QED
  BY <1>2, <1>3, <1>6, <1>7, <1>8, <1>9, <1>10 DEF SerialInv, Solo, JobOk

LEMMA SerialInvariant ==
  ASSUME OneAtATime
  PROVE  Spec => []SerialInv
BY SerialInvInit, SerialInvNext, PTL DEF Spec

LEMMA QuietAgrees ==
  ASSUME SerialInv
  PROVE  (HelpClaimsNone => RegistryAgrees) /\ (AllAnswered => ViewAgrees)
<1>1. PICK p \in Procs : Solo(p)
  BY DEF SerialInv
<1>2. Quiet => task[p].pc = "idle"
  BY DEF Quiet, Active, At
<1>3. Quiet => Loose(task[p]) = {} /\ Unseen(task[p]) = {}
  BY <1>2, SettledJob DEF Settled, Taking, Claiming, Calling
<1>4. ASSUME HelpClaimsNone, Quiet PROVE \A k \in Keys : Agrees(k)
  BY <1>1, <1>3, <1>4 DEF Solo, JobOk, Registered
<1>5. ASSUME AllAnswered, Quiet PROVE \A k \in Keys : Shown(k)
  BY <1>1, <1>3, <1>5 DEF Solo, JobOk, Viewed
<1>6. HelpClaimsNone => RegistryAgrees
  BY <1>4 DEF RegistryAgrees, Agrees, Owns, Holds
<1>7. AllAnswered => ViewAgrees
  BY <1>5 DEF ViewAgrees, Shown
<1> QED
  BY <1>6, <1>7

\* Between requests the registry of exclusive keys says what the cached
\* sessions say of themselves, when requests do not overlap and a help request
\* claims nothing.
THEOREM RegistryAlwaysAgrees ==
  ASSUME OneAtATime, HelpClaimsNone
  PROVE  Spec => []RegistryAgrees
BY SerialInvariant, QuietAgrees, PTL

\* Between requests "uxc daemon sessions" shows the cached sessions, none of
\* them active, when requests do not overlap and their arguments fit.
THEOREM ViewAlwaysAgrees ==
  ASSUME OneAtATime, AllAnswered
  PROVE  Spec => []ViewAgrees
BY SerialInvariant, QuietAgrees, PTL
=============================================================================
