------------------------------ MODULE McpPool -------------------------------
(***************************************************************************)
(* The backend pool of the MCP gateway daemon (kiro_crew/mcp_gateway):     *)
(* BackendPool of pool.py with the coroutines of gatewayd.py that use it.  *)
(* Stub connections acquire one shared backend per key, lose it when it    *)
(* dies and are rebound to a new one; an idle sweep, LRU eviction, the     *)
(* heartbeat and the blue-green cutover of a credential rotation take      *)
(* backends out again; a stop shuts the daemon down.                       *)
(*                                                                         *)
(* Everything is asyncio code: a step runs from one suspension to the      *)
(* next.  No section under the pool's _lock suspends, so that lock needs   *)
(* no variable; the per-key spawn locks are held across suspensions, and   *)
(* their identity matters because the table entry of a lock may be removed *)
(* while coroutines still wait for it.                                     *)
(***************************************************************************)
EXTENDS Naturals, FiniteSets

CONSTANTS
  Keys,          \* PoolKey digests
  Conns,         \* coroutines that acquire: stub connections, prewarm passes
  Warmers,       \* those of them that prewarm
  KeyOf,         \* the key of each
  Procs,         \* identities of backends, reused once nothing refers to them
  KeyAt,         \* pool_key of each
  NumLocks,      \* bound of the model: asyncio.Lock objects alive at once
  None,
  MaxBackends,   \* self._max_backends
  SpawnRetries,  \* _MAX_SPAWN_DRAIN_RETRIES
  MaxDrains,     \* bound of the model: credential rotations
  MayStop        \* may the daemon be stopped?

Locks == 1..NumLocks

ASSUME McpPoolAssumption ==
  /\ Warmers \subseteq Conns
  /\ KeyOf \in [Conns -> Keys] /\ KeyAt \in [Procs -> Keys]
  /\ IsFiniteSet(Conns) /\ IsFiniteSet(Keys)
  /\ None \notin Keys \cup Conns \cup Procs \cup Locks
  /\ NumLocks \in Nat \ {0}
  /\ MaxBackends \in Nat \ {0} /\ SpawnRetries \in Nat /\ MaxDrains \in Nat
  /\ MayStop \in BOOLEAN

VARIABLES
  active,     \* self._backends
  draining,   \* self._draining
  expired,    \* those of them whose deadline has passed
  epoch,      \* self._drain_epoch
  reserved,   \* self._reserved_digests
  spawnLock,  \* self._spawn_locks
  holder,     \* per lock: the coroutine that holds it
  waiters,    \* per lock: who waits for it, in any order
  status,     \* per backend: up, marked (_dead_reason set), exited
  gen,        \* per running backend: the drain epoch when its spawn began
  pinned,     \* prewarmed backends
  doomed,     \* per backend: who is running its shutdown()
  pc, be,     \* per coroutine: where it stands, the backend in its hands
  seen,       \* per coroutine: the drain epoch when its spawn began
  tries,      \* per coroutine: spawns discarded because of a cutover
  again,      \* connections that are being rebound after BackendGone
  probing,    \* the heartbeat is between its snapshot and reap_draining
  hbTodo,     \* the backends of the snapshot not yet probed
  hbAt,       \* the backend whose ping is being written
  rotating,   \* a cutover is between its idle eviction and its drain
  phase       \* of the daemon: run, cancel, close, join, stopped

poolVars == <<active, draining, expired, epoch, reserved, pinned>>
lockVars == <<spawnLock, holder, waiters>>
procVars == <<status, gen>>
connVars == <<pc, be, seen, tries, again>>
loopVars == <<probing, hbTodo, hbAt, rotating>>
vars == <<active, draining, expired, epoch, reserved, pinned, spawnLock, holder,
          waiters, status, gen, doomed, pc, be, seen, tries, again, probing,
          hbTodo, hbAt, rotating, phase>>

Owners == {"no", "conn", "shield", "prime", "lru", "sweep", "cred", "beat", "reap", "stop"}
Holding == {"replacing", "spawning", "discarding", "failing"}

TypeOK ==
  /\ active \in [Keys -> Procs \cup {None}]
  /\ draining \subseteq Procs /\ expired \subseteq draining /\ pinned \subseteq Procs
  /\ epoch \in 0..MaxDrains
  /\ reserved \in [Keys -> Nat]
  /\ spawnLock \in [Keys -> Locks \cup {None}]
  /\ holder \in [Locks -> Conns \cup {None}]
  /\ waiters \in [Locks -> SUBSET Conns]
  /\ status \in [Procs -> {"up", "marked", "exited"}]
  /\ gen \in [Procs -> 0..MaxDrains]
  /\ doomed \in [Procs -> Owners]
  /\ pc \in [Conns -> Holding \cup {"idle", "queued", "priming", "reaping", "attached", "flushing"}]
  /\ be \in [Conns -> Procs \cup {None}]
  /\ seen \in [Conns -> 0..MaxDrains]
  /\ tries \in [Conns -> 0..SpawnRetries]
  /\ again \subseteq Conns
  /\ hbTodo \subseteq Procs /\ hbAt \in Procs \cup {None}
  /\ probing \in BOOLEAN /\ rotating \in BOOLEAN
  /\ phase \in {"run", "cancel", "close", "join", "stopped"}

Init ==
  /\ active = [k \in Keys |-> None]
  /\ draining = {} /\ expired = {} /\ pinned = {} /\ epoch = 0
  /\ reserved = [k \in Keys |-> 0]
  /\ spawnLock = [k \in Keys |-> None]
  /\ holder = [l \in Locks |-> None] /\ waiters = [l \in Locks |-> {}]
  /\ status = [p \in Procs |-> "exited"] /\ gen = [p \in Procs |-> 0]
  /\ doomed = [p \in Procs |-> "no"]
  /\ pc = [c \in Conns |-> "idle"] /\ be = [c \in Conns |-> None]
  /\ seen = [c \in Conns |-> 0] /\ tries = [c \in Conns |-> 0]
  /\ again = {}
  /\ probing = FALSE /\ hbTodo = {} /\ hbAt = None /\ rotating = FALSE
  /\ phase = "run"

----------------------------------------------------------------------------
(* Helpers *)

Pooled == {active[k] : k \in Keys} \ {None}
Running(p) == status[p] \in {"up", "marked"}
Stubs(p) == {c \in Conns : pc[c] \in {"attached", "flushing"} /\ be[c] = p}  \* refcount
Handed(k) == {c \in Conns : pc[c] \in {"priming", "reaping"} /\ KeyOf[c] = k}

\* is_alive of the backend registered for the key.
Healthy(k) == active[k] # None /\ status[active[k]] = "up"

Unreferenced(p) ==
  /\ ~Running(p) /\ doomed[p] = "no"
  /\ p \notin Pooled \cup draining \cup pinned \cup {be[c] : c \in Conns} \cup hbTodo \cup {hbAt}

Idle(l) == holder[l] = None /\ waiters[l] = {}                \* _lock_idle
Unused(l) == Idle(l) /\ \A k \in Keys : spawnLock[k] # l
FreshLock(l) == Unused(l) /\ \A m \in Locks : Unused(m) => l <= m

\* Mutant: the reservation is not looked at.
Evictable_Unreserved(p) == p \in Pooled /\ Stubs(p) = {}

\* Neither attached nor promised to anyone.
Evictable(p) == p \in Pooled /\ Stubs(p) = {} /\ reserved[KeyAt[p]] = 0

Doom(S, owner) == [p \in Procs |-> IF p \in S THEN owner ELSE doomed[p]]
Without(S) == [k \in Keys |-> IF active[k] \in S THEN None ELSE active[k]]

\* evict, evict_idle and LRU eviction drop the spawn lock with the backend.
LocksWithout(S) == [k \in Keys |-> IF active[k] \in S THEN None ELSE spawnLock[k]]

Move(c, l, p) == pc' = [pc EXCEPT ![c] = l] /\ be' = [be EXCEPT ![c] = p]

\* The caller gets the backend.  The connection's first acquire attaches, and a
\* prewarm pass pins, without suspending; only a rebind primes it in between,
\* under the reservation.
Serve(c, p) ==
  \/ /\ c \in again
     /\ Move(c, "priming", p)
     /\ reserved' = [reserved EXCEPT ![KeyOf[c]] = @ + 1]
     /\ UNCHANGED pinned
  \/ /\ c \in Warmers
     /\ Move(c, "idle", None)
     /\ pinned' = pinned \cup {p}
     /\ UNCHANGED reserved
  \/ /\ c \notin again \cup Warmers
     /\ Move(c, "attached", p)
     /\ UNCHANGED <<reserved, pinned>>

\* Outcome of get_or_create: an error.  The connection is over.
Fail(c) ==
  /\ Move(c, "idle", None)
  /\ again' = again \ {c}
  /\ seen' = [seen EXCEPT ![c] = 0] /\ tries' = [tries EXCEPT ![c] = 0]

\* The finally clause: the released lock loses its entry in the table when no
\* backend landed under the key and nobody waits for it.
Release(c, l, entry) ==
  /\ holder' = [holder EXCEPT ![l] = None]
  /\ spawnLock' =
       [spawnLock EXCEPT ![KeyOf[c]] =
          IF active'[KeyOf[c]] = None /\ entry = l /\ waiters'[l] = {} THEN None ELSE entry]

Keep(c, l, entry) ==
  /\ holder' = [holder EXCEPT ![l] = c]
  /\ spawnLock' = [spawnLock EXCEPT ![KeyOf[c]] = entry]

----------------------------------------------------------------------------
(* get_or_create *)

\* Start a process, if the circuit breaker allows it: here, a gate that may be
\* open or shut.
StartSpawn(c, l, entry) ==
  \/ /\ Move(c, "spawning", None)
     /\ seen' = [seen EXCEPT ![c] = epoch] /\ tries' = [tries EXCEPT ![c] = 0]
     /\ Keep(c, l, entry)
     /\ UNCHANGED again
  \/ /\ Fail(c)
     /\ Release(c, l, entry)

\* Under the spawn lock, with no healthy backend: a dead one is evicted, the
\* lock kept, and shut down first.
UnderLock(c, l, entry) ==
  LET b == active[KeyOf[c]] IN
  \/ /\ b # None
     /\ active' = [active EXCEPT ![KeyOf[c]] = None]
     /\ doomed' = [doomed EXCEPT ![b] = "conn"]
     /\ Move(c, "replacing", b)
     /\ Keep(c, l, entry)
     /\ UNCHANGED <<seen, tries, again>>
  \/ /\ b = None
     /\ UNCHANGED <<active, doomed>>
     /\ StartSpawn(c, l, entry)

\* The caller finds a healthy backend; or waits for the spawn lock; or finds the
\* lock idle, or creates one, and goes on without suspending.
Lookup(c) ==
  LET k == KeyOf[c] IN
  \/ /\ Healthy(k)
     /\ Serve(c, active[k])
     /\ UNCHANGED <<active, doomed, lockVars, seen, tries, again>>
  \/ /\ ~Healthy(k) /\ spawnLock[k] # None /\ ~Idle(spawnLock[k])
     /\ waiters' = [waiters EXCEPT ![spawnLock[k]] = @ \cup {c}]
     /\ Move(c, "queued", None)
     /\ UNCHANGED <<active, doomed, reserved, pinned, spawnLock, holder, seen, tries, again>>
  \/ /\ ~Healthy(k)
     /\ \E l \in Locks :
          /\ IF spawnLock[k] = None THEN FreshLock(l) ELSE spawnLock[k] = l /\ Idle(l)
          /\ UNCHANGED <<waiters, reserved, pinned>>
          /\ UnderLock(c, l, l)

\* A stub's ensure_backend (or first message), or a prewarm pass.
Ensure(c) ==
  /\ phase = "run" \/ (phase = "cancel" /\ c \in Warmers)
  /\ pc[c] = "idle"
  /\ Lookup(c)
  /\ UNCHANGED <<draining, expired, epoch, procVars, loopVars, phase>>

\* A waiter gets the released lock and looks again.  It runs in a
\* later turn of the event loop, and others may run before it.
Woken(c) ==
  /\ pc[c] = "queued"
  /\ \E l \in Locks :
       /\ holder[l] = None /\ c \in waiters[l]
       /\ waiters' = [waiters EXCEPT ![l] = @ \ {c}]
       /\ \/ /\ Healthy(KeyOf[c])
             /\ Serve(c, active[KeyOf[c]])
             /\ UNCHANGED <<active, doomed, spawnLock, holder, seen, tries, again>>
          \/ /\ ~Healthy(KeyOf[c])
             /\ UNCHANGED <<reserved, pinned>>
             /\ UnderLock(c, l, spawnLock[KeyOf[c]])
  /\ UNCHANGED <<draining, expired, epoch, procVars, loopVars, phase>>

\* The stale backend's shutdown() has returned.
Replaced(c) ==
  /\ pc[c] = "replacing" /\ doomed[be[c]] = "no"
  /\ \E l \in Locks :
       /\ holder[l] = c
       /\ UNCHANGED <<poolVars, waiters>>
       /\ StartSpawn(c, l, spawnLock[KeyOf[c]])
  /\ UNCHANGED <<procVars, doomed, loopVars, phase>>

SpawnFail(c) ==
  /\ pc[c] = "spawning"
  /\ \E l \in Locks :
       /\ holder[l] = c
       /\ UNCHANGED <<poolVars, waiters>>
       /\ Release(c, l, spawnLock[KeyOf[c]])
  /\ Fail(c)
  /\ UNCHANGED <<procVars, doomed, loopVars, phase>>

\* Mutant: the epoch guard is not armed.
Admissible_Unarmed(c) == c \in Conns

\* No cutover since the spawn began.
Admissible(c) == seen[c] = epoch

\* Mutant: a collision overwrites.
Vacant_Overwrites(c) == c \in Conns

\* No collision.
Vacant(c) == active[KeyOf[c]] = None

\* spawn() has returned a backend: what add() finds decides what becomes of it.
Spawned(c, p) ==
  /\ pc[c] = "spawning" /\ KeyAt[p] = KeyOf[c] /\ Unreferenced(p)
  /\ status' = [status EXCEPT ![p] = "up"]
  /\ gen' = [gen EXCEPT ![p] = seen[c]]

AtCapacity == Cardinality({k \in Keys : active[k] # None}) >= MaxBackends

\* It is refused, and its caller shuts it down behind a shield: a cutover
\* advanced the epoch; another backend has the key; the pool is full.
Refused(c, p) ==
  /\ Spawned(c, p)
  /\ \/ /\ ~Admissible(c)
        /\ Move(c, "discarding", p)
     \/ /\ Admissible(c)
        /\ \/ ~Vacant(c)
           \/ AtCapacity /\ \A v \in Procs : Evictable(v) => v \in pinned
        /\ Move(c, "failing", p)
  /\ doomed' = [doomed EXCEPT ![p] = "shield"]
  /\ UNCHANGED <<poolVars, lockVars, seen, tries, again, loopVars, phase>>

\* It is registered and handed out, in the place of an idle one if need be.
Added(c, p) ==
  /\ Spawned(c, p)
  /\ Admissible(c) /\ Vacant(c)
  /\ \E V \in SUBSET {v \in Procs \ pinned : Evictable(v)} :
       /\ Cardinality(V) = IF AtCapacity THEN 1 ELSE 0
       /\ active' = [Without(V) EXCEPT ![KeyOf[c]] = p]
       /\ doomed' = Doom(V, "lru")
       /\ spawnLock' = LocksWithout(V)
  /\ Serve(c, p)
  /\ seen' = [seen EXCEPT ![c] = 0] /\ tries' = [tries EXCEPT ![c] = 0]
  /\ holder' = [l \in Locks |-> IF holder[l] = c THEN None ELSE holder[l]]
  /\ UNCHANGED <<draining, expired, epoch, waiters, again, loopVars, phase>>

\* Mutant: one retry too many.
MayRetry_OffByOne(c) == tries[c] <= SpawnRetries

MayRetry(c) == tries[c] < SpawnRetries

\* The refused backend is gone: spawn again after a cutover, up to the limit of
\* retries; otherwise the error is the caller's.
Discarded(c) ==
  /\ pc[c] \in {"discarding", "failing"} /\ doomed[be[c]] = "no"
  /\ UNCHANGED <<poolVars, waiters>>
  /\ \/ /\ pc[c] = "discarding" /\ MayRetry(c)
        /\ Move(c, "spawning", None)
        /\ seen' = [seen EXCEPT ![c] = epoch]
        /\ tries' = [tries EXCEPT ![c] = @ + 1]
        /\ UNCHANGED <<spawnLock, holder, again>>
     \/ /\ pc[c] = "failing" \/ ~MayRetry(c)
        /\ Fail(c)
        /\ \E l \in Locks : holder[l] = c /\ Release(c, l, spawnLock[KeyOf[c]])
  /\ UNCHANGED <<procVars, doomed, loopVars, phase>>

----------------------------------------------------------------------------
(* A connection and its backend *)

\* A forward raises BackendGone; what the old backend queued is flushed first.
Gone(c) ==
  /\ pc[c] = "attached" /\ status[be[c]] # "up"
  /\ Move(c, "flushing", be[c])
  /\ again' = again \cup {c}
  /\ UNCHANGED <<poolVars, lockVars, procVars, doomed, seen, tries, loopVars, phase>>

\* Then it detaches and acquires, or gives up if it never saw an initialize.
Rebind(c) ==
  /\ pc[c] = "flushing"
  /\ \/ Lookup(c)
     \/ Fail(c) /\ UNCHANGED <<active, reserved, pinned, doomed, lockVars>>
  /\ UNCHANGED <<draining, expired, epoch, procVars, loopVars, phase>>

\* Mutant: the reservation of a failed handshake is kept.
Unreserve_OnSuccess(c) ==
  reserved' = [reserved EXCEPT ![KeyOf[c]] = IF @ > 0 /\ pc'[c] = "attached" THEN @ - 1 ELSE @]

Unreserve(c) ==
  reserved' = [reserved EXCEPT ![KeyOf[c]] = IF @ > 0 THEN @ - 1 ELSE 0]

\* prime_initialize succeeds; attach_stub does not ask whether the backend is
\* still alive or still pooled.
Primed(c) ==
  /\ pc[c] = "priming"
  /\ Move(c, "attached", be[c])
  /\ again' = again \ {c}
  /\ Unreserve(c)
  /\ UNCHANGED <<active, draining, expired, epoch, pinned, lockVars, procVars, doomed,
                 seen, tries, loopVars, phase>>

\* The backend is dead, or dies, or fails its handshake.
PrimeFailed(c) ==
  /\ pc[c] = "priming" /\ status[be[c]] # "up"
  /\ Fail(c)
  /\ Unreserve(c)
  /\ UNCHANGED <<active, draining, expired, epoch, pinned, lockVars, procVars, doomed,
                 loopVars, phase>>

\* The handshake times out: the primer marks the backend and shuts it down,
\* still pooled and reserved.
PrimeTimeout(c) ==
  /\ pc[c] = "priming" /\ Running(be[c])
  /\ Move(c, "reaping", be[c])
  /\ status' = [status EXCEPT ![be[c]] = "marked"]
  /\ doomed' = [doomed EXCEPT ![be[c]] = IF @ = "no" THEN "prime" ELSE @]
  /\ UNCHANGED <<poolVars, lockVars, gen, seen, tries, again, loopVars, phase>>

PrimeReaped(c) ==
  /\ pc[c] = "reaping" /\ doomed[be[c]] = "no"
  /\ Fail(c)
  /\ Unreserve(c)
  /\ UNCHANGED <<active, draining, expired, epoch, pinned, lockVars, procVars, doomed,
                 loopVars, phase>>

\* The stub disconnects; the last one with a call in flight kills the backend.
Disconnect(c) ==
  /\ pc[c] = "attached"
  /\ Move(c, "idle", None)
  /\ \/ UNCHANGED status
     \/ /\ Stubs(be[c]) = {c} /\ status[be[c]] = "up"
        /\ status' = [status EXCEPT ![be[c]] = "marked"]
  /\ UNCHANGED <<poolVars, lockVars, gen, doomed, seen, tries, again, loopVars, phase>>

----------------------------------------------------------------------------
(* Backends die, and are shut down *)

\* The handshake fails, a pipe breaks, a reply cannot be routed: marked dead.
MarkDead(p) ==
  /\ status[p] = "up"
  /\ status' = [status EXCEPT ![p] = "marked"]
  /\ UNCHANGED <<poolVars, lockVars, gen, doomed, connVars, loopVars, phase>>

Exit(p) ==
  /\ Running(p)
  /\ status' = [status EXCEPT ![p] = "exited"] /\ gen' = [gen EXCEPT ![p] = 0]
  /\ UNCHANGED <<poolVars, lockVars, doomed, connVars, loopVars, phase>>

\* A shutdown() has run to its end, SIGKILL included.
ShutDown(p) ==
  /\ doomed[p] # "no"
  /\ doomed' = [doomed EXCEPT ![p] = "no"]
  /\ status' = [status EXCEPT ![p] = "exited"] /\ gen' = [gen EXCEPT ![p] = 0]
  /\ UNCHANGED <<poolVars, lockVars, connVars, loopVars, phase>>

----------------------------------------------------------------------------
(* The loops of the daemon *)

Looping == phase \in {"run", "cancel"}
Quiet(owner) == \A p \in Procs : doomed[p] # owner

\* evict_idle takes out some (the old ones) or all evictable backends, then
\* shuts them down one after the other.
EvictIdle(S, owner) ==
  /\ active' = Without(S)
  /\ spawnLock' = LocksWithout(S)
  /\ doomed' = Doom(S, owner)
  /\ UNCHANGED <<draining, expired, epoch, reserved, pinned, holder, waiters, procVars, connVars>>

IdleSweep ==
  /\ Looping /\ Quiet("sweep")
  /\ \E S \in SUBSET {p \in Procs \ pinned : Evictable(p)} : S # {} /\ EvictIdle(S, "sweep")
  /\ UNCHANGED <<loopVars, phase>>

\* A prewarmed key falls out of the hot set.
Unpin(p) ==
  /\ p \in pinned
  /\ pinned' = pinned \ {p}
  /\ UNCHANGED <<active, draining, expired, epoch, reserved, lockVars, procVars, doomed,
                 connVars, loopVars, phase>>

\* A credential rotation evicts every idle backend, pinned ones too ...
Rotate ==
  /\ Looping /\ ~rotating /\ epoch < MaxDrains
  /\ rotating' = TRUE
  /\ EvictIdle({p \in Procs : Evictable(p)}, "cred")
  /\ UNCHANGED <<probing, hbTodo, hbAt, phase>>

\* ... and when they are gone moves the others to the draining list.
DrainAll ==
  /\ Looping /\ rotating /\ Quiet("cred")
  /\ rotating' = FALSE
  /\ epoch' = epoch + 1
  /\ active' = [k \in Keys |-> None]
  /\ draining' = draining \cup Pooled
  /\ spawnLock' = [k \in Keys |->
       IF active[k] # None /\ spawnLock[k] # None /\ Idle(spawnLock[k]) THEN None ELSE spawnLock[k]]
  /\ UNCHANGED <<expired, reserved, pinned, holder, waiters, procVars, doomed, connVars,
                 probing, hbTodo, hbAt, phase>>

Deadline(p) ==
  /\ p \in draining \ expired
  /\ expired' = expired \cup {p}
  /\ UNCHANGED <<active, draining, epoch, reserved, pinned, lockVars, procVars, doomed,
                 connVars, loopVars, phase>>

\* Evict the backend unless another has taken its place, and shut it down.
HbEvict(p) ==
  IF active[KeyAt[p]] = p
  THEN /\ active' = Without({p})
       /\ spawnLock' = LocksWithout({p})
       /\ doomed' = Doom({p}, "beat")
  ELSE UNCHANGED <<active, spawnLock, doomed>>

\* A sweep goes through its snapshot, then reaps.  Probes that find nothing to do
\* or write their ping at once do not suspend: Snapshot is what is still to probe.
Between == hbAt = None /\ Quiet("beat") /\ Quiet("reap")
Snapshot == IF probing THEN hbTodo ELSE Pooled

\* A probe that takes time: the process has exited; or it serves stubs and is
\* found wedged, or the ping is slow to write.
HbProbe(p) ==
  /\ Looping /\ Between /\ p \in Snapshot
  /\ probing' = TRUE
  /\ hbTodo' = Snapshot \ {p}
  /\ \/ /\ ~Running(p)
        /\ HbEvict(p)
        /\ UNCHANGED <<status, hbAt>>
     \/ /\ Running(p) /\ Stubs(p) # {}
        /\ status' = [status EXCEPT ![p] = "marked"]
        /\ HbEvict(p)
        /\ UNCHANGED hbAt
     \/ /\ Running(p) /\ Stubs(p) # {}
        /\ hbAt' = p
        /\ UNCHANGED <<active, spawnLock, doomed, status>>
  /\ UNCHANGED <<draining, expired, epoch, reserved, pinned, holder, waiters, gen,
                 connVars, rotating, phase>>

\* The ping is written, or its write fails: the backend is gone.
HbPinged ==
  /\ hbAt # None
  /\ hbAt' = None
  /\ \/ UNCHANGED <<active, spawnLock, doomed, status>>
     \/ /\ status' = [status EXCEPT ![hbAt] = IF @ = "up" THEN "marked" ELSE @]
        /\ HbEvict(hbAt)
  /\ UNCHANGED <<draining, expired, epoch, reserved, pinned, holder, waiters, gen,
                 connVars, probing, hbTodo, rotating, phase>>

\* Mutants: a reserved backend is reaped; the deadline is not looked at.
Reapable_Unreserved(p) == p \in expired \/ Stubs(p) = {}
Reapable_NoDeadline(p) == Stubs(p) = {} /\ reserved[KeyAt[p]] = 0

Reapable(p) == p \in expired \/ (Stubs(p) = {} /\ reserved[KeyAt[p]] = 0)

\* reap_draining takes those whose deadline has passed, or that are neither
\* attached nor promised; MarkDead is the broadcast to stubs still attached.
ReapDraining ==
  LET R == {p \in draining : Reapable(p)} IN
  /\ Looping /\ Between /\ \A p \in Snapshot : Running(p)
  /\ probing \/ R # {}
  /\ probing' = FALSE /\ hbTodo' = {}
  /\ draining' = draining \ R
  /\ expired' = expired \ R
  /\ doomed' = Doom(R, "reap")
  /\ UNCHANGED <<active, epoch, reserved, pinned, lockVars, procVars, connVars, hbAt,
                 rotating, phase>>

----------------------------------------------------------------------------
(* The daemon stops *)

\* CancelledError in every coroutine of C: a spawn leaves no process; locks are
\* released and reservations returned; attached stubs detach; a shielded
\* shutdown goes on; an unshielded one, and those of the loops, are abandoned.
Cancel(C, loops) ==
  LET dropped(c) == (pc[c] = "replacing" /\ doomed[be[c]] = "conn")
                      \/ (pc[c] = "reaping" /\ doomed[be[c]] = "prime")
      emptied(l) == waiters[l] \subseteq C /\ (holder[l] \in C \/ (holder[l] = None /\ waiters[l] # {}))
  IN
  /\ pc' = [c \in Conns |-> IF c \in C THEN "idle" ELSE pc[c]]
  /\ be' = [c \in Conns |-> IF c \in C THEN None ELSE be[c]]
  /\ again' = again \ C
  /\ seen' = [c \in Conns |-> IF c \in C THEN 0 ELSE seen[c]]
  /\ tries' = [c \in Conns |-> IF c \in C THEN 0 ELSE tries[c]]
  /\ reserved' = [k \in Keys |-> reserved[k] - Cardinality(Handed(k) \cap C)]
  /\ waiters' = [l \in Locks |-> waiters[l] \ C]
  /\ holder' = [l \in Locks |-> IF holder[l] \in C THEN None ELSE holder[l]]
  /\ spawnLock' = [k \in Keys |-> IF active[k] = None /\ spawnLock[k] # None /\ emptied(spawnLock[k])
                                   THEN None ELSE spawnLock[k]]
  /\ UNCHANGED <<active, draining, expired, epoch, pinned, procVars>>
  /\ doomed' = [p \in Procs |-> IF \/ doomed[p] \in loops
                               \/ \E c \in C : be[c] = p /\ dropped(c)
                            THEN "no" ELSE doomed[p]]

\* Connections are cancelled and awaited first ...
StopConns ==
  /\ MayStop /\ phase = "run"
  /\ phase' = "cancel"
  /\ Cancel(Conns \ Warmers, {})
  /\ UNCHANGED loopVars

\* ... then the sweepers, the credential watcher and the prewarm passes; what
\* their loops had still to shut down is abandoned.
StopLoops ==
  /\ phase = "cancel"
  /\ phase' = "close"
  /\ probing' = FALSE /\ hbTodo' = {} /\ hbAt' = None /\ rotating' = FALSE
  /\ Cancel(Warmers, {"sweep", "cred", "beat", "reap"})

\* shutdown_all empties the pool and shuts everything down at once, then joins
\* the LRU evictions; the pidfile goes, the daemon returns.
ShutdownAll ==
  /\ phase = "close"
  /\ phase' = "join"
  /\ active' = [k \in Keys |-> None]
  /\ spawnLock' = [k \in Keys |-> None]
  /\ draining' = {} /\ expired' = {}
  /\ doomed' = Doom(Pooled \cup draining, "stop")
  /\ UNCHANGED <<epoch, reserved, pinned, holder, waiters, procVars, connVars, loopVars>>

Finish ==
  /\ phase = "join" /\ Quiet("stop") /\ Quiet("lru")
  /\ phase' = "stopped"
  /\ UNCHANGED <<poolVars, lockVars, procVars, doomed, connVars, loopVars>>

Stopped == phase = "stopped" /\ UNCHANGED vars

----------------------------------------------------------------------------
SpawnDone(c) == SpawnFail(c) \/ \E p \in Procs : Refused(c, p) \/ Added(c, p)
PrimeDone(c) == Primed(c) \/ PrimeFailed(c) \/ PrimeTimeout(c)
Continue(c) == Woken(c) \/ Replaced(c) \/ Discarded(c) \/ Rebind(c) \/ PrimeReaped(c)
Probe == HbPinged \/ \E p \in Procs : HbProbe(p)

Conn(c) == Ensure(c) \/ Continue(c) \/ SpawnDone(c) \/ PrimeDone(c) \/ Gone(c) \/ Disconnect(c)
Proc(p) == MarkDead(p) \/ Exit(p) \/ ShutDown(p) \/ Unpin(p) \/ Deadline(p)
Loops == IdleSweep \/ Rotate \/ DrainAll \/ Probe \/ ReapDraining
Stop == StopConns \/ StopLoops \/ ShutdownAll \/ Finish \/ Stopped

Next == (\E c \in Conns : Conn(c)) \/ (\E p \in Procs : Proc(p)) \/ Loops \/ Stop

Spec == Init /\ [][Next]_vars

\* The event loop runs what is ready, every await of the pool has a timeout, and
\* the heartbeat keeps ticking.  A peer may stay forever; a backend may live
\* forever; nobody need ask for a backend, rotate a credential or stop.
FairSpec ==
  /\ Spec
  /\ \A c \in Conns : WF_vars(Continue(c)) /\ WF_vars(SpawnDone(c)) /\ WF_vars(PrimeDone(c))
  /\ \A p \in Procs : WF_vars(ShutDown(p)) /\ WF_vars(Deadline(p))
  /\ WF_vars(Probe \/ ReapDraining)
  /\ WF_vars(StopLoops \/ ShutdownAll)

----------------------------------------------------------------------------
(* Properties *)

\* While the daemon runs, a backend whose process runs is in the pool, draining,
\* or someone is shutting it down: none is lost between the tables, whatever
\* evicts, replaces, refuses or drains it (get_or_create, add, evict).
NoLostBackend ==
  phase = "run" => \A p \in Procs : Running(p) => p \in Pooled \cup draining \/ doomed[p] # "no"

\* The reservation count of a key is the number of coroutines that hold its
\* backend without being attached, over every outcome of a rebind and across
\* respawns under the same key: none leaks a slot, none unprotects another's
\* (reserve, unreserve, evict's body comment).
ReservedMatches == \A k \in Keys : reserved[k] = Cardinality(Handed(k))

\* A pooled backend was started after the last credential rotation, also when
\* the rotation came during its spawn (the epoch guard of add).
NoStaleActive == \A p \in Pooled : Running(p) => gen[p] = epoch

\* No live backend that a stub uses or is being bound to is taken away by an
\* idle sweep, an LRU eviction, a rotation, a replacement or, before the
\* deadline, the draining reaper: a stub between its hand-out and its
\* attachment is as safe as an attached one.
InUse(p) == Stubs(p) # {} \/ \E c \in Conns : pc[c] = "priming" /\ be[c] = p
InUseKept ==
  [][\A p \in Procs :
       /\ doomed[p] = "no" /\ doomed'[p] \in {"sweep", "lru", "cred", "conn", "reap"}
       /\ status[p] = "up" /\ InUse(p)
       => p \in expired]_vars

\* A backend with an old credential does not stay: the heartbeat reaps it, at the
\* deadline if its stubs never leave (reap_draining).
DrainReaped == \A p \in Procs : p \in draining ~> p \notin draining
=============================================================================
