------------------------------ MODULE WarmPool ------------------------------
(***************************************************************************)
(* The warm pool of SessionManager (kiro_crew/session.py): pre-started     *)
(* agent processes that get_or_create() claims instead of a cold start,    *)
(* the task that refills it, the health sweep that discards dead and       *)
(* expired spares, the reloads that drain it, and the periodic PID sweep   *)
(* (session_pid.py) that kills tracked processes nobody is using.          *)
(*                                                                         *)
(* The PID sweep runs partly in threads, so its three phases are separate  *)
(* steps; everything else is asyncio code and is atomic between awaits.    *)
(* The model is of the claude-agent-acp backend: a kiro-cli runtime puts   *)
(* its PID in _PROTECTED_PIDS for life and the PID sweep never sees it.    *)
(***************************************************************************)
EXTENDS Naturals, FiniteSets

CONSTANTS
  Procs,        \* identities of agent processes, reused once collected
  Callers,      \* coroutines in get_or_create() that are eligible for the pool
  None,
  PoolSize,     \* self._pool_size
  StartSlots,   \* permits of _start_sem
  MaxTasks,     \* bound of the model: fills told apart while they wait to run
  ModelSwitch,  \* may a caller ask for a model other than the pool agent's?
  SlowStart,    \* may start() outlast SWEEP_SPAWN_GRACE_SECONDS?
  Faults        \* which environment actions may happen

FaultKinds == {"die", "startfail", "cancel", "reload", "drain"}

ASSUME PoolAssumption ==
  /\ None \notin Procs
  /\ IsFiniteSet(Procs)
  /\ PoolSize \in Nat \ {0} /\ StartSlots \in Nat \ {0} /\ MaxTasks \in Nat \ {0}
  /\ ModelSwitch \in BOOLEAN /\ SlowStart \in BOOLEAN
  /\ Faults \subseteq FaultKinds

VARIABLES
  proc,       \* the process as the operating system sees it
  aged,       \* processes older than the spawn grace period
  stale,      \* spares built by a provider factory since replaced
  queue,      \* self._warm_pool; its order is not distinguished
  lock,       \* holder of self._pool_fill_lock
  held,      \* the process the fill task is starting
  tasks,      \* fill tasks scheduled and waiting for the fill lock
  starting,   \* self._starting_pids
  sessions,   \* providers registered in self._sessions
  doomed,     \* taken off the books, their shutdown() under way
  swept,      \* self._pool_sweep_pids
  condemned,  \* the health sweep's to_shutdown, not yet discarded
  phase,      \* the periodic PID sweep
  seen,       \* its active set when it began
  victims,    \* PIDs it has confirmed for killing
  restart,    \* a drained pool is to be restarted
  pc, prov,   \* per caller: where it stands, the provider in its hands
  missed      \* per caller: has it discarded a pooled provider?

poolVars == <<queue, stale>>
fillVars == <<lock, held, tasks>>
healthVars == <<swept, condemned>>
pidVars == <<phase, seen, victims>>
callVars == <<pc, prov, missed>>
vars == <<proc, aged, stale, queue, lock, held, tasks, starting, sessions,
          doomed, swept, condemned, phase, seen, victims, restart, pc, prov, missed>>

TypeOK ==
  /\ proc \in [Procs -> {"dead", "starting", "up"}]
  /\ aged \subseteq Procs /\ stale \subseteq Procs /\ queue \subseteq Procs
  /\ lock \in {"free", "fill", "reload"}
  /\ held \in Procs \cup {None}
  /\ tasks \in 0..MaxTasks
  /\ starting \subseteq Procs /\ sessions \subseteq Procs /\ doomed \subseteq Procs
  /\ swept \subseteq Procs /\ condemned \subseteq Procs
  /\ phase \in {"off", "scan", "kill"}
  /\ seen \subseteq Procs /\ victims \subseteq Procs
  /\ restart \in BOOLEAN
  /\ pc \in [Callers -> {"idle", "claim", "discard", "rekey", "cold", "starting", "guarded"}]
  /\ prov \in [Callers -> Procs \cup {None}]
  /\ missed \in [Callers -> BOOLEAN]

\* start_pool() has scheduled the first fill.
Init ==
  /\ proc = [p \in Procs |-> "dead"]
  /\ aged = {} /\ stale = {} /\ queue = {}
  /\ lock = "free" /\ held = None /\ tasks = 1
  /\ starting = {} /\ sessions = {} /\ doomed = {}
  /\ swept = {} /\ condemned = {}
  /\ phase = "off" /\ seen = {} /\ victims = {}
  /\ restart = FALSE
  /\ pc = [c \in Callers |-> "idle"]
  /\ prov = [c \in Callers |-> None]
  /\ missed = [c \in Callers |-> FALSE]

----------------------------------------------------------------------------
(* Helpers *)

InHand == {prov[c] : c \in Callers} \ {None}

\* Nothing refers to the process: its identity stands for a new one.
Unused(p) ==
  /\ proc[p] = "dead"
  /\ p \notin queue \cup InHand \cup sessions \cup doomed \cup swept \cup condemned
              \cup seen \cup victims \cup {held}

\* A provider is built and its process spawned, under a permit of _start_sem.
Spawn(p) ==
  /\ Unused(p)
  /\ Cardinality({q \in Procs : proc[q] = "starting"}) < StartSlots
  /\ proc' = [proc EXCEPT ![p] = "starting"]
  /\ aged' = aged \ {p}

Killed(S) == [p \in Procs |-> IF p \in S THEN "dead" ELSE proc[p]]

\* _schedule_replenish.  More than MaxTasks fills that all wait for the lock are
\* not told apart: each of them would find what the one before it left.
Replenish == tasks' = IF tasks < MaxTasks THEN tasks + 1 ELSE tasks

\* The caller's next state, and the provider it has in its hands.
Move(c, l, p) == pc' = [pc EXCEPT ![c] = l] /\ prov' = [prov EXCEPT ![c] = p]
Keep(c, l) == Move(c, l, prov[c])

----------------------------------------------------------------------------
(* get_or_create: the pool path and the cold start *)

\* The registry section that precedes it; a reload holds the registry lock.
Ask(c) ==
  /\ pc[c] = "idle" /\ lock # "reload"
  /\ Keep(c, "claim")
  /\ missed' = [missed EXCEPT ![c] = FALSE]
  /\ UNCHANGED <<proc, aged, poolVars, fillVars, starting, sessions, doomed,
                 healthVars, pidVars, restart>>

\* _drain_and_claim runs, or resumes after the discard of the last candidate.
Claiming(c) == pc[c] = "claim" \/ (pc[c] = "discard" /\ proc[prov[c]] = "dead")

\* The next entry is past its TTL or dead: discard it, then look again.
ClaimDiscard(c) ==
  /\ Claiming(c)
  /\ \E p \in queue :
       /\ queue' = queue \ {p}
       /\ Move(c, "discard", p)
  /\ missed' = [missed EXCEPT ![c] = TRUE]
  /\ UNCHANGED <<proc, aged, stale, fillVars, starting, sessions, doomed,
                 healthVars, pidVars, restart>>

\* Mutant: the entry is looked at and left in the queue.
Claim_Peeks(c) ==
  /\ Claiming(c)
  /\ \E p \in queue :
       /\ proc[p] = "up"
       /\ Move(c, "guarded", p)
       /\ starting' = starting \cup {p}
  /\ Replenish
  /\ UNCHANGED <<proc, aged, poolVars, lock, held, sessions, doomed, healthVars,
                 pidVars, restart, missed>>

\* Mutant: a successful claim does not schedule a refill.
Claim_NoReplenish(c) ==
  /\ Claiming(c)
  /\ \E p \in queue :
       /\ proc[p] = "up"
       /\ queue' = queue \ {p}
       /\ Move(c, "guarded", p)
       /\ starting' = starting \cup {p}
  /\ UNCHANGED <<proc, aged, stale, fillVars, sessions, doomed, healthVars,
                 pidVars, restart, missed>>

\* A live entry of the wanted model: replenish, and guard its PID at once.
Claim(c) ==
  /\ Claiming(c)
  /\ \E p \in queue :
       /\ proc[p] = "up"
       /\ queue' = queue \ {p}
       /\ Move(c, "guarded", p)
       /\ starting' = starting \cup {p}
  /\ Replenish
  /\ UNCHANGED <<proc, aged, stale, lock, held, sessions, doomed, healthVars,
                 pidVars, restart, missed>>

\* A live entry of another model: await set_model() first.
ClaimSwitch(c) ==
  /\ ModelSwitch
  /\ Claiming(c)
  /\ \E p \in queue :
       /\ proc[p] = "up"
       /\ queue' = queue \ {p}
       /\ Move(c, "rekey", p)
  /\ UNCHANGED <<proc, aged, stale, fillVars, starting, sessions, doomed,
                 healthVars, pidVars, restart, missed>>

SwitchDone(c) ==
  /\ pc[c] = "rekey"
  /\ Keep(c, "guarded")
  /\ starting' = starting \cup {prov[c]}
  /\ Replenish
  /\ UNCHANGED <<proc, aged, poolVars, lock, held, sessions, doomed, healthVars,
                 pidVars, restart, missed>>

\* Nothing left to claim: replenish only if this call discarded something.
ClaimMiss(c) ==
  /\ Claiming(c)
  /\ queue = {}
  /\ Move(c, "cold", None)
  /\ IF missed[c] THEN Replenish ELSE UNCHANGED tasks
  /\ UNCHANGED <<proc, aged, poolVars, lock, held, starting, sessions, doomed,
                 healthVars, pidVars, restart, missed>>

ColdStart(c) ==
  /\ pc[c] = "cold"
  /\ \E p \in Procs :
       /\ Spawn(p)
       /\ stale' = stale \ {p}
       /\ Move(c, "starting", p)
  /\ UNCHANGED <<queue, fillVars, starting, sessions, doomed, healthVars,
                 pidVars, restart, missed>>

\* start() returned: _starting_pids guards the PID from here on.
StartDone(c) ==
  /\ pc[c] = "starting"
  /\ proc[prov[c]] = "starting"
  /\ proc' = [proc EXCEPT ![prov[c]] = "up"]
  /\ starting' = starting \cup {prov[c]}
  /\ Keep(c, "guarded")
  /\ UNCHANGED <<aged, poolVars, fillVars, sessions, doomed, healthVars, pidVars,
                 restart, missed>>

\* set_model() or start() raised or the caller was cancelled: kill, give up.
CallFails(c) ==
  /\ \/ pc[c] \in {"rekey", "starting"} /\ "startfail" \in Faults
     \/ pc[c] \in {"rekey", "starting", "guarded"} /\ "cancel" \in Faults
     \/ pc[c] = "starting" /\ proc[prov[c]] = "dead"
  /\ proc' = Killed({prov[c]})
  /\ starting' = starting \ {prov[c]}
  /\ Move(c, "idle", None)
  /\ UNCHANGED <<aged, poolVars, fillVars, sessions, doomed, healthVars, pidVars,
                 restart, missed>>

\* Cancelled inside the discard: the provider is hard-killed off the loop.
DiscardCancelled(c) ==
  /\ "cancel" \in Faults
  /\ pc[c] = "discard"
  /\ proc' = Killed({prov[c]})
  /\ Move(c, "idle", None)
  /\ UNCHANGED <<aged, poolVars, fillVars, starting, sessions, doomed, healthVars,
                 pidVars, restart, missed>>

\* Registered: the session map protects the PID now.
Register(c) ==
  /\ pc[c] = "guarded" /\ lock # "reload"
  /\ sessions' = sessions \cup {prov[c]}
  /\ starting' = starting \ {prov[c]}
  /\ Move(c, "idle", None)
  /\ UNCHANGED <<proc, aged, poolVars, fillVars, doomed, healthVars, pidVars,
                 restart, missed>>

\* Another coroutine registered the key first: shut the duplicate down.
RegisterLost(c) ==
  /\ pc[c] = "guarded" /\ lock # "reload"
  /\ doomed' = doomed \cup {prov[c]}
  /\ starting' = starting \ {prov[c]}
  /\ Move(c, "idle", None)
  /\ UNCHANGED <<proc, aged, poolVars, fillVars, sessions, healthVars, pidVars,
                 restart, missed>>

\* Mutant: the session is shut down and stays in the table.
EndSession_Kept(p) ==
  /\ p \in sessions /\ lock # "reload"
  /\ doomed' = doomed \cup {p}
  /\ UNCHANGED <<proc, aged, poolVars, fillVars, starting, sessions, healthVars,
                 pidVars, restart, callVars>>

\* reset(), the watchdogs, an eviction: popped, then shut down.
EndSession(p) ==
  /\ p \in sessions /\ lock # "reload"
  /\ sessions' = sessions \ {p}
  /\ doomed' = doomed \cup {p}
  /\ UNCHANGED <<proc, aged, poolVars, fillVars, starting, healthVars, pidVars,
                 restart, callVars>>

----------------------------------------------------------------------------
(* _fill_warm_pool: one task at a time under _pool_fill_lock *)

\* Mutant: the number of scheduled fills is not respected.
FillLock_Unscheduled ==
  /\ lock = "free"
  /\ tasks' = tasks - 1
  /\ lock' = "fill"
  /\ UNCHANGED <<proc, aged, poolVars, held, starting, sessions, doomed,
                 healthVars, pidVars, restart, callVars>>

FillLock ==
  /\ tasks > 0 /\ lock = "free"
  /\ tasks' = tasks - 1
  /\ lock' = "fill"
  /\ UNCHANGED <<proc, aged, poolVars, held, starting, sessions, doomed,
                 healthVars, pidVars, restart, callVars>>

\* Mutant: one process too many is spawned.
FillSpawn_OffByOne ==
  /\ lock = "fill" /\ held = None
  /\ Cardinality(queue) <= PoolSize
  /\ \E p \in Procs :
       /\ Spawn(p)
       /\ held' = p
       /\ stale' = stale \ {p}
  /\ UNCHANGED <<queue, lock, tasks, starting, sessions, doomed, healthVars,
                 pidVars, restart, callVars>>

FillSpawn ==
  /\ lock = "fill" /\ held = None
  /\ Cardinality(queue) < PoolSize
  /\ \E p \in Procs :
       /\ Spawn(p)
       /\ held' = p
       /\ stale' = stale \ {p}
  /\ UNCHANGED <<queue, lock, tasks, starting, sessions, doomed, healthVars,
                 pidVars, restart, callVars>>

FillPut ==
  /\ lock = "fill" /\ held # None
  /\ proc[held] = "starting"
  /\ proc' = [proc EXCEPT ![held] = "up"]
  /\ queue' = queue \cup {held}
  /\ held' = None
  /\ UNCHANGED <<aged, stale, lock, tasks, starting, sessions, doomed, healthVars,
                 pidVars, restart, callVars>>

\* start() raised: discard what there is of it and stop filling.
FillFails ==
  /\ lock = "fill" /\ held # None
  /\ "startfail" \in Faults \/ proc[held] = "dead"
  /\ proc' = Killed({held})
  /\ held' = None
  /\ lock' = "free"
  /\ UNCHANGED <<aged, poolVars, tasks, starting, sessions, doomed, healthVars,
                 pidVars, restart, callVars>>

FillDone ==
  /\ lock = "fill" /\ held = None
  /\ Cardinality(queue) >= PoolSize
  /\ lock' = "free"
  /\ UNCHANGED <<proc, aged, poolVars, held, tasks, starting, sessions, doomed,
                 healthVars, pidVars, restart, callVars>>

----------------------------------------------------------------------------
(* _sweep_warm_pool_once *)

\* Without an await: empty the queue, put the healthy entries back.  Which
\* entries are past their TTL is left open; the dead ones always go.  A sweep
\* that finds nothing bad changes nothing.
Sweep ==
  /\ condemned = {}
  /\ \E bad \in SUBSET queue :
       /\ bad # {}
       /\ {p \in queue : proc[p] = "dead"} \subseteq bad
       /\ queue' = queue \ bad
       /\ condemned' = bad
  /\ swept' = queue
  /\ UNCHANGED <<proc, aged, stale, fillVars, starting, sessions, doomed,
                 pidVars, restart, callVars>>

\* _discard_pool_provider: bounded shutdown, then the OS is asked, then kill.
\* After the last one the sweep forgets its PIDs and replenishes.
SweepDiscard(p) ==
  /\ p \in condemned
  /\ proc' = Killed({p})
  /\ condemned' = condemned \ {p}
  /\ IF condemned = {p} THEN swept' = {} /\ Replenish ELSE UNCHANGED <<swept, tasks>>
  /\ UNCHANGED <<aged, poolVars, lock, held, starting, sessions, doomed, pidVars,
                 restart, callVars>>

----------------------------------------------------------------------------
(* Reloads: reload_provider_factory, refresh_defaults, drain_warm_pool *)

\* Both locks are taken and the factory replaced.
ReloadBegin ==
  /\ "reload" \in Faults
  /\ lock = "free"
  /\ lock' = "reload"
  /\ stale' = queue
  /\ UNCHANGED <<proc, aged, queue, held, tasks, starting, sessions, doomed,
                 healthVars, pidVars, restart, callVars>>

\* The entries of the old factory leave the queue one by one.
ReloadDrain ==
  /\ lock = "reload" /\ held = None
  /\ \E p \in queue : queue' = queue \ {p} /\ held' = p
  /\ UNCHANGED <<proc, aged, stale, lock, tasks, starting, sessions, doomed,
                 healthVars, pidVars, restart, callVars>>

ReloadDiscard ==
  /\ lock = "reload" /\ held # None
  /\ proc' = Killed({held})
  /\ held' = None
  /\ UNCHANGED <<aged, poolVars, lock, tasks, starting, sessions, doomed,
                 healthVars, pidVars, restart, callVars>>

\* Mutant: the locks are released before the queue is empty.
ReloadEnd_Undrained(all) ==
  /\ lock = "reload" /\ held = None
  /\ lock' = "free"
  /\ sessions' = IF all THEN {} ELSE sessions
  /\ doomed' = IF all THEN doomed \cup sessions ELSE doomed
  /\ swept' = {} /\ condemned' = {}
  /\ \/ condemned = {} /\ UNCHANGED proc
     \/ \E p \in condemned : proc' = Killed({p})
  /\ Replenish
  /\ UNCHANGED <<aged, poolVars, held, starting, pidVars, restart, callVars>>

\* Mutant: the cancelled health sweep leaves its PIDs in _pool_sweep_pids.
ReloadEnd_KeepsSwept(all) ==
  /\ lock = "reload" /\ held = None /\ queue = {}
  /\ lock' = "free"
  /\ sessions' = IF all THEN {} ELSE sessions
  /\ doomed' = IF all THEN doomed \cup sessions ELSE doomed
  /\ condemned' = {}
  /\ \/ condemned = {} /\ UNCHANGED proc
     \/ \E p \in condemned : proc' = Killed({p})
  /\ Replenish
  /\ UNCHANGED <<aged, poolVars, held, starting, swept, pidVars, restart, callVars>>

\* The queue is empty.  reload_provider_factory (all) also takes the sessions
\* down.  The health task is cancelled, which kills the entry being discarded
\* and forgets the rest, and start_pool() schedules a fill.
ReloadEnd(all) ==
  /\ lock = "reload" /\ held = None /\ queue = {}
  /\ lock' = "free"
  /\ sessions' = IF all THEN {} ELSE sessions
  /\ doomed' = IF all THEN doomed \cup sessions ELSE doomed
  /\ swept' = {} /\ condemned' = {}
  /\ \/ condemned = {} /\ UNCHANGED proc
     \/ \E p \in condemned : proc' = Killed({p})
  /\ Replenish
  /\ UNCHANGED <<aged, poolVars, held, starting, pidVars, restart, callVars>>

\* drain_warm_pool after a configuration change; the pool is restarted once
\* the caller has shut the drained providers down.
DrainPool ==
  /\ "drain" \in Faults
  /\ ~restart
  /\ queue' = {}
  /\ doomed' = doomed \cup queue
  /\ restart' = TRUE
  /\ UNCHANGED <<proc, aged, stale, fillVars, starting, sessions, healthVars,
                 pidVars, callVars>>

RestartPool ==
  /\ restart
  /\ restart' = FALSE
  /\ Replenish
  /\ UNCHANGED <<proc, aged, poolVars, lock, held, starting, sessions, doomed,
                 healthVars, pidVars, callVars>>

----------------------------------------------------------------------------
(* The periodic PID sweep of _cleanup_loop *)

\* _collect_active_pids, _pool_pids and _in_flight_pids.
ActivePids == sessions \cup queue \cup swept \cup starting

ScanBegin ==
  /\ phase = "off"
  /\ phase' = "scan"
  /\ seen' = ActivePids
  /\ UNCHANGED <<proc, aged, poolVars, fillVars, starting, sessions, doomed,
                 healthVars, victims, restart, callVars>>

\* Mutant: the candidates are not checked against the sessions and the pool again.
ScanConfirm_NoRecheck ==
  /\ phase = "scan"
  /\ phase' = "kill"
  /\ victims' = {p \in aged : proc[p] # "dead"} \ seen
  /\ seen' = {}
  /\ UNCHANGED <<proc, aged, poolVars, fillVars, starting, sessions, doomed,
                 healthVars, restart, callVars>>

\* The thread looked for tracked live PIDs outside the active set and past the
\* grace period; the event loop checks its candidates again.
ScanConfirm ==
  /\ phase = "scan"
  /\ phase' = "kill"
  /\ victims' = {p \in aged : proc[p] # "dead"} \ (seen \cup ActivePids)
  /\ seen' = {}
  /\ UNCHANGED <<proc, aged, poolVars, fillVars, starting, sessions, doomed,
                 healthVars, restart, callVars>>

ScanKill ==
  /\ phase = "kill"
  /\ phase' = "off"
  /\ proc' = Killed(victims)
  /\ victims' = {}
  /\ UNCHANGED <<aged, poolVars, fillVars, starting, sessions, doomed, healthVars,
                 seen, restart, callVars>>

----------------------------------------------------------------------------
(* The processes *)

\* A shutdown under way ends: the process is gone.
Exit(p) ==
  /\ \/ p \in doomed
     \/ \E c \in Callers : pc[c] = "discard" /\ prov[c] = p /\ proc[p] # "dead"
  /\ proc' = Killed({p})
  /\ doomed' = doomed \ {p}
  /\ UNCHANGED <<aged, poolVars, fillVars, starting, sessions, healthVars, pidVars,
                 restart, callVars>>

Die(p) ==
  /\ "die" \in Faults
  /\ proc[p] = "up"
  /\ proc' = Killed({p})
  /\ UNCHANGED <<aged, poolVars, fillVars, starting, sessions, doomed, healthVars,
                 pidVars, restart, callVars>>

\* The process outlives the grace period; a start() does so if it is slow.
Age(p) ==
  /\ p \notin aged
  /\ proc[p] = "up" \/ (SlowStart /\ proc[p] = "starting")
  /\ aged' = aged \cup {p}
  /\ UNCHANGED <<proc, poolVars, fillVars, starting, sessions, doomed, healthVars,
                 pidVars, restart, callVars>>

----------------------------------------------------------------------------
CallerNext(c) ==
  \/ Ask(c) \/ ClaimDiscard(c) \/ Claim(c) \/ ClaimSwitch(c) \/ SwitchDone(c)
  \/ ClaimMiss(c) \/ ColdStart(c) \/ StartDone(c) \/ CallFails(c)
  \/ DiscardCancelled(c) \/ Register(c) \/ RegisterLost(c)

Fill == FillLock \/ FillSpawn \/ FillPut \/ FillFails \/ FillDone
PidSweep == ScanBegin \/ ScanConfirm \/ ScanKill

Next ==
  \/ \E c \in Callers : CallerNext(c)
  \/ \E p \in Procs : EndSession(p) \/ SweepDiscard(p) \/ Exit(p) \/ Die(p) \/ Age(p)
  \/ Fill \/ Sweep
  \/ ReloadBegin \/ ReloadDrain \/ ReloadDiscard \/ (\E all \in BOOLEAN : ReloadEnd(all))
  \/ DrainPool \/ RestartPool
  \/ PidSweep

Spec == Init /\ [][Next]_vars

\* The gateway keeps running its coroutines, timers and threads; shutdowns are
\* bounded and end in a kill; _start_sem serves its waiters in order; processes
\* age; sessions end (idle expiry), so that identities become free again.
Fairness ==
  /\ \A c \in Callers :
       /\ WF_vars(ClaimDiscard(c) \/ Claim(c) \/ ClaimSwitch(c) \/ ClaimMiss(c))
       /\ SF_vars(ColdStart(c))
       /\ WF_vars(StartDone(c) \/ SwitchDone(c) \/ CallFails(c))
       /\ SF_vars(Register(c) \/ RegisterLost(c))
  /\ \A p \in Procs :
       SF_vars(EndSession(p)) /\ WF_vars(SweepDiscard(p)) /\ WF_vars(Exit(p)) /\ WF_vars(Age(p))
  /\ SF_vars(FillLock) /\ SF_vars(FillSpawn)
  /\ WF_vars(FillPut \/ FillFails \/ FillDone)
  /\ WF_vars(ReloadDrain \/ ReloadDiscard \/ (\E all \in BOOLEAN : ReloadEnd(all)))
  /\ WF_vars(RestartPool)
  /\ WF_vars(PidSweep)

FairSpec == Spec /\ Fairness

----------------------------------------------------------------------------
(* What the type invariant needs to be inductive *)

\* A caller that waits on a provider has one in its hands.
HandOK == \A c \in Callers :
  pc[c] \in {"discard", "rekey", "starting", "guarded"} => prov[c] \in Procs

----------------------------------------------------------------------------
(* Properties *)

\* The processes that serve, or are about to serve, a conversation.
InService ==
  queue \cup sessions
  \cup {prov[c] : c \in {d \in Callers : pc[d] \in {"rekey", "starting", "guarded"}}}
  \cup (IF lock = "fill" THEN {held} \ {None} ELSE {})

\* The PID sweep kills orphans only: from the moment it confirms a PID until
\* its thread sends the signal, that process is in nobody's service.
KillsOrphansOnly == victims \cap InService = {}

\* A process has one owner: no two callers claim it, an entry of the queue is in
\* nobody else's hands, it is never handed out again after a discard began, and
\* the sweep's re-enqueue duplicates nothing.
OneOwner ==
  /\ \A c, d \in Callers : prov[c] = prov[d] /\ prov[c] # None => c = d
  /\ held \notin queue \cup sessions \cup doomed \cup condemned \cup InHand
  /\ queue \cap (sessions \cup doomed \cup condemned \cup InHand) = {}
  /\ sessions \cap (doomed \cup condemned \cup InHand) = {}
  /\ doomed \cap (condemned \cup InHand) = {}
  /\ condemned \cap InHand = {}

\* However many refills are scheduled, the pool never holds more than its size.
PoolBounded == Cardinality(queue) <= PoolSize

\* Except while the reload drains it, no process of a replaced provider factory
\* is in the pool, so no new session gets settings since changed.
NoStaleSpare == lock # "reload" => queue \cap stale = {}

\* The end of the process has begun: somebody shuts it down.
Ending(p) ==
  \/ p \in doomed \cup condemned
  \/ lock = "reload" /\ p = held
  \/ \E c \in Callers : pc[c] = "discard" /\ prov[c] = p

Starting(p) == p = held \/ \E c \in Callers : pc[c] = "starting" /\ prov[c] = p

\* The stage of a process's life, by who has it.
Stage(p) ==
  IF Ending(p) THEN "ending"
  ELSE IF p \in queue THEN "spare"
  ELSE IF p \in sessions THEN "serving"
  ELSE IF Starting(p) THEN "starting"
  ELSE IF p \in InHand THEN "claimed"
  ELSE IF proc[p] = "dead" THEN "gone" ELSE "lost"

Life(p) == INSTANCE ProcessLife WITH stage <- Stage(p)

\* Every process lives as ProcessLife says, whatever claims, fills, sweeps and
\* reloads do at once: it is handed out once, and never after somebody has begun
\* to end it, even if the end is cut short and the process lives on.
Lives ==
  /\ \A p \in Procs : Life(p)!Init
  /\ [][\A p \in Procs : [Life(p)!Next]_(Stage(p))]_vars

\* An emptied pool is filled again.
Refilled == queue = {} ~> queue # {}

Orphan(p) ==
  /\ proc[p] # "dead"
  /\ p \notin queue \cup sessions \cup InHand \cup doomed \cup condemned \cup {held}

\* A process that a cancelled health sweep forgot does not outlive the gateway:
\* the PID sweep finds it.
OrphanReaped == \A p \in Procs : Orphan(p) ~> proc[p] = "dead"
=============================================================================
