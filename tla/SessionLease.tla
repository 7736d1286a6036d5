--------------------------- MODULE SessionLease ---------------------------
(***************************************************************************)
(* The session registry of the gateway (kiro_crew/session.py): which       *)
(* provider process serves which conversation key, and the per-session     *)
(* Semaphore(1) that a caller leases for the length of a turn.             *)
(*                                                                         *)
(* A session object owns exactly one provider from its creation to its     *)
(* end, so one identity in Provs stands for the pair (_Session, provider). *)
(* Identities are reused only after the process is dead and no coroutine   *)
(* refers to the object any more, which is what garbage collection means   *)
(* for the code.                                                           *)
(*                                                                         *)
(* asyncio is cooperative: code between two awaits that can suspend is one *)
(* action.  Every "async with self._lock" section below runs without such  *)
(* an await, so the lock itself needs no variable.                         *)
(***************************************************************************)
EXTENDS Naturals, FiniteSets

CONSTANTS
  Keys,       \* conversation keys
  Alias,      \* the other historical form of a key; itself when it has none
  TaskKeys,   \* keys opened with open_task_session instead of get_or_create
  Callers,    \* coroutines that run turns (chat, Slack, cron, respawn, ...)
  Gated,      \* callers that pass begin_turn() before they dispatch
  Unguarded,  \* callers whose "finally" releases even if the lease failed
  Provs,      \* identities of session objects with their provider
  None,       \* absence of a key or a session
  Faults,     \* which environment actions may happen
  MaxRetries, \* _WON_RACE_MAX_RETRIES
  MaxPermits  \* bound of the model: permits one semaphore may pile up

FaultKinds == {"force", "crash", "idle", "compact", "close", "cancel", "startfail"}

ASSUME KeyAssumption ==
  /\ None \notin Keys \cup Provs
  /\ IsFiniteSet(Keys)
  /\ Alias \in [Keys -> Keys]
  /\ TaskKeys \subseteq Keys
ASSUME CallerAssumption ==
  /\ Gated \subseteq Callers
  /\ Unguarded \subseteq Callers
  /\ MaxRetries \in Nat
  /\ MaxPermits \in Nat \ {0}
  /\ Faults \subseteq FaultKinds

VARIABLES
  sessions,   \* self._sessions
  sem,        \* permits of each session's semaphore; release() has no bound
  proc,       \* state of each provider's process
  recycling,  \* self._recycling
  comp,       \* per key: where the background compaction task stands
  csess,      \* per key: the session object that task captured
  phase,      \* progress of close_all(); self._closing is phase # "open"
  drained,    \* providers in drain_active_turns()'s snapshot of open turns
  pc,         \* per caller: where it stands in get_or_create and its turn
  ukey,       \* per caller: the key it was called with and will release
  key,        \* per caller: the folded key get_or_create works on
  sess,       \* per caller: the session it waits on or holds
  mine,       \* per caller: a provider it started and has not registered
  tries       \* per caller: lost registration races so far

callVars == <<pc, ukey, key, sess, mine, tries>>
compVars == <<recycling, comp, csess>>
closeVars == <<phase, drained>>
vars == <<sessions, sem, proc, recycling, comp, csess, phase, drained,
          pc, ukey, key, sess, mine, tries>>

----------------------------------------------------------------------------
(* Types and helpers *)

OptProv == Provs \cup {None}
OptKey == Keys \cup {None}

Waiting == {"wait", "rwait"}           \* parked on the semaphore of sess[c]
Checking == {"check", "rcheck"}        \* woken with the permit, not validated
Holding == {"leased", "turn", "release"}

TypeOK ==
  /\ sessions \in [Keys -> OptProv]
  /\ sem \in [Provs -> Nat]
  /\ proc \in [Provs -> {"starting", "up", "dying", "dead"}]
  /\ recycling \in [Keys -> OptProv]
  /\ comp \in [Keys -> {"off", "wait", "compact", "rwait", "marked", "reap"}]
  /\ csess \in [Keys -> OptProv]
  /\ phase \in {"open", "drain", "clear", "closed"}
  /\ drained \in SUBSET Provs
  /\ pc \in [Callers -> {"idle", "enter", "cold", "starting", "reap"}
                         \cup Waiting \cup Checking \cup Holding]
  /\ ukey \in [Callers -> OptKey]
  /\ key \in [Callers -> OptKey]
  /\ sess \in [Callers -> OptProv]
  /\ mine \in [Callers -> OptProv]
  /\ tries \in [Callers -> 0..MaxRetries]

\* _fold_key: the live entry of the conversation, under either key form.
Fold(k) == IF sessions[k] = None /\ sessions[Alias[k]] # None THEN Alias[k] ELSE k

\* Semaphore.locked(): no permit left.
Locked(p) == sem[p] = 0

Registered(p) == \E k \in Keys : sessions[k] = p

\* No coroutine refers to the object and its process is gone.
Collected(p) ==
  /\ proc[p] = "dead"
  /\ \A k \in Keys : sessions[k] # p /\ csess[k] # p
  /\ \A c \in Callers : sess[c] # p /\ mine[c] # p

Take(p) == sem' = [sem EXCEPT ![p] = @ - 1]
Give(p) == sem[p] < MaxPermits /\ sem' = [sem EXCEPT ![p] = @ + 1]
Pop(k) == sessions' = [sessions EXCEPT ![k] = None]
Shutdown(p) == proc' = [proc EXCEPT ![p] = "dying"]
Goto(c, l) == pc' = [pc EXCEPT ![c] = l]

\* get_or_create raised: the caller runs its "finally" without a lease.
Fail(c) ==
  /\ Goto(c, IF c \in Unguarded THEN "release" ELSE "idle")
  /\ sess' = [sess EXCEPT ![c] = None]
  /\ mine' = [mine EXCEPT ![c] = None]
  /\ key' = [key EXCEPT ![c] = None]
  /\ tries' = [tries EXCEPT ![c] = 0]
  /\ ukey' = [ukey EXCEPT ![c] = IF c \in Unguarded THEN @ ELSE None]

Init ==
  /\ sessions = [k \in Keys |-> None]
  /\ sem = [p \in Provs |-> 1]
  /\ proc = [p \in Provs |-> "dead"]
  /\ recycling = [k \in Keys |-> None]
  /\ comp = [k \in Keys |-> "off"]
  /\ csess = [k \in Keys |-> None]
  /\ phase = "open"
  /\ drained = {}
  /\ pc = [c \in Callers |-> "idle"]
  /\ ukey = [c \in Callers |-> None]
  /\ key = [c \in Callers |-> None]
  /\ sess = [c \in Callers |-> None]
  /\ mine = [c \in Callers |-> None]
  /\ tries = [c \in Callers |-> 0]

----------------------------------------------------------------------------
(* get_or_create and open_task_session: the entry lock section *)

Call(c, k) ==
  /\ pc[c] = "idle"
  /\ Goto(c, "enter")
  /\ ukey' = [ukey EXCEPT ![c] = k]
  /\ key' = [key EXCEPT ![c] = k]
  /\ UNCHANGED <<sessions, sem, proc, compVars, closeVars, sess, mine, tries>>

\* The closing gate; open_task_session has none.
EntryRefused(c) ==
  /\ pc[c] = "enter"
  /\ phase # "open"
  /\ key[c] \notin TaskKeys
  /\ Fail(c)
  /\ UNCHANGED <<sessions, sem, proc, compVars, closeVars>>

MayEnter(c) == pc[c] = "enter" /\ (phase = "open" \/ key[c] \in TaskKeys)

\* A live entry is claimed; its semaphore is awaited with the lock released.
\* open_task_session claims any entry, get_or_create not one being recycled.
EntryReuse(c) ==
  LET k == Fold(key[c]) IN
  /\ MayEnter(c)
  /\ sessions[k] # None
  /\ \/ k \in TaskKeys
     \/ recycling[k] # sessions[k] /\ proc[sessions[k]] = "up"
  /\ Goto(c, "wait")
  /\ key' = [key EXCEPT ![c] = k]
  /\ sess' = [sess EXCEPT ![c] = sessions[k]]
  /\ UNCHANGED <<sessions, sem, proc, compVars, closeVars, ukey, mine, tries>>

\* No entry, or one the recycle fallback is tearing down: start a provider.
EntryCold(c) ==
  LET k == Fold(key[c]) IN
  /\ MayEnter(c)
  /\ \/ sessions[k] = None
     \/ k \notin TaskKeys /\ recycling[k] = sessions[k]
  /\ Goto(c, "cold")
  /\ key' = [key EXCEPT ![c] = k]
  /\ UNCHANGED <<sessions, sem, proc, compVars, closeVars, ukey, sess, mine, tries>>

\* The entry's process died: drop the entry, reap what is left, start afresh.
EntryEvict(c) ==
  LET k == Fold(key[c]) IN
  /\ MayEnter(c)
  /\ k \notin TaskKeys
  /\ sessions[k] # None
  /\ recycling[k] # sessions[k]
  /\ proc[sessions[k]] = "dead"
  /\ Pop(k)
  /\ Goto(c, "cold")
  /\ key' = [key EXCEPT ![c] = k]
  /\ UNCHANGED <<sem, proc, compVars, closeVars, ukey, sess, mine, tries>>

----------------------------------------------------------------------------
(* Waiting for the turn semaphore, and _reacquire_and_validate *)

Acquire(c) ==
  /\ pc[c] \in Waiting
  /\ sem[sess[c]] > 0
  /\ Take(sess[c])
  /\ Goto(c, IF pc[c] = "wait" THEN "check" ELSE "rcheck")
  /\ UNCHANGED <<sessions, proc, compVars, closeVars, ukey, key, sess, mine, tries>>

\* Mutant: any live entry of the key counts as still ours.
StillValid_AnyEntry(c) == sessions[key[c]] # None

StillValid(c) == sessions[key[c]] = sess[c] /\ proc[sess[c]] = "up"

ValidateOk(c) ==
  /\ pc[c] \in Checking
  /\ StillValid(c)
  /\ Goto(c, "leased")
  /\ tries' = [tries EXCEPT ![c] = 0]
  /\ UNCHANGED <<sessions, sem, proc, compVars, closeVars, ukey, key, sess, mine>>

\* _evict_stale_session: remove the entry only if it is still this object.
EvictIfOurs(c) ==
  sessions' = IF sessions[key[c]] = sess[c]
              THEN [sessions EXCEPT ![key[c]] = None] ELSE sessions

\* Mutant: the stale waiter leaves without giving the permit back.
ValidateStale_KeepsPermit(c) ==
  /\ pc[c] = "check"
  /\ ~StillValid(c)
  /\ EvictIfOurs(c)
  /\ Goto(c, "cold")
  /\ sess' = [sess EXCEPT ![c] = None]
  /\ UNCHANGED <<sem, proc, compVars, closeVars, ukey, key, mine, tries>>

\* Stale after the wait: give the permit back, evict, then cold start.
ValidateStale(c) ==
  /\ pc[c] = "check"
  /\ ~StillValid(c)
  /\ Give(sess[c])
  /\ EvictIfOurs(c)
  /\ Goto(c, "cold")
  /\ sess' = [sess EXCEPT ![c] = None]
  /\ UNCHANGED <<proc, compVars, closeVars, ukey, key, mine, tries>>

\* Mutant: the retry counter is never compared with its limit.
ValidateRetry_Forever(c) ==
  /\ pc[c] = "rcheck"
  /\ ~StillValid(c)
  /\ Give(sess[c])
  /\ IF key[c] \in TaskKeys THEN EvictIfOurs(c) ELSE UNCHANGED sessions
  /\ Goto(c, "enter")
  /\ sess' = [sess EXCEPT ![c] = None]
  /\ tries' = [tries EXCEPT ![c] = @ + 1]
  /\ UNCHANGED <<proc, compVars, closeVars, ukey, key, mine>>

\* Stale winner of a registration race: retry from the top.  Only
\* open_task_session evicts the winner first.
ValidateRetry(c) ==
  /\ pc[c] = "rcheck"
  /\ ~StillValid(c)
  /\ tries[c] < MaxRetries
  /\ Give(sess[c])
  /\ IF key[c] \in TaskKeys THEN EvictIfOurs(c) ELSE UNCHANGED sessions
  /\ Goto(c, "enter")
  /\ sess' = [sess EXCEPT ![c] = None]
  /\ tries' = [tries EXCEPT ![c] = @ + 1]
  /\ UNCHANGED <<proc, compVars, closeVars, ukey, key, mine>>

ValidateGiveUp(c) ==
  /\ pc[c] = "rcheck"
  /\ ~StillValid(c)
  /\ tries[c] = MaxRetries
  /\ Give(sess[c])
  /\ IF key[c] \in TaskKeys THEN EvictIfOurs(c) ELSE UNCHANGED sessions
  /\ Fail(c)
  /\ UNCHANGED <<proc, compVars, closeVars>>

----------------------------------------------------------------------------
(* Cold start and registration *)

\* Claim from the warm pool or start a fresh process, off the lock.
ColdStart(c) ==
  /\ pc[c] = "cold"
  /\ \E p \in Provs :
       /\ Collected(p)
       /\ proc' = [proc EXCEPT ![p] = "starting"]
       /\ mine' = [mine EXCEPT ![c] = p]
       /\ drained' = drained \ {p}
  /\ Goto(c, "starting")
  /\ UNCHANGED <<sessions, sem, compVars, phase, ukey, key, sess, tries>>

\* start() raised: _sync_kill_provider, then the error propagates.
StartFails(c) ==
  /\ "startfail" \in Faults
  /\ pc[c] = "starting"
  /\ proc' = [proc EXCEPT ![mine[c]] = "dead"]
  /\ Fail(c)
  /\ UNCHANGED <<sessions, sem, compVars, closeVars>>

\* Mutant: the registry is not looked at again after the slow start().
LostRace_NotRechecked(c) == FALSE

\* The registration section found an entry it must not replace.
LostRace(c) ==
  /\ sessions[key[c]] # None
  /\ key[c] \in TaskKeys \/ recycling[key[c]] # sessions[key[c]]

\* Mutant: the new session is registered without taking its permit.
Register_Unleased(c) ==
  /\ pc[c] = "starting"
  /\ ~LostRace(c)
  /\ sessions' = [sessions EXCEPT ![key[c]] = mine[c]]
  /\ proc' = [proc EXCEPT ![mine[c]] = "up"]
  /\ sem' = [sem EXCEPT ![mine[c]] = 1]
  /\ sess' = [sess EXCEPT ![c] = mine[c]]
  /\ mine' = [mine EXCEPT ![c] = None]
  /\ tries' = [tries EXCEPT ![c] = 0]
  /\ Goto(c, "leased")
  /\ UNCHANGED <<compVars, closeVars, ukey, key>>

\* start() returned and the key is ours: register with the permit taken.
\* self._closing is not read again here.
Register(c) ==
  /\ pc[c] = "starting"
  /\ ~LostRace(c)
  /\ sessions' = [sessions EXCEPT ![key[c]] = mine[c]]
  /\ proc' = [proc EXCEPT ![mine[c]] = "up"]
  /\ sem' = [sem EXCEPT ![mine[c]] = 0]
  /\ sess' = [sess EXCEPT ![c] = mine[c]]
  /\ mine' = [mine EXCEPT ![c] = None]
  /\ tries' = [tries EXCEPT ![c] = 0]
  /\ Goto(c, "leased")
  /\ UNCHANGED <<compVars, closeVars, ukey, key>>

\* Mutant: the loser of the race shuts the winner's provider down.
RegisterLost_ReapsWinner(c) ==
  /\ pc[c] = "starting"
  /\ LostRace(c)
  /\ sess' = [sess EXCEPT ![c] = sessions[key[c]]]
  /\ Shutdown(sessions[key[c]])
  /\ Goto(c, "reap")
  /\ UNCHANGED <<sessions, sem, compVars, closeVars, ukey, key, mine, tries>>

\* Another coroutine registered first: claim its session, reap the duplicate.
RegisterLost(c) ==
  /\ pc[c] = "starting"
  /\ LostRace(c)
  /\ sess' = [sess EXCEPT ![c] = sessions[key[c]]]
  /\ Shutdown(mine[c])
  /\ Goto(c, "reap")
  /\ UNCHANGED <<sessions, sem, compVars, closeVars, ukey, key, mine, tries>>

\* The duplicate's shutdown() returned: queue on the winner's semaphore.
Reaped(c) ==
  /\ pc[c] = "reap"
  /\ proc[mine[c]] = "dead"
  /\ mine' = [mine EXCEPT ![c] = None]
  /\ Goto(c, "rwait")
  /\ UNCHANGED <<sessions, sem, proc, compVars, closeVars, ukey, key, sess, tries>>

\* The caller's task is cancelled at one of get_or_create's awaits: a waiter
\* leaves, a woken one returns the permit, a started provider is killed.
Cancel(c) ==
  /\ "cancel" \in Faults
  /\ \/ /\ pc[c] \in Waiting \cup {"cold"}
        /\ UNCHANGED <<sem, proc>>
     \/ /\ pc[c] \in Checking
        /\ Give(sess[c])
        /\ UNCHANGED proc
     \/ /\ pc[c] = "starting"
        /\ proc' = [proc EXCEPT ![mine[c]] = "dead"]
        /\ UNCHANGED sem
  /\ Fail(c)
  /\ UNCHANGED <<sessions, compVars, closeVars>>

----------------------------------------------------------------------------
(* The turn *)

\* Mutant: a caller dispatches without passing begin_turn().
BeginTurn_NoGate(c) ==
  /\ pc[c] = "leased"
  /\ Goto(c, "turn")
  /\ UNCHANGED <<sessions, sem, proc, compVars, closeVars, ukey, key, sess, mine, tries>>

\* begin_turn() and the stream's synchronous prefix are one yield-free span.
BeginTurn(c) ==
  /\ pc[c] = "leased"
  /\ c \notin Gated \/ phase = "open"
  /\ Goto(c, "turn")
  /\ UNCHANGED <<sessions, sem, proc, compVars, closeVars, ukey, key, sess, mine, tries>>

\* begin_turn() raised, the preparation failed, or (eager respawn) there is
\* no turn to run.
SkipTurn(c) ==
  /\ pc[c] = "leased"
  /\ Goto(c, "release")
  /\ UNCHANGED <<sessions, sem, proc, compVars, closeVars, ukey, key, sess, mine, tries>>

EndTurn(c) ==
  /\ pc[c] = "turn"
  /\ Goto(c, "release")
  /\ UNCHANGED <<sessions, sem, proc, compVars, closeVars, ukey, key, sess, mine, tries>>

\* release(key): the permit goes to whatever session the key names now.
Release(c) ==
  LET p == sessions[Fold(ukey[c])] IN
  /\ pc[c] = "release"
  /\ IF p # None THEN Give(p) ELSE UNCHANGED sem
  /\ Goto(c, "idle")
  /\ ukey' = [ukey EXCEPT ![c] = None]
  /\ key' = [key EXCEPT ![c] = None]
  /\ sess' = [sess EXCEPT ![c] = None]
  /\ UNCHANGED <<sessions, proc, compVars, closeVars, mine, tries>>

\* try_acquire(key) for an out-of-band /compact on an idle session.
TryAcquire(c, k) ==
  /\ pc[c] = "idle"
  /\ c \notin Gated
  /\ sessions[k] # None
  /\ ~Locked(sessions[k])
  /\ Take(sessions[k])
  /\ sess' = [sess EXCEPT ![c] = sessions[k]]
  /\ ukey' = [ukey EXCEPT ![c] = k]
  /\ key' = [key EXCEPT ![c] = k]
  /\ Goto(c, "turn")
  /\ UNCHANGED <<sessions, proc, compVars, closeVars, mine, tries>>

----------------------------------------------------------------------------
(* Teardown from outside: stop, recycle, watchdogs, crashes *)

\* reset/remove/destroy/recycle_heartbeat without guards: the entry goes,
\* whoever holds its lease.
ForceReset(k) ==
  LET f == Fold(k) IN
  /\ "force" \in Faults
  /\ sessions[f] # None
  /\ Pop(f)
  /\ Shutdown(sessions[f])
  /\ UNCHANGED <<sem, compVars, closeVars, callVars>>

\* Mutant: the watchdog does not look at the semaphore before it resets.
IdleReset_EvenIfBusy(k) ==
  /\ "idle" \in Faults
  /\ sessions[k] # None
  /\ Pop(k)
  /\ Shutdown(sessions[k])
  /\ UNCHANGED <<sem, compVars, closeVars, callVars>>

\* reset(skip_if_busy=True) from the idle and RSS watchdogs.
IdleReset(k) ==
  /\ "idle" \in Faults
  /\ sessions[k] # None
  /\ ~Locked(sessions[k])
  /\ Pop(k)
  /\ Shutdown(sessions[k])
  /\ UNCHANGED <<sem, compVars, closeVars, callVars>>

Crash(p) ==
  /\ "crash" \in Faults
  /\ proc[p] = "up"
  /\ proc' = [proc EXCEPT ![p] = "dead"]
  /\ UNCHANGED <<sessions, sem, compVars, closeVars, callVars>>

\* A shutdown() in progress completes.
ProcExit(p) ==
  /\ proc[p] = "dying"
  /\ proc' = [proc EXCEPT ![p] = "dead"]
  /\ UNCHANGED <<sessions, sem, compVars, closeVars, callVars>>

----------------------------------------------------------------------------
(* Background compaction of one key (_compact_session) *)

CompGoto(k, l) == comp' = [comp EXCEPT ![k] = l]
CompOff(k) == CompGoto(k, "off") /\ csess' = [csess EXCEPT ![k] = None]

\* _compacting admits one task per key; the task captures the session object.
CompactStart(k) ==
  /\ "compact" \in Faults
  /\ comp[k] = "off"
  /\ sessions[k] # None
  /\ CompGoto(k, "wait")
  /\ csess' = [csess EXCEPT ![k] = sessions[k]]
  /\ UNCHANGED <<sessions, sem, proc, recycling, closeVars, callVars>>

\* wait_for(semaphore.acquire()) succeeded: in-place /compact, or recycle.
CompactAcquire(k) ==
  /\ \/ comp[k] = "wait" /\ CompGoto(k, "compact") /\ UNCHANGED recycling
     \/ /\ comp[k] = "rwait"
        /\ CompGoto(k, "marked")
        /\ recycling' = [recycling EXCEPT ![k] = csess[k]]
  /\ sem[csess[k]] > 0
  /\ Take(csess[k])
  /\ UNCHANGED <<sessions, proc, csess, closeVars, callVars>>

\* Mutant: the "finally" releases although the acquire timed out.
CompactBusy_Releases(k) ==
  /\ comp[k] \in {"wait", "rwait"}
  /\ sem[csess[k]] = 0
  /\ Give(csess[k])
  /\ CompOff(k)
  /\ UNCHANGED <<sessions, proc, recycling, closeVars, callVars>>

\* The acquire timed out behind a turn: deferred, nothing is killed.
CompactBusy(k) ==
  /\ comp[k] \in {"wait", "rwait"}
  /\ sem[csess[k]] = 0
  /\ CompOff(k)
  /\ UNCHANGED <<sessions, sem, proc, recycling, closeVars, callVars>>

\* In-place compaction worked, or failed on a backend without the fallback.
CompactDone(k) ==
  /\ comp[k] = "compact"
  /\ Give(csess[k])
  /\ CompOff(k)
  /\ UNCHANGED <<sessions, proc, recycling, closeVars, callVars>>

\* It failed: the permit is given back, then the recycle fallback queues.
CompactFailed(k) ==
  /\ comp[k] = "compact"
  /\ Give(csess[k])
  /\ CompGoto(k, "rwait")
  /\ UNCHANGED <<sessions, proc, recycling, csess, closeVars, callVars>>

\* The recycler's lock section: pop by identity, then shut down its own
\* provider whether or not the entry was already replaced.
RecyclePop(k) ==
  /\ comp[k] = "marked"
  /\ sessions' = IF sessions[k] = csess[k] THEN [sessions EXCEPT ![k] = None] ELSE sessions
  /\ Shutdown(csess[k])
  /\ CompGoto(k, "reap")
  /\ UNCHANGED <<sem, recycling, csess, closeVars, callVars>>

RecycleDone(k) ==
  /\ comp[k] = "reap"
  /\ proc[csess[k]] = "dead"
  /\ recycling' = [recycling EXCEPT ![k] = None]
  /\ Give(csess[k])
  /\ CompOff(k)
  /\ UNCHANGED <<sessions, proc, closeVars, callVars>>

----------------------------------------------------------------------------
(* close_all *)

OpenTurns == {p \in Provs : \E c \in Callers : pc[c] = "turn" /\ sess[c] = p}

\* Set _closing and snapshot the open turns of the registered sessions.
CloseBegin ==
  /\ "close" \in Faults
  /\ phase = "open"
  /\ phase' = "drain"
  /\ drained' = {p \in OpenTurns : Registered(p)}
  /\ UNCHANGED <<sessions, sem, proc, compVars, callVars>>

\* The bounded drain is over, by acknowledgement or by timeout: background
\* compactions are cancelled and run their "finally" blocks.
CloseCancel ==
  LET owns(p) == {k \in Keys : csess[k] = p /\ comp[k] \in {"compact", "marked", "reap"}} IN
  /\ phase = "drain"
  /\ phase' = "clear"
  /\ sem' = [p \in Provs |-> sem[p] + Cardinality(owns(p))]
  /\ recycling' = [k \in Keys |-> None]
  /\ comp' = [k \in Keys |-> "off"]
  /\ csess' = [k \in Keys |-> None]
  /\ UNCHANGED <<sessions, proc, drained, callVars>>

\* Clear the registry and shut every provider down.
CloseClear ==
  /\ phase = "clear"
  /\ phase' = "closed"
  /\ sessions' = [k \in Keys |-> None]
  /\ proc' = [p \in Provs |-> IF Registered(p) THEN "dying" ELSE proc[p]]
  /\ UNCHANGED <<sem, compVars, drained, callVars>>

----------------------------------------------------------------------------
CallerNext(c) ==
  \/ \E k \in Keys : Call(c, k) \/ TryAcquire(c, k)
  \/ EntryRefused(c) \/ EntryReuse(c) \/ EntryCold(c) \/ EntryEvict(c)
  \/ Acquire(c) \/ ValidateOk(c) \/ ValidateStale(c)
  \/ ValidateRetry(c) \/ ValidateGiveUp(c)
  \/ ColdStart(c) \/ StartFails(c) \/ Register(c) \/ RegisterLost(c) \/ Reaped(c)
  \/ Cancel(c)
  \/ BeginTurn(c) \/ SkipTurn(c) \/ EndTurn(c) \/ Release(c)

CompactNext(k) ==
  \/ CompactStart(k) \/ CompactAcquire(k) \/ CompactBusy(k)
  \/ CompactDone(k) \/ CompactFailed(k) \/ RecyclePop(k) \/ RecycleDone(k)

Next ==
  \/ \E c \in Callers : CallerNext(c)
  \/ \E k \in Keys : CompactNext(k) \/ ForceReset(k) \/ IdleReset(k)
  \/ \E p \in Provs : Crash(p) \/ ProcExit(p)
  \/ CloseBegin \/ CloseCancel \/ CloseClear

Spec == Init /\ [][Next]_vars

\* Every coroutine that can run is run; asyncio semaphores wake waiters in
\* FIFO order, hence strong fairness of Acquire; a turn ends because the
\* stream has a stale-turn watchdog; a shutdown escalates to SIGKILL.
Fairness ==
  /\ \A c \in Callers :
       /\ SF_vars(Acquire(c))
       /\ WF_vars(EntryRefused(c) \/ EntryReuse(c) \/ EntryCold(c) \/ EntryEvict(c))
       /\ WF_vars(ValidateOk(c) \/ ValidateStale(c) \/ ValidateRetry(c) \/ ValidateGiveUp(c))
       /\ SF_vars(ColdStart(c))
       /\ WF_vars(Register(c) \/ RegisterLost(c))
       /\ WF_vars(Reaped(c))
       /\ WF_vars(BeginTurn(c) \/ SkipTurn(c))
       /\ WF_vars(EndTurn(c) \/ Release(c))
  /\ \A k \in Keys :
       /\ WF_vars(CompactAcquire(k) \/ CompactBusy(k))
       /\ WF_vars(CompactDone(k) \/ CompactFailed(k))
       /\ WF_vars(RecyclePop(k) \/ RecycleDone(k))
  /\ \A p \in Provs : WF_vars(ProcExit(p))

FairSpec == Spec /\ Fairness

----------------------------------------------------------------------------
(* Who refers to what: the strengthening that the proofs rest on *)

\* The keys a running call works on are keys.
CallOK == \A c \in Callers :
  /\ pc[c] # "idle" => ukey[c] \in Keys
  /\ pc[c] \notin {"idle", "release"} => key[c] \in Keys
  /\ pc[c] \in Waiting \cup Checking \cup {"reap", "leased", "turn"} => sess[c] \in Provs
  /\ pc[c] \in {"starting", "reap"} <=> mine[c] # None

\* A provider that its starter has not registered is known to nobody else,
\* and a registered session has one key.
OwnInv ==
  /\ \A c \in Callers : mine[c] # None =>
       /\ pc[c] = "starting" => proc[mine[c]] = "starting"
       /\ \A d \in Callers : sess[d] # mine[c] /\ (mine[d] = mine[c] => c = d)
       /\ \A k \in Keys : sessions[k] # mine[c] /\ csess[k] # mine[c]
  /\ \A j, k \in Keys :
       /\ sessions[j] = sessions[k] /\ sessions[j] # None => j = k
       /\ csess[j] \in {sessions[k], csess[k]} /\ csess[j] # None => j = k

\* The recycling mark names the session whose permit the recycler holds.
CompInv == \A k \in Keys :
  /\ comp[k] # "off" => csess[k] \in Provs
  /\ comp[k] \in {"marked", "reap"} => recycling[k] = csess[k]
  /\ comp[k] \notin {"marked", "reap"} => recycling[k] = None

----------------------------------------------------------------------------
(* Safety under every fault *)

\* No provider process is lost: while the gateway is open, a running process
\* is registered or is about to be reaped by the recycler that owns it, and
\* one being started belongs to a caller (get_or_create, _compact_session).
NoOrphan ==
  phase = "open" => \A p \in Provs :
    /\ proc[p] = "up" => Registered(p) \/ \E k \in Keys : recycling[k] = p
    /\ proc[p] = "starting" => \E c \in Callers : pc[c] = "starting" /\ mine[c] = p

\* Whoever shuts a provider down has taken it out of the registry first, so
\* get_or_create never hands out a session whose teardown is under way.
RegisteredNotReaped ==
  \A k \in Keys : sessions[k] # None => proc[sessions[k]] \in {"up", "dead"}

\* close_all kills no gated turn that its drain did not try to end: once
\* closing, every turn that passed begin_turn() on a registered session is
\* in the drain snapshot.
DrainCoversGated ==
  phase # "open" => \A c \in Gated :
    pc[c] = "turn" /\ Registered(sess[c]) => sess[c] \in drained

----------------------------------------------------------------------------
(* Safety when nothing tears a busy session down *)

\* Compaction and callers that drive the provider behind p.
InUse(p) ==
  {<<c, "turn">> : c \in {d \in Callers : pc[d] = "turn" /\ sess[d] = p}}
  \cup {<<k, "compact">> : k \in {j \in Keys : comp[j] = "compact" /\ csess[j] = p}}

\* One turn or one in-place compaction at a time drives a provider, so their
\* JSON-RPC never interleaves on one stdio channel.
SerialUse == \A p \in Provs : \A x, y \in InUse(p) : x = y

\* No fault tears down a busy session, every release follows an acquisition,
\* and every conversation has one key form.
Orderly ==
  /\ Faults \cap {"force", "crash", "close"} = {}
  /\ Unguarded = {}
  /\ \A k \in Keys : Alias[k] = k

CallerHolds(c, p) == sess[c] = p /\ pc[c] \in Checking \cup Holding
CompHolds(k, p) == csess[k] = p /\ comp[k] \in {"compact", "marked", "reap"}

\* The permit of a session has at most one holder, and whoever holds a lease
\* holds it on the session that release(key) will find.
LeaseInv ==
  /\ \A p \in Provs :
       /\ sem[p] \in {0, 1}
       /\ \A c \in Callers : CallerHolds(c, p) =>
            /\ sem[p] = 0
            /\ \A d \in Callers : CallerHolds(d, p) => c = d
            /\ \A k \in Keys : ~CompHolds(k, p)
       /\ \A k \in Keys : CompHolds(k, p) => sem[p] = 0
  /\ \A c \in Callers : pc[c] # "idle" => key[c] = ukey[c]
  /\ \A c \in Callers : pc[c] \in Holding =>
       sess[c] \in Provs /\ sessions[key[c]] = sess[c]
  /\ \A k \in Keys : sessions[k] # None => proc[sessions[k]] = "up"
  /\ phase = "open"

\* The same as SerialUse for turns only.
TurnMutex == \A c, d \in Callers :
  pc[c] = "turn" /\ pc[d] = "turn" /\ sess[c] = sess[d] => c = d

\* Idle and RSS watchdogs, the recycler and other callers' cold starts never
\* cut a live turn: its session stays registered and its process runs.
TurnNotCut == \A c \in Callers :
  pc[c] = "turn" => sessions[key[c]] = sess[c] /\ proc[sess[c]] = "up"

\* What the abstract lease service sees of a call: the key it is waiting for,
\* and the key whose lease it holds.
Asked == [c \in Callers |-> IF pc[c] \in {"idle"} \cup Holding THEN None ELSE key[c]]
Held == [c \in Callers |-> IF pc[c] \in Holding /\ sess[c] # None THEN key[c] ELSE None]

Lease == INSTANCE SerialTurns WITH asked <- Asked, lease <- Held

\* The registry implements the abstract lease service: leases of one key never
\* overlap, whatever session objects and processes come and go underneath.
SerialLeases == Lease!Spec

----------------------------------------------------------------------------
(* Liveness *)

\* A caller queued behind a turn gets its lease in the end.
WaiterServed == \A c \in Callers :
  pc[c] \in Waiting ~> pc[c] \in {"leased", "idle"}
=============================================================================
