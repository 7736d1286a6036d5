--------------------------- MODULE WarmPoolProofs ---------------------------
(* Theorems about the warm pool for every number of processes and callers.  *)
EXTENDS WarmPool, FiniteSetTheorems, TLAPS

TypeInv == TypeOK /\ HandOK

LEMMA InitType == Init => TypeInv
<1> SUFFICES ASSUME Init PROVE TypeInv OBVIOUS
<1>1. 1 \in 0..MaxTasks BY PoolAssumption
<1>2. missed \in [Callers -> BOOLEAN] BY Zenon DEF Init
<1> QED BY <1>1, <1>2 DEF Init, TypeInv, TypeOK, HandOK

Labels == {"idle", "claim", "discard", "rekey", "cold", "starting", "guarded"}
InHands == {"discard", "rekey", "starting", "guarded"}
States == {"dead", "starting", "up"}

\* The pieces of the type invariant that a caller's step can disturb.
CallerType ==
  /\ pc \in [Callers -> Labels]
  /\ prov \in [Callers -> Procs \cup {None}]
  /\ HandOK

LEMMA MoveType ==
  ASSUME TypeInv, NEW c \in Callers, NEW l \in Labels, NEW p \in Procs \cup {None},
         l \in InHands => p \in Procs, Move(c, l, p)
  PROVE  CallerType'
  BY DEF TypeInv, TypeOK, HandOK, CallerType, Move, Labels, InHands

LEMMA KillType == ASSUME TypeOK, NEW S PROVE Killed(S) \in [Procs -> States]
  BY DEF TypeOK, Killed, States

LEMMA SpawnType ==
  ASSUME TypeOK, NEW p \in Procs, Spawn(p)
  PROVE  proc' \in [Procs -> States] /\ aged' \subseteq Procs
  BY DEF TypeOK, Spawn, States

LEMMA TasksType == ASSUME TypeOK, Replenish PROVE tasks' \in 0..MaxTasks
  BY PoolAssumption DEF TypeOK, Replenish

LEMMA ForgetType ==
  ASSUME TypeOK, NEW c \in Callers, NEW b \in BOOLEAN, missed' = [missed EXCEPT ![c] = b]
  PROVE  missed' \in [Callers -> BOOLEAN]
  BY Zenon DEF TypeOK

\* The variables a caller's step leaves alone, and the rest of the type.
LEMMA CallerStep ==
  ASSUME TypeInv, CallerType', missed' \in [Callers -> BOOLEAN],
         proc' \in [Procs -> States], aged' \subseteq Procs, stale' \subseteq Procs,
         queue' \subseteq Procs, starting' \subseteq Procs, sessions' \subseteq Procs,
         doomed' \subseteq Procs, tasks' \in 0..MaxTasks,
         UNCHANGED <<lock, held, healthVars, pidVars, restart>>
  PROVE  TypeInv'
<1>1. TypeOK'
  BY DEF TypeInv, TypeOK, CallerType, Labels, States, healthVars, pidVars
<1>2. HandOK' BY DEF CallerType
<1> QED BY <1>1, <1>2 DEF TypeInv

LEMMA TypeCaller == ASSUME TypeInv, NEW c \in Callers, CallerNext(c) PROVE TypeInv'
<1> USE DEF TypeInv, poolVars, fillVars
<1>p. /\ proc \in [Procs -> States] /\ tasks \in 0..MaxTasks
      /\ aged \subseteq Procs /\ stale \subseteq Procs /\ queue \subseteq Procs
      /\ starting \subseteq Procs /\ sessions \subseteq Procs /\ doomed \subseteq Procs
      /\ prov[c] \in Procs \cup {None}
  BY DEF TypeOK, States
<1>m. missed \in [Callers -> BOOLEAN] BY DEF TypeOK
<1>h. pc[c] \in InHands => prov[c] \in Procs BY DEF HandOK, InHands
<1>1. CASE Ask(c)
  <2>1. CallerType' BY <1>1, <1>p, MoveType DEF Ask, Keep, Labels, InHands
  <2>2. missed' \in [Callers -> BOOLEAN] BY <1>1, ForgetType DEF Ask
  <2> QED BY <1>1, <1>p, <2>1, <2>2, CallerStep DEF Ask
<1>2. CASE ClaimDiscard(c)
  <2>1. PICK p \in queue : queue' = queue \ {p} /\ Move(c, "discard", p)
    BY <1>2 DEF ClaimDiscard
  <2>2. CallerType' BY <1>p, <2>1, MoveType DEF Labels, InHands
  <2>3. missed' \in [Callers -> BOOLEAN] BY <1>2, ForgetType DEF ClaimDiscard
  <2> QED BY <1>2, <1>p, <2>1, <2>2, <2>3, CallerStep DEF ClaimDiscard
<1>3. CASE Claim(c)
  <2>1. PICK p \in queue :
          queue' = queue \ {p} /\ Move(c, "guarded", p) /\ starting' = starting \cup {p}
    BY <1>3 DEF Claim
  <2>2. CallerType' BY <1>p, <2>1, MoveType DEF Labels, InHands
  <2>3. tasks' \in 0..MaxTasks BY <1>3, TasksType DEF Claim
  <2> QED BY <1>3, <1>p, <1>m, <2>1, <2>2, <2>3, CallerStep DEF Claim
<1>4. CASE ClaimSwitch(c)
  <2>1. PICK p \in queue : queue' = queue \ {p} /\ Move(c, "rekey", p)
    BY <1>4 DEF ClaimSwitch
  <2>2. CallerType' BY <1>p, <2>1, MoveType DEF Labels, InHands
  <2> QED BY <1>4, <1>p, <1>m, <2>1, <2>2, CallerStep DEF ClaimSwitch
<1>5. CASE SwitchDone(c)
  <2>1. prov[c] \in Procs BY <1>5, <1>h DEF SwitchDone, InHands
  <2>2. CallerType' BY <1>5, <2>1, MoveType DEF SwitchDone, Keep, Labels, InHands
  <2>3. tasks' \in 0..MaxTasks BY <1>5, TasksType DEF SwitchDone
  <2> QED BY <1>5, <1>p, <1>m, <2>1, <2>2, <2>3, CallerStep DEF SwitchDone
<1>6. CASE ClaimMiss(c)
  <2>1. CallerType' BY <1>6, MoveType DEF ClaimMiss, Labels, InHands
  <2>2. tasks' \in 0..MaxTasks
    <3>1. Replenish \/ UNCHANGED tasks BY <1>6, Zenon DEF ClaimMiss
    <3> QED BY <3>1, <1>p, TasksType
  <2> QED BY <1>6, <1>p, <1>m, <2>1, <2>2, CallerStep DEF ClaimMiss
<1>7. CASE ColdStart(c)
  <2>1. PICK p \in Procs : Spawn(p) /\ stale' = stale \ {p} /\ Move(c, "starting", p)
    BY <1>7 DEF ColdStart
  <2>2. CallerType' BY <2>1, MoveType DEF Labels, InHands
  <2>3. proc' \in [Procs -> States] /\ aged' \subseteq Procs BY <2>1, SpawnType
  <2> QED BY <1>7, <1>p, <1>m, <2>1, <2>2, <2>3, CallerStep DEF ColdStart
<1>8. CASE StartDone(c)
  <2>1. prov[c] \in Procs BY <1>8, <1>h DEF StartDone, InHands
  <2>2. CallerType' BY <1>8, <2>1, MoveType DEF StartDone, Keep, Labels, InHands
  <2>3. proc' \in [Procs -> States] BY <1>8, <1>p, <2>1 DEF StartDone, States
  <2> QED BY <1>8, <1>p, <1>m, <2>1, <2>2, <2>3, CallerStep DEF StartDone
<1>9. CASE CallFails(c)
  <2>1. CallerType' BY <1>9, MoveType DEF CallFails, Labels, InHands
  <2>2. proc' \in [Procs -> States] BY <1>9, KillType DEF CallFails
  <2> QED BY <1>9, <1>p, <1>m, <2>1, <2>2, CallerStep DEF CallFails
<1>10. CASE DiscardCancelled(c)
  <2>1. CallerType' BY <1>10, MoveType DEF DiscardCancelled, Labels, InHands
  <2>2. proc' \in [Procs -> States] BY <1>10, KillType DEF DiscardCancelled
  <2> QED BY <1>10, <1>p, <1>m, <2>1, <2>2, CallerStep DEF DiscardCancelled
<1>11. CASE Register(c) \/ RegisterLost(c)
  <2>1. prov[c] \in Procs BY <1>11, <1>h DEF Register, RegisterLost, InHands
  <2>2. CallerType' BY <1>11, MoveType DEF Register, RegisterLost, Labels, InHands
  <2> QED BY <1>11, <1>p, <1>m, <2>1, <2>2, CallerStep DEF Register, RegisterLost
<1> QED
  BY <1>1, <1>2, <1>3, <1>4, <1>5, <1>6, <1>7, <1>8, <1>9, <1>10, <1>11 DEF CallerNext

\* No other step changes a caller.
LEMMA CallersStill == ASSUME TypeInv, UNCHANGED callVars
  PROVE /\ HandOK'
        /\ pc' \in [Callers -> Labels] /\ prov' \in [Callers -> Procs \cup {None}]
        /\ missed' \in [Callers -> BOOLEAN]
<1>1. UNCHANGED <<pc, prov, missed>> BY DEF callVars
<1> QED BY <1>1 DEF TypeInv, TypeOK, HandOK, Labels

LEMMA TypeStep == TypeInv /\ [Next]_vars => TypeInv'
<1> SUFFICES ASSUME TypeInv, [Next]_vars PROVE TypeInv' OBVIOUS
<1> USE PoolAssumption DEF TypeInv, TypeOK, poolVars, fillVars, healthVars, pidVars
<1>1. ASSUME NEW c \in Callers, CallerNext(c) PROVE TypeInv'
  BY <1>1, TypeCaller
<1>2. ASSUME NEW p \in Procs, EndSession(p) \/ SweepDiscard(p) \/ Exit(p) \/ Die(p) \/ Age(p)
      PROVE TypeInv'
  <2>c. UNCHANGED callVars
    BY <1>2 DEF EndSession, SweepDiscard, Exit, Die, Age
  <2>k. ASSUME proc' = Killed({p}) PROVE proc' \in [Procs -> {"dead", "starting", "up"}]
    BY <2>k, KillType DEF States
  <2>1. CASE EndSession(p) BY <2>1, <2>c, CallersStill DEF EndSession, Labels
  <2>2. CASE SweepDiscard(p)
    <3>1. tasks' \in 0..MaxTasks
      <4>1. Replenish \/ UNCHANGED tasks BY <2>2, Zenon DEF SweepDiscard
      <4> QED BY <4>1, TasksType
    <3>2. swept' \subseteq Procs BY <2>2 DEF SweepDiscard
    <3> QED BY <2>2, <2>c, <2>k, <3>1, <3>2, CallersStill DEF SweepDiscard, Labels
  <2>3. CASE Exit(p) BY <2>3, <2>c, <2>k, CallersStill DEF Exit, Labels
  <2>4. CASE Die(p) BY <2>4, <2>c, <2>k, CallersStill DEF Die, Labels
  <2>5. CASE Age(p) BY <2>5, <2>c, CallersStill DEF Age, Labels
  <2> QED BY <1>2, <2>1, <2>2, <2>3, <2>4, <2>5
<1>3. CASE Fill
  <2>c. UNCHANGED callVars
    BY <1>3 DEF Fill, FillLock, FillSpawn, FillPut, FillFails, FillDone
  <2>1. CASE FillLock BY <2>1, <2>c, CallersStill DEF FillLock, Labels
  <2>2. CASE FillSpawn
    <3>1. PICK p \in Procs : Spawn(p) /\ held' = p /\ stale' = stale \ {p}
      BY <2>2 DEF FillSpawn
    <3>2. proc' \in [Procs -> States] /\ aged' \subseteq Procs BY <3>1, SpawnType
    <3> QED BY <2>2, <2>c, <3>1, <3>2, CallersStill DEF FillSpawn, Labels, States
  <2>3. CASE FillPut BY <2>3, <2>c, CallersStill DEF FillPut, Labels
  <2>4. CASE FillFails
    <3>1. proc' \in [Procs -> States] BY <2>4, KillType DEF FillFails
    <3> QED BY <2>4, <2>c, <3>1, CallersStill DEF FillFails, Labels, States
  <2>5. CASE FillDone BY <2>5, <2>c, CallersStill DEF FillDone, Labels
  <2> QED BY <1>3, <2>1, <2>2, <2>3, <2>4, <2>5 DEF Fill
<1>4. CASE Sweep
  <2>c. UNCHANGED callVars BY <1>4 DEF Sweep
  <2> QED BY <1>4, <2>c, CallersStill DEF Sweep, Labels
<1>5. CASE ReloadBegin \/ ReloadDrain \/ ReloadDiscard
  <2>c. UNCHANGED callVars BY <1>5 DEF ReloadBegin, ReloadDrain, ReloadDiscard
  <2>1. CASE ReloadBegin BY <2>1, <2>c, CallersStill DEF ReloadBegin, Labels
  <2>2. CASE ReloadDrain BY <2>2, <2>c, CallersStill DEF ReloadDrain, Labels
  <2>3. CASE ReloadDiscard
    <3>1. proc' \in [Procs -> States] BY <2>3, KillType DEF ReloadDiscard
    <3> QED BY <2>3, <2>c, <3>1, CallersStill DEF ReloadDiscard, Labels, States
  <2> QED BY <1>5, <2>1, <2>2, <2>3
<1>6. ASSUME NEW all \in BOOLEAN, ReloadEnd(all) PROVE TypeInv'
  <2>c. UNCHANGED callVars BY <1>6 DEF ReloadEnd
  <2>1. tasks' \in 0..MaxTasks BY <1>6, TasksType DEF ReloadEnd
  <2>2. proc' \in [Procs -> States]
    <3>1. UNCHANGED proc \/ \E p \in condemned : proc' = Killed({p})
      BY <1>6 DEF ReloadEnd
    <3> QED BY <3>1, KillType DEF States
  <2>3. sessions' \subseteq Procs /\ doomed' \subseteq Procs
    <3>1. CASE all BY <1>6, <3>1 DEF ReloadEnd
    <3>2. CASE ~all BY <1>6, <3>2 DEF ReloadEnd
    <3> QED BY <3>1, <3>2
  <2> QED BY <1>6, <2>c, <2>1, <2>2, <2>3, CallersStill DEF ReloadEnd, Labels, States
<1>7. CASE DrainPool \/ RestartPool
  <2>c. UNCHANGED callVars BY <1>7 DEF DrainPool, RestartPool
  <2>1. tasks' \in 0..MaxTasks BY <1>7, TasksType DEF DrainPool, RestartPool
  <2>2. restart' \in BOOLEAN BY <1>7 DEF DrainPool, RestartPool
  <2> QED BY <1>7, <2>c, <2>1, <2>2, CallersStill DEF DrainPool, RestartPool, Labels
<1>8. CASE PidSweep
  <2>c. UNCHANGED callVars BY <1>8 DEF PidSweep, ScanBegin, ScanConfirm, ScanKill
  <2>1. proc' \in [Procs -> States]
    <3>1. UNCHANGED proc \/ proc' = Killed(victims)
      BY <1>8 DEF PidSweep, ScanBegin, ScanConfirm, ScanKill
    <3> QED BY <3>1, KillType DEF States
  <2> QED
    BY <1>8, <2>c, <2>1, CallersStill
       DEF PidSweep, ScanBegin, ScanConfirm, ScanKill, ActivePids, Labels, States
<1>9. CASE UNCHANGED vars
  <2>c. UNCHANGED callVars BY <1>9 DEF vars, callVars
  <2> QED BY <1>9, <2>c, CallersStill DEF vars, Labels
<1> QED BY <1>1, <1>2, <1>3, <1>4, <1>5, <1>6, <1>7, <1>8, <1>9 DEF Next

\* The type invariant of the warm pool (session.py, session_pid.py).
THEOREM PoolTypeCorrect == Spec => []TypeOK
<1>1. TypeInv => TypeOK BY DEF TypeInv
<1> QED BY <1>1, InitType, TypeStep, PTL DEF Spec

----------------------------------------------------------------------------
(* The fill lock *)

\* While a fill starts a process the pool has room for it, because only the
\* holder of the fill lock adds to the pool; and that process, like every
\* entry of the queue outside a reload, was built by the current factory.
FillInv ==
  /\ PoolBounded
  /\ NoStaleSpare
  /\ lock = "free" => held = None
  /\ lock = "fill" /\ held # None =>
       held \notin stale /\ Cardinality(queue) < PoolSize

LEMMA QueueFinite == ASSUME TypeOK, NEW S \in SUBSET queue PROVE
  IsFiniteSet(queue) /\ IsFiniteSet(S) /\ Cardinality(S) <= Cardinality(queue)
  /\ Cardinality(queue) \in Nat /\ Cardinality(S) \in Nat
<1>1. IsFiniteSet(queue) BY PoolAssumption, FS_Subset DEF TypeOK
<1>2. IsFiniteSet(S) /\ Cardinality(S) <= Cardinality(queue) BY <1>1, FS_Subset
<1> QED BY <1>1, <1>2, FS_CardinalityType

LEMMA InitFill == Init => FillInv
  BY PoolAssumption, FS_EmptySet DEF Init, FillInv, PoolBounded, NoStaleSpare

LEMMA FillStep == TypeInv /\ FillInv /\ [Next]_vars => FillInv'
<1> SUFFICES ASSUME TypeInv, FillInv, [Next]_vars PROVE FillInv' OBVIOUS
<1>0. TypeOK BY DEF TypeInv
\* A step that takes entries out and leaves lock, held and stale alone.
<1>s. ASSUME queue' \subseteq queue, stale' \subseteq stale, UNCHANGED <<lock, held>> PROVE FillInv'
  <2>1. Cardinality(queue') <= Cardinality(queue) /\ Cardinality(queue) \in Nat
        /\ Cardinality(queue') \in Nat
    BY <1>s, QueueFinite, <1>0
  <2> QED BY <1>s, <2>1, PoolAssumption DEF FillInv, PoolBounded, NoStaleSpare
<1> USE DEF poolVars, fillVars, Move, Keep, Spawn, Replenish
<1>1. ASSUME NEW c \in Callers, CallerNext(c) PROVE FillInv'
  <2>1. queue' \subseteq queue /\ stale' \subseteq stale /\ UNCHANGED <<lock, held>>
    BY <1>1 DEF CallerNext, Ask, ClaimDiscard, Claim, ClaimSwitch, SwitchDone, ClaimMiss,
       ColdStart, StartDone, CallFails, DiscardCancelled, Register, RegisterLost
  <2> QED BY <2>1, <1>s
<1>2. ASSUME NEW p \in Procs, EndSession(p) \/ SweepDiscard(p) \/ Exit(p) \/ Die(p) \/ Age(p)
      PROVE FillInv'
  <2>1. queue' \subseteq queue /\ stale' \subseteq stale /\ UNCHANGED <<lock, held>>
    BY <1>2 DEF EndSession, SweepDiscard, Exit, Die, Age
  <2> QED BY <2>1, <1>s
<1>3. CASE FillLock \/ FillFails \/ FillDone
  BY <1>3 DEF FillLock, FillFails, FillDone, FillInv, PoolBounded, NoStaleSpare
<1>4. CASE FillSpawn
  BY <1>4 DEF FillSpawn, FillInv, PoolBounded, NoStaleSpare
<1>5. CASE FillPut
  <2>1. IsFiniteSet(queue) /\ Cardinality(queue) \in Nat BY <1>0, QueueFinite, <1>0
  <2>2. Cardinality(queue \cup {held}) = IF held \in queue THEN Cardinality(queue)
                                          ELSE Cardinality(queue) + 1
    BY <2>1, FS_AddElement
  <2>3. Cardinality(queue') \in Nat /\ Cardinality(queue') <= Cardinality(queue) + 1
    BY <1>5, <2>1, <2>2 DEF FillPut
  <2>4. Cardinality(queue) < PoolSize BY <1>5 DEF FillPut, FillInv
  <2>5. PoolBounded' BY <2>1, <2>3, <2>4, PoolAssumption DEF PoolBounded
  <2> QED BY <1>5, <2>5 DEF FillPut, FillInv, NoStaleSpare
<1>6. CASE Sweep \/ DrainPool \/ RestartPool
  <2>1. queue' \subseteq queue /\ stale' \subseteq stale /\ UNCHANGED <<lock, held>>
    BY <1>6 DEF Sweep, DrainPool, RestartPool
  <2> QED BY <2>1, <1>s
<1>7. CASE ReloadBegin \/ ReloadDiscard
  BY <1>7 DEF ReloadBegin, ReloadDiscard, FillInv, PoolBounded, NoStaleSpare
<1>8. CASE ReloadDrain
  <2>1. queue' \in SUBSET queue BY <1>8 DEF ReloadDrain
  <2>2. Cardinality(queue') <= Cardinality(queue) /\ Cardinality(queue) \in Nat
        /\ Cardinality(queue') \in Nat
    BY <2>1, QueueFinite, <1>0
  <2> QED BY <1>8, <2>2, PoolAssumption DEF ReloadDrain, FillInv, PoolBounded, NoStaleSpare
<1>9. ASSUME NEW all \in BOOLEAN, ReloadEnd(all) PROVE FillInv'
  BY <1>9 DEF ReloadEnd, FillInv, PoolBounded, NoStaleSpare
<1>10. CASE PidSweep \/ UNCHANGED vars
  <2>1. queue' \subseteq queue /\ stale' \subseteq stale /\ UNCHANGED <<lock, held>>
    BY <1>10 DEF PidSweep, ScanBegin, ScanConfirm, ScanKill, vars
  <2> QED BY <2>1, <1>s
<1> QED
  BY <1>1, <1>2, <1>3, <1>4, <1>5, <1>6, <1>7, <1>8, <1>9, <1>10 DEF Next, Fill

LEMMA FillAlways == Spec => []FillInv
<1>1. Init => TypeInv /\ FillInv BY InitType, InitFill
<1>2. TypeInv /\ FillInv /\ [Next]_vars => (TypeInv /\ FillInv)' BY TypeStep, FillStep
<1> QED BY <1>1, <1>2, PTL DEF Spec

\* _fill_warm_pool never overfills: however many refills are scheduled, the
\* pool holds at most PoolSize processes.
THEOREM PoolNeverOverfull == Spec => []PoolBounded
  BY FillAlways, PTL DEF FillInv

\* refresh_defaults and reload_provider_factory leave no spare of the replaced
\* factory behind, whatever fill or sweep was under way.
THEOREM ReloadLeavesNoStaleSpare == Spec => []NoStaleSpare
  BY FillAlways, PTL DEF FillInv

----------------------------------------------------------------------------
(* One owner *)

\* A caller gives up what it holds and takes p, which no other caller has.
LEMMA HandMoves ==
  ASSUME TypeOK, OneOwner, NEW c \in Callers, NEW l, NEW p \in Procs \cup {None},
         p \notin InHand \/ p = prov[c], Move(c, l, p)
  PROVE  /\ InHand' = (InHand \ {prov[c]}) \cup ({p} \ {None})
         /\ \A d, e \in Callers : prov'[d] = prov'[e] /\ prov'[d] # None => d = e
<1>1. prov' = [prov EXCEPT ![c] = p] BY DEF Move
<1>2. \A d \in Callers : prov'[d] = IF d = c THEN p ELSE prov[d] BY <1>1 DEF TypeOK
<1>3. \A d, e \in Callers : prov[d] = prov[e] /\ prov[d] # None => d = e BY DEF OneOwner
<1>4. \A d \in Callers : d # c /\ prov[d] # None => prov[d] # p
  BY <1>3 DEF InHand
<1>5. ASSUME NEW d \in Callers, NEW e \in Callers, prov'[d] = prov'[e], prov'[d] # None
      PROVE  d = e
  BY <1>2, <1>3, <1>4, <1>5
<1>6. ASSUME NEW x PROVE x \in InHand' <=> x \in (InHand \ {prov[c]}) \cup ({p} \ {None})
  <2>1. ASSUME x \in InHand' PROVE x \in (InHand \ {prov[c]}) \cup ({p} \ {None})
    <3>1. PICK d \in Callers : prov'[d] = x /\ x # None BY <2>1 DEF InHand
    <3> QED BY <3>1, <1>2, <1>3 DEF InHand
  <2>2. ASSUME x \in (InHand \ {prov[c]}) \cup ({p} \ {None}) PROVE x \in InHand'
    <3>1. CASE x = p /\ p # None BY <3>1, <1>2 DEF InHand
    <3>2. CASE x \in InHand \ {prov[c]}
      <4>1. PICK d \in Callers : prov[d] = x /\ x # None BY <3>2 DEF InHand
      <4>2. d # c BY <4>1, <3>2
      <4> QED BY <4>1, <4>2, <1>2 DEF InHand
    <3> QED BY <2>2, <3>1, <3>2
  <2> QED BY <2>1, <2>2
<1> QED BY <1>5, <1>6

LEMMA HandsStill == ASSUME UNCHANGED callVars PROVE InHand' = InHand
  BY DEF callVars, InHand

LEMMA InitOwner == Init => OneOwner
  BY PoolAssumption DEF Init, OneOwner, InHand

LEMMA OwnerStep == TypeInv /\ FillInv /\ OneOwner /\ [Next]_vars => OneOwner'
<1> SUFFICES ASSUME TypeInv, FillInv, OneOwner, [Next]_vars PROVE OneOwner' OBVIOUS
<1> USE DEF poolVars, fillVars
<1>t. TypeOK /\ HandOK BY DEF TypeInv
<1>n. None \notin queue \cup sessions \cup doomed \cup condemned \cup InHand
  BY <1>t, PoolAssumption DEF TypeOK, InHand
<1>i. \A c \in Callers : pc[c] \in InHands => prov[c] \in InHand /\ prov[c] # None
  BY <1>t, PoolAssumption DEF HandOK, InHand, InHands
<1>1. ASSUME NEW c \in Callers, CallerNext(c) PROVE OneOwner'
  <2>k. prov[c] \in Procs \cup {None} BY <1>t DEF TypeOK
  <2>1. CASE Ask(c)
    <3>1. prov' = prov BY <2>1, <1>t DEF Ask, Keep, Move, TypeOK
    <3> QED BY <2>1, <3>1 DEF Ask, InHand, healthVars, OneOwner
  <2>2. CASE ClaimDiscard(c) \/ Claim(c) \/ ClaimSwitch(c)
    <3>1. PICK p \in queue, l \in {"discard", "guarded", "rekey"} :
            queue' = queue \ {p} /\ Move(c, l, p)
      BY <2>2 DEF ClaimDiscard, Claim, ClaimSwitch
    <3>2. p \in Procs /\ p \notin InHand /\ p # None BY <1>t, <1>n DEF TypeOK, OneOwner
    <3>3. InHand' = (InHand \ {prov[c]}) \cup {p}
          /\ \A d, e \in Callers : prov'[d] = prov'[e] /\ prov'[d] # None => d = e
      BY <3>1, <3>2, <1>t, HandMoves
    <3>4. UNCHANGED <<held, sessions, doomed, condemned>>
      BY <2>2 DEF ClaimDiscard, Claim, ClaimSwitch, healthVars
    <3> QED BY <3>1, <3>2, <3>3, <3>4 DEF OneOwner
  <2>3. CASE SwitchDone(c) \/ StartDone(c)
    <3>1. InHand' = InHand /\ \A d, e \in Callers : prov'[d] = prov'[e] /\ prov'[d] # None => d = e
      BY <2>3, <2>k, <1>t, <1>n, <1>i, HandMoves DEF SwitchDone, StartDone, Keep, InHands
    <3> QED BY <2>3, <3>1 DEF SwitchDone, StartDone, healthVars, OneOwner
  <2>4. CASE ClaimMiss(c) \/ CallFails(c) \/ DiscardCancelled(c)
    <3>1. \E l : Move(c, l, None) BY <2>4 DEF ClaimMiss, CallFails, DiscardCancelled
    <3>2. InHand' = InHand \ {prov[c]}
          /\ \A d, e \in Callers : prov'[d] = prov'[e] /\ prov'[d] # None => d = e
      BY <3>1, <1>t, <1>n, HandMoves
    <3>3. UNCHANGED <<queue, held, sessions, doomed, condemned>>
      BY <2>4 DEF ClaimMiss, CallFails, DiscardCancelled, healthVars
    <3> QED BY <3>2, <3>3 DEF OneOwner
  <2>5. CASE ColdStart(c)
    <3>1. PICK p \in Procs : Spawn(p) /\ Move(c, "starting", p) BY <2>5 DEF ColdStart
    <3>2. p \notin queue \cup InHand \cup sessions \cup doomed \cup condemned \cup {held}
      BY <3>1 DEF Spawn, Unused
    <3>3. InHand' = (InHand \ {prov[c]}) \cup ({p} \ {None})
          /\ \A d, e \in Callers : prov'[d] = prov'[e] /\ prov'[d] # None => d = e
      BY <3>1, <3>2, <1>t, HandMoves
    <3> QED BY <2>5, <3>2, <3>3 DEF ColdStart, healthVars, OneOwner
  <2>6. CASE Register(c) \/ RegisterLost(c)
    <3>1. InHand' = InHand \ {prov[c]} /\ prov[c] \in InHand
          /\ \A d, e \in Callers : prov'[d] = prov'[e] /\ prov'[d] # None => d = e
      BY <2>6, <1>t, <1>n, <1>i, HandMoves DEF Register, RegisterLost, InHands
    <3> QED BY <2>6, <3>1, <1>n DEF Register, RegisterLost, healthVars, OneOwner
  <2> QED BY <1>1, <2>1, <2>2, <2>3, <2>4, <2>5, <2>6 DEF CallerNext
\* No other step moves a provider from or to a caller.
<1>c. ASSUME UNCHANGED callVars PROVE InHand' = InHand /\ UNCHANGED prov
  BY <1>c, HandsStill DEF callVars
<1>2. ASSUME NEW p \in Procs, EndSession(p) \/ SweepDiscard(p) \/ Exit(p) \/ Die(p) \/ Age(p)
      PROVE OneOwner'
  <2>1. InHand' = InHand /\ UNCHANGED <<prov, queue, held>>
    BY <1>2, <1>c DEF EndSession, SweepDiscard, Exit, Die, Age
  <2>2. CASE EndSession(p) BY <2>1, <2>2 DEF EndSession, healthVars, OneOwner
  <2>3. CASE SweepDiscard(p) BY <2>1, <2>3 DEF SweepDiscard, OneOwner
  <2>4. CASE Exit(p) BY <2>1, <2>4 DEF Exit, healthVars, OneOwner
  <2>5. CASE Die(p) \/ Age(p) BY <2>1, <2>5 DEF Die, Age, healthVars, OneOwner
  <2> QED BY <1>2, <2>2, <2>3, <2>4, <2>5
<1>3. CASE Fill
  <2>1. InHand' = InHand /\ UNCHANGED <<prov, sessions, doomed, condemned>>
    BY <1>3, <1>c DEF Fill, FillLock, FillSpawn, FillPut, FillFails, FillDone, healthVars
  <2>2. CASE FillLock \/ FillDone BY <2>1, <2>2 DEF FillLock, FillDone, OneOwner
  <2>3. CASE FillSpawn
    BY <2>1, <2>3 DEF FillSpawn, Spawn, Unused, OneOwner
  <2>4. CASE FillPut BY <1>n, <2>1, <2>4 DEF FillPut, OneOwner
  <2>5. CASE FillFails BY <1>n, <2>1, <2>5 DEF FillFails, OneOwner
  <2> QED BY <1>3, <2>2, <2>3, <2>4, <2>5 DEF Fill
<1>4. CASE Sweep
  <2>1. InHand' = InHand /\ UNCHANGED <<prov, sessions, doomed, held>>
    BY <1>4, <1>c DEF Sweep
  <2>2. condemned = {} /\ condemned' \subseteq queue /\ queue' = queue \ condemned'
    BY <1>4 DEF Sweep
  <2> QED BY <2>1, <2>2 DEF OneOwner
<1>5. CASE ReloadBegin \/ ReloadDrain \/ ReloadDiscard
  <2>1. InHand' = InHand /\ UNCHANGED <<prov, sessions, doomed, condemned>>
    BY <1>5, <1>c DEF ReloadBegin, ReloadDrain, ReloadDiscard, healthVars
  <2>2. CASE ReloadBegin BY <2>1, <2>2 DEF ReloadBegin, OneOwner
  <2>3. CASE ReloadDrain BY <2>1, <2>3 DEF ReloadDrain, OneOwner
  <2>4. CASE ReloadDiscard BY <1>n, <2>1, <2>4 DEF ReloadDiscard, OneOwner
  <2> QED BY <1>5, <2>2, <2>3, <2>4
<1>6. ASSUME NEW all \in BOOLEAN, ReloadEnd(all) PROVE OneOwner'
  <2>1. InHand' = InHand /\ UNCHANGED <<prov, queue, held>> /\ condemned' = {}
    BY <1>6, <1>c DEF ReloadEnd
  <2>2. sessions' \subseteq sessions /\ doomed' \subseteq doomed \cup sessions
        /\ sessions' \cap doomed' \subseteq sessions \cap doomed
    <3>1. CASE all BY <1>6, <3>1 DEF ReloadEnd
    <3>2. CASE ~all BY <1>6, <3>2 DEF ReloadEnd
    <3> QED BY <3>1, <3>2
  <2> QED BY <2>1, <2>2 DEF OneOwner
<1>7. CASE DrainPool \/ RestartPool
  <2>1. InHand' = InHand /\ UNCHANGED <<prov, held, sessions, condemned>>
    BY <1>7, <1>c DEF DrainPool, RestartPool, healthVars
  <2> QED BY <1>7, <2>1 DEF DrainPool, RestartPool, OneOwner
<1>8. CASE PidSweep \/ UNCHANGED vars
  <2>1. InHand' = InHand /\ UNCHANGED <<prov, queue, held, sessions, doomed, condemned>>
    BY <1>8, <1>c DEF PidSweep, ScanBegin, ScanConfirm, ScanKill, healthVars, vars, callVars
  <2> QED BY <2>1 DEF OneOwner
<1> QED BY <1>1, <1>2, <1>3, <1>4, <1>5, <1>6, <1>7, <1>8 DEF Next

\* What the proofs below have in common.
PoolInv == TypeInv /\ FillInv /\ OneOwner

LEMMA PoolInvAlways == Spec => []PoolInv
<1>1. Init => PoolInv BY InitType, InitFill, InitOwner DEF PoolInv
<1>2. PoolInv /\ [Next]_vars => PoolInv' BY TypeStep, FillStep, OwnerStep DEF PoolInv
<1> QED BY <1>1, <1>2, PTL DEF Spec

\* The queue, the callers, the fill, the sweep, the reload and the table of
\* sessions never hold one process twice (session.py).
THEOREM EachProcessOneOwner == Spec => []OneOwner
  BY PoolInvAlways, PTL DEF PoolInv

----------------------------------------------------------------------------
(* The PID sweep and the processes in service *)

\* The callers whose provider serves, or is about to serve, a conversation.
Serving == {c \in Callers : pc[c] \in {"rekey", "starting", "guarded"}}

\* Two ways for a process in service to be in no set that the PID sweep reads
\* are left out by assumption: an awaited set_model() and a start that outlasts
\* the grace period.  Then a claimed or started process is guarded, and one that
\* still starts is too young to be a victim.
ServedGuarded == \A c \in Callers :
  /\ pc[c] # "rekey"
  /\ pc[c] = "guarded" => prov[c] \in starting
  /\ pc[c] = "starting" => prov[c] \notin aged /\ proc[prov[c]] # "up"

FilledYoung == lock = "fill" /\ held # None => held \notin aged /\ proc[held] # "up"

KillInv == KillsOrphansOnly /\ ServedGuarded /\ FilledYoung

LEMMA InitKill == Init => KillInv
  BY DEF Init, KillInv, KillsOrphansOnly, ServedGuarded, FilledYoung

\* Nothing enters the service but what the sweep has not confirmed.
LEMMA StillOrphans ==
  ASSUME KillsOrphansOnly, victims' \subseteq victims,
         \A p \in victims : p \in InService' => p \in InService
  PROVE  KillsOrphansOnly'
  BY DEF KillsOrphansOnly

LEMMA KillCaller ==
  ASSUME ~ModelSwitch, PoolInv, KillInv, NEW c \in Callers, CallerNext(c)
  PROVE  KillInv'
<1> USE DEF poolVars, fillVars, pidVars
<1>t. TypeOK /\ HandOK /\ OneOwner BY DEF PoolInv, TypeInv
<1>g. ServedGuarded /\ FilledYoung /\ KillsOrphansOnly BY DEF KillInv
<1>v. UNCHANGED <<victims, lock, held>>
  BY DEF CallerNext, Ask, ClaimDiscard, Claim, ClaimSwitch, SwitchDone, ClaimMiss, ColdStart,
     StartDone, CallFails, DiscardCancelled, Register, RegisterLost
<1>d. \A d \in Callers : d # c => prov[d] # prov[c] \/ prov[d] = None
  BY <1>t DEF OneOwner
<1>h. pc[c] \in InHands => prov[c] \in Procs /\ prov[c] # None
  BY <1>t, PoolAssumption DEF HandOK, InHands
<1>m. ASSUME NEW l, NEW p, Move(c, l, p) PROVE
        \A d \in Callers : /\ pc'[d] = IF d = c THEN l ELSE pc[d]
                           /\ prov'[d] = IF d = c THEN p ELSE prov[d]
  BY <1>m, <1>t DEF Move, TypeOK
\* The service gains at most p, which was in the queue, in c's hands or new.
<1>s. ASSUME NEW l, NEW p, Move(c, l, p), queue' \subseteq queue, sessions' \subseteq sessions \cup {prov[c]},
             sessions' # sessions => pc[c] = "guarded",
             l \in {"rekey", "starting", "guarded"} => p \in queue \/ p \notin victims
                                                  \/ (p = prov[c] /\ c \in Serving)
      PROVE  KillsOrphansOnly'
  <2>1. ASSUME NEW q \in victims, q \in InService' PROVE q \in InService
    <3>1. CASE q \in queue' BY <1>s, <3>1 DEF InService
    <3>2. CASE q \in sessions' BY <1>s, <3>2 DEF InService
    <3>3. CASE \E d \in Callers : q = prov'[d] /\ pc'[d] \in {"rekey", "starting", "guarded"}
      <4>1. PICK d \in Callers : q = prov'[d] /\ pc'[d] \in {"rekey", "starting", "guarded"}
        BY <3>3
      <4>2. CASE d = c BY <1>s, <1>m, <4>1, <4>2 DEF InService, Serving
      <4>3. CASE d # c
        <5>1. q = prov[d] /\ pc[d] \in {"rekey", "starting", "guarded"} BY <1>s, <1>m, <4>1, <4>3
        <5> QED BY <5>1 DEF InService
      <4> QED BY <4>2, <4>3
    <3>4. CASE q \in (IF lock = "fill" THEN {held} \ {None} ELSE {})' BY <1>v, <3>4 DEF InService
    <3> QED BY <2>1, <3>1, <3>2, <3>3, <3>4 DEF InService
  <2> QED BY <2>1, <1>g, <1>v, StillOrphans
<1>1. CASE Ask(c) \/ SwitchDone(c)
  <2>1. ~SwitchDone(c) BY <1>g DEF ServedGuarded, SwitchDone
  <2>2. Ask(c) BY <1>1, <2>1
  <2>3. KillsOrphansOnly' BY <2>2, <1>s DEF Ask, Keep
  <2>4. ServedGuarded'
    BY <2>2, <1>g, <1>m DEF Ask, Keep, ServedGuarded
  <2> QED BY <2>2, <2>3, <2>4, <1>g, <1>v DEF Ask, KillInv, FilledYoung
<1>2. CASE ClaimDiscard(c) \/ Claim(c) \/ ClaimSwitch(c)
  <2>1. ~ClaimSwitch(c) BY DEF ClaimSwitch
  <2>2. PICK p \in queue, l \in {"discard", "guarded"} :
          /\ queue' = queue \ {p} /\ Move(c, l, p)
          /\ l = "guarded" => p \in starting'
    BY <1>2, <2>1 DEF ClaimDiscard, Claim
  <2>3. UNCHANGED <<proc, aged, sessions>> /\ starting \subseteq starting'
    BY <1>2, <2>1 DEF ClaimDiscard, Claim
  <2>4. KillsOrphansOnly' BY <2>2, <2>3, <1>s
  <2>5. ServedGuarded' BY <2>2, <2>3, <1>g, <1>m DEF ServedGuarded
  <2> QED BY <2>3, <2>4, <2>5, <1>g, <1>v DEF KillInv, FilledYoung
<1>3. CASE ClaimMiss(c) \/ CallFails(c) \/ DiscardCancelled(c)
  <2>1. PICK l \in {"cold", "idle"} : Move(c, l, None)
    BY <1>3 DEF ClaimMiss, CallFails, DiscardCancelled
  <2>2. KillsOrphansOnly'
    BY <1>3, <2>1, <1>s DEF ClaimMiss, CallFails, DiscardCancelled
  <2>3. /\ aged' = aged /\ starting \ {prov[c]} \subseteq starting'
        /\ proc' \in {proc, Killed({prov[c]})}
    BY <1>3 DEF ClaimMiss, CallFails, DiscardCancelled
  <2>4. \A q \in Procs : proc[q] # "up" => proc'[q] # "up"
    BY <2>3, <1>t DEF TypeOK, Killed
  <2>5. ServedGuarded'
    BY <2>1, <2>3, <2>4, <1>d, <1>m, <1>g, <1>t, PoolAssumption DEF ServedGuarded, HandOK
  <2>6. FilledYoung' BY <2>3, <2>4, <1>g, <1>v, <1>t DEF FilledYoung, TypeOK
  <2> QED BY <2>2, <2>5, <2>6 DEF KillInv
<1>4. CASE ColdStart(c)
  <2>1. PICK p \in Procs : Spawn(p) /\ Move(c, "starting", p) BY <1>4 DEF ColdStart
  <2>2. p \notin victims \cup InHand \cup {held} BY <2>1 DEF Spawn, Unused
  <2>3. KillsOrphansOnly' BY <1>4, <2>1, <2>2, <1>s DEF ColdStart
  <2>4. aged' = aged \ {p} /\ proc' = [proc EXCEPT ![p] = "starting"] BY <2>1 DEF Spawn
  <2>5. \A q \in Procs : proc'[q] = IF q = p THEN "starting" ELSE proc[q] BY <2>4, <1>t DEF TypeOK
  <2>6. ServedGuarded'
    BY <1>4, <2>1, <2>4, <2>5, <1>m, <1>g, <1>t DEF ColdStart, ServedGuarded, HandOK
  <2>7. FilledYoung' BY <2>4, <2>5, <1>g, <1>v, <1>t DEF FilledYoung, TypeOK
  <2> QED BY <2>3, <2>6, <2>7 DEF KillInv
<1>5. CASE StartDone(c)
  <2>1. pc[c] = "starting" /\ Move(c, "guarded", prov[c]) /\ starting' = starting \cup {prov[c]}
        /\ proc' = [proc EXCEPT ![prov[c]] = "up"] /\ UNCHANGED <<aged, queue, sessions>>
    BY <1>5 DEF StartDone, Keep
  <2>2. KillsOrphansOnly' BY <2>1, <1>s DEF Serving
  <2>3. \A q \in Procs : q # prov[c] => proc'[q] = proc[q] BY <2>1, <1>t DEF TypeOK
  <2>4. ServedGuarded' BY <2>1, <2>3, <1>d, <1>m, <1>g, <1>t, PoolAssumption DEF ServedGuarded, HandOK
  <2>5. held # prov[c] BY <2>1, <1>h, <1>t DEF OneOwner, InHand, InHands
  <2>6. FilledYoung' BY <2>1, <2>3, <2>5, <1>g, <1>v, <1>t DEF FilledYoung, TypeOK
  <2> QED BY <2>2, <2>4, <2>6 DEF KillInv
<1>6. CASE Register(c) \/ RegisterLost(c)
  <2>1. /\ pc[c] = "guarded" /\ Move(c, "idle", None) /\ starting' = starting \ {prov[c]}
        /\ sessions' \subseteq sessions \cup {prov[c]} /\ UNCHANGED <<proc, aged, queue>>
    BY <1>6 DEF Register, RegisterLost
  <2>2. KillsOrphansOnly' BY <2>1, <1>s
  <2>3. ServedGuarded' BY <2>1, <1>d, <1>m, <1>g, <1>t, PoolAssumption DEF ServedGuarded, HandOK
  <2> QED BY <2>1, <2>2, <2>3, <1>g, <1>v DEF KillInv, FilledYoung
<1> QED BY <1>1, <1>2, <1>3, <1>4, <1>5, <1>6 DEF CallerNext

LEMMA KillStep ==
  ASSUME ~SlowStart, ~ModelSwitch
  PROVE  PoolInv /\ KillInv /\ [Next]_vars => KillInv'
<1> SUFFICES ASSUME PoolInv, KillInv, [Next]_vars PROVE KillInv' OBVIOUS
<1> USE DEF poolVars, fillVars, pidVars, callVars
<1>t. TypeOK /\ HandOK /\ OneOwner BY DEF PoolInv, TypeInv
<1>f. lock = "free" => held = None BY DEF PoolInv, FillInv
<1>g. ServedGuarded /\ FilledYoung /\ KillsOrphansOnly BY DEF KillInv
<1>1. ASSUME NEW c \in Callers, CallerNext(c) PROVE KillInv' BY <1>1, KillCaller
\* A step that only takes processes out of the service, and makes none up.
<1>s. ASSUME UNCHANGED <<pc, prov, starting, aged>>, queue' \subseteq queue, sessions' \subseteq sessions,
             \A q \in Procs : proc[q] # "up" => proc'[q] # "up",
             lock' = "fill" => UNCHANGED <<lock, held>> \/ held' = None
      PROVE  ServedGuarded' /\ FilledYoung' /\ (victims' \subseteq victims => KillsOrphansOnly')
  <2>1. ServedGuarded' BY <1>s, <1>g, <1>t, PoolAssumption DEF ServedGuarded, HandOK
  <2>2. FilledYoung' BY <1>s, <1>g, <1>t DEF FilledYoung, TypeOK
  <2>3. InService' \subseteq InService BY <1>s DEF InService
  <2>4. ASSUME victims' \subseteq victims PROVE KillsOrphansOnly' BY <2>3, <2>4, <1>g, StillOrphans
  <2> QED BY <2>1, <2>2, <2>4
<1>k. ASSUME NEW S, proc' = Killed(S) PROVE \A q \in Procs : proc[q] # "up" => proc'[q] # "up"
  BY <1>k, <1>t DEF TypeOK, Killed
<1>2. ASSUME NEW p \in Procs, EndSession(p) \/ SweepDiscard(p) \/ Exit(p) \/ Die(p) PROVE KillInv'
  <2>1. /\ UNCHANGED <<pc, prov, starting, aged, lock, held, victims>>
        /\ queue' \subseteq queue /\ sessions' \subseteq sessions
        /\ proc' \in {proc, Killed({p})}
    BY <1>2 DEF EndSession, SweepDiscard, Exit, Die
  <2>2. \A q \in Procs : proc[q] # "up" => proc'[q] # "up" BY <2>1, <1>k
  <2> QED BY <2>1, <2>2, <1>s DEF KillInv
<1>3. ASSUME NEW p \in Procs, Age(p) PROVE KillInv'
  <2>1. aged' = aged \cup {p} /\ proc[p] = "up" /\ proc' = proc BY <1>3 DEF Age
  <2>2. UNCHANGED <<queue, sessions, victims, pc, prov, lock, held, starting>> BY <1>3 DEF Age
  <2>3. InService' = InService BY <2>2 DEF InService
  <2> QED BY <2>1, <2>2, <2>3, <1>g DEF KillInv, KillsOrphansOnly, ServedGuarded, FilledYoung
<1>4. CASE FillLock \/ FillFails \/ FillDone \/ Sweep \/ ReloadDrain \/ ReloadDiscard
           \/ DrainPool \/ RestartPool \/ UNCHANGED vars
  <2>1. /\ UNCHANGED <<pc, prov, starting, aged, sessions, victims>> /\ queue' \subseteq queue
        /\ proc' \in {proc, Killed({held})}
    BY <1>4 DEF FillLock, FillFails, FillDone, Sweep, ReloadDrain, ReloadDiscard, DrainPool, RestartPool, vars
  <2>2. lock' = "fill" => UNCHANGED <<lock, held>> \/ held' = None
    BY <1>4, <1>f DEF FillLock, FillFails, FillDone, Sweep, ReloadDrain, ReloadDiscard, DrainPool, RestartPool, vars
  <2>3. \A q \in Procs : proc[q] # "up" => proc'[q] # "up" BY <2>1, <1>k
  <2> QED BY <2>1, <2>2, <2>3, <1>s DEF KillInv
<1>5. CASE FillSpawn
  <2>1. PICK p \in Procs : Spawn(p) /\ held' = p BY <1>5 DEF FillSpawn
  <2>2. p \notin victims \cup InHand BY <2>1 DEF Spawn, Unused
  <2>3. aged' = aged \ {p} /\ proc' = [proc EXCEPT ![p] = "starting"] BY <2>1 DEF Spawn
  <2>4. \A q \in Procs : proc'[q] = IF q = p THEN "starting" ELSE proc[q] BY <2>3, <1>t DEF TypeOK
  <2>5. UNCHANGED <<queue, sessions, victims, pc, prov, lock, starting>> BY <1>5 DEF FillSpawn
  <2>6. \A q \in victims : q \in InService' => q \in InService BY <2>1, <2>2, <2>5 DEF InService
  <2>7. ServedGuarded' BY <2>3, <2>4, <2>5, <1>g, <1>t, PoolAssumption DEF ServedGuarded, HandOK
  <2>8. FilledYoung' BY <2>1, <2>3, <2>4 DEF FilledYoung
  <2> QED BY <2>5, <2>6, <2>7, <2>8, <1>g, StillOrphans DEF KillInv
<1>6. CASE FillPut
  <2>1. lock = "fill" /\ held # None /\ held' = None /\ queue' = queue \cup {held}
        /\ proc' = [proc EXCEPT ![held] = "up"]
        /\ UNCHANGED <<sessions, victims, pc, prov, lock, starting, aged>>
    BY <1>6 DEF FillPut
  <2>2. InService' = InService BY <2>1 DEF InService
  <2>3. \A q \in Procs : q # held => proc'[q] = proc[q] BY <2>1, <1>t DEF TypeOK
  <2>4. \A c \in Callers : pc[c] = "starting" => prov[c] \in Procs /\ prov[c] # held
    BY <1>t, PoolAssumption DEF HandOK, OneOwner, InHand
  <2>5. ServedGuarded' BY <2>1, <2>3, <2>4, <1>g DEF ServedGuarded
  <2> QED BY <2>1, <2>2, <2>5, <1>g DEF KillInv, KillsOrphansOnly, FilledYoung
<1>7. CASE ReloadBegin
  <2>1. UNCHANGED <<proc, aged, queue, starting, sessions, victims, pc, prov>> /\ lock' = "reload"
    BY <1>7 DEF ReloadBegin
  <2> QED BY <2>1, <1>s DEF KillInv
<1>8. ASSUME NEW all \in BOOLEAN, ReloadEnd(all) PROVE KillInv'
  <2>1. /\ UNCHANGED <<pc, prov, starting, aged, victims, queue>> /\ lock' = "free"
        /\ \E S : proc' \in {proc, Killed(S)}
    BY <1>8 DEF ReloadEnd
  <2>2. sessions' \subseteq sessions
    <3>1. CASE all BY <1>8, <3>1 DEF ReloadEnd
    <3>2. CASE ~all BY <1>8, <3>2 DEF ReloadEnd
    <3> QED BY <3>1, <3>2
  <2>3. \A q \in Procs : proc[q] # "up" => proc'[q] # "up" BY <2>1, <1>k
  <2> QED BY <2>1, <2>2, <2>3, <1>s DEF KillInv
<1>9. CASE ScanBegin \/ ScanKill
  <2>1. /\ UNCHANGED <<pc, prov, starting, aged, queue, sessions, lock, held>>
        /\ victims' \subseteq victims /\ proc' \in {proc, Killed(victims)}
    BY <1>9 DEF ScanBegin, ScanKill
  <2>2. \A q \in Procs : proc[q] # "up" => proc'[q] # "up" BY <2>1, <1>k
  <2> QED BY <2>1, <2>2, <1>s DEF KillInv
<1>10. CASE ScanConfirm
  <2>1. UNCHANGED <<proc, pc, prov, starting, aged, queue, sessions, lock, held>> BY <1>10 DEF ScanConfirm
  <2>2. victims' \subseteq aged \ (queue \cup sessions \cup starting) BY <1>10 DEF ScanConfirm, ActivePids
  <2>3. InService' = InService BY <2>1 DEF InService
  <2>4. ASSUME NEW q \in InService PROVE q \notin victims'
    <3>1. CASE q \in queue \cup sessions BY <2>2, <3>1
    <3>2. CASE \E c \in Callers : q = prov[c] /\ pc[c] \in {"rekey", "starting", "guarded"}
      BY <2>2, <3>2, <1>g DEF ServedGuarded
    <3>3. CASE lock = "fill" /\ q = held /\ held # None BY <2>2, <3>3, <1>g DEF FilledYoung
    <3> QED BY <2>4, <3>1, <3>2, <3>3 DEF InService
  <2>5. KillsOrphansOnly' BY <2>3, <2>4 DEF KillsOrphansOnly
  <2> QED BY <2>1, <2>5, <1>s DEF KillInv
<1> QED
  BY <1>1, <1>2, <1>3, <1>4, <1>5, <1>6, <1>7, <1>8, <1>9, <1>10 DEF Next, Fill, PidSweep

\* The PID sweep never sends a signal to a process in service (session_pid.py),
\* for any processes and callers, as long as no start outlasts the grace period
\* and no claim awaits set_model(): in those two the process is in no set the
\* sweep reads, and the property fails.
THEOREM SweepKillsOrphansOnly ==
  ASSUME ~SlowStart, ~ModelSwitch PROVE Spec => []KillsOrphansOnly
<1>1. Init => KillInv BY InitKill
<1>2. PoolInv /\ KillInv /\ [Next]_vars => KillInv' BY KillStep
<1>3. KillInv => KillsOrphansOnly BY DEF KillInv
<1> QED BY <1>1, <1>2, <1>3, PoolInvAlways, PTL DEF Spec

----------------------------------------------------------------------------
(* The life of a process *)

\* A caller that has nothing to wait on has nothing in its hands.
EmptyHands == \A c \in Callers : pc[c] \in {"idle", "claim", "cold"} => prov[c] = None

LifeInv == PoolInv /\ EmptyHands

LEMMA EmptyHandsStep == TypeInv /\ EmptyHands /\ [Next]_vars => EmptyHands'
<1> SUFFICES ASSUME TypeInv, EmptyHands, [Next]_vars PROVE EmptyHands' OBVIOUS
<1> USE DEF EmptyHands
<1>1. ASSUME NEW c \in Callers, CallerNext(c) PROVE EmptyHands'
  <2>1. PICK l, p : Move(c, l, p) /\ (l \in {"idle", "claim", "cold"} => p = None)
    BY <1>1 DEF CallerNext, Ask, ClaimDiscard, Claim, ClaimSwitch, SwitchDone, ClaimMiss,
       ColdStart, StartDone, CallFails, DiscardCancelled, Register, RegisterLost, Keep
  <2>2. \A d \in Callers : d # c => pc'[d] = pc[d] /\ prov'[d] = prov[d]
    BY <2>1 DEF Move, TypeInv, TypeOK
  <2>3. pc'[c] = l /\ prov'[c] = p BY <2>1 DEF Move, TypeInv, TypeOK
  <2> QED BY <2>1, <2>2, <2>3
<1>2. ASSUME UNCHANGED callVars PROVE EmptyHands' BY <1>2 DEF callVars
<1>3. CASE \E p \in Procs : EndSession(p) \/ SweepDiscard(p) \/ Exit(p) \/ Die(p) \/ Age(p)
  BY <1>2, <1>3 DEF EndSession, SweepDiscard, Exit, Die, Age
<1>4. CASE Fill \/ Sweep
  BY <1>2, <1>4 DEF Fill, FillLock, FillSpawn, FillPut, FillFails, FillDone, Sweep
<1>5. CASE ReloadBegin \/ ReloadDrain \/ ReloadDiscard \/ (\E all \in BOOLEAN : ReloadEnd(all))
           \/ DrainPool \/ RestartPool
  BY <1>2, <1>5 DEF ReloadBegin, ReloadDrain, ReloadDiscard, ReloadEnd, DrainPool, RestartPool
<1>6. CASE PidSweep \/ UNCHANGED vars
  BY <1>6, <1>2 DEF PidSweep, ScanBegin, ScanConfirm, ScanKill, vars, callVars
<1> QED BY <1>1, <1>3, <1>4, <1>5, <1>6 DEF Next

LEMMA LifeInvStep == LifeInv /\ [Next]_vars => LifeInv'
  BY TypeStep, FillStep, OwnerStep, EmptyHandsStep DEF LifeInv, PoolInv

LEMMA LifeInvInit == Init => LifeInv
  BY InitType, InitFill, InitOwner DEF LifeInv, PoolInv, EmptyHands, Init

Unowned(p) == p \notin queue \cup sessions \cup doomed \cup condemned \cup InHand \cup {held}

\* Where a process is tells the stage of its life.
StageRules(p) ==
  /\ p \in queue => Stage(p) = "spare"
  /\ p \in sessions => Stage(p) = "serving"
  /\ p \in doomed \cup condemned => Stage(p) = "ending"
  /\ p = held /\ lock = "reload" => Stage(p) = "ending"
  /\ p = held /\ lock # "reload" => Stage(p) = "starting"
  /\ \A c \in Callers : prov[c] = p =>
       /\ pc[c] = "discard" => Stage(p) = "ending"
       /\ pc[c] = "starting" => Stage(p) = "starting"
       /\ pc[c] \in {"rekey", "guarded"} => Stage(p) = "claimed"
  /\ Unowned(p) => Stage(p) = IF proc[p] = "dead" THEN "gone" ELSE "lost"

LEMMA StageOf == LifeInv => \A p \in Procs : StageRules(p)
<1> SUFFICES ASSUME LifeInv, NEW p \in Procs PROVE StageRules(p) OBVIOUS
<1> USE DEF Stage, Ending, Starting, Unowned
<1>1. OneOwner /\ p # None BY PoolAssumption DEF LifeInv, PoolInv
<1>2. p \in queue => Stage(p) = "spare" BY <1>1 DEF OneOwner, InHand
<1>3. p \in sessions => Stage(p) = "serving" BY <1>1 DEF OneOwner, InHand
<1>4. p = held /\ lock # "reload" => Stage(p) = "starting" BY <1>1 DEF OneOwner, InHand
<1>5. ASSUME NEW c \in Callers, prov[c] = p
      PROVE  /\ pc[c] = "discard" => Stage(p) = "ending"
             /\ pc[c] = "starting" => Stage(p) = "starting"
             /\ pc[c] \in {"rekey", "guarded"} => Stage(p) = "claimed"
  <2>1. p \in InHand /\ \A d \in Callers : prov[d] = p => d = c BY <1>1, <1>5 DEF OneOwner, InHand
  <2>2. p \notin queue \cup sessions \cup doomed \cup condemned \cup {held} BY <1>1, <2>1 DEF OneOwner
  <2> QED BY <1>5, <2>1, <2>2
<1>6. Unowned(p) => Stage(p) = IF proc[p] = "dead" THEN "gone" ELSE "lost"
  BY <1>1 DEF InHand
<1> QED BY <1>2, <1>3, <1>4, <1>5, <1>6 DEF StageRules

LEMMA StageOfNext == LifeInv' => \A p \in Procs : StageRules(p)'
<1>1. (LifeInv => \A p \in Procs : StageRules(p))' BY StageOf, PTL
<1> QED BY <1>1

\* A step that moves a process nowhere leaves its stage as it is.
LEMMA SameStage ==
  ASSUME NEW p \in Procs,
         p \in queue' <=> p \in queue, p \in sessions' <=> p \in sessions,
         p \in doomed' <=> p \in doomed, p \in condemned' <=> p \in condemned,
         p = held' <=> p = held, p = held => (lock' = "reload" <=> lock = "reload"),
         \A c \in Callers : /\ p = prov'[c] <=> p = prov[c]
                            /\ p = prov[c] => pc'[c] = pc[c],
         ~Unowned(p) \/ (proc'[p] = "dead" <=> proc[p] = "dead")
  PROVE  Stage(p)' = Stage(p)
<1>1. Ending(p)' <=> Ending(p) BY DEF Ending
<1>2. Starting(p)' <=> Starting(p) BY DEF Starting
<1>3. p \in InHand' <=> p \in InHand BY DEF InHand
<1>4. CASE p \in queue \cup sessions \cup InHand \/ Ending(p) \/ Starting(p)
  BY <1>1, <1>2, <1>3, <1>4 DEF Stage
<1>5. CASE ~(p \in queue \cup sessions \cup InHand \/ Ending(p) \/ Starting(p))
  <2>1. Unowned(p) BY <1>5 DEF Unowned, Ending, Starting
  <2> QED BY <1>1, <1>2, <1>3, <1>5, <2>1 DEF Stage
<1> QED BY <1>4, <1>5

LEMMA LifeCaller ==
  ASSUME LifeInv, LifeInv', NEW c \in Callers, CallerNext(c), NEW p \in Procs
  PROVE  [Life(p)!Next]_(Stage(p))
<1> USE DEF poolVars, healthVars, fillVars
<1>r. StageRules(p) /\ StageRules(p)' BY StageOf, StageOfNext
<1>t. TypeOK /\ HandOK /\ OneOwner /\ EmptyHands BY DEF LifeInv, PoolInv, TypeInv
<1>p. p # None BY PoolAssumption
<1>v. UNCHANGED <<lock, held, condemned>>
  BY DEF CallerNext, Ask, ClaimDiscard, Claim, ClaimSwitch, SwitchDone, ClaimMiss, ColdStart,
     StartDone, CallFails, DiscardCancelled, Register, RegisterLost
<1>m. ASSUME NEW l, NEW q, Move(c, l, q) PROVE
        \A d \in Callers : /\ pc'[d] = IF d = c THEN l ELSE pc[d]
                           /\ prov'[d] = IF d = c THEN q ELSE prov[d]
  BY <1>m, <1>t DEF Move, TypeOK
\* A process that is neither the one c had nor the one it has now.
<1>s. ASSUME NEW l, NEW q, Move(c, l, q), p # q, p # prov[c],
             p \in queue' <=> p \in queue, p \in sessions' <=> p \in sessions,
             p \in doomed' <=> p \in doomed, proc'[p] = proc[p]
      PROVE  Stage(p)' = Stage(p)
  BY <1>s, <1>m, <1>v, SameStage
\* The process that c has and keeps.
<1>k. ASSUME NEW q \in Procs, proc' = Killed({q}), p # q PROVE proc'[p] = proc[p]
  BY <1>k DEF Killed
<1>1. CASE Ask(c)
  <2>1. Move(c, "claim", None) /\ prov[c] = None BY <1>1, <1>t DEF Ask, Keep, EmptyHands
  <2>2. UNCHANGED <<queue, sessions, doomed, proc>> BY <1>1 DEF Ask
  <2> QED BY <2>1, <2>2, <1>s, <1>p
<1>2. CASE ClaimDiscard(c) \/ Claim(c) \/ ClaimSwitch(c)
  <2>1. PICK q \in queue, l \in {"discard", "guarded", "rekey"} : queue' = queue \ {q} /\ Move(c, l, q)
    BY <1>2 DEF ClaimDiscard, Claim, ClaimSwitch
  <2>2. UNCHANGED <<sessions, doomed, proc>> /\ Claiming(c)
    BY <1>2 DEF ClaimDiscard, Claim, ClaimSwitch
  <2>3. CASE p = q
    <3>1. Stage(p) = "spare" BY <2>3, <1>r DEF StageRules
    <3>2. Stage(p)' \in {"ending", "claimed"} BY <2>1, <2>3, <1>m, <1>r DEF StageRules
    <3> QED BY <3>1, <3>2 DEF Life!Next, Life!End, Life!Claim
  <2>4. CASE p # q /\ p = prov[c]
    <3>1. pc[c] = "discard" /\ proc[p] = "dead"
      BY <2>2, <2>4, <1>t, <1>p DEF Claiming, EmptyHands
    <3>2. Stage(p) = "ending" BY <2>4, <3>1, <1>r DEF StageRules
    <3>3. Unowned(p)'
      <4>1. p \notin queue \cup sessions \cup doomed \cup condemned \cup {held}
        BY <2>4, <1>t, <1>p DEF OneOwner, InHand
      <4>2. \A d \in Callers : prov'[d] # p BY <2>1, <2>4, <1>m, <1>t, <1>p DEF OneOwner
      <4> QED BY <4>1, <4>2, <2>1, <2>2, <1>v DEF Unowned, InHand
    <3>4. Stage(p)' = "gone" BY <3>1, <3>3, <2>2, <1>r DEF StageRules
    <3> QED BY <3>2, <3>4 DEF Life!Next, Life!Exit
  <2>5. CASE p # q /\ p # prov[c] BY <2>1, <2>2, <2>5, <1>s
  <2> QED BY <2>3, <2>4, <2>5
<1>3. CASE SwitchDone(c) \/ StartDone(c)
  <2>1. /\ pc[c] \in {"rekey", "starting"} /\ Move(c, "guarded", prov[c])
        /\ UNCHANGED <<queue, sessions, doomed>>
        /\ proc' \in {proc, [proc EXCEPT ![prov[c]] = "up"]}
    BY <1>3 DEF SwitchDone, StartDone, Keep
  <2>2. CASE p = prov[c]
    <3>1. Stage(p) \in {"starting", "claimed"} BY <2>1, <2>2, <1>r DEF StageRules
    <3>2. Stage(p)' = "claimed" BY <2>1, <2>2, <1>m, <1>r DEF StageRules
    <3> QED BY <3>1, <3>2 DEF Life!Next, Life!Claim
  <2>3. CASE p # prov[c]
    <3>1. proc'[p] = proc[p] BY <2>1, <2>3, <1>t DEF TypeOK
    <3> QED BY <2>1, <2>3, <3>1, <1>s
  <2> QED BY <2>2, <2>3
<1>4. CASE ClaimMiss(c) \/ CallFails(c) \/ DiscardCancelled(c)
  <2>1. PICK l : Move(c, l, None) BY <1>4 DEF ClaimMiss, CallFails, DiscardCancelled
  <2>2. UNCHANGED <<queue, sessions, doomed>> BY <1>4 DEF ClaimMiss, CallFails, DiscardCancelled
  <2>3. proc' \in {proc, Killed({prov[c]})}
    BY <1>4 DEF ClaimMiss, CallFails, DiscardCancelled
  <2>4. CASE p = prov[c]
    <3>1. proc'[p] = "dead"
      BY <1>4, <2>4, <1>t, <1>p
         DEF ClaimMiss, CallFails, DiscardCancelled, Claiming, Killed, TypeOK, EmptyHands
    <3>2. pc[c] \in {"discard", "rekey", "starting", "guarded"}
      BY <1>4, <2>4, <1>t, <1>p DEF ClaimMiss, CallFails, DiscardCancelled, Claiming, EmptyHands
    <3>3. Stage(p) \in {"ending", "claimed", "starting"} BY <2>4, <3>2, <1>r DEF StageRules
    <3>4. Unowned(p)'
      <4>1. p \notin queue \cup sessions \cup doomed \cup condemned \cup {held}
        BY <2>4, <1>t, <1>p DEF OneOwner, InHand
      <4>2. \A d \in Callers : prov'[d] # p BY <2>1, <2>4, <1>m, <1>t, <1>p DEF OneOwner
      <4> QED BY <4>1, <4>2, <2>2, <1>v DEF Unowned, InHand
    <3>5. Stage(p)' = "gone" BY <3>1, <3>4, <1>r DEF StageRules
    <3> QED BY <3>3, <3>5 DEF Life!Next, Life!Exit, Life!Drop, Life!Fail
  <2>5. CASE p # prov[c]
    <3>1. proc'[p] = proc[p] BY <2>3, <2>5 DEF Killed
    <3> QED BY <2>1, <2>2, <2>5, <3>1, <1>p, <1>s
  <2> QED BY <2>4, <2>5
<1>5. CASE ColdStart(c)
  <2>1. PICK q \in Procs : Spawn(q) /\ Move(c, "starting", q) BY <1>5 DEF ColdStart
  <2>2. UNCHANGED <<queue, sessions, doomed>> /\ prov[c] = None
    BY <1>5, <1>t DEF ColdStart, EmptyHands
  <2>3. CASE p = q
    <3>1. Unowned(p) /\ proc[p] = "dead" BY <2>1, <2>3 DEF Spawn, Unused, Unowned
    <3>2. Stage(p) = "gone" BY <3>1, <1>r DEF StageRules
    <3>3. Stage(p)' = "starting" BY <2>1, <2>3, <1>m, <1>r DEF StageRules
    <3> QED BY <3>2, <3>3 DEF Life!Next, Life!Start
  <2>4. CASE p # q
    <3>1. proc'[p] = proc[p] BY <2>1, <2>4, <1>t DEF Spawn, TypeOK
    <3> QED BY <2>1, <2>2, <2>4, <3>1, <1>p, <1>s
  <2> QED BY <2>3, <2>4
<1>6. CASE Register(c) \/ RegisterLost(c)
  <2>1. pc[c] = "guarded" /\ Move(c, "idle", None) /\ UNCHANGED <<proc, queue>>
    BY <1>6 DEF Register, RegisterLost
  <2>2. \/ sessions' = sessions \cup {prov[c]} /\ UNCHANGED doomed
        \/ doomed' = doomed \cup {prov[c]} /\ UNCHANGED sessions
    BY <1>6 DEF Register, RegisterLost
  <2>3. CASE p = prov[c]
    <3>1. Stage(p) = "claimed" BY <2>1, <2>3, <1>r DEF StageRules
    <3>2. Stage(p)' \in {"serving", "ending"} BY <2>2, <2>3, <1>r DEF StageRules
    <3> QED BY <3>1, <3>2 DEF Life!Next, Life!Serve, Life!End
  <2>4. CASE p # prov[c] BY <2>1, <2>2, <2>4, <1>p, <1>s
  <2> QED BY <2>3, <2>4
<1> QED BY <1>1, <1>2, <1>3, <1>4, <1>5, <1>6 DEF CallerNext

LEMMA LifeStep ==
  ASSUME LifeInv, LifeInv', [Next]_vars, NEW p \in Procs
  PROVE  [Life(p)!Next]_(Stage(p))
<1> USE DEF poolVars, healthVars, fillVars, pidVars
<1>r. StageRules(p) /\ StageRules(p)' BY StageOf, StageOfNext
<1>t. TypeOK /\ HandOK /\ OneOwner BY DEF LifeInv, PoolInv, TypeInv
<1>f. lock = "free" => held = None BY DEF LifeInv, PoolInv, FillInv
<1>p. p # None BY PoolAssumption
<1>1. ASSUME NEW c \in Callers, CallerNext(c) PROVE [Life(p)!Next]_(Stage(p))
  BY <1>1, LifeCaller
\* A process that a step of no caller moves nowhere.
<1>s. ASSUME UNCHANGED callVars,
             p \in queue' <=> p \in queue, p \in sessions' <=> p \in sessions,
             p \in doomed' <=> p \in doomed, p \in condemned' <=> p \in condemned,
             p = held' <=> p = held, p = held => (lock' = "reload" <=> lock = "reload"),
             ~Unowned(p) \/ (proc'[p] = "dead" <=> proc[p] = "dead")
      PROVE  Stage(p)' = Stage(p)
  BY <1>s, SameStage DEF callVars
\* One that a step of no caller takes from the one place where it is, and kills.
<1>g. ASSUME UNCHANGED callVars, p \notin InHand, p \notin queue', p \notin sessions', p \notin doomed',
             p \notin condemned', p # held'
      PROVE  Stage(p)' = IF proc'[p] = "dead" THEN "gone" ELSE "lost"
  BY <1>g, <1>r, HandsStill DEF StageRules, Unowned
<1>k. ASSUME NEW S, proc' = Killed(S) PROVE proc'[p] = IF p \in S THEN "dead" ELSE proc[p]
  BY <1>k DEF Killed
<1>2. ASSUME NEW q \in Procs, EndSession(q) PROVE [Life(p)!Next]_(Stage(p))
  <2>1. CASE p = q BY <1>2, <2>1, <1>r DEF EndSession, StageRules, Life!Next, Life!End
  <2>2. CASE p # q BY <1>2, <2>2, <1>s DEF EndSession
  <2> QED BY <2>1, <2>2
<1>3. ASSUME NEW q \in Procs, SweepDiscard(q) PROVE [Life(p)!Next]_(Stage(p))
  <2>u. UNCHANGED <<callVars, queue, sessions, doomed, held, lock>> BY <1>3 DEF SweepDiscard
  <2>1. CASE p = q
    <3>1. Stage(p) = "ending" BY <1>3, <2>1, <1>r DEF SweepDiscard, StageRules
    <3>2. condemned' = condemned \ {p} /\ proc'[p] = "dead" BY <1>3, <2>1, <1>k DEF SweepDiscard
    <3>3. p \notin queue \cup sessions \cup doomed \cup InHand /\ p # held
      BY <1>3, <2>1, <1>t DEF SweepDiscard, OneOwner
    <3>4. Stage(p)' = "gone" BY <3>2, <3>3, <2>u, <1>g
    <3> QED BY <3>1, <3>4 DEF Life!Next, Life!Exit
  <2>2. CASE p # q
    <3>1. proc'[p] = proc[p] /\ (p \in condemned' <=> p \in condemned)
      BY <1>3, <2>2, <1>k DEF SweepDiscard
    <3> QED BY <2>u, <3>1, <1>s
  <2> QED BY <2>1, <2>2
<1>4. ASSUME NEW q \in Procs, Exit(q) PROVE [Life(p)!Next]_(Stage(p))
  <2>u. UNCHANGED <<callVars, queue, sessions, condemned, held, lock>> /\ doomed' = doomed \ {q}
    BY <1>4 DEF Exit
  <2>1. CASE p = q /\ p \in doomed
    <3>1. Stage(p) = "ending" BY <2>1, <1>r DEF StageRules
    <3>2. proc'[p] = "dead" BY <1>4, <2>1, <1>k DEF Exit
    <3>3. p \notin queue \cup sessions \cup condemned \cup InHand /\ p # held
      BY <2>1, <1>t DEF OneOwner
    <3>4. Stage(p)' = "gone" BY <2>1, <3>2, <3>3, <2>u, <1>g
    <3> QED BY <3>1, <3>4 DEF Life!Next, Life!Exit
  <2>2. CASE p = q /\ p \notin doomed
    <3>1. p \in InHand BY <1>4, <2>2, <1>p DEF Exit, InHand
    <3> QED BY <2>2, <3>1, <2>u, <1>s DEF Unowned
  <2>3. CASE p # q
    <3>1. proc'[p] = proc[p] BY <1>4, <2>3, <1>k DEF Exit
    <3> QED BY <2>3, <3>1, <2>u, <1>s
  <2> QED BY <2>1, <2>2, <2>3
<1>5. ASSUME NEW q \in Procs, Die(q) \/ Age(q) PROVE [Life(p)!Next]_(Stage(p))
  <2>u. UNCHANGED <<callVars, queue, sessions, doomed, condemned, held, lock>>
    BY <1>5 DEF Die, Age
  <2>1. proc'[p] = proc[p] \/ proc'[p] = "dead" BY <1>5, <1>k DEF Die, Age
  <2>2. CASE Unowned(p)
    <3>1. Stage(p) = IF proc[p] = "dead" THEN "gone" ELSE "lost" BY <2>2, <1>r DEF StageRules
    <3>2. Stage(p)' = IF proc'[p] = "dead" THEN "gone" ELSE "lost"
      BY <2>2, <2>u, <1>g DEF Unowned
    <3> QED BY <2>1, <3>1, <3>2 DEF Life!Next, Life!Reap
  <2>3. CASE ~Unowned(p) BY <2>3, <2>u, <1>s
  <2> QED BY <2>2, <2>3
<1>6. CASE FillLock \/ FillDone \/ ReloadBegin \/ RestartPool
  <2>1. UNCHANGED <<callVars, proc, queue, sessions, doomed, condemned, held>>
        /\ (p = held => UNCHANGED lock)
    BY <1>6, <1>f, <1>p DEF FillLock, FillDone, ReloadBegin, RestartPool
  <2> QED BY <2>1, <1>s
<1>7. CASE FillSpawn
  <2>1. PICK q \in Procs : Spawn(q) /\ held' = q BY <1>7 DEF FillSpawn
  <2>u. UNCHANGED <<callVars, queue, sessions, doomed, condemned, lock>>
        /\ lock = "fill" /\ held = None
    BY <1>7 DEF FillSpawn
  <2>2. CASE p = q
    <3>1. Unowned(p) /\ proc[p] = "dead" BY <2>1, <2>2 DEF Spawn, Unused, Unowned
    <3> QED BY <2>1, <2>2, <2>u, <3>1, <1>r DEF StageRules, Life!Next, Life!Start
  <2>3. CASE p # q
    <3>1. proc'[p] = proc[p] BY <2>1, <2>3, <1>t DEF Spawn, TypeOK
    <3> QED BY <2>1, <2>3, <2>u, <3>1, <1>p, <1>s
  <2> QED BY <2>2, <2>3
<1>8. CASE FillPut
  <2>u. UNCHANGED <<callVars, sessions, doomed, condemned, lock>> /\ lock = "fill"
        /\ queue' = queue \cup {held} /\ held' = None /\ proc' = [proc EXCEPT ![held] = "up"]
    BY <1>8 DEF FillPut
  <2>1. CASE p = held BY <2>u, <2>1, <1>r DEF StageRules, Life!Next, Life!Park
  <2>2. CASE p # held
    <3>1. proc'[p] = proc[p] BY <2>u, <2>2, <1>t DEF TypeOK
    <3> QED BY <2>u, <2>2, <3>1, <1>p, <1>s
  <2> QED BY <2>1, <2>2
<1>9. CASE FillFails \/ ReloadDiscard
  <2>u. UNCHANGED <<callVars, queue, sessions, doomed, condemned>>
        /\ held # None /\ held' = None /\ proc' = Killed({held})
    BY <1>9 DEF FillFails, ReloadDiscard
  <2>1. CASE p = held
    <3>1. Stage(p) \in {"starting", "ending"} BY <2>1, <1>r DEF StageRules
    <3>2. Stage(p)' = "gone" BY <2>u, <2>1, <1>t, <1>p, <1>k, <1>g DEF OneOwner
    <3> QED BY <3>1, <3>2 DEF Life!Next, Life!Fail, Life!Exit
  <2>2. CASE p # held
    <3>1. proc'[p] = proc[p] BY <2>u, <2>2, <1>k
    <3> QED BY <2>u, <2>2, <3>1, <1>p, <1>s
  <2> QED BY <2>1, <2>2
<1>10. CASE Sweep
  <2>u. UNCHANGED <<callVars, proc, sessions, doomed, held, lock>> /\ condemned = {}
        /\ condemned' \subseteq queue /\ queue' = queue \ condemned'
    BY <1>10 DEF Sweep
  <2>1. CASE p \in condemned' BY <2>u, <2>1, <1>r DEF StageRules, Life!Next, Life!End
  <2>2. CASE p \notin condemned' BY <2>u, <2>2, <1>s
  <2> QED BY <2>1, <2>2
<1>11. CASE ReloadDrain
  <2>1. PICK q \in queue : queue' = queue \ {q} /\ held' = q BY <1>11 DEF ReloadDrain
  <2>u. UNCHANGED <<callVars, proc, sessions, doomed, condemned, lock>>
        /\ lock = "reload" /\ held = None
    BY <1>11 DEF ReloadDrain
  <2>2. CASE p = q BY <2>1, <2>u, <2>2, <1>r DEF StageRules, Life!Next, Life!End
  <2>3. CASE p # q BY <2>1, <2>u, <2>3, <1>p, <1>s
  <2> QED BY <2>2, <2>3
<1>12. ASSUME NEW all \in BOOLEAN, ReloadEnd(all) PROVE [Life(p)!Next]_(Stage(p))
  <2>u. UNCHANGED <<callVars, queue, held>> /\ held = None /\ condemned' = {}
    BY <1>12 DEF ReloadEnd
  <2>s. IF all THEN sessions' = {} /\ doomed' = doomed \cup sessions
               ELSE UNCHANGED <<sessions, doomed>>
    <3>1. CASE all BY <1>12, <3>1 DEF ReloadEnd
    <3>2. CASE ~all BY <1>12, <3>2 DEF ReloadEnd
    <3> QED BY <3>1, <3>2
  <2>k. p \notin condemned => proc'[p] = proc[p]
    <3>1. UNCHANGED proc \/ \E q \in condemned : proc' = Killed({q}) BY <1>12 DEF ReloadEnd
    <3> QED BY <3>1, <1>k
  <2>1. CASE p \in condemned
    <3>1. Stage(p) = "ending" BY <2>1, <1>r DEF StageRules
    <3>2. p \notin queue \cup sessions \cup doomed \cup InHand BY <2>1, <1>t DEF OneOwner
    <3>3. Stage(p)' \in {"gone", "lost"} BY <3>2, <2>u, <2>s, <1>p, <1>g
    <3> QED BY <3>1, <3>3 DEF Life!Next, Life!Exit, Life!Forget
  <2>2. CASE p \in sessions /\ all
    BY <2>2, <2>s, <1>r DEF StageRules, Life!Next, Life!End
  <2>3. CASE p \notin condemned /\ ~(p \in sessions /\ all)
    BY <2>3, <2>u, <2>s, <2>k, <1>p, <1>s
  <2> QED BY <2>1, <2>2, <2>3
<1>13. CASE DrainPool
  <2>u. UNCHANGED <<callVars, proc, sessions, condemned, held, lock>>
        /\ queue' = {} /\ doomed' = doomed \cup queue
    BY <1>13 DEF DrainPool
  <2>1. CASE p \in queue BY <2>u, <2>1, <1>r DEF StageRules, Life!Next, Life!End
  <2>2. CASE p \notin queue BY <2>u, <2>2, <1>s
  <2> QED BY <2>1, <2>2
<1>14. CASE PidSweep \/ UNCHANGED vars
  <2>u. UNCHANGED <<callVars, queue, sessions, doomed, condemned, held, lock>>
    BY <1>14 DEF PidSweep, ScanBegin, ScanConfirm, ScanKill, vars, callVars
  <2>1. proc'[p] = proc[p] \/ proc'[p] = "dead"
    <3>1. UNCHANGED proc \/ proc' = Killed(victims)
      BY <1>14 DEF PidSweep, ScanBegin, ScanConfirm, ScanKill, vars
    <3> QED BY <3>1, <1>k
  <2>2. CASE Unowned(p)
    <3>1. Stage(p) = IF proc[p] = "dead" THEN "gone" ELSE "lost" BY <2>2, <1>r DEF StageRules
    <3>2. Stage(p)' = IF proc'[p] = "dead" THEN "gone" ELSE "lost"
      BY <2>2, <2>u, <1>g DEF Unowned
    <3> QED BY <2>1, <3>1, <3>2 DEF Life!Next, Life!Reap
  <2>3. CASE ~Unowned(p) BY <2>3, <2>u, <1>s
  <2> QED BY <2>2, <2>3
<1> QED
  BY <1>1, <1>2, <1>3, <1>4, <1>5, <1>6, <1>7, <1>8, <1>9, <1>10, <1>11, <1>12, <1>13, <1>14
     DEF Next, Fill

LEMMA LifeInit == Init => \A p \in Procs : Life(p)!Init
  BY PoolAssumption DEF Init, Life!Init, Stage, Ending, Starting, InHand

LEMMA LifeInvAlways == Spec => []LifeInv
  BY LifeInvInit, LifeInvStep, PTL DEF Spec

\* The warm pool implements ProcessLife for all its processes at once: none is
\* handed out again once its end has begun.
THEOREM OneWayThroughLife == Spec => Lives
<1>1. LifeInv /\ [Next]_vars => \A p \in Procs : [Life(p)!Next]_(Stage(p))
  BY LifeInvStep, LifeStep
<1>2. LifeInv /\ [Next]_vars => [\A p \in Procs : [Life(p)!Next]_(Stage(p))]_vars BY <1>1
<1> QED BY <1>2, LifeInit, LifeInvAlways, PTL DEF Spec, Lives

\* The same as a refinement: what becomes of one process is a behaviour of
\* ProcessLife.
THEOREM EveryProcessLives == ASSUME NEW p \in Procs PROVE Spec => Life(p)!Spec
<1>1. Init => Life(p)!Init BY LifeInit
<1>2. LifeInv /\ [Next]_vars => [Life(p)!Next]_(Stage(p)) BY LifeInvStep, LifeStep
<1> QED BY <1>1, <1>2, LifeInvAlways, PTL DEF Spec, Life!Spec
=============================================================================
