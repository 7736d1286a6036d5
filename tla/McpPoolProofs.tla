---------------------------- MODULE McpPoolProofs ----------------------------
(* Theorems about the backend pool, for every number of keys, connections,  *)
(* backends and locks.                                                      *)
EXTENDS McpPool, FiniteSetTheorems, TLAPS

Labels == Holding \cup {"idle", "queued", "priming", "reaping", "attached", "flushing"}
Held == {"priming", "reaping"}
HasProc == {"replacing", "discarding", "failing", "attached", "flushing"} \cup Held

\* A coroutine that works with a backend works with one of its own key.
HandKey == \A c \in Conns : pc[c] \in HasProc => be[c] \in Procs /\ KeyAt[be[c]] = KeyOf[c]

\* So does the table.
ActiveKey == \A k \in Keys : active[k] # None => KeyAt[active[k]] = k

\* The type invariant in parts, with what makes it inductive.
TableType ==
  /\ active \in [Keys -> Procs \cup {None}] /\ ActiveKey
  /\ draining \subseteq Procs /\ expired \subseteq draining /\ pinned \subseteq Procs
  /\ epoch \in 0..MaxDrains
LockType ==
  /\ spawnLock \in [Keys -> Locks \cup {None}]
  /\ holder \in [Locks -> Conns \cup {None}]
  /\ waiters \in [Locks -> SUBSET Conns]
ProcType ==
  /\ status \in [Procs -> {"up", "marked", "exited"}]
  /\ gen \in [Procs -> 0..MaxDrains]
  /\ doomed \in [Procs -> Owners]
HandType ==
  /\ pc \in [Conns -> Labels]
  /\ be \in [Conns -> Procs \cup {None}]
  /\ HandKey
TryType ==
  /\ seen \in [Conns -> 0..MaxDrains]
  /\ tries \in [Conns -> 0..SpawnRetries]
  /\ again \subseteq Conns
CountType == reserved \in [Keys -> Nat] /\ ReservedMatches
LoopType ==
  /\ hbTodo \subseteq Procs /\ hbAt \in Procs \cup {None}
  /\ probing \in BOOLEAN /\ rotating \in BOOLEAN
  /\ phase \in {"run", "cancel", "close", "join", "stopped"}
  /\ rotating => epoch < MaxDrains   \* the model's bound leaves room for the drain

TypeInv ==
  TableType /\ LockType /\ ProcType /\ HandType /\ TryType /\ CountType /\ LoopType

LEMMA TypeInvType == TypeInv => TypeOK /\ ReservedMatches
  BY DEF TypeInv, TableType, LockType, ProcType, HandType, TryType, CountType, LoopType,
         TypeOK, Labels

LEMMA KeyOfType == \A c \in Conns : KeyOf[c] \in Keys
  BY McpPoolAssumption

LEMMA HandedFinite ==
  \A k \in Keys : IsFiniteSet(Handed(k)) /\ Cardinality(Handed(k)) \in Nat
<1> TAKE k \in Keys
<1>1. Handed(k) \subseteq Conns BY DEF Handed
<1> QED BY <1>1, McpPoolAssumption, FS_Subset, FS_CardinalityType

LEMMA InitType == Init => TypeInv
<1> SUFFICES ASSUME Init PROVE TypeInv OBVIOUS
<1>1. TableType BY McpPoolAssumption DEF Init, TableType, ActiveKey
<1>2. LockType BY DEF Init, LockType
<1>3. ProcType BY McpPoolAssumption DEF Init, ProcType, Owners
<1>4. HandType BY DEF Init, HandType, HandKey, Labels, HasProc, Held
<1>5. TryType BY McpPoolAssumption DEF Init, TryType
<1>6. CountType
  <2>1. \A k \in Keys : Handed(k) = {} BY DEF Init, Handed
  <2> QED BY <2>1, FS_EmptySet DEF Init, CountType, ReservedMatches
<1>7. LoopType BY Zenon DEF Init, LoopType
<1> QED BY <1>1, <1>2, <1>3, <1>4, <1>5, <1>6, <1>7 DEF TypeInv

----------------------------------------------------------------------------
(* What the helpers do *)

LEMMA MoveType ==
  ASSUME HandType, NEW c \in Conns, NEW l \in Labels, NEW p \in Procs \cup {None},
         l \in HasProc => p \in Procs /\ KeyAt[p] = KeyOf[c], Move(c, l, p)
  PROVE  HandType'
  BY DEF HandType, HandKey, Move

\* A move that is not to or from a hand-out does not change the count; one to a
\* hand-out adds one, one from a hand-out takes one off.
LEMMA MoveCount ==
  ASSUME TypeInv, NEW c \in Conns, NEW l, NEW p, Move(c, l, p)
  PROVE  \A k \in Keys :
           /\ KeyOf[c] = k /\ l \in Held /\ pc[c] \notin Held
                => Cardinality(Handed(k)') = Cardinality(Handed(k)) + 1
           /\ KeyOf[c] = k /\ l \notin Held /\ pc[c] \in Held
                => Cardinality(Handed(k)') = Cardinality(Handed(k)) - 1
           /\ KeyOf[c] # k \/ (l \in Held <=> pc[c] \in Held)
                => Cardinality(Handed(k)') = Cardinality(Handed(k))
<1> TAKE k \in Keys
<1>0. pc \in [Conns -> Labels] /\ pc' = [pc EXCEPT ![c] = l] BY DEF TypeInv, HandType, Move
<1>1. KeyOf[c] # k \/ (l \in Held <=> pc[c] \in Held) => Handed(k)' = Handed(k)
  BY <1>0 DEF Handed, Held
<1>2. KeyOf[c] = k /\ l \in Held /\ pc[c] \notin Held
        => Handed(k)' = Handed(k) \cup {c} /\ c \notin Handed(k)
  BY <1>0 DEF Handed, Held
<1>3. KeyOf[c] = k /\ l \notin Held /\ pc[c] \in Held
        => Handed(k)' = Handed(k) \ {c} /\ c \in Handed(k)
  BY <1>0 DEF Handed, Held
<1>4. IsFiniteSet(Handed(k)) BY HandedFinite
<1> QED BY <1>1, <1>2, <1>3, <1>4, FS_AddElement, FS_RemoveElement

LEMMA CountKept ==
  ASSUME TypeInv, NEW c \in Conns, NEW l, NEW p, Move(c, l, p), l \in Held <=> pc[c] \in Held,
         reserved' = reserved
  PROVE  CountType'
  BY MoveCount DEF CountType, TypeInv, ReservedMatches

LEMMA CountUp ==
  ASSUME TypeInv, NEW c \in Conns, NEW p, Move(c, "priming", p), pc[c] \notin Held,
         reserved' = [reserved EXCEPT ![KeyOf[c]] = @ + 1]
  PROVE  CountType'
<1>1. \A k \in Keys :
        /\ KeyOf[c] = k => Cardinality(Handed(k)') = Cardinality(Handed(k)) + 1
        /\ KeyOf[c] # k => Cardinality(Handed(k)') = Cardinality(Handed(k))
  BY MoveCount DEF Held
<1> QED BY <1>1, KeyOfType DEF CountType, TypeInv, ReservedMatches

LEMMA CountDown ==
  ASSUME TypeInv, NEW c \in Conns, NEW l, NEW p, Move(c, l, p), pc[c] \in Held, l \notin Held,
         Unreserve(c)
  PROVE  CountType'
<1>1. \A k \in Keys :
        /\ KeyOf[c] = k => Cardinality(Handed(k)') = Cardinality(Handed(k)) - 1
        /\ KeyOf[c] # k => Cardinality(Handed(k)') = Cardinality(Handed(k))
  BY MoveCount
<1>2. reserved \in [Keys -> Nat] /\ \A k \in Keys : reserved[k] = Cardinality(Handed(k))
  BY DEF TypeInv, CountType, ReservedMatches
<1>3. reserved[KeyOf[c]] > 0
  <2>1. c \in Handed(KeyOf[c]) BY DEF Handed, Held
  <2>2. IsFiniteSet(Handed(KeyOf[c])) BY KeyOfType, HandedFinite
  <2>3. Cardinality(Handed(KeyOf[c])) # 0 BY <2>1, <2>2, FS_EmptySet
  <2> QED BY <1>2, <2>3, KeyOfType
<1>4. reserved' = [reserved EXCEPT ![KeyOf[c]] = @ - 1] BY <1>3 DEF Unreserve
<1> QED BY <1>1, <1>2, <1>3, <1>4, KeyOfType DEF CountType, ReservedMatches

\* c moves between places that are not hand-outs.
Moves(c) == \E l \in Labels \ Held, p \in Procs \cup {None} : Move(c, l, p)

LEMMA MovesCount ==
  ASSUME TypeInv, NEW c \in Conns, Moves(c), pc[c] \notin Held, reserved' = reserved
  PROVE  CountType'
  BY CountKept DEF Moves

LEMMA ServeType ==
  ASSUME TypeInv, NEW c \in Conns, NEW p \in Procs, KeyAt[p] = KeyOf[c], pc[c] \notin Held,
         Serve(c, p)
  PROVE  HandType' /\ CountType' /\ pinned' \subseteq Procs
<1>0. HandType /\ pinned \subseteq Procs BY DEF TypeInv, TableType
<1>1. CASE Move(c, "priming", p) /\ reserved' = [reserved EXCEPT ![KeyOf[c]] = @ + 1]
           /\ UNCHANGED pinned
  BY <1>0, <1>1, MoveType, CountUp DEF Labels
<1>2. CASE Move(c, "idle", None) /\ pinned' = pinned \cup {p} /\ UNCHANGED reserved
  BY <1>0, <1>2, MoveType, CountKept DEF Labels, HasProc, Held
<1>3. CASE Move(c, "attached", p) /\ UNCHANGED <<reserved, pinned>>
  BY <1>0, <1>3, MoveType, CountKept DEF Labels, Held
<1> QED BY <1>1, <1>2, <1>3 DEF Serve

LEMMA ZeroType == 0 \in 0..MaxDrains /\ 0 \in 0..SpawnRetries
  BY McpPoolAssumption

LEMMA FailType ==
  ASSUME TypeInv, NEW c \in Conns, Fail(c)
  PROVE  HandType' /\ TryType' /\ Moves(c)
<1>0. HandType /\ TryType BY DEF TypeInv
<1>1. HandType' /\ Moves(c) BY <1>0, MoveType DEF Fail, Labels, HasProc, Held, Moves
<1>2. TryType' BY <1>0, ZeroType DEF TryType, Fail
<1> QED BY <1>1, <1>2

LEMMA ReleaseType ==
  ASSUME LockType, NEW c \in Conns, NEW l, NEW entry \in Locks \cup {None}, Release(c, l, entry)
  PROVE  holder' \in [Locks -> Conns \cup {None}] /\ spawnLock' \in [Keys -> Locks \cup {None}]
  BY DEF LockType, Release

LEMMA StartSpawnType ==
  ASSUME TypeInv, NEW c \in Conns, NEW l, NEW entry \in Locks \cup {None},
         StartSpawn(c, l, entry)
  PROVE  /\ HandType' /\ TryType' /\ Moves(c)
         /\ holder' \in [Locks -> Conns \cup {None}] /\ spawnLock' \in [Keys -> Locks \cup {None}]
<1>0. HandType /\ TryType /\ LockType /\ epoch \in 0..MaxDrains BY DEF TypeInv, TableType
<1>1. CASE /\ Move(c, "spawning", None)
           /\ seen' = [seen EXCEPT ![c] = epoch] /\ tries' = [tries EXCEPT ![c] = 0]
           /\ Keep(c, l, entry) /\ UNCHANGED again
  <2>1. HandType' /\ Moves(c)
    BY <1>0, <1>1, MoveType DEF Labels, Holding, HasProc, Held, Moves
  <2>2. TryType' BY <1>0, <1>1, ZeroType DEF TryType
  <2>3. holder' \in [Locks -> Conns \cup {None}] /\ spawnLock' \in [Keys -> Locks \cup {None}]
    BY <1>0, <1>1 DEF Keep, LockType
  <2> QED BY <2>1, <2>2, <2>3
<1>2. CASE Fail(c) /\ Release(c, l, entry) BY <1>0, <1>2, FailType, ReleaseType
<1> QED BY <1>1, <1>2 DEF StartSpawn

\* The parts of the type that get_or_create's first section touches.
Enters(c) ==
  /\ active' \in [Keys -> Procs \cup {None}] /\ ActiveKey'
  /\ doomed' \in [Procs -> Owners]
  /\ HandType' /\ TryType'

LEMMA UnderLockType ==
  ASSUME TypeInv, NEW c \in Conns, NEW l, NEW entry \in Locks \cup {None},
         UnderLock(c, l, entry)
  PROVE  /\ Enters(c) /\ Moves(c)
         /\ holder' \in [Locks -> Conns \cup {None}] /\ spawnLock' \in [Keys -> Locks \cup {None}]
<1> DEFINE k == KeyOf[c]
           b == active[k]
<1>0. /\ active \in [Keys -> Procs \cup {None}] /\ ActiveKey /\ doomed \in [Procs -> Owners]
      /\ LockType /\ HandType /\ TryType /\ k \in Keys
  BY KeyOfType DEF TypeInv, TableType, ProcType
<1>1. CASE /\ b # None
           /\ active' = [active EXCEPT ![k] = None] /\ doomed' = [doomed EXCEPT ![b] = "conn"]
           /\ Move(c, "replacing", b) /\ Keep(c, l, entry) /\ UNCHANGED <<seen, tries, again>>
  <2>1. b \in Procs /\ KeyAt[b] = k BY <1>0, <1>1 DEF ActiveKey
  <2>2. HandType' /\ Moves(c)
    BY <1>0, <1>1, <2>1, MoveType DEF Labels, Holding, HasProc, Held, Moves
  <2>3. active' \in [Keys -> Procs \cup {None}] /\ ActiveKey' BY <1>0, <1>1 DEF ActiveKey
  <2>4. doomed' \in [Procs -> Owners] BY <1>0, <1>1 DEF Owners
  <2>5. TryType' BY <1>0, <1>1 DEF TryType
  <2>6. holder' \in [Locks -> Conns \cup {None}] /\ spawnLock' \in [Keys -> Locks \cup {None}]
    BY <1>0, <1>1 DEF Keep, LockType
  <2> QED BY <2>2, <2>3, <2>4, <2>5, <2>6 DEF Enters
<1>2. CASE UNCHANGED <<active, doomed>> /\ StartSpawn(c, l, entry)
  BY <1>0, <1>2, StartSpawnType DEF Enters, ActiveKey
<1> QED BY <1>1, <1>2 DEF UnderLock

LEMMA LookupType ==
  ASSUME TypeInv, NEW c \in Conns, pc[c] \notin Held, Lookup(c)
  PROVE  Enters(c) /\ CountType' /\ LockType' /\ pinned' \subseteq Procs
<1> DEFINE k == KeyOf[c]
<1>0. /\ active \in [Keys -> Procs \cup {None}] /\ ActiveKey /\ doomed \in [Procs -> Owners]
      /\ LockType /\ HandType /\ TryType /\ CountType /\ pinned \subseteq Procs /\ k \in Keys
  BY KeyOfType DEF TypeInv, TableType, ProcType
<1>1. CASE /\ Healthy(k) /\ Serve(c, active[k])
           /\ UNCHANGED <<active, doomed, lockVars, seen, tries, again>>
  <2>1. active[k] \in Procs /\ KeyAt[active[k]] = KeyOf[c]
    BY <1>0, <1>1 DEF Healthy, ActiveKey
  <2>2. HandType' /\ CountType' /\ pinned' \subseteq Procs BY <1>1, <2>1, ServeType
  <2> QED BY <1>0, <1>1, <2>2 DEF Enters, ActiveKey, LockType, lockVars, TryType
<1>2. CASE /\ spawnLock[k] # None
           /\ waiters' = [waiters EXCEPT ![spawnLock[k]] = @ \cup {c}]
           /\ Move(c, "queued", None)
           /\ UNCHANGED <<active, doomed, reserved, pinned, spawnLock, holder, seen, tries, again>>
  <2>1. HandType' BY <1>0, <1>2, MoveType DEF Labels, HasProc, Held
  <2>2. CountType' BY <1>2, CountKept DEF Held
  <2>3. LockType' BY <1>0, <1>2 DEF LockType
  <2> QED BY <1>0, <1>2, <2>1, <2>2, <2>3 DEF Enters, ActiveKey, TryType
<1>3. ASSUME NEW l \in Locks, UNCHANGED <<waiters, reserved, pinned>>, UnderLock(c, l, l)
      PROVE Enters(c) /\ CountType' /\ LockType' /\ pinned' \subseteq Procs
  <2>1. /\ Enters(c) /\ Moves(c) /\ holder' \in [Locks -> Conns \cup {None}]
        /\ spawnLock' \in [Keys -> Locks \cup {None}]
    BY <1>3, UnderLockType
  <2>2. CountType' BY <1>3, <2>1, MovesCount
  <2> QED BY <1>0, <1>3, <2>1, <2>2 DEF LockType
<1> QED BY <1>1, <1>2, <1>3 DEF Lookup

----------------------------------------------------------------------------
(* The type invariant: the steps of a coroutine *)

LEMMA LoopKept == ASSUME LoopType, UNCHANGED <<loopVars, phase, epoch>> PROVE LoopType'
  BY DEF LoopType, loopVars

LEMMA AcquireType ==
  ASSUME TypeInv, NEW c \in Conns, pc[c] \notin Held, Lookup(c),
         UNCHANGED <<draining, expired, epoch, procVars, loopVars, phase>>
  PROVE  TypeInv'
<1>0. TableType /\ ProcType /\ LoopType BY DEF TypeInv
<1>1. Enters(c) /\ CountType' /\ LockType' /\ pinned' \subseteq Procs BY LookupType
<1>2. TableType' BY <1>0, <1>1 DEF TableType, Enters
<1>3. ProcType' BY <1>0, <1>1 DEF ProcType, Enters, procVars
<1>4. LoopType' BY <1>0, LoopKept
<1> QED BY <1>1, <1>2, <1>3, <1>4 DEF TypeInv, Enters

LEMMA WokenType == ASSUME TypeInv, NEW c \in Conns, Woken(c) PROVE TypeInv'
<1>0. TableType /\ ProcType /\ LoopType /\ LockType /\ TryType /\ pc[c] \notin Held
  BY DEF TypeInv, Woken, Held
<1>1. PICK l \in Locks :
        /\ waiters' = [waiters EXCEPT ![l] = @ \ {c}]
        /\ \/ /\ Healthy(KeyOf[c]) /\ Serve(c, active[KeyOf[c]])
              /\ UNCHANGED <<active, doomed, spawnLock, holder, seen, tries, again>>
           \/ /\ UNCHANGED <<reserved, pinned>>
              /\ UnderLock(c, l, spawnLock[KeyOf[c]])
  BY DEF Woken
<1>2. UNCHANGED <<draining, expired, epoch, procVars, loopVars, phase>> BY DEF Woken
<1>3. waiters' \in [Locks -> SUBSET Conns] BY <1>0, <1>1 DEF LockType
<1>4. LoopType' BY <1>0, <1>2, LoopKept
<1>5. CASE /\ Healthy(KeyOf[c]) /\ Serve(c, active[KeyOf[c]])
           /\ UNCHANGED <<active, doomed, spawnLock, holder, seen, tries, again>>
  <2>1. active[KeyOf[c]] \in Procs /\ KeyAt[active[KeyOf[c]]] = KeyOf[c]
    BY <1>0, <1>5, KeyOfType DEF Healthy, TableType, ActiveKey
  <2>2. HandType' /\ CountType' /\ pinned' \subseteq Procs BY <1>0, <1>5, <2>1, ServeType
  <2>3. TableType' BY <1>0, <1>2, <1>5, <2>2 DEF TableType, ActiveKey
  <2>4. ProcType' /\ TryType' /\ LockType'
    BY <1>0, <1>2, <1>3, <1>5 DEF ProcType, TryType, LockType, procVars
  <2> QED BY <1>4, <2>2, <2>3, <2>4 DEF TypeInv
<1>6. CASE UNCHANGED <<reserved, pinned>> /\ UnderLock(c, l, spawnLock[KeyOf[c]])
  <2>0. spawnLock[KeyOf[c]] \in Locks \cup {None} BY <1>0, KeyOfType DEF LockType
  <2>1. /\ Enters(c) /\ Moves(c) /\ holder' \in [Locks -> Conns \cup {None}]
        /\ spawnLock' \in [Keys -> Locks \cup {None}]
    BY <1>6, <2>0, UnderLockType
  <2>2. CountType' BY <1>0, <1>6, <2>1, MovesCount
  <2>3. TableType' BY <1>0, <1>2, <1>6, <2>1 DEF TableType, Enters
  <2>4. ProcType' BY <1>0, <1>2, <2>1 DEF ProcType, Enters, procVars
  <2>5. LockType' BY <1>3, <2>1 DEF LockType
  <2> QED BY <1>4, <2>1, <2>2, <2>3, <2>4, <2>5 DEF TypeInv, Enters
<1> QED BY <1>1, <1>5, <1>6

LEMMA TableKept == ASSUME TableType, UNCHANGED <<active, draining, expired, epoch, pinned>>
                   PROVE TableType'
  BY DEF TableType, ActiveKey

LEMMA LockKept == ASSUME LockType, UNCHANGED lockVars PROVE LockType'
  BY DEF LockType, lockVars

LEMMA ProcKept == ASSUME ProcType, UNCHANGED <<procVars, doomed>> PROVE ProcType'
  BY DEF ProcType, procVars

LEMMA SpawnStepType ==
  ASSUME TypeInv, NEW c \in Conns, Replaced(c) \/ SpawnFail(c) \/ Discarded(c)
  PROVE  TypeInv'
<1>0. TypeInv /\ TableType /\ ProcType /\ LoopType /\ LockType /\ TryType /\ HandType
  BY DEF TypeInv
<1>1. UNCHANGED <<poolVars, waiters, procVars, doomed, loopVars, phase>> /\ pc[c] \notin Held
  BY DEF Replaced, SpawnFail, Discarded, Held
<1>2. TableType' /\ ProcType' /\ LoopType' /\ reserved' = reserved
  BY <1>0, <1>1, TableKept, ProcKept, LoopKept DEF poolVars
<1>3. spawnLock[KeyOf[c]] \in Locks \cup {None} BY <1>0, KeyOfType DEF LockType
<1>4. /\ HandType' /\ TryType' /\ Moves(c)
      /\ holder' \in [Locks -> Conns \cup {None}] /\ spawnLock' \in [Keys -> Locks \cup {None}]
  <2>1. CASE Replaced(c)
    <3>1. PICK l \in Locks : StartSpawn(c, l, spawnLock[KeyOf[c]]) BY <2>1 DEF Replaced
    <3> QED BY <1>0, <1>3, <3>1, StartSpawnType
  <2>2. CASE SpawnFail(c)
    <3>1. PICK l \in Locks : Release(c, l, spawnLock[KeyOf[c]]) BY <2>2 DEF SpawnFail
    <3>2. Fail(c) BY <2>2 DEF SpawnFail
    <3> QED BY <1>0, <1>3, <3>1, <3>2, FailType, ReleaseType
  <2>3. CASE Discarded(c)
    <3>1. CASE /\ MayRetry(c) /\ Move(c, "spawning", None)
               /\ seen' = [seen EXCEPT ![c] = epoch] /\ tries' = [tries EXCEPT ![c] = @ + 1]
               /\ UNCHANGED <<spawnLock, holder, again>>
      <4>1. HandType' /\ Moves(c)
        BY <1>0, <3>1, MoveType DEF Labels, Holding, HasProc, Held, Moves
      <4>2. tries' \in [Conns -> 0..SpawnRetries]
        <5>1. tries[c] \in 0..SpawnRetries /\ tries[c] < SpawnRetries
          BY <1>0, <3>1 DEF TryType, MayRetry
        <5>2. tries[c] + 1 \in 0..SpawnRetries BY <5>1, McpPoolAssumption
        <5> QED BY <1>0, <3>1, <5>2 DEF TryType
      <4>3. TryType' BY <1>0, <3>1, <4>2 DEF TryType, TableType
      <4> QED BY <1>0, <3>1, <4>1, <4>3 DEF LockType
    <3>2. CASE Fail(c) /\ \E l \in Locks : Release(c, l, spawnLock[KeyOf[c]])
      BY <1>0, <1>3, <3>2, FailType, ReleaseType
    <3> QED BY <2>3, <3>1, <3>2 DEF Discarded
  <2> QED BY <2>1, <2>2, <2>3
<1>5. CountType' BY <1>1, <1>2, <1>4, MovesCount
<1>6. LockType' BY <1>0, <1>1, <1>4 DEF LockType
<1> QED BY <1>2, <1>4, <1>5, <1>6 DEF TypeInv

LEMMA SpawnedType ==
  ASSUME TypeInv, NEW c \in Conns, NEW p \in Procs, Spawned(c, p)
  PROVE  /\ status' \in [Procs -> {"up", "marked", "exited"}]
         /\ gen' \in [Procs -> 0..MaxDrains]
         /\ KeyAt[p] = KeyOf[c] /\ pc[c] \notin Held
  BY DEF TypeInv, ProcType, TryType, Spawned, Held

LEMMA RefusedType ==
  ASSUME TypeInv, NEW c \in Conns, NEW p \in Procs, Refused(c, p) PROVE TypeInv'
<1>0. TypeInv /\ TableType /\ ProcType /\ LoopType /\ LockType /\ TryType /\ HandType
  BY DEF TypeInv
<1>1. Spawned(c, p) /\ UNCHANGED <<poolVars, lockVars, seen, tries, again, loopVars, phase>>
  BY DEF Refused
<1>2. TableType' /\ LockType' /\ LoopType' /\ TryType' /\ reserved' = reserved
  BY <1>0, <1>1, TableKept, LockKept, LoopKept DEF poolVars, TryType
<1>3. Move(c, "discarding", p) \/ Move(c, "failing", p) BY DEF Refused
<1>4. HandType' /\ Moves(c)
  BY <1>0, <1>1, <1>3, SpawnedType, MoveType DEF Labels, Holding, HasProc, Held, Moves
<1>5. ProcType' BY <1>0, <1>1, SpawnedType DEF Refused, ProcType, Owners
<1>6. CountType' BY <1>1, <1>2, <1>4, SpawnedType, MovesCount
<1> QED BY <1>2, <1>4, <1>5, <1>6 DEF TypeInv

LEMMA EvictedType ==
  ASSUME TypeInv, NEW S, NEW o \in Owners
  PROVE  /\ Without(S) \in [Keys -> Procs \cup {None}]
         /\ \A k \in Keys : Without(S)[k] # None => KeyAt[Without(S)[k]] = k
         /\ LocksWithout(S) \in [Keys -> Locks \cup {None}]
         /\ Doom(S, o) \in [Procs -> Owners]
  BY DEF TypeInv, TableType, ActiveKey, LockType, ProcType, Without, LocksWithout, Doom

LEMMA AddedType ==
  ASSUME TypeInv, NEW c \in Conns, NEW p \in Procs, Added(c, p) PROVE TypeInv'
<1>0. TypeInv /\ TableType /\ ProcType /\ LoopType /\ LockType /\ TryType /\ HandType
  BY DEF TypeInv
<1>1. Spawned(c, p) /\ Serve(c, p)
      /\ UNCHANGED <<draining, expired, epoch, waiters, again, loopVars, phase>>
  BY DEF Added
<1>2. HandType' /\ CountType' /\ pinned' \subseteq Procs BY <1>0, <1>1, SpawnedType, ServeType
<1>3. PICK V \in SUBSET Procs :
        /\ active' = [Without(V) EXCEPT ![KeyOf[c]] = p]
        /\ doomed' = Doom(V, "lru") /\ spawnLock' = LocksWithout(V)
  BY DEF Added
<1>4. "lru" \in Owners BY DEF Owners
<1>5. active' \in [Keys -> Procs \cup {None}] BY <1>0, <1>3, <1>4, EvictedType
<1>6. ActiveKey'
  BY <1>0, <1>1, <1>3, <1>4, EvictedType, SpawnedType, KeyOfType DEF ActiveKey
<1>7. TableType' BY <1>0, <1>1, <1>2, <1>5, <1>6 DEF TableType
<1>8. ProcType' BY <1>0, <1>1, <1>3, <1>4, EvictedType, SpawnedType DEF ProcType
<1>9. TryType'
  <2>1. seen' = [seen EXCEPT ![c] = 0] /\ tries' = [tries EXCEPT ![c] = 0] BY DEF Added
  <2> QED BY <1>0, <1>1, <2>1, ZeroType DEF TryType
<1>10. LockType'
  <2>1. holder' = [l \in Locks |-> IF holder[l] = c THEN None ELSE holder[l]] BY DEF Added
  <2> QED BY <1>0, <1>1, <1>3, <1>4, <2>1, EvictedType DEF LockType
<1>11. LoopType' BY <1>0, <1>1, LoopKept
<1> QED BY <1>2, <1>7, <1>8, <1>9, <1>10, <1>11 DEF TypeInv

\* Steps that leave the table, the locks and the loops alone.
LEMMA HandStepType ==
  ASSUME TypeInv, HandType', TryType', CountType', ProcType',
         UNCHANGED <<active, draining, expired, epoch, pinned, lockVars, loopVars, phase>>
  PROVE  TypeInv'
<1>1. TableType' /\ LockType' /\ LoopType' BY TableKept, LockKept, LoopKept DEF TypeInv
<1> QED BY <1>1 DEF TypeInv

LEMMA HandStepsType ==
  ASSUME TypeInv, NEW c \in Conns,
         Gone(c) \/ PrimeDone(c) \/ PrimeReaped(c) \/ Disconnect(c)
  PROVE  TypeInv'
<1>0. TypeInv /\ TableType /\ ProcType /\ LoopType /\ LockType /\ TryType /\ HandType
  BY DEF TypeInv
<1> USE DEF poolVars
<1>1. CASE Gone(c)
  <2>1. Move(c, "flushing", be[c]) /\ reserved' = reserved /\ pc[c] = "attached"
    BY <1>1 DEF Gone
  <2>2. be[c] \in Procs /\ KeyAt[be[c]] = KeyOf[c]
    BY <1>0, <2>1 DEF HandType, HandKey, HasProc
  <2>3. HandType' BY <1>0, <2>1, <2>2, MoveType DEF Labels
  <2>4. CountType' BY <2>1, CountKept DEF Held
  <2>5. TryType' /\ ProcType' BY <1>0, <1>1, ProcKept DEF Gone, TryType
  <2> QED BY <1>1, <2>3, <2>4, <2>5, HandStepType DEF Gone
<1>2. CASE Primed(c)
  <2>1. Move(c, "attached", be[c]) /\ Unreserve(c) /\ pc[c] = "priming" BY <1>2 DEF Primed
  <2>2. be[c] \in Procs /\ KeyAt[be[c]] = KeyOf[c]
    BY <1>0, <2>1 DEF HandType, HandKey, HasProc, Held
  <2>3. HandType' BY <1>0, <2>1, <2>2, MoveType DEF Labels
  <2>4. CountType' BY <2>1, CountDown DEF Held
  <2>5. TryType' /\ ProcType' BY <1>0, <1>2, ProcKept DEF Primed, TryType
  <2> QED BY <1>2, <2>3, <2>4, <2>5, HandStepType DEF Primed
<1>3. CASE PrimeFailed(c) \/ PrimeReaped(c)
  <2>1. Fail(c) /\ Unreserve(c) /\ pc[c] \in Held BY <1>3 DEF PrimeFailed, PrimeReaped, Held
  <2>2. HandType' /\ TryType' BY <2>1, FailType
  <2>3. CountType'
    <3>1. Move(c, "idle", None) BY <2>1 DEF Fail
    <3> QED BY <2>1, <3>1, CountDown DEF Held
  <2>4. ProcType' BY <1>0, <1>3, ProcKept DEF PrimeFailed, PrimeReaped
  <2> QED BY <1>3, <2>2, <2>3, <2>4, HandStepType DEF PrimeFailed, PrimeReaped
<1>4. CASE PrimeTimeout(c)
  <2>1. Move(c, "reaping", be[c]) /\ reserved' = reserved /\ pc[c] = "priming"
    BY <1>4 DEF PrimeTimeout
  <2>2. be[c] \in Procs /\ KeyAt[be[c]] = KeyOf[c]
    BY <1>0, <2>1 DEF HandType, HandKey, HasProc, Held
  <2>3. HandType' BY <1>0, <2>1, <2>2, MoveType DEF Labels
  <2>4. CountType' BY <2>1, CountKept DEF Held
  <2>5. TryType' BY <1>0, <1>4 DEF PrimeTimeout, TryType
  <2>6. ProcType' BY <1>0, <1>4, <2>2 DEF PrimeTimeout, ProcType, Owners
  <2> QED BY <1>4, <2>3, <2>4, <2>5, <2>6, HandStepType DEF PrimeTimeout
<1>5. CASE Disconnect(c)
  <2>1. Move(c, "idle", None) /\ reserved' = reserved /\ pc[c] = "attached"
    BY <1>5 DEF Disconnect
  <2>2. HandType' BY <1>0, <2>1, MoveType DEF Labels, HasProc, Held
  <2>3. CountType' BY <2>1, CountKept DEF Held
  <2>4. TryType' BY <1>0, <1>5 DEF Disconnect, TryType
  <2>5. ProcType' BY <1>0, <1>5 DEF Disconnect, ProcType
  <2> QED BY <1>5, <2>2, <2>3, <2>4, <2>5, HandStepType DEF Disconnect
<1> QED BY <1>1, <1>2, <1>3, <1>4, <1>5 DEF PrimeDone

LEMMA RebindType == ASSUME TypeInv, NEW c \in Conns, Rebind(c) PROVE TypeInv'
<1>1. pc[c] \notin Held /\ UNCHANGED <<draining, expired, epoch, procVars, loopVars, phase>>
  BY DEF Rebind, Held
<1>2. CASE Lookup(c) BY <1>1, <1>2, AcquireType
<1>3. CASE Fail(c) /\ UNCHANGED <<active, reserved, pinned, doomed, lockVars>>
  <2>1. HandType' /\ TryType' /\ Moves(c) BY <1>3, FailType
  <2>2. CountType' BY <1>1, <1>3, <2>1, MovesCount
  <2>3. ProcType' BY <1>1, <1>3, ProcKept DEF TypeInv
  <2> QED BY <1>1, <1>3, <2>1, <2>2, <2>3, HandStepType
<1> QED BY <1>2, <1>3 DEF Rebind

LEMMA ConnType == ASSUME TypeInv, NEW c \in Conns, Conn(c) PROVE TypeInv'
<1>1. CASE Ensure(c) BY <1>1, AcquireType DEF Ensure, Held
<1> QED
  BY <1>1, WokenType, SpawnStepType, RebindType, HandStepsType, RefusedType, AddedType
  DEF Conn, Continue, SpawnDone, PrimeDone

----------------------------------------------------------------------------
(* The type invariant: backends, loops, stop *)

\* Steps that leave the coroutines alone.
LEMMA PoolStepType ==
  ASSUME TypeInv, UNCHANGED <<connVars, reserved>>, TableType', LockType', ProcType', LoopType'
  PROVE  TypeInv'
<1>1. HandType' /\ TryType' BY DEF TypeInv, HandType, HandKey, TryType, connVars
<1>2. CountType'
  <2>1. \A k \in Keys : Handed(k)' = Handed(k) BY DEF Handed, connVars
  <2> QED BY <2>1 DEF TypeInv, CountType, ReservedMatches
<1> QED BY <1>1, <1>2 DEF TypeInv

LEMMA ProcStepType == ASSUME TypeInv, NEW p \in Procs, Proc(p) PROVE TypeInv'
<1>0. TypeInv /\ TableType /\ ProcType /\ LoopType /\ LockType BY DEF TypeInv
<1> USE DEF poolVars
<1>1. CASE MarkDead(p) \/ Exit(p) \/ ShutDown(p)
  <2>1. UNCHANGED <<poolVars, lockVars, connVars, loopVars, phase>>
    BY <1>1 DEF MarkDead, Exit, ShutDown
  <2>2. ProcType'
    BY <1>0, <1>1, ZeroType DEF MarkDead, Exit, ShutDown, ProcType, Owners
  <2> QED BY <1>0, <2>1, <2>2, TableKept, LockKept, LoopKept, PoolStepType
<1>2. CASE Unpin(p)
  <2>1. TableType' BY <1>0, <1>2 DEF Unpin, TableType, ActiveKey
  <2> QED BY <1>0, <1>2, <2>1, LockKept, ProcKept, LoopKept, PoolStepType DEF Unpin
<1>3. CASE Deadline(p)
  <2>1. TableType' BY <1>0, <1>3 DEF Deadline, TableType, ActiveKey
  <2> QED BY <1>0, <1>3, <2>1, LockKept, ProcKept, LoopKept, PoolStepType DEF Deadline
<1> QED BY <1>1, <1>2, <1>3 DEF Proc

\* What an eviction of any backends by anyone does to the type.
LEMMA EvictStep ==
  ASSUME TypeInv, NEW S, NEW o \in Owners,
         active' = Without(S), spawnLock' = LocksWithout(S), doomed' = Doom(S, o),
         UNCHANGED <<draining, expired, epoch, reserved, pinned, holder, waiters, connVars>>,
         status' \in [Procs -> {"up", "marked", "exited"}], gen' = gen, LoopType'
  PROVE  TypeInv'
<1>0. TableType /\ ProcType /\ LockType BY DEF TypeInv
<1>1. TableType' BY <1>0, EvictedType DEF TableType, ActiveKey
<1>2. LockType' BY <1>0, EvictedType DEF LockType
<1>3. ProcType' BY <1>0, EvictedType DEF ProcType
<1> QED BY <1>1, <1>2, <1>3, PoolStepType

LEMMA HbEvictStep ==
  ASSUME TypeInv, NEW p \in Procs, HbEvict(p) \/ UNCHANGED <<active, spawnLock, doomed>>,
         UNCHANGED <<draining, expired, epoch, reserved, pinned, holder, waiters, connVars>>,
         status' \in [Procs -> {"up", "marked", "exited"}], gen' = gen, LoopType'
  PROVE  TypeInv'
<1>1. CASE active' = Without({p}) /\ spawnLock' = LocksWithout({p}) /\ doomed' = Doom({p}, "beat")
  BY <1>1, EvictStep DEF Owners
<1>2. CASE UNCHANGED <<active, spawnLock, doomed>>
  <2>1. TableType /\ LockType /\ ProcType BY DEF TypeInv
  <2>2. TableType' /\ LockType' /\ ProcType'
    BY <1>2, <2>1 DEF TableType, ActiveKey, LockType, ProcType
  <2> QED BY <2>2, PoolStepType
<1> QED BY <1>1, <1>2 DEF HbEvict

LEMMA LoopsType == ASSUME TypeInv, Loops PROVE TypeInv'
<1>0. TypeInv /\ TableType /\ ProcType /\ LoopType /\ LockType BY DEF TypeInv
<1>s. status \in [Procs -> {"up", "marked", "exited"}] BY <1>0 DEF ProcType
<1>1. CASE IdleSweep
  <2>1. PICK S \in SUBSET Procs : EvictIdle(S, "sweep") BY <1>1 DEF IdleSweep
  <2>2. LoopType' BY <1>0, <1>1, <2>1, LoopKept DEF IdleSweep, EvictIdle
  <2> QED BY <1>s, <2>1, <2>2, EvictStep DEF EvictIdle, Owners, procVars
<1>2. CASE Rotate
  <2> DEFINE S == {p \in Procs : Evictable(p)}
  <2>1. EvictIdle(S, "cred") BY <1>2 DEF Rotate
  <2> HIDE DEF S
  <2>2. LoopType' BY <1>0, <1>2, <2>1 DEF Rotate, EvictIdle, LoopType
  <2> QED BY <1>s, <2>1, <2>2, EvictStep DEF EvictIdle, Owners, procVars
<1>3. CASE DrainAll
  <2>1. epoch + 1 \in 0..MaxDrains
    BY <1>0, <1>3, McpPoolAssumption DEF DrainAll, LoopType, TableType
  <2>2. draining' \subseteq Procs /\ expired' \subseteq draining'
    BY <1>0, <1>3 DEF DrainAll, TableType, Pooled
  <2>3. TableType' BY <1>0, <1>3, <2>1, <2>2 DEF DrainAll, TableType, ActiveKey
  <2>4. LockType' BY <1>0, <1>3 DEF DrainAll, LockType
  <2>5. ProcType' BY <1>0, <1>3, ProcKept DEF DrainAll
  <2>6. LoopType' BY <1>0, <1>3 DEF DrainAll, LoopType
  <2> QED BY <1>3, <2>3, <2>4, <2>5, <2>6, PoolStepType DEF DrainAll
<1>4. ASSUME NEW p \in Procs, HbProbe(p) PROVE TypeInv'
  <2>1. hbTodo' \subseteq Procs
    <3>1. Snapshot \subseteq Procs BY <1>0 DEF Snapshot, Pooled, LoopType, TableType
    <3> QED BY <1>4, <3>1 DEF HbProbe
  <2>2. hbAt' \in Procs \cup {None} /\ probing' = TRUE
    BY <1>0, <1>4 DEF HbProbe, LoopType
  <2>3. rotating' = rotating /\ phase' = phase /\ epoch' = epoch BY <1>4 DEF HbProbe
  <2>4. LoopType' BY <1>0, <2>1, <2>2, <2>3 DEF LoopType
  <2>5. status' \in [Procs -> {"up", "marked", "exited"}] BY <1>s, <1>4 DEF HbProbe
  <2> QED BY <1>4, <2>4, <2>5, HbEvictStep DEF HbProbe
<1>5. CASE HbPinged
  <2>1. hbAt \in Procs BY <1>0, <1>5 DEF HbPinged, LoopType
  <2>2. LoopType' BY <1>0, <1>5 DEF HbPinged, LoopType
  <2>3. status' \in [Procs -> {"up", "marked", "exited"}] BY <1>s, <1>5 DEF HbPinged
  <2> QED BY <1>5, <2>1, <2>2, <2>3, HbEvictStep DEF HbPinged
<1>6. CASE ReapDraining
  <2> DEFINE R == {p \in draining : Reapable(p)}
  <2>1. draining' = draining \ R /\ expired' = expired \ R /\ doomed' = Doom(R, "reap")
    BY <1>6 DEF ReapDraining
  <2> HIDE DEF R
  <2>2. TableType' BY <1>0, <1>6, <2>1 DEF ReapDraining, TableType, ActiveKey
  <2>3. LockType' BY <1>0, <1>6, LockKept DEF ReapDraining
  <2>4. ProcType' BY <1>0, <1>6, <2>1, EvictedType DEF ReapDraining, ProcType, procVars, Owners
  <2>5. LoopType' BY <1>0, <1>6 DEF ReapDraining, LoopType
  <2> QED BY <1>6, <2>2, <2>3, <2>4, <2>5, PoolStepType DEF ReapDraining
<1> QED BY <1>1, <1>2, <1>3, <1>4, <1>5, <1>6 DEF Loops, Probe

\* Cancellation returns the reservations it interrupts.
LEMMA CancelType ==
  ASSUME TypeInv, NEW C \in SUBSET Conns, NEW loops, Cancel(C, loops)
  PROVE  HandType' /\ TryType' /\ CountType' /\ TableType' /\ LockType' /\ ProcType'
<1>0. TypeInv /\ TableType /\ ProcType /\ LockType /\ HandType /\ TryType /\ CountType
  BY DEF TypeInv
<1> USE DEF Cancel
<1>1. HandType' BY <1>0 DEF HandType, HandKey, Labels, HasProc, Held
<1>2. TryType' BY <1>0, ZeroType DEF TryType
<1>3. CountType'
  <2>1. ASSUME NEW k \in Keys
        PROVE  /\ reserved'[k] = Cardinality(Handed(k)')
               /\ Cardinality(Handed(k)') \in Nat
    <3>1. Handed(k)' = Handed(k) \ (Handed(k) \cap C)
      BY <1>0, <1>1 DEF Handed, HandType
    <3>2. IsFiniteSet(Handed(k)) BY HandedFinite
    <3> DEFINE D == Handed(k) \cap C
    <3>3. Cardinality(Handed(k) \ D) = Cardinality(Handed(k)) - Cardinality(Handed(k) \cap D)
          /\ IsFiniteSet(Handed(k) \ D)
      BY <3>2, FS_Difference
    <3>4. Handed(k) \cap D = D OBVIOUS
    <3>5. Cardinality(Handed(k) \ D) \in Nat BY <3>3, FS_CardinalityType
    <3>6. reserved'[k] = reserved[k] - Cardinality(D) OBVIOUS
    <3>7. reserved[k] = Cardinality(Handed(k)) BY <1>0 DEF CountType, ReservedMatches
    <3> QED BY <3>1, <3>3, <3>4, <3>5, <3>6, <3>7
  <2>2. reserved' = [k \in Keys |-> reserved'[k]] OBVIOUS
  <2> QED BY <2>1, <2>2 DEF CountType, ReservedMatches
<1>4. TableType' BY <1>0 DEF TableType, ActiveKey
<1>5. LockType' BY <1>0 DEF LockType
<1>6. ProcType' BY <1>0 DEF ProcType, procVars, Owners
<1> QED BY <1>1, <1>2, <1>3, <1>4, <1>5, <1>6

LEMMA StopType == ASSUME TypeInv, Stop PROVE TypeInv'
<1>0. TypeInv /\ TableType /\ ProcType /\ LoopType /\ LockType BY DEF TypeInv
<1>1. CASE StopConns
  <2>1. Cancel(Conns \ Warmers, {}) /\ epoch' = epoch BY <1>1 DEF StopConns, Cancel
  <2>2. LoopType' BY <1>0, <1>1, <2>1 DEF StopConns, LoopType, loopVars
  <2> QED BY <2>1, <2>2, CancelType DEF TypeInv
<1>2. CASE StopLoops
  <2>1. Cancel(Warmers, {"sweep", "cred", "beat", "reap"}) BY <1>2 DEF StopLoops
  <2>2. LoopType' BY <1>0, <1>2 DEF StopLoops, LoopType
  <2> QED BY <2>1, <2>2, CancelType, McpPoolAssumption DEF TypeInv
<1>3. CASE ShutdownAll
  <2>1. TableType' BY <1>0, <1>3 DEF ShutdownAll, TableType, ActiveKey
  <2>2. LockType' BY <1>0, <1>3 DEF ShutdownAll, LockType
  <2>3. ProcType' BY <1>0, <1>3 DEF ShutdownAll, ProcType, procVars, Doom, Owners
  <2>4. LoopType' BY <1>0, <1>3 DEF ShutdownAll, LoopType, loopVars
  <2> QED BY <1>3, <2>1, <2>2, <2>3, <2>4, PoolStepType DEF ShutdownAll
<1>4. CASE Finish
  <2>1. LoopType' BY <1>0, <1>4 DEF Finish, LoopType, loopVars, poolVars
  <2> QED BY <1>0, <1>4, <2>1, TableKept, LockKept, ProcKept, PoolStepType DEF Finish, poolVars
<1>5. CASE UNCHANGED vars
  BY <1>0, <1>5, TableKept, LockKept, ProcKept, LoopKept, PoolStepType
  DEF vars, lockVars, procVars, loopVars, connVars
<1> QED BY <1>1, <1>2, <1>3, <1>4, <1>5 DEF Stop, Stopped

LEMMA TypeStep == TypeInv /\ [Next]_vars => TypeInv'
<1> SUFFICES ASSUME TypeInv, [Next]_vars PROVE TypeInv' OBVIOUS
<1>0. TypeInv /\ TableType /\ ProcType /\ LoopType /\ LockType BY DEF TypeInv
<1>1. CASE UNCHANGED vars
  BY <1>0, <1>1, TableKept, LockKept, ProcKept, LoopKept, PoolStepType
  DEF vars, lockVars, procVars, loopVars, connVars
<1> QED BY <1>1, ConnType, ProcStepType, LoopsType, StopType DEF Next

LEMMA TypeAlways == Spec => []TypeInv
  BY InitType, TypeStep, PTL DEF Spec

\* All variables have their types; a reservation count never goes below zero
\* and never leaks.
THEOREM TypeCorrect == Spec => []TypeOK
  BY TypeAlways, TypeInvType, PTL

\* The count of a key is the number of coroutines its backend was promised to,
\* through every error, timeout and cancellation between reserve and unreserve.
THEOREM ReservationsExact == Spec => []ReservedMatches
  BY TypeAlways, TypeInvType, PTL

----------------------------------------------------------------------------
(* Who may be taken away *)

\* Nobody is being bound to a backend of a key without a reservation.
LEMMA NoneHanded ==
  ASSUME TypeInv, NEW k \in Keys, reserved[k] = 0
  PROVE  Handed(k) = {}
<1>1. Cardinality(Handed(k)) = 0 BY DEF TypeInv, CountType, ReservedMatches
<1>2. IsFiniteSet(Handed(k)) BY HandedFinite
<1> QED BY <1>1, <1>2, FS_EmptySet

LEMMA NotInUse ==
  ASSUME TypeInv, NEW p \in Procs, Stubs(p) = {}, reserved[KeyAt[p]] = 0
  PROVE  ~InUse(p)
<1>1. KeyAt[p] \in Keys BY McpPoolAssumption
<1>2. Handed(KeyAt[p]) = {} BY <1>1, NoneHanded
<1>3. \A c \in Conns : pc[c] = "priming" /\ be[c] = p => c \in Handed(KeyAt[p])
  BY DEF TypeInv, HandType, HandKey, HasProc, Held, Handed
<1> QED BY <1>2, <1>3 DEF InUse

\* A step dooms p for one of those reasons only when it may.
Spared(p) ==
  doomed[p] = "no" /\ doomed'[p] \in {"sweep", "lru", "cred", "conn", "reap"}
    /\ status[p] = "up" /\ InUse(p) => p \in expired

LEMMA UnderLockSpares ==
  ASSUME TypeInv, NEW c \in Conns, NEW l, NEW entry, UnderLock(c, l, entry), ~Healthy(KeyOf[c]),
         NEW p \in Procs
  PROVE  Spared(p)
<1>1. CASE UNCHANGED doomed BY <1>1 DEF Spared
<1>2. CASE /\ active[KeyOf[c]] # None
           /\ doomed' = [doomed EXCEPT ![active[KeyOf[c]]] = "conn"]
  BY <1>2 DEF Spared, Healthy, TypeInv, ProcType
<1> QED BY <1>1, <1>2 DEF UnderLock

LEMMA LookupSpares ==
  ASSUME TypeInv, NEW c \in Conns, Lookup(c), NEW p \in Procs PROVE Spared(p)
<1>1. CASE UNCHANGED doomed BY <1>1 DEF Spared
<1> QED BY <1>1, UnderLockSpares DEF Lookup

LEMMA ConnSpares ==
  ASSUME TypeInv, NEW c \in Conns, Conn(c), NEW p \in Procs PROVE Spared(p)
<1>1. CASE Lookup(c) BY <1>1, LookupSpares
<1>2. CASE UNCHANGED doomed BY <1>2 DEF Spared
<1>3. CASE Woken(c) BY <1>2, <1>3, UnderLockSpares DEF Woken
<1>4. ASSUME NEW q \in Procs, Refused(c, q) PROVE Spared(p)
  BY <1>4 DEF Refused, Spared, TypeInv, ProcType
<1>5. ASSUME NEW q \in Procs, Added(c, q) PROVE Spared(p)
  <2>1. PICK V \in SUBSET {v \in Procs : Evictable(v)} : doomed' = Doom(V, "lru")
    BY <1>5 DEF Added
  <2>2. p \in V => ~InUse(p) BY <2>1, NotInUse DEF Evictable
  <2> QED BY <2>1, <2>2 DEF Spared, Doom
<1>6. CASE PrimeTimeout(c) BY <1>6 DEF PrimeTimeout, Spared, TypeInv, ProcType
<1>7. CASE Gone(c) \/ Primed(c) \/ PrimeFailed(c) \/ PrimeReaped(c) \/ Disconnect(c)
           \/ Replaced(c) \/ SpawnFail(c) \/ Discarded(c)
  BY <1>2, <1>7
  DEF Gone, Primed, PrimeFailed, PrimeReaped, Disconnect, Replaced, SpawnFail, Discarded
<1>8. Ensure(c) => Lookup(c) BY DEF Ensure
<1>9. Rebind(c) => Lookup(c) \/ UNCHANGED doomed BY DEF Rebind
<1> QED
  BY <1>1, <1>2, <1>3, <1>4, <1>5, <1>6, <1>7, <1>8, <1>9
  DEF Conn, Continue, SpawnDone, PrimeDone

LEMMA LoopsSpare == ASSUME TypeInv, Loops, NEW p \in Procs PROVE Spared(p)
<1>1. ASSUME NEW S \in SUBSET {q \in Procs : Evictable(q)}, NEW o, doomed' = Doom(S, o)
      PROVE Spared(p)
  <2>1. p \in S => ~InUse(p) BY <1>1, NotInUse DEF Evictable
  <2> QED BY <1>1, <2>1 DEF Spared, Doom
<1>2. CASE IdleSweep
  <2>1. PICK S \in SUBSET {q \in Procs : Evictable(q)} : EvictIdle(S, "sweep")
    BY <1>2 DEF IdleSweep
  <2> QED BY <1>1, <2>1 DEF EvictIdle
<1>3. CASE Rotate BY <1>1, <1>3 DEF Rotate, EvictIdle
<1>4. CASE DrainAll BY <1>4 DEF DrainAll, Spared
<1>5. CASE Probe
  <2>1. UNCHANGED doomed \/ \E q \in Procs : doomed' = Doom({q}, "beat")
    <3>1. hbAt # None => hbAt \in Procs BY DEF TypeInv, LoopType
    <3> QED BY <1>5, <3>1 DEF Probe, HbProbe, HbPinged, HbEvict
  <2> QED BY <2>1 DEF Spared, Doom
<1>6. CASE ReapDraining
  <2>1. doomed' = Doom({q \in draining : Reapable(q)}, "reap") BY <1>6 DEF ReapDraining
  <2>2. Reapable(p) => p \in expired \/ ~InUse(p) BY NotInUse DEF Reapable
  <2> QED BY <2>1, <2>2 DEF Spared, Doom
<1> QED BY <1>2, <1>3, <1>4, <1>5, <1>6 DEF Loops

\* No sweep, eviction, rotation, replacement or reaper takes a live backend from
\* a stub that uses it or is being bound to it, before the deadline of a drain.
THEOREM BackendInUseKept == Spec => InUseKept
<1> DEFINE A == \A p \in Procs :
      /\ doomed[p] = "no" /\ doomed'[p] \in {"sweep", "lru", "cred", "conn", "reap"}
      /\ status[p] = "up" /\ InUse(p)
      => p \in expired
<1>1. TypeInv /\ [Next]_vars => [A]_vars
  <2> SUFFICES ASSUME TypeInv, [Next]_vars, NEW p \in Procs PROVE Spared(p)
    BY DEF Spared
  <2>1. ASSUME NEW q \in Procs, Proc(q) PROVE Spared(p)
    BY <2>1 DEF Proc, MarkDead, Exit, ShutDown, Unpin, Deadline, Spared, TypeInv, ProcType
  <2>2. CASE Stop
    BY <2>2 DEF Stop, StopConns, StopLoops, ShutdownAll, Finish, Stopped, Cancel, Doom, vars,
                Spared, TypeInv, ProcType
  <2>3. CASE UNCHANGED vars BY <2>3 DEF vars, Spared
  <2> QED BY <2>1, <2>2, <2>3, ConnSpares, LoopsSpare DEF Next
<1> QED BY <1>1, TypeAlways, PTL DEF Spec, InUseKept

----------------------------------------------------------------------------
(* No backend is lost, none is stale *)

\* A step that starts no process, and takes none out of the tables without
\* dooming it.
Kept(p) ==
  Running(p)' =>
    /\ Running(p) /\ gen'[p] = gen[p]
    /\ doomed[p] # "no" => doomed'[p] # "no"
    /\ p \in Pooled \cup draining => p \in (Pooled \cup draining)' \/ doomed'[p] # "no"
Keeps == \A p \in Procs : Kept(p)
PoolOnlyLoses == Pooled' \subseteq Pooled /\ epoch' = epoch /\ phase' = phase

LEMMA SafeKept ==
  ASSUME TypeInv, NoStaleActive, NoLostBackend, Keeps, PoolOnlyLoses
  PROVE  NoStaleActive' /\ NoLostBackend'
<1>1. Pooled \subseteq Procs BY DEF TypeInv, TableType, Pooled
<1>2. NoStaleActive' BY <1>1 DEF NoStaleActive, Keeps, Kept, PoolOnlyLoses
<1>3. NoLostBackend' BY DEF NoLostBackend, Keeps, Kept, PoolOnlyLoses
<1> QED BY <1>2, <1>3

\* A step that leaves the tables alone and only ends or marks processes.
OnlyEnds(p) ==
  Running(p)' => Running(p) /\ gen'[p] = gen[p] /\ (doomed[p] # "no" => doomed'[p] # "no")

LEMMA TablesSame ==
  ASSUME UNCHANGED <<active, draining, epoch, phase>>, \A p \in Procs : OnlyEnds(p)
  PROVE  Keeps /\ PoolOnlyLoses
<1>1. Pooled' = Pooled /\ (Pooled \cup draining)' = Pooled \cup draining BY DEF Pooled
<1>2. \A p \in Procs : OnlyEnds(p) => Kept(p) BY <1>1 DEF Kept, OnlyEnds, Running
<1> QED BY <1>1, <1>2 DEF Keeps, PoolOnlyLoses

\* Evicting a set of backends and dooming them.
LEMMA WithoutKeeps ==
  ASSUME TypeInv, NEW S, NEW o \in Owners \ {"no"}, active' = Without(S), doomed' = Doom(S, o),
         UNCHANGED <<draining, epoch, phase, gen>>,
         \A p \in Procs : Running(p)' => Running(p)
  PROVE  Keeps /\ PoolOnlyLoses
<1>1. Pooled' = Pooled \ S BY DEF Pooled, Without, TypeInv, TableType
<1>2. \A p \in Procs : p \in S => doomed'[p] # "no" BY DEF Doom, Owners
<1>3. \A p \in Procs : p \notin S => doomed'[p] = doomed[p] BY DEF Doom
<1> QED BY <1>1, <1>2, <1>3 DEF Keeps, Kept, PoolOnlyLoses

LEMMA UnderLockKeeps ==
  ASSUME TypeInv, NEW c \in Conns, NEW l, NEW entry, UnderLock(c, l, entry),
         UNCHANGED <<draining, epoch, phase, procVars>>
  PROVE  Keeps /\ PoolOnlyLoses
<1>0. status' = status /\ gen' = gen BY DEF procVars
<1>1. CASE UNCHANGED <<active, doomed>> BY <1>0, <1>1, TablesSame DEF OnlyEnds, Running
<1>2. CASE /\ active[KeyOf[c]] # None
           /\ active' = [active EXCEPT ![KeyOf[c]] = None]
           /\ doomed' = [doomed EXCEPT ![active[KeyOf[c]]] = "conn"]
  <2> DEFINE b == active[KeyOf[c]]
  <2>1. active \in [Keys -> Procs \cup {None}] /\ doomed \in [Procs -> Owners] /\ b \in Procs
    BY <1>2, KeyOfType DEF TypeInv, TableType, ProcType
  <2>2. Pooled \ {b} \subseteq Pooled' /\ Pooled' \subseteq Pooled
    BY <1>2, <2>1, KeyOfType DEF Pooled
  <2>3. \A p \in Procs : doomed'[p] = IF p = b THEN "conn" ELSE doomed[p] BY <1>2, <2>1
  <2>4. \A p \in Procs : Running(p)' => Running(p) BY <1>0 DEF Running
  <2> QED BY <1>0, <2>2, <2>3, <2>4 DEF Keeps, Kept, PoolOnlyLoses
<1> QED BY <1>1, <1>2 DEF UnderLock

LEMMA LookupKeeps ==
  ASSUME TypeInv, NEW c \in Conns, Lookup(c), UNCHANGED <<draining, epoch, phase, procVars>>
  PROVE  Keeps /\ PoolOnlyLoses
<1>1. CASE UNCHANGED <<active, doomed>> BY <1>1, TablesSame DEF OnlyEnds, Running, procVars
<1>2. CASE \E l \in Locks : UnderLock(c, l, l) BY <1>2, UnderLockKeeps
<1> QED BY <1>1, <1>2 DEF Lookup

\* Refused and Added start a process, and only they do.
LEMMA ConnKeeps ==
  ASSUME TypeInv, NEW c \in Conns, Conn(c),
         ~ \E p \in Procs : Refused(c, p) \/ Added(c, p)
  PROVE  Keeps /\ PoolOnlyLoses
<1>1. CASE Ensure(c) BY <1>1, LookupKeeps DEF Ensure
<1>2. CASE Woken(c)
  <2>0. UNCHANGED <<draining, epoch, phase, procVars>> BY <1>2 DEF Woken
  <2>1. CASE UNCHANGED <<active, doomed>> BY <2>0, <2>1, TablesSame DEF OnlyEnds, Running, procVars
  <2>2. CASE \E l \in Locks : UnderLock(c, l, spawnLock[KeyOf[c]])
    BY <2>0, <2>2, UnderLockKeeps
  <2> QED BY <1>2, <2>1, <2>2 DEF Woken
<1>3. CASE Rebind(c)
  <2>0. UNCHANGED <<draining, epoch, phase, procVars>> BY <1>3 DEF Rebind
  <2>1. CASE Lookup(c) BY <2>0, <2>1, LookupKeeps
  <2>2. CASE UNCHANGED <<active, doomed>> BY <2>0, <2>2, TablesSame DEF OnlyEnds, Running, procVars
  <2> QED BY <1>3, <2>1, <2>2 DEF Rebind
<1>4. CASE Replaced(c) \/ SpawnFail(c) \/ Discarded(c) \/ Gone(c) \/ Primed(c) \/ PrimeFailed(c)
           \/ PrimeReaped(c)
  <2>1. UNCHANGED <<active, draining, epoch, phase, procVars, doomed>>
    BY <1>4 DEF Replaced, SpawnFail, Discarded, Gone, Primed, PrimeFailed, PrimeReaped, poolVars
  <2> QED BY <2>1, TablesSame DEF OnlyEnds, Running, procVars
<1>5. CASE PrimeTimeout(c)
  <2>1. UNCHANGED <<active, draining, epoch, phase, gen>> BY <1>5 DEF PrimeTimeout, poolVars
  <2>2. \A p \in Procs : Running(p)' => Running(p)
    BY <1>5 DEF PrimeTimeout, Running, TypeInv, ProcType
  <2>3. \A p \in Procs : doomed[p] # "no" => doomed'[p] # "no"
    BY <1>5 DEF PrimeTimeout, TypeInv, ProcType
  <2> QED BY <2>1, <2>2, <2>3, TablesSame DEF OnlyEnds
<1>6. CASE Disconnect(c)
  <2>1. UNCHANGED <<active, draining, epoch, phase, gen, doomed>> BY <1>6 DEF Disconnect, poolVars
  <2>2. \A p \in Procs : Running(p)' => Running(p)
    BY <1>6 DEF Disconnect, Running, TypeInv, ProcType
  <2> QED BY <2>1, <2>2, TablesSame DEF OnlyEnds
<1> QED
  BY <1>1, <1>2, <1>3, <1>4, <1>5, <1>6 DEF Conn, Continue, SpawnDone, PrimeDone

LEMMA ProcKeeps == ASSUME TypeInv, NEW p \in Procs, Proc(p) PROVE Keeps /\ PoolOnlyLoses
<1>1. UNCHANGED <<active, draining, epoch, phase>>
  BY DEF Proc, MarkDead, Exit, ShutDown, Unpin, Deadline, poolVars
<1>2. CASE MarkDead(p) BY <1>1, <1>2, TablesSame DEF OnlyEnds, MarkDead, Running, TypeInv, ProcType
<1>3. CASE Exit(p) BY <1>1, <1>3, TablesSame DEF OnlyEnds, Exit, Running, TypeInv, ProcType
<1>4. CASE ShutDown(p) BY <1>1, <1>4, TablesSame DEF OnlyEnds, ShutDown, Running, TypeInv, ProcType
<1>5. CASE Unpin(p) \/ Deadline(p)
  BY <1>1, <1>5, TablesSame DEF OnlyEnds, Unpin, Deadline, Running, procVars
<1> QED BY <1>2, <1>3, <1>4, <1>5 DEF Proc

LEMMA HbEvictKeeps ==
  ASSUME TypeInv, NEW p \in Procs, HbEvict(p) \/ UNCHANGED <<active, spawnLock, doomed>>,
         UNCHANGED <<draining, epoch, phase, gen>>,
         \A q \in Procs : Running(q)' => Running(q)
  PROVE  Keeps /\ PoolOnlyLoses
<1>1. CASE active' = Without({p}) /\ doomed' = Doom({p}, "beat")
  BY <1>1, WithoutKeeps DEF Owners
<1>2. CASE UNCHANGED <<active, doomed>> BY <1>2, TablesSame DEF OnlyEnds
<1> QED BY <1>1, <1>2 DEF HbEvict

LEMMA LoopsKeep == ASSUME TypeInv, Loops, ~DrainAll PROVE Keeps /\ PoolOnlyLoses
<1>1. CASE IdleSweep \/ Rotate
  <2>1. ASSUME NEW S, NEW o \in {"sweep", "cred"}, EvictIdle(S, o)
        PROVE Keeps /\ PoolOnlyLoses
    <3>1. o \in Owners \ {"no"} BY <2>1 DEF Owners
    <3>2. phase' = phase BY <1>1 DEF IdleSweep, Rotate
    <3> QED BY <2>1, <3>1, <3>2, WithoutKeeps DEF EvictIdle, procVars, Running
  <2>2. CASE IdleSweep
    <3>1. PICK S \in SUBSET Procs : EvictIdle(S, "sweep") BY <2>2 DEF IdleSweep
    <3> QED BY <2>1, <3>1
  <2>3. CASE Rotate
    <3>1. EvictIdle({p \in Procs : Evictable(p)}, "cred") BY <2>3 DEF Rotate
    <3> QED BY <2>1, <3>1
  <2> QED BY <1>1, <2>2, <2>3
<1>2. ASSUME NEW p \in Procs, HbProbe(p) PROVE Keeps /\ PoolOnlyLoses
  <2>1. \A q \in Procs : Running(q)' => Running(q)
    BY <1>2 DEF HbProbe, Running, TypeInv, ProcType
  <2> QED BY <1>2, <2>1, HbEvictKeeps DEF HbProbe
<1>3. CASE HbPinged
  <2>1. \A q \in Procs : Running(q)' => Running(q)
    BY <1>3 DEF HbPinged, Running, TypeInv, ProcType
  <2>2. hbAt \in Procs BY <1>3 DEF HbPinged, TypeInv, LoopType
  <2> QED BY <1>3, <2>1, <2>2, HbEvictKeeps DEF HbPinged
<1>4. CASE ReapDraining
  <2> DEFINE R == {p \in draining : Reapable(p)}
  <2>1. draining' = draining \ R /\ doomed' = Doom(R, "reap") BY <1>4 DEF ReapDraining
  <2>2. UNCHANGED <<active, epoch, phase, status, gen>> BY <1>4 DEF ReapDraining, procVars
  <2> HIDE DEF R
  <2>3. Pooled' = Pooled BY <2>2 DEF Pooled
  <2>4. \A p \in Procs : doomed'[p] = IF p \in R THEN "reap" ELSE doomed[p] BY <2>1 DEF Doom
  <2> QED BY <2>1, <2>2, <2>3, <2>4 DEF Keeps, Kept, PoolOnlyLoses, Running
<1> QED BY <1>1, <1>2, <1>3, <1>4 DEF Loops, Probe

LEMMA StartedSafe ==
  ASSUME TypeInv, NoStaleActive, NoLostBackend, NEW c \in Conns, NEW p \in Procs, Spawned(c, p),
         UNCHANGED <<draining, epoch, phase>>,
         \A q \in Procs \ {p} :
           /\ doomed[q] # "no" => doomed'[q] # "no"
           /\ q \in Pooled => q \in Pooled' \/ doomed'[q] # "no",
         Pooled' \subseteq Pooled \cup {p}, p \in Pooled' => seen[c] = epoch,
         p \in Pooled' \/ doomed'[p] # "no"
  PROVE  NoStaleActive' /\ NoLostBackend'
<1>1. status \in [Procs -> {"up", "marked", "exited"}] /\ gen \in [Procs -> 0..MaxDrains]
      /\ Pooled \subseteq Procs
  BY DEF TypeInv, ProcType, TableType, Pooled
<1>2. \A q \in Procs \ {p} : (Running(q)' <=> Running(q)) /\ gen'[q] = gen[q]
  BY <1>1 DEF Spawned, Running
<1>3. gen'[p] = seen[c] BY <1>1 DEF Spawned
<1>4. NoStaleActive' BY <1>1, <1>2, <1>3 DEF NoStaleActive
<1>5. NoLostBackend' BY <1>2 DEF NoLostBackend
<1> QED BY <1>4, <1>5

LEMMA RefusedSafe ==
  ASSUME TypeInv, NoStaleActive, NoLostBackend, NEW c \in Conns, NEW p \in Procs, Refused(c, p)
  PROVE  NoStaleActive' /\ NoLostBackend'
<1>1. Spawned(c, p) /\ UNCHANGED <<active, draining, epoch, phase>> BY DEF Refused, poolVars
<1>2. Pooled' = Pooled BY <1>1 DEF Pooled
<1>3. p \notin Pooled BY <1>1 DEF Spawned, Unreferenced
<1>4. \A q \in Procs : doomed'[q] = IF q = p THEN "shield" ELSE doomed[q]
  BY DEF Refused, TypeInv, ProcType
<1> QED BY <1>1, <1>2, <1>3, <1>4, StartedSafe

LEMMA AddedSafe ==
  ASSUME TypeInv, NoStaleActive, NoLostBackend, NEW c \in Conns, NEW p \in Procs, Added(c, p)
  PROVE  NoStaleActive' /\ NoLostBackend'
<1>1. Spawned(c, p) /\ UNCHANGED <<draining, epoch, phase>> /\ seen[c] = epoch
      /\ active[KeyOf[c]] = None
  BY DEF Added, Admissible, Vacant
<1>2. PICK V \in SUBSET Procs :
        active' = [Without(V) EXCEPT ![KeyOf[c]] = p] /\ doomed' = Doom(V, "lru")
  BY DEF Added
<1>3. active \in [Keys -> Procs \cup {None}] /\ KeyOf[c] \in Keys /\ None \notin Procs
  BY KeyOfType, McpPoolAssumption DEF TypeInv, TableType
<1>4. \A k \in Keys : active'[k] = IF k = KeyOf[c] THEN p
                                   ELSE IF active[k] \in V THEN None ELSE active[k]
  BY <1>2, <1>3 DEF Without
<1>5. Pooled' \subseteq Pooled \cup {p} /\ p \in Pooled' BY <1>3, <1>4 DEF Pooled
<1>6. \A q \in Pooled \ V : q \in Pooled'
  <2> TAKE q \in Pooled \ V
  <2>1. PICK k \in Keys : q = active[k] /\ q # None BY DEF Pooled
  <2>2. k # KeyOf[c] /\ active'[k] = q BY <1>1, <1>4, <2>1
  <2> QED BY <2>1, <2>2 DEF Pooled
<1>7. \A q \in Procs : doomed'[q] = IF q \in V THEN "lru" ELSE doomed[q] BY <1>2 DEF Doom
<1> QED BY <1>1, <1>5, <1>6, <1>7, StartedSafe

LEMMA SafeStep ==
  ASSUME TypeInv, NoStaleActive, NoLostBackend, [Next]_vars
  PROVE  NoStaleActive' /\ NoLostBackend'
<1>1. ASSUME NEW c \in Conns, Conn(c) PROVE NoStaleActive' /\ NoLostBackend'
  <2>1. CASE \E p \in Procs : Refused(c, p) \/ Added(c, p) BY <2>1, RefusedSafe, AddedSafe
  <2>2. CASE ~ \E p \in Procs : Refused(c, p) \/ Added(c, p)
    BY <1>1, <2>2, ConnKeeps, SafeKept
  <2> QED BY <2>1, <2>2
<1>2. CASE \E p \in Procs : Proc(p) BY <1>2, ProcKeeps, SafeKept
<1>3. CASE Loops
  <2>1. CASE DrainAll
    <3>1. Pooled' = {} BY <2>1 DEF DrainAll, Pooled
    <3>2. draining' = draining \cup Pooled /\ UNCHANGED <<phase, procVars, doomed>>
      BY <2>1 DEF DrainAll
    <3> QED BY <3>1, <3>2 DEF NoStaleActive, NoLostBackend, procVars, Running
  <2> QED BY <1>3, <2>1, LoopsKeep, SafeKept
<1>4. CASE Stop
  <2>1. CASE UNCHANGED vars
    <3>1. UNCHANGED <<active, draining, epoch, phase, status, gen, doomed>> BY <2>1 DEF vars
    <3> QED BY <3>1, TablesSame, SafeKept DEF OnlyEnds, Running
  <2>2. CASE StopConns \/ StopLoops
    <3>1. UNCHANGED <<active, epoch, status, gen>> /\ phase' # "run"
      BY <2>2 DEF StopConns, StopLoops, Cancel, procVars
    <3> QED BY <3>1 DEF NoStaleActive, NoLostBackend, Pooled, Running
  <2>3. CASE ShutdownAll
    <3>1. Pooled' = {} /\ phase' # "run" BY <2>3 DEF ShutdownAll, Pooled
    <3> QED BY <3>1 DEF NoStaleActive, NoLostBackend
  <2>4. CASE Finish
    <3>1. UNCHANGED <<active, epoch, status, gen>> /\ phase' # "run"
      BY <2>4 DEF Finish, poolVars, procVars
    <3> QED BY <3>1 DEF NoStaleActive, NoLostBackend, Pooled, Running
  <2> QED BY <1>4, <2>1, <2>2, <2>3, <2>4 DEF Stop, Stopped
<1>5. CASE UNCHANGED vars
  <2>1. UNCHANGED <<active, draining, epoch, phase, status, gen, doomed>> BY <1>5 DEF vars
  <2> QED BY <2>1, TablesSame, SafeKept DEF OnlyEnds, Running
<1> QED BY <1>1, <1>2, <1>3, <1>4, <1>5 DEF Next

LEMMA SafeAlways == Spec => [](NoStaleActive /\ NoLostBackend)
<1>1. Init => NoStaleActive /\ NoLostBackend
  BY DEF Init, NoStaleActive, NoLostBackend, Pooled, Running
<1>2. TypeInv /\ NoStaleActive /\ NoLostBackend /\ [Next]_vars
        => (NoStaleActive /\ NoLostBackend)'
  BY SafeStep
<1> QED BY <1>1, <1>2, TypeAlways, PTL DEF Spec

\* Every backend in the table carries the credential of the last rotation,
\* however a rotation and its spawn interleaved.
THEOREM PoolIsFresh == Spec => []NoStaleActive
  BY SafeAlways, PTL

\* While the daemon runs, every running backend is in a table or being shut down.
THEOREM NoneLost == Spec => []NoLostBackend
  BY SafeAlways, PTL
=============================================================================
