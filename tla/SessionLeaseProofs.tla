------------------------ MODULE SessionLeaseProofs ------------------------
(* Theorems about SessionLease for every value of its constants. *)
EXTENDS SessionLease, FiniteSetTheorems, TLAPS

TypeInv == TypeOK /\ CallOK

USE DEF OptProv, OptKey, Waiting, Checking, Holding

LEMMA FoldType == ASSUME NEW k \in Keys PROVE Fold(k) \in Keys
  BY KeyAssumption DEF Fold

\* get_or_create raising leaves a call well formed.
LEMMA FailType ==
  ASSUME TypeInv, NEW c \in Callers, Fail(c), pc[c] # "idle"
  PROVE  /\ pc' \in [Callers -> {"idle", "enter", "cold", "starting", "reap"}
                                 \cup Waiting \cup Checking \cup Holding]
         /\ ukey' \in [Callers -> OptKey] /\ key' \in [Callers -> OptKey]
         /\ sess' \in [Callers -> OptProv] /\ mine' \in [Callers -> OptProv]
         /\ tries' \in [Callers -> 0..MaxRetries]
         /\ CallOK'
  BY CallerAssumption DEF TypeInv, TypeOK, CallOK, Fail, Goto

LEMMA InitType == Init => TypeInv
  BY CallerAssumption DEF Init, TypeInv, TypeOK, CallOK

LEMMA TypeStep == TypeInv /\ [Next]_vars => TypeInv'
<1> SUFFICES ASSUME TypeInv, [Next]_vars PROVE TypeInv' OBVIOUS
<1> USE KeyAssumption, CallerAssumption DEF TypeInv, TypeOK, CallOK,
        callVars, compVars, closeVars, Goto, Take, Give, Pop, Shutdown
<1>1. ASSUME NEW c \in Callers, NEW k \in Keys, Call(c, k) PROVE TypeInv'
  BY <1>1 DEF Call
<1>2. ASSUME NEW c \in Callers, NEW k \in Keys, TryAcquire(c, k) PROVE TypeInv'
  BY <1>2 DEF TryAcquire, Locked
<1>3. ASSUME NEW c \in Callers, EntryRefused(c) PROVE TypeInv'
  BY <1>3, FailType DEF EntryRefused
<1>4. ASSUME NEW c \in Callers, EntryReuse(c) PROVE TypeInv'
  BY <1>4, FoldType DEF EntryReuse, MayEnter
<1>5. ASSUME NEW c \in Callers, EntryCold(c) PROVE TypeInv'
  BY <1>5, FoldType DEF EntryCold, MayEnter
<1>6. ASSUME NEW c \in Callers, EntryEvict(c) PROVE TypeInv'
  BY <1>6, FoldType DEF EntryEvict, MayEnter
<1>7. ASSUME NEW c \in Callers, Acquire(c) PROVE TypeInv'
  BY <1>7 DEF Acquire
<1>8. ASSUME NEW c \in Callers, ValidateOk(c) PROVE TypeInv'
  BY <1>8 DEF ValidateOk
<1>9. ASSUME NEW c \in Callers, ValidateStale(c) PROVE TypeInv'
  BY <1>9 DEF ValidateStale, EvictIfOurs
<1>10. ASSUME NEW c \in Callers, ValidateRetry(c) PROVE TypeInv'
  BY <1>10 DEF ValidateRetry, EvictIfOurs
<1>11. ASSUME NEW c \in Callers, ValidateGiveUp(c) PROVE TypeInv'
  BY <1>11, FailType DEF ValidateGiveUp, EvictIfOurs
<1>12. ASSUME NEW c \in Callers, ColdStart(c) PROVE TypeInv'
  BY <1>12 DEF ColdStart
<1>13. ASSUME NEW c \in Callers, StartFails(c) PROVE TypeInv'
  BY <1>13, FailType DEF StartFails
<1>14. ASSUME NEW c \in Callers, Register(c) PROVE TypeInv'
  BY <1>14 DEF Register
<1>15. ASSUME NEW c \in Callers, RegisterLost(c) PROVE TypeInv'
  BY <1>15 DEF RegisterLost, LostRace
<1>16. ASSUME NEW c \in Callers, Reaped(c) PROVE TypeInv'
  BY <1>16 DEF Reaped
<1>17. ASSUME NEW c \in Callers, Cancel(c) PROVE TypeInv'
  BY <1>17, FailType DEF Cancel
<1>18. ASSUME NEW c \in Callers, BeginTurn(c) \/ SkipTurn(c) \/ EndTurn(c) PROVE TypeInv'
  BY <1>18 DEF BeginTurn, SkipTurn, EndTurn
<1>19. ASSUME NEW c \in Callers, Release(c) PROVE TypeInv'
  BY <1>19, FoldType DEF Release
<1>20. ASSUME NEW k \in Keys, CompactNext(k) PROVE TypeInv'
  BY <1>20 DEF CompactNext, CompactStart, CompactAcquire, CompactBusy, CompactDone,
     CompactFailed, RecyclePop, RecycleDone, CompGoto, CompOff
<1>21. ASSUME NEW k \in Keys, ForceReset(k) \/ IdleReset(k) PROVE TypeInv'
  BY <1>21, FoldType DEF ForceReset, IdleReset
<1>22. ASSUME NEW p \in Provs, Crash(p) \/ ProcExit(p) PROVE TypeInv'
  BY <1>22 DEF Crash, ProcExit
<1>23. CASE CloseBegin \/ CloseClear
  BY <1>23 DEF CloseBegin, CloseClear, OpenTurns
<1>24. CASE CloseCancel
  <2> DEFINE owns(p) == {k \in Keys : csess[k] = p /\ comp[k] \in {"compact", "marked", "reap"}}
  <2>1. ASSUME NEW p \in Provs PROVE Cardinality(owns(p)) \in Nat
    BY FS_Subset, FS_CardinalityType
  <2>2. sem' = [p \in Provs |-> sem[p] + Cardinality(owns(p))]
    BY <1>24 DEF CloseCancel
  <2> HIDE DEF owns
  <2>3. sem' \in [Provs -> Nat]
    BY <2>1, <2>2
  <2> QED BY <1>24, <2>3 DEF CloseCancel
<1>25. CASE UNCHANGED vars
  BY <1>25 DEF vars
<1> QED
  BY <1>1, <1>2, <1>3, <1>4, <1>5, <1>6, <1>7, <1>8, <1>9, <1>10, <1>11, <1>12, <1>13,
     <1>14, <1>15, <1>16, <1>17, <1>18, <1>19, <1>20, <1>21, <1>22, <1>23, <1>24, <1>25
     DEF Next, CallerNext

\* Every variable keeps its type and every running call works on real keys
\* and sessions, whatever faults occur (SessionManager's data model).
THEOREM TypeCorrect == Spec => [](TypeOK /\ CallOK)
<1>1. Init => TypeInv BY InitType
<1>2. TypeInv /\ [Next]_vars => TypeInv' BY TypeStep
<1> QED BY <1>1, <1>2, PTL DEF Spec, TypeInv

----------------------------------------------------------------------------
(* Ownership: who may refer to a provider, under every fault *)

RefInv == TypeInv /\ OwnInv /\ CompInv

LEMMA InitRef == Init => RefInv
  BY InitType, KeyAssumption DEF Init, RefInv, OwnInv, CompInv

LEMMA RefStep == RefInv /\ [Next]_vars => RefInv'
<1> SUFFICES ASSUME RefInv, [Next]_vars PROVE RefInv' OBVIOUS
<1>0. TypeInv' /\ TypeInv BY TypeStep DEF RefInv
<1> SUFFICES OwnInv' /\ CompInv' BY <1>0 DEF RefInv
<1> USE <1>0, KeyAssumption, CallerAssumption DEF RefInv, TypeInv, TypeOK, CallOK,
        callVars, compVars, closeVars, Goto, Take, Give, Pop, Shutdown, Fail
<1>1. ASSUME NEW c \in Callers, NEW k \in Keys, Call(c, k) \/ TryAcquire(c, k)
      PROVE OwnInv' /\ CompInv'
  BY <1>1 DEF Call, TryAcquire, OwnInv, CompInv
<1>2. ASSUME NEW c \in Callers, EntryRefused(c) \/ EntryCold(c) \/ EntryEvict(c)
      PROVE OwnInv' /\ CompInv'
  BY <1>2, FoldType DEF EntryRefused, EntryCold, EntryEvict, MayEnter, OwnInv, CompInv
<1>3. ASSUME NEW c \in Callers, EntryReuse(c) PROVE OwnInv' /\ CompInv'
  BY <1>3, FoldType DEF EntryReuse, MayEnter, OwnInv, CompInv
<1>4. ASSUME NEW c \in Callers, Acquire(c) \/ ValidateOk(c) PROVE OwnInv' /\ CompInv'
  BY <1>4 DEF Acquire, ValidateOk, OwnInv, CompInv
<1>5. ASSUME NEW c \in Callers, ValidateStale(c) \/ ValidateRetry(c) \/ ValidateGiveUp(c)
      PROVE OwnInv' /\ CompInv'
  <2>1. OwnInv'
    BY <1>5 DEF ValidateStale, ValidateRetry, ValidateGiveUp, EvictIfOurs, OwnInv
  <2>2. CompInv'
    BY <1>5 DEF ValidateStale, ValidateRetry, ValidateGiveUp, CompInv
  <2> QED BY <2>1, <2>2
<1>6. ASSUME NEW c \in Callers, ColdStart(c) PROVE OwnInv' /\ CompInv'
  BY <1>6 DEF ColdStart, Collected, OwnInv, CompInv
<1>7. ASSUME NEW c \in Callers, StartFails(c) PROVE OwnInv' /\ CompInv'
  BY <1>7 DEF StartFails, OwnInv, CompInv
<1>8. ASSUME NEW c \in Callers, Register(c) PROVE OwnInv' /\ CompInv'
  BY <1>8 DEF Register, OwnInv, CompInv
<1>9. ASSUME NEW c \in Callers, RegisterLost(c) PROVE OwnInv' /\ CompInv'
  BY <1>9 DEF RegisterLost, LostRace, OwnInv, CompInv
<1>10. ASSUME NEW c \in Callers, Reaped(c) PROVE OwnInv' /\ CompInv'
  BY <1>10 DEF Reaped, OwnInv, CompInv
<1>11. ASSUME NEW c \in Callers, Cancel(c) PROVE OwnInv' /\ CompInv'
  BY <1>11 DEF Cancel, OwnInv, CompInv
<1>12. ASSUME NEW c \in Callers, BeginTurn(c) \/ SkipTurn(c) \/ EndTurn(c) \/ Release(c)
       PROVE OwnInv' /\ CompInv'
  BY <1>12 DEF BeginTurn, SkipTurn, EndTurn, Release, OwnInv, CompInv
<1>13. ASSUME NEW k \in Keys, CompactStart(k) PROVE OwnInv' /\ CompInv'
  BY <1>13 DEF CompactStart, CompGoto, OwnInv, CompInv
<1>14. ASSUME NEW k \in Keys,
              CompactAcquire(k) \/ CompactBusy(k) \/ CompactDone(k) \/ CompactFailed(k)
       PROVE OwnInv' /\ CompInv'
  <2> USE DEF CompGoto, CompOff
  <2>1. CASE CompactAcquire(k)
    <3>1. OwnInv' BY <2>1 DEF CompactAcquire, OwnInv
    <3>2. CompInv' BY <2>1 DEF CompactAcquire, CompInv
    <3> QED BY <3>1, <3>2
  <2>2. CASE CompactBusy(k)
    BY <2>2 DEF CompactBusy, OwnInv, CompInv
  <2>3. CASE CompactDone(k)
    BY <2>3 DEF CompactDone, OwnInv, CompInv
  <2>4. CASE CompactFailed(k)
    BY <2>4 DEF CompactFailed, OwnInv, CompInv
  <2> QED BY <1>14, <2>1, <2>2, <2>3, <2>4
<1>15. ASSUME NEW k \in Keys, RecyclePop(k) \/ RecycleDone(k) PROVE OwnInv' /\ CompInv'
  <2> USE DEF CompGoto, CompOff
  <2>1. CASE RecyclePop(k)
    <3>1. OwnInv' BY <2>1 DEF RecyclePop, OwnInv, CompInv
    <3>2. CompInv' BY <2>1 DEF RecyclePop, CompInv
    <3> QED BY <3>1, <3>2
  <2>2. CASE RecycleDone(k)
    BY <2>2 DEF RecycleDone, OwnInv, CompInv
  <2> QED BY <1>15, <2>1, <2>2
<1>16. ASSUME NEW k \in Keys, ForceReset(k) \/ IdleReset(k) PROVE OwnInv' /\ CompInv'
  BY <1>16, FoldType DEF ForceReset, IdleReset, OwnInv, CompInv
<1>17. ASSUME NEW p \in Provs, Crash(p) \/ ProcExit(p) PROVE OwnInv' /\ CompInv'
  BY <1>17 DEF Crash, ProcExit, OwnInv, CompInv
<1>18. CASE CloseBegin \/ CloseCancel
  BY <1>18 DEF CloseBegin, CloseCancel, OwnInv, CompInv
<1>19. CASE CloseClear
  BY <1>19 DEF CloseClear, Registered, OwnInv, CompInv
<1>20. CASE UNCHANGED vars
  BY <1>20 DEF vars, OwnInv, CompInv
<1> QED
  BY <1>1, <1>2, <1>3, <1>4, <1>5, <1>6, <1>7, <1>8, <1>9, <1>10, <1>11, <1>12, <1>13,
     <1>14, <1>15, <1>16, <1>17, <1>18, <1>19, <1>20 DEF Next, CallerNext, CompactNext

LEMMA RefAlways == Spec => []RefInv
<1>1. Init => RefInv BY InitRef
<1>2. RefInv /\ [Next]_vars => RefInv' BY RefStep
<1> QED BY <1>1, <1>2, PTL DEF Spec

\* At every moment a provider that has been started and not yet registered is
\* known to its starter alone, a session has one key, and the recycling mark
\* names the session its recycler holds (get_or_create, _compact_session).
THEOREM OwnershipKept == Spec => [](OwnInv /\ CompInv)
BY RefAlways, PTL DEF RefInv

----------------------------------------------------------------------------
(* Safety under every fault *)

LEMMA ReapStep == RefInv /\ RegisteredNotReaped /\ [Next]_vars => RegisteredNotReaped'
<1> SUFFICES ASSUME RefInv /\ RegisteredNotReaped, [Next]_vars PROVE RegisteredNotReaped' OBVIOUS
<1>0. RefInv' BY RefStep
<1> USE <1>0, KeyAssumption, CallerAssumption DEF RefInv, TypeInv, TypeOK, CallOK,
        callVars, compVars, closeVars, Goto, Take, Give, Pop, Shutdown, Fail, Registered
<1>1. ASSUME NEW c \in Callers, NEW k \in Keys, Call(c, k) \/ TryAcquire(c, k) PROVE RegisteredNotReaped'
  BY <1>1 DEF Call, TryAcquire, RegisteredNotReaped, OwnInv, CompInv
<1>2. ASSUME NEW c \in Callers, EntryRefused(c) \/ EntryReuse(c) \/ EntryCold(c)
       PROVE RegisteredNotReaped'
  BY <1>2, FoldType DEF EntryRefused, EntryReuse, EntryCold, MayEnter, RegisteredNotReaped, OwnInv, CompInv
<1>3. ASSUME NEW c \in Callers, EntryEvict(c) PROVE RegisteredNotReaped'
  BY <1>3, FoldType DEF EntryEvict, MayEnter, RegisteredNotReaped, OwnInv, CompInv
<1>4. ASSUME NEW c \in Callers, Acquire(c) \/ ValidateOk(c) PROVE RegisteredNotReaped'
  BY <1>4 DEF Acquire, ValidateOk, RegisteredNotReaped, OwnInv, CompInv
<1>5. ASSUME NEW c \in Callers, ValidateStale(c) \/ ValidateRetry(c) \/ ValidateGiveUp(c)
       PROVE RegisteredNotReaped'
  BY <1>5 DEF ValidateStale, ValidateRetry, ValidateGiveUp, EvictIfOurs, StillValid, RegisteredNotReaped, OwnInv, CompInv
<1>6. ASSUME NEW c \in Callers, ColdStart(c) PROVE RegisteredNotReaped'
  BY <1>6 DEF ColdStart, Collected, RegisteredNotReaped, OwnInv, CompInv
<1>7. ASSUME NEW c \in Callers, StartFails(c) PROVE RegisteredNotReaped'
  BY <1>7 DEF StartFails, RegisteredNotReaped, OwnInv, CompInv
<1>8. ASSUME NEW c \in Callers, Register(c) PROVE RegisteredNotReaped'
  BY <1>8 DEF Register, LostRace, RegisteredNotReaped, OwnInv, CompInv
<1>9. ASSUME NEW c \in Callers, RegisterLost(c) PROVE RegisteredNotReaped'
  BY <1>9 DEF RegisterLost, LostRace, RegisteredNotReaped, OwnInv, CompInv
<1>10. ASSUME NEW c \in Callers, Reaped(c) PROVE RegisteredNotReaped'
  BY <1>10 DEF Reaped, RegisteredNotReaped, OwnInv, CompInv
<1>11. ASSUME NEW c \in Callers, Cancel(c) PROVE RegisteredNotReaped'
  BY <1>11 DEF Cancel, RegisteredNotReaped, OwnInv, CompInv
<1>12. ASSUME NEW c \in Callers, BeginTurn(c) \/ SkipTurn(c) \/ EndTurn(c) \/ Release(c)
       PROVE RegisteredNotReaped'
  BY <1>12 DEF BeginTurn, SkipTurn, EndTurn, Release, RegisteredNotReaped, OwnInv, CompInv
<1>13. ASSUME NEW k \in Keys, CompactStart(k) \/ CompactBusy(k) \/ CompactDone(k) \/ CompactFailed(k)
       PROVE RegisteredNotReaped'
  BY <1>13 DEF CompactStart, CompactBusy, CompactDone, CompactFailed, CompGoto, CompOff, RegisteredNotReaped, OwnInv, CompInv
<1>14. ASSUME NEW k \in Keys, CompactAcquire(k) PROVE RegisteredNotReaped'
  BY <1>14 DEF CompactAcquire, CompGoto, CompOff, RegisteredNotReaped, OwnInv, CompInv
<1>15. ASSUME NEW k \in Keys, RecyclePop(k) PROVE RegisteredNotReaped'
  BY <1>15 DEF RecyclePop, CompGoto, CompOff, RegisteredNotReaped, OwnInv, CompInv
<1>16. ASSUME NEW k \in Keys, RecycleDone(k) PROVE RegisteredNotReaped'
  BY <1>16 DEF RecycleDone, CompGoto, CompOff, RegisteredNotReaped, OwnInv, CompInv
<1>17. ASSUME NEW k \in Keys, ForceReset(k) \/ IdleReset(k) PROVE RegisteredNotReaped'
  BY <1>17, FoldType DEF ForceReset, IdleReset, RegisteredNotReaped, OwnInv, CompInv
<1>18. ASSUME NEW p \in Provs, Crash(p) \/ ProcExit(p) PROVE RegisteredNotReaped'
  BY <1>18 DEF Crash, ProcExit, RegisteredNotReaped, OwnInv, CompInv
<1>19. CASE CloseBegin
  BY <1>19 DEF CloseBegin, OpenTurns, RegisteredNotReaped, OwnInv, CompInv
<1>20. CASE CloseCancel
  BY <1>20 DEF CloseCancel, RegisteredNotReaped, OwnInv, CompInv
<1>21. CASE CloseClear
  BY <1>21 DEF CloseClear, RegisteredNotReaped, OwnInv, CompInv
<1>22. CASE UNCHANGED vars
  BY <1>22 DEF vars, RegisteredNotReaped, OwnInv, CompInv
<1> QED
  BY <1>1, <1>2, <1>3, <1>4, <1>5, <1>6, <1>7, <1>8, <1>9, <1>10, <1>11, <1>12, <1>13, <1>14, <1>15, <1>16, <1>17, <1>18, <1>19, <1>20, <1>21, <1>22
     DEF Next, CallerNext, CompactNext

\* No session is in the registry while its provider is being shut down, so
\* get_or_create never hands out a session whose teardown is under way.
THEOREM RegistryServesNoReaped == Spec => []RegisteredNotReaped
<1>1. Init => RefInv /\ RegisteredNotReaped
  BY InitRef DEF Init, RegisteredNotReaped
<1>2. RefInv /\ RegisteredNotReaped /\ [Next]_vars => (RefInv /\ RegisteredNotReaped)'
  BY RefStep, ReapStep
<1> QED BY <1>1, <1>2, PTL DEF Spec

LEMMA OrphanStep == RefInv /\ NoOrphan /\ [Next]_vars => NoOrphan'
<1> SUFFICES ASSUME RefInv /\ NoOrphan, [Next]_vars PROVE NoOrphan' OBVIOUS
<1>0. RefInv' BY RefStep
<1> USE <1>0, KeyAssumption, CallerAssumption DEF RefInv, TypeInv, TypeOK, CallOK,
        callVars, compVars, closeVars, Goto, Take, Give, Pop, Shutdown, Fail, Registered
<1>1. ASSUME NEW c \in Callers, NEW k \in Keys, Call(c, k) \/ TryAcquire(c, k) PROVE NoOrphan'
  BY <1>1 DEF Call, TryAcquire, NoOrphan, OwnInv, CompInv
<1>2. ASSUME NEW c \in Callers, EntryRefused(c) \/ EntryReuse(c) \/ EntryCold(c)
       PROVE NoOrphan'
  BY <1>2, FoldType DEF EntryRefused, EntryReuse, EntryCold, MayEnter, NoOrphan, OwnInv, CompInv
<1>3. ASSUME NEW c \in Callers, EntryEvict(c) PROVE NoOrphan'
  BY <1>3, FoldType DEF EntryEvict, MayEnter, NoOrphan, OwnInv, CompInv
<1>4. ASSUME NEW c \in Callers, Acquire(c) \/ ValidateOk(c) PROVE NoOrphan'
  <2>1. \A d \in Callers : pc[d] = "starting" => pc'[d] = "starting"
    BY <1>4 DEF Acquire, ValidateOk
  <2>2. UNCHANGED <<sessions, proc, recycling, phase, mine>>
    BY <1>4 DEF Acquire, ValidateOk
  <2> QED BY <2>1, <2>2 DEF NoOrphan
<1>5. ASSUME NEW c \in Callers, ValidateStale(c) \/ ValidateRetry(c) \/ ValidateGiveUp(c)
       PROVE NoOrphan'
  BY <1>5 DEF ValidateStale, ValidateRetry, ValidateGiveUp, EvictIfOurs, StillValid, NoOrphan, OwnInv, CompInv
<1>6. ASSUME NEW c \in Callers, ColdStart(c) PROVE NoOrphan'
  BY <1>6 DEF ColdStart, Collected, NoOrphan, OwnInv, CompInv
<1>7. ASSUME NEW c \in Callers, StartFails(c) PROVE NoOrphan'
  BY <1>7 DEF StartFails, NoOrphan, OwnInv, CompInv
<1>8. ASSUME NEW c \in Callers, Register(c) PROVE NoOrphan'
  BY <1>8 DEF Register, LostRace, NoOrphan, OwnInv, CompInv
<1>9. ASSUME NEW c \in Callers, RegisterLost(c) PROVE NoOrphan'
  BY <1>9 DEF RegisterLost, LostRace, NoOrphan, OwnInv, CompInv
<1>10. ASSUME NEW c \in Callers, Reaped(c) PROVE NoOrphan'
  BY <1>10 DEF Reaped, NoOrphan, OwnInv, CompInv
<1>11. ASSUME NEW c \in Callers, Cancel(c) PROVE NoOrphan'
  BY <1>11 DEF Cancel, NoOrphan, OwnInv, CompInv
<1>12. ASSUME NEW c \in Callers, BeginTurn(c) \/ SkipTurn(c) \/ EndTurn(c) \/ Release(c)
       PROVE NoOrphan'
  <2>1. \A d \in Callers : pc[d] = "starting" => pc'[d] = "starting"
    BY <1>12 DEF BeginTurn, SkipTurn, EndTurn, Release
  <2>2. UNCHANGED <<sessions, proc, recycling, phase, mine>>
    BY <1>12 DEF BeginTurn, SkipTurn, EndTurn, Release
  <2> QED BY <2>1, <2>2 DEF NoOrphan
<1>13. ASSUME NEW k \in Keys, CompactStart(k) \/ CompactBusy(k) \/ CompactDone(k) \/ CompactFailed(k)
       PROVE NoOrphan'
  BY <1>13 DEF CompactStart, CompactBusy, CompactDone, CompactFailed, CompGoto, CompOff, NoOrphan, OwnInv, CompInv
<1>14. ASSUME NEW k \in Keys, CompactAcquire(k) PROVE NoOrphan'
  BY <1>14 DEF CompactAcquire, CompGoto, CompOff, NoOrphan, OwnInv, CompInv
<1>15. ASSUME NEW k \in Keys, RecyclePop(k) PROVE NoOrphan'
  BY <1>15 DEF RecyclePop, CompGoto, CompOff, NoOrphan, OwnInv, CompInv
<1>16. ASSUME NEW k \in Keys, RecycleDone(k) PROVE NoOrphan'
  BY <1>16 DEF RecycleDone, CompGoto, CompOff, NoOrphan, OwnInv, CompInv
<1>17. ASSUME NEW k \in Keys, ForceReset(k) \/ IdleReset(k) PROVE NoOrphan'
  BY <1>17, FoldType DEF ForceReset, IdleReset, NoOrphan, OwnInv, CompInv
<1>18. ASSUME NEW p \in Provs, Crash(p) \/ ProcExit(p) PROVE NoOrphan'
  BY <1>18 DEF Crash, ProcExit, NoOrphan, OwnInv, CompInv
<1>19. CASE CloseBegin
  BY <1>19 DEF CloseBegin, OpenTurns, NoOrphan, OwnInv, CompInv
<1>20. CASE CloseCancel
  BY <1>20 DEF CloseCancel, NoOrphan, OwnInv, CompInv
<1>21. CASE CloseClear
  BY <1>21 DEF CloseClear, NoOrphan, OwnInv, CompInv
<1>22. CASE UNCHANGED vars
  BY <1>22 DEF vars, NoOrphan, OwnInv, CompInv
<1> QED
  BY <1>1, <1>2, <1>3, <1>4, <1>5, <1>6, <1>7, <1>8, <1>9, <1>10, <1>11, <1>12, <1>13, <1>14, <1>15, <1>16, <1>17, <1>18, <1>19, <1>20, <1>21, <1>22
     DEF Next, CallerNext, CompactNext

\* While the gateway is open, no running provider process is lost: it is
\* registered, owned by the recycler, or (still starting) held by its caller.
THEOREM NoProcessLost == Spec => []NoOrphan
<1>1. Init => RefInv /\ NoOrphan
  BY InitRef DEF Init, NoOrphan
<1>2. RefInv /\ NoOrphan /\ [Next]_vars => (RefInv /\ NoOrphan)'
  BY RefStep, OrphanStep
<1> QED BY <1>1, <1>2, PTL DEF Spec

LEMMA DrainStep == RefInv /\ DrainCoversGated /\ [Next]_vars => DrainCoversGated'
<1> SUFFICES ASSUME RefInv /\ DrainCoversGated, [Next]_vars PROVE DrainCoversGated' OBVIOUS
<1>0. RefInv' BY RefStep
<1> USE <1>0, KeyAssumption, CallerAssumption DEF RefInv, TypeInv, TypeOK, CallOK,
        callVars, compVars, closeVars, Goto, Take, Give, Pop, Shutdown, Fail, Registered
<1>1. ASSUME NEW c \in Callers, NEW k \in Keys, Call(c, k) \/ TryAcquire(c, k) PROVE DrainCoversGated'
  BY <1>1 DEF Call, TryAcquire, DrainCoversGated, OwnInv
<1>2. ASSUME NEW c \in Callers, EntryRefused(c) \/ EntryReuse(c) \/ EntryCold(c)
       PROVE DrainCoversGated'
  BY <1>2, FoldType DEF EntryRefused, EntryReuse, EntryCold, MayEnter, DrainCoversGated, OwnInv
<1>3. ASSUME NEW c \in Callers, EntryEvict(c) PROVE DrainCoversGated'
  BY <1>3, FoldType DEF EntryEvict, MayEnter, DrainCoversGated, OwnInv
<1>4. ASSUME NEW c \in Callers, Acquire(c) \/ ValidateOk(c) PROVE DrainCoversGated'
  BY <1>4 DEF Acquire, ValidateOk, DrainCoversGated, OwnInv
<1>5. ASSUME NEW c \in Callers, ValidateStale(c) \/ ValidateRetry(c) \/ ValidateGiveUp(c)
       PROVE DrainCoversGated'
  BY <1>5 DEF ValidateStale, ValidateRetry, ValidateGiveUp, EvictIfOurs, StillValid, DrainCoversGated, OwnInv
<1>6. ASSUME NEW c \in Callers, ColdStart(c) PROVE DrainCoversGated'
  BY <1>6 DEF ColdStart, Collected, DrainCoversGated, OwnInv
<1>7. ASSUME NEW c \in Callers, StartFails(c) PROVE DrainCoversGated'
  BY <1>7 DEF StartFails, DrainCoversGated, OwnInv
<1>8. ASSUME NEW c \in Callers, Register(c) PROVE DrainCoversGated'
  BY <1>8 DEF Register, LostRace, DrainCoversGated, OwnInv
<1>9. ASSUME NEW c \in Callers, RegisterLost(c) PROVE DrainCoversGated'
  BY <1>9 DEF RegisterLost, LostRace, DrainCoversGated, OwnInv
<1>10. ASSUME NEW c \in Callers, Reaped(c) PROVE DrainCoversGated'
  BY <1>10 DEF Reaped, DrainCoversGated, OwnInv
<1>11. ASSUME NEW c \in Callers, Cancel(c) PROVE DrainCoversGated'
  BY <1>11 DEF Cancel, DrainCoversGated, OwnInv
<1>12. ASSUME NEW c \in Callers, BeginTurn(c) \/ SkipTurn(c) \/ EndTurn(c) \/ Release(c)
       PROVE DrainCoversGated'
  BY <1>12 DEF BeginTurn, SkipTurn, EndTurn, Release, DrainCoversGated, OwnInv
<1>13. ASSUME NEW k \in Keys, CompactStart(k) \/ CompactBusy(k) \/ CompactDone(k) \/ CompactFailed(k)
       PROVE DrainCoversGated'
  BY <1>13 DEF CompactStart, CompactBusy, CompactDone, CompactFailed, CompGoto, CompOff, DrainCoversGated, OwnInv
<1>14. ASSUME NEW k \in Keys, CompactAcquire(k) PROVE DrainCoversGated'
  BY <1>14 DEF CompactAcquire, CompGoto, CompOff, DrainCoversGated, OwnInv
<1>15. ASSUME NEW k \in Keys, RecyclePop(k) PROVE DrainCoversGated'
  BY <1>15 DEF RecyclePop, CompGoto, CompOff, DrainCoversGated, OwnInv
<1>16. ASSUME NEW k \in Keys, RecycleDone(k) PROVE DrainCoversGated'
  BY <1>16 DEF RecycleDone, CompGoto, CompOff, DrainCoversGated, OwnInv
<1>17. ASSUME NEW k \in Keys, ForceReset(k) \/ IdleReset(k) PROVE DrainCoversGated'
  BY <1>17, FoldType DEF ForceReset, IdleReset, DrainCoversGated, OwnInv
<1>18. ASSUME NEW p \in Provs, Crash(p) \/ ProcExit(p) PROVE DrainCoversGated'
  BY <1>18 DEF Crash, ProcExit, DrainCoversGated, OwnInv
<1>19. CASE CloseBegin
  BY <1>19 DEF CloseBegin, OpenTurns, DrainCoversGated, OwnInv
<1>20. CASE CloseCancel
  BY <1>20 DEF CloseCancel, DrainCoversGated, OwnInv
<1>21. CASE CloseClear
  BY <1>21 DEF CloseClear, DrainCoversGated, OwnInv
<1>22. CASE UNCHANGED vars
  BY <1>22 DEF vars, DrainCoversGated, OwnInv
<1> QED
  BY <1>1, <1>2, <1>3, <1>4, <1>5, <1>6, <1>7, <1>8, <1>9, <1>10, <1>11, <1>12, <1>13, <1>14, <1>15, <1>16, <1>17, <1>18, <1>19, <1>20, <1>21, <1>22
     DEF Next, CallerNext, CompactNext

\* Once close_all has set _closing, every turn of a gated caller on a
\* registered session is in the snapshot that drain_active_turns works on.
THEOREM DrainCoversEveryGatedTurn == Spec => []DrainCoversGated
<1>1. Init => RefInv /\ DrainCoversGated
  BY InitRef DEF Init, DrainCoversGated
<1>2. RefInv /\ DrainCoversGated /\ [Next]_vars => (RefInv /\ DrainCoversGated)'
  BY RefStep, DrainStep
<1> QED BY <1>1, <1>2, PTL DEF Spec

----------------------------------------------------------------------------
(* Serial use, when nothing tears a busy session down *)

LEMMA FoldSame == ASSUME Orderly, NEW k \in Keys PROVE Fold(k) = k
  BY DEF Orderly, Fold

\* Without over-release and without teardown under a holder, permits and
\* holders match: the step lemma behind every theorem of this section.
LEMMA LeaseStep == ASSUME Orderly PROVE RefInv /\ LeaseInv /\ [Next]_vars => LeaseInv'
<1> SUFFICES ASSUME RefInv, LeaseInv, [Next]_vars PROVE LeaseInv' OBVIOUS
<1>0. RefInv' BY RefStep
<1> USE <1>0, KeyAssumption, CallerAssumption DEF RefInv, TypeInv, TypeOK, CallOK,
        callVars, compVars, closeVars, Goto, Take, Give, Pop, Shutdown, Fail, Registered,
        CallerHolds, CompHolds, Orderly
<1>1. ASSUME NEW c \in Callers, NEW k \in Keys, Call(c, k) \/ TryAcquire(c, k) PROVE LeaseInv'
  <2>1. CASE Call(c, k)
    BY <2>1 DEF Call, LeaseInv, OwnInv, CompInv
  <2>2. CASE TryAcquire(c, k)
    BY <2>2 DEF TryAcquire, Locked, LeaseInv, OwnInv, CompInv
  <2> QED BY <1>1, <2>1, <2>2
<1>2. ASSUME NEW c \in Callers, EntryRefused(c) \/ EntryReuse(c) \/ EntryCold(c)
       PROVE LeaseInv'
  BY <1>2, FoldSame DEF EntryRefused, EntryReuse, EntryCold, MayEnter, LeaseInv, OwnInv, CompInv
<1>3. ASSUME NEW c \in Callers, EntryEvict(c) PROVE LeaseInv'
  BY <1>3, FoldSame DEF EntryEvict, MayEnter, LeaseInv, OwnInv, CompInv
<1>4. ASSUME NEW c \in Callers, Acquire(c) \/ ValidateOk(c) PROVE LeaseInv'
  <2>1. CASE Acquire(c)
    BY <2>1 DEF Acquire, LeaseInv, OwnInv, CompInv
  <2>2. CASE ValidateOk(c)
    BY <2>2 DEF ValidateOk, StillValid, LeaseInv, OwnInv, CompInv
  <2> QED BY <1>4, <2>1, <2>2
<1>5. ASSUME NEW c \in Callers, ValidateStale(c) \/ ValidateRetry(c) \/ ValidateGiveUp(c)
       PROVE LeaseInv'
  <2>1. CASE ValidateStale(c)
    BY <2>1 DEF ValidateStale, EvictIfOurs, StillValid, LeaseInv, OwnInv, CompInv
  <2>2. CASE ValidateRetry(c)
    BY <2>2 DEF ValidateRetry, EvictIfOurs, StillValid, LeaseInv, OwnInv, CompInv
  <2>3. CASE ValidateGiveUp(c)
    BY <2>3 DEF ValidateGiveUp, EvictIfOurs, StillValid, LeaseInv, OwnInv, CompInv
  <2> QED BY <1>5, <2>1, <2>2, <2>3
<1>6. ASSUME NEW c \in Callers, ColdStart(c) PROVE LeaseInv'
  BY <1>6 DEF ColdStart, Collected, LeaseInv, OwnInv, CompInv
<1>7. ASSUME NEW c \in Callers, StartFails(c) PROVE LeaseInv'
  BY <1>7 DEF StartFails, LeaseInv, OwnInv, CompInv
<1>8. ASSUME NEW c \in Callers, Register(c) PROVE LeaseInv'
  BY <1>8 DEF Register, LostRace, LeaseInv, OwnInv, CompInv
<1>9. ASSUME NEW c \in Callers, RegisterLost(c) PROVE LeaseInv'
  BY <1>9 DEF RegisterLost, LostRace, LeaseInv, OwnInv, CompInv
<1>10. ASSUME NEW c \in Callers, Reaped(c) PROVE LeaseInv'
  BY <1>10 DEF Reaped, LeaseInv, OwnInv, CompInv
<1>11. ASSUME NEW c \in Callers, Cancel(c) PROVE LeaseInv'
  BY <1>11 DEF Cancel, LeaseInv, OwnInv, CompInv
<1>12. ASSUME NEW c \in Callers, BeginTurn(c) \/ SkipTurn(c) \/ EndTurn(c) \/ Release(c)
       PROVE LeaseInv'
  <2>1. CASE BeginTurn(c)
    BY <2>1, FoldSame DEF BeginTurn, LeaseInv, OwnInv, CompInv
  <2>2. CASE SkipTurn(c)
    BY <2>2, FoldSame DEF SkipTurn, LeaseInv, OwnInv, CompInv
  <2>3. CASE EndTurn(c)
    BY <2>3, FoldSame DEF EndTurn, LeaseInv, OwnInv, CompInv
  <2>4. CASE Release(c)
    BY <2>4, FoldSame DEF Release, LeaseInv, OwnInv, CompInv
  <2> QED BY <1>12, <2>1, <2>2, <2>3, <2>4
<1>13. ASSUME NEW k \in Keys, CompactStart(k) \/ CompactBusy(k) \/ CompactDone(k) \/ CompactFailed(k)
       PROVE LeaseInv'
  <2>1. CASE CompactStart(k)
    BY <2>1 DEF CompactStart, CompGoto, LeaseInv, OwnInv, CompInv
  <2>2. CASE CompactBusy(k)
    BY <2>2 DEF CompactBusy, CompOff, CompGoto, LeaseInv, OwnInv, CompInv
  <2>3. CASE CompactDone(k)
    BY <2>3 DEF CompactDone, CompOff, CompGoto, LeaseInv, OwnInv, CompInv
  <2>4. CASE CompactFailed(k)
    BY <2>4 DEF CompactFailed, CompGoto, LeaseInv, OwnInv, CompInv
  <2> QED BY <1>13, <2>1, <2>2, <2>3, <2>4
<1>14. ASSUME NEW k \in Keys, CompactAcquire(k) PROVE LeaseInv'
  BY <1>14 DEF CompactAcquire, CompGoto, CompOff, LeaseInv, OwnInv, CompInv
<1>15. ASSUME NEW k \in Keys, RecyclePop(k) PROVE LeaseInv'
  BY <1>15 DEF RecyclePop, CompGoto, CompOff, LeaseInv, OwnInv, CompInv
<1>16. ASSUME NEW k \in Keys, RecycleDone(k) PROVE LeaseInv'
  BY <1>16 DEF RecycleDone, CompGoto, CompOff, LeaseInv, OwnInv, CompInv
<1>17. ASSUME NEW k \in Keys, ForceReset(k) \/ IdleReset(k) PROVE LeaseInv'
  BY <1>17, FoldSame DEF ForceReset, IdleReset, Locked, LeaseInv, OwnInv, CompInv
<1>18. ASSUME NEW p \in Provs, Crash(p) \/ ProcExit(p) PROVE LeaseInv'
  BY <1>18 DEF Crash, ProcExit, LeaseInv, OwnInv, CompInv
<1>19. CASE CloseBegin
  BY <1>19 DEF CloseBegin, OpenTurns, LeaseInv, OwnInv, CompInv
<1>20. CASE CloseCancel
  BY <1>20 DEF CloseCancel, LeaseInv, OwnInv, CompInv
<1>21. CASE CloseClear
  BY <1>21 DEF CloseClear, LeaseInv, OwnInv, CompInv
<1>22. CASE UNCHANGED vars
  BY <1>22 DEF vars, LeaseInv, OwnInv, CompInv
<1> QED
  BY <1>1, <1>2, <1>3, <1>4, <1>5, <1>6, <1>7, <1>8, <1>9, <1>10, <1>11, <1>12, <1>13, <1>14, <1>15, <1>16, <1>17, <1>18, <1>19, <1>20, <1>21, <1>22
     DEF Next, CallerNext, CompactNext

LEMMA InitLease == ASSUME Orderly PROVE Init => LeaseInv
  BY KeyAssumption DEF Init, LeaseInv, CallerHolds, CompHolds, Checking, Holding

\* Every semaphore has at most one holder and a lease is always held on the
\* session registered under its key, so that release(key) returns the permit
\* that was taken (get_or_create, release, _compact_session).
THEOREM LeasesMatchPermits == ASSUME Orderly PROVE Spec => []LeaseInv
<1>1. Init => RefInv /\ LeaseInv BY InitRef, InitLease
<1>2. RefInv /\ LeaseInv /\ [Next]_vars => (RefInv /\ LeaseInv)' BY RefStep, LeaseStep
<1> QED BY <1>1, <1>2, PTL DEF Spec

\* At most one turn or in-place compaction drives a provider at any moment.
THEOREM SerialUseHolds == ASSUME Orderly PROVE Spec => []SerialUse
<1>1. RefInv /\ LeaseInv => SerialUse
  <2> SUFFICES ASSUME RefInv, LeaseInv, NEW p \in Provs, NEW x \in InUse(p), NEW y \in InUse(p)
               PROVE x = y
    BY DEF SerialUse
  <2> DEFINE turns == {d \in Callers : pc[d] = "turn" /\ sess[d] = p}
             comps == {j \in Keys : comp[j] = "compact" /\ csess[j] = p}
  <2>1. \A c, d \in turns : c = d
    BY DEF LeaseInv, CallerHolds
  <2>2. \A j, k \in comps : j = k
    BY KeyAssumption DEF RefInv, OwnInv
  <2>3. turns = {} \/ comps = {}
    BY DEF LeaseInv, CallerHolds, CompHolds
  <2>4. InUse(p) = {<<c, "turn">> : c \in turns} \cup {<<k, "compact">> : k \in comps}
    BY DEF InUse
  <2> HIDE DEF turns, comps
  <2>5. ASSUME NEW z \in InUse(p)
        PROVE (\E c \in turns : z = <<c, "turn">>) \/ (\E k \in comps : z = <<k, "compact">>)
    BY <2>4
  <2>6. CASE comps = {}
    BY <2>1, <2>5, <2>6
  <2>7. CASE turns = {}
    BY <2>2, <2>5, <2>7
  <2> QED BY <2>3, <2>6, <2>7
<1> QED BY <1>1, RefAlways, LeasesMatchPermits, PTL

\* Watchdogs, recycler and concurrent cold starts never cut a live turn.
THEOREM TurnsNeverCut == ASSUME Orderly PROVE Spec => []TurnNotCut
<1>1. RefInv /\ LeaseInv => TurnNotCut
  BY KeyAssumption DEF LeaseInv, TurnNotCut, RefInv, TypeInv, CallOK
<1> QED BY <1>1, RefAlways, LeasesMatchPermits, PTL

----------------------------------------------------------------------------
(* Refinement: the registry implements the abstract lease service *)

\* A caller about to get the lease of k finds no other holder of k.
LEMMA KeyFree ==
  ASSUME RefInv, LeaseInv, NEW k \in Keys,
         \A d \in Callers : pc[d] \in Holding => sess[d] # sessions[k]
  PROVE  Lease!Free(k)
  BY KeyAssumption DEF Lease!Free, LeaseInv, Held

\* A step of one caller changes what the lease service sees of that caller.
LEMMA OneCaller ==
  ASSUME NEW c \in Callers,
         \A d \in Callers \ {c} : pc'[d] = pc[d] /\ key'[d] = key[d] /\ sess'[d] = sess[d]
  PROVE  /\ Asked' = [Asked EXCEPT ![c] = Asked'[c]]
         /\ Held' = [Held EXCEPT ![c] = Held'[c]]
  BY DEF Asked, Held

LEMMA RefineStep ==
  ASSUME Orderly PROVE RefInv /\ LeaseInv /\ [Next]_vars => [Lease!Next]_<<Asked, Held>>
<1> SUFFICES ASSUME RefInv, LeaseInv, [Next]_vars
             PROVE  Lease!Next \/ UNCHANGED <<Asked, Held>>
    OBVIOUS
<1>0. RefInv' BY RefStep
<1> USE <1>0, KeyAssumption, CallerAssumption DEF RefInv, TypeInv, TypeOK, CallOK,
        callVars, compVars, closeVars, Goto, Fail, Asked, Held
<1>1. ASSUME NEW c \in Callers, NEW k \in Keys, Call(c, k) PROVE Lease!Ask(c, k)
  BY <1>1 DEF Call, Lease!Ask
<1>2. ASSUME NEW c \in Callers, NEW k \in Keys, TryAcquire(c, k) PROVE Lease!GrantIdle(c, k)
  <2>1. Lease!Free(k)
    BY <1>2, KeyFree DEF TryAcquire, Locked, LeaseInv, CallerHolds
  <2>a. \A d \in Callers \ {c} : pc'[d] = pc[d] /\ key'[d] = key[d] /\ sess'[d] = sess[d]
    BY <1>2 DEF TryAcquire
  <2>b. Asked'[c] = Asked[c] /\ Held'[c] = k
    BY <1>2 DEF TryAcquire
  <2>c. Asked[c] = None /\ Held[c] = None
    BY <1>2 DEF TryAcquire
  <2>d. Asked' = [Asked EXCEPT ![c] = Asked'[c]] /\ Held' = [Held EXCEPT ![c] = Held'[c]]
    BY <2>a, OneCaller
  <2>e. [Asked EXCEPT ![c] = Asked[c]] = Asked
    OBVIOUS
  <2> QED BY <2>1, <2>b, <2>c, <2>d, <2>e DEF Lease!GrantIdle
<1>3. ASSUME NEW c \in Callers, EntryRefused(c) \/ StartFails(c) \/ ValidateGiveUp(c) \/ Cancel(c)
      PROVE Lease!Refuse(c)
  <2>a. \A d \in Callers \ {c} : pc'[d] = pc[d] /\ key'[d] = key[d] /\ sess'[d] = sess[d]
    BY <1>3 DEF EntryRefused, StartFails, ValidateGiveUp, Cancel
  <2>b. Asked'[c] = None /\ Held'[c] = Held[c]
    BY <1>3 DEF EntryRefused, StartFails, ValidateGiveUp, Cancel, Orderly
  <2>c. Asked[c] # None
    BY <1>3 DEF EntryRefused, StartFails, ValidateGiveUp, Cancel, Orderly
  <2>d. Asked' = [Asked EXCEPT ![c] = Asked'[c]] /\ Held' = [Held EXCEPT ![c] = Held'[c]]
    BY <2>a, OneCaller
  <2>e. [Held EXCEPT ![c] = Held[c]] = Held
    OBVIOUS
  <2> QED BY <2>b, <2>c, <2>d, <2>e DEF Lease!Refuse
<1>4. ASSUME NEW c \in Callers, EntryReuse(c) \/ EntryCold(c) \/ EntryEvict(c)
      PROVE UNCHANGED <<Asked, Held>>
  BY <1>4, FoldSame DEF EntryReuse, EntryCold, EntryEvict, MayEnter
<1>5. ASSUME NEW c \in Callers,
             \/ Acquire(c) \/ ValidateStale(c) \/ ValidateRetry(c)
             \/ ColdStart(c) \/ RegisterLost(c) \/ Reaped(c)
      PROVE UNCHANGED <<Asked, Held>>
  BY <1>5 DEF Acquire, ValidateStale, ValidateRetry, ColdStart, RegisterLost, Reaped
<1>6. ASSUME NEW c \in Callers, ValidateOk(c) PROVE Lease!Grant(c)
  <2>1. Lease!Free(key[c])
    BY <1>6, KeyFree DEF ValidateOk, StillValid, LeaseInv, CallerHolds
  <2>a. \A d \in Callers \ {c} : pc'[d] = pc[d] /\ key'[d] = key[d] /\ sess'[d] = sess[d]
    BY <1>6 DEF ValidateOk
  <2>b. Asked'[c] = None /\ Held'[c] = Asked[c]
    BY <1>6 DEF ValidateOk, StillValid
  <2>c. Asked[c] = key[c] /\ Asked[c] # None
    BY <1>6 DEF ValidateOk, StillValid
  <2> QED BY <2>1, <2>a, <2>b, <2>c, OneCaller DEF Lease!Grant
<1>7. ASSUME NEW c \in Callers, Register(c) PROVE Lease!Grant(c)
  <2>1. Lease!Free(key[c])
    BY <1>7, KeyFree DEF Register, LostRace, LeaseInv, CompInv, CallerHolds, CompHolds
  <2>a. \A d \in Callers \ {c} : pc'[d] = pc[d] /\ key'[d] = key[d] /\ sess'[d] = sess[d]
    BY <1>7 DEF Register
  <2>b. Asked'[c] = None /\ Held'[c] = Asked[c]
    BY <1>7 DEF Register, OwnInv
  <2>c. Asked[c] = key[c] /\ Asked[c] # None
    BY <1>7 DEF Register, OwnInv
  <2> QED BY <2>1, <2>a, <2>b, <2>c, OneCaller DEF Lease!Grant
<1>8. ASSUME NEW c \in Callers, BeginTurn(c) \/ SkipTurn(c) \/ EndTurn(c)
      PROVE UNCHANGED <<Asked, Held>>
  BY <1>8 DEF BeginTurn, SkipTurn, EndTurn
<1>9. ASSUME NEW c \in Callers, Release(c) PROVE Lease!Return(c)
  <2>a. \A d \in Callers \ {c} : pc'[d] = pc[d] /\ key'[d] = key[d] /\ sess'[d] = sess[d]
    BY <1>9 DEF Release
  <2>b. Asked'[c] = Asked[c] /\ Held'[c] = None
    BY <1>9 DEF Release, LeaseInv
  <2>c. Held[c] # None
    BY <1>9 DEF Release, LeaseInv
  <2>d. Asked' = [Asked EXCEPT ![c] = Asked'[c]] /\ Held' = [Held EXCEPT ![c] = Held'[c]]
    BY <2>a, OneCaller
  <2>e. [Asked EXCEPT ![c] = Asked[c]] = Asked
    OBVIOUS
  <2> QED BY <2>b, <2>c, <2>d, <2>e DEF Lease!Return
<1>10. ASSUME NEW k \in Keys, CompactNext(k) \/ ForceReset(k) \/ IdleReset(k)
       PROVE UNCHANGED <<Asked, Held>>
  BY <1>10 DEF CompactNext, CompactStart, CompactAcquire, CompactBusy, CompactDone,
     CompactFailed, RecyclePop, RecycleDone, ForceReset, IdleReset
<1>11. ASSUME NEW p \in Provs, Crash(p) \/ ProcExit(p) PROVE UNCHANGED <<Asked, Held>>
  BY <1>11 DEF Crash, ProcExit
<1>12. CASE CloseBegin \/ CloseCancel \/ CloseClear \/ UNCHANGED vars
  BY <1>12 DEF CloseBegin, CloseCancel, CloseClear, vars
<1> QED
  BY <1>1, <1>2, <1>3, <1>4, <1>5, <1>6, <1>7, <1>8, <1>9, <1>10, <1>11, <1>12
     DEF Next, CallerNext, Lease!Next

\* The registry of session.py implements the abstract lease service: leases of
\* one conversation key never overlap.
THEOREM ImplementsSerialTurns == ASSUME Orderly PROVE Spec => SerialLeases
<1>1. Init => Lease!Init
  BY DEF Init, Lease!Init, Asked, Held, Holding
<1>2. RefInv /\ LeaseInv /\ [Next]_vars => [Lease!Next]_<<Asked, Held>>
  BY RefineStep
<1>3. Init => RefInv /\ LeaseInv
  BY InitRef, InitLease
<1>4. RefInv /\ LeaseInv /\ [Next]_vars => (RefInv /\ LeaseInv)'
  BY RefStep, LeaseStep
<1> QED BY <1>1, <1>2, <1>3, <1>4, PTL DEF Spec, SerialLeases, Lease!Spec

=============================================================================
