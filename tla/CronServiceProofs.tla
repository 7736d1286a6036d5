-------------------------- MODULE CronServiceProofs --------------------------
(***************************************************************************)
(* Theorems of CronService, for any jobs, kinds, features and bounds: its  *)
(* types, that a job counted as executing has a run to count it out, that  *)
(* the timer alone never overlaps runs, and that no read-modify-write of   *)
(* the file undoes an edit of a user.                                      *)
(***************************************************************************)
EXTENDS CronService, TLAPS

ListT == [Jobs -> Versions \cup {0}]
HeapT == [Jobs -> [Versions -> Object]]
DiskT == [Jobs -> Record \cup {None}]

(* Bounds are numbers, and there is always an object to allocate.           *)
LEMMA Numbers == /\ 0 \in 0 .. MaxTime /\ 0 \notin Versions /\ 1 \in Versions
                 /\ Blank \in Object /\ 0 \notin Slots
  BY CronAssumption DEF CronAssumption, Versions, Slots, Blank, Object

LEMMA FreshExists == ASSUME NEW j PROVE Fresh(j) \in Versions
<1> DEFINE P(v) == Referred(j, v) => \A u \in Versions : Referred(j, u)
<1>1. \E v \in Versions : P(v)
  <2>1. CASE \E v \in Versions : ~Referred(j, v)
    BY <2>1
  <2>2. CASE ~\E v \in Versions : ~Referred(j, v)
    BY <2>2, Numbers
  <2> QED BY <2>1, <2>2
<1> QED BY <1>1 DEF Fresh

LEMMA LoadedType == ASSUME NEW r \in Record PROVE Loaded(r) \in Object
  BY DEF Loaded, Record, Object

(* What a locked core works on after _sync is a list of objects.            *)
LEMMA SyncType ==
  ASSUME TypeOK
  PROVE SyncMem \in ListT /\ SyncHeap \in HeapT
<1>1. SyncMem \in ListT
  BY FreshExists DEF SyncMem, ListT, TypeOK
<1>2. SyncHeap \in HeapT
  <2>1. CASE ~Reloads
    BY <2>1 DEF SyncHeap, HeapT, TypeOK
  <2>2. CASE Reloads
    <3> SUFFICES ASSUME NEW j \in Jobs, disk[j] # None
                 PROVE [heap[j] EXCEPT ![Fresh(j)] = Loaded(disk[j])]
                         \in [Versions -> Object]
      BY <2>2 DEF SyncHeap, HeapT, TypeOK
    <3>1. disk[j] \in Record
      BY DEF TypeOK
    <3>2. heap[j] \in [Versions -> Object]
      BY DEF TypeOK
    <3> QED BY <3>1, <3>2, LoadedType
  <2> QED BY <2>1, <2>2
<1> QED BY <1>1, <1>2

LEMMA HeapType ==
  ASSUME NEW h \in HeapT, Heap(h)
  PROVE heap' \in HeapT
  BY Numbers DEF Heap, HeapT

(* The object of a job in the list survives the step.                        *)
LEMMA HeapKeeps ==
  ASSUME NEW h, Heap(h), NEW j \in Jobs, mem'[j] \in Versions
  PROVE heap'[j][mem'[j]] = h[j][mem'[j]]
  BY DEF Heap, Referred

LEMMA SavedType ==
  ASSUME NEW m \in ListT, NEW h \in HeapT
  PROVE Saved(m, h) \in DiskT
<1> SUFFICES ASSUME NEW j \in Jobs, m[j] # 0
             PROVE [paused |-> h[j][m[j]].paused, auto |-> h[j][m[j]].auto,
                    last |-> h[j][m[j]].last] \in Record
  BY DEF Saved, DiskT
<1>1. h[j][m[j]] \in Object
  BY DEF ListT, HeapT
<1> QED BY <1>1 DEF Object, Record

(* A locked core leaves the file, the list and the objects well typed.       *)
StoreT == disk \in DiskT /\ loaded \in DiskT /\ mem \in ListT /\ heap \in HeapT

LEMMA SaveType ==
  ASSUME NEW m \in ListT, NEW h \in HeapT, Save(m, h), Heap(h)
  PROVE StoreT'
  BY SavedType, HeapType DEF Save, StoreT

LEMMA SyncKeepsType ==
  ASSUME TypeOK, Sync, NEW h \in HeapT, Heap(h)
  PROVE StoreT'
<1>1. SyncMem \in ListT
  BY SyncType
<1>2. heap' \in HeapT
  BY HeapType
<1> QED BY <1>1, <1>2 DEF Sync, StoreT, TypeOK, DiskT

-----------------------------------------------------------------------------
(* The rest of the types, in parts that actions change together.            *)

RunT  == [pc : {"idle", "run", "told", "merge", "over"},
          obj : Versions \cup {0}, start : 0 .. MaxTime,
          cut : BOOLEAN, byhand : BOOLEAN]
RunsT == run \in [Jobs -> [Slots -> RunT]]
BooksT ==
  /\ pending \subseteq Jobs /\ executing \subseteq Jobs /\ timed \subseteq Jobs
  /\ reaped \subseteq Jobs /\ cancelled \subseteq Jobs
  /\ handle \in [Jobs -> Slots \cup {None, Api}]
TimerT ==
  /\ tick \in [pc : {"wait", "scanned"}, snap : ListT]
  /\ arm \in BOOLEAN
CallerT ==
  caller \in [pc : {"idle", "asked", "scanned", "await"},
              job : Jobs \cup {None}, obj : Versions \cup {0},
              slot : Slots \cup {0}]
CuttingT ==
  /\ todo \subseteq Jobs
  /\ cutter \in [Cutters -> [pc : {"idle", "reset", "merge"},
                            job : Jobs \cup {None}, obj : Versions \cup {0}]]
ClockT ==
  /\ kind \in [Jobs -> {"every", "at", "once"}]
  /\ now \in 0 .. MaxTime /\ edits \in 0 .. MaxEdits
  /\ want \in [Jobs -> {"absent", "active", "paused", "removed"}]
  /\ fired \in [Jobs -> 0 .. MaxTime]

AllT == StoreT /\ RunsT /\ BooksT /\ TimerT /\ CallerT /\ CuttingT /\ ClockT

LEMMA Parts == (TypeOK <=> AllT) /\ (TypeOK' <=> AllT')
  BY DEF AllT, TypeOK, StoreT, DiskT, ListT, HeapT, RunsT, RunT, BooksT, TimerT,
         CallerT, CuttingT, ClockT

(* A run has an object until its result is merged, a request and a cutter    *)
(* at work have a job, and a request that waits knows its run.               *)
Hands ==
  /\ \A j \in Jobs, s \in Slots :
       run[j][s].pc \in {"run", "told", "merge"} => run[j][s].obj # 0
  /\ caller.pc # "idle" => caller.job \in Jobs
  /\ caller.pc = "await" => caller.slot # 0
  /\ \A a \in Cutters : cutter[a].pc # "idle" => cutter[a].job \in Jobs

LEMMA SomeSlot == ASSUME NEW j, Free(j) # {} PROVE Slot(j) \in Free(j)
  BY DEF Slot

LEMMA IdleType == IdleRun \in RunT /\ [IdleRun EXCEPT !.pc = "over"] \in RunT
  BY Numbers DEF IdleRun, RunT

LEMMA NewRunType ==
  ASSUME NEW v \in Versions, NEW hand \in BOOLEAN, ClockT
  PROVE NewRun(v, hand) \in RunT
  BY DEF NewRun, RunT, ClockT

LEMMA OverType == ASSUME RunsT, NEW j \in Jobs, NEW s \in Slots, Over(j, s) PROVE RunsT'
<1>1. [IdleRun EXCEPT !.pc = IF run[j][s].byhand THEN "over" ELSE "idle"] \in RunT
  BY Numbers DEF IdleRun, RunT
<1> QED BY <1>1 DEF Over, Upd, RunsT

LEMMA UpdType ==
  ASSUME RunsT, NEW j \in Jobs, NEW s \in Slots, NEW r \in RunT, Upd(j, s, r)
  PROVE RunsT'
  BY DEF Upd, RunsT

LEMMA MovesType ==
  ASSUME NEW r \in RunT, NEW p \in {"told", "merge"}
  PROVE [r EXCEPT !.pc = p] \in RunT
  BY DEF RunT

LEMMA InitType == Init => TypeOK
<1> SUFFICES ASSUME Init PROVE TypeOK
  OBVIOUS
<1>1. disk \in DiskT
  BY Numbers DEF Init, DiskT, Record
<1>2. mem \in ListT
  BY Numbers DEF Init, ListT
<1>3. heap \in HeapT
  <2> SUFFICES ASSUME NEW j \in Jobs, NEW v \in Versions, mem[j] = v
               PROVE Loaded(disk[j]) \in Object
    BY Numbers DEF Init, HeapT
  <2>1. disk[j] \in Record
    BY Numbers DEF Init, Record
  <2> QED BY <2>1, LoadedType
<1>4. StoreT
  BY <1>1, <1>2, <1>3 DEF StoreT, Init
<1>5. RunsT /\ BooksT
  BY IdleType DEF Init, RunsT, BooksT
<1>6. TimerT /\ CallerT
  BY DEF Init, TimerT, CallerT, Waiting, NoCaller, ListT
<1>7. CuttingT /\ ClockT
  BY CronAssumption DEF Init, CuttingT, ClockT, NoCut, CronAssumption
<1> QED BY <1>4, <1>5, <1>6, <1>7, Parts DEF AllT

(* Edits *)

LEMMA NewRecordType == ASSUME ClockT PROVE NewRecord \in Record
  BY DEF NewRecord, Record, ClockT

LEMMA AsksType == ASSUME ClockT, NEW j \in Jobs, NEW op \in Ops, Asks(j, op),
                         UNCHANGED <<clock, fired>>
                  PROVE ClockT'
  BY CronAssumption DEF CronAssumption, Asks, ClockT, Ops, clock

LEMMA CliEditType ==
  ASSUME TypeOK, NEW j \in Jobs, NEW op \in Ops, CliEdit(j, op) PROVE TypeOK'
<1> USE Parts DEF AllT
<1>1. ClockT'
  BY AsksType DEF CliEdit
<1>2. disk' \in DiskT
  <2>1. CASE op = "removed"
    BY <2>1 DEF CliEdit, StoreT, DiskT
  <2>2. CASE op # "removed" /\ want[j] = "absent"
    BY <2>2, NewRecordType DEF CliEdit, StoreT, DiskT
  <2>3. CASE op # "removed" /\ want[j] # "absent"
    <3>1. disk[j] \in Record
      BY <2>3 DEF CliEdit, StoreT, DiskT
    <3>2. Edited(disk[j], op) \in Record
      BY <2>3, <3>1 DEF Edited, Record, Ops
    <3> QED BY <2>3, <3>2 DEF CliEdit, StoreT, DiskT
  <2> QED BY <2>1, <2>2, <2>3
<1>3. StoreT'
  BY <1>2 DEF CliEdit, StoreT
<1>4. (RunsT /\ BooksT /\ TimerT /\ CallerT /\ CuttingT)'
  BY DEF CliEdit, books, marks, timer, cutting, RunsT, BooksT, TimerT, CallerT, CuttingT
<1> QED BY <1>1, <1>3, <1>4

LEMMA ServiceEditType ==
  ASSUME TypeOK, NEW j \in Jobs, NEW op \in Ops, ServiceEdit(j, op) PROVE TypeOK'
<1> USE Parts DEF AllT
<1> DEFINE v == IF want[j] = "absent" THEN Fresh(j) ELSE SyncMem[j]
           o == IF want[j] = "absent" THEN Loaded(NewRecord)
                ELSE [Edited(SyncHeap[j][v], op) EXCEPT !.enabled = (op = "active")]
           h == IF op = "removed" THEN SyncHeap ELSE [SyncHeap EXCEPT ![j][v] = o]
           m == [SyncMem EXCEPT ![j] = IF op = "removed" THEN 0 ELSE v]
<1>0. Asks(j, op) /\ (want[j] # "absent" => SyncMem[j] # 0) /\ Save(m, h) /\ Heap(h)
      /\ arm' = TRUE
      /\ UNCHANGED <<pending, books, run, tick, caller, cutting, clock, fired>>
  BY DEF ServiceEdit
<1>1. ClockT'
  BY <1>0, AsksType
<1>2. v \in Versions
  BY <1>0, SyncType, FreshExists DEF ListT
<1>3. op # "removed" => o \in Object
  <2>1. CASE want[j] = "absent"
    BY <2>1, NewRecordType, LoadedType
  <2>2. CASE want[j] # "absent" /\ op # "removed"
    <3>1. SyncHeap[j][v] \in Object
      BY <1>2, SyncType DEF HeapT
    <3> HIDE DEF v
    <3>2. Edited(SyncHeap[j][v], op) \in Object
      BY <2>2, <3>1 DEF Edited, Object, Ops
    <3> QED BY <2>2, <3>2 DEF Object
  <2> QED BY <2>1, <2>2
<1>4. h \in HeapT
  <2> HIDE DEF o, v
  <2> QED BY <1>2, <1>3, SyncType DEF HeapT
<1>5. m \in ListT
  <2> HIDE DEF v
  <2> QED BY <1>2, SyncType DEF ListT
<1>6. StoreT'
  <2> HIDE DEF h, m
  <2> QED BY <1>0, <1>4, <1>5, SaveType
<1>7. (RunsT /\ BooksT /\ TimerT /\ CallerT /\ CuttingT)'
  BY <1>0 DEF books, marks, cutting, RunsT, BooksT, TimerT, CallerT, CuttingT
<1> QED BY <1>1, <1>6, <1>7

(* The timer *)

LEMMA TickScanType == ASSUME TypeOK, TickScan PROVE TypeOK'
<1> USE Parts DEF AllT
<1> DEFINE m == [j \in Jobs |-> IF j \in pending THEN 0 ELSE SyncMem[j]]
<1>0. /\ pending' = {}
      /\ IF m # SyncMem THEN Save(m, SyncHeap) ELSE Sync
      /\ tick' = IF Restores THEN Waiting ELSE [pc |-> "scanned", snap |-> m]
      /\ want' = [j \in Jobs |-> IF m[j] # SyncMem[j] THEN "removed" ELSE want[j]]
      /\ UNCHANGED <<books, run, arm, caller, cutting, clock, edits, fired>>
      /\ Heap(SyncHeap)
  BY DEF TickScan
<1>1. m \in ListT
  BY SyncType DEF ListT
<1>2. StoreT'
  BY <1>0, <1>1, SyncType, SaveType, SyncKeepsType
<1>3. TimerT'
  <2>1. Waiting \in [pc : {"wait", "scanned"}, snap : ListT]
    BY DEF Waiting, ListT
  <2>2. [pc |-> "scanned", snap |-> m] \in [pc : {"wait", "scanned"}, snap : ListT]
    BY <1>1
  <2> QED BY <1>0, <2>1, <2>2 DEF TimerT
<1>4. ClockT'
  <2> HIDE DEF m
  <2> QED BY <1>0 DEF ClockT, clock
<1>5. (RunsT /\ BooksT /\ CallerT /\ CuttingT)'
  BY <1>0 DEF books, marks, cutting, RunsT, BooksT, CallerT, CuttingT
<1> QED BY <1>2, <1>3, <1>4, <1>5

LEMMA TickScanBusyType == ASSUME TypeOK, TickScanBusy PROVE TypeOK'
<1> USE Parts DEF AllT
<1>1. TimerT'
  BY DEF TickScanBusy, TimerT, StoreT
<1>2. (StoreT /\ RunsT /\ BooksT /\ CallerT /\ CuttingT /\ ClockT)'
  BY DEF TickScanBusy, store, books, marks, cutting, users, clock, StoreT,
         RunsT, BooksT, CallerT, CuttingT, ClockT
<1> QED BY <1>1, <1>2

LEMMA TickDispatchType == ASSUME TypeOK, TickDispatch PROVE TypeOK'
<1> USE Parts DEF AllT
<1>1. \A j \in Due : j \in Jobs /\ Slot(j) \in Slots /\ tick.snap[j] \in Versions
  <2> SUFFICES ASSUME NEW j \in Due
               PROVE j \in Jobs /\ Slot(j) \in Slots /\ tick.snap[j] \in Versions
    OBVIOUS
  <2>1. j \in Jobs /\ tick.snap[j] # 0
    BY DEF Due, Fires
  <2>2. Slot(j) \in Slots
    BY SomeSlot DEF TickDispatch, Free
  <2> QED BY <2>1, <2>2 DEF TimerT, ListT
<1>2. RunsT'
  <2>1. \A j \in Due : NewRun(tick.snap[j], FALSE) \in RunT
    BY <1>1, NewRunType
  <2> QED BY <1>1, <2>1 DEF TickDispatch, RunsT
<1>3. BooksT'
  BY <1>1 DEF TickDispatch, BooksT, store, marks
<1>4. ClockT'
  BY <1>1 DEF TickDispatch, ClockT, users, clock
<1>5. TimerT'
  BY DEF TickDispatch, TimerT, Waiting, ListT
<1>6. StoreT'
  BY HeapType DEF TickDispatch, StoreT, store
<1>7. (CallerT /\ CuttingT)'
  BY DEF TickDispatch, CallerT, CuttingT, cutting
<1> QED BY <1>2, <1>3, <1>4, <1>5, <1>6, <1>7

LEMMA ArmTimerType == ASSUME TypeOK, ArmTimer PROVE TypeOK'
<1> USE Parts DEF AllT
<1>1. TimerT'
  BY DEF ArmTimer, TimerT, Waiting, ListT
<1>2. StoreT'
  BY HeapType DEF ArmTimer, StoreT, store
<1>3. (RunsT /\ BooksT /\ CallerT /\ CuttingT /\ ClockT)'
  BY DEF ArmTimer, store, books, marks, cutting, users, clock,
         RunsT, BooksT, CallerT, CuttingT, ClockT
<1> QED BY <1>1, <1>2, <1>3

(* A run *)

LEMMA TellDoneType ==
  ASSUME TypeOK, NEW j \in Jobs, NEW s \in Slots, TellDone(j, s) PROVE TypeOK'
<1> USE Parts DEF AllT
<1>1. [SyncMem EXCEPT ![j] = 0] \in ListT
  BY SyncType DEF ListT
<1>2. StoreT'
  BY <1>1, SyncType, SaveType, SyncKeepsType DEF TellDone
<1>3. RunsT'
  <2>1. run[j][s] \in RunT
    BY DEF RunsT
  <2> QED BY <2>1, MovesType, UpdType DEF TellDone
<1>4. ClockT'
  BY DEF TellDone, ClockT, clock
<1>5. TimerT'
  BY DEF TellDone, TimerT, Restores, Reloads, Loaded
<1>6. (BooksT /\ CallerT /\ CuttingT)'
  BY DEF TellDone, books, marks, cutting, BooksT, CallerT, CuttingT
<1> QED BY <1>2, <1>3, <1>4, <1>5, <1>6

LEMMA DeferType ==
  ASSUME TypeOK, NEW j \in Jobs, NEW s \in Slots, Defer(j, s) PROVE TypeOK'
<1> USE Parts DEF AllT
<1>1. RunsT'
  <2>1. run[j][s] \in RunT
    BY DEF RunsT
  <2> QED BY <2>1, MovesType, UpdType DEF Defer
<1>2. heap' \in HeapT
  <2> SUFFICES ASSUME mem[j] # 0
               PROVE [heap EXCEPT ![j][mem[j]].enabled = FALSE] \in HeapT
    BY DEF Defer, StoreT
  <2>1. mem[j] \in Versions /\ heap[j][mem[j]] \in Object
    BY DEF StoreT, ListT, HeapT
  <2>2. [heap[j][mem[j]] EXCEPT !.enabled = FALSE] \in Object
    BY <2>1 DEF Object
  <2> QED BY <2>1, <2>2 DEF StoreT, HeapT
<1>3. StoreT'
  BY <1>2 DEF Defer, StoreT
<1>4. (BooksT /\ TimerT /\ CallerT /\ CuttingT /\ ClockT)'
  BY DEF Defer, books, marks, timer, cutting, users, clock, BooksT, TimerT,
         CallerT, CuttingT, ClockT
<1> QED BY <1>1, <1>3, <1>4

LEMMA RunEndType ==
  ASSUME TypeOK, Hands, NEW j \in Jobs, NEW s \in Slots,
         NEW res \in {"ok", "fail", "pause"}, NEW late \in BOOLEAN,
         RunEnd(j, s, res, late)
  PROVE TypeOK'
<1> USE Parts DEF AllT
<1> DEFINE r == run[j][s]
           marked == j \in reaped \cup cancelled
           o == Outcome(j, r, heap[j][r.obj], res, late, marked)
<1>0. r \in RunT /\ r.obj \in Versions
  BY DEF RunEnd, RunsT, RunT, Hands
<1>1. o \in Object
  <2>1. heap[j][r.obj] \in Object
    BY <1>0 DEF StoreT, HeapT
  <2>2. r.start \in 0 .. MaxTime /\ now \in 0 .. MaxTime /\ r.cut \in BOOLEAN
    BY <1>0 DEF RunT, ClockT
  <2> HIDE DEF r, marked
  <2> QED BY <2>1, <2>2 DEF Outcome, Object
<1>2. [heap EXCEPT ![j][r.obj] = o] \in HeapT
  <2> HIDE DEF o, r
  <2> QED BY <1>0, <1>1 DEF StoreT, HeapT
<1>3. StoreT'
  BY <1>2, HeapType DEF RunEnd, StoreT, store
<1>4. RunsT'
  <2>1. CASE marked
    BY <2>1, OverType DEF RunEnd
  <2>2. CASE ~marked
    BY <1>0, <2>2, MovesType, UpdType DEF RunEnd
  <2> QED BY <2>1, <2>2
<1>5. BooksT'
  BY DEF RunEnd, Finally, BooksT, store
<1>6. (TimerT /\ CallerT /\ CuttingT /\ ClockT)'
  BY DEF RunEnd, timer, cutting, users, clock, TimerT, CallerT, CuttingT, ClockT
<1> QED BY <1>3, <1>4, <1>5, <1>6

LEMMA RunMergeType ==
  ASSUME TypeOK, Hands, NEW j \in Jobs, NEW s \in Slots, RunMerge(j, s)
  PROVE TypeOK'
<1> USE Parts DEF AllT
<1> DEFINE m == SyncMem
           o == heap[j][run[j][s].obj]
           h == IF m[j] = 0 THEN SyncHeap
                ELSE [SyncHeap EXCEPT ![j][m[j]] = Merged(j, o, @)]
           once == kind[j] = "once" /\ m[j] # 0
<1>0. /\ run[j][s].pc = "merge" /\ Over(j, s)
      /\ Save(IF once THEN [m EXCEPT ![j] = 0] ELSE m, h)
      /\ want' = IF once THEN [want EXCEPT ![j] = "removed"] ELSE want
      /\ arm' = (arm \/ Restores)
      /\ UNCHANGED <<pending, books, tick, caller, cutting, clock, edits, fired>>
      /\ Heap(h)
  BY DEF RunMerge
<1>1. o \in Object
  <2>1. run[j][s] \in RunT /\ run[j][s].obj # 0
    BY <1>0 DEF RunsT, Hands
  <2> QED BY <2>1 DEF RunT, StoreT, HeapT
<1>2. h \in HeapT
  <2> SUFFICES ASSUME m[j] # 0
               PROVE [SyncHeap EXCEPT ![j][m[j]] = Merged(j, o, @)] \in HeapT
    BY SyncType
  <2>1. m[j] \in Versions /\ SyncHeap[j][m[j]] \in Object
    BY SyncType DEF ListT, HeapT
  <2>2. Merged(j, o, SyncHeap[j][m[j]]) \in Object
    <3> HIDE DEF o, m
    <3> QED BY <1>1, <2>1 DEF Merged, Object
  <2> HIDE DEF o, m
  <2> QED BY <2>1, <2>2, SyncType DEF HeapT
<1>3. (IF once THEN [m EXCEPT ![j] = 0] ELSE m) \in ListT
  BY SyncType DEF ListT
<1>4. StoreT'
  <2> HIDE DEF h, once, m
  <2> QED BY <1>0, <1>2, <1>3, SaveType
<1>5. RunsT'
  BY <1>0, OverType
<1>6. ClockT'
  <2> HIDE DEF once
  <2> QED BY <1>0 DEF ClockT, clock
<1>7. TimerT'
  BY <1>0 DEF TimerT, Restores, Reloads, Loaded
<1>8. (BooksT /\ CallerT /\ CuttingT)'
  BY <1>0 DEF books, marks, cutting, BooksT, CallerT, CuttingT
<1> QED BY <1>4, <1>5, <1>6, <1>7, <1>8

LEMMA RunMergeBusyType ==
  ASSUME TypeOK, NEW j \in Jobs, NEW s \in Slots, RunMergeBusy(j, s) PROVE TypeOK'
<1> USE Parts DEF AllT
<1>1. RunsT'
  BY OverType DEF RunMergeBusy
<1>2. StoreT'
  BY HeapType DEF RunMergeBusy, StoreT, store
<1>3. (BooksT /\ TimerT /\ CallerT /\ CuttingT /\ ClockT)'
  BY DEF RunMergeBusy, store, books, marks, timer, cutting, users, clock, BooksT,
         TimerT, CallerT, CuttingT, ClockT
<1> QED BY <1>1, <1>2, <1>3

(* A run by hand *)

LEMMA TriggerType == ASSUME TypeOK, NEW j \in Jobs, Trigger(j) PROVE TypeOK'
<1> USE Parts DEF AllT
<1>1. BooksT'
  BY DEF Trigger, BooksT, store, marks
<1>2. CallerT'
  BY DEF Trigger, CallerT
<1>3. (StoreT /\ RunsT /\ TimerT /\ CuttingT /\ ClockT)'
  BY DEF Trigger, store, timer, cutting, users, clock, StoreT, RunsT, TimerT,
         CuttingT, ClockT
<1> QED BY <1>1, <1>2, <1>3

LEMMA CallerScanType == ASSUME TypeOK, Hands, CallerScan PROVE TypeOK'
<1> USE Parts DEF AllT
<1>1. caller.job \in Jobs
  BY DEF CallerScan, Hands
<1>2. CallerT'
  <2>1. SyncMem[caller.job] \in Versions \cup {0}
    BY <1>1, SyncType DEF ListT
  <2> QED BY <2>1 DEF CallerScan, CallerT
<1>3. StoreT'
  BY SyncType, SyncKeepsType DEF CallerScan
<1>4. TimerT'
  BY DEF CallerScan, TimerT, Restores, Reloads, Loaded
<1>5. (RunsT /\ BooksT /\ CuttingT /\ ClockT)'
  BY DEF CallerScan, books, marks, cutting, users, clock, RunsT, BooksT,
         CuttingT, ClockT
<1> QED BY <1>2, <1>3, <1>4, <1>5

LEMMA CallerScanBusyType == ASSUME TypeOK, Hands, CallerScanBusy PROVE TypeOK'
<1> USE Parts DEF AllT
<1>1. CallerT'
  <2>1. mem[caller.job] \in Versions \cup {0}
    BY DEF CallerScanBusy, Hands, StoreT, ListT
  <2> QED BY <2>1 DEF CallerScanBusy, CallerT
<1>2. (StoreT /\ RunsT /\ BooksT /\ TimerT /\ CuttingT /\ ClockT)'
  BY DEF CallerScanBusy, store, books, marks, timer, cutting, users, clock,
         StoreT, RunsT, BooksT, TimerT, CuttingT, ClockT
<1> QED BY <1>1, <1>2

LEMMA CallerRefusedType == ASSUME TypeOK, Hands, CallerRefused PROVE TypeOK'
<1> USE Parts DEF AllT
<1>1. BooksT'
  BY DEF CallerRefused, CallerLeaves, Hands, BooksT, store, marks
<1>2. StoreT'
  BY HeapType DEF CallerRefused, StoreT, store
<1>3. CallerT'
  BY DEF CallerRefused, NoCaller, CallerT
<1>4. (RunsT /\ TimerT /\ CuttingT /\ ClockT)'
  BY DEF CallerRefused, timer, cutting, users, clock, RunsT, TimerT, CuttingT,
         ClockT
<1> QED BY <1>1, <1>2, <1>3, <1>4

LEMMA CallerClaimType == ASSUME TypeOK, Hands, CallerClaim PROVE TypeOK'
<1> USE Parts DEF AllT
<1> DEFINE j == caller.job
<1>1. j \in Jobs /\ caller.obj \in Versions /\ Slot(j) \in Slots
  BY SomeSlot DEF CallerClaim, Hands, CallerT, Free
<1>2. NewRun(caller.obj, TRUE) \in RunT
  BY <1>1, NewRunType
<1> HIDE DEF j
<1>3. RunsT'
  BY <1>1, <1>2, UpdType DEF CallerClaim, j
<1>4. BooksT'
  BY <1>1 DEF CallerClaim, j, BooksT, store, marks
<1>5. CallerT'
  BY <1>1 DEF CallerClaim, j, CallerT
<1>6. ClockT'
  BY <1>1 DEF CallerClaim, j, ClockT, users, clock
<1>7. (StoreT /\ TimerT /\ CuttingT)'
  BY DEF CallerClaim, store, timer, cutting, StoreT, TimerT, CuttingT
<1> QED BY <1>3, <1>4, <1>5, <1>6, <1>7

LEMMA CallerEndType == ASSUME TypeOK, Hands, CallerEnd PROVE TypeOK'
<1> USE Parts DEF AllT
<1>1. caller.job \in Jobs /\ caller.slot \in Slots
  BY DEF CallerEnd, Hands, CallerT
<1>2. RunsT'
  BY <1>1, IdleType, UpdType DEF CallerEnd
<1>3. BooksT'
  BY DEF CallerEnd, BooksT, store, marks
<1>4. CallerT'
  BY DEF CallerEnd, NoCaller, CallerT
<1>5. (StoreT /\ TimerT /\ CuttingT /\ ClockT)'
  BY DEF CallerEnd, store, timer, cutting, users, clock, StoreT, TimerT,
         CuttingT, ClockT
<1> QED BY <1>2, <1>3, <1>4, <1>5

(* The reaper and the user's cancel *)

LEMMA NoCutType == NoCut \in [pc : {"idle", "reset", "merge"},
                              job : Jobs \cup {None}, obj : Versions \cup {0}]
  BY DEF NoCut

LEMMA SweepType ==
  ASSUME TypeOK, NEW late \in SUBSET Jobs, ReaperSweep(late) PROVE TypeOK'
<1> USE Parts DEF AllT
<1> QED BY DEF ReaperSweep, store, books, marks, timer, users, clock, StoreT,
               RunsT, BooksT, TimerT, CallerT, CuttingT, ClockT

LEMMA ReapStartType == ASSUME TypeOK, NEW j \in Jobs, ReapStart(j) PROVE TypeOK'
<1> USE Parts DEF AllT
<1>1. CuttingT'
  BY DEF ReapStart, CuttingT
<1>2. BooksT'
  BY DEF ReapStart, BooksT, store
<1>3. (StoreT /\ RunsT /\ TimerT /\ CallerT /\ ClockT)'
  BY DEF ReapStart, store, timer, users, clock, StoreT, RunsT, TimerT, CallerT,
         ClockT
<1> QED BY <1>1, <1>2, <1>3

LEMMA CancelStartType ==
  ASSUME TypeOK, NEW j \in Jobs, CancelStart(j) PROVE TypeOK'
<1> USE Parts DEF AllT
<1>1. CuttingT'
  <2>1. mem[j] \in Versions \cup {0}
    BY DEF StoreT, ListT
  <2> QED BY <2>1 DEF CancelStart, CuttingT
<1>2. BooksT'
  BY DEF CancelStart, BooksT, store
<1>3. (StoreT /\ RunsT /\ TimerT /\ CallerT /\ ClockT)'
  BY DEF CancelStart, store, timer, users, clock, StoreT, RunsT, TimerT,
         CallerT, ClockT
<1> QED BY <1>1, <1>2, <1>3

(* The stamp of the time that a cutter leaves in an object.                   *)
LEMMA StampType ==
  ASSUME ClockT, NEW h \in HeapT, NEW j \in Jobs, NEW v \in Versions
  PROVE [h EXCEPT ![j][v].last = now] \in HeapT
<1>1. h[j][v] \in Object
  BY DEF HeapT
<1>2. [h[j][v] EXCEPT !.last = now] \in Object
  BY <1>1 DEF Object, ClockT
<1> QED BY <1>2 DEF HeapT

LEMMA CutType == ASSUME TypeOK, Hands, NEW a \in Cutters, Cut(a) PROVE TypeOK'
<1> USE Parts DEF AllT
<1> DEFINE j == cutter[a].job
           v == IF a = "reaper" THEN mem[j] ELSE cutter[a].obj
<1>1. j \in Jobs
  BY DEF Cut, Hands
<1>2. v \in Versions \cup {0}
  BY <1>1 DEF StoreT, ListT, CuttingT
<1>3. (IF v = 0 THEN heap ELSE [heap EXCEPT ![j][v].last = now]) \in HeapT
  <2> HIDE DEF v, j
  <2> QED BY <1>1, <1>2, StampType DEF StoreT
<1>4. StoreT'
  BY <1>3, HeapType DEF Cut, StoreT, store
<1>5. RunsT'
  <2> SUFFICES ASSUME handle[j] \in Slots
               PROVE [run EXCEPT ![j][handle[j]].cut = TRUE]
                       \in [Jobs -> [Slots -> RunT]]
    BY DEF Cut, RunsT
  <2>1. run[j][handle[j]] \in RunT
    BY <1>1 DEF RunsT
  <2>2. [run[j][handle[j]] EXCEPT !.cut = TRUE] \in RunT
    BY <2>1 DEF RunT
  <2> HIDE DEF j
  <2> QED BY <1>1, <2>2 DEF RunsT
<1>6. BooksT'
  BY DEF Cut, BooksT, store, marks
<1>7. CallerT'
  BY DEF Cut, NoCaller, CallerT
<1>8. CuttingT'
  BY <1>1, NoCutType DEF Cut, CuttingT
<1>9. (TimerT /\ ClockT)'
  BY DEF Cut, timer, users, clock, TimerT, ClockT
<1> QED BY <1>4, <1>5, <1>6, <1>7, <1>8, <1>9

LEMMA CutMergeType ==
  ASSUME TypeOK, Hands, NEW a \in Cutters, CutMerge(a) PROVE TypeOK'
<1> USE Parts DEF AllT
<1> DEFINE j == cutter[a].job
           h == IF SyncMem[j] = 0 THEN SyncHeap
                ELSE [SyncHeap EXCEPT ![j][SyncMem[j]].last = now]
<1>1. j \in Jobs /\ SyncMem[j] \in Versions \cup {0}
  BY SyncType DEF CutMerge, Hands, ListT
<1>2. h \in HeapT
  <2> HIDE DEF j
  <2> QED BY <1>1, SyncType, StampType DEF HeapT
<1>3. StoreT'
  <2> HIDE DEF h
  <2>1. Heap(h) /\ (Save(SyncMem, h) \/ Sync)
    BY DEF CutMerge, h
  <2> QED BY <1>2, <2>1, SyncType, SaveType, SyncKeepsType
<1>4. CuttingT'
  BY NoCutType DEF CutMerge, CuttingT
<1>5. TimerT'
  BY DEF CutMerge, TimerT, Restores, Reloads, Loaded
<1>6. (RunsT /\ BooksT /\ CallerT /\ ClockT)'
  BY DEF CutMerge, books, marks, users, clock, RunsT, BooksT, CallerT, ClockT
<1> QED BY <1>3, <1>4, <1>5, <1>6

LEMMA CutMergeBusyType ==
  ASSUME TypeOK, NEW a \in Cutters, CutMergeBusy(a) PROVE TypeOK'
<1> USE Parts DEF AllT
<1>1. CuttingT'
  BY NoCutType DEF CutMergeBusy, CuttingT
<1>2. (StoreT /\ RunsT /\ BooksT /\ TimerT /\ CallerT /\ ClockT)'
  BY DEF CutMergeBusy, store, books, marks, timer, users, clock, StoreT, RunsT,
         BooksT, TimerT, CallerT, ClockT
<1> QED BY <1>1, <1>2

LEMMA AdvanceType == ASSUME TypeOK, Advance PROVE TypeOK'
<1> USE Parts DEF AllT
<1>1. ClockT'
  BY CronAssumption DEF Advance, ClockT, users, CronAssumption
<1>2. (StoreT /\ RunsT /\ BooksT /\ TimerT /\ CallerT /\ CuttingT)'
  BY DEF Advance, store, books, marks, timer, cutting, StoreT, RunsT, BooksT,
         TimerT, CallerT, CuttingT
<1> QED BY <1>1, <1>2

-----------------------------------------------------------------------------
(* Hands is kept by every step. *)

LEMMA HandsStep == ASSUME TypeOK, Hands, [Next]_vars PROVE Hands'
<1> USE Parts DEF AllT
<1>1. CASE Advance \/ TickScan \/ TickScanBusy \/ ArmTimer
           \/ \E late \in SUBSET Jobs : ReaperSweep(late)
  BY <1>1 DEF Advance, TickScan, TickScanBusy, ArmTimer, ReaperSweep, cutting, Hands
<1>2. CASE \E j \in Jobs : \E op \in Ops : CliEdit(j, op) \/ ServiceEdit(j, op)
  BY <1>2 DEF CliEdit, ServiceEdit, cutting, Hands
<1>3. CASE TickDispatch
  <2>1. \A j \in Due : tick.snap[j] # 0 /\ Slot(j) \in Free(j)
    BY <1>3, SomeSlot DEF TickDispatch, Due, Fires
  <2>2. ASSUME NEW j \in Jobs, NEW s \in Slots, run'[j][s].pc \in {"run", "told", "merge"}
        PROVE run'[j][s].obj # 0
    <3>1. CASE j \notin Due
      BY <1>3, <2>2, <3>1 DEF TickDispatch, Hands, RunsT
    <3>2. CASE j \in Due /\ s = Slot(j)
      BY <1>3, <2>1, <3>2 DEF TickDispatch, NewRun, RunsT
    <3>3. CASE j \in Due /\ s # Slot(j)
      BY <1>3, <2>2, <3>3 DEF TickDispatch, Hands, RunsT
    <3> QED BY <3>1, <3>2, <3>3
  <2> QED BY <1>3, <2>2 DEF TickDispatch, cutting, Hands
<1>4. CASE \E j \in Jobs : \E s \in Slots :
             RunStep(j, s) \/ TellDone(j, s) \/ Defer(j, s)
  <2> PICK j \in Jobs, s \in Slots : RunStep(j, s) \/ TellDone(j, s) \/ Defer(j, s)
    BY <1>4
  <2>0. UNCHANGED <<caller, cutter>>
    BY DEF RunStep, RunEnd, RunMerge, RunMergeBusy, TellDone, Defer, cutting
  <2>1. \E r \in RunT : Upd(j, s, r) /\ (r.pc \in {"run", "told", "merge"} => r.obj # 0)
    <3>1. run[j][s] \in RunT
      BY DEF RunsT
    <3>2. CASE Over(j, s)
      <4> DEFINE r == [IdleRun EXCEPT !.pc = IF run[j][s].byhand THEN "over" ELSE "idle"]
      <4>1. r \in RunT /\ r.pc \notin {"run", "told", "merge"}
        BY IdleType DEF IdleRun
      <4> QED BY <3>2, <4>1 DEF Over
    <3>3. CASE \E p \in {"told", "merge"} :
                 run[j][s].pc \in {"run", "told"} /\ Upd(j, s, [run[j][s] EXCEPT !.pc = p])
      <4>1. run[j][s].obj # 0
        BY <3>3 DEF Hands
      <4>2. PICK p \in {"told", "merge"} : Upd(j, s, [run[j][s] EXCEPT !.pc = p])
        BY <3>3
      <4>3. [run[j][s] EXCEPT !.pc = p].obj = run[j][s].obj
        BY <3>1 DEF RunT
      <4> QED BY <3>1, <4>1, <4>2, <4>3, MovesType
    <3> QED BY <3>2, <3>3 DEF RunStep, RunEnd, RunMerge, RunMergeBusy, TellDone, Defer
  <2> QED BY <2>0, <2>1 DEF Upd, RunsT, Hands
<1>5. CASE \E j \in Jobs : Trigger(j) \/ ReapStart(j) \/ CancelStart(j)
  BY <1>5 DEF Trigger, ReapStart, CancelStart, cutting, CuttingT, Hands
<1>6. CASE CallerScan \/ CallerScanBusy \/ CallerRefused
  <2>1. UNCHANGED <<run, cutter>>
    BY <1>6 DEF CallerScan, CallerScanBusy, CallerRefused, cutting
  <2>2. caller' = NoCaller \/ (caller'.job = caller.job /\ caller'.pc = "scanned"
                               /\ caller.pc # "idle")
    BY <1>6 DEF CallerScan, CallerScanBusy, CallerRefused, CallerT
  <2> QED BY <2>1, <2>2 DEF NoCaller, Hands
<1>7. CASE CallerClaim
  <2>1. caller.job \in Jobs /\ Slot(caller.job) \in Free(caller.job) /\ caller.obj # 0
    BY <1>7, SomeSlot DEF CallerClaim, Hands
  <2>2. Slot(caller.job) # 0
    BY <2>1, Numbers DEF Free
  <2>3. caller'.job = caller.job /\ caller'.slot = Slot(caller.job)
    BY <1>7 DEF CallerClaim, CallerT
  <2> QED BY <1>7, <2>1, <2>2, <2>3 DEF CallerClaim, Upd, NewRun, RunsT, cutting, Hands
<1>8. CASE CallerEnd
  BY <1>8 DEF CallerEnd, Upd, IdleRun, NoCaller, RunsT, cutting, Hands
<1>9. CASE \E a \in Cutters : CutStep(a)
  <2> PICK a \in Cutters : CutStep(a)
    BY <1>9
  <2>1. CASE Cut(a)
    <3>1. \A j \in Jobs, s \in Slots :
            run'[j][s].pc = run[j][s].pc /\ run'[j][s].obj = run[j][s].obj
      <4>1. CASE run' = run
        BY <4>1
      <4>2. CASE \E k \in Jobs, t \in Slots : run' = [run EXCEPT ![k][t].cut = TRUE]
        <5>1. PICK k \in Jobs, t \in Slots : run' = [run EXCEPT ![k][t].cut = TRUE]
          BY <4>2
        <5>2. run[k][t] \in RunT
          BY DEF RunsT
        <5>3. run'[k][t] = [run[k][t] EXCEPT !.cut = TRUE]
          BY <5>1 DEF RunsT
        <5>4. run'[k][t].pc = run[k][t].pc /\ run'[k][t].obj = run[k][t].obj
          BY <5>2, <5>3 DEF RunT
        <5> QED BY <5>1, <5>4 DEF RunsT
      <4>3. cutter[a].job \in Jobs
        BY <2>1 DEF Cut, Hands
      <4> QED BY <2>1, <4>1, <4>2, <4>3 DEF Cut
    <3>2. caller' = caller \/ caller' = NoCaller
      BY <2>1 DEF Cut
    <3>3. \A b \in Cutters : cutter'[b].pc # "idle" => cutter'[b].job \in Jobs
      BY <2>1 DEF Cut, NoCut, CuttingT, Hands
    <3> QED BY <3>1, <3>2, <3>3 DEF NoCaller, Hands
  <2>2. CASE CutMerge(a) \/ CutMergeBusy(a)
    BY <2>2 DEF CutMerge, CutMergeBusy, NoCut, CuttingT, Hands
  <2> QED BY <2>1, <2>2 DEF CutStep
<1>10. CASE UNCHANGED vars
  BY <1>10 DEF vars, cutting, Hands
<1> QED BY <1>1, <1>2, <1>3, <1>4, <1>5, <1>6, <1>7, <1>8, <1>9, <1>10
        DEF Next, CallerStep

LEMMA TypeStep == ASSUME TypeOK, Hands, [Next]_vars PROVE TypeOK'
<1>1. CASE UNCHANGED vars
  <2> USE Parts DEF AllT
  <2> QED BY <1>1 DEF vars, store, books, marks, timer, cutting, users, clock,
             StoreT, RunsT, BooksT, TimerT, CallerT, CuttingT, ClockT
<1>2. CASE Next
  BY <1>2, CliEditType, ServiceEditType, TickScanType, TickScanBusyType,
     TickDispatchType, ArmTimerType, TellDoneType, DeferType, RunEndType,
     RunMergeType, RunMergeBusyType, TriggerType, CallerScanType,
     CallerScanBusyType, CallerRefusedType, CallerClaimType, CallerEndType,
     SweepType, ReapStartType, CancelStartType, CutType, CutMergeType,
     CutMergeBusyType, AdvanceType DEF Next, RunStep, CallerStep, CutStep
<1> QED BY <1>1, <1>2

LEMMA TypedHands == Spec => [](TypeOK /\ Hands)
<1>1. Init => Hands
  BY DEF Init, Hands, IdleRun, NoCaller, NoCut
<1> QED BY <1>1, InitType, TypeStep, HandsStep, PTL DEF Spec

(* Every list, file, object, run and handle of the service is of its type,   *)
(* for any jobs, kinds and bounds (CronService).                              *)
THEOREM TypeCorrect == Spec => []TypeOK
  BY TypedHands, PTL

-----------------------------------------------------------------------------
(* A job counted as executing has a run: a step of another job, and a step of *)
(* this job that does not end a run, keep the one it has.                     *)

Active(j, s) == run[j][s].pc \in {"run", "told"}

LEMMA ExecutingStep ==
  ASSUME TypeOK, Hands, ExecutingRuns, [Next]_vars PROVE ExecutingRuns'
<1> USE Parts DEF AllT
<1>1. CASE UNCHANGED <<run, executing>>
  BY <1>1 DEF ExecutingRuns
<1>2. CASE TickDispatch
  <2> SUFFICES ASSUME NEW j \in Jobs, j \in executing'
               PROVE \E s \in Slots : Active(j, s)'
    BY <1>2 DEF ExecutingRuns, Active, BooksT, TickDispatch, Due
  <2>1. CASE j \in Due
    BY <1>2, <2>1, SomeSlot DEF TickDispatch, Free, NewRun, Active, RunsT
  <2>2. CASE j \notin Due
    BY <1>2, <2>2 DEF TickDispatch, ExecutingRuns, Active, RunsT
  <2> QED BY <2>1, <2>2
<1>3. CASE \E j \in Jobs : \E s \in Slots :
             RunStep(j, s) \/ TellDone(j, s) \/ Defer(j, s)
  <2> PICK j \in Jobs, s \in Slots : RunStep(j, s) \/ TellDone(j, s) \/ Defer(j, s)
    BY <1>3
  <2>1. \A k \in Jobs, t \in Slots : <<k, t>> # <<j, s>> => run'[k][t] = run[k][t]
    <3>1. \E r : Upd(j, s, r)
      BY DEF RunStep, RunEnd, RunMerge, RunMergeBusy, TellDone, Defer, Over
    <3> QED BY <3>1 DEF Upd, RunsT
  <2>2. CASE \E res \in {"ok", "fail", "pause"} :
             \E late \in BOOLEAN : RunEnd(j, s, res, late)
    BY <2>1, <2>2 DEF RunEnd, Finally, ExecutingRuns, BooksT
  <2>3. CASE RunMerge(j, s) \/ RunMergeBusy(j, s)
    BY <2>1, <2>3 DEF RunMerge, RunMergeBusy, ExecutingRuns, books, BooksT
  <2>4. CASE TellDone(j, s) \/ Defer(j, s)
    <3>1. run[j][s] \in RunT
      BY DEF RunsT
    <3>2. run'[j][s].pc = "told"
      BY <2>4, <3>1 DEF TellDone, Defer, Upd, RunsT, RunT
    <3>3. executing' = executing
      BY <2>4 DEF TellDone, Defer, books
    <3> QED BY <2>1, <3>2, <3>3 DEF ExecutingRuns, BooksT
  <2> QED BY <2>2, <2>3, <2>4 DEF RunStep
<1>4. CASE CallerClaim
  <2>1. caller.job \in Jobs /\ Slot(caller.job) \in Free(caller.job)
    BY <1>4, SomeSlot DEF CallerClaim, Hands
  <2>2. run'[caller.job][Slot(caller.job)].pc = "run"
    BY <1>4, <2>1 DEF CallerClaim, Upd, NewRun, RunsT, Free
  <2>3. \A k \in Jobs, t \in Slots : Active(k, t) => run'[k][t] = run[k][t]
    BY <1>4, <2>1 DEF CallerClaim, Upd, RunsT, Free, Active
  <2>4. executing' = executing \cup {caller.job}
    BY <1>4 DEF CallerClaim
  <2> QED BY <2>1, <2>2, <2>3, <2>4 DEF ExecutingRuns, Active, BooksT, Free
<1>5. CASE CallerEnd
  <2>1. executing' = executing \ {caller.job}
    BY <1>5 DEF CallerEnd
  <2>2. \A k \in Jobs : k # caller.job => run'[k] = run[k]
    BY <1>5 DEF CallerEnd, Upd, RunsT
  <2> QED BY <2>1, <2>2 DEF ExecutingRuns, BooksT
<1>6. ASSUME NEW a \in Cutters, Cut(a) PROVE ExecutingRuns'
  <2>1. executing' = executing \ {cutter[a].job}
    BY <1>6 DEF Cut
  <2>2. \A k \in Jobs : k # cutter[a].job => run'[k] = run[k]
    BY <1>6 DEF Cut, RunsT
  <2> QED BY <2>1, <2>2 DEF ExecutingRuns, BooksT
<1>7. CASE UNCHANGED vars
  BY <1>1, <1>7 DEF vars, books
<1>8. CASE \/ Advance \/ TickScan \/ TickScanBusy \/ ArmTimer
           \/ CallerScan \/ CallerScanBusy \/ CallerRefused
  BY <1>1, <1>8 DEF Advance, TickScan, TickScanBusy, ArmTimer, CallerScan,
                    CallerScanBusy, CallerRefused, books
<1>9. CASE \/ \E j \in Jobs : \E op \in Ops : CliEdit(j, op) \/ ServiceEdit(j, op)
           \/ \E j \in Jobs : Trigger(j) \/ ReapStart(j) \/ CancelStart(j)
           \/ \E late \in SUBSET Jobs : ReaperSweep(late)
           \/ \E a \in Cutters : CutMerge(a) \/ CutMergeBusy(a)
  BY <1>1, <1>9 DEF CliEdit, ServiceEdit, Trigger, ReapStart, CancelStart,
                    ReaperSweep, CutMerge, CutMergeBusy, books
<1> QED BY <1>2, <1>3, <1>4, <1>5, <1>6, <1>7, <1>8, <1>9
        DEF Next, CallerStep, CutStep

(* A job in _executing has a run in its callback, so the book-keeping never   *)
(* leaves a job that no tick would fire again (_run_job_isolated, run_job,    *)
(* cancel and _force_reap all write these books).                             *)
THEOREM ExecutingHasRun == Spec => []ExecutingRuns
<1>1. Init => ExecutingRuns
  BY DEF Init, ExecutingRuns
<1> QED BY <1>1, ExecutingStep, TypedHands, PTL DEF Spec

-----------------------------------------------------------------------------
(* The timer alone: nobody runs a job by hand, reaps or cancels one.  Then    *)
(* _executing is exact: it has the jobs with a run in its callback, and such  *)
(* a job has one.                                                            *)
TimerAlone == Features \cap {"trigger", "reap", "cancel"} = {}

NobodyCuts ==
  /\ caller.pc = "idle" /\ todo = {}
  /\ \A a \in Cutters : cutter[a].pc = "idle"

ActiveExecuting ==
  \A j \in Jobs, s \in Slots : run[j][s].pc \in {"run", "told"} => j \in executing

OverlapInv == NobodyCuts /\ ActiveExecuting /\ NoOverlap

LEMMA OverlapStep ==
  ASSUME TimerAlone, TypeOK, Hands, OverlapInv, [Next]_vars PROVE OverlapInv'
<1> USE Parts DEF AllT
<1>n. NobodyCuts /\ ActiveExecuting /\ NoOverlap BY DEF OverlapInv
<1>1. ~CallerStep /\ \A a \in Cutters : ~CutStep(a)
  BY <1>n DEF NobodyCuts, CallerStep, CallerScan, CallerScanBusy, CallerRefused, CallerClaim,
     CallerEnd, CutStep, Cut, CutMerge, CutMergeBusy
<1>2. /\ \A j \in Jobs : ~(Trigger(j) \/ ReapStart(j) \/ CancelStart(j))
      /\ \A late \in SUBSET Jobs : ~ReaperSweep(late)
  BY <1>n DEF TimerAlone, NobodyCuts, Trigger, ReapStart, CancelStart, ReaperSweep
<1>3. NobodyCuts'
  <2> SUFFICES UNCHANGED <<caller, todo, cutter>> BY <1>n DEF NobodyCuts
  <2> USE DEF cutting
  <2>1. CASE Advance \/ TickScan \/ TickScanBusy \/ TickDispatch \/ ArmTimer \/ UNCHANGED vars
    BY <2>1 DEF Advance, TickScan, TickScanBusy, TickDispatch, ArmTimer, vars
  <2>2. CASE \E j \in Jobs : \E op \in Ops : CliEdit(j, op) \/ ServiceEdit(j, op)
    <3>1. PICK j \in Jobs, op \in Ops : CliEdit(j, op) \/ ServiceEdit(j, op) BY <2>2
    <3>2. CASE CliEdit(j, op) BY <3>2, Zenon DEF CliEdit
    <3>3. CASE ServiceEdit(j, op) BY <3>3 DEF ServiceEdit
    <3> QED BY <3>1, <3>2, <3>3
  <2>3. CASE \E j \in Jobs : \E s \in Slots : RunStep(j, s) \/ TellDone(j, s) \/ Defer(j, s)
    <3>1. PICK j \in Jobs, s \in Slots : RunStep(j, s) \/ TellDone(j, s) \/ Defer(j, s) BY <2>3
    <3>2. CASE RunStep(j, s)
      BY <3>2 DEF RunStep, RunEnd, RunMerge, RunMergeBusy
    <3>3. CASE TellDone(j, s) BY <3>3 DEF TellDone
    <3>4. CASE Defer(j, s) BY <3>4 DEF Defer
    <3> QED BY <3>1, <3>2, <3>3, <3>4
  <2> QED BY <1>1, <1>2, <2>1, <2>2, <2>3 DEF Next
<1>4. CASE UNCHANGED <<run, executing>>
  BY <1>3, <1>4, <1>n DEF OverlapInv, ActiveExecuting, NoOverlap
<1>5. CASE TickDispatch
  <2>1. \A j \in Due : j \in Jobs /\ j \notin executing /\ Slot(j) \in Slots
    BY <1>5, SomeSlot DEF TickDispatch, Due, Free
  <2>2. /\ executing' = executing \cup Due
        /\ run' = [j \in Jobs |-> IF j \in Due
                     THEN [run[j] EXCEPT ![Slot(j)] = NewRun(tick.snap[j], FALSE)]
                     ELSE run[j]]
    BY <1>5 DEF TickDispatch
  <2>3. ASSUME NEW j \in Jobs, NEW s \in Slots, run'[j][s].pc \in {"run", "told"}
        PROVE  IF j \in Due THEN s = Slot(j) ELSE run[j][s].pc \in {"run", "told"}
    BY <2>1, <2>2, <2>3, <1>n DEF ActiveExecuting, RunsT
  <2>4. ActiveExecuting' BY <2>2, <2>3, <1>n DEF ActiveExecuting
  <2>5. NoOverlap' BY <2>3, <1>n DEF NoOverlap
  <2> QED BY <1>3, <2>4, <2>5 DEF OverlapInv
<1>6. CASE \E j \in Jobs : \E s \in Slots :
             RunStep(j, s) \/ TellDone(j, s) \/ Defer(j, s)
  <2> PICK j \in Jobs, s \in Slots : RunStep(j, s) \/ TellDone(j, s) \/ Defer(j, s)
    BY <1>6
  <2>1. \A k \in Jobs, t \in Slots : <<k, t>> # <<j, s>> => run'[k][t] = run[k][t]
    <3>1. \E r : Upd(j, s, r)
      BY DEF RunStep, RunEnd, RunMerge, RunMergeBusy, TellDone, Defer, Over
    <3> QED BY <3>1 DEF Upd, RunsT
  <2>2. run[j][s] \in RunT BY DEF RunsT
  <2>3. CASE \E res \in {"ok", "fail", "pause"} : \E late \in BOOLEAN : RunEnd(j, s, res, late)
    <3>1. run[j][s].pc \in {"run", "told"} /\ executing' = executing \ {j}
      BY <2>3 DEF RunEnd, Finally
    <3>2. run'[j][s].pc \notin {"run", "told"}
      BY <2>2, <2>3 DEF RunEnd, Over, Upd, IdleRun, RunsT, RunT
    <3>3. \A t \in Slots : run[j][t].pc \in {"run", "told"} => t = s
      BY <3>1, <1>n DEF NoOverlap
    <3> QED BY <1>3, <2>1, <3>1, <3>2, <3>3, <1>n DEF OverlapInv, ActiveExecuting, NoOverlap
  <2>4. CASE RunMerge(j, s) \/ RunMergeBusy(j, s)
    <3>1. run'[j][s].pc \notin {"run", "told"} /\ UNCHANGED executing
      BY <2>4 DEF RunMerge, RunMergeBusy, Over, Upd, IdleRun, RunsT, books
    <3> QED BY <1>3, <2>1, <3>1, <1>n DEF OverlapInv, ActiveExecuting, NoOverlap
  <2>5. CASE TellDone(j, s) \/ Defer(j, s)
    <3>1. run[j][s].pc = "run" /\ UNCHANGED executing BY <2>5 DEF TellDone, Defer, books
    <3> QED BY <1>3, <2>1, <3>1, <1>n DEF OverlapInv, ActiveExecuting, NoOverlap
  <2> QED BY <2>3, <2>4, <2>5 DEF RunStep
<1>7. CASE \/ Advance \/ TickScan \/ TickScanBusy \/ ArmTimer \/ UNCHANGED vars
           \/ \E j \in Jobs : \E op \in Ops : CliEdit(j, op) \/ ServiceEdit(j, op)
  BY <1>4, <1>7 DEF Advance, TickScan, TickScanBusy, ArmTimer, CliEdit, ServiceEdit, books, vars
<1> QED BY <1>1, <1>2, <1>5, <1>6, <1>7 DEF Next

(* The timer never starts a job whose callback still runs, whatever reloads,  *)
(* edits, slow merges and busy locks come in between (_on_timer,              *)
(* _run_job_isolated).  Each of the three features left out breaks it: they   *)
(* clear the books of a job by its id while another run of it goes on.        *)
THEOREM TimerNeverOverlaps == ASSUME TimerAlone PROVE Spec => []NoOverlap
<1>1. Init => OverlapInv
  BY DEF Init, OverlapInv, NobodyCuts, ActiveExecuting, NoOverlap, NoCaller, NoCut, IdleRun
<1>2. TypeOK /\ Hands /\ OverlapInv /\ [Next]_vars => OverlapInv' BY OverlapStep
<1>3. OverlapInv => NoOverlap BY DEF OverlapInv
<1> QED BY <1>1, <1>2, <1>3, TypedHands, PTL DEF Spec

-----------------------------------------------------------------------------
(* A list with its objects tells of every job what the content d of the file  *)
(* tells, or what the users want.                                             *)
Matches(m, h, d) ==
  \A j \in Jobs :
    /\ m[j] = 0 <=> d[j] = None
    /\ m[j] # 0 /\ kind[j] # "at" => h[j][m[j]].paused = d[j].paused

Good(m, h, w) ==
  \A j \in Jobs :
    /\ m[j] = 0 <=> w[j] \in {"absent", "removed"}
    /\ m[j] # 0 /\ kind[j] # "at" => (h[j][m[j]].paused <=> w[j] = "paused")

(* The list in memory tells what was last read or written.                    *)
ListOK == Matches(mem, heap, loaded)

LEMMA SyncMatches ==
  ASSUME TypeOK, ListOK PROVE Matches(SyncMem, SyncHeap, disk)
<1>1. CASE ~Reloads
  BY <1>1 DEF Reloads, SyncMem, SyncHeap, ListOK
<1>2. CASE Reloads
  <2> SUFFICES ASSUME NEW j \in Jobs
               PROVE /\ SyncMem[j] = 0 <=> disk[j] = None
                     /\ SyncMem[j] # 0 =>
                          SyncHeap[j][SyncMem[j]].paused = disk[j].paused
    BY DEF Matches
  <2>1. SyncMem[j] = IF disk[j] = None THEN 0 ELSE Fresh(j)
    BY <1>2 DEF SyncMem
  <2>2. Fresh(j) \in Versions /\ Fresh(j) # 0
    BY FreshExists, Numbers
  <2>3. disk[j] # None => SyncHeap[j][Fresh(j)] = Loaded(disk[j])
    BY <1>2, <2>2 DEF SyncHeap, TypeOK
  <2> QED BY <2>1, <2>2, <2>3 DEF Loaded
<1> QED BY <1>1, <1>2

LEMMA SyncGood ==
  ASSUME TypeOK, ListOK, EditsKept PROVE Good(SyncMem, SyncHeap, want)
<1>1. \A j \in Jobs : disk[j] # None => disk[j].paused \in BOOLEAN
  BY DEF TypeOK, Record
<1> QED BY <1>1, SyncMatches DEF Matches, Good, EditsKept

(* After a save the file, what was last seen of it and the list agree.        *)
LEMMA SaveMatches ==
  ASSUME NEW m \in ListT, NEW h \in HeapT, Save(m, h), Heap(h), kind' = kind
  PROVE /\ ListOK'
        /\ Good(m, h, want') => EditsKept'
<1> SUFFICES ASSUME NEW j \in Jobs
             PROVE /\ mem'[j] = m[j] /\ loaded'[j] = disk'[j]
                   /\ m[j] = 0 <=> disk'[j] = None
                   /\ m[j] # 0 => /\ disk'[j].paused = h[j][m[j]].paused
                                  /\ heap'[j][mem'[j]].paused = h[j][m[j]].paused
  BY DEF ListOK, Matches, Good, EditsKept, Save
<1>1. mem'[j] = m[j] /\ loaded' = disk' /\ disk'[j] = Saved(m, h)[j]
  BY DEF Save
<1>2. CASE m[j] = 0
  BY <1>1, <1>2 DEF Saved
<1>3. CASE m[j] # 0
  <2>1. m[j] \in Versions
    BY <1>3 DEF ListT
  <2>2. disk'[j] = [paused |-> h[j][m[j]].paused, auto |-> h[j][m[j]].auto,
                    last |-> h[j][m[j]].last]
    BY <1>1, <1>3 DEF Saved
  <2>3. disk'[j] # None
    BY <1>1, <2>1, <2>2, SavedType, RecordAssumption DEF DiskT, HeapT, Object, Record
  <2>4. heap'[j][mem'[j]] = h[j][m[j]]
    BY <1>1, <2>1, HeapKeeps
  <2> QED BY <1>1, <1>3, <2>2, <2>3, <2>4
<1> QED BY <1>1, <1>2, <1>3

(* A locked core that only read leaves them in agreement too.                 *)
LEMMA ReadMatches ==
  ASSUME TypeOK, ListOK, Sync, Heap(SyncHeap), kind' = kind
  PROVE ListOK'
<1>1. loaded' = disk /\ mem' = SyncMem
  BY DEF Sync, Reloads
<1> SUFFICES ASSUME NEW j \in Jobs, SyncMem[j] # 0
             PROVE heap'[j][mem'[j]] = SyncHeap[j][SyncMem[j]]
  BY <1>1, SyncMatches DEF ListOK, Matches
<1>2. mem'[j] \in Versions
  BY <1>1, SyncType DEF ListT
<1> QED BY <1>1, <1>2, HeapKeeps

(* What a step does to the objects does not matter to the file, as long as it *)
(* leaves the pauses in the list alone.                                       *)
LEMMA PausesKept ==
  ASSUME TypeOK, ListOK, NEW h, Heap(h), UNCHANGED <<mem, loaded, kind>>,
         \A j \in Jobs : mem[j] # 0 => h[j][mem[j]].paused = heap[j][mem[j]].paused
  PROVE ListOK'
<1> SUFFICES ASSUME NEW j \in Jobs, mem[j] # 0
             PROVE heap'[j][mem'[j]] = h[j][mem[j]]
  BY DEF ListOK, Matches
<1> QED BY HeapKeeps DEF TypeOK

LEMMA EditsUnchanged ==
  ASSUME EditsKept, UNCHANGED <<disk, want, kind>> PROVE EditsKept'
  BY DEF EditsKept

LEMMA ListUnchanged ==
  ASSUME ListOK, UNCHANGED <<loaded, mem, heap, kind>> PROVE ListOK'
  BY DEF ListOK, Matches

EditInv == TypeOK /\ Hands /\ ListOK /\ EditsKept

LEMMA CliEditKept ==
  ASSUME EditInv, NEW j \in Jobs, NEW op \in Ops, CliEdit(j, op)
  PROVE ListOK' /\ EditsKept'
<1>1. ListOK'
  BY ListUnchanged DEF CliEdit, clock, EditInv
<1>2. want' = [want EXCEPT ![j] = op] /\ kind' = kind
  BY DEF CliEdit, Asks, clock
<1>3. /\ disk'[j] = None <=> op = "removed"
      /\ disk'[j] # None => (disk'[j].paused <=> op = "paused")
  <2>1. CASE op = "removed"
    BY <2>1 DEF CliEdit, EditInv, TypeOK
  <2>2. CASE op # "removed" /\ want[j] = "absent"
    <3>1. op = "active" /\ disk'[j] = NewRecord
      BY <2>2 DEF CliEdit, Asks, EditInv, TypeOK
    <3>2. NewRecord \in Record
      BY NewRecordType, Parts DEF AllT, EditInv
    <3>3. NewRecord.paused = FALSE
      BY DEF NewRecord
    <3>4. NewRecord # None
      BY <3>2, RecordAssumption
    <3> QED BY <3>1, <3>3, <3>4
  <2>3. CASE op # "removed" /\ want[j] # "absent"
    <3>1. disk[j] \in Record /\ disk'[j] = Edited(disk[j], op)
      BY <2>3 DEF CliEdit, EditInv, TypeOK
    <3>2. Edited(disk[j], op) \in Record
          /\ (Edited(disk[j], op).paused <=> op = "paused")
      BY <2>3, <3>1 DEF Edited, Record, Ops
    <3> QED BY <2>3, <3>1, <3>2, RecordAssumption
  <2> QED BY <2>1, <2>2, <2>3
<1>4. \A k \in Jobs : k # j => disk'[k] = disk[k] /\ want'[k] = want[k]
  BY <1>2 DEF CliEdit, EditInv, TypeOK
<1>5. want'[j] = op
  BY <1>2 DEF EditInv, TypeOK
<1> QED BY <1>1, <1>2, <1>3, <1>4, <1>5 DEF EditInv, EditsKept, Ops

LEMMA ServiceEditKept ==
  ASSUME EditInv, NEW j \in Jobs, NEW op \in Ops, ServiceEdit(j, op)
  PROVE ListOK' /\ EditsKept'
<1> USE Parts DEF EditInv, AllT
<1> DEFINE v == IF want[j] = "absent" THEN Fresh(j) ELSE SyncMem[j]
           o == IF want[j] = "absent" THEN Loaded(NewRecord)
                ELSE [Edited(SyncHeap[j][v], op) EXCEPT !.enabled = (op = "active")]
           h == IF op = "removed" THEN SyncHeap ELSE [SyncHeap EXCEPT ![j][v] = o]
           m == [SyncMem EXCEPT ![j] = IF op = "removed" THEN 0 ELSE v]
<1>0. Asks(j, op) /\ (want[j] # "absent" => SyncMem[j] # 0) /\ Save(m, h) /\ Heap(h)
      /\ kind' = kind
  BY DEF ServiceEdit, clock
<1>1. v \in Versions /\ v # 0
  BY <1>0, SyncType, FreshExists, Numbers DEF ListT
<1>2. op # "removed" => o \in Object /\ (o.paused <=> op = "paused")
  <2>1. CASE want[j] = "absent"
    <3>1. op = "active"
      BY <1>0, <2>1 DEF Asks
    <3> QED BY <2>1, <3>1, NewRecordType, LoadedType DEF Loaded, NewRecord
  <2>2. CASE want[j] # "absent" /\ op # "removed"
    <3>1. SyncHeap[j][v] \in Object
      BY <1>1, SyncType DEF HeapT
    <3> HIDE DEF v
    <3>2. Edited(SyncHeap[j][v], op) \in Object
          /\ (Edited(SyncHeap[j][v], op).paused <=> op = "paused")
      BY <2>2, <3>1 DEF Edited, Object, Ops
    <3> QED BY <2>2, <3>2 DEF Object
  <2> QED BY <2>1, <2>2
<1>3. h \in HeapT /\ m \in ListT
  <2> HIDE DEF o, v
  <2> QED BY <1>1, <1>2, SyncType DEF HeapT, ListT
<1>4. want' = [want EXCEPT ![j] = op]
  BY <1>0 DEF Asks
<1>5. Good(m, h, want')
  <2>0. Good(SyncMem, SyncHeap, want)
    BY SyncGood
  <2>1. want'[j] = op /\ \A k \in Jobs : k # j => want'[k] = want[k]
    BY <1>4 DEF ClockT
  <2> HIDE DEF o, v
  <2>2. /\ m[j] = IF op = "removed" THEN 0 ELSE v
        /\ \A k \in Jobs : k # j => m[k] = SyncMem[k] /\ h[k] = SyncHeap[k]
    BY SyncType DEF ListT, HeapT
  <2>3. op # "removed" => h[j][v] = o
    BY <1>1, SyncType DEF HeapT
  <2> HIDE DEF h, m
  <2> QED BY <1>1, <1>2, <2>0, <2>1, <2>2, <2>3 DEF Good, Ops
<1> HIDE DEF h, m
<1> QED BY <1>0, <1>3, <1>5, SaveMatches

LEMMA TickScanKept == ASSUME EditInv, TickScan PROVE ListOK' /\ EditsKept'
<1> USE Parts DEF EditInv, AllT
<1> DEFINE m == [j \in Jobs |-> IF j \in pending THEN 0 ELSE SyncMem[j]]
<1>0. /\ IF m # SyncMem THEN Save(m, SyncHeap) ELSE Sync
      /\ want' = [j \in Jobs |-> IF m[j] # SyncMem[j] THEN "removed" ELSE want[j]]
      /\ Heap(SyncHeap) /\ kind' = kind
  BY DEF TickScan, clock
<1>1. CASE m = SyncMem
  <2>1. want' = want /\ Sync
    BY <1>0, <1>1 DEF ClockT
  <2> QED BY <1>0, <2>1, ReadMatches, EditsUnchanged DEF Sync
<1>2. CASE m # SyncMem
  <2>1. m \in ListT
    BY SyncType DEF ListT
  <2>2. Good(SyncMem, SyncHeap, want)
    BY SyncGood
  <2>3. Good(m, SyncHeap, want')
    BY <1>0, <2>2 DEF Good
  <2> HIDE DEF m
  <2> QED BY <1>0, <1>2, <2>1, <2>3, SyncType, SaveMatches
<1> QED BY <1>1, <1>2

LEMMA TellDoneKept ==
  ASSUME EditInv, NEW j \in Jobs, NEW s \in Slots, TellDone(j, s)
  PROVE ListOK' /\ EditsKept'
<1> USE Parts DEF EditInv, AllT
<1> DEFINE m == [SyncMem EXCEPT ![j] = 0]
<1>0. /\ IF SyncMem[j] # 0
         THEN Save(m, SyncHeap) /\ want' = [want EXCEPT ![j] = "removed"]
         ELSE Sync /\ want' = want
      /\ Heap(SyncHeap) /\ kind' = kind
  BY DEF TellDone, clock
<1>1. CASE SyncMem[j] = 0
  BY <1>0, <1>1, ReadMatches, EditsUnchanged DEF Sync
<1>2. CASE SyncMem[j] # 0
  <2>1. m \in ListT
    BY SyncType DEF ListT
  <2>2. Good(SyncMem, SyncHeap, want)
    BY SyncGood
  <2>3. Good(m, SyncHeap, want')
    BY <1>0, <1>2, <2>2, SyncType DEF Good, ListT, ClockT
  <2> HIDE DEF m
  <2> QED BY <1>0, <1>2, <2>1, <2>3, SyncType, SaveMatches
<1> QED BY <1>1, <1>2

LEMMA DeferKept ==
  ASSUME EditInv, NEW j \in Jobs, NEW s \in Slots, Defer(j, s)
  PROVE ListOK' /\ EditsKept'
<1> USE DEF EditInv
<1>1. EditsKept'
  BY EditsUnchanged DEF Defer, users, clock
<1>2. \A k \in Jobs : mem[k] # 0 => heap'[k][mem[k]].paused = heap[k][mem[k]].paused
  <2>1. CASE heap' = heap
    BY <2>1
  <2>2. CASE mem[j] # 0 /\ heap' = [heap EXCEPT ![j][mem[j]].enabled = FALSE]
    <3>1. heap[j][mem[j]] \in Object
      BY <2>2 DEF TypeOK
    <3>2. [heap[j][mem[j]] EXCEPT !.enabled = FALSE].paused = heap[j][mem[j]].paused
      BY <3>1 DEF Object
    <3> QED BY <2>2, <3>2 DEF TypeOK
  <2> QED BY <2>1, <2>2 DEF Defer
<1>3. UNCHANGED <<mem, loaded, kind>>
  BY DEF Defer, clock
<1> QED BY <1>1, <1>2, <1>3 DEF ListOK, Matches

LEMMA RunEndKept ==
  ASSUME EditInv, NEW j \in Jobs, NEW s \in Slots,
         NEW res \in {"ok", "fail", "pause"}, NEW late \in BOOLEAN,
         RunEnd(j, s, res, late)
  PROVE ListOK' /\ EditsKept'
<1> USE Parts DEF EditInv, AllT
<1> DEFINE r == run[j][s]
           o == Outcome(j, r, heap[j][r.obj], res, late, j \in reaped \cup cancelled)
           h == [heap EXCEPT ![j][r.obj] = o]
<1>0. Heap(h) /\ UNCHANGED <<mem, loaded, kind, disk, want>>
  BY DEF RunEnd, store, users, clock
<1>1. r.obj \in Versions
  BY DEF RunEnd, RunsT, RunT, Hands
<1>2. o.paused = heap[j][r.obj].paused
  <2>1. heap[j][r.obj] \in Object
    BY <1>1 DEF StoreT, HeapT
  <2> HIDE DEF r
  <2> QED BY <2>1 DEF Outcome, Object
<1>3. \A k \in Jobs : mem[k] # 0 => h[k][mem[k]].paused = heap[k][mem[k]].paused
  <2> HIDE DEF o, r
  <2> QED BY <1>1, <1>2 DEF StoreT, HeapT, ListT
<1> HIDE DEF h
<1> QED BY <1>0, <1>3, PausesKept, EditsUnchanged

LEMMA RunMergeKept ==
  ASSUME EditInv, NEW j \in Jobs, NEW s \in Slots, RunMerge(j, s)
  PROVE ListOK' /\ EditsKept'
<1> USE Parts DEF EditInv, AllT
<1> DEFINE l == SyncMem
           o == heap[j][run[j][s].obj]
           h == IF l[j] = 0 THEN SyncHeap
                ELSE [SyncHeap EXCEPT ![j][l[j]] = Merged(j, o, @)]
           once == kind[j] = "once" /\ l[j] # 0
           m == IF once THEN [l EXCEPT ![j] = 0] ELSE l
<1>0. /\ run[j][s].pc = "merge" /\ Save(m, h) /\ Heap(h) /\ kind' = kind
      /\ want' = IF once THEN [want EXCEPT ![j] = "removed"] ELSE want
  BY DEF RunMerge, clock
<1>1. o \in Object
  <2>1. run[j][s] \in RunT /\ run[j][s].obj # 0
    BY <1>0 DEF RunsT, Hands
  <2> QED BY <2>1 DEF RunT, StoreT, HeapT
<1>2. l[j] # 0 =>
        /\ l[j] \in Versions
        /\ Merged(j, o, SyncHeap[j][l[j]]) \in Object
        /\ kind[j] # "at" =>
             Merged(j, o, SyncHeap[j][l[j]]).paused = SyncHeap[j][l[j]].paused
  <2> HAVE l[j] # 0
  <2>1. l[j] \in Versions /\ SyncHeap[j][l[j]] \in Object
    BY SyncType DEF ListT, HeapT
  <2> HIDE DEF o, l
  <2> QED BY <1>1, <2>1 DEF Merged, Object
<1>3. h \in HeapT /\ m \in ListT
  <2>1. l \in ListT /\ SyncHeap \in HeapT
    BY SyncType
  <2> HIDE DEF o, l
  <2> QED BY <1>2, <2>1 DEF HeapT, ListT
<1>4. Good(m, h, want')
  <2>0. Good(l, SyncHeap, want) /\ l \in ListT /\ SyncHeap \in HeapT
    BY SyncGood, SyncType
  <2> HIDE DEF o, l
  <2>1. CASE once
    <3>1. /\ m[j] = 0 /\ want'[j] = "removed"
          /\ \A k \in Jobs : k # j => /\ m[k] = l[k] /\ h[k] = SyncHeap[k]
                                      /\ want'[k] = want[k]
      BY <1>0, <2>0, <2>1 DEF ListT, HeapT, ClockT
    <3> HIDE DEF m, h
    <3> QED BY <2>0, <3>1 DEF Good
  <2>2. CASE ~once
    <3>1. m = l /\ want' = want
      BY <1>0, <2>2
    <3>2. \A k \in Jobs : l[k] # 0 /\ kind[k] # "at" =>
            h[k][l[k]].paused = SyncHeap[k][l[k]].paused
      BY <1>2, <2>0 DEF ListT, HeapT
    <3> HIDE DEF m, h
    <3> QED BY <1>0, <2>0, <3>1, <3>2 DEF Good
  <2> QED BY <2>1, <2>2
<1> HIDE DEF h, m
<1> QED BY <1>0, <1>3, <1>4, SaveMatches

LEMMA CutKept == ASSUME EditInv, NEW a \in Cutters, Cut(a) PROVE ListOK' /\ EditsKept'
<1> USE Parts DEF EditInv, AllT
<1> DEFINE j == cutter[a].job
           v == IF a = "reaper" THEN mem[j] ELSE cutter[a].obj
           h == IF v = 0 THEN heap ELSE [heap EXCEPT ![j][v].last = now]
<1>0. Heap(h) /\ UNCHANGED <<mem, loaded, kind, disk, want>>
  BY DEF Cut, store, users, clock
<1>1. j \in Jobs /\ v \in Versions \cup {0}
  BY DEF Cut, Hands, StoreT, ListT, CuttingT
<1>2. \A k \in Jobs : mem[k] # 0 => h[k][mem[k]].paused = heap[k][mem[k]].paused
  <2> HIDE DEF v, j
  <2>1. CASE v = 0
    BY <2>1
  <2>2. CASE v # 0
    <3>1. heap[j][v] \in Object
      BY <1>1, <2>2 DEF StoreT, HeapT
    <3>2. [heap[j][v] EXCEPT !.last = now].paused = heap[j][v].paused
      BY <3>1 DEF Object
    <3> QED BY <1>1, <2>2, <3>2 DEF StoreT, HeapT, ListT
  <2> QED BY <2>1, <2>2
<1> HIDE DEF h
<1> QED BY <1>0, <1>2, PausesKept, EditsUnchanged

LEMMA CutMergeKept ==
  ASSUME EditInv, NEW a \in Cutters, CutMerge(a) PROVE ListOK' /\ EditsKept'
<1> USE Parts DEF EditInv, AllT
<1> DEFINE j == cutter[a].job
           v == SyncMem[j]
           h == IF v = 0 THEN SyncHeap ELSE [SyncHeap EXCEPT ![j][v].last = now]
<1>0. /\ IF v = 0 THEN Sync ELSE Save(SyncMem, h)
      /\ Heap(h) /\ UNCHANGED <<kind, want>>
  BY DEF CutMerge, users, clock
<1>1. j \in Jobs /\ v \in Versions \cup {0}
  BY SyncType DEF CutMerge, Hands, ListT
<1>2. CASE v = 0
  BY <1>0, <1>2, ReadMatches, EditsUnchanged DEF Sync
<1>3. CASE v # 0
  <2> HIDE DEF v, j
  <2>0. Good(SyncMem, SyncHeap, want) /\ SyncMem \in ListT /\ SyncHeap \in HeapT
    BY SyncGood, SyncType
  <2>1. SyncHeap[j][v] \in Object
    BY <1>1, <1>3, <2>0 DEF HeapT
  <2>2. [SyncHeap[j][v] EXCEPT !.last = now].paused = SyncHeap[j][v].paused
    BY <2>1 DEF Object
  <2>3. h \in HeapT
    BY <1>1, <1>3, <2>0, StampType
  <2>4. \A k \in Jobs : SyncMem[k] # 0 =>
          h[k][SyncMem[k]].paused = SyncHeap[k][SyncMem[k]].paused
    BY <1>1, <1>3, <2>0, <2>2 DEF ListT, HeapT
  <2> HIDE DEF h
  <2>5. Good(SyncMem, h, want')
    BY <1>0, <2>0, <2>4 DEF Good
  <2> QED BY <1>0, <1>3, <2>0, <2>3, <2>5, SaveMatches
<1> QED BY <1>2, <1>3

LEMMA EditStep ==
  ASSUME EditInv, [Next]_vars PROVE ListOK' /\ EditsKept'
<1> USE DEF EditInv
<1>1. CASE CallerScan
  BY <1>1, ReadMatches, EditsUnchanged DEF CallerScan, Sync, users, clock
<1>2. CASE TickDispatch \/ ArmTimer \/ CallerRefused
           \/ \E j \in Jobs : \E s \in Slots : RunMergeBusy(j, s)
  <2>1. Heap(heap) /\ UNCHANGED <<mem, loaded, kind, disk, want>>
    BY <1>2 DEF TickDispatch, ArmTimer, CallerRefused, RunMergeBusy, store, users,
                clock
  <2> QED BY <2>1, PausesKept, EditsUnchanged
<1>3. CASE \/ Advance \/ TickScanBusy \/ CallerScanBusy \/ CallerClaim \/ CallerEnd
           \/ \E j \in Jobs : Trigger(j) \/ ReapStart(j) \/ CancelStart(j)
           \/ \E late \in SUBSET Jobs : ReaperSweep(late)
           \/ \E a \in Cutters : CutMergeBusy(a)
           \/ UNCHANGED vars
  <2>1. UNCHANGED <<disk, want, kind, loaded, mem, heap>>
    BY <1>3 DEF Advance, TickScanBusy, CallerScanBusy, CallerClaim, CallerEnd,
                Trigger, ReapStart, CancelStart, ReaperSweep, CutMergeBusy, vars,
                store, users, clock
  <2> QED BY <2>1, EditsUnchanged, ListUnchanged
<1> QED BY <1>1, <1>2, <1>3, CliEditKept, ServiceEditKept, TickScanKept,
           TellDoneKept, DeferKept, RunEndKept, RunMergeKept, CutKept,
           CutMergeKept DEF Next, RunStep, CallerStep, CutStep

(* No merge of a run's result or of a cancellation, no deferred removal and   *)
(* no save of the list brings back a job that was removed, drops one that is  *)
(* wanted, or undoes a pause, whichever process asked for it (_sync, _save,   *)
(* _merge_job_result, _merge_terminal_state_locked).                          *)
THEOREM NoEditLost == Spec => []EditsKept
<1>1. Init => ListOK /\ EditsKept
  <2> SUFFICES ASSUME Init PROVE ListOK /\ EditsKept
    OBVIOUS
  <2>1. \A j \in Jobs : disk[j] # None =>
          disk[j] = [paused |-> FALSE, auto |-> FALSE, last |-> 0]
    BY DEF Init
  <2>2. \A j \in Jobs : disk[j] = None <=> want[j] = "absent"
    <3>1. [paused |-> FALSE, auto |-> FALSE, last |-> 0] \in Record
      BY Numbers DEF Record
    <3> QED BY <3>1, RecordAssumption DEF Init
  <2>3. EditsKept
    BY <2>1, <2>2 DEF Init, EditsKept
  <2>4. \A j \in Jobs : mem[j] # 0 => heap[j][mem[j]] = Loaded(disk[j])
    BY Numbers DEF Init
  <2>5. \A j \in Jobs : mem[j] = 0 <=> loaded[j] = None
    BY DEF Init
  <2>6. loaded = disk
    BY DEF Init
  <2>7. \A j \in Jobs : mem[j] # 0 => heap[j][mem[j]].paused = disk[j].paused
    <3> TAKE j \in Jobs
    <3> HAVE mem[j] # 0
    <3>1. Loaded(disk[j]).paused = disk[j].paused
      BY DEF Loaded
    <3> QED BY <2>4, <3>1
  <2> QED BY <2>3, <2>5, <2>6, <2>7 DEF ListOK, Matches
<1>2. TypeOK /\ Hands /\ ListOK /\ EditsKept /\ [Next]_vars => (ListOK /\ EditsKept)'
  BY EditStep DEF EditInv
<1> QED BY <1>1, <1>2, TypedHands, PTL DEF Spec
=============================================================================
