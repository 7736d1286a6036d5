----------------------------- MODULE CronService -----------------------------
(***************************************************************************)
(* CronService of src/src/kiro_crew/cron.py: jobs kept in a file that the  *)
(* gateway, the CLI and the MCP server all edit, the timer tick that fires *)
(* the due ones, the runs, the merge of their results, the removals put    *)
(* off because the file was locked, the reaper and the user's cancel.      *)
(*                                                                         *)
(* A locked core (lock, _sync, change, _save) is one action: the file lock *)
(* excludes every other one.  What happens on the event loop between two   *)
(* awaits is one action too, so that a scan in a worker thread and the     *)
(* dispatch on the loop that uses its result are two.                      *)
(***************************************************************************)
EXTENDS Naturals, FiniteSets

CONSTANTS Jobs,      \* job ids
          KindsOf,   \* the kinds a job may have: "every" (recurring), "at"
                     \* (kept and disabled), "once" (at, delete_after_run)
          Features,  \* subset of {"busy", "held", "trigger", "reap", "cancel"}
          MaxTime,   \* bound: periods of the clock
          MaxEdits,  \* bound: edits by users
          MaxRuns,   \* bound: runs of one job that are not over yet
          Api,       \* the handle of a request to run a job by hand
          None

ASSUME CronAssumption ==
  /\ KindsOf \in [Jobs -> SUBSET {"every", "at", "once"}]
  /\ Features \subseteq {"busy", "held", "trigger", "reap", "cancel"}
  /\ MaxTime \in Nat /\ MaxEdits \in Nat /\ MaxRuns \in Nat \ {0}
  /\ {None, Api} \cap Nat = {} /\ None # Api /\ None \notin Jobs

VARIABLES
  kind,      \* the schedule and delete_after_run of a job
  disk,      \* crons.json: the record of a job, or None
  loaded,    \* its content when last read or written (_last_digest)
  mem,       \* _jobs: which object stands for a job, 0 for none
  heap,      \* the CronJob objects of a job that something refers to
  pending,   \* _pending_removals
  executing, \* _executing
  handle,    \* _running_tasks: a run, the caller of run_job, or None
  timed,     \* the keys of _job_start_times
  reaped,    \* _reaped_jobs
  cancelled, \* _cancelled_jobs
  run,       \* the _run_job_isolated tasks of a job
  tick,      \* the timer task: the snapshot it scanned, if it did
  arm,       \* an _arm_timer has been handed to the loop
  caller,    \* a request to run a job by hand (api_cron_run, run_job)
  todo,      \* the overdue jobs of the reaper's sweep
  cutter,    \* the reaper and a user's cancel, at work on a job
  now,       \* the clock, in periods of the schedules
  edits,     \* edits so far
  want,      \* history: what the users last asked for a job
  fired      \* history: the period in which a job was last started

store   == <<disk, loaded, mem, pending>>
marks   == <<reaped, cancelled>>
books   == <<executing, handle, timed, marks>>
timer   == <<tick, arm>>
cutting == <<todo, cutter>>
users   == <<edits, want>>
clock   == <<kind, now>>
vars == <<store, heap, books, run, timer, caller, cutting, users, clock, fired>>

-----------------------------------------------------------------------------
(* Types *)

Versions == 1 .. MaxEdits + 1
Slots    == 1 .. MaxRuns
Cutters  == {"reaper", "cancel"}

Record == [paused : BOOLEAN, auto : BOOLEAN, last : 0 .. MaxTime]
Object == [paused : BOOLEAN, auto : BOOLEAN, last : 0 .. MaxTime,
           enabled : BOOLEAN]
Blank  == [paused |-> FALSE, auto |-> FALSE, last |-> 0, enabled |-> FALSE]

(* The lock of the file may stay taken when the timer or a run wants it, and *)
(* when a request by hand, the reaper or a cancel does.                      *)
Busy == "busy" \in Features
Held == "held" \in Features

(* pc of a run: the callback, the callback after it asked for the removal  *)
(* of its job, the merge of the result, and over for its caller to see.    *)
IdleRun == [pc |-> "idle", obj |-> 0, start |-> 0, cut |-> FALSE,
            byhand |-> FALSE]
Waiting == [pc |-> "wait", snap |-> [j \in Jobs |-> 0]]
NoCaller == [pc |-> "idle", job |-> None, obj |-> 0, slot |-> 0]
NoCut   == [pc |-> "idle", job |-> None, obj |-> 0]

ASSUME RecordAssumption == None \notin Record

(* Types of the variables; a time is never past the clock's bound.          *)
TypeOK ==
  /\ kind \in [Jobs -> {"every", "at", "once"}]
  /\ disk \in [Jobs -> Record \cup {None}]
  /\ loaded \in [Jobs -> Record \cup {None}]
  /\ mem \in [Jobs -> Versions \cup {0}]
  /\ heap \in [Jobs -> [Versions -> Object]]
  /\ pending \subseteq Jobs /\ executing \subseteq Jobs /\ timed \subseteq Jobs
  /\ reaped \subseteq Jobs /\ cancelled \subseteq Jobs /\ todo \subseteq Jobs
  /\ handle \in [Jobs -> Slots \cup {None, Api}]
  /\ run \in [Jobs -> [Slots -> [pc : {"idle", "run", "told", "merge", "over"},
                                 obj : Versions \cup {0}, start : 0 .. MaxTime,
                                 cut : BOOLEAN, byhand : BOOLEAN]]]
  /\ tick \in [pc : {"wait", "scanned"}, snap : [Jobs -> Versions \cup {0}]]
  /\ caller \in [pc : {"idle", "asked", "scanned", "await"},
                 job : Jobs \cup {None}, obj : Versions \cup {0},
                 slot : Slots \cup {0}]
  /\ cutter \in [Cutters -> [pc : {"idle", "reset", "merge"},
                            job : Jobs \cup {None}, obj : Versions \cup {0}]]
  /\ arm \in BOOLEAN /\ now \in 0 .. MaxTime /\ edits \in 0 .. MaxEdits
  /\ want \in [Jobs -> {"absent", "active", "paused", "removed"}]
  /\ fired \in [Jobs -> 0 .. MaxTime]

-----------------------------------------------------------------------------
(* Objects, the file and the lock *)

(* An object lives while the list, a run, a scan or a caller refers to it.  *)
Referred(j, v) ==
  \/ mem[j] = v \/ tick.snap[j] = v
  \/ caller.job = j /\ caller.obj = v
  \/ cutter["cancel"].job = j /\ cutter["cancel"].obj = v
  \/ \E s \in Slots : run[j][s].obj = v

Heap(h) ==
  heap' = [j \in Jobs |->
            [v \in Versions |-> IF Referred(j, v)' THEN h[j][v] ELSE Blank]]

(* _load derives enabled from the two reasons for a job to be off.          *)
Loaded(r) == [paused |-> r.paused, auto |-> r.auto, last |-> r.last,
              enabled |-> ~r.paused /\ ~r.auto]

(* A new object: not one in use, which the bound on edits leaves room for.  *)
Fresh(j) ==
  CHOOSE v \in Versions : Referred(j, v) => \A u \in Versions : Referred(j, u)

(* _sync: the file is read again if its content is not what was last seen.  *)
Reloads_BySize ==
  {j \in Jobs : disk[j] = None} # {j \in Jobs : loaded[j] = None}
Reloads == disk # loaded
SyncMem ==
  IF Reloads THEN [j \in Jobs |-> IF disk[j] = None THEN 0 ELSE Fresh(j)]
  ELSE mem
SyncHeap ==
  IF Reloads
  THEN [j \in Jobs |-> IF disk[j] = None THEN heap[j]
                       ELSE [heap[j] EXCEPT ![Fresh(j)] = Loaded(disk[j])]]
  ELSE heap
(* A reload that finds an enabled job arms the timer.                       *)
Restores == Reloads /\ \E j \in Jobs : disk[j] # None /\ Loaded(disk[j]).enabled

(* _save: the records of the objects in the list.                           *)
Saved(m, h) ==
  [j \in Jobs |-> IF m[j] = 0 THEN None
                  ELSE [paused |-> h[j][m[j]].paused, auto |-> h[j][m[j]].auto,
                        last |-> h[j][m[j]].last]]
Save(m, h) == mem' = m /\ disk' = Saved(m, h) /\ loaded' = disk'
(* A locked core that only read.                                            *)
Sync ==
  /\ mem' = SyncMem /\ disk' = disk
  /\ loaded' = IF Reloads THEN disk ELSE loaded

-----------------------------------------------------------------------------
Init ==
  /\ kind \in [Jobs -> {"every", "at", "once"}]
  /\ \A j \in Jobs : kind[j] \in KindsOf[j]
  /\ want \in [Jobs -> {"absent", "active"}]
  /\ disk = [j \in Jobs |-> IF want[j] = "absent" THEN None
                            ELSE [paused |-> FALSE, auto |-> FALSE, last |-> 0]]
  /\ loaded = disk
  /\ mem = [j \in Jobs |-> IF disk[j] = None THEN 0 ELSE 1]
  /\ heap = [j \in Jobs |-> [v \in Versions |->
               IF mem[j] = v THEN Loaded(disk[j]) ELSE Blank]]
  /\ pending = {} /\ executing = {} /\ timed = {}
  /\ reaped = {} /\ cancelled = {}
  /\ handle = [j \in Jobs |-> None]
  /\ run = [j \in Jobs |-> [s \in Slots |-> IdleRun]]
  /\ tick = Waiting /\ arm = FALSE /\ caller = NoCaller
  /\ todo = {} /\ cutter = [a \in Cutters |-> NoCut]
  /\ now = 0 /\ edits = 0 /\ fired = [j \in Jobs |-> 0]

Advance ==
  /\ now < MaxTime /\ now' = now + 1
  /\ UNCHANGED <<store, heap, books, run, timer, caller, cutting, users, kind,
                 fired>>

-----------------------------------------------------------------------------
(* Edits: add_job, enable_job and remove_job, by another process on the     *)
(* file or by the gateway through its list.                                 *)

Ops == {"active", "paused", "removed"}
Asks(j, op) ==
  /\ edits < MaxEdits /\ edits' = edits + 1
  /\ want[j] # op /\ want[j] # "removed"
  /\ want[j] = "absent" => op = "active"
  /\ want' = [want EXCEPT ![j] = op]

(* A resume by the user also clears the automatic pause.                    *)
Edited(r, op) ==
  CASE op = "active" -> [r EXCEPT !.paused = FALSE, !.auto = FALSE]
    [] op = "paused" -> [r EXCEPT !.paused = TRUE]

NewRecord_Later == [paused |-> FALSE, auto |-> FALSE, last |-> now + 1]
NewRecord == [paused |-> FALSE, auto |-> FALSE, last |-> now]

CliEdit(j, op) ==
  /\ Asks(j, op)
  /\ want[j] # "absent" => disk[j] # None
  /\ disk' = [disk EXCEPT ![j] = IF op = "removed" THEN None
                                 ELSE IF want[j] = "absent" THEN NewRecord
                                 ELSE Edited(disk[j], op)]
  /\ UNCHANGED <<loaded, mem, pending, heap, books, run, timer, caller,
                 cutting, clock, fired>>

ServiceEdit(j, op) ==
  LET m == SyncMem
      v == IF want[j] = "absent" THEN Fresh(j) ELSE m[j]
      o == IF want[j] = "absent" THEN Loaded(NewRecord)
           ELSE [Edited(SyncHeap[j][v], op) EXCEPT !.enabled = (op = "active")]
      h == IF op = "removed" THEN SyncHeap ELSE [SyncHeap EXCEPT ![j][v] = o]
  IN /\ Asks(j, op)
     /\ want[j] # "absent" => m[j] # 0
     /\ arm' = TRUE
     /\ UNCHANGED <<pending, books, run, tick, caller, cutting, clock, fired>>
     /\ Save([m EXCEPT ![j] = IF op = "removed" THEN 0 ELSE v], h)
     /\ Heap(h)

-----------------------------------------------------------------------------
(* The timer *)

(* A periodic job once in a period; a job with a time from that time on.     *)
IsDue(j, o) == IF kind[j] = "every" THEN o.last < now ELSE now > 0

(* The worker's part of a tick: reload, removal of the deferred jobs, the    *)
(* snapshot.  A reload hands _arm_timer to the loop ahead of the snapshot,   *)
(* and that call cancels this very tick.                                     *)
TickScan ==
  LET m == [j \in Jobs |-> IF j \in pending THEN 0 ELSE SyncMem[j]]
  IN /\ tick.pc = "wait"
     /\ pending' = {}
     /\ IF m # SyncMem THEN Save(m, SyncHeap) ELSE Sync
     /\ tick' = IF Restores THEN Waiting ELSE [pc |-> "scanned", snap |-> m]
     /\ want' = [j \in Jobs |->
                  IF m[j] # SyncMem[j] THEN "removed" ELSE want[j]]
     /\ UNCHANGED <<books, run, arm, caller, cutting, edits, clock, fired>>
     /\ Heap(SyncHeap)

TickScanBusy_Drops ==
  /\ Busy /\ tick.pc = "wait"
  /\ tick' = [pc |-> "scanned", snap |-> mem]
  /\ pending' = {}
  /\ UNCHANGED <<disk, loaded, mem, heap, books, run, arm, caller, cutting, users,
                 clock, fired>>
TickScanBusy ==
  /\ Busy /\ tick.pc = "wait"
  /\ tick' = [pc |-> "scanned", snap |-> mem]
  /\ UNCHANGED <<store, heap, books, run, arm, caller, cutting, users, clock,
                 fired>>

Free(j) == {s \in Slots : run[j][s].pc = "idle"}
Slot(j) == CHOOSE s \in Free(j) : TRUE
NewRun(v, hand) ==
  [pc |-> "run", obj |-> v, start |-> now, cut |-> FALSE, byhand |-> hand]

Fires(j) ==
  LET v == tick.snap[j] IN v # 0 /\ heap[j][v].enabled /\ IsDue(j, heap[j][v])
Due_Twice == {j \in Jobs : Fires(j)}
Due == {j \in Jobs \ executing : Fires(j)}

TickDispatch ==
  LET due == Due
  IN /\ tick.pc = "scanned"
     /\ \A j \in due : Free(j) # {}
     /\ executing' = executing \cup due
     /\ timed' = timed \cup due
     /\ handle' = [j \in Jobs |-> IF j \in due THEN Slot(j) ELSE handle[j]]
     /\ run' = [j \in Jobs |-> IF j \in due
                  THEN [run[j] EXCEPT ![Slot(j)] = NewRun(tick.snap[j], FALSE)]
                  ELSE run[j]]
     /\ fired' = [j \in Jobs |-> IF j \in due THEN now ELSE fired[j]]
     /\ tick' = Waiting
     /\ UNCHANGED <<store, marks, arm, caller, cutting, users, clock>>
     /\ Heap(heap)

(* _arm_timer on the loop: the timer task is cancelled, in the middle of a   *)
(* tick or not, and a new one waits.                                         *)
ArmTimer ==
  /\ arm /\ arm' = FALSE
  /\ tick' = Waiting
  /\ UNCHANGED <<store, books, run, caller, cutting, users, clock, fired>>
  /\ Heap(heap)

-----------------------------------------------------------------------------
(* A run *)

Upd(j, s, r) == run' = [run EXCEPT ![j][s] = r]
Over(j, s) ==
  Upd(j, s, [IdleRun EXCEPT !.pc = IF run[j][s].byhand THEN "over" ELSE "idle"])

(* A script that is done has its job removed; if the file is locked the      *)
(* removal is left to the next tick (_deliver_script_result, defer_removal). *)
TellDone(j, s) ==
  LET m == [SyncMem EXCEPT ![j] = 0]
  IN /\ run[j][s].pc = "run" /\ ~run[j][s].cut
     /\ Upd(j, s, [run[j][s] EXCEPT !.pc = "told"])
     /\ IF SyncMem[j] # 0
        THEN /\ Save(m, SyncHeap) /\ arm' = TRUE
             /\ want' = [want EXCEPT ![j] = "removed"]
        ELSE Sync /\ arm' = (arm \/ Restores) /\ want' = want
     /\ UNCHANGED <<pending, books, tick, caller, cutting, edits, clock, fired>>
     /\ Heap(SyncHeap)

Defer(j, s) ==
  /\ Busy /\ run[j][s].pc = "run" /\ ~run[j][s].cut
  /\ Upd(j, s, [run[j][s] EXCEPT !.pc = "told"])
  /\ pending' = pending \cup {j}
  /\ heap' = IF mem[j] = 0 THEN heap
             ELSE [heap EXCEPT ![j][mem[j]].enabled = FALSE]
  /\ UNCHANGED <<disk, loaded, mem, books, timer, caller, cutting, users,
                 clock, fired>>

(* What a run leaves in its object: the outcome, unless it was cut.  One that *)
(* is late (timed out) never gets to the lines that disable an "at" job.      *)
Outcome(j, r, o, res, late, marked) ==
  LET lst == IF ~marked /\ kind[j] = "every" THEN r.start
             ELSE IF r.cut THEN o.last ELSE now
      off == ~r.cut /\ res = "pause" /\ ~o.auto
  IN [o EXCEPT !.last = lst,
               !.auto = IF r.cut THEN o.auto
                        ELSE CASE res = "ok" -> FALSE
                               [] res = "fail" -> o.auto
                               [] res = "pause" -> TRUE,
               !.enabled = o.enabled /\ ~off /\ (kind[j] = "at" => r.cut \/ late)]

(* The books are cleared whatever ended the run.                             *)
Finally_Marked(j) ==
  /\ executing' = IF j \in reaped \cup cancelled THEN executing
                  ELSE executing \ {j}
  /\ timed' = timed \ {j} /\ reaped' = reaped \ {j} /\ cancelled' = cancelled \ {j}
  /\ handle' = [handle EXCEPT ![j] = None]
Finally(j) ==
  /\ executing' = executing \ {j}
  /\ timed' = timed \ {j} /\ reaped' = reaped \ {j} /\ cancelled' = cancelled \ {j}
  /\ handle' = [handle EXCEPT ![j] = None]

(* The end of the callback, by timeout, error or cancellation too, and the   *)
(* finally of _run_job_isolated up to the merge of the result.               *)
RunEnd(j, s, res, late) ==
  LET r == run[j][s]
      marked == j \in reaped \cup cancelled
      o == Outcome(j, r, heap[j][r.obj], res, late, marked)
  IN /\ r.pc \in {"run", "told"} /\ ~(late /\ res = "ok")
     /\ Finally(j)
     /\ IF marked THEN Over(j, s) ELSE Upd(j, s, [r EXCEPT !.pc = "merge"])
     /\ UNCHANGED <<store, timer, caller, cutting, users, clock, fired>>
     /\ Heap([heap EXCEPT ![j][r.obj] = o])

(* _merge_job_result, on the object that stands for the job after _sync.     *)
Merged(j, o, t) ==
  LET p == IF kind[j] = "at" THEN ~o.enabled ELSE t.paused
      e == IF kind[j] = "at" THEN o.enabled ELSE t.enabled
  IN [paused |-> p, auto |-> o.auto, last |-> o.last,
      enabled |-> e /\ ~(o.auto /\ ~p)]

RunMerge(j, s) ==
  LET m == SyncMem
      o == heap[j][run[j][s].obj]
      h == IF m[j] = 0 THEN SyncHeap
           ELSE [SyncHeap EXCEPT ![j][m[j]] = Merged(j, o, @)]
      once == kind[j] = "once" /\ m[j] # 0
  IN /\ run[j][s].pc = "merge"
     /\ Over(j, s)
     /\ Save(IF once THEN [m EXCEPT ![j] = 0] ELSE m, h)
     /\ want' = IF once THEN [want EXCEPT ![j] = "removed"] ELSE want
     /\ arm' = (arm \/ Restores)
     /\ UNCHANGED <<pending, books, tick, caller, cutting, edits, clock, fired>>
     /\ Heap(h)

(* The file stayed locked: the result is logged and dropped.                 *)
RunMergeBusy(j, s) ==
  /\ Busy /\ run[j][s].pc = "merge"
  /\ Over(j, s)
  /\ UNCHANGED <<store, books, timer, caller, cutting, users, clock, fired>>
  /\ Heap(heap)

-----------------------------------------------------------------------------
(* A run by hand: api_cron_run, then run_job *)

Trigger(j) ==
  /\ "trigger" \in Features /\ caller.pc = "idle"
  /\ mem[j] # 0 /\ handle[j] = None /\ j \notin executing
  /\ handle' = [handle EXCEPT ![j] = Api]
  /\ caller' = [pc |-> "asked", job |-> j, obj |-> 0, slot |-> 0]
  /\ UNCHANGED <<store, heap, executing, timed, marks, run, timer, cutting,
                 users, clock, fired>>

CallerScan ==
  /\ caller.pc = "asked"
  /\ Sync /\ arm' = (arm \/ Restores)
  /\ caller' = [caller EXCEPT !.pc = "scanned", !.obj = SyncMem[caller.job]]
  /\ UNCHANGED <<pending, books, run, tick, cutting, users, clock, fired>>
  /\ Heap(SyncHeap)

CallerScanBusy ==
  /\ Held /\ caller.pc = "asked"
  /\ caller' = [caller EXCEPT !.pc = "scanned", !.obj = mem[caller.job]]
  /\ UNCHANGED <<store, heap, books, run, timer, cutting, users, clock, fired>>

(* The caller's task is done: its own handle goes with it (_on_done).        *)
CallerLeaves(j) == IF handle[j] = Api THEN None ELSE handle[j]

CallerRefused ==
  LET j == caller.job
  IN /\ caller.pc = "scanned" /\ (caller.obj = 0 \/ j \in executing)
     /\ handle' = [handle EXCEPT ![j] = CallerLeaves(j)]
     /\ caller' = NoCaller
     /\ UNCHANGED <<store, executing, timed, marks, run, timer, cutting, users,
                    clock, fired>>
     /\ Heap(heap)

CallerClaim ==
  LET j == caller.job
      s == Slot(j)
  IN /\ caller.pc = "scanned" /\ caller.obj # 0 /\ j \notin executing
     /\ Free(j) # {}
     /\ executing' = executing \cup {j} /\ timed' = timed \cup {j}
     /\ handle' = [handle EXCEPT ![j] = s]
     /\ Upd(j, s, NewRun(caller.obj, TRUE))
     /\ caller' = [caller EXCEPT !.pc = "await", !.obj = 0, !.slot = s]
     /\ fired' = [fired EXCEPT ![j] = now]
     /\ UNCHANGED <<store, heap, marks, timer, cutting, users, clock>>

(* The finally of run_job, which clears the books of the job once more.      *)
CallerEnd ==
  LET j == caller.job
  IN /\ caller.pc = "await" /\ run[j][caller.slot].pc = "over"
     /\ executing' = executing \ {j}
     /\ handle' = [handle EXCEPT ![j] = None]
     /\ Upd(j, caller.slot, IdleRun)
     /\ caller' = NoCaller
     /\ UNCHANGED <<store, heap, timed, marks, timer, cutting, users, clock,
                    fired>>

-----------------------------------------------------------------------------
(* The reaper and the user's cancel *)

(* A sweep takes a list of the runs past their deadline and goes through it. *)
ReaperSweep(late) ==
  /\ "reap" \in Features /\ todo = {} /\ cutter["reaper"] = NoCut
  /\ late # {} /\ late \subseteq timed
  /\ todo' = late
  /\ UNCHANGED <<store, heap, books, run, timer, caller, cutter, users, clock,
                 fired>>

ReapStart(j) ==
  /\ j \in todo /\ cutter["reaper"] = NoCut
  /\ todo' = todo \ {j}
  /\ reaped' = reaped \cup {j} /\ timed' = timed \ {j}
  /\ cutter' = [cutter EXCEPT !["reaper"] =
                  [pc |-> "reset", job |-> j, obj |-> 0]]
  /\ UNCHANGED <<store, heap, executing, handle, cancelled, run, timer, caller,
                 users, clock, fired>>

CancelStart(j) ==
  /\ "cancel" \in Features /\ cutter["cancel"] = NoCut
  /\ j \in executing
  /\ cancelled' = cancelled \cup {j} /\ timed' = timed \ {j}
  /\ cutter' = [cutter EXCEPT !["cancel"] =
                  [pc |-> "reset", job |-> j, obj |-> mem[j]]]
  /\ UNCHANGED <<store, heap, executing, handle, reaped, run, timer, caller,
                 todo, users, clock, fired>>

(* The session has been reset, which took a while: whatever handle the job   *)
(* has now is cancelled and the books of the job are cleared.                *)
Cut(a) ==
  LET j == cutter[a].job
      t == handle[j]
      v == IF a = "reaper" THEN mem[j] ELSE cutter[a].obj
  IN /\ cutter[a].pc = "reset"
     /\ handle' = [handle EXCEPT ![j] = None]
     /\ executing' = executing \ {j}
     /\ run' = IF t \in Slots THEN [run EXCEPT ![j][t].cut = TRUE] ELSE run
     /\ caller' = IF t = Api THEN NoCaller ELSE caller
     /\ cutter' = [cutter EXCEPT ![a] =
                     IF v = 0 THEN NoCut
                     ELSE [pc |-> "merge", job |-> j, obj |-> 0]]
     /\ UNCHANGED <<store, timed, marks, timer, todo, users, clock, fired>>
     /\ Heap(IF v = 0 THEN heap ELSE [heap EXCEPT ![j][v].last = now])

(* _merge_terminal_state_locked.                                             *)
CutMerge(a) ==
  LET j == cutter[a].job
      h == IF SyncMem[j] = 0 THEN SyncHeap
           ELSE [SyncHeap EXCEPT ![j][SyncMem[j]].last = now]
  IN /\ cutter[a].pc = "merge"
     /\ cutter' = [cutter EXCEPT ![a] = NoCut]
     /\ IF SyncMem[j] = 0 THEN Sync ELSE Save(SyncMem, h)
     /\ arm' = (arm \/ Restores)
     /\ UNCHANGED <<pending, books, run, tick, caller, todo, users, clock,
                    fired>>
     /\ Heap(h)

CutMergeBusy(a) ==
  /\ Held /\ cutter[a].pc = "merge"
  /\ cutter' = [cutter EXCEPT ![a] = NoCut]
  /\ UNCHANGED <<store, heap, books, run, timer, caller, todo, users, clock,
                 fired>>

-----------------------------------------------------------------------------
RunStep(j, s) ==
  \/ \E res \in {"ok", "fail", "pause"} : \E late \in BOOLEAN : RunEnd(j, s, res, late)
  \/ RunMerge(j, s) \/ RunMergeBusy(j, s)
CallerStep ==
  CallerScan \/ CallerScanBusy \/ CallerRefused \/ CallerClaim \/ CallerEnd
CutStep(a) == Cut(a) \/ CutMerge(a) \/ CutMergeBusy(a)

Next ==
  \/ Advance
  \/ \E j \in Jobs : \E op \in Ops : CliEdit(j, op) \/ ServiceEdit(j, op)
  \/ TickScan \/ TickScanBusy \/ TickDispatch \/ ArmTimer
  \/ \E j \in Jobs : \E s \in Slots :
       RunStep(j, s) \/ TellDone(j, s) \/ Defer(j, s)
  \/ \E j \in Jobs : Trigger(j) \/ ReapStart(j) \/ CancelStart(j)
  \/ CallerStep
  \/ \E late \in SUBSET Jobs : ReaperSweep(late)
  \/ \E a \in Cutters : CutStep(a)

Spec == Init /\ [][Next]_vars

(* The loop runs what is ready and the timer keeps ticking; a callback has a *)
(* timeout.  The lock of the file is busy at times, not for ever.            *)
Fairness ==
  /\ SF_vars(TickScan) /\ WF_vars(TickDispatch) /\ WF_vars(ArmTimer)
  /\ \A j \in Jobs : \A s \in Slots : WF_vars(RunStep(j, s))
  /\ WF_vars(CallerStep)
  /\ \A a \in Cutters : WF_vars(CutStep(a))

FairSpec == Spec /\ Fairness

-----------------------------------------------------------------------------
(* Properties *)

(* No merge, removal or save undoes what a user asked, in the gateway or in  *)
(* another process: the file has a job exactly while it is wanted, and it is *)
(* paused exactly if the last edit paused it (an "at" job is disabled by its *)
(* own run).                                                                 *)
EditsKept ==
  \A j \in Jobs :
    /\ disk[j] = None <=> want[j] \in {"absent", "removed"}
    /\ disk[j] # None /\ kind[j] # "at" =>
         (disk[j].paused <=> want[j] = "paused")

(* A job counted as executing has a run that will count it out again: else   *)
(* no tick would ever fire it (_executing, _run_job_isolated).               *)
ExecutingRuns ==
  \A j \in executing : \E s \in Slots : run[j][s].pc \in {"run", "told"}

(* A job never has two runs in their callbacks at once (api_cron_run).       *)
NoOverlap ==
  \A j \in Jobs : \A s, t \in Slots :
    {run[j][s].pc, run[j][t].pc} \subseteq {"run", "told"} => s = t

(* A removal put off because the file was locked is made up for.             *)
RemovalMade == \A j \in Jobs : j \in pending ~> disk[j] = None

(* What the scheduler should fire: enabled in the file, and in the list if   *)
(* the list is up to date, and not fired yet.                                *)
Owed(j) ==
  /\ disk[j] # None /\ Loaded(disk[j]).enabled /\ IsDue(j, disk[j])
  /\ disk = loaded => heap[j][mem[j]].enabled /\ IsDue(j, heap[j][mem[j]])
  /\ IF kind[j] = "every" THEN fired[j] < now ELSE fired[j] = 0

(* A due job is fired, whatever edits, reloads, reaps and busy locks do to   *)
(* the timer in between.                                                     *)
DueFires == \A j \in Jobs : Owed(j) ~> ~Owed(j)
=============================================================================
