---------------------------- MODULE ProcessLife ----------------------------
(***************************************************************************)
(* What the warm pool promises about an agent process: one way through     *)
(* life.  It is started, waits as a spare or stays with the caller that    *)
(* started it, is claimed once, serves a session, and is ended; once its   *)
(* end has begun nobody is handed it again.  Queues, locks, tasks and      *)
(* sweeps do not appear.                                                   *)
(***************************************************************************)
VARIABLE stage

Init == stage = "gone"

Start == stage = "gone" /\ stage' = "starting"
Fail == stage = "starting" /\ stage' = "gone"
Park == stage = "starting" /\ stage' = "spare"

\* By the caller that started it, or that took it from the pool.
Claim == stage \in {"starting", "spare"} /\ stage' = "claimed"
Drop == stage = "claimed" /\ stage' = "gone"
Serve == stage = "claimed" /\ stage' = "serving"

End == stage \in {"spare", "claimed", "serving"} /\ stage' = "ending"
Exit == stage = "ending" /\ stage' = "gone"

\* Whoever was ending it stops before it is gone; nobody has it any more.
Forget == stage = "ending" /\ stage' = "lost"
Reap == stage = "lost" /\ stage' = "gone"

Next == \/ Start \/ Fail \/ Park \/ Claim \/ Drop \/ Serve
        \/ End \/ Exit \/ Forget \/ Reap

Spec == Init /\ [][Next]_stage
=============================================================================
