---------------------------- MODULE RequestLife ----------------------------
(***************************************************************************)
(* What a shared backend of the MCP gateway promises about a request of a  *)
(* stub: it is answered at most once each time it is asked, and only while *)
(* its client waits.  An answer that a stub's own connection lost never    *)
(* comes later.  Ids, queues, the pipe and the other stubs do not appear.  *)
(***************************************************************************)
CONSTANT Cached  \* whether the answer may be there before the request
VARIABLE stage

Init == stage = "idle"

Ask == stage = "idle" /\ stage' = "asked"
AskCached == Cached /\ stage = "idle" /\ stage' \in {"answered", "lost"}

Answer == stage = "asked" /\ stage' = "answered"
Deliver == stage = "answered" /\ stage' = "idle"

\* Its stub has stopped reading, or goes over to another backend.
Lose == stage \in {"asked", "answered"} /\ stage' = "lost"

\* The client gives it up or is told of an error by its own connection.
Withdraw == stage \in {"asked", "answered", "lost"} /\ stage' = "idle"

Next == Ask \/ AskCached \/ Answer \/ Deliver \/ Lose \/ Withdraw

Spec == Init /\ [][Next]_stage
=============================================================================
