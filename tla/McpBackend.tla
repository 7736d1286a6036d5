----------------------------- MODULE McpBackend -----------------------------
(***************************************************************************)
(* One shared backend of the MCP gateway and the stubs multiplexed on it   *)
(* (Backend of kiro_crew/mcp_gateway/backend.py, the bridge of a           *)
(* connection in gatewayd.py).  The first stub's initialize, or a priming  *)
(* connection's, goes upstream and its reply serves everybody; requests    *)
(* are forwarded under ids of the gateway and replies routed back; when    *)
(* the backend is given up, one broadcast answers what is in flight.       *)
(*                                                                         *)
(* A request is itself its gateway id: those are never used twice.  What   *)
(* the server sends unasked matters only in that it fills inboxes and may  *)
(* be impossible to route.  The pool around the backend is McpPool.        *)
(***************************************************************************)
EXTENDS FiniteSets, Naturals

CONSTANTS
  Stubs,      \* a stub also stands for its initialize request
  Calls,      \* other requests, used again once nothing refers to them
  CallerOf,   \* the stub of each
  SlowStubs,  \* those that may stop reading their socket
  Handshake   \* gateway id of the forwarded initialize ("__init__")

ASSUME McpBackendAssumption ==
  /\ IsFiniteSet(Stubs) /\ Stubs \cap Calls = {}
  /\ CallerOf \in [Calls -> Stubs]
  /\ SlowStubs \subseteq Stubs
  /\ Handshake \notin Stubs \cup Calls

Requests == Stubs \cup Calls
Owner(r) == IF r \in Stubs THEN r ELSE CallerOf[r]
Own(S) == {r \in Requests : Owner(r) \in S}
Ids == Calls \cup {Handshake}
Outcomes == {"result", "error", "oversize", "garbled"}

VARIABLES
  running,   \* the process has not exited
  dead,      \* _dead_reason is set
  gone,      \* _gone_broadcast
  init,      \* _init_state
  initWait,  \* _init_pending
  pending,   \* _pending_requests
  upstream,  \* requests the process has read and not answered
  lines,     \* replies the pump has not read
  pump,      \* the stdout pump: read, notify (writing initialized), done
  inits,     \* initialize frames written to the process
  told,      \* notifications/initialized frames written to it
  attached,  \* keys of _stub_inboxes
  inbox,     \* answers queued in inboxes, also of stubs dropped since
  conn,      \* per stub, its connection: away, priming, open, flushing, moved
  writing,   \* requests whose forward awaits the drain of stdin, or has failed
  ready,     \* stubs whose client has finished its handshake
  awaits,    \* requests whose client waits for an answer
  slow       \* per stub: no, slow (socket full), was, quit (writer returned)

procVars == <<running, upstream, lines, inits, told>>
deadVars == <<dead, gone>>
stubVars == <<conn, writing, ready, awaits, slow>>
vars == <<running, dead, gone, init, initWait, pending, upstream, lines, pump, inits,
          told, attached, inbox, conn, writing, ready, awaits, slow>>

\* Stubs whose connection is bound to this backend.
Bound == {s \in Stubs : conn[s] \in {"open", "flushing"}}

TypeOK ==
  /\ running \in BOOLEAN /\ dead \in BOOLEAN /\ gone \in BOOLEAN
  /\ init \in {"unsent", "in_flight", "ready", "failed"}
  /\ initWait \subseteq Bound
  /\ pending \subseteq Ids /\ upstream \subseteq Ids
  /\ lines \subseteq Ids \X Outcomes
  /\ pump \in {"read", "notify", "done"}
  /\ inits \in Nat /\ told \in Nat
  /\ attached \subseteq Bound
  /\ inbox \subseteq Requests
  /\ conn \in [Stubs -> {"away", "priming", "open", "flushing", "moved"}]
  /\ writing \subseteq Requests /\ awaits \subseteq Requests
  /\ ready \subseteq Stubs
  /\ slow \in [Stubs -> {"no", "slow", "was", "quit"}]

Init ==
  /\ running = TRUE /\ dead = FALSE /\ gone = FALSE
  /\ init = "unsent" /\ initWait = {}
  /\ pending = {} /\ upstream = {} /\ lines = {} /\ pump = "read"
  /\ inits = 0 /\ told = 0
  /\ attached = {} /\ inbox = {}
  /\ conn = [s \in Stubs |-> "away"]
  /\ writing = {} /\ ready = {} /\ awaits = {}
  /\ slow = [s \in Stubs |-> "no"]

\* Mutant: only the process is looked at.
Alive_Unmarked == running

Alive == running /\ ~dead      \* is_alive

----------------------------------------------------------------------------
(* Inboxes *)

\* The writer task of s takes what its inbox gets.
Reading(s) == conn[s] = "open" /\ slow[s] \in {"no", "was"}

\* Mutant: the entry of an answered request is looked up, not taken out.
Post_Unpopped(A, left, waiting) ==
  /\ inbox' = inbox \cup (A \cap Own(attached))
  /\ initWait' = waiting
  /\ UNCHANGED <<attached, pending>>

\* Answers A go into the inboxes of their stubs; those of D, which nobody reads,
\* are full, and their stubs are dropped by detach_stub with what they have
\* pending.  left and waiting are the tables as the caller leaves them.
Post(A, left, waiting) ==
  \E D \in SUBSET {s \in attached : ~Reading(s) /\ Own({s}) \cap A # {}} :
    /\ inbox' = inbox \cup (A \cap Own(attached \ D))
    /\ attached' = attached \ D
    /\ pending' = left \ Own(D)
    /\ initWait' = waiting \ D

\* Mutant: the table is cleared first.
Broadcast_ClearsFirst(table) ==
  /\ dead' = TRUE /\ gone' = TRUE
  /\ IF gone
     THEN UNCHANGED <<init, inbox, attached, initWait>> /\ pending' = table
     ELSE /\ init' = IF init = "in_flight" THEN "failed" ELSE init
          /\ Post({}, {}, {})

\* _broadcast_backend_gone, once: every attached stub gets an error for each
\* request in flight; waiters for the handshake do while it is in flight.
Broadcast(table) ==
  /\ dead' = TRUE /\ gone' = TRUE
  /\ IF gone
     THEN UNCHANGED <<init, inbox, attached, initWait>> /\ pending' = table
     ELSE /\ init' = IF init = "in_flight" THEN "failed" ELSE init
          /\ Post((table \cap Calls) \cup (IF Handshake \in table THEN initWait ELSE {}), {}, {})

\* The socket of a stub fills, drains again, or stays full until the writer's
\* timeout, after which nothing reads the inbox.
Stall(s) ==
  /\ s \in SlowStubs /\ conn[s] = "open" /\ slow[s] \in {"no", "was"}
  /\ slow' = [slow EXCEPT ![s] = "slow"]
  /\ UNCHANGED <<deadVars, init, initWait, pending, pump, procVars, attached, inbox, conn,
                 writing, ready, awaits>>

Unstall(s) ==
  /\ slow[s] = "slow"
  /\ \E l \in {"was", "quit"} : slow' = [slow EXCEPT ![s] = l]
  /\ UNCHANGED <<deadVars, init, initWait, pending, pump, procVars, attached, inbox, conn,
                 writing, ready, awaits>>

\* The writer task passes an answer on; an initialize result makes the client
\* ready.
Deliver(r) ==
  /\ r \in inbox /\ Reading(Owner(r))
  /\ inbox' = inbox \ {r}
  /\ awaits' = awaits \ {r}
  /\ ready' = IF r \in Stubs /\ init = "ready" THEN ready \cup {r} ELSE ready
  /\ UNCHANGED <<deadVars, init, initWait, pending, pump, procVars, attached, conn, writing, slow>>

----------------------------------------------------------------------------
(* Connections: one frame of a stub at a time, awaited until it is written *)

Idle(s) == conn[s] = "open" /\ writing \cap Own({s}) = {}

\* Mutants: the requests in flight, or the wait for the handshake, are kept.
Detach_KeepsPending(s) ==
  /\ attached' = attached \ {s}
  /\ UNCHANGED pending
  /\ initWait' = initWait \ {s}
  /\ inbox' = inbox \ Own({s})

Detach_KeepsWait(s) ==
  /\ attached' = attached \ {s}
  /\ pending' = pending \ Own({s})
  /\ UNCHANGED initWait
  /\ inbox' = inbox \ Own({s})

\* detach_stub; the inbox goes with the connection.
Detach(s) ==
  /\ attached' = attached \ {s}
  /\ pending' = pending \ Own({s})
  /\ initWait' = initWait \ {s}
  /\ inbox' = inbox \ Own({s})

\* The connection of s closes, and its client waits for nothing more.
Close(s) ==
  /\ Detach(s)
  /\ conn' = [conn EXCEPT ![s] = "away"]
  /\ writing' = writing \ Own({s})
  /\ ready' = ready \ {s}
  /\ awaits' = awaits \ Own({s})
  /\ slow' = [slow EXCEPT ![s] = "no"]

\* BackendGone: the writer task is cancelled, what the inbox holds is flushed, and
\* the connection waits for its socket, still attached.
GiveUp(s) ==
  /\ conn' = [conn EXCEPT ![s] = "flushing"]
  /\ inbox' = inbox \ Own({s})
  /\ awaits' = awaits \ (inbox \cap Own({s}))
  /\ UNCHANGED <<attached, pending, initWait, writing, ready, slow>>

\* It detaches, from an inbox that may have filled again: it closes; or it is rebound
\* to another backend, and the request that was refused gets an error.
Flushed(s) ==
  /\ conn[s] = "flushing"
  /\ \/ Close(s)
     \/ /\ Detach(s)
        /\ conn' = [conn EXCEPT ![s] = "moved"]
        /\ writing' = writing \ Own({s})
        /\ awaits' = awaits \ (writing \cap Own({s}))
        /\ UNCHANGED <<ready, slow>>
  /\ UNCHANGED <<deadVars, init, pump, procVars>>

\* A connection to a live backend.
Attach(s) ==
  /\ conn[s] = "away" /\ Alive
  /\ conn' = [conn EXCEPT ![s] = "open"]
  /\ attached' = attached \cup {s}
  /\ UNCHANGED <<deadVars, init, initWait, pending, pump, procVars, inbox, writing, ready,
                 awaits, slow>>

\* Mutant: the state is set when the write has ended.
Forward_Unmarked ==
  /\ UNCHANGED init
  /\ pending' = pending \cup {Handshake}
  /\ upstream' = upstream \cup {Handshake}
  /\ inits' = inits + 1
  /\ UNCHANGED <<running, lines, told>>

\* An initialize goes upstream, the only one.
Forward ==
  /\ init' = "in_flight"
  /\ pending' = pending \cup {Handshake}
  /\ upstream' = upstream \cup {Handshake}
  /\ inits' = inits + 1
  /\ UNCHANGED <<running, lines, told>>

\* _handle_initialize.
Initialize(s) ==
  /\ Alive /\ Idle(s) /\ s \notin ready \cup awaits
  /\ awaits' = awaits \cup {s}
  /\ UNCHANGED <<deadVars, pump, conn, ready, slow>>
  /\ \/ /\ init = "unsent"
        /\ Forward
        /\ initWait' = initWait \cup {s}
        /\ writing' = writing \cup {s}
        /\ UNCHANGED <<attached, inbox>>
     \/ /\ init = "in_flight"
        /\ initWait' = initWait \cup {s}
        /\ UNCHANGED <<init, pending, procVars, attached, inbox, writing>>
     \/ /\ init = "ready"
        /\ Post({s}, pending, initWait)
        /\ UNCHANGED <<init, procVars, writing>>

\* Any other request of a client that has finished its handshake, here or on the
\* backend before this one.
Call(r) ==
  LET s == CallerOf[r] IN
  /\ Alive /\ Idle(s) /\ s \in ready
  /\ r \notin awaits \cup pending \cup upstream \cup inbox \cup {l[1] : l \in lines}
  /\ awaits' = awaits \cup {r}
  /\ writing' = writing \cup {r}
  /\ pending' = pending \cup {r}
  /\ upstream' = upstream \cup {r}
  /\ UNCHANGED <<deadVars, init, initWait, pump, running, lines, inits, told, attached, inbox,
                 conn, ready, slow>>

\* A frame, a request or a notification, finds the backend dead.
Rejected(s) ==
  /\ ~Alive /\ Idle(s) /\ (s \in ready \/ s \notin awaits)
  /\ GiveUp(s)
  /\ UNCHANGED <<deadVars, init, pump, procVars>>

\* The write of a frame ends; or it fails or times out.
Written(r) ==
  /\ r \in writing /\ conn[Owner(r)] = "open"
  /\ writing' = writing \ {r}
  /\ UNCHANGED <<deadVars, init, initWait, pending, pump, procVars, attached, inbox, conn,
                 ready, awaits, slow>>

WriteFails(r) ==
  /\ r \in writing /\ conn[Owner(r)] = "open"
  /\ dead' = TRUE
  /\ GiveUp(Owner(r))
  /\ UNCHANGED <<gone, init, pump, procVars>>

\* A connection that leaves another backend replays its initialize here, or
\* waits for the one in flight (prime_initialize).
Prime(s) ==
  /\ conn[s] = "away" /\ Alive
  /\ conn' = [conn EXCEPT ![s] = "priming"]
  /\ \/ init = "unsent" /\ Forward
     \/ init # "unsent" /\ UNCHANGED <<init, pending, procVars>>
  /\ UNCHANGED <<deadVars, initWait, pump, attached, inbox, writing, ready, awaits, slow>>

\* The handshake is over: it attaches, even to a backend dead by then, or closes.
Primed(s) ==
  /\ conn[s] = "priming" /\ init \in {"ready", "failed"}
  /\ conn' = [conn EXCEPT ![s] = IF init = "ready" THEN "open" ELSE "away"]
  /\ attached' = IF init = "ready" THEN attached \cup {s} ELSE attached
  /\ ready' = IF init = "ready" THEN ready \cup {s} ELSE ready
  /\ UNCHANGED <<deadVars, init, initWait, pending, pump, procVars, inbox, writing, awaits, slow>>

\* The write of the replay fails; or the handshake takes too long, and primers
\* fail from then on.
PrimeFails(s) ==
  /\ conn[s] = "priming" /\ init = "in_flight"
  /\ dead' = TRUE
  /\ init' \in {"in_flight", "failed"}
  /\ conn' = [conn EXCEPT ![s] = "away"]
  /\ UNCHANGED <<gone, initWait, pending, pump, procVars, attached, inbox, writing, ready,
                 awaits, slow>>

\* The stub disconnects.  The last one with work in flight kills the backend.
Disconnect(s) ==
  /\ Idle(s) \/ conn[s] = "moved"
  /\ dead' = (dead \/ (attached \ {s} = {} /\ pending \cap Own({s}) # {}))
  /\ Close(s)
  /\ UNCHANGED <<gone, init, pump, procVars>>

----------------------------------------------------------------------------
(* The process and the stdout pump *)

\* The server answers a request, in an order and at a length of its choice.
Serve(r, o) ==
  /\ running /\ r \in upstream
  /\ upstream' = upstream \ {r}
  /\ lines' = lines \cup {<<r, o>>}
  /\ UNCHANGED <<deadVars, init, initWait, pending, pump, running, inits, told, attached, inbox,
                 stubVars>>

Exit ==
  /\ running
  /\ running' = FALSE /\ upstream' = {}
  /\ UNCHANGED <<deadVars, init, initWait, pending, pump, lines, inits, told, attached, inbox,
                 stubVars>>

\* _on_upstream_initialize, up to the write of notifications/initialized, which is
\* queued behind what is being written; _fail_init; an oversize reply recycles the
\* backend.  The id is out of the table by then.
Answered(o) ==
  LET left == pending \ {Handshake} IN
  \/ /\ o = "result"
     /\ init' = "ready" /\ pending' = left
     /\ pump' = "notify" /\ told' = told + 1
     /\ UNCHANGED <<deadVars, initWait, attached, inbox>>
  \/ /\ o = "error"
     /\ init' = "failed" /\ dead' = TRUE
     /\ Post(initWait, left, {})
     /\ UNCHANGED <<gone, pump, told>>
  \/ /\ o = "oversize"
     /\ Broadcast(left)
     /\ UNCHANGED <<pump, told>>

\* The pump reads a reply and routes it.  Without its id, the backend is
\* recycled; an unknown id is dropped; a call's goes to its stub, a size error too.
PumpReply ==
  /\ pump = "read"
  /\ \E l \in lines :
       LET r == l[1] IN
       /\ lines' = lines \ {l}
       /\ \/ /\ l[2] = "garbled"
             /\ Broadcast(pending)
             /\ UNCHANGED <<pump, told>>
          \/ /\ l[2] # "garbled" /\ r \notin pending
             /\ UNCHANGED <<deadVars, init, initWait, pending, pump, told, attached, inbox>>
          \/ /\ r = Handshake /\ r \in pending
             /\ Answered(l[2])
          \/ /\ l[2] # "garbled" /\ r \in pending \cap Calls
             /\ Post({r}, pending \ {r}, initWait)
             /\ UNCHANGED <<deadVars, init, pump, told>>
  /\ UNCHANGED <<running, upstream, inits, stubVars>>

\* The notification is written, or is not, and the waiters are served.
PumpResume ==
  /\ pump = "notify"
  /\ pump' = "read"
  /\ dead' \in {dead, TRUE}
  /\ Post(initWait, pending, {})
  /\ UNCHANGED <<gone, init, procVars, stubVars>>

\* stdout ends, or shutdown() cancels the pump, wherever it stands.
PumpEof ==
  /\ ~running /\ pump # "done"
  /\ pump' = "done" /\ lines' = {}
  /\ Broadcast(pending)
  /\ UNCHANGED <<running, upstream, inits, told, stubVars>>

\* A request of the server that names no request of a stub.
AskUnroutable ==
  /\ pump = "read" /\ Cardinality(attached) # 1
  /\ Broadcast(pending)
  /\ UNCHANGED <<pump, procVars, stubVars>>

\* What the server sends unasked overflows an inbox that is not being read.
Overflow(s) ==
  /\ pump = "read" /\ s \in attached /\ ~Reading(s)
  /\ attached' = attached \ {s}
  /\ pending' = pending \ Own({s})
  /\ initWait' = initWait \ {s}
  /\ UNCHANGED <<deadVars, init, pump, procVars, inbox, stubVars>>

----------------------------------------------------------------------------
(* The heartbeat (_heartbeat_once) *)

HbGone ==
  /\ ~running
  /\ Broadcast(pending)
  /\ UNCHANGED <<pump, procVars, stubVars>>

\* A request is outstanding for too long.
HbWedged(r) ==
  /\ running /\ attached # {} /\ r \in pending
  /\ Broadcast(pending)
  /\ UNCHANGED <<pump, procVars, stubVars>>

HbPingFails ==
  /\ running /\ attached # {}
  /\ Broadcast(pending)
  /\ UNCHANGED <<pump, procVars, stubVars>>

----------------------------------------------------------------------------
Stub(s) ==
  \/ Attach(s) \/ Initialize(s) \/ Rejected(s) \/ Flushed(s)
  \/ Prime(s) \/ Primed(s) \/ PrimeFails(s) \/ Disconnect(s) \/ Stall(s) \/ Unstall(s) \/ Overflow(s)
Request(r) == Written(r) \/ WriteFails(r) \/ Deliver(r)
Process == Exit \/ \E r \in Ids, o \in Outcomes : Serve(r, o)
Pump == PumpReply \/ PumpResume \/ PumpEof
Heartbeat == HbGone \/ HbPingFails \/ \E r \in Ids : HbWedged(r)

Next ==
  \/ \E s \in Stubs : Stub(s)
  \/ \E r \in Requests : Request(r)
  \/ \E r \in Calls : Call(r)
  \/ Process \/ Pump \/ AskUnroutable \/ Heartbeat

Spec == Init /\ [][Next]_vars

\* The gateway's coroutines run, writes have a timeout, and the heartbeat keeps
\* ticking, past the hard ceiling of a request in flight.  The server may never
\* answer; a client may never read.
FairSpec ==
  /\ Spec
  /\ \A s \in Stubs : WF_vars(Flushed(s))
  /\ \A r \in Requests : WF_vars(Deliver(r)) /\ WF_vars(Written(r) \/ WriteFails(r))
  /\ WF_vars(Pump)
  /\ \A r \in Ids : WF_vars(HbWedged(r))

----------------------------------------------------------------------------
(* Properties *)

\* The server sees one handshake, whoever starts it (a stub, a primer, several
\* at once), and no call before it was told that the handshake is over, although
\* the cached reply is served while that notification is still being written.
OneHandshake ==
  /\ inits <= 1 /\ told <= 1
  /\ (Calls \cap (pending \cup upstream) # {}) => told = 1

\* The broadcast is final: after it nothing is in flight, and nothing is
\* accepted that nobody would answer.
GoneIsFinal == gone => dead /\ pending = {} /\ initWait = {}

\* A request in the table belongs to a stub that still is to be answered: no
\* reply can reach a stub that has left and come back, or another one's inbox.
PendingOwned == \A r \in pending \cap Calls : CallerOf[r] \in Bound /\ r \in awaits

\* A call that still waits has its entry or its answer, unless its own client
\* stopped reading or its own connection is being rebound: no failure of a
\* co-tenant, of the server or of the gateway leaves it with neither.
CallNotLost ==
  \A r \in Calls \cap awaits :
    \/ r \in pending \cup inbox
    \/ slow[CallerOf[r]] # "no"
    \/ conn[CallerOf[r]] \in {"flushing", "moved"}

\* A co-tenant's call ends with a reply or an error, however the shared backend
\* or another stub fails, unless its own client stops reading or its own
\* connection is rebound before the broadcast.
CallEnds ==
  \A r \in Calls : r \in awaits ~>
    \/ r \notin awaits
    \/ slow[CallerOf[r]] # "no"
    \/ conn[CallerOf[r]] = "moved"

\* Where a request stands: who is to answer it is waited for, or nobody is.
Asked == pending \cup initWait

Stage(r) ==
  IF r \notin awaits THEN IF r \in Asked \cup inbox THEN "stray" ELSE "idle"
  ELSE IF r \in Asked THEN IF r \in inbox THEN "twice" ELSE "asked"
  ELSE IF r \in inbox THEN "answered" ELSE "lost"

Life(r) == INSTANCE RequestLife WITH stage <- Stage(r), Cached <- r \in Stubs

\* Every request of a stub is answered at most once each time it is asked, and
\* only to a client that waits for it, however replies, broadcasts, cached
\* handshakes, rebinds and disconnects fall together.
AnsweredOnce ==
  /\ \A r \in Requests : Life(r)!Init
  /\ [][\A r \in Requests : [Life(r)!Next]_(Stage(r))]_vars

\* backend.py:1555: the recycling broadcast gives "every init waiter" a clean
\* error: none that reads its socket is left with neither an answer nor one queued.
WaiterRejected ==
  gone => \A s \in Stubs \cap awaits : s \in inbox \cup writing \/ conn[s] \in {"flushing", "moved"}
=============================================================================
