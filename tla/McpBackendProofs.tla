-------------------------- MODULE McpBackendProofs --------------------------
(* Theorems about a shared backend, for every number of stubs and calls.    *)
EXTENDS McpBackend, TLAPS

States == {"unsent", "in_flight", "ready", "failed"}

\* What the helpers do to the tables, whoever calls them.
LEMMA PostEffect ==
  ASSUME NEW A, NEW left, NEW waiting, Post(A, left, waiting)
  PROVE  /\ inbox' \subseteq inbox \cup A
         /\ attached' \subseteq attached
         /\ pending' \subseteq left
         /\ initWait' \subseteq waiting
  BY DEF Post

LEMMA BroadcastEffect ==
  ASSUME NEW table, Broadcast(table)
  PROVE  /\ dead' = TRUE /\ gone' = TRUE
         /\ inbox' \subseteq inbox \cup (table \cap Calls) \cup initWait
         /\ attached' \subseteq attached
         /\ pending' \subseteq table
         /\ initWait' \subseteq initWait
         /\ init' \in {init, "failed"}
         /\ init = "unsent" => init' = "unsent"
         /\ ~gone => pending' = {} /\ initWait' = {}
<1>1. CASE gone BY <1>1 DEF Broadcast
<1>2. CASE ~gone
  <2> DEFINE A == (table \cap Calls) \cup (IF Handshake \in table THEN initWait ELSE {})
  <2>1. Post(A, {}, {}) BY <1>2 DEF Broadcast
  <2>2. A \subseteq (table \cap Calls) \cup initWait OBVIOUS
  <2> HIDE DEF A
  <2>3. inbox' \subseteq inbox \cup A /\ attached' \subseteq attached /\ pending' \subseteq {}
        /\ initWait' \subseteq {}
    BY <2>1, PostEffect
  <2>4. dead' = TRUE /\ gone' = TRUE /\ init' = (IF init = "in_flight" THEN "failed" ELSE init)
    BY <1>2 DEF Broadcast
  <2> QED BY <2>2, <2>3, <2>4
<1> QED BY <1>1, <1>2

----------------------------------------------------------------------------
(* The type invariant *)

\* The part of the type that the tables of stubs make up.
TableType ==
  /\ init \in States
  /\ initWait \subseteq Bound
  /\ pending \subseteq Ids
  /\ attached \subseteq Bound
  /\ inbox \subseteq Requests

LEMMA OwnerType == \A r \in Requests : Owner(r) \in Stubs
  BY McpBackendAssumption DEF Owner, Requests

LEMMA PostType ==
  ASSUME TypeOK, NEW A \in SUBSET Requests, NEW left \in SUBSET Ids,
         NEW waiting \in SUBSET Bound, Post(A, left, waiting), conn' = conn, init' \in States
  PROVE  TableType'
  BY PostEffect DEF TypeOK, TableType, Bound, States

LEMMA BroadcastType ==
  ASSUME TypeOK, NEW table \in SUBSET Ids, Broadcast(table), conn' = conn
  PROVE  TableType' /\ dead' \in BOOLEAN /\ gone' \in BOOLEAN
<1>1. initWait \subseteq Requests BY DEF TypeOK, Requests, Bound
<1>2. table \cap Calls \subseteq Requests BY DEF Requests
<1> QED BY <1>1, <1>2, BroadcastEffect DEF TypeOK, TableType, Bound, States

LEMMA DetachType ==
  ASSUME TypeOK, NEW s \in Stubs, NEW l, Detach(s), conn' = [conn EXCEPT ![s] = l],
         init' \in States
  PROVE  TableType'
  BY DEF TypeOK, TableType, Bound, States, Detach

LEMMA GiveUpType ==
  ASSUME TypeOK, NEW s \in Stubs, GiveUp(s), UNCHANGED init
  PROVE  /\ TableType'
         /\ conn' \in [Stubs -> {"away", "priming", "open", "flushing", "moved"}]
         /\ writing' \subseteq Requests /\ awaits' \subseteq Requests /\ ready' \subseteq Stubs
         /\ slow' \in [Stubs -> {"no", "slow", "was", "quit"}]
<1>1. conn' = [conn EXCEPT ![s] = "flushing"] BY DEF GiveUp
<1>2. Bound \subseteq Bound' BY <1>1 DEF Bound, TypeOK
<1> QED BY <1>1, <1>2 DEF GiveUp, TypeOK, TableType, States, Bound

LEMMA CloseType ==
  ASSUME TypeOK, NEW s \in Stubs, Close(s), UNCHANGED init
  PROVE  /\ TableType'
         /\ conn' \in [Stubs -> {"away", "priming", "open", "flushing", "moved"}]
         /\ writing' \subseteq Requests /\ awaits' \subseteq Requests /\ ready' \subseteq Stubs
         /\ slow' \in [Stubs -> {"no", "slow", "was", "quit"}]
<1>1. TableType' BY DetachType DEF Close, TypeOK, States, Bound
<1> QED BY <1>1 DEF Close, TypeOK, Bound

LEMMA FlushedType == ASSUME TypeOK, NEW s \in Stubs, Flushed(s) PROVE TypeOK'
<1> USE DEF deadVars, procVars
<1>1. UNCHANGED <<deadVars, init, pump, procVars>> BY DEF Flushed
<1>2. CASE Close(s) BY <1>1, <1>2, CloseType DEF TypeOK, TableType, States, Bound
<1>3. CASE ~Close(s)
  <2>1. TableType' BY <1>1, <1>3, DetachType DEF Flushed, TypeOK, States, Bound
  <2> QED BY <1>1, <1>3, <2>1 DEF Flushed, TypeOK, TableType, States, Bound
<1> QED BY <1>2, <1>3

LEMMA InitType == Init => TypeOK
<1> SUFFICES ASSUME Init PROVE TypeOK OBVIOUS
<1>1. inits \in Nat /\ told \in Nat BY DEF Init
<1>2. /\ running \in BOOLEAN /\ dead \in BOOLEAN /\ gone \in BOOLEAN
      /\ conn \in [Stubs -> {"away", "priming", "open", "flushing", "moved"}]
      /\ slow \in [Stubs -> {"no", "slow", "was", "quit"}]
  BY Zenon DEF Init
<1> QED BY <1>1, <1>2 DEF Init, TypeOK, Bound

LEMMA StubType == ASSUME TypeOK, NEW s \in Stubs, Stub(s) PROVE TypeOK'
<1> USE DEF deadVars, procVars, stubVars
<1>h. Handshake \in Ids BY DEF Ids
<1>1. CASE Attach(s) BY <1>1 DEF Attach, TypeOK, Bound
<1>2. CASE Initialize(s)
  <2>1. awaits' \subseteq Requests BY <1>2 DEF Initialize, TypeOK, Requests, Bound
  <2>2. CASE init = "unsent" /\ Forward /\ initWait' = initWait \cup {s}
             /\ writing' = writing \cup {s} /\ UNCHANGED <<attached, inbox>>
    BY <1>2, <1>h, <2>1, <2>2 DEF Initialize, Forward, Idle, TypeOK, Requests, Bound
  <2>3. CASE initWait' = initWait \cup {s}
             /\ UNCHANGED <<init, pending, procVars, attached, inbox, writing>>
    BY <1>2, <2>1, <2>3 DEF Initialize, Idle, TypeOK, Bound
  <2>4. CASE Post({s}, pending, initWait) /\ UNCHANGED <<init, procVars, writing>>
    <3>1. conn' = conn /\ init' \in States BY <1>2, <2>4 DEF Initialize, TypeOK, States, Bound
    <3>2. TableType'
      BY <2>4, <3>1, PostType DEF TypeOK, Requests, Bound
    <3> QED BY <1>2, <2>1, <2>4, <3>2 DEF Initialize, TypeOK, TableType, Bound, States
  <2> QED BY <1>2, <2>2, <2>3, <2>4 DEF Initialize
<1>3. CASE Rejected(s)
  <2>1. GiveUp(s) /\ UNCHANGED <<deadVars, init, pump, procVars>> BY <1>3 DEF Rejected
  <2> QED BY <2>1, GiveUpType DEF TypeOK, TableType, States, Bound
<1>4. CASE Prime(s)
  <2>1. CASE Forward BY <1>4, <1>h, <2>1 DEF Prime, Forward, TypeOK, Bound
  <2>2. CASE UNCHANGED <<init, pending, procVars>> BY <1>4, <2>2 DEF Prime, TypeOK, Bound
  <2> QED BY <1>4, <2>1, <2>2 DEF Prime
<1>5. CASE Primed(s) BY <1>5 DEF Primed, TypeOK, Bound
<1>6. CASE PrimeFails(s) BY <1>6 DEF PrimeFails, TypeOK, Bound
<1>7. CASE Disconnect(s)
  <2>1. Close(s) /\ UNCHANGED <<gone, init, pump, procVars>> BY <1>7 DEF Disconnect
  <2>2. dead' \in BOOLEAN BY <1>7, Zenon DEF Disconnect
  <2> QED BY <2>1, <2>2, CloseType DEF TypeOK, TableType, States, Bound
<1>8. CASE Stall(s) BY <1>8 DEF Stall, TypeOK, Bound
<1>9. CASE Unstall(s) BY <1>9 DEF Unstall, TypeOK, Bound
<1>10. CASE Overflow(s) BY <1>10 DEF Overflow, TypeOK, Bound
<1>11. CASE Flushed(s) BY <1>11, FlushedType
<1> QED
  BY <1>1, <1>2, <1>3, <1>4, <1>5, <1>6, <1>7, <1>8, <1>9, <1>10, <1>11 DEF Stub

LEMMA RequestType == ASSUME TypeOK, NEW r \in Requests, Request(r) PROVE TypeOK'
<1> USE DEF deadVars, procVars, stubVars
<1>1. CASE Written(r) BY <1>1 DEF Written, TypeOK, Bound
<1>2. CASE WriteFails(r)
  <2>1. dead' \in BOOLEAN BY <1>2 DEF WriteFails
  <2>2. GiveUp(Owner(r)) /\ UNCHANGED <<gone, init, pump, procVars>> BY <1>2 DEF WriteFails
  <2>3. Owner(r) \in Stubs BY OwnerType
  <2> QED BY <2>1, <2>2, <2>3, GiveUpType DEF TypeOK, TableType, Bound, States
<1>3. CASE Deliver(r) BY <1>3 DEF Deliver, TypeOK, Bound
<1> QED BY <1>1, <1>2, <1>3 DEF Request

LEMMA CallType == ASSUME TypeOK, NEW r \in Calls, Call(r) PROVE TypeOK'
  BY DEF Call, TypeOK, Requests, Ids, deadVars, Bound

LEMMA ProcessType == ASSUME TypeOK, Process PROVE TypeOK'
<1> USE DEF deadVars, procVars, stubVars
<1>1. CASE Exit BY <1>1 DEF Exit, TypeOK, Bound
<1>2. ASSUME NEW r \in Ids, NEW o \in Outcomes, Serve(r, o) PROVE TypeOK'
  BY <1>2 DEF Serve, TypeOK, Bound
<1> QED BY <1>1, <1>2 DEF Process

LEMMA BroadcastStep ==
  ASSUME TypeOK, NEW table \in SUBSET Ids, Broadcast(table), UNCHANGED stubVars,
         running' = running, upstream' \subseteq Ids, lines' \subseteq lines,
         pump' \in {"read", "notify", "done"}, inits' \in Nat, told' \in Nat
  PROVE  TypeOK'
<1>1. conn' = conn BY DEF stubVars
<1>2. TableType' /\ dead' \in BOOLEAN /\ gone' \in BOOLEAN BY <1>1, BroadcastType
<1> QED BY <1>2 DEF TypeOK, TableType, Bound, States, stubVars

LEMMA PumpType == ASSUME TypeOK, Pump PROVE TypeOK'
<1> USE DEF deadVars, procVars
<1>1. CASE PumpReply
  <2>1. PICK l \in lines :
          LET r == l[1] IN
          /\ lines' = lines \ {l}
          /\ \/ l[2] = "garbled" /\ Broadcast(pending) /\ UNCHANGED <<pump, told>>
             \/ l[2] # "garbled" /\ r \notin pending
                  /\ UNCHANGED <<deadVars, init, initWait, pending, pump, told, attached, inbox>>
             \/ r = Handshake /\ r \in pending /\ Answered(l[2])
             \/ l[2] # "garbled" /\ r \in pending \cap Calls
                  /\ Post({r}, pending \ {r}, initWait) /\ UNCHANGED <<deadVars, init, pump, told>>
    BY <1>1 DEF PumpReply
  <2>2. UNCHANGED <<running, upstream, inits, stubVars>> BY <1>1 DEF PumpReply
  <2>3. conn' = conn BY <2>2 DEF stubVars
  <2>4. /\ upstream' \subseteq Ids /\ lines' \subseteq lines /\ running' = running /\ inits' \in Nat
        /\ UNCHANGED stubVars
    BY <2>1, <2>2 DEF TypeOK, Bound
  <2>5. CASE Broadcast(pending) /\ UNCHANGED <<pump, told>>
    BY <2>4, <2>5, BroadcastStep DEF TypeOK, Bound
  <2>6. CASE UNCHANGED <<deadVars, init, initWait, pending, pump, told, attached, inbox>>
    BY <2>4, <2>6 DEF TypeOK, stubVars, Bound
  <2>7. CASE Answered(l[2])
    <3> DEFINE left == pending \ {Handshake}
    <3>1. left \subseteq Ids /\ initWait \subseteq Requests
      BY DEF TypeOK, Requests, Bound
    <3>2. CASE /\ init' = "ready" /\ pending' = left /\ pump' = "notify" /\ told' = told + 1
               /\ UNCHANGED <<deadVars, initWait, attached, inbox>>
      BY <2>4, <3>1, <3>2 DEF TypeOK, stubVars, Bound
    <3>3. CASE init' = "failed" /\ dead' = TRUE /\ Post(initWait, left, {})
               /\ UNCHANGED <<gone, pump, told>>
      <4>1. TableType' BY <2>3, <3>1, <3>3, PostType DEF States
      <4> QED BY <2>4, <3>3, <4>1 DEF TypeOK, TableType, Bound, States, stubVars
    <3>4. CASE Broadcast(left) /\ UNCHANGED <<pump, told>>
      BY <2>4, <3>1, <3>4, BroadcastStep DEF TypeOK, Bound
    <3> QED BY <2>7, <3>2, <3>3, <3>4 DEF Answered
  <2>8. CASE /\ l[1] \in pending \cap Calls /\ Post({l[1]}, pending \ {l[1]}, initWait)
             /\ UNCHANGED <<deadVars, init, pump, told>>
    <3>1. {l[1]} \subseteq Requests /\ pending \ {l[1]} \subseteq Ids /\ init' \in States
          /\ initWait \subseteq Bound
      BY <2>8 DEF TypeOK, Requests, Bound, States
    <3>2. TableType' BY <2>3, <2>8, <3>1, PostType
    <3> QED BY <2>4, <2>8, <3>2 DEF TypeOK, TableType, Bound, States, stubVars
  <2> QED BY <2>1, <2>5, <2>6, <2>7, <2>8
<1>2. CASE PumpResume
  <2>1. dead' \in BOOLEAN BY <1>2, Zenon DEF PumpResume, TypeOK, Bound
  <2>2. /\ Post(initWait, pending, {}) /\ conn' = conn /\ init' \in States
        /\ initWait \subseteq Requests /\ pending \subseteq Ids
    BY <1>2 DEF PumpResume, TypeOK, States, Requests, stubVars, Bound
  <2>3. TableType' BY <2>2, PostType
  <2> QED BY <1>2, <2>1, <2>3 DEF PumpResume, TypeOK, TableType, Bound, States, stubVars
<1>3. CASE PumpEof BY <1>3, BroadcastStep DEF PumpEof, TypeOK, Bound
<1> QED BY <1>1, <1>2, <1>3 DEF Pump

LEMMA AloneType == ASSUME TypeOK, AskUnroutable \/ Heartbeat PROVE TypeOK'
<1>1. Broadcast(pending) /\ UNCHANGED <<pump, procVars, stubVars>>
  BY DEF AskUnroutable, Heartbeat, HbGone, HbWedged, HbPingFails
<1> QED BY <1>1, BroadcastStep DEF TypeOK, procVars, Bound

\* All variables have their types: in particular a stub that waits for the
\* handshake, or has an inbox, has an open connection.
THEOREM TypeCorrect == Spec => []TypeOK
<1>1. Init => TypeOK BY InitType
<1>2. TypeOK /\ [Next]_vars => TypeOK'
  <2> SUFFICES ASSUME TypeOK, [Next]_vars PROVE TypeOK' OBVIOUS
  <2>1. CASE Next
    BY <2>1, StubType, RequestType, CallType, ProcessType, PumpType, AloneType DEF Next
  <2>2. CASE UNCHANGED vars BY <2>2 DEF vars, TypeOK, Bound
  <2> QED BY <2>1, <2>2
<1> QED BY <1>1, <1>2, PTL DEF Spec

----------------------------------------------------------------------------
(* The broadcast is final *)

LEMMA LeaveShrinks ==
  ASSUME NEW s, GiveUp(s) \/ Flushed(s)
  PROVE  /\ pending' \subseteq pending /\ initWait' \subseteq initWait /\ inbox' \subseteq inbox
         /\ ready' \subseteq ready
  BY DEF GiveUp, Flushed, Close, Detach

\* After the broadcast the backend is dead and owes nobody an answer: every way
\* to put something in flight asks is_alive first, in the same turn of the loop.
THEOREM GoneStays == Spec => []GoneIsFinal
<1>1. Init => GoneIsFinal BY DEF Init, GoneIsFinal
<1>2. GoneIsFinal /\ [Next]_vars => GoneIsFinal'
  <2> SUFFICES ASSUME GoneIsFinal, [Next]_vars, gone' PROVE GoneIsFinal'
    BY DEF GoneIsFinal
  <2> USE DEF deadVars, stubVars, procVars, Alive
  <2>b. ASSUME NEW table, Broadcast(table), table \subseteq pending PROVE GoneIsFinal'
    BY <2>b, BroadcastEffect DEF GoneIsFinal
  <2>1. ASSUME NEW s \in Stubs, Stub(s) PROVE GoneIsFinal'
    <3>1. CASE Rejected(s) \/ Flushed(s)
      <4>1. UNCHANGED deadVars BY <3>1 DEF Rejected, Flushed
      <4> QED BY <3>1, <4>1, LeaveShrinks DEF Rejected, GoneIsFinal
    <3>2. CASE Disconnect(s)
      BY <3>2 DEF Disconnect, Close, Detach, GoneIsFinal
    <3>3. CASE Initialize(s) BY <3>3, Zenon DEF Initialize, GoneIsFinal
    <3>4. CASE Prime(s) BY <3>4, Zenon DEF Prime, GoneIsFinal
    <3>5. CASE Attach(s) \/ Primed(s) \/ PrimeFails(s) \/ Stall(s) \/ Unstall(s) \/ Overflow(s)
      BY <3>5 DEF Attach, Primed, PrimeFails, Stall, Unstall, Overflow, GoneIsFinal
    <3> QED BY <2>1, <3>1, <3>2, <3>3, <3>4, <3>5 DEF Stub
  <2>2. ASSUME NEW r \in Requests, Request(r) PROVE GoneIsFinal'
    <3>1. CASE WriteFails(r) BY <3>1, LeaveShrinks DEF WriteFails, GoneIsFinal
    <3> QED BY <2>2, <3>1 DEF Request, Written, Deliver, GoneIsFinal
  <2>3. ASSUME NEW r \in Calls, Call(r) PROVE GoneIsFinal'
    BY <2>3, Zenon DEF Call, GoneIsFinal
  <2>4. CASE Process BY <2>4 DEF Process, Exit, Serve, GoneIsFinal
  <2>5. CASE PumpReply
    <3>1. PICK l \in lines :
            \/ Broadcast(pending)
            \/ UNCHANGED <<dead, gone, init, initWait, pending>>
            \/ Answered(l[2])
            \/ Post({l[1]}, pending \ {l[1]}, initWait) /\ UNCHANGED <<dead, gone>>
      BY <2>5 DEF PumpReply
    <3>2. CASE Answered(l[2])
      <4>1. CASE Broadcast(pending \ {Handshake}) BY <4>1, <2>b
      <4>2. CASE Post(initWait, pending \ {Handshake}, {}) /\ dead' = TRUE /\ UNCHANGED gone
        BY <4>2, PostEffect DEF GoneIsFinal
      <4>3. CASE pending' = pending \ {Handshake} /\ UNCHANGED <<dead, gone, initWait>>
        BY <4>3 DEF GoneIsFinal
      <4> QED BY <3>2, <4>1, <4>2, <4>3 DEF Answered
    <3>3. CASE Post({l[1]}, pending \ {l[1]}, initWait) /\ UNCHANGED <<dead, gone>>
      BY <3>3, PostEffect DEF GoneIsFinal
    <3> QED BY <2>b, <3>1, <3>2, <3>3 DEF GoneIsFinal
  <2>6. CASE PumpResume
    <3>1. gone /\ dead /\ Post(initWait, pending, {})
      BY <2>6 DEF PumpResume, GoneIsFinal
    <3>2. dead' BY <2>6, <3>1, Zenon DEF PumpResume
    <3> QED BY <3>1, <3>2, PostEffect DEF GoneIsFinal
  <2>7. CASE PumpEof \/ AskUnroutable \/ Heartbeat
    BY <2>7, <2>b DEF PumpEof, AskUnroutable, Heartbeat, HbGone, HbWedged, HbPingFails
  <2>8. CASE UNCHANGED vars BY <2>8 DEF vars, GoneIsFinal
  <2> QED BY <2>1, <2>2, <2>3, <2>4, <2>5, <2>6, <2>7, <2>8 DEF Next, Pump
<1> QED BY <1>1, <1>2, PTL DEF Spec

----------------------------------------------------------------------------
(* One handshake *)

\* The states of the handshake: nothing is sent before it is under way, its id
\* leaves the table with its result, and clients become ready after it.
HandshakeInv ==
  /\ init \in States
  /\ inits = IF init = "unsent" THEN 0 ELSE 1
  /\ told \in {0, 1}
  /\ init = "unsent" \/ Handshake \in pending => told = 0
  /\ init = "ready" \/ ready # {} => told = 1
  /\ init = "unsent" => Handshake \notin pending
  /\ Calls \cap (pending \cup upstream) # {} => told = 1

\* Steps that send nothing and add nothing to the tables.
LEMMA QuietStep ==
  ASSUME HandshakeInv, UNCHANGED <<inits, told>>,
         init' = init \/ (init # "unsent" /\ init' = "failed"),
         pending' \subseteq pending, upstream' \subseteq upstream,
         ready' \subseteq ready \/ init = "ready"
  PROVE  HandshakeInv'
  BY DEF HandshakeInv, States

LEMMA BroadcastQuiet ==
  ASSUME HandshakeInv, NEW table \in SUBSET pending, Broadcast(table),
         UNCHANGED <<inits, told, ready>>, upstream' \subseteq upstream
  PROVE  HandshakeInv'
  BY BroadcastEffect, QuietStep DEF HandshakeInv

LEMMA ForwardStep ==
  ASSUME HandshakeInv, init = "unsent", Forward, UNCHANGED ready
  PROVE  HandshakeInv'
  BY McpBackendAssumption DEF HandshakeInv, Forward, States

LEMMA StubHandshake == ASSUME HandshakeInv, NEW s \in Stubs, Stub(s) PROVE HandshakeInv'
<1> USE DEF deadVars, stubVars, procVars
<1>1. CASE Initialize(s)
  <2>1. CASE init = "unsent" /\ Forward BY <1>1, <2>1, ForwardStep DEF Initialize
  <2>2. CASE UNCHANGED <<init, pending, procVars>> BY <1>1, <2>2, QuietStep DEF Initialize
  <2>3. CASE Post({s}, pending, initWait) /\ UNCHANGED <<init, procVars>>
    BY <1>1, <2>3, PostEffect, QuietStep DEF Initialize
  <2> QED BY <1>1, <2>1, <2>2, <2>3 DEF Initialize
<1>2. CASE Prime(s)
  <2>1. CASE init = "unsent" /\ Forward BY <1>2, <2>1, ForwardStep DEF Prime
  <2>2. CASE UNCHANGED <<init, pending, procVars>> BY <1>2, <2>2, QuietStep DEF Prime
  <2> QED BY <1>2, <2>1, <2>2 DEF Prime
<1>3. CASE Rejected(s) \/ Flushed(s)
  <2>1. UNCHANGED <<init, procVars>> BY <1>3 DEF Rejected, Flushed
  <2> QED BY <1>3, <2>1, LeaveShrinks, QuietStep DEF Rejected
<1>4. CASE Disconnect(s) BY <1>4, QuietStep DEF Disconnect, Close, Detach
<1>5. CASE Primed(s) BY <1>5, QuietStep DEF Primed
<1>6. CASE PrimeFails(s) BY <1>6, QuietStep DEF PrimeFails
<1>7. CASE Attach(s) \/ Stall(s) \/ Unstall(s) \/ Overflow(s)
  BY <1>7, QuietStep DEF Attach, Stall, Unstall, Overflow
<1> QED BY <1>1, <1>2, <1>3, <1>4, <1>5, <1>6, <1>7 DEF Stub

LEMMA PumpHandshake == ASSUME HandshakeInv, Pump PROVE HandshakeInv'
<1> USE DEF deadVars, stubVars, procVars
<1>1. CASE PumpReply
  <2>1. UNCHANGED <<upstream, inits, ready>> BY <1>1 DEF PumpReply
  <2>2. PICK l \in lines :
          \/ Broadcast(pending) /\ UNCHANGED told
          \/ UNCHANGED <<init, pending, told>>
          \/ Handshake \in pending /\ Answered(l[2])
          \/ Post({l[1]}, pending \ {l[1]}, initWait) /\ UNCHANGED <<init, told>>
    BY <1>1 DEF PumpReply
  <2>3. CASE Broadcast(pending) /\ UNCHANGED told BY <2>1, <2>3, BroadcastQuiet
  <2>4. CASE UNCHANGED <<init, pending, told>> BY <2>1, <2>4, QuietStep
  <2>5. CASE Handshake \in pending /\ Answered(l[2])
    <3> DEFINE left == pending \ {Handshake}
    <3>1. CASE init' = "ready" /\ pending' = left /\ told' = told + 1
      BY <2>1, <2>5, <3>1 DEF HandshakeInv, States
    <3>2. CASE init' = "failed" /\ Post(initWait, left, {}) /\ UNCHANGED told
      <4>1. pending' \subseteq pending BY <3>2, PostEffect
      <4>2. init # "unsent" BY <2>5 DEF HandshakeInv
      <4> QED BY <2>1, <3>2, <4>1, <4>2, QuietStep
    <3>3. CASE Broadcast(left) /\ UNCHANGED told BY <2>1, <3>3, BroadcastQuiet
    <3> QED BY <2>5, <3>1, <3>2, <3>3 DEF Answered
  <2>6. CASE Post({l[1]}, pending \ {l[1]}, initWait) /\ UNCHANGED <<init, told>>
    <3>1. pending' \subseteq pending BY <2>6, PostEffect
    <3> QED BY <2>1, <2>6, <3>1, QuietStep
  <2> QED BY <2>2, <2>3, <2>4, <2>5, <2>6
<1>2. CASE PumpResume
  <2>1. pending' \subseteq pending BY <1>2, PostEffect DEF PumpResume
  <2> QED BY <1>2, <2>1, QuietStep DEF PumpResume
<1>3. CASE PumpEof BY <1>3, BroadcastQuiet DEF PumpEof
<1> QED BY <1>1, <1>2, <1>3 DEF Pump

\* The server is initialized once and hears of no call before it was told that
\* the handshake is over.
THEOREM HandshakeOnce == Spec => []OneHandshake
<1>1. Init => HandshakeInv BY McpBackendAssumption DEF Init, HandshakeInv, States
<1>2. HandshakeInv /\ [Next]_vars => HandshakeInv'
  <2> SUFFICES ASSUME HandshakeInv, [Next]_vars PROVE HandshakeInv' OBVIOUS
  <2> USE DEF deadVars, stubVars, procVars
  <2>1. ASSUME NEW r \in Requests, Request(r) PROVE HandshakeInv'
    <3>1. CASE WriteFails(r) BY <3>1, LeaveShrinks, QuietStep DEF WriteFails
    <3>2. CASE Written(r) BY <3>2, QuietStep DEF Written
    <3>3. CASE Deliver(r) BY <3>3, QuietStep DEF Deliver
    <3> QED BY <2>1, <3>1, <3>2, <3>3 DEF Request
  <2>2. ASSUME NEW r \in Calls, Call(r) PROVE HandshakeInv'
    <3>1. told = 1 /\ r # Handshake /\ init # "unsent"
      BY <2>2, McpBackendAssumption DEF Call, HandshakeInv
    <3> QED BY <2>2, <3>1 DEF Call, HandshakeInv
  <2>3. CASE Process BY <2>3, QuietStep DEF Process, Exit, Serve
  <2>4. CASE AskUnroutable \/ Heartbeat
    BY <2>4, BroadcastQuiet DEF AskUnroutable, Heartbeat, HbGone, HbWedged, HbPingFails
  <2>5. CASE UNCHANGED vars BY <2>5, QuietStep DEF vars
  <2> QED BY <2>1, <2>2, <2>3, <2>4, <2>5, StubHandshake, PumpHandshake DEF Next
<1>3. HandshakeInv => OneHandshake BY DEF HandshakeInv, OneHandshake
<1> QED BY <1>1, <1>2, <1>3, PTL DEF Spec

----------------------------------------------------------------------------
(* The table of requests *)

\* A request in the table is awaited by an open connection, and is not answered
\* yet: its answer is not in an inbox.
Owned == PendingOwned /\ inbox \cap pending \cap Calls = {}

\* Steps that put nothing into the table.
LEMMA OwnedStep ==
  ASSUME Owned, pending' \subseteq pending, inbox' \cap pending' \cap Calls = {},
         \A r \in pending' \cap Calls :
           (CallerOf[r] \in Bound => CallerOf[r] \in Bound') /\ (r \in awaits => r \in awaits')
  PROVE  Owned'
  BY DEF Owned, PendingOwned, Bound

LEMMA PostOwned ==
  ASSUME Owned, NEW A, NEW left, NEW waiting, Post(A, left, waiting), left \subseteq pending,
         A \cap left \cap Calls = {}, UNCHANGED <<conn, awaits>>
  PROVE  Owned'
<1>1. inbox' \subseteq inbox \cup A /\ pending' \subseteq left BY PostEffect
<1>2. inbox' \cap pending' \cap Calls = {} BY <1>1 DEF Owned
<1> QED BY <1>1, <1>2, OwnedStep DEF Bound

LEMMA BroadcastOwned ==
  ASSUME TypeOK, Owned, NEW table \in SUBSET pending, Broadcast(table), UNCHANGED <<conn, awaits>>
  PROVE  Owned'
<1>1. CASE gone
  <2>1. pending' \subseteq pending /\ inbox' = inbox BY <1>1 DEF Broadcast
  <2>2. inbox' \cap pending' \cap Calls = {} BY <2>1 DEF Owned
  <2> QED BY <2>1, <2>2, OwnedStep DEF Bound
<1>2. CASE ~gone
  <2>1. pending' = {} BY <1>2, BroadcastEffect
  <2> QED BY <2>1 DEF Owned, PendingOwned, Bound
<1> QED BY <1>1, <1>2

\* The stub that leaves takes its requests out of the table.
LEMMA LeaveOwned ==
  ASSUME TypeOK, Owned, NEW s \in Stubs, Flushed(s) \/ Close(s)
  PROVE  Owned'
<1>1. \A r \in Calls : r \in Own({s}) <=> CallerOf[r] = s
  BY McpBackendAssumption DEF Own, Owner, Requests
<1>2. /\ pending' = pending \ Own({s}) /\ inbox' \subseteq inbox
      /\ \A r \in awaits : r \in awaits' \/ r \in Own({s})
  BY DEF Flushed, Close, Detach
<1>3. \E l : conn' = [conn EXCEPT ![s] = l] BY DEF Flushed, Close
<1>4. \A r \in pending' \cap Calls :
        (CallerOf[r] \in Bound => CallerOf[r] \in Bound') /\ (r \in awaits => r \in awaits')
  BY <1>1, <1>2, <1>3, McpBackendAssumption DEF TypeOK, Bound
<1>5. pending' \subseteq pending /\ inbox' \cap pending' \cap Calls = {} BY <1>2 DEF Owned
<1> QED BY <1>4, <1>5, OwnedStep

\* While it flushes, what it asks is still in the table.
LEMMA GiveUpOwned ==
  ASSUME TypeOK, Owned, NEW s \in Stubs, GiveUp(s)
  PROVE  Owned'
<1>1. conn' = [conn EXCEPT ![s] = "flushing"] BY DEF GiveUp
<1>2. Bound \subseteq Bound' BY <1>1 DEF Bound, TypeOK
<1>3. /\ pending' = pending /\ inbox' \subseteq inbox
      /\ \A r \in awaits : r \in awaits' \/ r \in inbox
  BY DEF GiveUp
<1> QED BY <1>2, <1>3, OwnedStep DEF Owned

LEMMA StubOwned == ASSUME TypeOK, Owned, NEW s \in Stubs, Stub(s) PROVE Owned'
<1> USE DEF deadVars, stubVars, procVars
<1>1. CASE Initialize(s)
  <2>1. awaits' = awaits \cup {s} /\ UNCHANGED conn BY <1>1 DEF Initialize
  <2>2. CASE Forward /\ UNCHANGED inbox
    <3>1. pending' = pending \cup {Handshake} /\ Handshake \notin Calls
      BY <2>2, McpBackendAssumption DEF Forward
    <3> QED BY <2>1, <2>2, <3>1 DEF Owned, PendingOwned, Bound
  <2>3. CASE UNCHANGED <<pending, inbox>> BY <2>1, <2>3 DEF Owned, PendingOwned, Bound
  <2>4. CASE Post({s}, pending, initWait)
    <3>1. inbox' \subseteq inbox \cup {s} /\ pending' \subseteq pending BY <2>4, PostEffect
    <3>2. s \notin Calls BY McpBackendAssumption
    <3> QED BY <2>1, <3>1, <3>2 DEF Owned, PendingOwned, Bound
  <2> QED BY <1>1, <2>2, <2>3, <2>4 DEF Initialize
<1>2. CASE Prime(s)
  <2>1. \A r \in pending \cap Calls : CallerOf[r] # s BY <1>2 DEF Prime, Owned, PendingOwned, Bound
  <2>2. pending' \cap Calls \subseteq pending
    BY <1>2, McpBackendAssumption DEF Prime, Forward
  <2> QED BY <1>2, <2>1, <2>2, McpBackendAssumption DEF Prime, Owned, PendingOwned, TypeOK, Bound
<1>3. CASE Attach(s) \/ Primed(s) \/ PrimeFails(s)
  <2>1. \A r \in pending \cap Calls : CallerOf[r] # s
    BY <1>3 DEF Attach, Primed, PrimeFails, Owned, PendingOwned, Bound
  <2>2. \E l : conn' = [conn EXCEPT ![s] = l] BY <1>3, Zenon DEF Attach, Primed, PrimeFails
  <2>3. UNCHANGED <<pending, inbox, awaits>> BY <1>3 DEF Attach, Primed, PrimeFails
  <2> QED BY <2>1, <2>2, <2>3, McpBackendAssumption DEF Owned, PendingOwned, TypeOK, Bound
<1>4. CASE Rejected(s) BY <1>4, GiveUpOwned DEF Rejected
<1>5. CASE Flushed(s) \/ Disconnect(s) BY <1>5, LeaveOwned DEF Disconnect
<1>6. CASE Stall(s) \/ Unstall(s) BY <1>6 DEF Stall, Unstall, Owned, PendingOwned, Bound
<1>7. CASE Overflow(s) BY <1>7 DEF Overflow, Owned, PendingOwned, Bound
<1> QED BY <1>1, <1>2, <1>3, <1>4, <1>5, <1>6, <1>7 DEF Stub

LEMMA PumpOwned == ASSUME TypeOK, Owned, Pump PROVE Owned'
<1> USE DEF deadVars, stubVars, procVars
<1>w. initWait \cap Calls = {} BY McpBackendAssumption DEF TypeOK, Bound
<1>1. CASE PumpReply
  <2>1. UNCHANGED <<conn, awaits>> BY <1>1 DEF PumpReply
  <2>2. PICK l \in lines :
          \/ Broadcast(pending)
          \/ UNCHANGED <<pending, inbox>>
          \/ Answered(l[2])
          \/ Post({l[1]}, pending \ {l[1]}, initWait)
    BY <1>1 DEF PumpReply
  <2>3. CASE Broadcast(pending) BY <2>1, <2>3, BroadcastOwned
  <2>4. CASE UNCHANGED <<pending, inbox>> BY <2>1, <2>4 DEF Owned, PendingOwned, Bound
  <2>5. CASE Answered(l[2])
    <3> DEFINE left == pending \ {Handshake}
    <3>1. CASE pending' = left /\ UNCHANGED inbox
      BY <2>1, <3>1 DEF Owned, PendingOwned, Bound
    <3>2. CASE Post(initWait, left, {}) BY <1>w, <2>1, <3>2, PostOwned
    <3>3. CASE Broadcast(left) BY <2>1, <3>3, BroadcastOwned
    <3> QED BY <2>5, <3>1, <3>2, <3>3 DEF Answered
  <2>6. CASE Post({l[1]}, pending \ {l[1]}, initWait) BY <2>1, <2>6, PostOwned
  <2> QED BY <2>2, <2>3, <2>4, <2>5, <2>6
<1>2. CASE PumpResume BY <1>w, <1>2, PostOwned DEF PumpResume
<1>3. CASE PumpEof BY <1>3, BroadcastOwned DEF PumpEof
<1> QED BY <1>1, <1>2, <1>3 DEF Pump

LEMMA OwnedKept == TypeOK /\ Owned /\ [Next]_vars => Owned'
<1> SUFFICES ASSUME TypeOK, Owned, [Next]_vars PROVE Owned' OBVIOUS
<1> USE DEF deadVars, stubVars, procVars
<1>1. ASSUME NEW r \in Requests, Request(r) PROVE Owned'
  <2>1. CASE WriteFails(r)
    <3>1. Owner(r) \in Stubs /\ GiveUp(Owner(r)) BY <2>1, OwnerType DEF WriteFails
    <3> QED BY <3>1, GiveUpOwned
  <2>2. CASE Written(r) BY <2>2 DEF Written, Owned, PendingOwned, Bound
  <2>3. CASE Deliver(r) BY <2>3 DEF Deliver, Owned, PendingOwned, Bound
  <2> QED BY <1>1, <2>1, <2>2, <2>3 DEF Request
<1>2. ASSUME NEW r \in Calls, Call(r) PROVE Owned'
  BY <1>2, McpBackendAssumption DEF Call, Idle, Owned, PendingOwned, Bound
<1>3. CASE Process BY <1>3 DEF Process, Exit, Serve, Owned, PendingOwned, Bound
<1>4. CASE AskUnroutable \/ Heartbeat
  BY <1>4, BroadcastOwned DEF AskUnroutable, Heartbeat, HbGone, HbWedged, HbPingFails
<1>5. CASE UNCHANGED vars BY <1>5 DEF vars, Owned, PendingOwned, Bound
<1> QED BY <1>1, <1>2, <1>3, <1>4, <1>5, StubOwned, PumpOwned DEF Next

\* Every entry of the table is a request that a connection to this backend still
\* waits for: whatever order answers, rebinds and disconnects come in.
THEOREM TableOwned == Spec => []PendingOwned
<1>1. Init => Owned BY DEF Init, Owned, PendingOwned
<1>2. TypeOK /\ Owned /\ [Next]_vars => Owned' BY OwnedKept
<1>3. Owned => PendingOwned BY DEF Owned
<1> QED BY <1>1, <1>2, <1>3, TypeCorrect, PTL DEF Spec

----------------------------------------------------------------------------
(* A call keeps its entry or its answer *)

\* A stub that has no inbox has stopped reading before.
CallInv ==
  /\ CallNotLost
  /\ \A s \in Stubs : conn[s] = "open" => s \in attached \/ slow[s] # "no"

LEMMA CallOwn == \A r \in Calls : \A S : r \in Own(S) <=> CallerOf[r] \in S
  BY McpBackendAssumption DEF Own, Owner, Requests

LEMMA PostKeeps ==
  ASSUME PendingOwned, CallInv, NEW A, NEW left, NEW waiting, Post(A, left, waiting),
         pending \cap Calls \subseteq left \cup A, awaits' \cap Calls \subseteq awaits,
         UNCHANGED <<conn, slow>>
  PROVE  CallInv'
<1>1. PICK D \in SUBSET {s \in attached : ~Reading(s)} :
        /\ inbox' = inbox \cup (A \cap Own(attached \ D))
        /\ attached' = attached \ D /\ pending' = left \ Own(D)
  BY DEF Post
<1>2. ASSUME NEW s \in Stubs, conn[s] = "open", slow[s] = "no" PROVE s \in attached \ D
  BY <1>1, <1>2 DEF CallInv, Reading
<1>3. ASSUME NEW r \in Calls \cap awaits, slow[CallerOf[r]] = "no",
             conn[CallerOf[r]] \notin {"flushing", "moved"}
      PROVE  r \in pending' \cup inbox'
  <2>1. CASE r \in inbox BY <1>1, <2>1
  <2>2. CASE r \in pending
    <3>1. CallerOf[r] \in attached \ D
      BY <1>2, <1>3, <2>2, McpBackendAssumption DEF PendingOwned, Bound
    <3> QED BY <1>1, <1>3, <2>2, <3>1, CallOwn
  <2> QED BY <1>3, <2>1, <2>2 DEF CallInv, CallNotLost
<1> QED BY <1>1, <1>2, <1>3 DEF CallInv, CallNotLost

LEMMA BroadcastKeeps ==
  ASSUME PendingOwned, CallInv, NEW table, Broadcast(table), pending \cap Calls \subseteq table,
         UNCHANGED <<conn, awaits, slow>>
  PROVE  CallInv'
<1>1. CASE gone BY <1>1 DEF Broadcast, CallInv, CallNotLost
<1>2. CASE ~gone BY <1>2, PostKeeps DEF Broadcast
<1> QED BY <1>1, <1>2

\* What a stub does about its own connection touches no other stub's calls.
LEMMA LeaveKeeps ==
  ASSUME TypeOK, CallInv, NEW s \in Stubs, GiveUp(s) \/ Flushed(s) \/ Close(s)
  PROVE  CallInv'
<1>1. /\ \A t \in Stubs \ {s} : /\ conn'[t] = conn[t] /\ slow'[t] = slow[t]
                                /\ t \in attached => t \in attached'
      /\ pending \subseteq pending' \cup Own({s}) /\ inbox \subseteq inbox' \cup Own({s})
      /\ awaits' \subseteq awaits
  BY DEF GiveUp, Flushed, Close, Detach, TypeOK
<1>2. \/ conn'[s] \in {"flushing", "moved"}
      \/ conn'[s] = "away" /\ awaits' \cap Own({s}) = {}
  BY DEF GiveUp, Flushed, Close, TypeOK
<1>3. ASSUME NEW r \in Calls \cap awaits'
      PROVE  \/ r \in pending' \cup inbox' \/ slow'[CallerOf[r]] # "no"
             \/ conn'[CallerOf[r]] \in {"flushing", "moved"}
  <2>1. CASE CallerOf[r] = s BY <1>2, <1>3, <2>1, CallOwn
  <2>2. CASE CallerOf[r] # s
    <3>1. r \notin Own({s}) /\ CallerOf[r] \in Stubs BY <2>2, CallOwn, McpBackendAssumption
    <3>2. conn'[CallerOf[r]] = conn[CallerOf[r]] /\ slow'[CallerOf[r]] = slow[CallerOf[r]]
      BY <1>1, <2>2, <3>1
    <3>3. r \in pending \cup inbox => r \in pending' \cup inbox' BY <1>1, <3>1
    <3>4. r \in Calls \cap awaits BY <1>1, <1>3
    <3> QED BY <3>2, <3>3, <3>4 DEF CallInv, CallNotLost
  <2> QED BY <2>1, <2>2
<1>4. ASSUME NEW t \in Stubs, conn'[t] = "open" PROVE t \in attached' \/ slow'[t] # "no"
  <2>1. t # s BY <1>2, <1>4
  <2> QED BY <1>1, <1>4, <2>1 DEF CallInv
<1> QED BY <1>3, <1>4 DEF CallInv, CallNotLost

LEMMA StubKeeps ==
  ASSUME TypeOK, PendingOwned, CallInv, NEW s \in Stubs, Stub(s)
  PROVE  CallInv'
<1> USE DEF deadVars, stubVars, procVars
<1>1. CASE Rejected(s) \/ Flushed(s) \/ Disconnect(s)
  BY <1>1, LeaveKeeps DEF Rejected, Disconnect
<1>2. CASE Initialize(s)
  <2>1. awaits' = awaits \cup {s} /\ s \notin Calls /\ UNCHANGED <<conn, slow>>
    BY <1>2, McpBackendAssumption DEF Initialize
  <2>2. CASE pending \subseteq pending' /\ UNCHANGED <<attached, inbox>>
    BY <2>1, <2>2 DEF CallInv, CallNotLost
  <2>3. CASE Post({s}, pending, initWait) BY <2>1, <2>3, PostKeeps
  <2> QED BY <1>2, <2>2, <2>3 DEF Initialize, Forward
<1>3. CASE Attach(s) \/ Prime(s) \/ Primed(s) \/ PrimeFails(s)
  <2>1. conn[s] \in {"away", "priming"} BY <1>3 DEF Attach, Prime, Primed, PrimeFails
  <2>2. pending \subseteq pending' /\ attached \subseteq attached' /\ UNCHANGED <<inbox, awaits, slow>>
    BY <1>3 DEF Attach, Prime, Forward, Primed, PrimeFails
  <2>3. \E l \in {"open", "priming", "away"} : conn' = [conn EXCEPT ![s] = l]
    BY <1>3, Zenon DEF Attach, Prime, Primed, PrimeFails
  <2>4. \A t \in Stubs : t # s => conn'[t] = conn[t] BY <2>3 DEF TypeOK
  <2>o. conn'[s] = "open" => s \in attached'
    BY <1>3 DEF Attach, Prime, Primed, PrimeFails, TypeOK
  <2>5. \A t \in Stubs : conn'[t] = "open" => t \in attached' \/ slow'[t] # "no"
    BY <2>2, <2>4, <2>o DEF CallInv
  <2>6. \A t \in Stubs : conn[t] \in {"flushing", "moved"} => conn'[t] = conn[t]
    BY <2>1, <2>4
  <2> QED BY <2>2, <2>5, <2>6, McpBackendAssumption DEF CallInv, CallNotLost
<1>4. CASE Stall(s) \/ Unstall(s)
  <2>1. /\ UNCHANGED <<pending, inbox, awaits, attached, conn>>
        /\ \A t \in Stubs : slow'[t] = slow[t] \/ slow'[t] # "no"
    BY <1>4 DEF Stall, Unstall, TypeOK
  <2> QED BY <2>1, McpBackendAssumption DEF CallInv, CallNotLost
<1>5. CASE Overflow(s)
  <2>1. /\ ~Reading(s) /\ s \in Bound /\ UNCHANGED <<inbox, awaits, conn, slow>>
        /\ attached' = attached \ {s} /\ pending' = pending \ Own({s})
    BY <1>5 DEF Overflow, TypeOK
  <2>2. conn[s] = "flushing" \/ (conn[s] = "open" /\ slow[s] # "no")
    BY <2>1 DEF Reading, Bound
  <2> QED BY <2>1, <2>2, CallOwn DEF CallInv, CallNotLost
<1> QED BY <1>1, <1>2, <1>3, <1>4, <1>5 DEF Stub

\* No failure of the backend, of another stub or of a write leaves a call
\* without an entry and without an answer.
THEOREM CallsNotLost == Spec => []CallNotLost
<1>1. Init => CallInv BY DEF Init, CallInv, CallNotLost
<1>2. TypeOK /\ PendingOwned /\ CallInv /\ [Next]_vars => CallInv'
  <2> SUFFICES ASSUME TypeOK, PendingOwned, CallInv, [Next]_vars PROVE CallInv' OBVIOUS
  <2> USE DEF deadVars, stubVars, procVars
  <2>1. ASSUME NEW r \in Requests, Request(r) PROVE CallInv'
    <3>1. CASE WriteFails(r)
      <4>1. Owner(r) \in Stubs /\ GiveUp(Owner(r)) BY <3>1, OwnerType DEF WriteFails
      <4> QED BY <4>1, LeaveKeeps
    <3>2. CASE Written(r) BY <3>2 DEF Written, CallInv, CallNotLost
    <3>3. CASE Deliver(r) BY <3>3 DEF Deliver, CallInv, CallNotLost
    <3> QED BY <2>1, <3>1, <3>2, <3>3 DEF Request
  <2>2. ASSUME NEW r \in Calls, Call(r) PROVE CallInv'
    BY <2>2 DEF Call, CallInv, CallNotLost
  <2>3. CASE Process BY <2>3 DEF Process, Exit, Serve, CallInv, CallNotLost
  <2>4. CASE PumpReply
    <3>1. UNCHANGED <<conn, awaits, slow>> /\ Handshake \notin Calls
      BY <2>4, McpBackendAssumption DEF PumpReply
    <3>2. PICK l \in lines :
            \/ Broadcast(pending)
            \/ UNCHANGED <<pending, inbox, attached>>
            \/ Answered(l[2])
            \/ Post({l[1]}, pending \ {l[1]}, initWait)
      BY <2>4 DEF PumpReply
    <3>3. CASE UNCHANGED <<pending, inbox, attached>> BY <3>1, <3>3 DEF CallInv, CallNotLost
    <3>4. CASE Answered(l[2])
      <4> DEFINE left == pending \ {Handshake}
      <4>1. CASE pending' = left /\ UNCHANGED <<inbox, attached>>
        BY <3>1, <4>1 DEF CallInv, CallNotLost
      <4>2. CASE Post(initWait, left, {}) BY <3>1, <4>2, PostKeeps
      <4>3. CASE Broadcast(left) BY <3>1, <4>3, BroadcastKeeps
      <4> QED BY <3>4, <4>1, <4>2, <4>3 DEF Answered
    <3>5. CASE Broadcast(pending) BY <3>1, <3>5, BroadcastKeeps
    <3>6. CASE Post({l[1]}, pending \ {l[1]}, initWait) BY <3>1, <3>6, PostKeeps
    <3> QED BY <3>2, <3>3, <3>4, <3>5, <3>6
  <2>5. CASE PumpResume BY <2>5, PostKeeps DEF PumpResume
  <2>6. CASE PumpEof \/ AskUnroutable \/ Heartbeat
    BY <2>6, BroadcastKeeps
       DEF PumpEof, AskUnroutable, Heartbeat, HbGone, HbWedged, HbPingFails
  <2>7. CASE UNCHANGED vars BY <2>7 DEF vars, CallInv, CallNotLost
  <2> QED BY <2>1, <2>2, <2>3, <2>4, <2>5, <2>6, <2>7, StubKeeps DEF Next, Pump
<1>3. CallInv => CallNotLost BY DEF CallInv
<1> QED BY <1>1, <1>2, <1>3, TypeCorrect, TableOwned, PTL DEF Spec

----------------------------------------------------------------------------
(* The life of a request *)

\* A request that somebody is to answer, or has answered, is waited for, and is
\* not both.  It is inductive because every step is one of RequestLife.
StageInv == \A r \in Requests : Stage(r) \in {"idle", "asked", "answered", "lost"}

\* Nothing happens to r.
LEMMA StillStage ==
  ASSUME NEW r, r \in Asked' <=> r \in Asked, r \in inbox' <=> r \in inbox,
         r \in awaits' <=> r \in awaits
  PROVE  Stage(r)' = Stage(r)
  BY DEF Stage

\* r is answered out of the tables, or falls out of them.
LEMMA ServedStage ==
  ASSUME StageInv, NEW r \in Requests, r \in Asked' => r \in Asked,
         r \in inbox => r \in inbox',
         r \in inbox' => r \in inbox \/ (r \in Asked /\ r \notin Asked'),
         r \in awaits' <=> r \in awaits
  PROVE  [Life(r)!Next]_(Stage(r))
<1>1. Stage(r) \in {"idle", "asked", "answered", "lost"} BY DEF StageInv
<1>2. Stage(r)' = Stage(r) \/ (Stage(r) = "asked" /\ Stage(r)' \in {"answered", "lost"})
  BY <1>1 DEF Stage
<1> QED BY <1>2 DEF Life!Next, Life!Answer, Life!Lose

LEMMA PostServes ==
  ASSUME StageInv, NEW r \in Requests, NEW A, NEW left \in SUBSET pending,
         NEW waiting \in SUBSET initWait, Post(A, left, waiting), UNCHANGED awaits,
         r \in A => r \in Asked /\ r \notin left \cup waiting
  PROVE  [Life(r)!Next]_(Stage(r))
<1>1. /\ inbox \subseteq inbox' /\ inbox' \subseteq inbox \cup A
      /\ pending' \subseteq left /\ initWait' \subseteq waiting
  BY DEF Post
<1>2. Asked' \subseteq left \cup waiting /\ left \cup waiting \subseteq Asked BY <1>1 DEF Asked
<1> QED BY <1>1, <1>2, ServedStage

LEMMA BroadcastServes ==
  ASSUME StageInv, NEW r \in Requests, NEW table \in SUBSET pending, Broadcast(table),
         UNCHANGED awaits
  PROVE  [Life(r)!Next]_(Stage(r))
<1>1. CASE gone
  <2>1. pending' = table /\ UNCHANGED <<inbox, initWait>> BY <1>1 DEF Broadcast
  <2> QED BY <2>1, ServedStage DEF Asked
<1>2. CASE ~gone
  <2> DEFINE A == (table \cap Calls) \cup (IF Handshake \in table THEN initWait ELSE {})
  <2>1. Post(A, {}, {}) BY <1>2 DEF Broadcast
  <2>2. A \subseteq Asked BY DEF Asked
  <2> HIDE DEF A
  <2> QED BY <2>1, <2>2, PostServes
<1> QED BY <1>1, <1>2

\* What a stub that leaves has asked is lost to it or told to be; the requests of
\* the others are not touched.
LEMMA LeaveStage ==
  ASSUME TypeOK, StageInv, NEW s \in Stubs, Flushed(s) \/ Close(s), NEW r \in Requests
  PROVE  [Life(r)!Next]_(Stage(r))
<1>0. s \in Own({s}) BY DEF Own, Owner, Requests
<1>1. /\ pending' = pending \ Own({s}) /\ initWait' = initWait \ {s} /\ inbox' = inbox \ Own({s})
      /\ awaits' = awaits \ Own({s}) \/ awaits' = awaits \ (writing \cap Own({s}))
  BY DEF Flushed, Close, Detach
<1>2. CASE r \notin Own({s})
  <2>1. Stage(r)' = Stage(r) BY <1>0, <1>1, <1>2, StillStage DEF Asked
  <2> QED BY <2>1
<1>3. CASE r \in Own({s})
  <2>1. r \notin pending' /\ r \notin inbox' BY <1>1, <1>3
  <2>2. r \notin initWait'
    BY <1>1, <1>3, McpBackendAssumption DEF Own, Owner, TypeOK, Bound
  <2>3. r \notin Asked' BY <2>1, <2>2 DEF Asked
  <2>4. r \in awaits' => r \in awaits BY <1>1
  <2>5. Stage(r) \in {"idle", "asked", "answered", "lost"} BY DEF StageInv
  <2>6. \/ Stage(r)' = Stage(r)
        \/ Stage(r) # "idle" /\ Stage(r)' = "idle"
        \/ Stage(r) \in {"asked", "answered"} /\ Stage(r)' = "lost"
    BY <2>1, <2>3, <2>4, <2>5 DEF Stage
  <2> QED BY <2>5, <2>6 DEF Life!Next, Life!Withdraw, Life!Lose
<1> QED BY <1>2, <1>3

\* The flush delivers what the inbox holds.
LEMMA GiveUpStage ==
  ASSUME StageInv, NEW s \in Stubs, GiveUp(s), NEW r \in Requests
  PROVE  [Life(r)!Next]_(Stage(r))
<1>1. /\ inbox' = inbox \ Own({s}) /\ awaits' = awaits \ (inbox \cap Own({s}))
      /\ Asked' = Asked
  BY DEF GiveUp, Asked
<1>2. CASE r \in inbox \cap Own({s})
  <2>1. Stage(r) = "answered" BY <1>2 DEF StageInv, Stage
  <2>2. r \notin Asked BY <2>1 DEF Stage
  <2>3. Stage(r)' = "idle" BY <1>1, <1>2, <2>2 DEF Stage
  <2> QED BY <2>1, <2>3 DEF Life!Next, Life!Deliver
<1>3. CASE r \notin inbox \cap Own({s}) BY <1>1, <1>3, StillStage
<1> QED BY <1>2, <1>3

LEMMA InitializeStage ==
  ASSUME TypeOK, StageInv, NEW s \in Stubs, Initialize(s), NEW r \in Requests
  PROVE  [Life(r)!Next]_(Stage(r))
<1> USE DEF deadVars, procVars
<1>1. awaits' = awaits \cup {s} /\ s \notin awaits BY DEF Initialize
<1>2. s \in Requests /\ Handshake \notin Requests BY McpBackendAssumption DEF Requests
<1>3. s \notin pending BY McpBackendAssumption DEF TypeOK, Ids, Bound
<1>4. s \notin Asked \cup inbox /\ Stage(s) = "idle" BY <1>1, <1>2 DEF StageInv, Stage
<1>5. CASE initWait' = initWait \cup {s} /\ pending' \subseteq pending \cup {Handshake}
           /\ pending \subseteq pending' /\ UNCHANGED inbox
  <2>1. CASE r = s
    <3>1. Stage(r)' = "asked" BY <1>1, <1>4, <1>5, <2>1 DEF Stage, Asked
    <3> QED BY <1>4, <2>1, <3>1 DEF Life!Next, Life!Ask
  <2>2. CASE r # s
    <3>1. r \in Asked' <=> r \in Asked BY <1>2, <1>5, <2>2 DEF Asked
    <3> QED BY <1>1, <1>5, <2>2, <3>1, StillStage
  <2> QED BY <2>1, <2>2
<1>6. CASE Post({s}, pending, initWait)
  <2>1. /\ inbox \subseteq inbox' /\ inbox' \subseteq inbox \cup {s} /\ Asked' \subseteq Asked
    BY <1>6 DEF Post, Asked
  <2>2. CASE r = s
    <3>1. Stage(r)' \in {"answered", "lost"} BY <1>1, <1>4, <2>1, <2>2 DEF Stage
    <3> QED BY <1>4, <2>2, <3>1 DEF Life!Next, Life!AskCached
  <2>3. CASE r # s BY <1>1, <2>1, <2>3, ServedStage
  <2> QED BY <2>2, <2>3
<1> QED BY <1>5, <1>6 DEF Initialize, Forward

LEMMA StubStage ==
  ASSUME TypeOK, StageInv, NEW s \in Stubs, Stub(s), NEW r \in Requests
  PROVE  [Life(r)!Next]_(Stage(r))
<1> USE DEF deadVars, stubVars, procVars
<1>1. CASE Initialize(s) BY <1>1, InitializeStage
<1>2. CASE Rejected(s) BY <1>2, GiveUpStage DEF Rejected
<1>3. CASE Flushed(s) \/ Disconnect(s) BY <1>3, LeaveStage DEF Disconnect
<1>4. CASE Prime(s)
  <2>1. r # Handshake BY McpBackendAssumption DEF Requests
  <2>2. r \in Asked' <=> r \in Asked BY <1>4, <2>1 DEF Prime, Forward, Asked
  <2> QED BY <1>4, <2>2, StillStage DEF Prime
<1>5. CASE Attach(s) \/ Primed(s) \/ PrimeFails(s) \/ Stall(s) \/ Unstall(s)
  BY <1>5, StillStage DEF Attach, Primed, PrimeFails, Stall, Unstall, Asked
<1>6. CASE Overflow(s) BY <1>6, ServedStage DEF Overflow, Asked
<1> QED BY <1>1, <1>2, <1>3, <1>4, <1>5, <1>6 DEF Stub

LEMMA RequestStage ==
  ASSUME TypeOK, StageInv, NEW q \in Requests, Request(q), NEW r \in Requests
  PROVE  [Life(r)!Next]_(Stage(r))
<1> USE DEF deadVars, stubVars, procVars
<1>1. CASE Written(q) BY <1>1, StillStage DEF Written, Asked
<1>2. CASE WriteFails(q)
  <2>1. Owner(q) \in Stubs BY OwnerType
  <2> QED BY <1>2, <2>1, GiveUpStage DEF WriteFails
<1>3. CASE Deliver(q)
  <2>1. q \in inbox /\ inbox' = inbox \ {q} /\ awaits' = awaits \ {q} /\ Asked' = Asked
    BY <1>3 DEF Deliver, Asked
  <2>2. CASE r = q
    <3>1. Stage(r) = "answered" BY <2>1, <2>2 DEF StageInv, Stage
    <3>2. r \notin Asked BY <3>1 DEF Stage
    <3>3. Stage(r)' = "idle" BY <2>1, <2>2, <3>2 DEF Stage
    <3> QED BY <3>1, <3>3 DEF Life!Next, Life!Deliver
  <2>3. CASE r # q BY <2>1, <2>3, StillStage
  <2> QED BY <2>2, <2>3
<1> QED BY <1>1, <1>2, <1>3 DEF Request

LEMMA CallStage ==
  ASSUME TypeOK, StageInv, NEW q \in Calls, Call(q), NEW r \in Requests
  PROVE  [Life(r)!Next]_(Stage(r))
<1>1. /\ q \notin awaits \cup pending \cup inbox /\ awaits' = awaits \cup {q}
      /\ pending' = pending \cup {q} /\ UNCHANGED <<inbox, initWait>>
  BY DEF Call
<1>2. q \notin initWait BY McpBackendAssumption DEF TypeOK, Bound
<1>3. CASE r = q
  <2>1. Stage(r) = "idle" /\ Stage(r)' = "asked" BY <1>1, <1>2, <1>3 DEF Stage, Asked
  <2> QED BY <2>1 DEF Life!Next, Life!Ask
<1>4. CASE r # q BY <1>1, <1>4, StillStage DEF Asked
<1> QED BY <1>3, <1>4

LEMMA PumpStage ==
  ASSUME TypeOK, StageInv, Pump, NEW r \in Requests
  PROVE  [Life(r)!Next]_(Stage(r))
<1> USE DEF deadVars, stubVars, procVars
<1>h. r # Handshake BY McpBackendAssumption DEF Requests
<1>w. r \in initWait => r \notin pending BY McpBackendAssumption DEF TypeOK, Ids, Bound
<1>1. CASE PumpReply
  <2>1. UNCHANGED awaits BY <1>1 DEF PumpReply
  <2>2. PICK l \in lines :
          \/ Broadcast(pending)
          \/ UNCHANGED <<pending, initWait, inbox>>
          \/ Answered(l[2])
          \/ l[1] \in pending /\ Post({l[1]}, pending \ {l[1]}, initWait) /\ l[1] \in Calls
    BY <1>1 DEF PumpReply
  <2>3. CASE Broadcast(pending) BY <2>1, <2>3, BroadcastServes
  <2>4. CASE UNCHANGED <<pending, initWait, inbox>> BY <2>1, <2>4, StillStage DEF Asked
  <2>5. CASE Answered(l[2])
    <3> DEFINE left == pending \ {Handshake}
    <3>1. CASE pending' = left /\ UNCHANGED <<initWait, inbox>>
      <4>1. r \in Asked' <=> r \in Asked BY <1>h, <3>1 DEF Asked
      <4> QED BY <2>1, <3>1, <4>1, StillStage
    <3>2. CASE Post(initWait, left, {})
      <4>1. r \in initWait => r \in Asked /\ r \notin left \cup {} BY <1>w DEF Asked
      <4> QED BY <2>1, <3>2, <4>1, PostServes
    <3>3. CASE Broadcast(left) BY <2>1, <3>3, BroadcastServes
    <3> QED BY <2>5, <3>1, <3>2, <3>3 DEF Answered
  <2>6. CASE l[1] \in pending \cap Calls /\ Post({l[1]}, pending \ {l[1]}, initWait)
    <3>1. r = l[1] => r \in Asked /\ r \notin (pending \ {l[1]}) \cup initWait
      BY <1>w, <2>6 DEF Asked
    <3> QED BY <2>1, <2>6, <3>1, PostServes
  <2> QED BY <2>2, <2>3, <2>4, <2>5, <2>6
<1>2. CASE PumpResume
  <2>1. r \in initWait => r \in Asked /\ r \notin pending \cup {} BY <1>w DEF Asked
  <2> QED BY <1>2, <2>1, PostServes DEF PumpResume
<1>3. CASE PumpEof BY <1>3, BroadcastServes DEF PumpEof
<1> QED BY <1>1, <1>2, <1>3 DEF Pump

LEMMA StageStep ==
  ASSUME TypeOK, StageInv, [Next]_vars, NEW r \in Requests
  PROVE  [Life(r)!Next]_(Stage(r))
<1> USE DEF deadVars, stubVars, procVars
<1>1. CASE Process BY <1>1, StillStage DEF Process, Exit, Serve, Asked
<1>2. CASE AskUnroutable \/ Heartbeat
  BY <1>2, BroadcastServes DEF AskUnroutable, Heartbeat, HbGone, HbWedged, HbPingFails
<1>3. CASE UNCHANGED vars BY <1>3, StillStage DEF vars, Asked
<1> QED BY <1>1, <1>2, <1>3, StubStage, RequestStage, CallStage, PumpStage DEF Next

LEMMA StageInit == Init => StageInv /\ \A r \in Requests : Life(r)!Init
  BY DEF Init, StageInv, Stage, Asked, Life!Init

LEMMA StageKept == TypeOK /\ StageInv /\ [Next]_vars => StageInv'
<1> SUFFICES ASSUME TypeOK, StageInv, [Next]_vars, NEW r \in Requests
             PROVE  Stage(r)' \in {"idle", "asked", "answered", "lost"}
  BY DEF StageInv
<1>1. [Life(r)!Next]_(Stage(r)) BY StageStep
<1>2. Stage(r) \in {"idle", "asked", "answered", "lost"} BY DEF StageInv
<1> QED
  BY <1>1, <1>2
     DEF Life!Next, Life!Ask, Life!AskCached, Life!Answer, Life!Deliver, Life!Lose, Life!Withdraw

\* Every request of every stub lives as RequestLife says.
THEOREM RequestsAnsweredOnce == Spec => AnsweredOnce
<1>1. Init => StageInv /\ \A r \in Requests : Life(r)!Init BY StageInit
<1>2. TypeOK /\ StageInv /\ [Next]_vars => StageInv' BY StageKept
<1>3. TypeOK /\ StageInv /\ [Next]_vars => [\A r \in Requests : [Life(r)!Next]_(Stage(r))]_vars
  BY StageStep
<1> QED BY <1>1, <1>2, <1>3, TypeCorrect, PTL DEF Spec, AnsweredOnce

\* The same of one request: the backend implements the specification of its life.
THEOREM EveryRequestLives == ASSUME NEW r \in Requests PROVE Spec => Life(r)!Spec
<1>1. Init => StageInv /\ Life(r)!Init BY StageInit
<1>2. TypeOK /\ StageInv /\ [Next]_vars => StageInv' BY StageKept
<1>3. TypeOK /\ StageInv /\ [Next]_vars => [Life(r)!Next]_(Stage(r)) BY StageStep
<1> QED BY <1>1, <1>2, <1>3, TypeCorrect, PTL DEF Spec, Life!Spec
=============================================================================
