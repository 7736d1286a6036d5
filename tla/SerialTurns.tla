---------------------------- MODULE SerialTurns ----------------------------
(***************************************************************************)
(* What SessionManager promises the code that runs turns: a caller asks    *)
(* for a conversation key, and is granted the lease only while nobody else *)
(* holds a lease of that key ("turns on the same thread key are            *)
(* serialized").  Processes, registry and semaphores do not appear.        *)
(***************************************************************************)
CONSTANTS Keys, Callers, None

VARIABLES
  asked,   \* the key a caller is waiting for
  lease    \* the key whose lease a caller holds

Init ==
  /\ asked = [c \in Callers |-> None]
  /\ lease = [c \in Callers |-> None]

Free(k) == \A d \in Callers : lease[d] # k

Ask(c, k) ==
  /\ asked[c] = None /\ lease[c] = None
  /\ asked' = [asked EXCEPT ![c] = k]
  /\ UNCHANGED lease

Grant(c) ==
  /\ asked[c] # None
  /\ Free(asked[c])
  /\ lease' = [lease EXCEPT ![c] = asked[c]]
  /\ asked' = [asked EXCEPT ![c] = None]

\* An out-of-band command takes an idle key at once, or not at all.
GrantIdle(c, k) ==
  /\ asked[c] = None /\ lease[c] = None
  /\ Free(k)
  /\ lease' = [lease EXCEPT ![c] = k]
  /\ UNCHANGED asked

Refuse(c) ==
  /\ asked[c] # None
  /\ asked' = [asked EXCEPT ![c] = None]
  /\ UNCHANGED lease

Return(c) ==
  /\ lease[c] # None
  /\ lease' = [lease EXCEPT ![c] = None]
  /\ UNCHANGED asked

Next == \E c \in Callers :
  \/ \E k \in Keys : Ask(c, k) \/ GrantIdle(c, k)
  \/ Grant(c) \/ Refuse(c) \/ Return(c)

Spec == Init /\ [][Next]_<<asked, lease>>
=============================================================================
