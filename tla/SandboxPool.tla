----------------------------- MODULE SandboxPool -----------------------------
(***************************************************************************)
(* What the SandboxManager promises its callers, whatever fails: a pool of *)
(* MaxConcurrent anonymous places.  A case is granted a place per sandbox, *)
(* one at a time, only while it has not ended; each place is given back    *)
(* exactly once, and a case that ended holds none.                         *)
(***************************************************************************)
EXTENDS Integers, FiniteSets

CONSTANTS Cases, Need, MaxConcurrent

VARIABLES
  inUse,   \* the places taken: pairs of a case and the number of its sandbox
  ended    \* the cases that are over

poolVars == <<inUse, ended>>

Places == Cases \X (1..Need)

PoolInit == inUse = {} /\ ended = {}

Grant(s) ==
  /\ s[1] \notin ended
  /\ s \notin inUse
  /\ Cardinality(inUse) < MaxConcurrent
  /\ inUse' = inUse \cup {s}
  /\ UNCHANGED ended

HoldsNone(c, used) == \A k \in 1..Need : <<c, k>> \notin used

(* The last return of a case may end it. *)
Return(s) ==
  /\ s \in inUse
  /\ inUse' = inUse \ {s}
  /\ \/ UNCHANGED ended
     \/ HoldsNone(s[1], inUse') /\ ended' = ended \cup {s[1]}

(* A case may end without ever being granted a place. *)
End(c) ==
  /\ HoldsNone(c, inUse)
  /\ ended' = ended \cup {c}
  /\ UNCHANGED inUse

PoolNext ==
  \/ \E s \in Places : Grant(s) \/ Return(s)
  \/ \E c \in Cases : End(c)

PoolSafety == PoolInit /\ [][PoolNext]_poolVars

PoolSpec == PoolSafety /\ \A s \in Places : WF_poolVars(Return(s))
=============================================================================
