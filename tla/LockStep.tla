------------------------------ MODULE LockStep ------------------------------
(***************************************************************************)
(* What the distributed timestep promises, seen from outside the octree.   *)
(* Every leaf posts the largest dt its own cells allow for the next step;  *)
(* once all have posted, one dt is agreed, the smallest of them; every     *)
(* node then takes that step once, at its own pace, before it may post     *)
(* for the following one.  Module Timestep implements this with channels   *)
(* and messages up and down the tree.                                      *)
(***************************************************************************)
EXTENDS Integers, Sequences

CONSTANTS Node, Leaf

VARIABLES
  step,     \* steps a node has completed
  time,     \* simulated time a node has reached
  limit,    \* the dt a leaf last posted
  posted,   \* the leaves that posted for the step to be agreed next
  agreed    \* the dts agreed so far, one per step

vars == <<step, time, limit, posted, agreed>>

Init ==
  /\ step = [n \in Node |-> 0]
  /\ time = [n \in Node |-> 0]
  /\ limit = [n \in Node |-> 0]
  /\ posted = {}
  /\ agreed = <<>>

(* A leaf that has completed every agreed step posts its limit.            *)
Post(l) ==
  /\ l \notin posted
  /\ step[l] = Len(agreed)
  /\ limit'[l] \in Int
  /\ limit' = [limit EXCEPT ![l] = limit'[l]]
  /\ posted' = posted \cup {l}
  /\ UNCHANGED <<step, time, agreed>>

(* All leaves have posted and no node lags behind: the smallest limit      *)
(* becomes the dt of the next step.                                        *)
Agree ==
  /\ posted = Leaf
  /\ \A n \in Node : step[n] = Len(agreed)
  /\ \E l \in Leaf :
       /\ \A m \in Leaf : limit[l] <= limit[m]
       /\ agreed' = Append(agreed, limit[l])
  /\ posted' = {}
  /\ UNCHANGED <<step, time, limit>>

(* A node takes the agreed step it has not taken yet.                      *)
Take(n) ==
  /\ step[n] < Len(agreed)
  /\ step' = [step EXCEPT ![n] = @ + 1]
  /\ time' = [time EXCEPT ![n] = @ + agreed[step[n] + 1]]
  /\ UNCHANGED <<limit, posted, agreed>>

Next ==
  \/ \E l \in Leaf : Post(l)
  \/ Agree
  \/ \E n \in Node : Take(n)

Spec == Init /\ [][Next]_vars
=============================================================================
