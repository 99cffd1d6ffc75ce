-------------------------- MODULE MCLaserNetwork --------------------------
(* Constants, symmetry and allocation for model-checking LaserNetwork.     *)
EXTENDS LaserNetwork, TLC

Beams == Permutations(Lasers)
BeamsAndMirrors == Permutations(Lasers) \cup Permutations(Mirrors)

(* For the liveness run, where symmetry is not sound: the ALaser objects   *)
(* are numbers and a spawned beam takes the lowest free one.  Nothing      *)
(* refers to a free object, so this only fixes its name.                   *)
LowestFirst ==
  \A a, b \in Lasers :
    a < b /\ life[a] = "free" /\ life[b] = "free" /\ life'[b] = "live"
      => life'[a] = "live"

LowestSpec ==
  /\ Init /\ life[1] = "live"
  /\ [][Next /\ LowestFirst]_vars
  /\ \A l \in Lasers : WF_vars(Tick(l))
  /\ WF_vars(Sweep)
  /\ WF_vars(Collect)
=============================================================================
