---------------------------- MODULE FallPlatform ----------------------------
(***************************************************************************)
(* AFallPlatform: a platform that falls some time after an ASpartaCharacter *)
(* steps into its box and may come back some time after it fell.           *)
(*                                                                         *)
(* One timer handle serves both delays.  SetTimer with a delay of zero     *)
(* clears the timer, so only whether HoldingTime and ResetTime are positive*)
(* matters; how long a positive delay lasts is left open.                  *)
(***************************************************************************)
EXTENDS FiniteSets

CONSTANTS
  Platforms,   \* AFallPlatform actors
  Walkers,     \* actors that can overlap their boxes
  Spartas      \* those that are ASpartaCharacters

FallAssumption == Spartas \subseteq Walkers

VARIABLES
  HoldingTime, \* HoldingTime[p] > 0
  ResetTime,   \* ResetTime[p] > 0
  IsFalling,   \* IsFalling[p]
  timer,       \* what FallingTimerHandle of p is set to: "none", "fall" or "reset"
  physics,     \* physics[p]: the mesh simulates physics
  home,        \* home[p]: the platform is at OriginTransform
  inside       \* inside[p]: the actors that overlap BoxComp

times    == <<HoldingTime, ResetTime>>
fallVars == <<HoldingTime, ResetTime, IsFalling, timer, physics, home, inside>>

-----------------------------------------------------------------------------

(* The constructor, and BeginPlay: at rest at the origin.                  *)
AtRest ==
  /\ IsFalling = [p \in Platforms |-> FALSE]
  /\ timer = [p \in Platforms |-> "none"]
  /\ physics = [p \in Platforms |-> FALSE]
  /\ home = [p \in Platforms |-> TRUE]
  /\ inside = [p \in Platforms |-> {}]

FallInit ==
  /\ HoldingTime \in [Platforms -> BOOLEAN]
  /\ ResetTime \in [Platforms -> BOOLEAN]
  /\ AtRest

-----------------------------------------------------------------------------
(* SetTimer on FallingTimerHandle: a delay of zero clears it.              *)
SetTimer(p, what, delay) == timer' = [timer EXCEPT ![p] = IF delay THEN what ELSE "none"]

(* MUTANTS: IsFalling is set only with the timer; it is not looked at.     *)
OverlapTimed(p, w) ==
  /\ w \in Walkers \ inside[p]
  /\ inside' = [inside EXCEPT ![p] = @ \cup {w}]
  /\ \/ /\ w \in Spartas /\ ~IsFalling[p]
        /\ SetTimer(p, "fall", HoldingTime[p])
        /\ IsFalling' = [IsFalling EXCEPT ![p] = HoldingTime[p]]
     \/ (w \notin Spartas \/ IsFalling[p]) /\ UNCHANGED <<timer, IsFalling>>
  /\ UNCHANGED <<times, physics, home>>

OverlapAgain(p, w) ==
  /\ w \in Walkers \ inside[p]
  /\ inside' = [inside EXCEPT ![p] = @ \cup {w}]
  /\ \/ /\ w \in Spartas
        /\ SetTimer(p, "fall", HoldingTime[p])
        /\ IsFalling' = [IsFalling EXCEPT ![p] = TRUE]
     \/ w \notin Spartas /\ UNCHANGED <<timer, IsFalling>>
  /\ UNCHANGED <<times, physics, home>>

(* OnComponentBeginOverlap *)
Overlap(p, w) ==
  /\ w \in Walkers \ inside[p]
  /\ inside' = [inside EXCEPT ![p] = @ \cup {w}]
  /\ \/ /\ w \in Spartas /\ ~IsFalling[p]
        /\ SetTimer(p, "fall", HoldingTime[p])
        /\ IsFalling' = [IsFalling EXCEPT ![p] = TRUE]
     \/ (w \notin Spartas \/ IsFalling[p]) /\ UNCHANGED <<timer, IsFalling>>
  /\ UNCHANGED <<times, physics, home>>

(* External: an actor leaves the box.                                      *)
StepOff(p, w) ==
  /\ w \in inside[p]
  /\ inside' = [inside EXCEPT ![p] = @ \ {w}]
  /\ UNCHANGED <<times, IsFalling, timer, physics, home>>

FallingPlatform(p) ==
  /\ timer[p] = "fall"
  /\ physics' = [physics EXCEPT ![p] = TRUE]
  /\ SetTimer(p, "reset", ResetTime[p])
  /\ UNCHANGED <<times, IsFalling, home, inside>>

(* External: physics moves the platform.                                   *)
Drop(p) ==
  /\ physics[p] /\ home[p]
  /\ home' = [home EXCEPT ![p] = FALSE]
  /\ UNCHANGED <<times, IsFalling, timer, physics, inside>>

(* MUTANT: physics stays on.                                               *)
ResetPlatformLoose(p) ==
  /\ timer[p] = "reset"
  /\ SetTimer(p, "none", FALSE)
  /\ home' = [home EXCEPT ![p] = TRUE]
  /\ \E there \in SUBSET Walkers : inside' = [inside EXCEPT ![p] = there]
  /\ IsFalling' = [IsFalling EXCEPT ![p] = FALSE]
  /\ UNCHANGED <<times, physics>>

(* The platform jumps back to its origin.  Whoever is there begins to      *)
(* overlap inside SetActorTransform, when IsFalling is still true, so that *)
(* the overlap has no effect.                                              *)
ResetPlatform(p) ==
  /\ timer[p] = "reset"
  /\ physics' = [physics EXCEPT ![p] = FALSE]
  /\ SetTimer(p, "none", FALSE)
  /\ home' = [home EXCEPT ![p] = TRUE]
  /\ \E there \in SUBSET Walkers : inside' = [inside EXCEPT ![p] = there]
  /\ IsFalling' = [IsFalling EXCEPT ![p] = FALSE]
  /\ UNCHANGED times

Timers(p) == FallingPlatform(p) \/ ResetPlatform(p)

FallNext ==
  \E p \in Platforms :
    \/ \E w \in Walkers : Overlap(p, w) \/ StepOff(p, w)
    \/ Timers(p)
    \/ Drop(p)

-----------------------------------------------------------------------------
(* PROPERTIES *)

(* A platform that takes no part in a fall is fixed at its origin; the     *)
(* timer belongs to the phase of the fall; it falls only if it was told to,*)
(* and leaves the origin only by falling.                                  *)
OnePhase ==
  \A p \in Platforms :
    /\ ~IsFalling[p] => ~physics[p] /\ home[p] /\ timer[p] = "none"
    /\ timer[p] = "fall"  => HoldingTime[p] /\ ~physics[p] /\ home[p]
    /\ timer[p] = "reset" => ResetTime[p] /\ physics[p]

(* A platform that never comes back does not miss anybody: it is falling   *)
(* while an ASpartaCharacter is in its box.  (One that comes back may: see  *)
(* ResetPlatform.)                                                         *)
StepFelt ==
  \A p \in Platforms :
    ~ResetTime[p] /\ inside[p] \cap Spartas # {} => IsFalling[p]

(* A step on a platform with both times makes it fall and come back, even  *)
(* if the actor goes away again or others follow.                          *)
ComesBack ==
  \A p \in Platforms :
    (IsFalling[p] /\ HoldingTime[p] /\ ResetTime[p]) ~> (~IsFalling[p] /\ home[p])
=============================================================================
