----------------------------- MODULE Level_proofs -----------------------------
(***************************************************************************)
(* Proofs about the falling platforms of a level, for any number of them,  *)
(* any times, and any walkers.                                             *)
(***************************************************************************)
EXTENDS Level, TLAPS

FallTypes ==
  /\ HoldingTime \in [FallPlatforms -> BOOLEAN]
  /\ ResetTime \in [FallPlatforms -> BOOLEAN]
  /\ IsFalling \in [FallPlatforms -> BOOLEAN]
  /\ timer \in [FallPlatforms -> {"none", "fall", "reset"}]
  /\ physics \in [FallPlatforms -> BOOLEAN]
  /\ home \in [FallPlatforms -> BOOLEAN]
  /\ inside \in [FallPlatforms -> SUBSET Walkers]

FallInv == FallTypes /\ Fall!OnePhase /\ Fall!StepFelt

LEMMA FallStarts == ASSUME LevelInit PROVE FallInv
<1>1. Fall!AtRest /\ HoldingTime \in [FallPlatforms -> BOOLEAN]
                  /\ ResetTime \in [FallPlatforms -> BOOLEAN]
  BY DEF LevelInit, Fall!FallInit
<1> QED
  BY <1>1 DEF FallInv, FallTypes, Fall!AtRest, Fall!OnePhase, Fall!StepFelt

LEMMA OverlapKeeps ==
  ASSUME FallInv, NEW p \in FallPlatforms, NEW w \in Walkers, Fall!Overlap(p, w)
  PROVE  FallInv'
<1>1. CASE w \in Spartas /\ ~IsFalling[p]
  <2>1. /\ timer' = [timer EXCEPT ![p] = IF HoldingTime[p] THEN "fall" ELSE "none"]
        /\ IsFalling' = [IsFalling EXCEPT ![p] = TRUE]
        /\ inside' = [inside EXCEPT ![p] = @ \cup {w}]
        /\ UNCHANGED <<HoldingTime, ResetTime, physics, home>>
    BY <1>1 DEF Fall!Overlap, Fall!SetTimer, Fall!times
  <2>2. FallTypes'
    BY <2>1 DEF FallInv, FallTypes
  <2>3. Fall!OnePhase'
    BY <1>1, <2>1 DEF FallInv, FallTypes, Fall!OnePhase
  <2>4. Fall!StepFelt'
    BY <2>1 DEF FallInv, FallTypes, Fall!StepFelt
  <2> QED
    BY <2>2, <2>3, <2>4 DEF FallInv
<1>2. CASE ~(w \in Spartas /\ ~IsFalling[p])
  <2>1. /\ w \notin Spartas \/ IsFalling[p]
        /\ inside' = [inside EXCEPT ![p] = @ \cup {w}]
        /\ UNCHANGED <<HoldingTime, ResetTime, IsFalling, timer, physics, home>>
    BY <1>2 DEF Fall!Overlap, Fall!times
  <2>2. FallTypes' /\ Fall!OnePhase'
    BY <2>1 DEF FallInv, FallTypes, Fall!OnePhase
  <2>3. Fall!StepFelt'
    BY <2>1 DEF FallInv, FallTypes, Fall!StepFelt
  <2> QED
    BY <2>2, <2>3 DEF FallInv
<1> QED
  BY <1>1, <1>2

LEMMA StepOffKeeps ==
  ASSUME FallInv, NEW p \in FallPlatforms, NEW w \in Walkers, Fall!StepOff(p, w)
  PROVE  FallInv'
<1>1. /\ inside' = [inside EXCEPT ![p] = @ \ {w}]
      /\ UNCHANGED <<HoldingTime, ResetTime, IsFalling, timer, physics, home>>
  BY DEF Fall!StepOff, Fall!times
<1>2. FallTypes' /\ Fall!OnePhase'
  BY <1>1 DEF FallInv, FallTypes, Fall!OnePhase
<1>3. Fall!StepFelt'
  BY <1>1 DEF FallInv, FallTypes, Fall!StepFelt
<1> QED
  BY <1>2, <1>3 DEF FallInv

LEMMA FallingKeeps ==
  ASSUME FallInv, NEW p \in FallPlatforms, Fall!FallingPlatform(p)
  PROVE  FallInv'
<1>1. /\ timer[p] = "fall" /\ physics' = [physics EXCEPT ![p] = TRUE]
      /\ timer' = [timer EXCEPT ![p] = IF ResetTime[p] THEN "reset" ELSE "none"]
      /\ UNCHANGED <<HoldingTime, ResetTime, IsFalling, home, inside>>
  BY DEF Fall!FallingPlatform, Fall!SetTimer, Fall!times
<1>2. FallTypes'
  BY <1>1 DEF FallInv, FallTypes
<1>3. Fall!OnePhase'
  BY <1>1 DEF FallInv, FallTypes, Fall!OnePhase
<1>4. Fall!StepFelt'
  BY <1>1 DEF FallInv, Fall!StepFelt
<1> QED
  BY <1>2, <1>3, <1>4 DEF FallInv

LEMMA ResetKeeps ==
  ASSUME FallInv, NEW p \in FallPlatforms, Fall!ResetPlatform(p)
  PROVE  FallInv'
<1>1. /\ timer[p] = "reset" /\ physics' = [physics EXCEPT ![p] = FALSE]
      /\ timer' = [timer EXCEPT ![p] = "none"]
      /\ home' = [home EXCEPT ![p] = TRUE]
      /\ IsFalling' = [IsFalling EXCEPT ![p] = FALSE]
      /\ UNCHANGED <<HoldingTime, ResetTime>>
  BY DEF Fall!ResetPlatform, Fall!SetTimer, Fall!times
<1>2. PICK there \in SUBSET Walkers : inside' = [inside EXCEPT ![p] = there]
  BY DEF Fall!ResetPlatform
<1>3. FallTypes'
  BY <1>1, <1>2 DEF FallInv, FallTypes
<1>4. Fall!OnePhase'
  BY <1>1 DEF FallInv, FallTypes, Fall!OnePhase
<1>5. ResetTime[p]
  BY <1>1 DEF FallInv, Fall!OnePhase
<1>6. Fall!StepFelt'
  BY <1>1, <1>2, <1>5 DEF FallInv, FallTypes, Fall!StepFelt
<1> QED
  BY <1>3, <1>4, <1>6 DEF FallInv

LEMMA DropKeeps ==
  ASSUME FallInv, NEW p \in FallPlatforms, Fall!Drop(p)
  PROVE  FallInv'
<1>1. /\ physics[p] /\ home' = [home EXCEPT ![p] = FALSE]
      /\ UNCHANGED <<HoldingTime, ResetTime, IsFalling, timer, physics, inside>>
  BY DEF Fall!Drop, Fall!times
<1>2. FallTypes' /\ Fall!StepFelt'
  BY <1>1 DEF FallInv, FallTypes, Fall!StepFelt
<1>3. Fall!OnePhase'
  BY <1>1 DEF FallInv, FallTypes, Fall!OnePhase
<1> QED
  BY <1>2, <1>3 DEF FallInv

LEMMA FallInvariant == LevelSpec => []FallInv
<1>1. LevelInit => FallInv
  BY FallStarts
<1>2. FallInv /\ [LevelNext]_levelVars => FallInv'
  <2> SUFFICES ASSUME FallInv, [LevelNext]_levelVars PROVE FallInv'
    OBVIOUS
  <2>1. CASE UNCHANGED fallVars
    BY <2>1 DEF fallVars, FallInv, FallTypes, Fall!OnePhase, Fall!StepFelt
  <2>2. CASE Fall!FallNext
    BY <2>2, OverlapKeeps, StepOffKeeps, FallingKeeps, ResetKeeps, DropKeeps
       DEF Fall!FallNext, Fall!Timers
  <2> QED
    BY <2>1, <2>2 DEF LevelNext, levelVars
<1>3. LevelSpec => LevelInit /\ [][LevelNext]_levelVars
  BY PTL DEF LevelSpec
<1> QED
  BY <1>1, <1>2, <1>3, PTL

(* One timer handle serves both delays, and a platform can be stepped on   *)
(* in every phase: the timer, physics and place always belong together.    *)
THEOREM TimerBelongsToPhase == LevelSpec => []OnePhase
<1>1. FallInv => OnePhase
  BY DEF FallInv, OnePhase
<1> QED
  BY <1>1, FallInvariant, PTL

(* A platform that never comes back misses nobody who steps on it.         *)
THEOREM EveryStepIsFelt == LevelSpec => []StepFelt
<1>1. FallInv => StepFelt
  BY DEF FallInv, StepFelt
<1> QED
  BY <1>1, FallInvariant, PTL
===============================================================================
