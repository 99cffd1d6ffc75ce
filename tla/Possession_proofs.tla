------------------------- MODULE Possession_proofs -------------------------
(* Proofs about Possession, for every set of pawns, items and chords and   *)
(* whichever spawns may fail; at the end, about the careful player of      *)
(* MCPossession.                                                           *)
EXTENDS MCPossession, SequenceTheorems, TLAPS

-----------------------------------------------------------------------------
(* A handler runs for a live pawn.                                         *)
LEMMA RunsLive ==
  ASSUME NEW p, NEW a, Runs(p, a)
  PROVE  life[p] = "live"
BY DEF Runs

(* The pawn classes exclude one another.                                   *)
LEMMA Classified ==
  /\ \A p \in Bodies  : ClassOf(p) = "Body" /\ p \in Pawns
  /\ \A p \in Spartas : ClassOf(p) = "Sparta" /\ p \in Pawns /\ p \notin Bodies
  /\ \A p \in Drones  : ClassOf(p) = "Drone" /\ p \in Pawns /\ p \notin Characters
BY PossessionAssumption DEF ClassOf, Pawns, Characters

(* Types, for every step of Next; the queue is left out.                   *)
LEMMA StepTypes ==
  ASSUME PawnTypeOK, [Next]_vars
  PROVE  PawnTypeOK'
<1> USE DEF PawnTypeOK, pawnVars, grabVars
<1>1. ASSUME NEW p \in Pawns, BodySpawnDrone(p) PROVE PawnTypeOK'
  BY <1>1, PossessionAssumption
  DEF BodySpawnDrone, Spawns, Free, Alive, PossessedBy, PlayerPawnAfter, Pawns, Characters
<1>2. ASSUME NEW p \in Pawns, SpartaSpawnDrone(p) PROVE PawnTypeOK'
  BY <1>2, PossessionAssumption
  DEF SpartaSpawnDrone, Spawns, Free, Alive, PossessedBy, PlayerPawnAfter, Pawns, Characters
<1>3. ASSUME NEW p \in Pawns, ChangePlayer(p) PROVE PawnTypeOK'
  BY <1>3, PossessionAssumption
  DEF ChangePlayer, Spawns, Free, Alive, PossessedBy, PlayerPawnAfter, Destroy, Pawns, Characters
<1>4. ASSUME NEW p \in Pawns, ReturnPlayer(p) PROVE PawnTypeOK'
  BY <1>4, PossessionAssumption
  DEF ReturnPlayer, PossessedBy, PlayerPawnAfter, Destroy, Gone
<1>5. ASSUME NEW p \in Pawns, Grab(p) PROVE PawnTypeOK'
  <2>1. UNCHANGED <<life, pawn, playerPawn, context, item, crashed>>
    BY <1>5 DEF Grab
  <2>2. held' \in [Pawns -> Items \cup {Null}]
    BY <1>5 DEF Grab
  <2>3. grabbing' \in [Pawns -> BOOLEAN]
    BY <1>5, Zenon DEF Grab
  <2>4. toggle' \in [{"Sparta", "Drone"} -> BOOLEAN]
    BY <1>5, Zenon DEF Grab
  <2> QED BY <2>1, <2>2, <2>3, <2>4
<1>6. ASSUME NEW p \in Pawns, TickHold(p) PROVE PawnTypeOK'
  BY <1>6 DEF TickHold
<1>7. ASSUME NEW p \in Pawns, SpartaFalls(p) PROVE PawnTypeOK'
  BY <1>7 DEF SpartaFalls, Destroy
<1>8. ASSUME NEW i \in Items, ItemFalls(i) PROVE PawnTypeOK'
  BY <1>8 DEF ItemFalls
<1>9. CASE Collect
  <2>1. /\ life' \in [Pawns -> {"free", "live", "dead"}]
        /\ item' \in [Items -> {"live", "dead", "gone"}]
        /\ held' \in [Pawns -> Items \cup {Null}]
    BY <1>9 DEF Collect
  <2>2. grabbing' \in [Pawns -> BOOLEAN]
    BY <1>9, Zenon DEF Collect
  <2> QED BY <1>9, <2>1, <2>2 DEF Collect
<1>10. ASSUME NEW p \in Pawns, NEW a \in Actions, NoController(p, a) PROVE PawnTypeOK'
  BY <1>10 DEF NoController
<1>11. CASE Unbound
  BY <1>11 DEF Unbound
<1>12. ASSUME NEW chord \in Chords, Frame(chord) PROVE PawnTypeOK'
  BY <1>12 DEF Frame
<1>13. CASE UNCHANGED vars
  BY <1>13 DEF vars
<1> QED
  BY <1>1, <1>2, <1>3, <1>4, <1>5, <1>6, <1>7, <1>8, <1>9, <1>10, <1>11, <1>12, <1>13
  DEF Next, Handlers, Handler, World, SpartaGrab, DroneGrab

(* What launching a drone, by either character, does to the invariant.     *)
LEMMA LaunchKeeps ==
  ASSUME PossessInv, NEW p \in Characters, pawn = p,
         NEW new \in Spawns(Drones, "Drone"),
         life' = Alive(new),
         playerPawn' = PlayerPawnAfter(p, new),
         pawn' = PossessedBy(new),
         new # Null => context' = "Drone",
         new = Null /\ p \in Spartas => UNCHANGED context,
         UNCHANGED grabVars
  PROVE  Company' /\ ContextMatches' /\ FreshHands' /\ HolderCanRelease'
<1> USE Classified DEF PossessInv, PawnTypeOK
<1>1. UNCHANGED <<grabbing, toggle>>
  BY DEF grabVars
<1>2. Live = {p}
  BY PossessionAssumption DEF Company, Characters
<1>3. CASE new = Null
  <2>1. life' = life /\ pawn' = p
    BY <1>3, PossessionAssumption DEF Alive, PossessedBy
  <2> QED
    BY <2>1, <1>1, <1>2, <1>3
    DEF Company, ContextMatches, FreshHands, HolderCanRelease, Live, Characters
<1>4. CASE new # Null
  <2>1. new \in Drones /\ life[new] = "free" /\ pawn' = new /\ playerPawn' = p /\ context' = "Drone"
    BY <1>4 DEF Spawns, Free, PossessedBy, PlayerPawnAfter
  <2>2. Live' = {p, new}
    BY <1>2, <2>1, PossessionAssumption DEF Live, Alive
  <2>3. Company'
    BY <2>1, <2>2, PossessionAssumption DEF Company
  <2>4. ContextMatches'
    BY <2>1, PossessionAssumption DEF ContextMatches, Characters
  <2>5. FreshHands'
    BY <1>1, <1>2, <2>1, <2>2 DEF FreshHands, Alive
  <2>6. HolderCanRelease'
    BY <1>1, <1>2, <2>1, <2>2 DEF HolderCanRelease, FreshHands, Characters
  <2> QED BY <2>3, <2>4, <2>5, <2>6
<1> QED BY <1>3, <1>4

(* Exchanging the character.                                               *)
LEMMA ExchangeKeeps ==
  ASSUME PossessInv, NEW p \in Bodies, ChangePlayer(p)
  PROVE  Company' /\ ContextMatches' /\ FreshHands' /\ HolderCanRelease'
<1> USE Classified DEF PossessInv, PawnTypeOK
<1>1. PICK new \in Spawns(Spartas, "Sparta") :
        /\ life' = [Alive(new) EXCEPT ![p] = "dead"]
        /\ playerPawn' = PlayerPawnAfter(new, new)
        /\ Destroy(p, PossessedBy(new))
  BY DEF ChangePlayer
<1>2. pawn = p /\ context' = "Character" /\ UNCHANGED <<grabbing, toggle>>
  BY DEF ChangePlayer
<1>3. Live = {p} /\ ~toggle["Sparta"]
  BY <1>2, PossessionAssumption DEF Company, Characters, FreshHands
<1>4. ContextMatches'
  <2>1. pawn' \notin Drones
    BY <1>1, <1>2, PossessionAssumption DEF Destroy, PossessedBy, Spawns, Free, Characters, Pawns
  <2> QED BY <1>2, <2>1 DEF ContextMatches
<1>5. CASE new = Null
  <2>1. pawn' = Null /\ Live' = {}
    BY <1>1, <1>2, <1>3, <1>5, PossessionAssumption
    DEF Destroy, PossessedBy, Alive, Live
  <2>2. FreshHands'
    BY <1>1, <1>2, <1>5, <2>1, PossessionAssumption DEF FreshHands, Alive
  <2>3. Company' /\ HolderCanRelease'
    BY <2>1, PossessionAssumption DEF Company, HolderCanRelease, Pawns
  <2> QED BY <1>4, <2>2, <2>3
<1>6. CASE new # Null
  <2>1. new \in Spartas /\ life[new] = "free" /\ new # p /\ pawn' = new
    BY <1>1, <1>2, <1>6 DEF Spawns, Free, PossessedBy, Destroy
  <2>2. Live' = {new}
    BY <1>1, <1>3, <2>1 DEF Live, Alive
  <2>3. Company'
    BY <2>1, <2>2, PossessionAssumption DEF Company, Characters
  <2>4. FreshHands'
    BY <1>1, <1>2, <2>1, <2>2 DEF FreshHands, Alive
  <2>5. HolderCanRelease'
    BY <1>2, <1>3, <2>1, <2>2 DEF HolderCanRelease, FreshHands
  <2> QED BY <1>4, <2>3, <2>4, <2>5
<1> QED BY <1>5, <1>6

(* Returning from a drone.                                                 *)
LEMMA ReturnKeeps ==
  ASSUME PossessInv, NEW p \in Drones, ReturnPlayer(p)
  PROVE  Company' /\ ContextMatches' /\ FreshHands' /\ HolderCanRelease'
<1> USE Classified DEF PossessInv, PawnTypeOK
<1>1. /\ pawn = p /\ context' = "Character" /\ UNCHANGED <<grabbing, toggle>>
      /\ life' = [life EXCEPT ![p] = "dead"]
      /\ Destroy(p, PossessedBy(playerPawn))
  BY DEF ReturnPlayer
<1>2. playerPawn \in Characters /\ Live = {p, playerPawn}
  BY <1>1 DEF Company
<1>3. playerPawn # p /\ playerPawn # Null /\ playerPawn \notin Drones
  BY <1>2, PossessionAssumption DEF Pawns
<1>4. pawn' = playerPawn
  BY <1>1, <1>3 DEF Destroy, PossessedBy
<1>5. Live' = {playerPawn}
  BY <1>1, <1>2, <1>3 DEF Live
<1>6. Company'
  BY <1>2, <1>3, <1>4, <1>5 DEF Company
<1>7. ContextMatches'
  BY <1>1, <1>3, <1>4 DEF ContextMatches
<1>8. FreshHands'
  BY <1>1, <1>2, <1>5 DEF FreshHands
<1>9. HolderCanRelease'
  BY <1>1, <1>2, <1>3, <1>5 DEF HolderCanRelease
<1> QED BY <1>6, <1>7, <1>8, <1>9

(* Grabbing and letting go.                                                *)
LEMMA GrabKeeps ==
  ASSUME PossessInv, NEW p \in Spartas \cup Drones, Grab(p)
  PROVE  Company' /\ ContextMatches' /\ FreshHands' /\ HolderCanRelease'
<1> USE Classified DEF PossessInv, PawnTypeOK
<1>1. UNCHANGED <<life, pawn, playerPawn, context>>
  BY DEF Grab, pawnVars
<1>2. p \in Live
  BY RunsLive DEF Grab, Live
<1>3. Company' /\ ContextMatches'
  BY <1>1 DEF Company, ContextMatches, Live
<1>4. /\ \A q \in Pawns \ {p} : grabbing'[q] = grabbing[q]
      /\ \A c \in {"Sparta", "Drone"} \ {ClassOf(p)} : toggle'[c] = toggle[c]
      /\ \/ grabbing'[p] /\ toggle'[ClassOf(p)]
         \/ ~grabbing'[p] /\ ~toggle'[ClassOf(p)]
         \/ UNCHANGED <<grabbing, toggle>>
  BY DEF Grab
<1>5. Live' = Live /\ \A q \in Live \ {p} : ClassOf(q) # ClassOf(p)
  <2>1. \A q, r \in Live : ClassOf(q) = ClassOf(r) => q = r
    BY PossessionAssumption DEF Company, Characters, Pawns, ClassOf
  <2> QED BY <1>1, <1>2, <2>1 DEF Live
<1>6. FreshHands'
  <2>1. \A q \in Pawns : life'[q] = "free" => ~grabbing'[q]
    BY <1>1, <1>2, <1>4 DEF FreshHands, Live
  <2>2. Bodies \cap Live' # {} => ~toggle'["Sparta"]
    <3>1. CASE p \in Spartas
      BY <1>2, <1>5, <3>1, PossessionAssumption DEF Company, Characters, Pawns
    <3>2. CASE p \in Drones
      BY <1>4, <1>5, <3>2 DEF FreshHands
    <3> QED BY <3>1, <3>2
  <2> QED BY <2>1, <2>2 DEF FreshHands
<1>7. HolderCanRelease'
  BY <1>2, <1>4, <1>5 DEF HolderCanRelease, Live
<1> QED BY <1>3, <1>6, <1>7

(* An ASpartaCharacter falls out of the world.                             *)
LEMMA FallKeeps ==
  ASSUME PossessInv, NEW p \in Spartas, SpartaFalls(p)
  PROVE  Company' /\ ContextMatches' /\ FreshHands' /\ HolderCanRelease'
<1> USE Classified DEF PossessInv, PawnTypeOK
<1>1. pawn = p /\ pawn' = Null /\ life' = [life EXCEPT ![p] = "dead"]
      /\ UNCHANGED <<grabbing, toggle>>
  BY DEF SpartaFalls, Destroy
<1>2. Live' = {}
  BY <1>1, PossessionAssumption DEF Company, Characters, Live
<1>3. Company' /\ ContextMatches'
  BY <1>1, <1>2, PossessionAssumption DEF Company, ContextMatches, Pawns, Characters
<1>4. FreshHands' /\ HolderCanRelease'
  BY <1>1, <1>2 DEF FreshHands, HolderCanRelease
<1> QED BY <1>3, <1>4

(* The collector: nothing that is live changes.                            *)
LEMMA CollectKeeps ==
  ASSUME PossessInv, Collect
  PROVE  Company' /\ ContextMatches' /\ FreshHands' /\ HolderCanRelease'
<1> USE Classified DEF PossessInv, PawnTypeOK
<1>1. UNCHANGED <<pawn, playerPawn, context, toggle>> /\ Live' = Live
  BY DEF Collect, Live
<1>2. \A p \in Pawns : /\ life[p] = "live" => grabbing'[p] = grabbing[p]
                       /\ life'[p] = "free" => ~grabbing'[p]
  BY DEF Collect, FreshHands
<1>3. Company' /\ ContextMatches'
  BY <1>1 DEF Company, ContextMatches
<1>4. FreshHands' /\ HolderCanRelease'
  BY <1>1, <1>2 DEF FreshHands, HolderCanRelease, Live
<1> QED BY <1>3, <1>4

(* A step that touches neither the pawns nor what they hold.               *)
LEMMA IdleKeeps ==
  ASSUME PossessInv, UNCHANGED pawnVars, UNCHANGED <<grabbing, toggle>>
  PROVE  Company' /\ ContextMatches' /\ FreshHands' /\ HolderCanRelease'
BY DEF PossessInv, pawnVars, Company, ContextMatches, FreshHands, HolderCanRelease, Live

(* The invariant holds at the start of the game.                           *)
LEMMA InvInit ==
  ASSUME Init
  PROVE  PossessInv
<1> USE Classified
<1>1. PICK b \in Bodies : /\ pawn = b
                          /\ life = [p \in Pawns |-> IF p = b THEN "live" ELSE "free"]
  BY DEF Init
<1>2. Live = {b} /\ pawn \notin Drones /\ pawn # Null /\ b \notin Spartas
  BY <1>1, PossessionAssumption DEF Live, Characters, Pawns
<1>3. PawnTypeOK
  BY <1>1 DEF Init, PawnTypeOK
<1>4. Company /\ ContextMatches
  BY <1>1, <1>2 DEF Company, ContextMatches, Init
<1>5. FreshHands /\ HolderCanRelease
  BY <1>1, <1>2 DEF FreshHands, HolderCanRelease, Init
<1> QED BY <1>3, <1>4, <1>5 DEF PossessInv

(* Every step keeps it.                                                    *)
LEMMA InvStep ==
  ASSUME PossessInv, [Next]_vars
  PROVE  PossessInv'
<1> DEFINE Rest == Company /\ ContextMatches /\ FreshHands /\ HolderCanRelease
<1>1. PawnTypeOK'
  BY StepTypes DEF PossessInv
<1> SUFFICES Rest'
  BY <1>1 DEF PossessInv
<1>2. ASSUME NEW p \in Pawns, BodySpawnDrone(p) PROVE Rest'
  <2>1. PICK new \in Spawns(Drones, "Drone") : /\ life' = Alive(new)
                                               /\ playerPawn' = PlayerPawnAfter(p, new)
                                               /\ pawn' = PossessedBy(new)
    BY <1>2 DEF BodySpawnDrone
  <2>2. p \in Characters \ Spartas /\ pawn = p /\ context' = "Drone" /\ UNCHANGED grabVars
    BY <1>2, PossessionAssumption DEF BodySpawnDrone, Characters
  <2> QED BY <2>1, <2>2, LaunchKeeps
<1>3. ASSUME NEW p \in Pawns, SpartaSpawnDrone(p) PROVE Rest'
  <2>1. PICK new \in Spawns(Drones, "Drone") : /\ life' = Alive(new)
                                               /\ context' = IF new = Null THEN context ELSE "Drone"
                                               /\ playerPawn' = PlayerPawnAfter(p, new)
                                               /\ pawn' = PossessedBy(new)
    BY <1>3 DEF SpartaSpawnDrone
  <2>2. p \in Characters /\ pawn = p /\ UNCHANGED grabVars
    BY <1>3 DEF SpartaSpawnDrone, Characters
  <2> QED BY <2>1, <2>2, LaunchKeeps
<1>4. ASSUME NEW p \in Pawns, ChangePlayer(p) PROVE Rest'
  BY <1>4, ExchangeKeeps DEF ChangePlayer
<1>5. ASSUME NEW p \in Pawns, ReturnPlayer(p) PROVE Rest'
  BY <1>5, ReturnKeeps DEF ReturnPlayer
<1>6. ASSUME NEW p \in Pawns, SpartaGrab(p) \/ DroneGrab(p) PROVE Rest'
  BY <1>6, GrabKeeps DEF SpartaGrab, DroneGrab
<1>7. ASSUME NEW p \in Pawns, SpartaFalls(p) PROVE Rest'
  BY <1>7, FallKeeps DEF SpartaFalls
<1>8. CASE Collect
  BY <1>8, CollectKeeps
<1>9. ASSUME NEW p \in Pawns, NEW a \in Actions, NoController(p, a) PROVE Rest'
  BY <1>9, IdleKeeps DEF NoController, grabVars
<1>10. ASSUME NEW p \in Pawns, TickHold(p) PROVE Rest'
  BY <1>10, IdleKeeps DEF TickHold, grabVars
<1>11. ASSUME NEW i \in Items, ItemFalls(i) PROVE Rest'
  BY <1>11, IdleKeeps DEF ItemFalls
<1>12. CASE Unbound
  BY <1>12, IdleKeeps DEF Unbound, grabVars
<1>13. ASSUME NEW chord \in Chords, Frame(chord) PROVE Rest'
  BY <1>13, IdleKeeps DEF Frame, grabVars
<1>14. CASE UNCHANGED vars
  BY <1>14, IdleKeeps DEF vars, pawnVars
<1> QED
  BY <1>2, <1>3, <1>4, <1>5, <1>6, <1>7, <1>8, <1>9, <1>10, <1>11, <1>12, <1>13, <1>14
  DEF Next, Handlers, Handler, World

(* So it holds always.                                                     *)
LEMMA PossessInvariant == Spec => []PossessInv
BY InvInit, InvStep, PTL DEF Spec

-----------------------------------------------------------------------------
(* The way back from a drone is never lost (SpartaPlayerController.cpp:    *)
(* 21-34): PlayerPawn is the live character it was launched from.          *)
THEOREM DroneHasWayBack == Spec => []WayBack
<1>1. PossessInv => WayBack
  BY DEF PossessInv, Company, WayBack, Live, PawnTypeOK, Pawns
<1> QED BY <1>1, PossessInvariant, PTL

(* Whatever keys are pressed together and whichever spawns fail, nobody is *)
(* left behind in the world without a player.                              *)
THEOREM PlayerInControl == Spec => []StillPlaying
<1>1. PossessInv => StillPlaying
  BY DEF PossessInv, PawnTypeOK, Company, StillPlaying, Pawns
<1> QED BY <1>1, PossessInvariant, PTL

(* A drone is in the world only while it is flown: whatever ends a flight, *)
(* nobody leaves a drone behind that a later launch would add to.          *)
THEOREM DroneIsFlown == Spec => []OneDrone
<1>1. PossessInv => OneDrone
  BY Classified DEF PossessInv, PawnTypeOK, Company, OneDrone, Pawns, Characters
<1> QED BY <1>1, PossessInvariant, PTL

(* The handlers, not the possession, change the mapping context: it is the *)
(* one of the possessed pawn's kind all the same.                          *)
THEOREM ContextFollowsPawn == Spec => []ContextMatches
<1>1. PossessInv => ContextMatches
  BY DEF PossessInv
<1> QED BY <1>1, PossessInvariant, PTL

(* The static ToggleGrabbing never leaves a pawn unable to let go.         *)
THEOREM GrabCanBeReleased == Spec => []HolderCanRelease
<1>1. PossessInv => HolderCanRelease
  BY DEF PossessInv
<1> QED BY <1>1, PossessInvariant, PTL

-----------------------------------------------------------------------------
(* THE HANDLERS OF A FRAME                                                 *)

LEMMA PairQueue == ASSUME NEW x, NEW y
                   PROVE  /\ <<x>> \o <<y>> = <<x, y>> /\ <<x>> \o <<>> = <<x>>
                          /\ <<>> \o <<x>> = <<x>> /\ Tail(<<x>>) = <<>> /\ Head(<<x>>) = x
<1>1. <<x>> \o <<y>> = <<x, y>>
  <2>1. <<x>> \in Seq({x, y}) /\ <<y>> \in Seq({x, y}) /\ <<x, y>> \in Seq({x, y})
    OBVIOUS
  <2>2. Len(<<x>>) = 1 /\ Len(<<y>>) = 1 /\ Len(<<x, y>>) = 2
    OBVIOUS
  <2>3. <<x>> \o <<y>> \in Seq({x, y}) /\ Len(<<x>> \o <<y>>) = 2
    BY <2>1, <2>2, ConcatProperties
  <2>4. (<<x>> \o <<y>>)[1] = x /\ (<<x>> \o <<y>>)[2] = y
    BY <2>1, <2>2, ConcatProperties
  <2>5. <<x, y>>[1] = x /\ <<x, y>>[2] = y
    OBVIOUS
  <2>6. \A i \in 1..2 : (<<x>> \o <<y>>)[i] = <<x, y>>[i]
    <3>1. \A i \in 1..2 : i = 1 \/ i = 2
      OBVIOUS
    <3> QED
      BY <2>4, <2>5, <3>1
  <2> DEFINE s == <<x>> \o <<y>>
             t == <<x, y>>
  <2>7. s \in Seq({x, y}) /\ t \in Seq({x, y}) /\ Len(s) = Len(t)
        /\ \A i \in 1..Len(s) : s[i] = t[i]
    BY <2>1, <2>2, <2>3, <2>6
  <2> HIDE DEF s, t
  <2>8. s = t
    BY <2>7, SeqEqual
  <2> QED
    BY <2>8 DEF s, t
<1>2. <<x>> \o <<>> = <<x>> /\ <<>> \o <<x>> = <<x>>
  OBVIOUS
<1>3. Tail(<<x>>) = <<>> /\ Head(<<x>>) = x
  OBVIOUS
<1> QED
  BY <1>1, <1>2, <1>3

(* A frame queues handlers of the possessed pawn, and one key fires one.   *)
LEMMA FrameQueues ==
  ASSUME PawnTypeOK, NEW chord \in SUBSET Actions, Frame(chord)
  PROVE  /\ queue' \in Seq(Pawns \X Actions)
         /\ \A k \in Actions : chord = {k} => queue' = <<<<pawn, k>>>>
<1> DEFINE c == ClassOf(pawn)
           b == Bound(c)
           fired(i) == IF b[i] \in chord \cap Mapped(context)
                         THEN <<<<pawn, b[i]>>>> ELSE <<>>
<1>1. /\ pawn \in Pawns /\ queue' = fired(1) \o fired(2) /\ queue' # <<>>
  BY DEF Frame, PawnTypeOK
<1>2. b[1] \in Actions /\ b[2] \in Actions /\ b[1] # b[2]
  BY DEF Bound, ClassOf, Actions
<1> HIDE DEF b
<1>3. CASE b[1] \in chord \cap Mapped(context) /\ b[2] \in chord \cap Mapped(context)
  <2>1. queue' = <<<<pawn, b[1]>>, <<pawn, b[2]>>>>
    BY <1>1, <1>3, PairQueue
  <2>2. \A k \in Actions : chord # {k}
    BY <1>2, <1>3
  <2>3. <<pawn, b[1]>> \in Pawns \X Actions /\ <<pawn, b[2]>> \in Pawns \X Actions
    BY <1>1, <1>2
  <2> QED
    BY <2>1, <2>2, <2>3
<1>4. CASE b[1] \in chord \cap Mapped(context) /\ b[2] \notin chord \cap Mapped(context)
  <2>1. queue' = <<<<pawn, b[1]>>>>
    BY <1>1, <1>4
  <2> QED
    BY <1>1, <1>2, <1>4, <2>1
<1>5. CASE b[1] \notin chord \cap Mapped(context) /\ b[2] \in chord \cap Mapped(context)
  <2>1. queue' = <<<<pawn, b[2]>>>>
    BY <1>1, <1>5
  <2> QED
    BY <1>1, <1>2, <1>5, <2>1
<1>6. CASE b[1] \notin chord \cap Mapped(context) /\ b[2] \notin chord \cap Mapped(context)
  BY <1>1, <1>6
<1> QED
  BY <1>3, <1>4, <1>5, <1>6

QueueType == queue \in Seq(Pawns \X Actions)

(* What is queued are actions of pawns, whatever is pressed together.      *)
THEOREM PossessionTypes == Spec => []TypeOK
<1>1. Init => QueueType
  BY DEF Init, QueueType
<1>2. PossessInv /\ QueueType /\ [Next]_vars => QueueType'
  <2> SUFFICES ASSUME PossessInv, QueueType, [Next]_vars PROVE QueueType'
    OBVIOUS
  <2> USE DEF QueueType
  <2>1. ASSUME NEW chord \in Chords, Frame(chord) PROVE queue' \in Seq(Pawns \X Actions)
    BY <2>1, FrameQueues, PossessionAssumption DEF PossessInv
  <2>2. queue # <<>> /\ queue' = Tail(queue) => queue' \in Seq(Pawns \X Actions)
    BY HeadTailProperties
  <2>3. ASSUME NEW p, NEW a, Runs(p, a) PROVE queue' \in Seq(Pawns \X Actions)
    BY <2>2, <2>3 DEF Runs
  <2>4. CASE Handlers
    BY <2>2, <2>3, <2>4 DEF Handlers, Handler, Unbound, NoController, BodySpawnDrone,
       SpartaSpawnDrone, ChangePlayer, ReturnPlayer, SpartaGrab, DroneGrab, Grab
  <2>5. CASE World
    BY <2>5 DEF World, TickHold, SpartaFalls, ItemFalls, Collect
  <2> QED
    BY <2>1, <2>4, <2>5 DEF Next, vars
<1>3. PossessInv /\ QueueType => TypeOK
  BY DEF PossessInv, TypeOK, QueueType
<1> QED
  BY <1>1, <1>2, <1>3, PossessInvariant, PTL DEF Spec

-----------------------------------------------------------------------------
(* A CAREFUL PLAYER                                                        *)

(* The handler that is queued is one of the possessed pawn, and whoever    *)
(* believes it holds something does: nothing has fallen out of the world.  *)
Care ==
  careful =>
    /\ ~crashed
    /\ queue = <<>> \/ \E a \in Actions : queue = <<<<pawn, a>>>>
    /\ \A i \in Items : item[i] = "live"
    /\ \A p \in Live : grabbing[p] => held[p] # Null

LEMMA PlaySteps == ASSUME [PlayNext]_playVars PROVE [Next]_vars
  BY DEF PlayNext, playVars, Press, Next, World

(* What is held after a handler that destroys at most one pawn and spawns  *)
(* at most one, which holds nothing.                                       *)
LEMMA HandsKept ==
  ASSUME PossessInv, \A p \in Live : grabbing[p] => held[p] # Null,
         UNCHANGED grabbing, NEW gone, life'[gone] # "live",
         \A p \in Pawns \ {gone} :
           held'[p] = held[p] /\ (life'[p] = "live" => life[p] \in {"live", "free"})
  PROVE  \A p \in Live' : grabbing'[p] => held'[p] # Null
BY DEF PossessInv, FreshHands, Live

LEMMA CareKept ==
  ASSUME PossessInv, Care, [PlayNext]_playVars
  PROVE  Care'
<1> USE Classified DEF PossessInv, PawnTypeOK
<1>0. CASE UNCHANGED playVars
  BY <1>0 DEF playVars, vars, Care, Live
<1> SUFFICES ASSUME PlayNext, careful PROVE Care'
  BY <1>0 DEF PlayNext, Care
<1>1. /\ ~crashed
      /\ queue = <<>> \/ \E a \in Actions : queue = <<<<pawn, a>>>>
      /\ \A i \in Items : item[i] = "live"
      /\ \A p \in Live : grabbing[p] => held[p] # Null
  BY DEF Care
<1>2. queue # <<>> => Tail(queue) = <<>> /\ Head(queue)[1] = pawn
  <2>1. ASSUME NEW a \in Actions, queue = <<<<pawn, a>>>>
        PROVE  Tail(queue) = <<>> /\ Head(queue)[1] = pawn
    BY <2>1, PairQueue
  <2> QED
    BY <1>1, <2>1
<1>d. ASSUME queue # <<>>, queue' = Tail(queue), UNCHANGED <<crashed, item>>,
             \A p \in Live' : grabbing'[p] => held'[p] # Null
      PROVE  Care'
  BY <1>1, <1>2, <1>d DEF Care
<1>3. ASSUME NEW p \in Pawns, BodySpawnDrone(p) \/ SpartaSpawnDrone(p) PROVE Care'
  <2>1. /\ queue # <<>> /\ queue' = Tail(queue) /\ UNCHANGED <<crashed, item, grabbing, held>>
        /\ \E new \in Spawns(Drones, "Drone") : life' = Alive(new)
    BY <1>3 DEF BodySpawnDrone, SpartaSpawnDrone, Runs, grabVars
  <2>2. \A q \in Pawns : life'[q] = "live" => life[q] \in {"live", "free"}
    BY <2>1, PossessionAssumption DEF Alive, Spawns, Free
  <2>3. \A q \in Live' : grabbing'[q] => held'[q] # Null
    BY <1>1, <2>1, <2>2 DEF FreshHands, Live
  <2> QED
    BY <1>d, <2>1, <2>3
<1>4. ASSUME NEW p \in Pawns, ChangePlayer(p) PROVE Care'
  <2>1. /\ queue # <<>> /\ queue' = Tail(queue) /\ UNCHANGED <<crashed, item, grabbing>>
        /\ held' = [held EXCEPT ![p] = Null]
        /\ \E new \in Spawns(Spartas, "Sparta") : life' = [Alive(new) EXCEPT ![p] = "dead"]
    BY <1>4 DEF ChangePlayer, Runs, Destroy
  <2>2. /\ life'[p] # "live"
        /\ \A q \in Pawns \ {p} :
             held'[q] = held[q] /\ (life'[q] = "live" => life[q] \in {"live", "free"})
    BY <2>1, PossessionAssumption DEF Alive, Spawns, Free
  <2> QED
    BY <1>1, <1>d, <2>1, <2>2, HandsKept
<1>5. ASSUME NEW p \in Pawns, ReturnPlayer(p) PROVE Care'
  <2>1. /\ queue # <<>> /\ queue' = Tail(queue) /\ UNCHANGED <<item, grabbing>>
        /\ held' = [held EXCEPT ![p] = Null] /\ life' = [life EXCEPT ![p] = "dead"]
        /\ pawn \in Drones /\ crashed' = Gone(playerPawn)
    BY <1>5 DEF ReturnPlayer, Runs, Destroy
  <2>2. UNCHANGED crashed
    BY <1>1, <2>1 DEF Company, Live, Gone
  <2>3. \A q \in Live' : grabbing'[q] => held'[q] # Null
    BY <1>1, <2>1 DEF Live
  <2> QED
    BY <1>d, <2>1, <2>2, <2>3
<1>6. ASSUME NEW p \in Pawns, Grab(p) PROVE Care'
  <2>1. /\ queue # <<>> /\ queue' = Tail(queue) /\ UNCHANGED <<life, crashed, item>>
    BY <1>6 DEF Grab, Runs, pawnVars
  <2>2. /\ \A q \in Pawns \ {p} : grabbing'[q] = grabbing[q] /\ held'[q] = held[q]
        /\ grabbing'[p] => held'[p] # Null \/ (grabbing'[p] = grabbing[p] /\ held'[p] = held[p])
    BY <1>6, PossessionAssumption DEF Grab
  <2>3. \A q \in Live' : grabbing'[q] => held'[q] # Null
    BY <1>1, <2>1, <2>2 DEF Live
  <2> QED
    BY <1>d, <2>1, <2>3
<1>7. ASSUME NEW p \in Pawns, NEW a \in Actions, NoController(p, a) PROVE Care'
  BY <1>2, <1>7 DEF NoController, Runs
<1>8. CASE Unbound
  BY <1>1, <1>8, <1>d DEF Unbound, pawnVars, grabVars, Live
<1>9. ASSUME NEW chord \in Chords, Press(chord) PROVE Care'
  <2>1. PICK k \in Actions : chord = {k}
    BY <1>9 DEF Press, OneKey
  <2>2. queue' = <<<<pawn, k>>>>
    BY <1>9, <2>1, FrameQueues DEF Press
  <2>3. UNCHANGED <<pawn, life, item, held, grabbing, crashed>>
    BY <1>9 DEF Press, Frame, pawnVars, grabVars
  <2> QED
    BY <1>1, <2>2, <2>3 DEF Care, Live
<1>10. ASSUME NEW p \in Pawns, TickHold(p) PROVE Care'
  BY <1>1, <1>10 DEF TickHold, EmptyHanded, Live
<1>11. ASSUME NEW p \in Pawns, SpartaFalls(p) PROVE Care'
  <2>1. /\ queue = <<>> /\ UNCHANGED <<queue, crashed, item, grabbing>>
        /\ held' = [held EXCEPT ![p] = Null] /\ life' = [life EXCEPT ![p] = "dead"]
    BY <1>11 DEF SpartaFalls, Idle, Destroy
  <2>2. \A q \in Live' : grabbing'[q] => held'[q] # Null
    BY <1>1, <2>1 DEF Live
  <2> QED
    BY <1>1, <2>1, <2>2 DEF Care
<1>12. CASE Collect
  <2>1. queue = <<>> /\ UNCHANGED <<queue, crashed>>
    BY <1>12 DEF Collect, Idle
  <2>2. \A i \in Items : item'[i] = "live"
    BY <1>1, <1>12 DEF Collect
  <2>3. \A p \in Pawns : /\ held'[p] = held[p]
                         /\ grabbing'[p] => grabbing[p]
                         /\ life'[p] = "live" => life[p] = "live"
    BY <1>1, <1>12 DEF Collect
  <2>4. \A p \in Live' : grabbing'[p] => held'[p] # Null
    BY <1>1, <2>3 DEF Live
  <2> QED
    BY <1>1, <2>1, <2>2, <2>4 DEF Care
<1> QED
  BY <1>3, <1>4, <1>5, <1>6, <1>7, <1>8, <1>9, <1>10, <1>11, <1>12
  DEF PlayNext, Handlers, Handler, SpartaGrab, DroneGrab

(* A player who presses one key in a frame and carries nothing out of the  *)
(* world never makes the game dereference a null or dangling pointer: not  *)
(* the raw PlayerPawn, not GetController() of a pawn that has lost it, not *)
(* what an empty handle holds.                                             *)
THEOREM CarefulIsSafe == PlaySpec => []CarefulNeverCrashes
<1>1. PlayInit => PossessInv /\ Care
  <2> SUFFICES ASSUME PlayInit PROVE PossessInv /\ Care
    OBVIOUS
  <2>1. PossessInv
    BY InvInit DEF PlayInit
  <2>2. Care
    BY DEF PlayInit, Init, Care, Live
  <2> QED
    BY <2>1, <2>2
<1>2. PossessInv /\ Care /\ [PlayNext]_playVars => (PossessInv /\ Care)'
  BY PlaySteps, InvStep, CareKept
<1>3. PossessInv /\ Care => CarefulNeverCrashes
  BY DEF Care, CarefulNeverCrashes, NeverCrashed
<1> QED
  BY <1>1, <1>2, <1>3, PTL DEF PlaySpec
=============================================================================
