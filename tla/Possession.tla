----------------------------- MODULE Possession -----------------------------
(***************************************************************************)
(* Which pawn the player controls, and what it holds.                      *)
(*                                                                         *)
(* ASpartaPlayerController possesses one pawn at a time: the APawnCharacter *)
(* the game starts with, the ASpartaCharacter it can be exchanged for      *)
(* (ChangePlayer), or an ADronePawn launched by either (SpawnDrone), from   *)
(* which ReturnPlayer leads back.  The controller keeps the mapping context *)
(* in force and PlayerPawn, a raw pointer, for the way back.               *)
(*                                                                         *)
(* Enhanced Input collects the handlers whose trigger fired in a frame and  *)
(* then runs them one after the other, in the order they were bound: queue. *)
(* A handler still runs when an earlier one took the controller away from   *)
(* its pawn, but not when the pawn was destroyed.                          *)
(***************************************************************************)
EXTENDS Naturals, Sequences, FiniteSets

CONSTANTS
  Bodies,      \* APawnCharacter objects
  Spartas,     \* ASpartaCharacter objects
  Drones,      \* ADronePawn objects the engine can hold at once (a bound)
  Items,       \* actors with SELECTABLE_TYPE GRAB or GRAB_HOLDROT
  Mortal,      \* the items that can be destroyed by falling out of the world
  MayFail,     \* classes whose SpawnActor can return nullptr (no room there)
  Chords,      \* sets of actions whose keys can be pressed in one frame
  Null         \* nullptr

Characters == Bodies \cup Spartas
Pawns      == Characters \cup Drones
Actions    == {"SpawnDrone", "ChangePlayer", "ReturnPlayer", "Grab"}
Classes    == {"Body", "Sparta", "Drone"}

ASSUME PossessionAssumption ==
  /\ Bodies # {}
  /\ Bodies \cap Spartas = {} /\ Characters \cap Drones = {}
  /\ Null \notin Pawns /\ Null \notin Items
  /\ Mortal \subseteq Items
  /\ MayFail \subseteq Classes
  /\ Chords \subseteq SUBSET Actions

VARIABLES
  life,        \* life[p]: "free", "live", or "dead" (destroyed, not collected)
  pawn,        \* the possessed pawn, GetPawn(); its GetController() is not null
  playerPawn,  \* PlayerPawn
  context,     \* the mapping context in force: "Character" or "Drone"
  queue,       \* the handlers of this frame still to run, <<pawn, action>>
  item,        \* item[i]: "live", "dead", or "gone" (collected)
  held,        \* held[p]: what the PhysicsHandleComp of p has grabbed
  grabbing,    \* grabbing[p]: bIsGrabbing
  toggle,      \* toggle[c]: the function-static ToggleGrabbing of class c
  crashed      \* a null or dangling pointer was dereferenced

pawnVars == <<life, pawn, playerPawn, context>>
grabVars == <<item, held, grabbing, toggle>>
vars == <<life, pawn, playerPawn, context, queue, item, held, grabbing, toggle, crashed>>

ClassOf(p) == IF p \in Bodies THEN "Body" ELSE IF p \in Spartas THEN "Sparta" ELSE "Drone"
Live       == {p \in Pawns : life[p] = "live"}
Free(S)    == {p \in S : life[p] = "free"}
Idle       == queue = <<>> /\ ~crashed

(* The two actions a pawn of each class binds, in the order of its         *)
(* SetupPlayerInputComponent, and what each mapping context maps.          *)
Bound(c) ==
  CASE c = "Body"   -> <<"SpawnDrone", "ChangePlayer">>
    [] c = "Sparta" -> <<"SpawnDrone", "Grab">>
    [] c = "Drone"  -> <<"ReturnPlayer", "Grab">>
Mapped(x) ==
  IF x = "Character" THEN {"SpawnDrone", "ChangePlayer", "Grab"}
  ELSE {"ReturnPlayer", "Grab"}

-----------------------------------------------------------------------------
PawnTypeOK ==
  /\ life \in [Pawns -> {"free", "live", "dead"}]
  /\ pawn \in Pawns \cup {Null}
  /\ playerPawn \in Pawns \cup {Null}
  /\ context \in {"Character", "Drone"}
  /\ item \in [Items -> {"live", "dead", "gone"}]
  /\ held \in [Pawns -> Items \cup {Null}]
  /\ grabbing \in [Pawns -> BOOLEAN]
  /\ toggle \in [{"Sparta", "Drone"} -> BOOLEAN]
  /\ crashed \in BOOLEAN

TypeOK == PawnTypeOK /\ queue \in Seq(Pawns \X Actions)

(* The game mode's pawn is possessed, BeginPlay has added the character    *)
(* context, PlayerPawn is nullptr.                                         *)
Init ==
  /\ \E b \in Bodies : /\ pawn = b
                       /\ life = [p \in Pawns |-> IF p = b THEN "live" ELSE "free"]
  /\ playerPawn = Null
  /\ context = "Character"
  /\ queue = <<>>
  /\ item = [i \in Items |-> "live"]
  /\ held = [p \in Pawns |-> Null]
  /\ grabbing = [p \in Pawns |-> FALSE]
  /\ toggle = [c \in {"Sparta", "Drone"} |-> FALSE]
  /\ crashed = FALSE

-----------------------------------------------------------------------------
(* MUTANT: PlayerPawn read from GetPawn() after Possess. *)
PlayerPawnLate(before, new) == IF new = Null THEN before ELSE new

(* ChangePossess(new), which ignores nullptr: GetPawn() afterwards, and    *)
(* PlayerPawn afterwards if it was `before`.                               *)
PossessedBy(new)             == IF new = Null THEN pawn ELSE new
PlayerPawnAfter(before, new) == IF new = Null THEN before ELSE pawn

(* SpawnActor of class c into the pool S: a new actor, or nullptr.         *)
Spawns(S, c) == Free(S) \cup (IF c \in MayFail THEN {Null} ELSE {})

Alive(new)   == [x \in Pawns |-> IF x = new THEN "live" ELSE life[x]]

(* The handler at the head of the queue is action a of pawn p.             *)
Runs(p, a) ==
  /\ queue # <<>> /\ ~crashed
  /\ Head(queue) = <<p, a>>
  /\ queue' = Tail(queue)
  /\ life[p] = "live"

(* GetController()-> on a pawn that lost its controller earlier in the     *)
(* frame.                                                                  *)
NoController(p, a) ==
  /\ Runs(p, a) /\ a # "Grab" /\ pawn # p
  /\ crashed' = TRUE
  /\ UNCHANGED <<pawnVars, grabVars>>

(* APawnCharacter::SpawnDrone: the context changes even when no drone came.*)
BodySpawnDrone(p) ==
  /\ p \in Bodies /\ Runs(p, "SpawnDrone") /\ pawn = p
  /\ context' = "Drone"
  /\ \E new \in Spawns(Drones, "Drone") :
       /\ life' = Alive(new)
       /\ playerPawn' = PlayerPawnAfter(p, new)
       /\ pawn' = PossessedBy(new)
  /\ UNCHANGED <<grabVars, crashed>>

(* ASpartaCharacter::SpawnDrone: only PlayerPawn changes when no drone came.*)
SpartaSpawnDrone(p) ==
  /\ p \in Spartas /\ Runs(p, "SpawnDrone") /\ pawn = p
  /\ \E new \in Spawns(Drones, "Drone") :
       /\ life' = Alive(new)
       /\ context' = IF new = Null THEN context ELSE "Drone"
       /\ playerPawn' = PlayerPawnAfter(p, new)
       /\ pawn' = PossessedBy(new)
  /\ UNCHANGED <<grabVars, crashed>>

(* Destroy() of p when the controller's pawn is `current`: the handle lets *)
(* go, and a pawn destroyed while possessed leaves the controller none.    *)
Destroy(p, current) ==
  /\ held' = [held EXCEPT ![p] = Null]
  /\ pawn' = IF current = p THEN Null ELSE current

(* MUTANT: the new character is not possessed. *)
ChangePlayerUnpossessed(p) ==
  /\ p \in Bodies /\ Runs(p, "ChangePlayer") /\ pawn = p
  /\ context' = "Character"
  /\ \E new \in Spawns(Spartas, "Sparta") :
       /\ life' = [Alive(new) EXCEPT ![p] = "dead"]
       /\ playerPawn' = new
       /\ Destroy(p, pawn)
  /\ UNCHANGED <<item, grabbing, toggle, crashed>>

(* APawnCharacter::ChangePlayer: the character is exchanged for an         *)
(* ASpartaCharacter on the same spot.                                      *)
ChangePlayer(p) ==
  /\ p \in Bodies /\ Runs(p, "ChangePlayer") /\ pawn = p
  /\ context' = "Character"
  /\ \E new \in Spawns(Spartas, "Sparta") :
       /\ life' = [Alive(new) EXCEPT ![p] = "dead"]
       /\ playerPawn' = PlayerPawnAfter(new, new)
       /\ Destroy(p, PossessedBy(new))
  /\ UNCHANGED <<item, grabbing, toggle, crashed>>

(* MUTANTS: the drone is left behind; the mapping context is not restored; *)
(* the drone is destroyed without another pawn possessed.                  *)
ReturnPlayerKept(p) ==
  /\ p \in Drones /\ Runs(p, "ReturnPlayer") /\ pawn = p
  /\ context' = "Character"
  /\ playerPawn' = PlayerPawnAfter(playerPawn, playerPawn)
  /\ pawn' = PossessedBy(playerPawn)
  /\ UNCHANGED <<life, grabVars, crashed>>

ReturnPlayerMapped(p) ==
  /\ p \in Drones /\ Runs(p, "ReturnPlayer") /\ pawn = p
  /\ life' = [life EXCEPT ![p] = "dead"]
  /\ playerPawn' = PlayerPawnAfter(playerPawn, playerPawn)
  /\ Destroy(p, PossessedBy(playerPawn))
  /\ UNCHANGED <<context, item, grabbing, toggle, crashed>>

ReturnPlayerLost(p) ==
  /\ p \in Drones /\ Runs(p, "ReturnPlayer") /\ pawn = p
  /\ context' = "Character"
  /\ life' = [life EXCEPT ![p] = "dead"]
  /\ Destroy(p, pawn)
  /\ UNCHANGED <<playerPawn, item, grabbing, toggle, crashed>>

(* ADronePawn::ReturnPlayer: back to PlayerPawn, which then points to the  *)
(* drone that is destroyed.  Possessing a destroyed actor is undefined:    *)
(* modelled as a crash.                                                    *)
Gone(p) == p # Null /\ life[p] # "live"

ReturnPlayer(p) ==
  /\ p \in Drones /\ Runs(p, "ReturnPlayer") /\ pawn = p
  /\ context' = "Character"
  /\ life' = [life EXCEPT ![p] = "dead"]
  /\ playerPawn' = PlayerPawnAfter(playerPawn, playerPawn)
  /\ Destroy(p, PossessedBy(playerPawn))
  /\ crashed' = Gone(playerPawn)
  /\ UNCHANGED <<item, grabbing, toggle>>

(* MUTANTS of Grab: one flag for both classes; bIsGrabbing not reset.      *)
GrabShared(p) ==
  /\ Runs(p, "Grab")
  /\ \/ /\ ~toggle["Drone"]
        /\ \/ \E i \in Items : /\ item[i] = "live"
                               /\ held' = [held EXCEPT ![p] = i]
                               /\ grabbing' = [grabbing EXCEPT ![p] = TRUE]
                               /\ toggle' = [toggle EXCEPT !["Drone"] = TRUE]
           \/ UNCHANGED <<held, grabbing, toggle>>
     \/ /\ toggle["Drone"]
        /\ held' = [held EXCEPT ![p] = Null]
        /\ grabbing' = [grabbing EXCEPT ![p] = FALSE]
        /\ toggle' = [toggle EXCEPT !["Drone"] = FALSE]
  /\ UNCHANGED <<pawnVars, item, crashed>>

GrabStillHeld(p) ==
  LET c == ClassOf(p) IN
  /\ Runs(p, "Grab")
  /\ \/ /\ ~toggle[c]
        /\ \E i \in Items : /\ item[i] = "live"
                            /\ held' = [held EXCEPT ![p] = i]
                            /\ grabbing' = [grabbing EXCEPT ![p] = TRUE]
                            /\ toggle' = [toggle EXCEPT ![c] = TRUE]
     \/ /\ toggle[c]
        /\ held' = [held EXCEPT ![p] = Null]
        /\ toggle' = [toggle EXCEPT ![c] = FALSE]
        /\ UNCHANGED grabbing
  /\ UNCHANGED <<pawnVars, item, crashed>>

(* Grab of either class, with its own static flag: what the sweep finds in *)
(* front is grabbed, or whatever this pawn holds is let go.                *)
Grab(p) ==
  LET c == ClassOf(p) IN
  /\ Runs(p, "Grab")
  /\ \/ /\ ~toggle[c]
        /\ \/ \E i \in Items : /\ item[i] = "live"
                               /\ held' = [held EXCEPT ![p] = i]
                               /\ grabbing' = [grabbing EXCEPT ![p] = TRUE]
                               /\ toggle' = [toggle EXCEPT ![c] = TRUE]
           \/ UNCHANGED <<held, grabbing, toggle>>
     \/ /\ toggle[c]
        /\ held' = [held EXCEPT ![p] = Null]
        /\ grabbing' = [grabbing EXCEPT ![p] = FALSE]
        /\ toggle' = [toggle EXCEPT ![c] = FALSE]
  /\ UNCHANGED <<pawnVars, item, crashed>>

SpartaGrab(p) == p \in Spartas /\ Grab(p)
DroneGrab(p)  == p \in Drones /\ Grab(p)

(* A delegate bound to a destroyed object does not run.                    *)
Unbound ==
  /\ queue # <<>> /\ ~crashed
  /\ life[Head(queue)[1]] # "live"
  /\ queue' = Tail(queue)
  /\ UNCHANGED <<pawnVars, grabVars, crashed>>

-----------------------------------------------------------------------------
(* A new frame: the keys of one chord are pressed; the handlers that the   *)
(* possessed pawn binds and the context maps are collected.                *)
Frame(chord) ==
  LET bound == Bound(ClassOf(pawn))
      fired(i) == IF bound[i] \in chord \cap Mapped(context)
                    THEN <<<<pawn, bound[i]>>>> ELSE <<>>
  IN /\ Idle /\ pawn # Null
     /\ queue' = fired(1) \o fired(2)
     /\ queue' # <<>>
     /\ UNCHANGED <<pawnVars, grabVars, crashed>>

(* Tick of a pawn that believes it holds something but has nothing:        *)
(* GetGrabbedComponent()->GetOwner().  Moving what it does hold is not     *)
(* modelled.                                                               *)
EmptyHanded(p) == grabbing[p] /\ held[p] = Null

TickHold(p) ==
  /\ Idle /\ life[p] = "live" /\ EmptyHanded(p)
  /\ crashed' = TRUE
  /\ UNCHANGED <<pawnVars, queue, grabVars>>

(* External: the possessed ASpartaCharacter falls out of the world and is  *)
(* destroyed; the game mode respawns nobody.  An unpossessed one is not     *)
(* moved by its movement component.                                        *)
SpartaFalls(p) ==
  /\ Idle /\ p \in Spartas /\ pawn = p
  /\ life' = [life EXCEPT ![p] = "dead"]
  /\ Destroy(p, p)
  /\ UNCHANGED <<playerPawn, context, queue, item, grabbing, toggle, crashed>>

(* External: an item is carried or pushed out of the world.                *)
ItemFalls(i) ==
  /\ Idle /\ i \in Mortal /\ item[i] = "live"
  /\ item' = [item EXCEPT ![i] = "dead"]
  /\ UNCHANGED <<pawnVars, queue, held, grabbing, toggle, crashed>>

(* External: the collector frees destroyed actors and nulls the handles'   *)
(* pointers, but not PlayerPawn, which is no UPROPERTY.                    *)
Collect ==
  /\ Idle
  /\ \/ \E p \in Pawns : life[p] = "dead"
     \/ \E i \in Items : item[i] = "dead"
  /\ life' = [p \in Pawns |-> IF life[p] = "dead" THEN "free" ELSE life[p]]
  /\ item' = [i \in Items |-> IF item[i] = "dead" THEN "gone" ELSE item[i]]
  /\ held' = [p \in Pawns |-> IF held[p] # Null /\ item[held[p]] = "dead"
                              THEN Null ELSE held[p]]
  /\ grabbing' = [p \in Pawns |-> grabbing[p] /\ life[p] # "dead"]
  /\ UNCHANGED <<pawn, playerPawn, context, queue, toggle, crashed>>

-----------------------------------------------------------------------------
Handler(p) ==
  \/ BodySpawnDrone(p) \/ SpartaSpawnDrone(p) \/ ChangePlayer(p)
  \/ ReturnPlayer(p) \/ SpartaGrab(p) \/ DroneGrab(p)
  \/ \E a \in Actions : NoController(p, a)
Handlers == (\E p \in Pawns : Handler(p)) \/ Unbound

World ==
  \/ \E p \in Pawns : TickHold(p) \/ SpartaFalls(p)
  \/ \E i \in Items : ItemFalls(i)
  \/ Collect

Next == Handlers \/ (\E chord \in Chords : Frame(chord)) \/ World

Spec == Init /\ [][Next]_vars

-----------------------------------------------------------------------------
(* PROPERTIES *)

(* While a drone is flown, PlayerPawn is the live character it was launched*)
(* from, so that ReturnPlayer has somewhere to go.  PlayerPawn dangles at   *)
(* other times: after ReturnPlayer and after ChangePlayer.                 *)
WayBack == pawn \in Drones => playerPawn \in Characters \cap Live

(* The context in force is the one of the possessed pawn's kind.  (Not so   *)
(* for an APawnCharacter whose drone failed to spawn: see the README.)     *)
ContextMatches ==
  /\ pawn \in Spartas => context = "Character"
  /\ pawn \in Drones  => context = "Drone"

(* A drone is in the world only while it is flown: none is left behind, and*)
(* there are never two.                                                    *)
OneDrone == \A d \in Drones \cap Live : pawn = d

(* Whoever holds something can let go of it: the static flag of its class, *)
(* which the next press of Grab looks at, is set, though it is shared by   *)
(* all pawns of the class and outlives them.  For the one ASpartaCharacter *)
(* of a session it is set exactly while it holds something.                *)
HolderCanRelease ==
  /\ \A d \in Drones \cap Live : grabbing[d] => toggle["Drone"]
  /\ \A s \in Spartas \cap Live : grabbing[s] <=> toggle["Sparta"]

(* As long as any pawn is in the world the controller possesses a live one:*)
(* no order of launching, returning and exchanging leaves a pawn behind    *)
(* with nobody in control.                                                 *)
StillPlaying == IF pawn = Null THEN Live = {} ELSE pawn \in Live

(* No null or dangling pointer is dereferenced.                            *)
NeverCrashed == ~crashed

(* ReturnPlayer, once pressed, gets the player out of the drone.           *)
Returns ==
  \A d \in Drones :
    (queue # <<>> /\ Head(queue) = <<d, "ReturnPlayer">>) ~> (pawn \in Characters)

-----------------------------------------------------------------------------
(* INDUCTIVE STRENGTHENINGS, used by the proofs *)

(* The pawns in the world are the possessed one and, under a drone, the    *)
(* character to return to.                                                 *)
Company ==
  /\ pawn = Null         => Live = {}
  /\ pawn \in Characters => Live = {pawn}
  /\ pawn \in Drones     => playerPawn \in Characters /\ Live = {pawn, playerPawn}

(* A new pawn holds nothing, and before the one ASpartaCharacter comes into*)
(* the world its class's flag is clear.                                    *)
FreshHands ==
  /\ \A p \in Pawns : life[p] = "free" => ~grabbing[p]
  /\ Bodies \cap Live # {} => ~toggle["Sparta"]

PossessInv == PawnTypeOK /\ Company /\ ContextMatches /\ FreshHands /\ HolderCanRelease
=============================================================================
