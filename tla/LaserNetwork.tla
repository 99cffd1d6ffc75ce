---------------------------- MODULE LaserNetwork ----------------------------
(***************************************************************************)
(* The laser puzzle: spawners (ALaserSpawner) emit a root beam (ALaser);   *)
(* every beam traces a line each Tick and, when what it hits changes,      *)
(* first has its spawner cancel every beam that followed from it and then  *)
(* lets the new device respond: a mirror (ALaserReflection) or a splitter  *)
(* (ALaserSplit) spawns further beams, a target (ALaserTarget) lights up.  *)
(*                                                                         *)
(* A beam's LaserID is the spawner's display name followed by one letter   *)
(* per device passed ("B" mirror, "S" splitter): here owner[l] and the     *)
(* sequence path[l].  FString::Contains on two IDs is IDContains below.     *)
(*                                                                         *)
(* All of it runs on the game thread.  A Tick whose beam leaves a device   *)
(* runs the loop of RemoveFollowingLaser; the loop is modelled one         *)
(* iteration a step, with `sweep` holding the control so that nothing else *)
(* moves until the Tick is over.                                           *)
(***************************************************************************)
EXTENDS Naturals, Sequences, FiniteSets, SequencesExt

CONSTANTS
  Lasers,            \* ALaser objects the engine can hold at once (a bound)
  Spawners,          \* ALaserSpawner actors of the level
  Mirrors,           \* ALaserReflection actors
  Splits,            \* ALaserSplit actors, spawned during play by a button
  Targets,           \* ALaserTarget actors
  Mortal,            \* the splitters that can be dropped out of the world
  NameWithin,        \* <<s, t>>: the display name of s occurs in that of t
  NameEnds,          \* <<s, t>>: the display name of t ends with that of s
  SpawnLaserCount,   \* ALaserSplit::SpawnLaserCount
  MaxBounce,         \* bound: devices a beam can have passed
  MaxChildren,       \* bound: length of a spawner's ChildLasers
  Wall,              \* any actor that is not an ILaserInterface
  Miss,              \* the trace hits nothing
  Null               \* nullptr

Bouncers == Mirrors \cup Splits
Devices  == Bouncers \cup Targets
Tags     == {"B", "S"}

ASSUME LaserAssumption ==
  /\ SpawnLaserCount \in Nat
  /\ MaxBounce \in Nat
  /\ MaxChildren \in Nat
  /\ Mortal \subseteq Splits
  /\ NameEnds \subseteq NameWithin /\ NameWithin \subseteq Spawners \X Spawners
  /\ \A s \in Spawners : <<s, s>> \notin NameWithin
  /\ Mirrors \cap Splits = {}
  /\ Targets \cap Bouncers = {}
  /\ Wall \notin Devices /\ Miss \notin Devices /\ Null \notin Devices
  /\ Wall # Miss /\ Wall # Null /\ Miss # Null
  /\ Null \notin Lasers /\ Null \notin Spawners

VARIABLES
  life,      \* life[l]: "free", "live", or "dead" (destroyed, not yet collected)
  owner,     \* owner[l]: LaserSpawnerRef, and the name LaserID starts with
  path,      \* path[l]: the letters appended to the name in LaserID
  sight,     \* sight[l]: what the line trace of l hits now
  last,      \* last[l]: LastHitActor (= CurrentHitActor between two Ticks)
  bounce,    \* bounce[l]: BounceLaser
  device,    \* device[d]: the life of splitter d
  active,    \* active[d]: bActive of a splitter or a target
  attached,  \* attached[d]: the entries of LaserAttached that are not null
  children,  \* children[s]: ChildLasers
  sweep,     \* the RemoveFollowingLaser loop under way: <<laser, index>>, or <<>>
  crashed    \* BounceLaser was dereferenced when null

beamVars   == <<life, owner, path, sight, last, bounce>>
deviceVars == <<device, active, attached>>
vars == <<life, owner, path, sight, last, bounce,
          device, active, attached, children, sweep, crashed>>

Live == {l \in Lasers : life[l] = "live"}
Free == {l \in Lasers : life[l] = "free"}

(* No Tick is in the middle of its loop and the process is running. *)
Idle == sweep = <<>> /\ ~crashed

(* MUTANTS of the ID test: the display name left out of the ID; equality in*)
(* place of Contains.                                                      *)
IDContainsUnnamed(a, b) == IsPrefix(path[b], path[a])
IDContainsEqual(a, b) == owner[a] = owner[b] /\ path[a] = path[b]

(* FString::Contains(LaserID of a, LaserID of b), for display names that   *)
(* do not themselves end in the letters of a path.                         *)
IDContains(a, b) ==
  \/ owner[a] = owner[b] /\ IsPrefix(path[b], path[a])
  \/ <<owner[b], owner[a]>> \in NameEnds /\ IsPrefix(path[b], path[a])
  \/ <<owner[b], owner[a]>> \in NameWithin /\ path[b] = <<>>

(* MUTANT: IsOverride is never true. *)
SameIDNever(a, b) == FALSE

(* GetLaserID() of a and b are equal: names of two actors differ. *)
SameID(a, b) == owner[a] = owner[b] /\ path[a] = path[b]

(* IsValid(h) for an actor pointer. *)
IsValid(h) ==
  \/ h \in Mirrors \cup Targets \cup {Wall}
  \/ h \in Splits /\ device[h] = "live"

(* CurrentHitActor after SetLaserEndPoint: a miss leaves the old actor. *)
Hit(l) == IF sight[l] = Miss THEN last[l] ELSE sight[l]

(* What a beam that has passed `depth` devices, the last one in `from`, may *)
(* hit.  A beam leaves the device it starts on (StartOffset).              *)
Views(from, depth) ==
  Targets \cup {Wall, Miss} \cup
    (IF depth < MaxBounce
     THEN (Mirrors \cup {x \in Splits : device[x] = "live"}) \ from ELSE {})

Sources(l) == {d \in Bouncers : l \in attached[d]}

-----------------------------------------------------------------------------
TypeOK ==
  /\ life \in [Lasers -> {"free", "live", "dead"}]
  /\ owner \in [Lasers -> Spawners \cup {Null}]
  /\ path \in [Lasers -> Seq(Tags)]
  /\ sight \in [Lasers -> Devices \cup {Wall, Miss}]
  /\ last \in [Lasers -> Devices \cup {Wall, Null}]
  /\ bounce \in [Lasers -> Lasers \cup {Null}]
  /\ device \in [Splits -> {"free", "live", "dead"}]
  /\ active \in [Splits \cup Targets -> BOOLEAN]
  /\ attached \in [Bouncers -> SUBSET Lasers]
  /\ children \in [Spawners -> Seq(Lasers \cup {Null})]
  /\ sweep \in {<<>>} \cup (Lasers \X Nat)
  /\ crashed \in BOOLEAN

(* ALaserSpawner::BeginPlay of every spawner: one root beam each, its      *)
(* first child.  No beam has ticked, no splitter has been spawned.         *)
Init ==
  \E root \in [Spawners -> Lasers] :
    /\ \A s, t \in Spawners : s # t => root[s] # root[t]
    /\ owner \in [Lasers -> Spawners \cup {Null}]
    /\ \A l \in Lasers, s \in Spawners : owner[l] = s <=> root[s] = l
    /\ life = [l \in Lasers |-> IF owner[l] = Null THEN "free" ELSE "live"]
    /\ path = [l \in Lasers |-> <<>>]
    /\ sight = [l \in Lasers |-> Miss]
    /\ last = [l \in Lasers |-> Null]
    /\ bounce = [l \in Lasers |-> Null]
    /\ device = [d \in Splits |-> "free"]
    /\ active = [d \in Splits \cup Targets |-> FALSE]
    /\ attached = [d \in Bouncers |-> {}]
    /\ children = [s \in Spawners |-> <<root[s]>>]
    /\ sweep = <<>>
    /\ crashed = FALSE

-----------------------------------------------------------------------------
(* MUTANT of Emit: the new beams are not registered with the spawner. *)
EmitUnlisted(l, d, tag, new) ==
  \E view \in [Range(new) -> Views({d}, Len(path[l]) + 1)] :
    /\ life'  = [x \in Lasers |-> IF x \in Range(new) THEN "live" ELSE life[x]]
    /\ owner' = [x \in Lasers |-> IF x \in Range(new) THEN owner[l] ELSE owner[x]]
    /\ path'  = [x \in Lasers |-> IF x \in Range(new)
                                  THEN Append(path[l], tag) ELSE path[x]]
    /\ sight' = [x \in Lasers |-> IF x \in Range(new) THEN view[x] ELSE sight[x]]
    /\ attached' = [attached EXCEPT ![d] = @ \cup Range(new)]
    /\ UNCHANGED children

(* SpawnActor<ALaser> for every beam of `new`, in order, by device d for   *)
(* the beam l that hit it: ID, spawner, LaserAttached and ChildLasers.     *)
Emit(l, d, tag, new) ==
  \E view \in [Range(new) -> Views({d}, Len(path[l]) + 1)] :
    /\ life'  = [x \in Lasers |-> IF x \in Range(new) THEN "live" ELSE life[x]]
    /\ owner' = [x \in Lasers |-> IF x \in Range(new) THEN owner[l] ELSE owner[x]]
    /\ path'  = [x \in Lasers |-> IF x \in Range(new)
                                  THEN Append(path[l], tag) ELSE path[x]]
    /\ sight' = [x \in Lasers |-> IF x \in Range(new) THEN view[x] ELSE sight[x]]
    /\ attached' = [attached EXCEPT ![d] = @ \cup Range(new)]
    /\ children' = [children EXCEPT ![owner[l]] = @ \o new]

(* MUTANTS of Reflect: the result of LaserBounce is dropped; the mirror     *)
(* itself, not a letter, is appended to the ID.                            *)
ReflectDropped(l, d) ==
  /\ d \in Mirrors
  /\ \E b \in Free : Emit(l, d, "B", <<b>>)
  /\ UNCHANGED <<bounce, active>>

ReflectNamed(l, d) ==
  /\ d \in Mirrors
  /\ \E b \in Free : /\ Emit(l, d, d, <<b>>)
                     /\ bounce' = [bounce EXCEPT ![l] = b]
  /\ UNCHANGED active

(* LaserBounce(l, true, ...) of the three devices.  BounceLaser of l takes *)
(* the result: the new beam of a mirror, nullptr of the others.  A         *)
(* splitter that is lit already does nothing, and neither does one asked   *)
(* by a beam that was destroyed in its own Tick.                           *)
Reflect(l, d) ==
  /\ d \in Mirrors
  /\ \E b \in Free : /\ Emit(l, d, "B", <<b>>)
                     /\ bounce' = [bounce EXCEPT ![l] = b]
  /\ UNCHANGED active

Split(l, d) ==
  /\ d \in Splits /\ life[l] = "live" /\ ~active[d]
  /\ active' = [active EXCEPT ![d] = TRUE]
  /\ \E new \in [1..SpawnLaserCount -> Free] :
       /\ \A i, j \in DOMAIN new : i # j => new[i] # new[j]
       /\ Emit(l, d, "S", new)
  /\ bounce' = [bounce EXCEPT ![l] = Null]

Ignore(l, d) ==
  /\ d \in Splits /\ (life[l] # "live" \/ active[d])
  /\ bounce' = [bounce EXCEPT ![l] = Null]
  /\ UNCHANGED <<life, owner, path, sight, active, attached, children>>

Light(l, d) ==
  /\ d \in Targets
  /\ active' = [active EXCEPT ![d] = TRUE]
  /\ bounce' = [bounce EXCEPT ![l] = Null]
  /\ UNCHANGED <<life, owner, path, sight, attached, children>>

Respond(l, d) == Reflect(l, d) \/ Split(l, d) \/ Ignore(l, d) \/ Light(l, d)

(* The end of a Tick that found a new actor: it responds when it is an     *)
(* ILaserInterface, and becomes LastHitActor.                              *)
Arrive(l, h) ==
  /\ last' = [last EXCEPT ![l] = h]
  /\ \/ Respond(l, h)
     \/ h = Wall /\ UNCHANGED <<life, owner, path, sight, bounce,
                                active, attached, children>>
  /\ UNCHANGED <<device, crashed>>

(* Bound: a Tick that may spawn waits until the pool has room.             *)
Room(l, h) ==
  LET need == IF h \in Mirrors THEN 1 ELSE IF h \in Splits THEN SpawnLaserCount ELSE 0
  IN  /\ need <= Cardinality(Free)
      /\ Len(children[owner[l]]) + need <= MaxChildren

-----------------------------------------------------------------------------
(* MUTANT of TickArrive: what followed from the beam is not removed first. *)
TickArriveAtOnce(l) ==
  /\ Idle /\ life[l] = "live"
  /\ IsValid(Hit(l)) /\ Hit(l) # last[l]
  /\ Room(l, Hit(l))
  /\ Arrive(l, Hit(l))
  /\ UNCHANGED sweep

(* ALaser::Tick when the beam has left a wall, or hits its first actor.    *)
TickArrive(l) ==
  /\ Idle /\ life[l] = "live"
  /\ IsValid(Hit(l)) /\ Hit(l) # last[l] /\ last[l] \notin Devices
  /\ Room(l, Hit(l))
  /\ Arrive(l, Hit(l))
  /\ UNCHANGED sweep

(* ALaser::Tick when the beam has left a device (destroyed or not): the    *)
(* loop of RemoveFollowingLaser starts at the end of ChildLasers.          *)
TickLeave(l) ==
  /\ Idle /\ life[l] = "live"
  /\ IsValid(Hit(l)) /\ Hit(l) # last[l] /\ last[l] \in Devices
  /\ Room(l, Hit(l))
  /\ sweep' = <<l, Len(children[owner[l]])>>
  /\ UNCHANGED <<beamVars, deviceVars, children, crashed>>

(* ALaser::Tick when the trace misses and the stale actor was destroyed.   *)
TickLost(l) ==
  /\ Idle /\ life[l] = "live"
  /\ ~IsValid(Hit(l)) /\ last[l] \in Devices
  /\ active[last[l]] \/ Room(l, last[l])
  /\ Respond(l, last[l])
  /\ UNCHANGED <<last, device, sweep, crashed>>

(* ALaser::Tick when the beam rests on a mirror: BounceLaser is moved.     *)
(* The move itself is not modelled, only that the pointer must not be null.*)
TickCrash(l) ==
  /\ Idle /\ life[l] = "live"
  /\ Hit(l) = last[l] /\ last[l] \in Mirrors /\ bounce[l] = Null
  /\ crashed' = TRUE
  /\ UNCHANGED <<beamVars, deviceVars, children, sweep>>

(* The child at the loop's index, and whether it follows from the beam.    *)
SweptChild == children[owner[sweep[1]]][sweep[2]]
Following(c) == c # Null /\ life[c] = "live" /\ IDContains(c, sweep[1])

SweepSkip ==
  /\ sweep # <<>> /\ sweep[2] > 0
  /\ ~Following(SweptChild)
  /\ sweep' = <<sweep[1], sweep[2] - 1>>
  /\ UNCHANGED <<beamVars, deviceVars, children, crashed>>

(* MUTANT: the beam is cancelled but what it hits is not told. *)
SweepCancelSilent ==
  LET c        == SweptChild
      override == SameID(c, sweep[1])
  IN
  /\ sweep # <<>> /\ sweep[2] > 0
  /\ Following(c)
  /\ life' = [x \in Lasers |-> IF x = c /\ ~override THEN "dead" ELSE life[x]]
  /\ children' = IF override THEN children
                 ELSE [children EXCEPT ![owner[sweep[1]]] = RemoveAt(@, sweep[2])]
  /\ sweep' = <<sweep[1], sweep[2] - 1>>
  /\ UNCHANGED <<owner, path, sight, last, bounce, deviceVars, crashed>>

(* CancelTargetHit of the child c: what it hits gets LaserBounce(c, false),*)
(* i.e. ClearAttachedLasers of a mirror, bActive = false of the others.    *)
(* A child with the ID of the beam itself (IsOverride) is kept, any other  *)
(* is destroyed and removed from ChildLasers.                              *)
SweepCancel ==
  LET c        == SweptChild
      h        == last[c]
      override == SameID(c, sweep[1])
      cleared  == {a \in IF h \in Mirrors THEN attached[h] ELSE {} :
                     life[a] = "live" /\ IDContains(a, c)}
      killed   == cleared \cup (IF override THEN {} ELSE {c})
  IN
  /\ sweep # <<>> /\ sweep[2] > 0
  /\ Following(c)
  /\ life' = [x \in Lasers |-> IF x \in killed THEN "dead" ELSE life[x]]
  /\ attached' = [d \in Bouncers |-> IF d = h THEN attached[d] \ cleared ELSE attached[d]]
  /\ active' = [d \in Splits \cup Targets |-> active[d] /\ ~(d = h /\ IsValid(h))]
  /\ children' = IF override THEN children
                 ELSE [children EXCEPT ![owner[sweep[1]]] = RemoveAt(@, sweep[2])]
  /\ sweep' = <<sweep[1], sweep[2] - 1>>
  /\ UNCHANGED <<owner, path, sight, last, bounce, device, crashed>>

(* The loop is over: the rest of ALaser::Tick.                             *)
SweepDone ==
  /\ sweep # <<>> /\ sweep[2] = 0
  /\ Arrive(sweep[1], Hit(sweep[1]))
  /\ sweep' = <<>>

-----------------------------------------------------------------------------
(* External: a mirror turns, a splitter is carried, a platform passes, so  *)
(* that the line of one beam ends elsewhere.                               *)
Aim(l) ==
  /\ Idle /\ life[l] = "live"
  /\ \E h \in Views(Sources(l), Len(path[l])) :
       h # sight[l] /\ sight' = [sight EXCEPT ![l] = h]
  /\ UNCHANGED <<life, owner, path, last, bounce, deviceVars, children, sweep, crashed>>

(* AActionButton spawns a splitter.                                        *)
SplitAppears(d) ==
  /\ Idle /\ device[d] = "free"
  /\ device' = [device EXCEPT ![d] = "live"]
  /\ UNCHANGED <<beamVars, active, attached, children, sweep, crashed>>

(* External: a splitter carried over an edge falls out of the world and is *)
(* destroyed; beams that ended on it go on to what is behind it.           *)
SplitFalls(d) ==
  /\ Idle /\ d \in Mortal /\ device[d] = "live"
  /\ device' = [device EXCEPT ![d] = "dead"]
  /\ \E h \in {Wall, Miss} :
       sight' = [l \in Lasers |-> IF sight[l] = d THEN h ELSE sight[l]]
  /\ UNCHANGED <<life, owner, path, last, bounce, active, attached, children,
                 sweep, crashed>>

(* External: the garbage collector frees destroyed actors and nulls every  *)
(* UPROPERTY that points to one.                                           *)
Dead == {l \in Lasers : life[l] = "dead"}
Wreck == {d \in Splits : device[d] = "dead"}
Alive(x) == IF x \in Dead THEN Null ELSE x

Collect ==
  /\ Idle /\ Dead \cup Wreck # {}
  /\ life'   = [l \in Lasers |-> IF l \in Dead THEN "free" ELSE life[l]]
  /\ owner'  = [l \in Lasers |-> IF l \in Dead THEN Null ELSE owner[l]]
  /\ path'   = [l \in Lasers |-> IF l \in Dead THEN <<>> ELSE path[l]]
  /\ sight'  = [l \in Lasers |-> IF l \in Dead THEN Miss ELSE sight[l]]
  /\ last'   = [l \in Lasers |-> IF l \in Dead \/ last[l] \in Wreck THEN Null ELSE last[l]]
  /\ bounce' = [l \in Lasers |-> IF l \in Dead THEN Null ELSE Alive(bounce[l])]
  /\ device' = [d \in Splits |-> IF d \in Wreck THEN "free" ELSE device[d]]
  /\ active' = [d \in Splits \cup Targets |-> active[d] /\ d \notin Wreck]
  /\ attached' = [d \in Bouncers |-> IF d \in Wreck THEN {} ELSE attached[d] \ Dead]
  /\ children' = [s \in Spawners |->
                    [i \in 1..Len(children[s]) |-> Alive(children[s][i])]]
  /\ UNCHANGED <<sweep, crashed>>

-----------------------------------------------------------------------------
Tick(l) == TickArrive(l) \/ TickLeave(l) \/ TickLost(l) \/ TickCrash(l)

Sweep == SweepSkip \/ SweepCancel \/ SweepDone

World ==
  \/ \E l \in Lasers : Aim(l)
  \/ \E d \in Splits : SplitAppears(d) \/ SplitFalls(d)
  \/ Collect

Next == (\E l \in Lasers : Tick(l)) \/ Sweep \/ World

Spec == Init /\ [][Next]_vars

(* The engine ticks every actor every frame, runs a Tick to its end and    *)
(* collects garbage periodically.  Nothing is assumed of the player.       *)
FairSpec ==
  /\ Spec
  /\ \A l \in Lasers : WF_vars(Tick(l))
  /\ WF_vars(Sweep)
  /\ WF_vars(Collect)

-----------------------------------------------------------------------------
(* PROPERTIES *)

(* The loop under way is cancelling l or what follows from it.             *)
Swept(l) == sweep # <<>> /\ IDContains(l, sweep[1])

(* Every live beam is in its spawner's ChildLasers exactly once and in no  *)
(* other list: RemoveFollowingLaser, the only way a beam is ever cancelled,*)
(* finds beams through that list alone.                                    *)
Registered ==
  \A l \in Live :
    /\ owner[l] \in Spawners
    /\ \E i \in DOMAIN children[owner[l]] :
         \A s \in Spawners : \A j \in DOMAIN children[s] :
           children[s][j] = l <=> s = owner[l] /\ j = i

(* The root beam of a spawner is never destroyed and stays its first child:*)
(* it is spawned once, in BeginPlay, and nothing would bring it back.      *)
RootKept ==
  \A s \in Spawners :
    /\ Len(children[s]) > 0
    /\ children[s][1] \in Live
    /\ owner[children[s][1]] = s /\ path[children[s][1]] = <<>>

(* Every beam has reacted to what it hits, and no Tick is under way.       *)
Settled ==
  /\ Idle
  /\ \A l \in Live : Hit(l) = last[l]

(* The line of l ends on d.  It lingers on d when it misses and d is the   *)
(* last actor it hit: a miss leaves LastHitActor as it was, so d is not    *)
(* told that the beam has gone, and what d spawned or lit stays.           *)
Sees(l, d) == sight[l] = d
Lingers(l, d) == sight[l] = Miss /\ last[l] = d

(* The beam p that l follows from, at the device d where l starts.         *)
Follows(l, p, d) ==
  owner[p] = owner[l] /\ path[p] = Front(path[l]) /\ d \in Sources(l)

(* In a settled network every live beam that is not a root starts on a     *)
(* device that the live beam it follows from ends on, or lingers on: turned*)
(* from the mirror to any other actor it takes its reflection with it,     *)
(* turned into the void (the lines end after a fixed distance) it does not.*)
NoOrphans ==
  Settled => \A l \in Live : path[l] # <<>> =>
               \E p \in Live, d \in Bouncers :
                 Follows(l, p, d) /\ (Sees(p, d) \/ Lingers(p, d))

(* ALaser::Tick moves BounceLaser whenever the beam rests on a mirror: the *)
(* pointer is the live beam that mirror spawned for it, except while the   *)
(* loop is cancelling the beam.                                            *)
MirrorServed ==
  \A l \in Live : last[l] \in Mirrors /\ ~Swept(l) =>
    /\ bounce[l] \in Live
    /\ bounce[l] \in attached[last[l]]
    /\ owner[bounce[l]] = owner[l] /\ path[bounce[l]] = Append(path[l], "B")

(* BounceLaser is never dereferenced when null.                            *)
NeverCrashed == ~crashed

(* LaserID identifies a beam: RemoveFollowingLaser and ClearAttachedLasers *)
(* tell beams apart by it.                                                 *)
UniqueID == \A a, b \in Live : SameID(a, b) => a = b

(* In a settled network with one spawner a target is lit exactly when a    *)
(* live beam ends on it, or lingers on it: a beam that ended on it and has *)
(* been turned into the void since leaves it lit.                          *)
LitByBeam ==
  Settled => \A t \in Targets :
               active[t] <=> \E l \in Live : Sees(l, t) \/ Lingers(l, t)

(* A step of one spawner's beams neither destroys nor detaches a beam of   *)
(* another spawner, though they may share mirrors.                         *)
Isolation ==
  [][\A a \in Lasers : sweep # <<>> /\ life[a] = "live" /\ life'[a] # "live"
        => owner[a] = owner[sweep[1]]]_vars

(* Nothing turns the beams any more, and no two live beams of a spawner    *)
(* end on the same mirror.  Between two facing mirrors a beam comes back to*)
(* a mirror it has passed, and the code spawns beams for ever.             *)
AtRest == <>[][\A l \in Lasers : ~Aim(l)]_vars
NoMirrorTwice ==
  \A a, b \in Live :
    a # b /\ owner[a] = owner[b] => Hit(a) # Hit(b) \/ Hit(a) \notin Mirrors
NoneMisses == \A l \in Live : sight[l] # Miss

(* What the player sees is what the lines show: the lit targets are those a*)
(* beam ends on now, a beam starts on a mirror exactly when the one before *)
(* it ends there now.                                                      *)
ShownAsSeen ==
  /\ \A t \in Targets : active[t] <=> \E l \in Live : Sees(l, t)
  /\ \A l \in Live : path[l] # <<>> =>
       \E p \in Live, d \in Bouncers : Follows(l, p, d) /\ Sees(p, d)
  /\ \A p \in Live, d \in Mirrors :
       Sees(p, d) => \E l \in Live : Follows(l, p, d) /\ path[l] # <<>>

(* Once nothing is moved any more, and no beam comes back to a mirror, the *)
(* network settles for good: the chain of Ticks that one change sets off (a*)
(* beam is cancelled with all that follow from it, the new mirror spawns   *)
(* another, which hits the next) comes to an end.  Unless a beam is lost in*)
(* the void, every light left by an earlier position has then gone out, and*)
(* every light of this position has come on.                               *)
Settles ==
  AtRest /\ <>[]NoMirrorTwice => <>[](Settled /\ (NoneMisses => ShownAsSeen))

-----------------------------------------------------------------------------
(* INDUCTIVE STRENGTHENINGS used by the proofs                             *)

(* Every entry of a ChildLasers list that is not null is a beam of that    *)
(* spawner, live or destroyed, and is there once; every live beam is in the*)
(* list of its spawner; the loop under way stays within the list.          *)
ListedBeams ==
  \A s \in Spawners : \A i \in DOMAIN children[s] :
    children[s][i] # Null => /\ life[children[s][i]] # "free"
                             /\ owner[children[s][i]] = s
ListedOnce ==
  \A s \in Spawners : \A i, j \in DOMAIN children[s] :
    children[s][i] = children[s][j] /\ children[s][i] # Null => i = j
LiveListed ==
  \A l \in Live : /\ owner[l] \in Spawners
                  /\ \E i \in DOMAIN children[owner[l]] : children[owner[l]][i] = l
SweepInList ==
  sweep # <<>> => /\ owner[sweep[1]] \in Spawners
                  /\ sweep[2] <= Len(children[owner[sweep[1]]])
                  /\ life[sweep[1]] # "free"

(* Every beam that a mirror or splitter holds has passed a device.         *)
Held ==
  \A d \in Bouncers : \A a \in attached[d] : life[a] # "free" /\ path[a] # <<>>

RegInv ==
  TypeOK /\ ListedBeams /\ ListedOnce /\ LiveListed /\ SweepInList /\ Held /\ RootKept

(* Chain: in a Plain level, one without splitters and with names that do  *)
(* not contain each other, the ChildLasers of a spawner is its chain of    *)
(* beams, root first: beam i has passed i - 1 mirrors and all but the last *)
(* end on the mirror that spawned the next.                                *)
Plain == Splits = {} /\ NameWithin = {}

Letters(n) == [k \in 1..n |-> "B"]
Tip(s) == Len(children[s])

Linked(s, i) ==
  /\ last[children[s][i]] \in Mirrors
  /\ bounce[children[s][i]] = children[s][i + 1]
  /\ children[s][i + 1] \in attached[last[children[s][i]]]

ChainOf(s) ==
  \A i \in 1..Tip(s) : /\ children[s][i] \in Live
                       /\ path[children[s][i]] = Letters(i - 1)
                       /\ i < Tip(s) => Linked(s, i)

(* The loop under way has removed everything beyond its index; once past   *)
(* the beam itself what the beam hit is dark.                              *)
Place == Len(path[sweep[1]]) + 1
Cancelled == sweep[2] < Place

SweepChain ==
  sweep # <<>> =>
    LET s == owner[sweep[1]] IN
    /\ sweep[1] \in Live /\ Place <= Tip(s) /\ children[s][Place] = sweep[1]
    /\ Tip(s) = IF Cancelled THEN Place ELSE sweep[2]
    /\ Cancelled /\ last[sweep[1]] \in Targets => ~active[last[sweep[1]]]

(* The last beam of a chain ends on no mirror, unless the loop is at it.   *)
TailOff ==
  \A s \in Spawners :
    last[children[s][Tip(s)]] \in Mirrors =>
      sweep # <<>> /\ owner[sweep[1]] = s

(* No beam ends on the mirror it starts on; a beam not yet spawned has hit *)
(* nothing.                                                                *)
Forward ==
  \A d \in Bouncers : \A a \in attached[d] :
    life[a] = "live" => sight[a] # d /\ last[a] # d
Blank == \A l \in Lasers : life[l] = "free" => last[l] = Null

(* LastHitActor and the lit targets: a lit target is the LastHitActor of a *)
(* live beam at every step, and (one spawner) between two Ticks the target *)
(* that is a live beam's LastHitActor is lit.  With several spawners the   *)
(* beam of one that leaves a shared target darkens it.  LastHitActor is not*)
(* what the beam hits: see Lingers.                                        *)
LitIsHit == \A t \in Targets : active[t] => \E l \in Live : last[l] = t
HitIsLit == Idle => \A l \in Live : last[l] \in Targets => active[last[l]]

ChainInv ==
  /\ \A s \in Spawners : ChainOf(s)
  /\ SweepChain /\ TailOff /\ Forward /\ Blank /\ LitIsHit /\ NeverCrashed
=============================================================================
