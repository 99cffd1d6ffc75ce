------------------------ MODULE LaserNetwork_proofs ------------------------
(* Proofs about LaserNetwork, for every set of lasers, spawners and        *)
(* devices, every number of beams a splitter spawns and every bound.       *)
EXTENDS LaserNetwork, SequenceTheorems, TLAPS

-----------------------------------------------------------------------------
(* The effect of one LaserBounce on the variables' types.                  *)
LEMMA EmitType ==
  ASSUME TypeOK, NEW l \in Lasers, NEW d \in Bouncers, NEW tag \in Tags,
         NEW new \in Seq(Free), Emit(l, d, tag, new)
  PROVE  /\ life' \in [Lasers -> {"free", "live", "dead"}]
         /\ owner' \in [Lasers -> Spawners \cup {Null}]
         /\ path' \in [Lasers -> Seq(Tags)]
         /\ sight' \in [Lasers -> Devices \cup {Wall, Miss}]
         /\ attached' \in [Bouncers -> SUBSET Lasers]
         /\ children' \in [Spawners -> Seq(Lasers \cup {Null})]
<1> USE DEF TypeOK
<1>1. PICK view \in [Range(new) -> Views({d}, Len(path[l]) + 1)] :
        /\ life'  = [x \in Lasers |-> IF x \in Range(new) THEN "live" ELSE life[x]]
        /\ owner' = [x \in Lasers |-> IF x \in Range(new) THEN owner[l] ELSE owner[x]]
        /\ path'  = [x \in Lasers |-> IF x \in Range(new)
                                      THEN Append(path[l], tag) ELSE path[x]]
        /\ sight' = [x \in Lasers |-> IF x \in Range(new) THEN view[x] ELSE sight[x]]
        /\ attached' = [attached EXCEPT ![d] = @ \cup Range(new)]
        /\ children' = [children EXCEPT ![owner[l]] = @ \o new]
  BY DEF Emit
<1>2. Range(new) \subseteq Lasers
  BY DEF Range, Free
<1>3. Views({d}, Len(path[l]) + 1) \subseteq Devices \cup {Wall, Miss}
  BY DEF Views, Devices, Bouncers
<1>4. path' \in [Lasers -> Seq(Tags)]
  <2>1. Append(path[l], tag) \in Seq(Tags)
    OBVIOUS
  <2> QED BY <1>1, <2>1
<1>5. children' \in [Spawners -> Seq(Lasers \cup {Null})]
  <2>1. new \in Seq(Lasers \cup {Null})
    BY DEF Free
  <2>2. \A s \in Spawners : children[s] \o new \in Seq(Lasers \cup {Null})
    BY <2>1
  <2> QED BY <1>1, <2>2
<1>6. attached' \in [Bouncers -> SUBSET Lasers]
  BY <1>1, <1>2
<1>7. sight' \in [Lasers -> Devices \cup {Wall, Miss}]
  BY <1>1, <1>3
<1> QED BY <1>1, <1>4, <1>5, <1>6, <1>7

LEMMA RespondType ==
  ASSUME TypeOK, NEW l \in Lasers, NEW d, Respond(l, d)
  PROVE  /\ life' \in [Lasers -> {"free", "live", "dead"}]
         /\ owner' \in [Lasers -> Spawners \cup {Null}]
         /\ path' \in [Lasers -> Seq(Tags)]
         /\ sight' \in [Lasers -> Devices \cup {Wall, Miss}]
         /\ bounce' \in [Lasers -> Lasers \cup {Null}]
         /\ active' \in [Splits \cup Targets -> BOOLEAN]
         /\ attached' \in [Bouncers -> SUBSET Lasers]
         /\ children' \in [Spawners -> Seq(Lasers \cup {Null})]
         /\ d \in Devices
<1>1. CASE Reflect(l, d)
  <2>1. PICK b \in Free : Emit(l, d, "B", <<b>>) /\ bounce' = [bounce EXCEPT ![l] = b]
    BY <1>1 DEF Reflect
  <2>2. d \in Bouncers /\ active' = active /\ <<b>> \in Seq(Free) /\ "B" \in Tags
    BY <1>1 DEF Reflect, Bouncers, Tags
  <2>3. bounce' \in [Lasers -> Lasers \cup {Null}]
    BY <2>1 DEF TypeOK, Free
  <2> QED BY <2>1, <2>2, <2>3, EmitType DEF Devices, TypeOK
<1>2. CASE Split(l, d)
  <2>1. PICK new \in [1..SpawnLaserCount -> Free] : Emit(l, d, "S", new)
    BY <1>2 DEF Split
  <2>2. d \in Bouncers /\ new \in Seq(Free) /\ "S" \in Tags
    BY <1>2, LaserAssumption DEF Split, Bouncers, Tags
  <2>3. bounce' \in [Lasers -> Lasers \cup {Null}]
    BY <1>2 DEF Split, TypeOK
  <2>4. active' \in [Splits \cup Targets -> BOOLEAN]
    BY <1>2 DEF Split, TypeOK
  <2> QED BY <2>1, <2>2, <2>3, <2>4, EmitType DEF Devices
<1>3. CASE Ignore(l, d)
  BY <1>3 DEF Ignore, TypeOK, Devices, Bouncers
<1>4. CASE Light(l, d)
  <2>1. active' \in [Splits \cup Targets -> BOOLEAN]
    BY <1>4 DEF Light, TypeOK
  <2> QED BY <1>4, <2>1 DEF Light, TypeOK, Devices
<1> QED BY <1>1, <1>2, <1>3, <1>4 DEF Respond

LEMMA ArriveType ==
  ASSUME TypeOK, NEW l \in Lasers, NEW h, Arrive(l, h),
         sweep' \in {<<>>} \cup (Lasers \X Nat)
  PROVE  TypeOK'
<1>1. CASE Respond(l, h)
  <2>1. last' \in [Lasers -> Devices \cup {Wall, Null}]
    BY <1>1, RespondType DEF Arrive, TypeOK
  <2> QED BY <1>1, <2>1, RespondType DEF Arrive, TypeOK
<1>2. CASE h = Wall /\ UNCHANGED <<life, owner, path, sight, bounce,
                                   active, attached, children>>
  <2>1. last' \in [Lasers -> Devices \cup {Wall, Null}]
    BY <1>2 DEF Arrive, TypeOK
  <2> QED BY <1>2, <2>1 DEF Arrive, TypeOK
<1> QED BY <1>1, <1>2 DEF Arrive

(* What the loop's index points to while TypeOK holds.                     *)
LEMMA SweepType ==
  ASSUME TypeOK, sweep # <<>>
  PROVE  sweep \in Lasers \X Nat /\ sweep[1] \in Lasers /\ sweep[2] \in Nat
BY DEF TypeOK

LEMMA FollowingType ==
  ASSUME TypeOK, sweep # <<>>, sweep[2] > 0,
         owner[sweep[1]] \in Spawners, sweep[2] <= Len(children[owner[sweep[1]]]),
         Following(SweptChild)
  PROVE  SweptChild \in Live
<1>1. children[owner[sweep[1]]] \in Seq(Lasers \cup {Null})
  BY DEF TypeOK
<1>2. sweep[2] \in 1..Len(children[owner[sweep[1]]])
  BY <1>1, SweepType
<1>3. SweptChild \in Lasers \cup {Null}
  BY <1>1, <1>2 DEF SweptChild
<1> QED BY <1>3 DEF Following, Live

(* Removing one element of a sequence, as a function.                      *)
LEMMA RemoveAtFacts ==
  ASSUME NEW S, NEW q \in Seq(S), NEW i \in 1..Len(q)
  PROVE  /\ RemoveAt(q, i) \in Seq(S)
         /\ Len(RemoveAt(q, i)) = Len(q) - 1
         /\ \A j \in 1..(Len(q) - 1) :
              RemoveAt(q, i)[j] = IF j < i THEN q[j] ELSE q[j + 1]
<1> DEFINE a == SubSeq(q, 1, i - 1)
           b == SubSeq(q, i + 1, Len(q))
<1>1. /\ a \in Seq(S)
      /\ Len(a) = i - 1
      /\ \A j \in 1..(i - 1) : a[j] = q[j]
  BY SubSeqProperties
<1>2. /\ b \in Seq(S)
      /\ Len(b) = Len(q) - i
      /\ \A j \in 1..(Len(q) - i) : b[j] = q[i + j]
  BY SubSeqProperties
<1> HIDE DEF a, b
<1>3. /\ a \o b \in Seq(S)
      /\ Len(a \o b) = Len(q) - 1
      /\ \A j \in 1..(Len(q) - 1) :
           (a \o b)[j] = IF j <= i - 1 THEN a[j] ELSE b[j - (i - 1)]
  <2>1. Len(a) + Len(b) = Len(q) - 1
    BY <1>1, <1>2
  <2>2. /\ a \o b \in Seq(S)
        /\ Len(a \o b) = Len(a) + Len(b)
        /\ \A j \in 1..(Len(a) + Len(b)) :
             (a \o b)[j] = IF j <= Len(a) THEN a[j] ELSE b[j - Len(a)]
    BY <1>1, <1>2, ConcatProperties
  <2> QED BY <1>1, <2>1, <2>2
<1>4. RemoveAt(q, i) = a \o b
  BY DEF RemoveAt, a, b
<1>5. ASSUME NEW j \in 1..(Len(q) - 1)
      PROVE  (a \o b)[j] = IF j < i THEN q[j] ELSE q[j + 1]
  <2>1. CASE j < i
    BY <2>1, <1>1, <1>3
  <2>2. CASE ~(j < i)
    <3>1. j - (i - 1) \in 1..(Len(q) - i) /\ i + (j - (i - 1)) = j + 1
      BY <2>2
    <3> QED BY <2>2, <3>1, <1>2, <1>3
  <2> QED BY <2>1, <2>2
<1> QED BY <1>3, <1>4, <1>5

-----------------------------------------------------------------------------
(* The registration invariant RegInv, for any number of splitters and      *)
(* beams per splitter.                                                     *)

(* RegInv speaks of these variables only, besides its type.                *)
LEMMA RegFrame ==
  ASSUME RegInv, TypeOK', UNCHANGED <<life, owner, path, attached, children>>,
         SweepInList'
  PROVE  RegInv'
BY DEF RegInv, ListedBeams, ListedOnce, LiveListed, Held, RootKept, Live

LEMMA EmitReg ==
  ASSUME RegInv, NEW l \in Lasers, owner[l] \in Spawners, NEW d \in Bouncers,
         NEW tag \in Tags, NEW new \in Seq(Free),
         \A i, j \in DOMAIN new : i # j => new[i] # new[j],
         Emit(l, d, tag, new)
  PROVE  /\ ListedBeams' /\ ListedOnce' /\ LiveListed' /\ Held' /\ RootKept'
         /\ \A x \in Lasers : life[x] # "free" => life'[x] = life[x] /\ owner'[x] = owner[x]
         /\ \A s \in Spawners : Len(children'[s]) >= Len(children[s])
<1> DEFINE s0 == owner[l]
           N  == Len(children[s0])
<1>0. /\ life'  = [x \in Lasers |-> IF x \in Range(new) THEN "live" ELSE life[x]]
      /\ owner' = [x \in Lasers |-> IF x \in Range(new) THEN s0 ELSE owner[x]]
      /\ path'  = [x \in Lasers |-> IF x \in Range(new)
                                    THEN Append(path[l], tag) ELSE path[x]]
      /\ attached' = [attached EXCEPT ![d] = @ \cup Range(new)]
      /\ children' = [children EXCEPT ![s0] = @ \o new]
  BY DEF Emit
<1>1. TypeOK /\ ListedBeams /\ ListedOnce /\ LiveListed /\ Held /\ RootKept
  BY DEF RegInv
<1>2. /\ Range(new) = {new[i] : i \in 1..Len(new)}
      /\ Range(new) \subseteq Free
      /\ \A i \in 1..Len(new) : new[i] \in Lasers /\ new[i] \in Range(new) /\ new[i] # Null
      /\ \A x \in Range(new) : x \in Lasers /\ life[x] = "free"
  BY LaserAssumption DEF Range, Free
<1>3. children \in [Spawners -> Seq(Lasers \cup {Null})] /\ new \in Seq(Lasers \cup {Null})
  BY <1>1, <1>2 DEF TypeOK, Free
<1>4. /\ \A s \in Spawners : s # s0 => children'[s] = children[s]
      /\ children'[s0] = children[s0] \o new
      /\ Len(children'[s0]) = N + Len(new)
      /\ \A i \in 1..(N + Len(new)) :
           children'[s0][i] = IF i <= N THEN children[s0][i] ELSE new[i - N]
      /\ N \in Nat /\ Len(new) \in Nat
  BY <1>0, <1>3, ConcatProperties
<1>4a. ASSUME NEW s \in Spawners, NEW i \in DOMAIN children[s]
       PROVE  i \in DOMAIN children'[s] /\ children'[s][i] = children[s][i]
  <2>1. CASE s = s0
    <3>1. i \in 1..N /\ DOMAIN children'[s0] = 1..(N + Len(new))
      BY <2>1, <1>3, <1>4
    <3>2. i \in 1..(N + Len(new)) /\ i <= N
      BY <3>1, <1>4
    <3> QED BY <2>1, <3>1, <3>2, <1>4
  <2> QED BY <2>1, <1>4
<1>4b. ASSUME NEW s \in Spawners, NEW i \in DOMAIN children'[s], ~(s = s0 /\ i > N)
       PROVE  i \in DOMAIN children[s]
  <2>1. CASE s = s0
    BY <1>4b, <2>1, <1>3, <1>4
  <2> QED BY <2>1, <1>4
<1>5. \A s \in Spawners : \A i \in DOMAIN children[s] : children[s][i] \notin Range(new)
  BY <1>1, <1>2, LaserAssumption DEF ListedBeams, TypeOK
<1>6. \A x \in Lasers : x \notin Range(new) =>
        life'[x] = life[x] /\ owner'[x] = owner[x] /\ path'[x] = path[x]
  BY <1>0
<1>7. \A x \in Range(new) :
        life'[x] = "live" /\ owner'[x] = s0 /\ path'[x] = Append(path[l], tag)
  BY <1>0, <1>2
<1>8. ListedBeams'
  <2> SUFFICES ASSUME NEW s \in Spawners, NEW i \in DOMAIN children'[s],
                      children'[s][i] # Null
               PROVE  life'[children'[s][i]] # "free" /\ owner'[children'[s][i]] = s
    BY DEF ListedBeams
  <2>1. CASE s = s0 /\ i > N
    <3>1. i \in 1..(N + Len(new)) /\ i - N \in 1..Len(new)
      BY <2>1, <1>3, <1>4
    <3>2. children'[s][i] = new[i - N]
      BY <2>1, <1>4, <3>1
    <3> QED BY <2>1, <3>1, <3>2, <1>2, <1>7
  <2>2. CASE ~(s = s0 /\ i > N)
    <3>1. i \in DOMAIN children[s] /\ children'[s][i] = children[s][i]
      BY <2>2, <1>4a, <1>4b
    <3>2. children[s][i] \in Lasers /\ children[s][i] \notin Range(new)
      BY <3>1, <1>3, <1>5
    <3> QED BY <3>1, <3>2, <1>1, <1>6 DEF ListedBeams
  <2> QED BY <2>1, <2>2
<1>9. ListedOnce'
  <2> SUFFICES ASSUME NEW s \in Spawners, NEW i \in DOMAIN children'[s],
                      NEW j \in DOMAIN children'[s],
                      children'[s][i] = children'[s][j], children'[s][i] # Null
               PROVE  i = j
    BY DEF ListedOnce
  <2>1. CASE s # s0
    BY <2>1, <1>1, <1>4 DEF ListedOnce
  <2>2. CASE s = s0
    <3>1. i \in 1..(N + Len(new)) /\ j \in 1..(N + Len(new))
      BY <2>2, <1>3, <1>4
    <3>2. CASE i <= N /\ j <= N
      BY <3>1, <3>2, <2>2, <1>1, <1>3, <1>4 DEF ListedOnce
    <3>3. CASE i > N /\ j > N
      <4>1. i - N \in 1..Len(new) /\ j - N \in 1..Len(new)
        BY <3>1, <3>3, <1>4
      <4>2. new[i - N] = new[j - N]
        BY <3>1, <3>3, <2>2, <1>4
      <4>3. i - N = j - N
        BY <4>1, <4>2
      <4> QED BY <4>3, <3>1, <1>4
    <3>4. CASE i <= N /\ j > N
      <4>1. j - N \in 1..Len(new) /\ i \in DOMAIN children[s0]
        BY <3>1, <3>4, <1>3, <1>4
      <4> QED BY <4>1, <3>1, <3>4, <2>2, <1>2, <1>4, <1>5
    <3>5. CASE i > N /\ j <= N
      <4>1. i - N \in 1..Len(new) /\ j \in DOMAIN children[s0]
        BY <3>1, <3>5, <1>3, <1>4
      <4> QED BY <4>1, <3>1, <3>5, <2>2, <1>2, <1>4, <1>5
    <3> QED BY <3>1, <3>2, <3>3, <3>4, <3>5, <1>4
  <2> QED BY <2>1, <2>2
<1>10. LiveListed'
  <2> SUFFICES ASSUME NEW x \in Lasers, life'[x] = "live"
               PROVE  /\ owner'[x] \in Spawners
                      /\ \E i \in DOMAIN children'[owner'[x]] : children'[owner'[x]][i] = x
    BY DEF LiveListed, Live
  <2>1. CASE x \in Range(new)
    <3>1. PICK k \in 1..Len(new) : new[k] = x
      BY <2>1, <1>2
    <3>2. N + k \in 1..(N + Len(new)) /\ ~(N + k <= N) /\ (N + k) - N = k
      BY <1>4
    <3>3. children'[s0][N + k] = x
      BY <3>1, <3>2, <1>4
    <3>4. DOMAIN children'[s0] = 1..(N + Len(new))
      BY <1>3, <1>4
    <3> QED BY <2>1, <3>2, <3>3, <3>4, <1>7
  <2>2. CASE x \notin Range(new)
    <3>1. x \in Live /\ owner'[x] = owner[x]
      BY <2>2, <1>6 DEF Live
    <3>2. PICK i \in DOMAIN children[owner[x]] : children[owner[x]][i] = x
      BY <3>1, <1>1 DEF LiveListed
    <3>3. owner[x] \in Spawners
      BY <3>1, <1>1 DEF LiveListed
    <3>4. i \in DOMAIN children'[owner[x]] /\ children'[owner[x]][i] = x
      BY <3>2, <3>3, <1>4a
    <3> QED BY <3>1, <3>3, <3>4
  <2> QED BY <2>1, <2>2
<1>11. Held'
  <2> SUFFICES ASSUME NEW e \in Bouncers, NEW a \in attached'[e]
               PROVE  life'[a] # "free" /\ path'[a] # <<>>
    BY DEF Held
  <2>1. CASE a \in Range(new)
    <3>1. Append(path[l], tag) # <<>>
      <4>1. path[l] \in Seq(Tags)
        BY <1>1 DEF TypeOK
      <4> QED BY <4>1, AppendProperties
    <3> QED BY <2>1, <3>1, <1>7
  <2>2. CASE a \notin Range(new)
    <3>1. a \in attached[e] /\ a \in Lasers
      BY <2>2, <1>0, <1>1 DEF TypeOK
    <3> QED BY <3>1, <2>2, <1>1, <1>6 DEF Held
  <2> QED BY <2>1, <2>2
<1>12. RootKept'
  <2> SUFFICES ASSUME NEW s \in Spawners
               PROVE  /\ Len(children'[s]) > 0 /\ children'[s][1] \in Lasers
                      /\ life'[children'[s][1]] = "live"
                      /\ owner'[children'[s][1]] = s /\ path'[children'[s][1]] = <<>>
    BY DEF RootKept, Live
  <2>1. /\ Len(children[s]) > 0 /\ children[s][1] \in Lasers
        /\ life[children[s][1]] = "live"
        /\ owner[children[s][1]] = s /\ path[children[s][1]] = <<>>
    BY <1>1 DEF RootKept, Live
  <2>2. Len(children'[s]) > 0 /\ children'[s][1] = children[s][1]
    BY <2>1, <1>3, <1>4
  <2>3. children[s][1] \notin Range(new)
    BY <2>1, <1>2
  <2> QED BY <2>1, <2>2, <2>3, <1>6
<1> QED
  <2>1. \A s \in Spawners : Len(children'[s]) >= Len(children[s])
    BY <1>3, <1>4
  <2>2. \A x \in Lasers : life[x] # "free" => life'[x] = life[x] /\ owner'[x] = owner[x]
    BY <1>2, <1>6
  <2> QED BY <1>8, <1>9, <1>10, <1>11, <1>12, <2>1, <2>2

LEMMA RespondReg ==
  ASSUME RegInv, NEW l \in Lasers, owner[l] \in Spawners, NEW d, Respond(l, d)
  PROVE  ListedBeams' /\ ListedOnce' /\ LiveListed' /\ Held' /\ RootKept'
<1>1. CASE Reflect(l, d)
  <2>1. PICK b \in Free : Emit(l, d, "B", <<b>>)
    BY <1>1 DEF Reflect
  <2>2. d \in Bouncers /\ <<b>> \in Seq(Free) /\ "B" \in Tags
    BY <1>1 DEF Reflect, Bouncers, Tags
  <2>3. \A i, j \in DOMAIN <<b>> : i # j => <<b>>[i] # <<b>>[j]
    OBVIOUS
  <2> QED BY <2>1, <2>2, <2>3, EmitReg
<1>2. CASE Split(l, d)
  <2>1. PICK new \in [1..SpawnLaserCount -> Free] :
          Emit(l, d, "S", new) /\ \A i, j \in DOMAIN new : i # j => new[i] # new[j]
    BY <1>2 DEF Split
  <2>2. d \in Bouncers /\ new \in Seq(Free) /\ "S" \in Tags
    BY <1>2, LaserAssumption DEF Split, Bouncers, Tags
  <2> QED BY <2>1, <2>2, EmitReg
<1>3. CASE Ignore(l, d) \/ Light(l, d)
  <2>1. UNCHANGED <<life, owner, path, attached, children>>
    BY <1>3 DEF Ignore, Light
  <2>2. ListedBeams' /\ ListedOnce' /\ LiveListed'
    BY <2>1 DEF RegInv, ListedBeams, ListedOnce, LiveListed, Live
  <2>3. Held' /\ RootKept'
    BY <2>1 DEF RegInv, Held, RootKept, Live
  <2> QED BY <2>2, <2>3
<1> QED BY <1>1, <1>2, <1>3 DEF Respond

LEMMA ArriveReg ==
  ASSUME RegInv, NEW l \in Lasers, owner[l] \in Spawners, NEW h, Arrive(l, h),
         sweep' = <<>>
  PROVE  RegInv'
<1>1. TypeOK'
  BY ArriveType DEF RegInv
<1>2. SweepInList'
  BY DEF SweepInList
<1>3. CASE Respond(l, h)
  BY <1>1, <1>2, <1>3, RespondReg DEF RegInv
<1>4. CASE h = Wall /\ UNCHANGED <<life, owner, path, sight, bounce,
                                   active, attached, children>>
  BY <1>1, <1>2, <1>4, RegFrame
<1> QED BY <1>3, <1>4 DEF Arrive

(* CancelTargetHit and RemoveAt: only followers of the sweeping beam with  *)
(* a longer ID are destroyed and taken off the list, so never the root.    *)
LEMMA CancelReg ==
  ASSUME RegInv, SweepCancel
  PROVE  RegInv'
<1> DEFINE l == sweep[1]
           p == sweep[2]
           s0 == owner[l]
           c == SweptChild
           h == last[c]
           N == Len(children[s0])
           override == SameID(c, l)
           cleared == {a \in IF h \in Mirrors THEN attached[h] ELSE {} :
                         life[a] = "live" /\ IDContains(a, c)}
           killed == cleared \cup (IF override THEN {} ELSE {c})
<1>1. TypeOK /\ ListedBeams /\ ListedOnce /\ LiveListed /\ SweepInList /\ Held /\ RootKept
  BY DEF RegInv
<1>2. /\ sweep # <<>> /\ p > 0 /\ Following(c)
      /\ life' = [x \in Lasers |-> IF x \in killed THEN "dead" ELSE life[x]]
      /\ attached' = [d \in Bouncers |-> IF d = h THEN attached[d] \ cleared ELSE attached[d]]
      /\ active' = [d \in Splits \cup Targets |-> active[d] /\ ~(d = h /\ IsValid(h))]
      /\ children' = IF override THEN children
                     ELSE [children EXCEPT ![s0] = RemoveAt(@, p)]
      /\ sweep' = <<l, p - 1>>
      /\ UNCHANGED <<owner, path, sight, last, bounce, device, crashed>>
  BY DEF SweepCancel
<1>3. /\ sweep \in Lasers \X Nat /\ l \in Lasers /\ p \in Nat /\ s0 \in Spawners
      /\ p <= N /\ N \in Nat /\ p \in 1..N /\ c = children[s0][p]
      /\ children \in [Spawners -> Seq(Lasers \cup {Null})]
      /\ children[s0] \in Seq(Lasers \cup {Null})
  BY <1>1, <1>2, SweepType DEF SweepInList, TypeOK, SweptChild
<1>4. c \in Lasers /\ life[c] = "live" /\ IDContains(c, l)
  BY <1>1, <1>2, <1>3, FollowingType DEF Live, Following
<1>5. owner[c] = s0 /\ IsPrefix(path[l], path[c])
  <2>1. c # Null /\ p \in DOMAIN children[s0]
    BY <1>3, <1>4, LaserAssumption
  <2>2. owner[c] = s0
    BY <1>1, <1>3, <2>1 DEF ListedBeams
  <2>3. owner[l] = s0 /\ <<s0, s0>> \notin NameWithin /\ <<s0, s0>> \notin NameEnds
    BY <1>3, LaserAssumption
  <2> QED BY <2>2, <2>3, <1>4 DEF IDContains
<1>6. killed \subseteq Lasers /\ \A x \in killed : path[x] # <<>> /\ life[x] = "live"
  <2>1. cleared \subseteq Lasers /\ \A x \in cleared : path[x] # <<>> /\ life[x] = "live"
    BY <1>1 DEF TypeOK, Held, Bouncers
  <2>2. ~override => path[c] # <<>>
    <3>1. SUFFICES ASSUME path[c] = <<>>  PROVE override
      OBVIOUS
    <3>2. path[l] \in Seq(Tags) /\ Len(path[l]) <= 0
      BY <3>1, <1>1, <1>3, <1>5 DEF TypeOK, IsPrefix
    <3>3. path[l] = <<>>
      BY <3>2, EmptySeq
    <3> QED BY <3>1, <3>3, <1>5 DEF SameID
  <2> QED BY <2>1, <2>2, <1>4
<1>7. /\ \A x \in Lasers : life'[x] # "free" <=> life[x] # "free"
      /\ \A x \in Lasers : x \notin killed => life'[x] = life[x]
      /\ \A x \in Lasers : life'[x] = "live" => life[x] = "live" /\ x \notin killed
  BY <1>1, <1>2, <1>6 DEF TypeOK
<1> HIDE DEF killed, cleared, c, override
<1>8. CASE override
  <2>1. children' = children
    BY <1>2, <1>8
  <2>2. TypeOK'
    BY <1>1, <1>2, <1>3, <2>1 DEF TypeOK
  <2>3. ListedBeams' /\ ListedOnce'
    BY <1>1, <1>2, <1>3, <1>7, <2>1 DEF ListedBeams, ListedOnce, TypeOK
  <2>4. LiveListed'
    BY <1>1, <1>2, <1>7, <2>1 DEF LiveListed, Live
  <2>5. SweepInList'
    BY <1>1, <1>2, <1>3, <1>7, <2>1 DEF SweepInList
  <2>6. Held'
    BY <1>1, <1>2, <1>7 DEF Held, TypeOK
  <2>7. RootKept'
    BY <1>1, <1>2, <1>6, <1>7, <2>1 DEF RootKept, Live
  <2> QED BY <2>2, <2>3, <2>4, <2>5, <2>6, <2>7 DEF RegInv
<1>9. CASE ~override
  <2>1. /\ children' = [children EXCEPT ![s0] = RemoveAt(@, p)]
        /\ c \in killed
    BY <1>2, <1>9 DEF killed
  <2>2. /\ RemoveAt(children[s0], p) \in Seq(Lasers \cup {Null})
        /\ Len(RemoveAt(children[s0], p)) = N - 1
        /\ \A j \in 1..(N - 1) :
             RemoveAt(children[s0], p)[j] =
               IF j < p THEN children[s0][j] ELSE children[s0][j + 1]
    BY <1>3, RemoveAtFacts
  <2>3. /\ children' \in [Spawners -> Seq(Lasers \cup {Null})]
        /\ \A s \in Spawners : s # s0 => children'[s] = children[s]
        /\ Len(children'[s0]) = N - 1
        /\ DOMAIN children'[s0] = 1..(N - 1)
        /\ \A j \in 1..(N - 1) :
             children'[s0][j] = children[s0][IF j < p THEN j ELSE j + 1]
    BY <1>3, <2>1, <2>2
  <2> DEFINE old(s, j) == IF s = s0 /\ j >= p THEN j + 1 ELSE j
  <2>4. ASSUME NEW s \in Spawners, NEW j \in DOMAIN children'[s]
        PROVE  /\ old(s, j) \in DOMAIN children[s]
               /\ children'[s][j] = children[s][old(s, j)]
               /\ j \in Int
    <3>1. CASE s # s0
      BY <3>1, <1>3, <2>3
    <3>2. CASE s = s0
      <4>1. j \in 1..(N - 1) /\ DOMAIN children[s0] = 1..N
        BY <3>2, <1>3, <2>3
      <4>2. old(s, j) = IF j < p THEN j ELSE j + 1
        BY <3>2, <4>1, <1>3
      <4>3. old(s, j) \in 1..N
        BY <4>1, <4>2, <1>3
      <4>4. children'[s0][j] = children[s0][old(s, j)]
        BY <4>1, <4>2, <2>3
      <4> QED BY <3>2, <4>1, <4>3, <4>4
    <3> QED BY <3>1, <3>2
  <2> HIDE DEF old
  <2>5. TypeOK'
    BY <1>1, <1>2, <1>3, <2>3 DEF TypeOK
  <2>6. ListedBeams'
    BY <1>1, <1>2, <1>3, <1>7, <2>4 DEF ListedBeams, TypeOK
  <2>7. ListedOnce'
    <3> SUFFICES ASSUME NEW s \in Spawners, NEW i \in DOMAIN children'[s],
                        NEW j \in DOMAIN children'[s],
                        children'[s][i] = children'[s][j], children'[s][i] # Null
                 PROVE  i = j
      BY DEF ListedOnce
    <3>1. old(s, i) = old(s, j)
      BY <1>1, <2>4 DEF ListedOnce
    <3> QED BY <3>1, <2>4, <1>3 DEF old
  <2>8. LiveListed'
    <3> SUFFICES ASSUME NEW x \in Lasers, life'[x] = "live"
                 PROVE  /\ owner'[x] \in Spawners
                        /\ \E i \in DOMAIN children'[owner'[x]] : children'[owner'[x]][i] = x
      BY DEF LiveListed, Live
    <3>1. x \in Live /\ x \notin killed /\ x # c
      BY <1>7, <2>1 DEF Live
    <3>2. PICK i \in DOMAIN children[owner[x]] : children[owner[x]][i] = x
      BY <3>1, <1>1 DEF LiveListed
    <3>3. owner[x] \in Spawners /\ owner'[x] = owner[x]
      BY <3>1, <1>1, <1>2 DEF LiveListed
    <3>4. CASE owner[x] # s0
      BY <3>2, <3>3, <3>4, <2>3
    <3>5. CASE owner[x] = s0
      <4>1. i # p /\ i \in 1..N
        BY <3>1, <3>2, <3>5, <1>3
      <4>2. CASE i < p
        <5>1. i \in 1..(N - 1) /\ children'[s0][i] = x
          BY <4>1, <4>2, <3>2, <3>5, <1>3, <2>3
        <5> QED BY <5>1, <3>3, <3>5, <2>3
      <4>3. CASE i > p
        <5>1. i - 1 \in 1..(N - 1) /\ ~(i - 1 < p) /\ (i - 1) + 1 = i
          BY <4>1, <4>3, <1>3
        <5>2. children'[s0][i - 1] = x
          BY <5>1, <3>2, <3>5, <2>3
        <5> QED BY <5>1, <5>2, <3>3, <3>5, <2>3
      <4> QED BY <4>1, <4>2, <4>3, <1>3
    <3> QED BY <3>4, <3>5
  <2>9. SweepInList'
    BY <1>1, <1>2, <1>3, <1>7, <2>3 DEF SweepInList
  <2>10. Held'
    BY <1>1, <1>2, <1>7 DEF Held, TypeOK
  <2>11. RootKept'
    <3> SUFFICES ASSUME NEW s \in Spawners
                 PROVE  /\ Len(children'[s]) > 0 /\ children'[s][1] \in Lasers
                        /\ life'[children'[s][1]] = "live"
                        /\ owner'[children'[s][1]] = s /\ path'[children'[s][1]] = <<>>
      BY DEF RootKept, Live
    <3>1. /\ Len(children[s]) > 0 /\ children[s][1] \in Lasers
          /\ life[children[s][1]] = "live"
          /\ owner[children[s][1]] = s /\ path[children[s][1]] = <<>>
      BY <1>1 DEF RootKept, Live
    <3>2. children[s][1] \notin killed
      BY <3>1, <1>6
    <3>3. s = s0 => p > 1
      BY <3>1, <3>2, <2>1, <1>3
    <3>4. Len(children'[s]) > 0 /\ children'[s][1] = children[s][1]
      <4>1. CASE s = s0
        <5>1. 1 \in 1..(N - 1)
          BY <4>1, <3>3, <1>3
        <5> QED BY <4>1, <5>1, <3>3, <1>3, <2>3
      <4> QED BY <4>1, <3>1, <2>3
    <3> QED BY <3>1, <3>2, <3>4, <1>2, <1>7
  <2> QED BY <2>5, <2>6, <2>7, <2>8, <2>9, <2>10, <2>11 DEF RegInv
<1> QED BY <1>8, <1>9

(* The garbage collector nulls list entries and forgets destroyed beams.   *)
LEMMA CollectReg ==
  ASSUME RegInv, Collect
  PROVE  RegInv'
<1>1. TypeOK /\ ListedBeams /\ ListedOnce /\ LiveListed /\ SweepInList /\ Held /\ RootKept
  BY DEF RegInv
<1>2. /\ sweep = <<>> /\ sweep' = <<>> /\ crashed' = crashed
      /\ life'   = [l \in Lasers |-> IF l \in Dead THEN "free" ELSE life[l]]
      /\ owner'  = [l \in Lasers |-> IF l \in Dead THEN Null ELSE owner[l]]
      /\ path'   = [l \in Lasers |-> IF l \in Dead THEN <<>> ELSE path[l]]
      /\ sight'  = [l \in Lasers |-> IF l \in Dead THEN Miss ELSE sight[l]]
      /\ last'   = [l \in Lasers |-> IF l \in Dead \/ last[l] \in Wreck THEN Null ELSE last[l]]
      /\ bounce' = [l \in Lasers |-> IF l \in Dead THEN Null ELSE Alive(bounce[l])]
      /\ device' = [d \in Splits |-> IF d \in Wreck THEN "free" ELSE device[d]]
      /\ active' = [d \in Splits \cup Targets |-> active[d] /\ d \notin Wreck]
      /\ attached' = [d \in Bouncers |-> IF d \in Wreck THEN {} ELSE attached[d] \ Dead]
      /\ children' = [s \in Spawners |->
                        [i \in 1..Len(children[s]) |-> Alive(children[s][i])]]
  BY DEF Collect, Idle
<1>3. /\ \A x \in Lasers : x \in Dead <=> life[x] = "dead"
      /\ Dead \subseteq Lasers /\ Null \notin Lasers
      /\ \A x : x \notin Dead => Alive(x) = x
      /\ \A x \in Dead : Alive(x) = Null
  BY LaserAssumption DEF Dead, Alive
<1>4. /\ \A x \in Lasers : x \notin Dead =>
           life'[x] = life[x] /\ owner'[x] = owner[x] /\ path'[x] = path[x]
      /\ \A x \in Lasers : life'[x] = "live" => life[x] = "live" /\ x \notin Dead
  BY <1>2, <1>3
<1>5. /\ children \in [Spawners -> Seq(Lasers \cup {Null})]
      /\ \A s \in Spawners :
           /\ DOMAIN children[s] = 1..Len(children[s]) /\ Len(children[s]) \in Nat
           /\ \A i \in DOMAIN children[s] : children[s][i] \in Lasers \cup {Null}
  BY <1>1 DEF TypeOK
<1>6. ASSUME NEW s \in Spawners
      PROVE  /\ children'[s] \in Seq(Lasers \cup {Null})
             /\ Len(children'[s]) = Len(children[s])
             /\ DOMAIN children'[s] = DOMAIN children[s]
             /\ \A i \in DOMAIN children[s] : children'[s][i] = Alive(children[s][i])
  <2>1. children'[s] = [i \in 1..Len(children[s]) |-> Alive(children[s][i])]
    BY <1>2
  <2>2. \A i \in 1..Len(children[s]) : Alive(children[s][i]) \in Lasers \cup {Null}
    BY <1>5 DEF Alive
  <2> QED BY <2>1, <2>2, <1>5
<1>7. TypeOK'
  <2>1. life' \in [Lasers -> {"free", "live", "dead"}]
    BY <1>1, <1>2 DEF TypeOK
  <2>2. /\ owner' \in [Lasers -> Spawners \cup {Null}]
        /\ path' \in [Lasers -> Seq(Tags)]
        /\ sight' \in [Lasers -> Devices \cup {Wall, Miss}]
        /\ last' \in [Lasers -> Devices \cup {Wall, Null}]
    BY <1>1, <1>2 DEF TypeOK
  <2>3. bounce' \in [Lasers -> Lasers \cup {Null}]
    BY <1>1, <1>2 DEF TypeOK, Alive
  <2>4. /\ device' \in [Splits -> {"free", "live", "dead"}]
        /\ active' \in [Splits \cup Targets -> BOOLEAN]
        /\ attached' \in [Bouncers -> SUBSET Lasers]
    BY <1>1, <1>2 DEF TypeOK
  <2>5. children' \in [Spawners -> Seq(Lasers \cup {Null})]
    BY <1>2, <1>6
  <2> QED BY <2>1, <2>2, <2>3, <2>4, <2>5, <1>1, <1>2 DEF TypeOK
<1>8. ListedBeams' /\ ListedOnce'
  <2>1. ASSUME NEW s \in Spawners, NEW i \in DOMAIN children'[s], children'[s][i] # Null
        PROVE  /\ children'[s][i] = children[s][i]
               /\ children[s][i] \in Lasers /\ children[s][i] \notin Dead
    BY <2>1, <1>3, <1>5, <1>6
  <2>2. ListedBeams'
    BY <2>1, <1>1, <1>4, <1>6 DEF ListedBeams
  <2>3. ListedOnce'
    <3> SUFFICES ASSUME NEW s \in Spawners, NEW i \in DOMAIN children'[s],
                        NEW j \in DOMAIN children'[s],
                        children'[s][i] = children'[s][j], children'[s][i] # Null
                 PROVE  i = j
      BY DEF ListedOnce
    <3>1. children[s][i] = children[s][j] /\ children[s][i] # Null
      BY <2>1
    <3> QED BY <3>1, <1>1, <1>6 DEF ListedOnce
  <2> QED BY <2>2, <2>3
<1>9. LiveListed'
  <2> SUFFICES ASSUME NEW x \in Lasers, life'[x] = "live"
               PROVE  /\ owner'[x] \in Spawners
                      /\ \E i \in DOMAIN children'[owner'[x]] : children'[owner'[x]][i] = x
    BY DEF LiveListed, Live
  <2>1. x \in Live /\ x \notin Dead /\ owner'[x] = owner[x]
    BY <1>4 DEF Live
  <2>2. PICK i \in DOMAIN children[owner[x]] : children[owner[x]][i] = x
    BY <2>1, <1>1 DEF LiveListed
  <2>3. owner[x] \in Spawners
    BY <2>1, <1>1 DEF LiveListed
  <2> QED BY <2>1, <2>2, <2>3, <1>3, <1>6
<1>10. SweepInList'
  BY <1>2 DEF SweepInList
<1>11. Held'
  <2> SUFFICES ASSUME NEW d \in Bouncers, NEW a \in attached'[d]
               PROVE  life'[a] # "free" /\ path'[a] # <<>>
    BY DEF Held
  <2>1. a \in attached[d] /\ a \notin Dead /\ a \in Lasers
    BY <1>1, <1>2 DEF TypeOK
  <2> QED BY <2>1, <1>1, <1>4 DEF Held
<1>12. RootKept'
  <2> SUFFICES ASSUME NEW s \in Spawners
               PROVE  /\ Len(children'[s]) > 0 /\ children'[s][1] \in Lasers
                      /\ life'[children'[s][1]] = "live"
                      /\ owner'[children'[s][1]] = s /\ path'[children'[s][1]] = <<>>
    BY DEF RootKept, Live
  <2>1. /\ Len(children[s]) > 0 /\ children[s][1] \in Lasers
        /\ life[children[s][1]] = "live"
        /\ owner[children[s][1]] = s /\ path[children[s][1]] = <<>>
    BY <1>1 DEF RootKept, Live
  <2>2. children[s][1] \notin Dead /\ 1 \in DOMAIN children[s]
    BY <2>1, <1>3, <1>5
  <2>3. Len(children'[s]) > 0 /\ children'[s][1] = children[s][1]
    BY <2>1, <2>2, <1>3, <1>6
  <2> QED BY <2>1, <2>2, <2>3, <1>4
<1> QED BY <1>7, <1>8, <1>9, <1>10, <1>11, <1>12 DEF RegInv

LEMMA InitReg == Init => RegInv
<1> SUFFICES ASSUME Init  PROVE RegInv
  OBVIOUS
<1>1. PICK root \in [Spawners -> Lasers] :
        /\ \A s, t \in Spawners : s # t => root[s] # root[t]
        /\ owner \in [Lasers -> Spawners \cup {Null}]
        /\ \A l \in Lasers, s \in Spawners : owner[l] = s <=> root[s] = l
        /\ life = [l \in Lasers |-> IF owner[l] = Null THEN "free" ELSE "live"]
        /\ path = [l \in Lasers |-> <<>>]
        /\ sight = [l \in Lasers |-> Miss]
        /\ last = [l \in Lasers |-> Null]
        /\ bounce = [l \in Lasers |-> Null]
        /\ device = [d \in Splits |-> "free"]
        /\ active = [d \in Splits \cup Targets |-> FALSE]
        /\ attached = [d \in Bouncers |-> {}]
        /\ children = [s \in Spawners |-> <<root[s]>>]
        /\ sweep = <<>>
        /\ crashed = FALSE
  BY DEF Init
<1>2. TypeOK
  <2>1. /\ life \in [Lasers -> {"free", "live", "dead"}]
        /\ path \in [Lasers -> Seq(Tags)]
        /\ sight \in [Lasers -> Devices \cup {Wall, Miss}]
    BY <1>1
  <2>2. /\ last \in [Lasers -> Devices \cup {Wall, Null}]
        /\ bounce \in [Lasers -> Lasers \cup {Null}]
    BY <1>1
  <2>3. /\ device \in [Splits -> {"free", "live", "dead"}]
        /\ active \in [Splits \cup Targets -> BOOLEAN]
        /\ attached \in [Bouncers -> SUBSET Lasers]
    BY <1>1
  <2>4. children \in [Spawners -> Seq(Lasers \cup {Null})]
    <3>1. \A s \in Spawners : <<root[s]>> \in Seq(Lasers \cup {Null})
      OBVIOUS
    <3> QED BY <1>1, <3>1
  <2> QED BY <1>1, <2>1, <2>2, <2>3, <2>4 DEF TypeOK
<1>3. \A s \in Spawners : /\ DOMAIN children[s] = {1} /\ children[s][1] = root[s]
                          /\ Len(children[s]) = 1
                          /\ root[s] \in Lasers /\ owner[root[s]] = s
  BY <1>1
<1>4. \A s \in Spawners : life[root[s]] = "live"
  BY <1>1, <1>3, LaserAssumption
<1>5. ListedBeams /\ RootKept
  <2>1. ListedBeams
    BY <1>1, <1>3, <1>4 DEF ListedBeams
  <2>2. \A s \in Spawners : path[root[s]] = <<>>
    BY <1>1, <1>3
  <2>3. RootKept
    BY <1>3, <1>4, <2>2 DEF RootKept, Live
  <2> QED BY <2>1, <2>3
<1>6. ListedOnce /\ LiveListed /\ SweepInList /\ Held
  BY <1>1, <1>3 DEF ListedOnce, LiveListed, SweepInList, Held, Live
<1> QED BY <1>2, <1>5, <1>6 DEF RegInv

LEMMA NextReg == RegInv /\ [Next]_vars => RegInv'
<1> SUFFICES ASSUME RegInv, [Next]_vars  PROVE RegInv'
  OBVIOUS
<1>0. TypeOK /\ LiveListed /\ SweepInList
  BY DEF RegInv
<1>1. ASSUME NEW l \in Lasers, TickArrive(l)  PROVE RegInv'
  <2>1. owner[l] \in Spawners
    BY <1>0, <1>1 DEF TickArrive, LiveListed, Live
  <2>2. sweep' = <<>>
    BY <1>1 DEF TickArrive, Idle
  <2> QED BY <1>1, <2>1, <2>2, ArriveReg DEF TickArrive
<1>2. ASSUME NEW l \in Lasers, TickLeave(l)  PROVE RegInv'
  <2>1. owner[l] \in Spawners /\ life[l] = "live"
    BY <1>0, <1>2 DEF TickLeave, LiveListed, Live
  <2>2. Len(children[owner[l]]) \in Nat
    BY <2>1, <1>0 DEF TypeOK
  <2>3. sweep' = <<l, Len(children[owner[l]])>> /\ UNCHANGED <<beamVars, deviceVars, children, crashed>>
    BY <1>2 DEF TickLeave
  <2>4. TypeOK'
    BY <2>2, <2>3, <1>0 DEF TypeOK, beamVars, deviceVars
  <2>5. SweepInList'
    BY <2>1, <2>2, <2>3 DEF SweepInList, beamVars
  <2> QED BY <2>3, <2>4, <2>5, RegFrame DEF beamVars, deviceVars
<1>3. ASSUME NEW l \in Lasers, TickLost(l)  PROVE RegInv'
  <2>1. owner[l] \in Spawners
    BY <1>0, <1>3 DEF TickLost, LiveListed, Live
  <2>2. sweep' = <<>> /\ Respond(l, last[l]) /\ UNCHANGED <<last, device, crashed>>
    BY <1>3 DEF TickLost, Idle
  <2>3. TypeOK'
    BY <2>2, <1>0, RespondType DEF TypeOK
  <2>4. SweepInList'
    BY <2>2 DEF SweepInList
  <2> QED BY <2>1, <2>2, <2>3, <2>4, RespondReg DEF RegInv
<1>4. ASSUME NEW l \in Lasers, TickCrash(l)  PROVE RegInv'
  <2>1. TypeOK' /\ SweepInList'
    BY <1>0, <1>4 DEF TickCrash, TypeOK, SweepInList, beamVars, deviceVars
  <2> QED BY <2>1, <1>4, RegFrame DEF TickCrash, beamVars, deviceVars
<1>5. ASSUME SweepSkip  PROVE RegInv'
  <2>1. /\ sweep \in Lasers \X Nat /\ sweep[2] > 0 /\ sweep' = <<sweep[1], sweep[2] - 1>>
        /\ UNCHANGED <<beamVars, deviceVars, children, crashed>>
    BY <1>0, <1>5, SweepType DEF SweepSkip
  <2>2. TypeOK'
    BY <2>1, <1>0 DEF TypeOK, beamVars, deviceVars
  <2>3. SweepInList'
    <3>1. /\ owner[sweep[1]] \in Spawners /\ life[sweep[1]] # "free"
          /\ sweep[2] <= Len(children[owner[sweep[1]]])
      BY <1>0, <1>5 DEF SweepSkip, SweepInList
    <3>2. Len(children[owner[sweep[1]]]) \in Nat
      BY <3>1, <1>0 DEF TypeOK
    <3>3. sweep[2] - 1 <= Len(children[owner[sweep[1]]])
      BY <2>1, <3>1, <3>2
    <3> QED BY <2>1, <3>1, <3>3 DEF SweepInList, beamVars
  <2> QED BY <2>1, <2>2, <2>3, RegFrame DEF beamVars, deviceVars
<1>6. ASSUME SweepDone  PROVE RegInv'
  <2>1. sweep[1] \in Lasers /\ owner[sweep[1]] \in Spawners
    BY <1>0, <1>6, SweepType DEF SweepDone, SweepInList
  <2> QED BY <1>6, <2>1, ArriveReg DEF SweepDone
<1>7. ASSUME NEW l \in Lasers, Aim(l)  PROVE RegInv'
  <2>1. PICK h \in Views(Sources(l), Len(path[l])) : sight' = [sight EXCEPT ![l] = h]
    BY <1>7 DEF Aim
  <2>2. h \in Devices \cup {Wall, Miss}
    BY <2>1 DEF Views, Devices, Bouncers
  <2>3. UNCHANGED <<life, owner, path, last, bounce, deviceVars, children, sweep, crashed>>
    BY <1>7 DEF Aim
  <2>4. TypeOK' /\ SweepInList'
    BY <1>0, <2>1, <2>2, <2>3 DEF TypeOK, SweepInList, deviceVars
  <2> QED BY <2>3, <2>4, RegFrame DEF deviceVars
<1>8. ASSUME NEW d \in Splits, SplitAppears(d)  PROVE RegInv'
  <2>1. TypeOK' /\ SweepInList'
    BY <1>0, <1>8 DEF SplitAppears, TypeOK, SweepInList, beamVars
  <2> QED BY <2>1, <1>8, RegFrame DEF SplitAppears, beamVars
<1>9. ASSUME NEW d \in Splits, SplitFalls(d)  PROVE RegInv'
  <2>1. TypeOK' /\ SweepInList'
    BY <1>0, <1>9 DEF SplitFalls, TypeOK, SweepInList
  <2> QED BY <2>1, <1>9, RegFrame DEF SplitFalls
<1>10. CASE UNCHANGED vars
  <2>1. TypeOK' /\ SweepInList'
    BY <1>0, <1>10 DEF vars, TypeOK, SweepInList
  <2> QED BY <2>1, <1>10, RegFrame DEF vars
<1> QED
  BY <1>1, <1>2, <1>3, <1>4, <1>5, <1>6, <1>7, <1>8, <1>9, <1>10, CancelReg, CollectReg
  DEF Next, Tick, Sweep, World

(* RegInv gives the property the run checks.                               *)
LEMMA RegImpliesRegistered == RegInv => Registered
<1> SUFFICES ASSUME RegInv, NEW l \in Live
             PROVE  /\ owner[l] \in Spawners
                    /\ \E i \in DOMAIN children[owner[l]] :
                         \A s \in Spawners : \A j \in DOMAIN children[s] :
                           children[s][j] = l <=> s = owner[l] /\ j = i
  BY DEF Registered
<1>1. ListedBeams /\ ListedOnce /\ LiveListed /\ l # Null
  BY LaserAssumption DEF RegInv, Live
<1>2. owner[l] \in Spawners
  BY <1>1 DEF LiveListed
<1>3. PICK i \in DOMAIN children[owner[l]] : children[owner[l]][i] = l
  BY <1>1 DEF LiveListed
<1>4. ASSUME NEW s \in Spawners, NEW j \in DOMAIN children[s]
      PROVE  children[s][j] = l <=> s = owner[l] /\ j = i
  BY <1>1, <1>2, <1>3 DEF ListedBeams, ListedOnce
<1> QED BY <1>2, <1>3, <1>4

(* The beams, devices and lists keep their types, whatever the level.      *)
THEOREM TypeCorrect == Spec => []TypeOK
<1>1. RegInv => TypeOK
  BY DEF RegInv
<1> QED BY <1>1, InitReg, NextReg, PTL DEF Spec

(* No live beam is ever lost from, duplicated in or moved between the      *)
(* ChildLasers lists, with any number of mirrors and splitters, through    *)
(* cancellations, collections and splitters that come and go.              *)
THEOREM EveryBeamRegistered == Spec => []Registered
BY InitReg, NextReg, RegImpliesRegistered, PTL DEF Spec

(* No chain of events destroys the beam that a spawner created in          *)
(* BeginPlay: it stays live and first of its list.                         *)
THEOREM RootSurvives == Spec => []RootKept
<1>1. RegInv => RootKept
  BY DEF RegInv
<1> QED BY <1>1, InitReg, NextReg, PTL DEF Spec
=============================================================================
