-------------------------- MODULE LaserChain_proofs --------------------------
(* Proofs about LaserNetwork in a Plain level, one without splitters and   *)
(* with names that do not contain each other: for every number of lasers,  *)
(* spawners, mirrors and targets, the beams of a spawner are the chain that*)
(* its mirrors make, and what rests on that.                               *)
EXTENDS LaserNetwork_proofs

-----------------------------------------------------------------------------
(* IDs of a chain                                                          *)

LEMMA LettersType ==
  ASSUME NEW n \in Nat
  PROVE  Letters(n) \in Seq(Tags) /\ Len(Letters(n)) = n
BY DEF Letters, Tags

LEMMA LettersGrow ==
  ASSUME NEW n \in Nat
  PROVE  Append(Letters(n), "B") = Letters(n + 1)
<1>1. /\ Letters(n) \in Seq(Tags) /\ Len(Letters(n)) = n
      /\ Letters(n + 1) \in Seq(Tags) /\ Len(Letters(n + 1)) = n + 1
  BY LettersType
<1>2. "B" \in Tags
  BY DEF Tags
<1>3. /\ Append(Letters(n), "B") \in Seq(Tags)
      /\ Len(Append(Letters(n), "B")) = n + 1
      /\ \A i \in 1..n : Append(Letters(n), "B")[i] = Letters(n)[i]
      /\ Append(Letters(n), "B")[n + 1] = "B"
  BY <1>1, <1>2, AppendProperties
<1>4. \A i \in 1..(n + 1) : Append(Letters(n), "B")[i] = Letters(n + 1)[i]
  <2> TAKE i \in 1..(n + 1)
  <2>1. Letters(n + 1)[i] = "B"
    BY DEF Letters
  <2>2. i \in 1..n => Letters(n)[i] = "B"
    BY DEF Letters
  <2> QED BY <1>3, <2>1, <2>2
<1> QED BY <1>1, <1>3, <1>4, SeqEqual

(* A beam of the chain follows from another when it is not before it.      *)
LEMMA LettersPrefix ==
  ASSUME NEW m \in Nat, NEW n \in Nat
  PROVE  IsPrefix(Letters(m), Letters(n)) <=> m <= n
<1>1. Len(Letters(m)) = m /\ Len(Letters(n)) = n
  BY LettersType
<1>2. \A i \in 1..m : Letters(m)[i] = "B"
  BY DEF Letters
<1>3. \A i \in 1..n : Letters(n)[i] = "B"
  BY DEF Letters
<1> QED BY <1>1, <1>2, <1>3, LettersType DEF IsPrefix

LEMMA LettersFront ==
  ASSUME NEW n \in Nat
  PROVE  Front(Letters(n + 1)) = Letters(n)
<1>1. Letters(n + 1) \in Seq(Tags) /\ Len(Letters(n + 1)) = n + 1
  BY LettersType
<1>2. /\ Front(Letters(n + 1)) \in Seq(Tags) /\ Len(Front(Letters(n + 1))) = n
      /\ \A i \in 1..n : Front(Letters(n + 1))[i] = Letters(n + 1)[i]
  BY <1>1 DEF Front
<1>3. \A i \in 1..n : Letters(n + 1)[i] = "B" /\ Letters(n)[i] = "B"
  BY DEF Letters
<1>4. Letters(n) \in Seq(Tags) /\ Len(Letters(n)) = n
  BY LettersType
<1> HIDE DEF Letters
<1> QED BY <1>1, <1>2, <1>3, <1>4, SeqEqual

-----------------------------------------------------------------------------
(* What the invariants say of one beam                                     *)

(* In a Plain level only mirrors bounce beams, every actor a beam can hit  *)
(* stays valid, and one ID contains another only within a spawner.         *)
LEMMA PlainFacts ==
  ASSUME Plain, TypeOK
  PROVE  /\ Bouncers = Mirrors /\ Splits = {} /\ Null \notin Devices
         /\ \A h \in Devices \cup {Wall} : IsValid(h)
         /\ \A l \in Lasers : Hit(l) \in Devices \cup {Wall, Null}
         /\ \A l \in Lasers : last[l] \in Devices => Hit(l) \in Devices \cup {Wall}
         /\ \A a, b \in Lasers :
              IDContains(a, b) <=> owner[a] = owner[b] /\ IsPrefix(path[b], path[a])
<1>1. NameWithin = {} /\ NameEnds = {} /\ Splits = {}
  BY LaserAssumption DEF Plain
<1>2. Bouncers = Mirrors /\ Null \notin Devices
  BY <1>1, LaserAssumption DEF Bouncers
<1>3. \A h \in Devices \cup {Wall} : IsValid(h)
  BY <1>1 DEF IsValid, Devices, Bouncers
<1>3a. \A l \in Lasers : Hit(l) \in Devices \cup {Wall, Null}
  BY DEF Hit, TypeOK
<1>4. \A l \in Lasers : last[l] \in Devices => Hit(l) \in Devices \cup {Wall}
  BY DEF Hit, TypeOK
<1>5. \A a, b \in Lasers :
        IDContains(a, b) <=> owner[a] = owner[b] /\ IsPrefix(path[b], path[a])
  BY <1>1 DEF IDContains
<1> QED BY <1>1, <1>2, <1>3, <1>3a, <1>4, <1>5

(* Every live beam has its place in the chain of its spawner.              *)
LEMMA InChain ==
  ASSUME RegInv, ChainInv, NEW l \in Live
  PROVE  /\ owner[l] \in Spawners
         /\ Len(path[l]) + 1 \in 1..Tip(owner[l])
         /\ children[owner[l]][Len(path[l]) + 1] = l
         /\ path[l] = Letters(Len(path[l])) /\ Len(path[l]) \in Nat
         /\ Tip(owner[l]) \in Nat
<1>1. owner[l] \in Spawners
  BY DEF RegInv, LiveListed
<1>2. PICK i \in DOMAIN children[owner[l]] : children[owner[l]][i] = l
  BY DEF RegInv, LiveListed
<1>3. children[owner[l]] \in Seq(Lasers \cup {Null})
  BY <1>1 DEF RegInv, TypeOK
<1>4. i \in 1..Tip(owner[l]) /\ Tip(owner[l]) \in Nat
  BY <1>2, <1>3 DEF Tip
<1>5. path[l] = Letters(i - 1)
  BY <1>1, <1>2, <1>4 DEF ChainInv, ChainOf
<1>6. Len(path[l]) = i - 1
  BY <1>4, <1>5, LettersType
<1> QED BY <1>1, <1>2, <1>4, <1>5, <1>6

(* ... and everything in a chain is a live beam of its spawner.            *)
LEMMA OfChain ==
  ASSUME RegInv, ChainInv, NEW s \in Spawners, NEW i \in 1..Tip(s)
  PROVE  /\ children[s][i] \in Live /\ children[s][i] \in Lasers
         /\ owner[children[s][i]] = s
         /\ path[children[s][i]] = Letters(i - 1)
         /\ Len(path[children[s][i]]) = i - 1
         /\ Tip(s) \in Nat /\ i \in DOMAIN children[s]
<1>1. children[s] \in Seq(Lasers \cup {Null})
  BY DEF RegInv, TypeOK
<1>2. Tip(s) \in Nat /\ i \in DOMAIN children[s]
  BY <1>1 DEF Tip
<1>3. children[s][i] \in Live /\ path[children[s][i]] = Letters(i - 1)
  BY DEF ChainInv, ChainOf
<1>4. children[s][i] \in Lasers /\ children[s][i] # Null
  BY <1>3, LaserAssumption DEF Live
<1>5. owner[children[s][i]] = s
  BY <1>2, <1>4 DEF RegInv, ListedBeams
<1>6. Len(path[children[s][i]]) = i - 1
  BY <1>2, <1>3, LettersType
<1> QED BY <1>2, <1>3, <1>4, <1>5, <1>6

(* Two live beams of one spawner: which follows from which.                *)
LEMMA ChainContains ==
  ASSUME Plain, RegInv, ChainInv, NEW a \in Live, NEW b \in Live
  PROVE  /\ IDContains(a, b) <=> owner[a] = owner[b] /\ Len(path[b]) <= Len(path[a])
         /\ SameID(a, b) <=> a = b
         /\ owner[a] = owner[b] /\ Len(path[b]) = Len(path[a]) => a = b
<1>1. a \in Lasers /\ b \in Lasers /\ TypeOK
  BY DEF Live, RegInv
<1>2. /\ path[a] = Letters(Len(path[a])) /\ Len(path[a]) \in Nat
      /\ path[b] = Letters(Len(path[b])) /\ Len(path[b]) \in Nat
      /\ children[owner[a]][Len(path[a]) + 1] = a
      /\ children[owner[b]][Len(path[b]) + 1] = b
  BY InChain
<1>3. IsPrefix(path[b], path[a]) <=> Len(path[b]) <= Len(path[a])
  BY <1>2, LettersPrefix
<1>4. IDContains(a, b) <=> owner[a] = owner[b] /\ IsPrefix(path[b], path[a])
  BY <1>1, PlainFacts
<1>5. owner[a] = owner[b] /\ Len(path[b]) = Len(path[a]) => a = b
  BY <1>2
<1> QED BY <1>3, <1>4, <1>5 DEF SameID

-----------------------------------------------------------------------------
(* The invariants imply the properties                                     *)

LEMMA ChainUnique ==
  ASSUME Plain, RegInv, ChainInv
  PROVE  UniqueID
BY ChainContains DEF UniqueID

LEMMA ChainServed ==
  ASSUME Plain, RegInv, ChainInv
  PROVE  MirrorServed
<1> SUFFICES ASSUME NEW l \in Live, last[l] \in Mirrors, ~Swept(l)
             PROVE  /\ bounce[l] \in Live /\ bounce[l] \in attached[last[l]]
                    /\ owner[bounce[l]] = owner[l]
                    /\ path[bounce[l]] = Append(path[l], "B")
  BY DEF MirrorServed
<1> DEFINE s == owner[l]
           i == Len(path[l]) + 1
<1>1. /\ s \in Spawners /\ i \in 1..Tip(s) /\ children[s][i] = l /\ Tip(s) \in Nat
      /\ path[l] = Letters(i - 1)
  BY InChain
<1>2. i # Tip(s)
  <2> SUFFICES ASSUME i = Tip(s)  PROVE FALSE
    OBVIOUS
  <2>1. sweep # <<>> /\ owner[sweep[1]] = s
    BY <1>1 DEF ChainInv, TailOff
  <2>2. sweep[1] \in Live /\ Place <= Tip(s)
    BY <2>1 DEF ChainInv, SweepChain
  <2>3. Len(path[sweep[1]]) \in Nat /\ Len(path[sweep[1]]) <= Len(path[l])
    BY <2>1, <2>2, <1>1, InChain DEF Place
  <2>4. IDContains(l, sweep[1])
    BY <2>1, <2>2, <2>3, ChainContains
  <2> QED BY <2>1, <2>4 DEF Swept
<1>3. i < Tip(s) /\ i + 1 \in 1..Tip(s) /\ (i + 1) - 1 = (i - 1) + 1 /\ i - 1 \in Nat
  BY <1>1, <1>2
<1>4. bounce[l] = children[s][i + 1] /\ children[s][i + 1] \in attached[last[l]]
  BY <1>1, <1>3 DEF ChainInv, ChainOf, Linked
<1>5. /\ children[s][i + 1] \in Live /\ owner[children[s][i + 1]] = s
      /\ path[children[s][i + 1]] = Letters((i - 1) + 1)
  BY <1>1, <1>3, OfChain
<1>6. Append(path[l], "B") = Letters((i - 1) + 1)
  BY <1>1, <1>3, LettersGrow
<1> QED BY <1>4, <1>5, <1>6

(* The beam that l follows from has the mirror where l starts as its       *)
(* LastHitActor, settled or not.                                           *)
LEMMA ChainHeld ==
  ASSUME Plain, RegInv, ChainInv, NEW l \in Live, path[l] # <<>>
  PROVE  \E p \in Live : last[p] \in Bouncers /\ Follows(l, p, last[p])
<1> DEFINE s == owner[l]
           n == Len(path[l])
<1>1. /\ s \in Spawners /\ n + 1 \in 1..Tip(s) /\ children[s][n + 1] = l
      /\ Tip(s) \in Nat /\ n \in Nat /\ path[l] = Letters(n)
  BY InChain
<1>2. n # 0
  BY DEF RegInv, TypeOK, Live
<1>3. n \in 1..Tip(s) /\ n < Tip(s) /\ n - 1 \in Nat /\ (n - 1) + 1 = n
  BY <1>1, <1>2
<1>4. /\ children[s][n] \in Live /\ owner[children[s][n]] = s
      /\ path[children[s][n]] = Letters(n - 1)
  BY <1>1, <1>3, OfChain
<1>5. last[children[s][n]] \in Mirrors /\ l \in attached[last[children[s][n]]]
  BY <1>1, <1>3 DEF ChainInv, ChainOf, Linked
<1>6. last[children[s][n]] \in Bouncers /\ last[children[s][n]] \in Sources(l)
  BY <1>5 DEF Sources, Bouncers
<1>7. Front(path[l]) = Letters(n - 1)
  BY <1>1, <1>3, LettersFront
<1> QED BY <1>4, <1>6, <1>7 DEF Follows

(* A settled beam sees its LastHitActor, or misses.                        *)
LEMMA SettledSight ==
  ASSUME Settled, NEW l \in Live
  PROVE  /\ Sees(l, last[l]) \/ Lingers(l, last[l])
         /\ \A d : Sees(l, d) \/ Lingers(l, d) => d = last[l] \/ d = Miss
BY DEF Settled, Hit, Sees, Lingers

LEMMA ChainNoOrphans ==
  ASSUME Plain, RegInv, ChainInv
  PROVE  NoOrphans
<1> SUFFICES ASSUME Settled, NEW l \in Live, path[l] # <<>>
             PROVE  \E p \in Live, d \in Bouncers :
                      Follows(l, p, d) /\ (Sees(p, d) \/ Lingers(p, d))
  BY DEF NoOrphans
<1>1. PICK p \in Live : last[p] \in Bouncers /\ Follows(l, p, last[p])
  BY ChainHeld
<1>2. Sees(p, last[p]) \/ Lingers(p, last[p])
  BY SettledSight
<1> QED BY <1>1, <1>2

-----------------------------------------------------------------------------
(* The steps                                                               *)

(* ChainInv of a step that changes no beam, no device and no list.         *)
LEMMA ChainFrame ==
  ASSUME ChainInv, UNCHANGED <<life, path, owner, last, bounce, active,
                               attached, children, crashed>>,
         SweepChain', TailOff', Forward'
  PROVE  ChainInv'
<1>1. \A s \in Spawners : ChainOf(s)'
  BY DEF ChainInv, ChainOf, Linked, Tip, Live
<1>2. Blank' /\ LitIsHit' /\ NeverCrashed'
  BY DEF ChainInv, Blank, LitIsHit, NeverCrashed, Live
<1> QED BY <1>1, <1>2 DEF ChainInv

(* What an answering device does to the chain of the last beam l: a mirror *)
(* adds one beam to it, a target and a wall leave it.                      *)
LEMMA ArriveShape ==
  ASSUME Plain, RegInv, NEW l \in Lasers, NEW h, Arrive(l, h)
  PROVE  /\ last' = [last EXCEPT ![l] = h] /\ crashed' = crashed
         /\ \/ /\ h \in Mirrors
               /\ \E b \in Free : Emit(l, h, "B", <<b>>)
                                 /\ bounce' = [bounce EXCEPT ![l] = b]
               /\ active' = active
            \/ /\ h \notin Mirrors
               /\ UNCHANGED <<life, owner, path, sight, attached, children>>
               /\ bounce' = [bounce EXCEPT ![l] = Null] \/ bounce' = bounce
               /\ \/ h \in Targets /\ active' = [active EXCEPT ![h] = TRUE]
                  \/ h = Wall /\ active' = active
<1>1. Splits = {} /\ Targets \cap Mirrors = {} /\ Wall \notin Mirrors
  BY LaserAssumption DEF Plain, Bouncers, Devices
<1>2. last' = [last EXCEPT ![l] = h] /\ crashed' = crashed
  BY DEF Arrive
<1>3. CASE Reflect(l, h)
  BY <1>2, <1>3 DEF Reflect
<1>4. CASE Light(l, h)
  BY <1>1, <1>2, <1>4 DEF Light
<1>5. CASE h = Wall /\ UNCHANGED <<life, owner, path, sight, bounce,
                                   active, attached, children>>
  BY <1>1, <1>2, <1>5
<1>6. CASE Split(l, h) \/ Ignore(l, h)
  BY <1>1, <1>6 DEF Split, Ignore
<1> QED BY <1>3, <1>4, <1>5, <1>6 DEF Arrive, Respond

LEMMA ArriveDark ==
  ASSUME Plain, RegInv, ChainInv, NEW l \in Live, NEW h, h = Hit(l), h \notin Mirrors,
         h \in Targets \/ h = Wall,
         children[owner[l]][Tip(owner[l])] = l,
         sweep = <<>> \/ owner[sweep[1]] = owner[l],
         last[l] \in Targets => ~active[last[l]],
         last' = [last EXCEPT ![l] = h], crashed' = crashed,
         UNCHANGED <<life, owner, path, sight, attached, children>>,
         bounce' = [bounce EXCEPT ![l] = Null] \/ bounce' = bounce,
         \/ h \in Targets /\ active' = [active EXCEPT ![h] = TRUE]
         \/ h = Wall /\ active' = active,
         sweep' = <<>>
  PROVE  ChainInv'
<1>1. /\ owner[l] \in Spawners /\ Tip(owner[l]) \in Nat /\ l \in Lasers /\ TypeOK
      /\ Tip(owner[l]) \in 1..Tip(owner[l])
  BY InChain DEF Live, RegInv
<1>2. /\ last'[l] = h
      /\ \A x \in Lasers : x # l => last'[x] = last[x] /\ bounce'[x] = bounce[x]
  BY <1>1 DEF TypeOK
<1>3. ASSUME NEW s \in Spawners  PROVE ChainOf(s)'
  <2> SUFFICES ASSUME NEW i \in 1..Tip(s)
               PROVE  /\ children[s][i] \in Live /\ path[children[s][i]] = Letters(i - 1)
                      /\ i < Tip(s) => Linked(s, i)'
    BY DEF ChainOf, Tip, Live
  <2>1. /\ children[s][i] \in Live /\ path[children[s][i]] = Letters(i - 1)
        /\ i < Tip(s) => Linked(s, i)
    BY DEF ChainInv, ChainOf
  <2>2. i < Tip(s) => children[s][i] # l
    <3> SUFFICES ASSUME i < Tip(s), children[s][i] = l  PROVE FALSE
      OBVIOUS
    <3>1. s = owner[l] /\ Len(path[l]) = i - 1 /\ Tip(s) \in Nat
      BY OfChain
    <3>2. Len(path[l]) = Tip(s) - 1
      BY <1>1, <3>1, OfChain
    <3> QED BY <3>1, <3>2
  <2>3. children[s][i] \in Lasers
    BY OfChain
  <2> QED BY <2>1, <2>2, <2>3, <1>2 DEF Linked
<1>4. TailOff'
  <2> SUFFICES ASSUME NEW s \in Spawners  PROVE last'[children[s][Tip(s)]] \notin Mirrors
    BY DEF TailOff, Tip
  <2>0. Tip(s) \in 1..Tip(s) /\ children[s][Tip(s)] \in Lasers
    <3>1. Len(children[s]) > 0 /\ children[s] \in Seq(Lasers \cup {Null})
      BY <1>1 DEF RegInv, RootKept, TypeOK
    <3>2. Tip(s) \in 1..Tip(s)
      BY <3>1 DEF Tip
    <3> QED BY <3>2, OfChain
  <2>1. CASE s = owner[l]
    BY <2>1, <1>2
  <2>2. CASE s # owner[l]
    <3>1. owner[children[s][Tip(s)]] = s
      BY <2>0, OfChain
    <3>2. last[children[s][Tip(s)]] \notin Mirrors
      BY <2>2 DEF ChainInv, TailOff
    <3> QED BY <2>0, <2>2, <3>1, <3>2, <1>2
  <2> QED BY <2>1, <2>2
<1>5. Forward'
  <2> SUFFICES ASSUME NEW d \in Bouncers, NEW a \in attached[d], life[a] = "live"
               PROVE  sight[a] # d /\ last'[a] # d
    BY DEF Forward
  <2>1. sight[a] # d /\ last[a] # d /\ a \in Lasers
    BY <1>1 DEF ChainInv, Forward, TypeOK
  <2>2. CASE a = l
    BY <2>1, <2>2, <1>2 DEF Hit
  <2> QED BY <2>1, <2>2, <1>2
<1>6. Blank' /\ NeverCrashed' /\ SweepChain'
  BY <1>1, <1>2 DEF ChainInv, Blank, NeverCrashed, SweepChain, Live
<1>7. LitIsHit'
  <2> SUFFICES ASSUME NEW t \in Targets, active'[t]
               PROVE  \E x \in Live : last'[x] = t
    BY DEF LitIsHit, Live
  <2>1. CASE t = h
    BY <2>1, <1>2
  <2>2. CASE t # h
    <3>1. active[t]
      BY <2>2, <1>1 DEF TypeOK
    <3>2. PICK x \in Live : last[x] = t
      BY <3>1 DEF ChainInv, LitIsHit
    <3>3. x # l /\ x \in Lasers
      BY <3>1, <3>2 DEF Live
    <3> QED BY <3>2, <3>3, <1>2
  <2> QED BY <2>1, <2>2
<1> QED BY <1>3, <1>4, <1>5, <1>6, <1>7 DEF ChainInv

(* A mirror answers the last beam l of a chain with the next one.          *)
LEMMA ArriveMirror ==
  ASSUME Plain, RegInv, ChainInv, NEW l \in Live, NEW h \in Mirrors, h = Hit(l),
         NEW b \in Free,
         children[owner[l]][Tip(owner[l])] = l,
         sweep = <<>> \/ owner[sweep[1]] = owner[l],
         last[l] \in Targets => ~active[last[l]],
         Emit(l, h, "B", <<b>>),
         bounce' = [bounce EXCEPT ![l] = b],
         last' = [last EXCEPT ![l] = h], crashed' = crashed, active' = active,
         sweep' = <<>>
  PROVE  ChainInv'
<1> DEFINE s0 == owner[l]
           N  == Tip(s0)
<1>0. PICK view \in [Range(<<b>>) -> Views({h}, Len(path[l]) + 1)] :
        /\ life'  = [x \in Lasers |-> IF x \in Range(<<b>>) THEN "live" ELSE life[x]]
        /\ owner' = [x \in Lasers |-> IF x \in Range(<<b>>) THEN owner[l] ELSE owner[x]]
        /\ path'  = [x \in Lasers |-> IF x \in Range(<<b>>)
                                      THEN Append(path[l], "B") ELSE path[x]]
        /\ sight' = [x \in Lasers |-> IF x \in Range(<<b>>) THEN view[x] ELSE sight[x]]
        /\ attached' = [attached EXCEPT ![h] = @ \cup Range(<<b>>)]
        /\ children' = [children EXCEPT ![owner[l]] = @ \o <<b>>]
  BY DEF Emit
<1>1. /\ s0 \in Spawners /\ N \in Nat /\ l \in Lasers /\ TypeOK
      /\ N \in 1..N /\ path[l] = Letters(N - 1) /\ life[l] = "live"
      /\ Len(path[l]) = N - 1 /\ N - 1 \in Nat /\ (N - 1) + 1 = N
  <2>1. s0 \in Spawners /\ N \in Nat /\ N \in 1..N
    BY InChain
  <2> QED BY <2>1, OfChain DEF Live, RegInv
<1>2. Range(<<b>>) = {b} /\ b \in Lasers /\ life[b] = "free" /\ b # l
  BY <1>1 DEF Range, Free
<1>3. /\ last'[l] = h /\ bounce'[l] = b
      /\ \A x \in Lasers : x # l => last'[x] = last[x] /\ bounce'[x] = bounce[x]
  BY <1>1 DEF TypeOK
<1>4. /\ life'[b] = "live" /\ owner'[b] = s0 /\ path'[b] = Append(path[l], "B")
      /\ sight'[b] \in Views({h}, Len(path[l]) + 1)
      /\ \A x \in Lasers : x # b => /\ life'[x] = life[x] /\ owner'[x] = owner[x]
                                    /\ path'[x] = path[x] /\ sight'[x] = sight[x]
  BY <1>0, <1>2
<1>5. /\ b \in attached'[h]
      /\ \A d \in Bouncers : /\ attached[d] \subseteq attached'[d]
                             /\ d # h => attached'[d] = attached[d]
                             /\ attached'[d] \subseteq attached[d] \cup {b}
  BY <1>0, <1>1, <1>2 DEF TypeOK, Bouncers
<1>6. /\ \A s \in Spawners : s # s0 => children'[s] = children[s]
      /\ Len(children'[s0]) = N + 1 /\ children'[s0][N + 1] = b
      /\ \A i \in 1..N : children'[s0][i] = children[s0][i]
  <2>1. children[s0] \in Seq(Lasers \cup {Null}) /\ <<b>> \in Seq(Lasers \cup {Null})
    BY <1>1, <1>2 DEF TypeOK
  <2>2. children'[s0] = children[s0] \o <<b>> /\ \A s \in Spawners : s # s0 => children'[s] = children[s]
    BY <1>0, <1>1 DEF TypeOK
  <2> QED BY <2>1, <2>2, <1>1, ConcatProperties DEF Tip
<1>7. \A x \in Live : x \in Lasers /\ x # b /\ life'[x] = "live"
  BY <1>2, <1>4 DEF Live
<1>8. ASSUME NEW s \in Spawners  PROVE ChainOf(s)'
  <2> SUFFICES ASSUME NEW i \in 1..Len(children'[s])
               PROVE  /\ children'[s][i] \in Lasers /\ life'[children'[s][i]] = "live"
                      /\ path'[children'[s][i]] = Letters(i - 1)
                      /\ i < Len(children'[s]) =>
                          /\ last'[children'[s][i]] \in Mirrors
                          /\ bounce'[children'[s][i]] = children'[s][i + 1]
                          /\ children'[s][i + 1] \in attached'[last'[children'[s][i]]]
    BY DEF ChainOf, Linked, Tip, Live
  <2>1. CASE s # s0
    <3>1. i \in 1..Tip(s) /\ children'[s] = children[s]
      BY <2>1, <1>6 DEF Tip
    <3>2. children[s][i] \in Live /\ path[children[s][i]] = Letters(i - 1)
          /\ (i < Tip(s) => Linked(s, i))
      BY <3>1 DEF ChainInv, ChainOf
    <3>3. children[s][i] # l
      BY <2>1, <3>1, OfChain
    <3> QED BY <3>1, <3>2, <3>3, <1>3, <1>4, <1>5, <1>7 DEF Linked, Tip, Bouncers
  <2>2. CASE s = s0 /\ i = N + 1
    <3>1. Append(path[l], "B") = Letters((N - 1) + 1)
      BY <1>1, LettersGrow
    <3>2. i - 1 = N /\ ~(i < Len(children'[s]))
      BY <1>1, <1>6, <2>2
    <3>3. path'[b] = Letters(i - 1)
      BY <1>1, <1>4, <3>1, <3>2
    <3> QED BY <2>2, <3>2, <3>3, <1>2, <1>4, <1>6
  <2>3. CASE s = s0 /\ i = N
    <3>1. children'[s][i] = l /\ children'[s][i + 1] = b
      BY <2>3, <1>1, <1>6
    <3> QED BY <2>3, <3>1, <1>1, <1>3, <1>4, <1>5, <1>7
  <2>4. CASE s = s0 /\ i < N
    <3>1. i \in 1..N /\ i + 1 \in 1..N
      BY <2>4, <1>1, <1>6
    <3>2. children[s][i] \in Live /\ path[children[s][i]] = Letters(i - 1) /\ Linked(s, i)
      BY <2>4, <3>1 DEF ChainInv, ChainOf
    <3>3. children[s][i] # l
      <4>1. Len(path[children[s][i]]) = i - 1
        BY <2>4, <3>1, <1>1, OfChain
      <4> QED BY <4>1, <2>4, <1>1
    <3>4. children'[s][i] = children[s][i] /\ children'[s][i + 1] = children[s][i + 1]
      BY <2>4, <3>1, <1>6
    <3> QED BY <3>2, <3>3, <3>4, <1>3, <1>4, <1>5, <1>7 DEF Linked, Bouncers
  <2>5. s = s0 => i = N + 1 \/ i = N \/ i < N
    BY <1>1, <1>6
  <2> QED BY <2>1, <2>2, <2>3, <2>4, <2>5
<1>9. TailOff'
  <2> SUFFICES ASSUME NEW s \in Spawners
               PROVE  last'[children'[s][Len(children'[s])]] \notin Mirrors
    BY DEF TailOff, Tip
  <2>1. CASE s = s0
    <3>1. last'[b] = Null
      BY <1>2, <1>3 DEF ChainInv, Blank
    <3> QED BY <2>1, <3>1, <1>6, LaserAssumption DEF Devices, Bouncers
  <2>2. CASE s # s0
    <3>1. Len(children[s]) > 0 /\ children[s] \in Seq(Lasers \cup {Null})
      BY <1>1 DEF RegInv, RootKept, TypeOK
    <3>2. Tip(s) \in 1..Tip(s)
      BY <3>1 DEF Tip
    <3>3. owner[children[s][Tip(s)]] = s /\ children[s][Tip(s)] \in Lasers
      BY <3>2, OfChain
    <3>4. last[children[s][Tip(s)]] \notin Mirrors
      BY <2>2 DEF ChainInv, TailOff
    <3> QED BY <2>2, <3>3, <3>4, <1>3, <1>6 DEF Tip
  <2> QED BY <2>1, <2>2
<1>10. Forward'
  <2> SUFFICES ASSUME NEW d \in Bouncers, NEW a \in attached'[d], life'[a] = "live"
               PROVE  sight'[a] # d /\ last'[a] # d
    BY DEF Forward
  <2>0. d # Null /\ d # Miss /\ d # Wall /\ d \notin Targets
    BY LaserAssumption DEF Devices
  <2>1. CASE a = b
    <3>1. a \notin attached[d]
      BY <2>1, <1>2 DEF RegInv, Held
    <3>2. d = h
      BY <3>1, <1>5
    <3>3. last'[b] = Null
      BY <1>2, <1>3 DEF ChainInv, Blank
    <3>4. h \notin Views({h}, Len(path[l]) + 1)
      BY <2>0, <3>2 DEF Views
    <3> QED BY <2>0, <2>1, <3>2, <3>3, <3>4, <1>4
  <2>2. CASE a # b
    <3>1. a \in attached[d] /\ a \in Lasers /\ life[a] = "live"
      BY <2>2, <1>1, <1>4, <1>5 DEF TypeOK
    <3>2. sight[a] # d /\ last[a] # d
      BY <3>1 DEF ChainInv, Forward
    <3>3. Hit(a) # d
      BY <3>2 DEF Hit
    <3> QED BY <2>2, <3>1, <3>2, <3>3, <1>3, <1>4
  <2> QED BY <2>1, <2>2
<1>11. Blank' /\ NeverCrashed' /\ SweepChain'
  <2>1. Blank'
    BY <1>1, <1>2, <1>3, <1>4 DEF ChainInv, Blank
  <2> QED BY <2>1 DEF ChainInv, NeverCrashed, SweepChain
<1>12. LitIsHit'
  <2> SUFFICES ASSUME NEW t \in Targets, active[t]
               PROVE  \E x \in Lasers : life'[x] = "live" /\ last'[x] = t
    BY DEF LitIsHit, Live
  <2>1. PICK x \in Live : last[x] = t
    BY DEF ChainInv, LitIsHit
  <2>2. x # l
    BY <2>1
  <2> QED BY <2>1, <2>2, <1>3, <1>7
<1> QED BY <1>8, <1>9, <1>10, <1>11, <1>12 DEF ChainInv

LEMMA ArriveChain ==
  ASSUME Plain, RegInv, ChainInv, NEW l \in Live,
         children[owner[l]][Tip(owner[l])] = l,
         sweep = <<>> \/ owner[sweep[1]] = owner[l],
         last[l] \in Targets => ~active[last[l]],
         Arrive(l, Hit(l)), sweep' = <<>>
  PROVE  ChainInv'
<1>1. l \in Lasers
  BY DEF Live
<1> DEFINE h == Hit(l)
<1>2. h = Hit(l)
  OBVIOUS
<1> HIDE DEF h
<1>3. /\ last' = [last EXCEPT ![l] = h] /\ crashed' = crashed
      /\ \/ /\ h \in Mirrors
            /\ \E b \in Free : Emit(l, h, "B", <<b>>)
                              /\ bounce' = [bounce EXCEPT ![l] = b]
            /\ active' = active
         \/ /\ h \notin Mirrors
            /\ UNCHANGED <<life, owner, path, sight, attached, children>>
            /\ bounce' = [bounce EXCEPT ![l] = Null] \/ bounce' = bounce
            /\ \/ h \in Targets /\ active' = [active EXCEPT ![h] = TRUE]
               \/ h = Wall /\ active' = active
  BY <1>1, <1>2, ArriveShape
<1>4. CASE h \in Mirrors
  <2>1. PICK b \in Free : Emit(l, h, "B", <<b>>) /\ bounce' = [bounce EXCEPT ![l] = b]
    BY <1>3, <1>4
  <2> QED BY <1>2, <1>3, <1>4, <2>1, ArriveMirror
<1>5. CASE h \notin Mirrors
  BY <1>2, <1>3, <1>5, ArriveDark
<1> QED BY <1>4, <1>5

(* The last beam of a chain is the one that rests on no device, or the one *)
(* the finished loop has left.                                             *)
LEMMA TickArriveChain ==
  ASSUME Plain, RegInv, ChainInv, NEW l \in Lasers, TickArrive(l)
  PROVE  ChainInv'
<1>1. l \in Live /\ sweep = <<>> /\ sweep' = <<>> /\ last[l] \notin Devices /\ Arrive(l, Hit(l))
  BY DEF TickArrive, Idle, Live
<1>2. /\ owner[l] \in Spawners /\ Len(path[l]) + 1 \in 1..Tip(owner[l])
      /\ children[owner[l]][Len(path[l]) + 1] = l
      /\ Len(path[l]) \in Nat /\ Tip(owner[l]) \in Nat
  BY <1>1, InChain
<1>3. Mirrors \subseteq Devices /\ Targets \subseteq Devices
  BY DEF Devices, Bouncers
<1>4. ~(Len(path[l]) + 1 < Tip(owner[l]))
  BY <1>1, <1>2, <1>3 DEF ChainInv, ChainOf, Linked
<1>5. children[owner[l]][Tip(owner[l])] = l
  BY <1>2, <1>4
<1> QED BY <1>1, <1>3, <1>5, ArriveChain

LEMMA SweepDoneChain ==
  ASSUME Plain, RegInv, ChainInv, SweepDone
  PROVE  ChainInv'
<1> DEFINE l == sweep[1]
<1>1. sweep # <<>> /\ sweep[2] = 0 /\ Arrive(l, Hit(l)) /\ sweep' = <<>>
  BY DEF SweepDone
<1>2. l \in Live /\ children[owner[l]][Place] = l /\ Place <= Tip(owner[l])
  BY <1>1 DEF ChainInv, SweepChain
<1>3. Len(path[l]) \in Nat
  BY <1>2, InChain
<1>4. Cancelled
  BY <1>1, <1>3 DEF Cancelled, Place
<1>5. Tip(owner[l]) = Place /\ (last[l] \in Targets => ~active[last[l]])
  BY <1>1, <1>4 DEF ChainInv, SweepChain
<1> QED BY <1>1, <1>2, <1>5, ArriveChain

LEMMA TickLeaveChain ==
  ASSUME Plain, RegInv, ChainInv, NEW l \in Lasers, TickLeave(l)
  PROVE  ChainInv'
<1>1. /\ l \in Live /\ sweep' = <<l, Tip(owner[l])>>
      /\ UNCHANGED <<beamVars, deviceVars, children, crashed>> /\ sweep = <<>>
  BY DEF TickLeave, Live, Tip, Idle
<1>2. /\ Len(path[l]) + 1 \in 1..Tip(owner[l]) /\ Tip(owner[l]) \in Nat
      /\ children[owner[l]][Len(path[l]) + 1] = l
  BY <1>1, InChain
<1>3. sweep'[1] = l /\ sweep'[2] = Tip(owner[l])
  BY <1>1
<1>4. SweepChain'
  BY <1>1, <1>2, <1>3 DEF SweepChain, Place, Cancelled, Tip, Live, beamVars
<1>5. TailOff' /\ Forward'
  BY <1>1 DEF ChainInv, TailOff, Forward, Tip, beamVars, deviceVars
<1> QED BY <1>1, <1>4, <1>5, ChainFrame DEF beamVars, deviceVars

(* Nothing beyond the loop's beam is left alone: the loop skips a child    *)
(* only below the beam's own place.                                        *)
LEMMA SweepSkipChain ==
  ASSUME Plain, RegInv, ChainInv, SweepSkip
  PROVE  ChainInv'
<1> DEFINE l == sweep[1]
           s == owner[l]
<1>1. /\ sweep # <<>> /\ sweep[2] > 0 /\ ~Following(SweptChild)
      /\ sweep' = <<l, sweep[2] - 1>> /\ UNCHANGED <<beamVars, deviceVars, children, crashed>>
  BY DEF SweepSkip
<1>2. /\ l \in Live /\ children[s][Place] = l /\ Place <= Tip(s)
      /\ Tip(s) = IF Cancelled THEN Place ELSE sweep[2]
      /\ Cancelled /\ last[l] \in Targets => ~active[last[l]]
  BY <1>1 DEF ChainInv, SweepChain
<1>3. sweep[2] \in Nat /\ TypeOK
  BY <1>1, SweepType DEF RegInv
<1>4. s \in Spawners /\ Place \in Nat /\ Tip(s) \in Nat /\ Len(path[l]) \in Nat /\ Place = Len(path[l]) + 1
  BY <1>2, InChain DEF Place
<1>5. Cancelled
  <2> SUFFICES ASSUME ~Cancelled  PROVE FALSE
    OBVIOUS
  <2>1. Tip(s) = sweep[2] /\ sweep[2] \in 1..Tip(s)
    BY <1>1, <1>2, <1>3
  <2> DEFINE c == children[s][sweep[2]]
  <2>2. c \in Live /\ owner[c] = s /\ Len(path[c]) = sweep[2] - 1
    BY <2>1, <1>4, OfChain
  <2>3. Len(path[l]) <= Len(path[c])
    BY <2>1, <2>2, <1>2, <1>3, <1>4
  <2>4. IDContains(c, l)
    BY <2>2, <2>3, <1>2, ChainContains
  <2>5. c = SweptChild
    BY DEF SweptChild
  <2> QED BY <1>1, <2>2, <2>4, <2>5, LaserAssumption DEF Following, Live
<1>6. sweep'[1] = l /\ sweep'[2] = sweep[2] - 1 /\ sweep' # <<>>
  BY <1>1
<1>7. SweepChain'
  <2>1. Place' = Place /\ owner' = owner /\ children' = children /\ last' = last /\ active' = active
        /\ life' = life /\ path' = path
    BY <1>1, <1>6 DEF Place, beamVars, deviceVars
  <2>2. sweep'[2] < Place
    BY <1>5, <1>6, <1>3, <1>4 DEF Cancelled
  <2>3. Cancelled'
    BY <2>1, <2>2 DEF Cancelled
  <2> QED BY <2>1, <2>3, <1>2, <1>5, <1>6 DEF SweepChain, Tip, Live
<1>8. TailOff' /\ Forward'
  BY <1>1, <1>6 DEF ChainInv, TailOff, Forward, Tip, beamVars, deviceVars
<1> QED BY <1>1, <1>7, <1>8, ChainFrame DEF beamVars, deviceVars

(* The beam l whose loop is under way, its spawner s, the last beam c of   *)
(* the chain of s and what that beam hit.                                  *)
Looping(l, s, c, h) ==
  l = sweep[1] /\ s = owner[l] /\ c = children[s][Tip(s)] /\ h = last[c]

(* The loop cancels the last beam of the chain, or, when it is at the beam *)
(* itself, darkens what that beam hit and keeps it; the mirror it clears   *)
(* holds no live beam that still follows.                                  *)
LEMMA SweepCancelShape ==
  ASSUME Plain, RegInv, ChainInv, SweepCancel,
         NEW l, NEW s, NEW c, NEW h, Looping(l, s, c, h)
  PROVE  /\ sweep # <<>> /\ l \in Live /\ c \in Live /\ s \in Spawners
         /\ owner[c] = s /\ sweep[2] \in Nat
         /\ Tip(s) = sweep[2] /\ Place <= Tip(s) /\ Place \in Nat /\ Place > 0
         /\ children[s][Place] = l
         /\ attached' = attached
         /\ active' = [d \in Splits \cup Targets |-> active[d] /\ d # h]
         /\ sweep' = <<l, sweep[2] - 1>>
         /\ UNCHANGED <<owner, path, sight, last, bounce, device, crashed>>
         /\ \/ /\ sweep[2] = Place /\ c = l
               /\ life' = life /\ children' = children
            \/ /\ sweep[2] > Place
               /\ life' = [x \in Lasers |-> IF x = c THEN "dead" ELSE life[x]]
               /\ children' = [children EXCEPT ![s] = RemoveAt(@, Tip(s))]
<1> DEFINE override == SameID(SweptChild, l)
           cleared  == {a \in IF last[SweptChild] \in Mirrors
                               THEN attached[last[SweptChild]] ELSE {} :
                          life[a] = "live" /\ IDContains(a, SweptChild)}
           killed   == cleared \cup (IF override THEN {} ELSE {SweptChild})
<1>0. /\ sweep # <<>> /\ sweep[2] > 0 /\ Following(SweptChild)
      /\ life' = [x \in Lasers |-> IF x \in killed THEN "dead" ELSE life[x]]
      /\ attached' = [d \in Bouncers |-> IF d = last[SweptChild]
                                         THEN attached[d] \ cleared ELSE attached[d]]
      /\ active' = [d \in Splits \cup Targets |->
                      active[d] /\ ~(d = last[SweptChild] /\ IsValid(last[SweptChild]))]
      /\ children' = IF override THEN children
                     ELSE [children EXCEPT ![s] = RemoveAt(@, sweep[2])]
      /\ sweep' = <<l, sweep[2] - 1>>
      /\ UNCHANGED <<owner, path, sight, last, bounce, device, crashed>>
  BY DEF SweepCancel, Looping
<1> HIDE DEF override, cleared, killed
<1>e. l = sweep[1] /\ s = owner[l] /\ c = children[s][Tip(s)] /\ h = last[c]
  BY DEF Looping
<1>2. /\ l \in Live /\ children[s][Place] = l /\ Place <= Tip(s)
      /\ Tip(s) = IF Cancelled THEN Place ELSE sweep[2]
  BY <1>e, <1>0 DEF ChainInv, SweepChain
<1>3. sweep[2] \in Nat /\ l \in Lasers /\ TypeOK
  BY <1>e, <1>0, SweepType DEF RegInv
<1>4. s \in Spawners /\ Tip(s) \in Nat /\ Len(path[l]) \in Nat /\ Place = Len(path[l]) + 1
  BY <1>e, <1>2, InChain DEF Place
<1>5. sweep[2] \in 1..Tip(s)
  <2>1. sweep[2] <= Tip(s)
    BY <1>e, <1>0, <1>2 DEF RegInv, SweepInList, Tip
  <2> QED BY <1>e, <2>1, <1>0, <1>3, <1>4
<1>6. SweptChild \in Live /\ Len(path[SweptChild]) = sweep[2] - 1
  BY <1>e, <1>4, <1>5, OfChain DEF SweptChild
<1>7. Len(path[l]) <= Len(path[SweptChild])
  BY <1>e, <1>0, <1>2, <1>6, ChainContains DEF Following
<1>8. Tip(s) = sweep[2] /\ Place <= sweep[2]
  BY <1>2, <1>3, <1>4, <1>6, <1>7 DEF Cancelled
<1>8a. /\ c = SweptChild /\ c \in Live /\ owner[c] = s /\ Len(path[c]) = sweep[2] - 1
       /\ h = last[SweptChild]
  BY <1>e, <1>4, <1>5, <1>6, <1>8, OfChain DEF SweptChild
<1>1. /\ life' = [x \in Lasers |-> IF x \in killed THEN "dead" ELSE life[x]]
      /\ attached' = [d \in Bouncers |-> IF d = h THEN attached[d] \ cleared ELSE attached[d]]
      /\ active' = [d \in Splits \cup Targets |-> active[d] /\ ~(d = h /\ IsValid(h))]
      /\ children' = IF override THEN children
                     ELSE [children EXCEPT ![s] = RemoveAt(@, sweep[2])]
  BY <1>e, <1>0, <1>8a
<1>9. cleared = {}
  <2> SUFFICES ASSUME NEW a \in attached[h], h \in Mirrors, life[a] = "live", IDContains(a, c)
               PROVE  FALSE
    BY <1>e, <1>8a DEF cleared
  <2>1. a \in Live /\ h \in Bouncers
    BY <1>e, <1>3 DEF TypeOK, Live, Bouncers
  <2>2. owner[a] = s /\ Len(path[c]) <= Len(path[a])
    BY <1>e, <2>1, <1>8a, ChainContains
  <2>3. Len(path[a]) + 1 \in 1..Tip(s) /\ Len(path[a]) \in Nat
    BY <1>e, <2>1, <2>2, InChain
  <2>4. Len(path[a]) = Len(path[c])
    BY <1>e, <2>2, <2>3, <1>3, <1>8a, <1>8
  <2>5. a = c
    BY <1>e, <2>1, <2>2, <2>4, <1>8a, ChainContains
  <2> QED BY <1>e, <2>1, <2>5 DEF ChainInv, Forward
<1>10. attached' = attached
  <2>1. attached' = [d \in Bouncers |-> attached[d]]
    BY <1>e, <1>1, <1>9
  <2> QED BY <1>e, <2>1, <1>3 DEF TypeOK
<1>11. active' = [d \in Splits \cup Targets |-> active[d] /\ d # h]
  <2>1. \A d \in Splits \cup Targets : IsValid(d)
    BY <1>e, <1>3, PlainFacts DEF Devices, Bouncers
  <2> QED BY <1>e, <2>1, <1>1
<1>12. override <=> c = l
  BY <1>e, <1>2, <1>8a, ChainContains DEF override
<1>13. c = l <=> sweep[2] = Place
  <2>1. sweep[2] = Place => c = l
    BY <1>e, <1>2, <1>8
  <2>2. c = l => sweep[2] - 1 = Len(path[l])
    BY <1>e, <1>8a
  <2> QED BY <1>e, <2>1, <2>2, <1>3, <1>4
<1>13a. /\ sweep # <<>> /\ l \in Live /\ c \in Live /\ s \in Spawners
        /\ owner[c] = s /\ sweep[2] \in Nat
        /\ Tip(s) = sweep[2] /\ Place <= Tip(s) /\ Place \in Nat /\ Place > 0
        /\ children[s][Place] = l
  <2>1. Place \in Nat /\ Place > 0
    BY <1>e, <1>4
  <2>2. sweep # <<>> /\ l \in Live /\ s \in Spawners /\ sweep[2] \in Nat
    BY <1>e, <1>0, <1>2, <1>3, <1>4
  <2>3. c \in Live /\ owner[c] = s /\ Tip(s) = sweep[2]
    BY <1>e, <1>8, <1>8a
  <2>4. Place <= Tip(s) /\ children[s][Place] = l
    BY <1>e, <1>2
  <2> QED BY <1>e, <2>1, <2>2, <2>3, <2>4
<1>14. CASE sweep[2] = Place
  <2>1. killed = {} /\ children' = children
    BY <1>e, <1>1, <1>9, <1>12, <1>13, <1>14 DEF killed
  <2>2. life' = [x \in Lasers |-> life[x]]
    BY <1>e, <1>1, <2>1
  <2>3. life' = life
    BY <1>e, <2>2, <1>3 DEF TypeOK
  <2> QED BY <1>e, <2>1, <2>3, <1>14, <1>0, <1>10, <1>11, <1>13, <1>13a
<1>15. CASE sweep[2] # Place
  <2>1. killed = {c}
    BY <1>e, <1>8a, <1>9, <1>12, <1>13, <1>15 DEF killed
  <2>2. life' = [x \in Lasers |-> IF x = c THEN "dead" ELSE life[x]]
    BY <1>e, <2>1, <1>1
  <2>3. children' = [children EXCEPT ![s] = RemoveAt(@, Tip(s))]
    BY <1>e, <1>1, <1>8, <1>12, <1>13, <1>15
  <2>4. sweep[2] > Place
    BY <1>e, <1>3, <1>4, <1>8, <1>15
  <2> QED BY <1>e, <2>2, <2>3, <2>4, <1>0, <1>10, <1>11, <1>13a
<1> QED BY <1>e, <1>14, <1>15

LEMMA SweepCancelChain ==
  ASSUME Plain, RegInv, ChainInv, SweepCancel
  PROVE  ChainInv'
<1>1. PICK l, s, c, h : /\ l = sweep[1] /\ s = owner[l]
                        /\ c = children[s][Tip(s)] /\ h = last[c]
  OBVIOUS
<1>2. /\ sweep # <<>> /\ l \in Live /\ c \in Live /\ s \in Spawners
      /\ owner[c] = s /\ sweep[2] \in Nat
      /\ Tip(s) = sweep[2] /\ Place <= Tip(s) /\ Place \in Nat /\ Place > 0
      /\ children[s][Place] = l
      /\ attached' = attached
      /\ active' = [d \in Splits \cup Targets |-> active[d] /\ d # h]
      /\ sweep' = <<l, sweep[2] - 1>>
      /\ UNCHANGED <<owner, path, sight, last, bounce, device, crashed>>
      /\ \/ /\ sweep[2] = Place /\ c = l
            /\ life' = life /\ children' = children
         \/ /\ sweep[2] > Place
            /\ life' = [x \in Lasers |-> IF x = c THEN "dead" ELSE life[x]]
            /\ children' = [children EXCEPT ![s] = RemoveAt(@, Tip(s))]
  <2>1. Looping(l, s, c, h)
    BY <1>1 DEF Looping
  <2> QED BY <2>1, SweepCancelShape
<1>3. /\ sweep' # <<>> /\ sweep'[1] = l /\ sweep'[2] = sweep[2] - 1 /\ Place' = Place
      /\ l \in Lasers /\ c \in Lasers /\ life[l] = "live" /\ life[c] = "live"
  BY <1>1, <1>2 DEF Place, Live
<1>4. TypeOK
  BY DEF RegInv
<1>5. \A t \in Targets : active'[t] <=> active[t] /\ t # h
  BY <1>2
<1>6. TailOff /\ \A x \in Spawners : ChainOf(x)
  BY DEF ChainInv
<1>7. CASE sweep[2] = Place /\ c = l /\ life' = life /\ children' = children
  <2>1. \A x \in Spawners : ChainOf(x)'
    BY <1>2, <1>6, <1>7 DEF ChainOf, Linked, Tip, Live
  <2>2. SweepChain'
    <3>1. Cancelled' /\ Tip(s)' = Place /\ last' = last
      BY <1>2, <1>3, <1>7 DEF Cancelled, Tip
    <3>2. last[l] \in Targets => ~active'[last[l]]
      BY <1>1, <1>5, <1>7
    <3> QED BY <1>1, <1>2, <1>3, <1>7, <3>1, <3>2 DEF SweepChain, Tip, Live
  <2>3. TailOff' /\ Forward' /\ Blank' /\ NeverCrashed'
    BY <1>1, <1>2, <1>3, <1>7 DEF ChainInv, TailOff, Forward, Blank, NeverCrashed, Tip
  <2>4. LitIsHit'
    BY <1>2, <1>5, <1>7 DEF ChainInv, LitIsHit, Live
  <2> QED BY <2>1, <2>2, <2>3, <2>4 DEF ChainInv
<1>8. CASE /\ sweep[2] > Place
           /\ life' = [x \in Lasers |-> IF x = c THEN "dead" ELSE life[x]]
           /\ children' = [children EXCEPT ![s] = RemoveAt(@, Tip(s))]
  <2> DEFINE N == Tip(s)
  <2>1. /\ N \in Nat /\ N - 1 \in Nat /\ N \in 1..Len(children[s]) /\ N > 1
        /\ N = Len(children[s]) /\ Len(path[c]) = N - 1
    <3>1. N \in Nat /\ N > 1 /\ N = Len(children[s])
      BY <1>2, <1>8 DEF Tip
    <3>2. N \in 1..Tip(s)
      BY <3>1
    <3>3. Len(path[c]) = N - 1
      BY <1>1, <1>2, <3>2, OfChain
    <3> QED BY <3>1, <3>3
  <2>2. /\ Len(children'[s]) = N - 1
        /\ \A i \in 1..(N - 1) : children'[s][i] = children[s][i]
        /\ \A x \in Spawners : x # s => children'[x] = children[x]
    <3>1. children[s] \in Seq(Lasers \cup {Null})
      BY <1>2, <1>4 DEF TypeOK
    <3>2. children'[s] = RemoveAt(children[s], N) /\ \A x \in Spawners : x # s => children'[x] = children[x]
      BY <1>2, <1>4, <1>8 DEF TypeOK
    <3>3. \A i \in 1..(N - 1) : i < N
      BY <2>1
    <3>4. /\ Len(RemoveAt(children[s], N)) = N - 1
          /\ \A j \in 1..(N - 1) : RemoveAt(children[s], N)[j] =
                                   IF j < N THEN children[s][j] ELSE children[s][j + 1]
      BY <2>1, <3>1, RemoveAtFacts
    <3> HIDE DEF N
    <3> QED BY <3>2, <3>3, <3>4
  <2>3. \A x \in Lasers : /\ x # c => life'[x] = life[x]
                          /\ life'[x] = "live" => life[x] = "live"
                          /\ life'[x] = "free" => life[x] = "free"
    BY <1>8, <1>3
  <2>4. ASSUME NEW x \in Spawners  PROVE ChainOf(x)'
    <3> SUFFICES ASSUME NEW i \in 1..Len(children'[x])
                 PROVE  /\ children'[x][i] \in Lasers /\ life'[children'[x][i]] = "live"
                        /\ path[children'[x][i]] = Letters(i - 1)
                        /\ i < Len(children'[x]) =>
                            /\ last[children'[x][i]] \in Mirrors
                            /\ bounce[children'[x][i]] = children'[x][i + 1]
                            /\ children'[x][i + 1] \in attached[last[children'[x][i]]]
      BY <1>2 DEF ChainOf, Linked, Tip, Live
    <3>1. /\ i \in 1..Tip(x) /\ children'[x][i] = children[x][i]
          /\ i < Len(children'[x]) => i < Tip(x) /\ children'[x][i + 1] = children[x][i + 1]
      <4>1. CASE x = s
        <5>1. i \in 1..(N - 1) /\ i \in 1..N /\ (i < N - 1 => i + 1 \in 1..(N - 1))
          BY <2>1, <2>2, <4>1
        <5> QED BY <2>1, <2>2, <4>1, <5>1
      <4>2. CASE x # s
        BY <2>2, <4>2 DEF Tip
      <4> QED BY <4>1, <4>2
    <3>2. /\ children[x][i] \in Live /\ path[children[x][i]] = Letters(i - 1)
          /\ i < Tip(x) => Linked(x, i)
      BY <1>6, <3>1 DEF ChainOf
    <3>3. children[x][i] # c
      <4>1. owner[children[x][i]] = x /\ Len(path[children[x][i]]) = i - 1
        BY <3>1, OfChain
      <4>2. x = s => i \in 1..(N - 1)
        BY <2>2
      <4> QED BY <4>1, <4>2, <2>1, <1>2
    <3>4. children'[x][i] \in Lasers /\ life'[children'[x][i]] = "live"
      <4>1. children[x][i] \in Lasers /\ life[children[x][i]] = "live"
        BY <3>2 DEF Live
      <4>2. life'[children[x][i]] = "live"
        BY <4>1, <3>3, <1>8
      <4> QED BY <4>1, <4>2, <3>1
    <3> QED BY <3>1, <3>2, <3>4 DEF Linked
  <2>5. SweepChain'
    <3>1. ~Cancelled'
      BY <1>2, <1>3, <1>8 DEF Cancelled
    <3>2. Tip(s)' = sweep'[2] /\ Place <= Tip(s)' /\ children'[s][Place] = l
      BY <1>2, <1>3, <1>8, <2>1, <2>2 DEF Tip
    <3>3. l # c
      <4>1. Len(path[l]) = Place - 1
        BY <1>1, <1>2, InChain DEF Place
      <4> QED BY <4>1, <2>1, <1>2, <1>8
    <3>4. life'[l] = "live"
      BY <3>3, <1>3, <1>8
    <3> QED BY <1>1, <1>2, <1>3, <3>1, <3>2, <3>4 DEF SweepChain, Live
  <2>6. TailOff'
    <3> SUFFICES ASSUME NEW x \in Spawners, x # s
                 PROVE  last'[children'[x][Len(children'[x])]] \notin Mirrors
      BY <1>1, <1>2, <1>3 DEF TailOff, Tip
    <3>1. last[children[x][Tip(x)]] \notin Mirrors
      BY <1>1, <1>6 DEF TailOff
    <3> QED BY <3>1, <1>2, <2>2 DEF Tip
  <2>7. Forward' /\ Blank' /\ NeverCrashed'
    BY <1>2, <1>4, <2>3 DEF ChainInv, Forward, Blank, NeverCrashed, TypeOK
  <2>8. LitIsHit'
    <3> SUFFICES ASSUME NEW t \in Targets, active[t], t # h
                 PROVE  \E x \in Lasers : life'[x] = "live" /\ last'[x] = t
      BY <1>5 DEF LitIsHit, Live
    <3>1. PICK x \in Live : last[x] = t
      BY DEF ChainInv, LitIsHit
    <3>2. x \in Lasers /\ life[x] = "live" /\ x # c
      BY <3>1, <1>1 DEF Live
    <3> QED BY <3>1, <3>2, <2>3, <1>2
  <2> QED BY <2>4, <2>5, <2>6, <2>7, <2>8 DEF ChainInv
<1> QED BY <1>2, <1>7, <1>8

(* A line of sight moves, but never onto the mirror the beam starts on.    *)
LEMMA AimChain ==
  ASSUME Plain, RegInv, ChainInv, NEW l \in Lasers, Aim(l)
  PROVE  ChainInv'
<1>1. PICK h \in Views(Sources(l), Len(path[l])) : sight' = [sight EXCEPT ![l] = h]
  BY DEF Aim
<1>2. /\ sweep = <<>> /\ TypeOK
      /\ UNCHANGED <<life, owner, path, last, bounce, deviceVars, children, sweep, crashed>>
  BY DEF Aim, Idle, RegInv
<1>3. SweepChain' /\ TailOff'
  BY <1>2 DEF ChainInv, SweepChain, TailOff, Tip
<1>4. Forward'
  <2> SUFFICES ASSUME NEW d \in Bouncers, NEW a \in attached[d], life[a] = "live"
               PROVE  sight'[a] # d /\ last[a] # d
    BY <1>2 DEF Forward, deviceVars
  <2>1. sight[a] # d /\ last[a] # d /\ a \in Lasers
    BY <1>2 DEF ChainInv, Forward, TypeOK
  <2>2. CASE a = l
    <3>1. d \in Sources(l)
      BY <2>2 DEF Sources
    <3>2. d \notin Targets \cup {Wall, Miss}
      BY LaserAssumption DEF Devices
    <3>3. h # d
      BY <3>1, <3>2 DEF Views
    <3> QED BY <2>1, <2>2, <3>3, <1>1, <1>2 DEF TypeOK
  <2>3. CASE a # l
    BY <2>1, <2>3, <1>1, <1>2 DEF TypeOK
  <2> QED BY <2>2, <2>3
<1> QED BY <1>2, <1>3, <1>4, ChainFrame DEF deviceVars

(* No beam of a chain is destroyed: the garbage collector leaves them all. *)
LEMMA CollectChain ==
  ASSUME Plain, RegInv, ChainInv, Collect
  PROVE  ChainInv'
<1>1. /\ sweep = <<>> /\ sweep' = <<>> /\ crashed' = crashed
      /\ life'   = [l \in Lasers |-> IF l \in Dead THEN "free" ELSE life[l]]
      /\ path'   = [l \in Lasers |-> IF l \in Dead THEN <<>> ELSE path[l]]
      /\ sight'  = [l \in Lasers |-> IF l \in Dead THEN Miss ELSE sight[l]]
      /\ last'   = [l \in Lasers |-> IF l \in Dead \/ last[l] \in Wreck THEN Null ELSE last[l]]
      /\ bounce' = [l \in Lasers |-> IF l \in Dead THEN Null ELSE Alive(bounce[l])]
      /\ active' = [d \in Splits \cup Targets |-> active[d] /\ d \notin Wreck]
      /\ attached' = [d \in Bouncers |-> IF d \in Wreck THEN {} ELSE attached[d] \ Dead]
      /\ children' = [s \in Spawners |->
                        [i \in 1..Len(children[s]) |-> Alive(children[s][i])]]
  BY DEF Collect, Idle
<1>2. Wreck = {} /\ TypeOK /\ Splits = {}
  BY DEF Plain, Wreck, RegInv
<1>3. /\ \A x \in Lasers : x \in Dead <=> life[x] = "dead"
      /\ \A x : x \notin Dead => Alive(x) = x
      /\ Dead \subseteq Lasers /\ \A x \in Live : x \notin Dead
  BY DEF Dead, Alive, Live
<1>4. \A x \in Live : /\ x \in Lasers /\ life'[x] = "live" /\ path'[x] = path[x]
                     /\ sight'[x] = sight[x] /\ last'[x] = last[x]
                     /\ bounce'[x] = Alive(bounce[x])
  BY <1>1, <1>2, <1>3 DEF Live
<1>5. \A x \in Lasers : life'[x] = "live" => x \in Live
  BY <1>1, <1>3 DEF Live
<1>6. ASSUME NEW s \in Spawners
      PROVE  children'[s] = children[s] /\ Tip(s) \in 1..Tip(s)
  <2>1. children[s] \in Seq(Lasers \cup {Null}) /\ Len(children[s]) > 0
    BY <1>2 DEF TypeOK, RegInv, RootKept
  <2>2. \A i \in 1..Len(children[s]) : Alive(children[s][i]) = children[s][i]
    <3> TAKE i \in 1..Len(children[s])
    <3>1. children[s][i] \in Live
      BY DEF ChainInv, ChainOf, Tip
    <3> QED BY <3>1, <1>3
  <2>3. children'[s] = [i \in 1..Len(children[s]) |-> children[s][i]]
    BY <1>1, <2>2
  <2>4. children'[s] = children[s]
    BY <2>1, <2>3
  <2> QED BY <2>1, <2>4 DEF Tip
<1>7. ASSUME NEW s \in Spawners  PROVE ChainOf(s)'
  <2> SUFFICES ASSUME NEW i \in 1..Tip(s)
               PROVE  /\ children[s][i] \in Lasers /\ life'[children[s][i]] = "live"
                      /\ path'[children[s][i]] = Letters(i - 1)
                      /\ i < Tip(s) =>
                          /\ last'[children[s][i]] \in Mirrors
                          /\ bounce'[children[s][i]] = children[s][i + 1]
                          /\ children[s][i + 1] \in attached'[last'[children[s][i]]]
    BY <1>6 DEF ChainOf, Linked, Tip, Live
  <2>1. /\ children[s][i] \in Live /\ path[children[s][i]] = Letters(i - 1)
        /\ i < Tip(s) => Linked(s, i)
    BY DEF ChainInv, ChainOf
  <2>2. i < Tip(s) => children[s][i + 1] \in Live
    <3>1. i < Tip(s) => i + 1 \in 1..Tip(s)
      BY <1>6
    <3> QED BY <3>1 DEF ChainInv, ChainOf
  <2>3. i < Tip(s) =>
          /\ last'[children[s][i]] \in Mirrors
          /\ bounce'[children[s][i]] = children[s][i + 1]
    BY <2>1, <2>2, <1>3, <1>4 DEF Linked
  <2>4. i < Tip(s) => children[s][i + 1] \in attached'[last'[children[s][i]]]
    BY <2>1, <2>2, <1>1, <1>2, <1>3, <1>4 DEF Linked, Bouncers
  <2> QED BY <2>1, <2>3, <2>4, <1>4
<1>8. TailOff'
  <2> SUFFICES ASSUME NEW s \in Spawners
               PROVE  last'[children[s][Tip(s)]] \notin Mirrors
    BY <1>6 DEF TailOff, Tip
  <2>1. children[s][Tip(s)] \in Live
    BY <1>6, OfChain
  <2> QED BY <2>1, <1>1, <1>4 DEF ChainInv, TailOff
<1>9. Forward'
  BY <1>1, <1>2, <1>4, <1>5 DEF ChainInv, Forward, TypeOK, Live
<1>10. SweepChain' /\ NeverCrashed'
  BY <1>1 DEF ChainInv, SweepChain, NeverCrashed
<1>11. Blank'
  BY <1>1, <1>2 DEF ChainInv, Blank
<1>12. LitIsHit'
  BY <1>1, <1>4 DEF ChainInv, LitIsHit, Live
<1> QED BY <1>7, <1>8, <1>9, <1>10, <1>11, <1>12 DEF ChainInv

(* No actor a beam rests on disappears in a Plain level, and no beam rests *)
(* on a mirror without the beam that mirror made: two ways a Tick never    *)
(* ends.                                                                   *)
LEMMA NeverLost ==
  ASSUME Plain, RegInv, NEW l \in Lasers, TickLost(l)
  PROVE  FALSE
<1>1. ~IsValid(Hit(l)) /\ last[l] \in Devices /\ TypeOK
  BY DEF TickLost, RegInv
<1> QED BY <1>1, PlainFacts

LEMMA NeverNull ==
  ASSUME Plain, RegInv, ChainInv, NEW l \in Lasers, TickCrash(l)
  PROVE  FALSE
<1>1. sweep = <<>> /\ l \in Live /\ last[l] \in Mirrors /\ bounce[l] = Null
  BY DEF TickCrash, Idle, Live
<1>2. bounce[l] \in Live
  BY <1>1, ChainServed DEF MirrorServed, Swept
<1> QED BY <1>1, <1>2, LaserAssumption DEF Live

LEMMA InitChain ==
  ASSUME Init
  PROVE  ChainInv
<1>1. PICK root \in [Spawners -> Lasers] :
        /\ \A l \in Lasers, s \in Spawners : owner[l] = s <=> root[s] = l
        /\ life = [l \in Lasers |-> IF owner[l] = Null THEN "free" ELSE "live"]
        /\ path = [l \in Lasers |-> <<>>]
        /\ last = [l \in Lasers |-> Null]
        /\ active = [d \in Splits \cup Targets |-> FALSE]
        /\ attached = [d \in Bouncers |-> {}]
        /\ children = [s \in Spawners |-> <<root[s]>>]
        /\ sweep = <<>> /\ crashed = FALSE
  BY DEF Init
<1>2. \A s \in Spawners : Tip(s) = 1 /\ children[s][1] = root[s] /\ root[s] \in Lasers
  BY <1>1 DEF Tip
<1>3. Letters(0) = <<>>
  <2>1. 1..0 = {}
    OBVIOUS
  <2> QED BY <2>1 DEF Letters
<1>4. ASSUME NEW s \in Spawners  PROVE ChainOf(s)
  <2>1. life[root[s]] = "live"
    BY <1>1, <1>2, LaserAssumption
  <2>2. \A i \in 1..Tip(s) : i = 1 /\ ~(i < Tip(s)) /\ i - 1 = 0
    BY <1>2
  <2> QED BY <1>1, <1>2, <1>3, <2>1, <2>2 DEF ChainOf, Live
<1>5. SweepChain /\ Forward /\ Blank /\ LitIsHit /\ NeverCrashed
  BY <1>1 DEF SweepChain, Forward, Blank, LitIsHit, NeverCrashed
<1>6. TailOff
  BY <1>1, <1>2, LaserAssumption DEF TailOff, Devices, Bouncers
<1> QED BY <1>4, <1>5, <1>6 DEF ChainInv

LEMMA NextChain ==
  ASSUME Plain, RegInv, ChainInv, [Next]_vars
  PROVE  ChainInv'
<1>1. ASSUME NEW l \in Lasers, Tick(l)  PROVE ChainInv'
  BY <1>1, TickArriveChain, TickLeaveChain, NeverLost, NeverNull DEF Tick
<1>2. CASE Sweep
  BY <1>2, SweepSkipChain, SweepCancelChain, SweepDoneChain DEF Sweep
<1>3. CASE World
  <2>1. Splits = {}
    BY DEF Plain
  <2> QED BY <1>3, <2>1, AimChain, CollectChain DEF World
<1>4. CASE UNCHANGED vars
  <2>1. SweepChain' /\ TailOff' /\ Forward'
    BY <1>4 DEF vars, ChainInv, SweepChain, TailOff, Forward, Place, Cancelled, Tip, Live
  <2> QED BY <2>1, <1>4, ChainFrame DEF vars
<1> QED BY <1>1, <1>2, <1>3, <1>4 DEF Next

LEMMA ChainSafe ==
  ASSUME Plain
  PROVE  Spec => [](RegInv /\ ChainInv)
<1>1. Init => RegInv /\ ChainInv
  BY InitReg, InitChain
<1>2. RegInv /\ ChainInv /\ [Next]_vars => (RegInv /\ ChainInv)'
  BY NextReg, NextChain
<1> QED BY <1>1, <1>2, PTL DEF Spec

-----------------------------------------------------------------------------
(* In a Plain level LaserID identifies a beam: the loop that cancels what  *)
(* follows from a beam can neither miss one nor take another for it.       *)
THEOREM MirrorsUnique ==
  ASSUME Plain
  PROVE  Spec => []UniqueID
<1>1. RegInv /\ ChainInv => UniqueID
  BY ChainUnique
<1> QED BY <1>1, ChainSafe, PTL

(* In a Plain level, a live beam that rests on a mirror has the next beam  *)
(* of that mirror as its BounceLaser, so ALaser::Tick may move it.         *)
THEOREM MirrorsServe ==
  ASSUME Plain
  PROVE  Spec => []MirrorServed
<1>1. RegInv /\ ChainInv => MirrorServed
  BY ChainServed
<1> QED BY <1>1, ChainSafe, PTL

(* In a Plain level, once the network has settled, the beam that a         *)
(* reflection follows from is alive and ends on the mirror where it starts,*)
(* or lingers there, its line turned into the void.                        *)
THEOREM MirrorsLeaveNoOrphan ==
  ASSUME Plain
  PROVE  Spec => []NoOrphans
<1>1. RegInv /\ ChainInv => NoOrphans
  BY ChainNoOrphans
<1> QED BY <1>1, ChainSafe, PTL

(* In a Plain level ALaser::Tick never dereferences a null BounceLaser.    *)
THEOREM MirrorsNeverCrash ==
  ASSUME Plain
  PROVE  Spec => []NeverCrashed
<1>1. RegInv /\ ChainInv => NeverCrashed
  BY DEF ChainInv
<1> QED BY <1>1, ChainSafe, PTL

-----------------------------------------------------------------------------
(* Targets.  With one spawner a target is lit exactly while a beam is on   *)
(* it: only the last beam of the only chain can be on a target.            *)
Solo == \A s, t \in Spawners : s = t

LEMMA TipOnly ==
  ASSUME Plain, Solo, RegInv, ChainInv, NEW l \in Live, NEW x \in Live, x # l,
         children[owner[l]][Tip(owner[l])] = l
  PROVE  last[x] \in Mirrors
<1>1. /\ owner[x] \in Spawners /\ Len(path[x]) + 1 \in 1..Tip(owner[x])
      /\ children[owner[x]][Len(path[x]) + 1] = x
      /\ Len(path[x]) \in Nat /\ Tip(owner[x]) \in Nat
  BY InChain
<1>2. owner[l] = owner[x]
  BY <1>1, InChain DEF Solo
<1>3. Len(path[x]) + 1 < Tip(owner[x])
  BY <1>1, <1>2
<1> QED BY <1>1, <1>3 DEF ChainInv, ChainOf, Linked

LEMMA ArriveLit ==
  ASSUME Plain, Solo, RegInv, ChainInv, NEW l \in Live,
         children[owner[l]][Tip(owner[l])] = l, Arrive(l, Hit(l))
  PROVE  HitIsLit'
<1> SUFFICES ASSUME NEW x \in Lasers, life'[x] = "live", last'[x] \in Targets
             PROVE  active'[last'[x]]
  BY DEF HitIsLit, Live
<1>1. l \in Lasers /\ TypeOK /\ Targets \cap Mirrors = {} /\ Null \notin Targets
  BY LaserAssumption DEF Live, RegInv, Devices, Bouncers
<1> DEFINE h == Hit(l)
<1>e. h = Hit(l)
  OBVIOUS
<1> HIDE DEF h
<1>2. /\ last' = [last EXCEPT ![l] = h]
      /\ \/ /\ h \in Mirrors
            /\ \E b \in Free : Emit(l, h, "B", <<b>>)
         \/ /\ life' = life
            /\ \/ h \in Targets /\ active' = [active EXCEPT ![h] = TRUE]
               \/ h = Wall /\ active' = active
  BY <1>1, <1>e, ArriveShape
<1>3. CASE x = l
  <2>1. last'[l] = h
    BY <1>1, <1>2 DEF TypeOK
  <2>2. Wall \notin Targets
    BY LaserAssumption DEF Devices
  <2> QED BY <1>1, <1>2, <1>3, <2>1, <2>2 DEF TypeOK
<1>4. CASE x # l
  <2>1. last'[x] = last[x]
    BY <1>1, <1>2, <1>4 DEF TypeOK
  <2>2. CASE x \in Live
    BY <1>1, <1>4, <2>1, <2>2, TipOnly
  <2>3. CASE life[x] = "free"
    BY <1>1, <2>1, <2>3 DEF ChainInv, Blank
  <2>4. CASE life[x] = "dead"
    <3>1. PICK b \in Free : Emit(l, h, "B", <<b>>)
      BY <1>2, <2>4
    <3>2. x # b /\ Range(<<b>>) = {b}
      BY <2>4 DEF Free, Range
    <3>3. life'[x] = life[x]
      BY <3>1, <3>2 DEF Emit
    <3> QED BY <2>4, <3>3
  <2> QED BY <1>1, <2>2, <2>3, <2>4 DEF TypeOK, Live
<1> QED BY <1>3, <1>4

LEMMA NextLit ==
  ASSUME Plain, Solo, RegInv, ChainInv, HitIsLit, [Next]_vars
  PROVE  HitIsLit'
<1>1. ASSUME NEW l \in Lasers, TickArrive(l)  PROVE HitIsLit'
  <2>1. l \in Live /\ last[l] \notin Mirrors /\ Arrive(l, Hit(l))
    BY <1>1 DEF TickArrive, Live, Devices, Bouncers
  <2>2. /\ owner[l] \in Spawners /\ Len(path[l]) + 1 \in 1..Tip(owner[l])
        /\ children[owner[l]][Len(path[l]) + 1] = l
        /\ Len(path[l]) \in Nat /\ Tip(owner[l]) \in Nat
    BY <2>1, InChain
  <2>3. ~(Len(path[l]) + 1 < Tip(owner[l]))
    BY <2>1, <2>2 DEF ChainInv, ChainOf, Linked
  <2>4. children[owner[l]][Tip(owner[l])] = l
    BY <2>2, <2>3
  <2> QED BY <2>1, <2>4, ArriveLit
<1>2. ASSUME NEW l \in Lasers, TickLeave(l)  PROVE HitIsLit'
  BY <1>2 DEF TickLeave, HitIsLit, Idle
<1>3. ASSUME SweepDone  PROVE HitIsLit'
  <2>1. sweep # <<>> /\ sweep[2] = 0 /\ Arrive(sweep[1], Hit(sweep[1]))
    BY <1>3 DEF SweepDone
  <2>2. sweep[1] \in Live /\ children[owner[sweep[1]]][Place] = sweep[1]
        /\ Tip(owner[sweep[1]]) = IF Cancelled THEN Place ELSE sweep[2]
    BY <2>1 DEF ChainInv, SweepChain
  <2>3. Len(path[sweep[1]]) \in Nat
    BY <2>2, InChain
  <2>4. Cancelled
    BY <2>1, <2>3 DEF Cancelled, Place
  <2> QED BY <2>1, <2>2, <2>4, ArriveLit
<1>4. ASSUME SweepSkip \/ SweepCancel  PROVE HitIsLit'
  BY <1>4 DEF SweepSkip, SweepCancel, HitIsLit, Idle
<1>5. ASSUME NEW l \in Lasers, Aim(l)  PROVE HitIsLit'
  BY <1>5 DEF Aim, HitIsLit, Idle, Live, deviceVars
<1>6. ASSUME Collect  PROVE HitIsLit'
  <2>1. /\ life'   = [l \in Lasers |-> IF l \in Dead THEN "free" ELSE life[l]]
        /\ last'   = [l \in Lasers |-> IF l \in Dead \/ last[l] \in Wreck THEN Null ELSE last[l]]
        /\ active' = [d \in Splits \cup Targets |-> active[d] /\ d \notin Wreck]
        /\ Idle
    BY <1>6 DEF Collect
  <2>2. Wreck = {}
    BY DEF Plain, Wreck
  <2>3. \A x \in Lasers : life'[x] = "live" => x \in Live /\ last'[x] = last[x]
    BY <2>1, <2>2 DEF Live, Dead
  <2> QED BY <2>1, <2>2, <2>3 DEF HitIsLit, Live
<1>7. CASE UNCHANGED vars
  BY <1>7 DEF vars, HitIsLit, Idle, Live
<1>8. CASE \E l \in Lasers : Tick(l)
  BY <1>1, <1>2, <1>8, NeverLost, NeverNull DEF Tick
<1>9. CASE Sweep
  BY <1>3, <1>4, <1>9 DEF Sweep
<1>10. CASE World
  <2>1. Splits = {}
    BY DEF Plain
  <2> QED BY <1>5, <1>6, <1>10, <2>1 DEF World
<1> QED BY <1>7, <1>8, <1>9, <1>10 DEF Next

LEMMA LitSettled ==
  ASSUME LitIsHit, HitIsLit, Settled, NEW t \in Targets
  PROVE  active[t] <=> \E l \in Live : Sees(l, t) \/ Lingers(l, t)
<1>1. t # Miss
  BY LaserAssumption DEF Devices
<1>2. ASSUME active[t]  PROVE \E l \in Live : Sees(l, t) \/ Lingers(l, t)
  <2>1. PICK l \in Live : last[l] = t
    BY <1>2 DEF LitIsHit
  <2> QED BY <2>1, SettledSight
<1>3. ASSUME NEW l \in Live, Sees(l, t) \/ Lingers(l, t)  PROVE active[t]
  <2>1. last[l] = t
    BY <1>1, <1>3, SettledSight
  <2> QED BY <2>1 DEF HitIsLit, Settled
<1> QED BY <1>2, <1>3

LEMMA LitAlways ==
  ASSUME Plain, Solo
  PROVE  Spec => [](LitIsHit /\ HitIsLit)
<1>1. Init => HitIsLit
  <2>1. Init => last = [l \in Lasers |-> Null]
    BY DEF Init
  <2>2. Null \notin Targets
    BY LaserAssumption DEF Devices
  <2> QED BY <2>1, <2>2 DEF HitIsLit, Live
<1>2. RegInv /\ ChainInv /\ HitIsLit /\ [Next]_vars => HitIsLit'
  BY NextLit
<1>3. RegInv /\ ChainInv => LitIsHit
  BY DEF ChainInv
<1> QED BY <1>1, <1>2, <1>3, ChainSafe, PTL DEF Spec

(* In a Plain level with one spawner, once the network has settled, a      *)
(* target is lit exactly when a live beam ends on it or lingers on it.     *)
THEOREM MirrorsLight ==
  ASSUME Plain, Solo
  PROVE  Spec => []LitByBeam
<1>1. LitIsHit /\ HitIsLit => LitByBeam
  BY LitSettled DEF LitByBeam
<1> QED BY <1>1, LitAlways, PTL

(* In a settled network where no line misses, nothing lingers.             *)
LEMMA ChainShown ==
  ASSUME Plain, RegInv, ChainInv, LitIsHit, HitIsLit, Settled, NoneMisses
  PROVE  ShownAsSeen
<1>1. \A l \in Live : \A d : ~Lingers(l, d)
  BY DEF NoneMisses, Lingers
<1>2. \A t \in Targets : active[t] <=> \E l \in Live : Sees(l, t)
  BY <1>1, LitSettled
<1>3. ASSUME NEW l \in Live, path[l] # <<>>
      PROVE  \E p \in Live, d \in Bouncers : Follows(l, p, d) /\ Sees(p, d)
  <2>1. NoOrphans
    BY ChainNoOrphans
  <2> QED BY <1>1, <1>3, <2>1 DEF NoOrphans
<1>4. ASSUME NEW p \in Live, NEW d \in Mirrors, Sees(p, d)
      PROVE  \E l \in Live : Follows(l, p, d) /\ path[l] # <<>>
  <2>1. d # Miss
    BY LaserAssumption DEF Devices, Bouncers
  <2>2. last[p] = d /\ ~Swept(p)
    BY <1>4, <2>1, SettledSight DEF Settled, Idle, Swept
  <2>3. /\ bounce[p] \in Live /\ bounce[p] \in attached[d]
        /\ owner[bounce[p]] = owner[p] /\ path[bounce[p]] = Append(path[p], "B")
    BY <1>4, <2>2, ChainServed DEF MirrorServed
  <2>4. path[p] \in Seq(Tags) /\ "B" \in Tags
    BY DEF RegInv, TypeOK, Live, Tags
  <2>5. Front(Append(path[p], "B")) = path[p] /\ Append(path[p], "B") # <<>>
    <3>1. /\ Append(path[p], "B") \in Seq(Tags)
          /\ Len(Append(path[p], "B")) = Len(path[p]) + 1
          /\ \A i \in 1..Len(path[p]) : Append(path[p], "B")[i] = path[p][i]
          /\ Len(path[p]) \in Nat
      BY <2>4, AppendProperties, LenProperties
    <3>2. /\ Front(Append(path[p], "B")) \in Seq(Tags)
          /\ Len(Front(Append(path[p], "B"))) = Len(path[p])
          /\ \A i \in 1..Len(path[p]) :
               Front(Append(path[p], "B"))[i] = Append(path[p], "B")[i]
      BY <3>1 DEF Front
    <3>3. Front(Append(path[p], "B")) = path[p]
      BY <2>4, <3>1, <3>2, SeqEqual
    <3>4. Append(path[p], "B") # <<>>
      BY <3>1, EmptySeq
    <3> QED BY <3>3, <3>4
  <2>6. d \in Sources(bounce[p])
    BY <2>3 DEF Sources, Bouncers
  <2> QED BY <2>3, <2>5, <2>6 DEF Follows
<1> QED BY <1>2, <1>3, <1>4 DEF ShownAsSeen

(* In a Plain level with one spawner, once the network has settled and no  *)
(* line misses, the lit targets and the beams that start on mirrors are    *)
(* exactly those that the lines show: the safety half of Settles.          *)
THEOREM MirrorsShow ==
  ASSUME Plain, Solo
  PROVE  Spec => [](Settled /\ NoneMisses => ShownAsSeen)
<1>1. RegInv /\ ChainInv /\ LitIsHit /\ HitIsLit
        => (Settled /\ NoneMisses => ShownAsSeen)
  BY ChainShown
<1> QED BY <1>1, ChainSafe, LitAlways, PTL

-----------------------------------------------------------------------------
(* Spawners                                                                *)

(* Between names that do not contain each other, a beam contains only IDs  *)
(* of its own spawner.                                                     *)
LEMMA SameSpawner ==
  ASSUME NameWithin = {}, NEW a, NEW b, IDContains(a, b)
  PROVE  owner[a] = owner[b]
<1>1. NameEnds = {}
  BY LaserAssumption
<1> QED BY <1>1 DEF IDContains

LEMMA EmitKeeps ==
  ASSUME NEW l, NEW d, NEW tag, NEW new, Emit(l, d, tag, new), NEW a \in Lasers,
         life[a] = "live"
  PROVE  life'[a] = "live"
BY DEF Emit

LEMMA RespondKeeps ==
  ASSUME NEW l, NEW d, Respond(l, d), NEW a \in Lasers, life[a] = "live"
  PROVE  life'[a] = "live"
<1>1. CASE Reflect(l, d)
  BY <1>1, EmitKeeps DEF Reflect
<1>2. CASE Split(l, d)
  BY <1>2, EmitKeeps DEF Split
<1>3. CASE Ignore(l, d) \/ Light(l, d)
  BY <1>3 DEF Ignore, Light
<1> QED BY <1>1, <1>2, <1>3 DEF Respond

LEMMA StepIsolates ==
  ASSUME NameWithin = {}, [Next]_vars, NEW a \in Lasers,
         sweep # <<>>, life[a] = "live", life'[a] # "live"
  PROVE  owner[a] = owner[sweep[1]]
<1>1. CASE SweepCancel
  <2>1. owner[SweptChild] = owner[sweep[1]]
    BY <1>1, SameSpawner DEF SweepCancel, Following
  <2>2. a = SweptChild \/ IDContains(a, SweptChild)
    BY <1>1 DEF SweepCancel
  <2> QED BY <2>1, <2>2, SameSpawner
<1>2. CASE SweepSkip
  BY <1>2 DEF SweepSkip, beamVars
<1>3. CASE SweepDone
  BY <1>3, RespondKeeps DEF SweepDone, Arrive
<1>4. CASE \E l \in Lasers : Tick(l)
  BY <1>4 DEF Tick, TickArrive, TickLeave, TickLost, TickCrash, Idle
<1>5. CASE World
  BY <1>5 DEF World, Aim, SplitAppears, SplitFalls, Collect, Idle
<1>6. CASE UNCHANGED vars
  BY <1>6 DEF vars
<1> QED BY <1>1, <1>2, <1>3, <1>4, <1>5, <1>6 DEF Next, Sweep

(* With names that do not contain each other, the loop of one spawner's    *)
(* beam never destroys a beam of another, splitters or not.                *)
THEOREM SpawnersApart ==
  ASSUME NameWithin = {}
  PROVE  Spec => Isolation
<1>1. [Next]_vars =>
        [\A a \in Lasers : sweep # <<>> /\ life[a] = "live" /\ life'[a] # "live"
           => owner[a] = owner[sweep[1]]]_vars
  BY StepIsolates
<1> QED BY <1>1, PTL DEF Spec, Isolation
=============================================================================
