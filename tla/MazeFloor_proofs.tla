--------------------------- MODULE MazeFloor_proofs ---------------------------
(***************************************************************************)
(* Proofs about the maze and the floor made of it, for every width and     *)
(* height from two up, every outcome of rand() and whoever walks on it.    *)
(***************************************************************************)
EXTENDS MazeFloor, FiniteSetTheorems, WellFoundedInduction, TLAPS

LEMMA LeastOf == ASSUME NEW T \in SUBSET Nat, T # {}
                 PROVE  \E x \in T : \A y \in T : x <= y
<1> DEFINE R == OpToRel(<, Nat)
<1>1. IsWellFoundedOn(R, Nat)
  BY NatLessThanWellFounded
<1>2. \A x, y \in Nat : y < x => <<y, x>> \in R
  BY DEF OpToRel
<1> HIDE DEF R
<1>3. PICK x \in T : \A y \in T : <<y, x>> \notin R
  BY <1>1, WFMin
<1>4. ASSUME NEW y \in T PROVE x <= y
  <2>1. x \in Nat /\ y \in Nat
    OBVIOUS
  <2>2. ~(y < x)
    BY <1>2, <1>3, <2>1
  <2> QED
    BY <2>1, <2>2
<1> QED
  BY <1>4

-----------------------------------------------------------------------------
(* THE GRID                                                                *)

LEMMA Sizes == /\ Width \in Nat /\ Width >= 3 /\ Width % 2 = 1
               /\ Height \in Nat /\ Height >= 3 /\ Height % 2 = 1
  BY MazeAssumption DEF Width, Height, MadeOdd

LEMMA InRooms ==
  ASSUME NEW c
  PROVE  /\ c \in Cells <=> /\ c = <<c[1], c[2]>> /\ c[1] \in 0..Width - 1
                            /\ c[2] \in 0..Height - 1
         /\ c \in Inner <=> /\ c = <<c[1], c[2]>> /\ c[1] \in 1..Width - 2
                            /\ c[2] \in 1..Height - 2
         /\ c \in Rooms <=> c \in Inner /\ c[1] % 2 = 1 /\ c[2] % 2 = 1
  BY DEF Cells, Inner, Rooms, Odd

LEMMA InnerAreCells == Inner \subseteq Cells
  BY Sizes DEF Inner, Cells

(* What is around a room is a room, if it is on the grid.                  *)
LEMMA RoomsAround ==
  ASSUME NEW c \in Rooms, NEW d \in Around(c)
  PROVE  /\ c \in Around(d) /\ d # c
         /\ d \in Cells => d \in Rooms
         /\ d \in Cells => /\ Between(c, d) \in Inner /\ Between(c, d) \notin Rooms
<1>1. /\ c = <<c[1], c[2]>> /\ c[1] \in 1..Width - 2 /\ c[2] \in 1..Height - 2
      /\ c[1] % 2 = 1 /\ c[2] % 2 = 1
  BY InRooms
<1> DEFINE x == c[1]
           y == c[2]
<1>2. x \in Int /\ y \in Int /\ x % 2 = 1 /\ y % 2 = 1
  BY <1>1, Sizes
<1>3. c = <<x, y>> /\ x \in 1..Width - 2 /\ y \in 1..Height - 2
  BY <1>1
<1> HIDE DEF x, y
<1>4. d \in {<<x - 2, y>>, <<x + 2, y>>, <<x, y - 2>>, <<x, y + 2>>}
  BY <1>3 DEF Around, x, y
<1>5. CASE d = <<x - 2, y>>
  <2>1. c \in Around(d) /\ d # c
    BY <1>2, <1>3, <1>5 DEF Around
  <2>2. ASSUME d \in Cells PROVE d \in Rooms /\ Between(c, d) \in Inner /\ Between(c, d) \notin Rooms
    <3>1. x - 2 >= 0 /\ (x - 2) % 2 = 1 /\ (x - 1) % 2 = 0
      BY <1>2, <1>5, <2>2, Sizes DEF Cells
    <3>2. Between(c, d) = <<x - 1, y>>
      BY <1>2, <1>3, <1>5 DEF Between
    <3> QED
      BY <1>2, <1>3, <1>5, <3>1, <3>2, Sizes DEF Rooms, Inner, Odd
  <2> QED
    BY <2>1, <2>2
<1>6. CASE d = <<x + 2, y>>
  <2>1. c \in Around(d) /\ d # c
    BY <1>2, <1>3, <1>6 DEF Around
  <2>2. ASSUME d \in Cells PROVE d \in Rooms /\ Between(c, d) \in Inner /\ Between(c, d) \notin Rooms
    <3>1. x + 2 <= Width - 1 /\ (x + 2) % 2 = 1 /\ (x + 1) % 2 = 0 /\ (Width - 1) % 2 = 0
      BY <1>2, <1>6, <2>2, Sizes DEF Cells
    <3>2. Between(c, d) = <<x + 1, y>>
      BY <1>2, <1>3, <1>6 DEF Between
    <3>3. x + 2 <= Width - 2
      BY <1>2, <3>1, Sizes
    <3> QED
      BY <1>2, <1>3, <1>6, <3>1, <3>2, <3>3, Sizes DEF Rooms, Inner, Odd
  <2> QED
    BY <2>1, <2>2
<1>7. CASE d = <<x, y - 2>>
  <2>1. c \in Around(d) /\ d # c
    BY <1>2, <1>3, <1>7 DEF Around
  <2>2. ASSUME d \in Cells PROVE d \in Rooms /\ Between(c, d) \in Inner /\ Between(c, d) \notin Rooms
    <3>1. y - 2 >= 0 /\ (y - 2) % 2 = 1 /\ (y - 1) % 2 = 0
      BY <1>2, <1>7, <2>2, Sizes DEF Cells
    <3>2. Between(c, d) = <<x, y - 1>>
      BY <1>2, <1>3, <1>7 DEF Between
    <3> QED
      BY <1>2, <1>3, <1>7, <3>1, <3>2, Sizes DEF Rooms, Inner, Odd
  <2> QED
    BY <2>1, <2>2
<1>8. CASE d = <<x, y + 2>>
  <2>1. c \in Around(d) /\ d # c
    BY <1>2, <1>3, <1>8 DEF Around
  <2>2. ASSUME d \in Cells PROVE d \in Rooms /\ Between(c, d) \in Inner /\ Between(c, d) \notin Rooms
    <3>1. y + 2 <= Height - 1 /\ (y + 2) % 2 = 1 /\ (y + 1) % 2 = 0 /\ (Height - 1) % 2 = 0
      BY <1>2, <1>8, <2>2, Sizes DEF Cells
    <3>2. Between(c, d) = <<x, y + 1>>
      BY <1>2, <1>3, <1>8 DEF Between
    <3>3. y + 2 <= Height - 2
      BY <1>2, <3>1, Sizes
    <3> QED
      BY <1>2, <1>3, <1>8, <3>1, <3>2, <3>3, Sizes DEF Rooms, Inner, Odd
  <2> QED
    BY <2>1, <2>2
<1> QED
  BY <1>4, <1>5, <1>6, <1>7, <1>8

-----------------------------------------------------------------------------
(* THE MAZE                                                                *)

(* Nothing outside the border is open before the doors are.                *)
Enclosed == phase # "done" => OpenCells \subseteq Inner

(* What is around an open room is open or on the frontier.                 *)
Spreading == \A c \in Rooms : \A d \in Around(c) :
  maze[c] = Open /\ d \in Inner => maze[d] # Wall

(* Where GenerateMaze is.                                                  *)
Phases ==
  /\ phase = "start" => \A c \in Cells : maze[c] = Wall
  /\ phase # "start" => OpenRooms # {}
  /\ phase \in {"doors", "done"} => \A c \in Cells : maze[c] # Frontier

MazeInv == MazeTypeOK /\ FrontierServed /\ Enclosed /\ Spreading /\ Phases /\ DoorsLeadIn

LEMMA MazeStarts == ASSUME MazeInit PROVE MazeInv
<1>1. /\ maze = [c \in Cells |-> Wall] /\ queued = [c \in Cells |-> 0]
      /\ phase = "start" /\ StartPoint = <<0, 0>> /\ ExitPoint = <<0, 0>>
  BY DEF MazeInit
<1>2. <<0, 0>> \in Cells
  BY Sizes DEF Cells
<1>3. MazeTypeOK
  BY <1>1, <1>2 DEF MazeTypeOK
<1>4. \A c \in Cells : maze[c] = Wall /\ maze[c] # Open /\ maze[c] # Frontier /\ queued[c] = 0
  BY <1>1 DEF Wall, Open, Frontier
<1>5. FrontierServed /\ Enclosed /\ Phases /\ DoorsLeadIn
  BY <1>1, <1>4 DEF FrontierServed, Enclosed, OpenCells, Phases, DoorsLeadIn
<1>6. Spreading
  BY <1>4, InnerAreCells DEF Spreading, Rooms
<1> QED
  BY <1>3, <1>5, <1>6 DEF MazeInv

(* What MarkCell comes to when room c is marked after the walls in W are   *)
(* opened and the entry of c is gone from the queue.                       *)
Fresh(c) == {d \in Around(c) : d \in Inner /\ maze[d] = Wall}

Dig(c, W) ==
  /\ maze' = [x \in Cells |-> IF x = c \/ x \in W THEN Open
                              ELSE IF x \in Fresh(c) THEN Frontier ELSE maze[x]]
  /\ queued' = [x \in Cells |-> IF x = c THEN 0
                                ELSE IF x \in Fresh(c) THEN queued[x] + 1 ELSE queued[x]]

LEMMA DigKeeps ==
  ASSUME MazeInv, NEW c \in Rooms, NEW W \in SUBSET (Inner \ Rooms), Dig(c, W),
         phase \in {"start", "grow"}, phase' = "grow", UNCHANGED <<StartPoint, ExitPoint>>
  PROVE  MazeInv'
<1>r. Rooms \subseteq Inner /\ Inner \subseteq Cells /\ c \in Cells /\ c \in Inner
  BY InnerAreCells DEF Rooms
<1>f. Fresh(c) \subseteq Rooms /\ c \notin Fresh(c)
  BY <1>r, RoomsAround DEF Fresh
<1>m. /\ \A x \in Cells : maze'[x] = IF x = c \/ x \in W THEN Open
                                     ELSE IF x \in Fresh(c) THEN Frontier ELSE maze[x]
      /\ \A x \in Cells : queued'[x] = IF x = c THEN 0
                                       ELSE IF x \in Fresh(c) THEN queued[x] + 1 ELSE queued[x]
  BY DEF Dig
<1>v. Open # Wall /\ Open # Frontier /\ Wall # Frontier
  BY DEF Open, Wall, Frontier
<1>1. MazeTypeOK'
  BY DEF Dig, MazeInv, MazeTypeOK
<1>2. FrontierServed'
  <2> SUFFICES ASSUME NEW x \in Cells
               PROVE  /\ queued'[x] = IF maze'[x] = Frontier THEN 1 ELSE 0
                      /\ maze'[x] = Frontier => x \in Rooms /\ Neighbors(x)' # {}
    BY DEF FrontierServed
  <2>0. /\ queued[x] = IF maze[x] = Frontier THEN 1 ELSE 0
        /\ maze[x] = Frontier => x \in Rooms /\ Neighbors(x) # {}
    BY DEF MazeInv, FrontierServed
  <2>1. CASE x = c
    BY <1>m, <1>v, <2>1
  <2>2. CASE x \in Fresh(c)
    <3>1. x \in Rooms /\ x # c /\ x \notin W /\ maze[x] = Wall /\ c \in Around(x)
      BY <1>f, <2>2, RoomsAround DEF Fresh
    <3>2. maze'[x] = Frontier /\ queued'[x] = 1
      BY <1>m, <1>v, <2>0, <2>2, <3>1
    <3>3. c \in Neighbors(x)'
      BY <1>m, <1>r, <3>1, InRooms, Sizes DEF Neighbors
    <3> QED
      BY <3>1, <3>2, <3>3
  <2>3. CASE x \in W
    <3>1. x # c /\ x \notin Fresh(c) /\ x \notin Rooms
      BY <1>f, <2>3
    <3> QED
      BY <1>m, <1>v, <2>0, <2>3, <3>1
  <2>4. CASE x # c /\ x \notin W /\ x \notin Fresh(c)
    <3>1. maze'[x] = maze[x] /\ queued'[x] = queued[x]
      BY <1>m, <2>4
    <3>2. ASSUME maze[x] = Frontier PROVE Neighbors(x)' # {}
      <4>1. x \in Rooms
        BY <2>0, <3>2
      <4>2. PICK d \in Neighbors(x) : TRUE
        BY <2>0, <3>2
      <4>3. d \in Cells /\ maze[d] = Open
        BY <4>1, <4>2, InRooms, Sizes DEF Neighbors, Around, Cells
      <4>4. maze'[d] = Open
        BY <1>m, <1>v, <4>3 DEF Fresh
      <4>5. d \in Neighbors(x)'
        BY <4>2, <4>4 DEF Neighbors
      <4> QED
        BY <4>5
    <3> QED
      BY <2>0, <3>1, <3>2
  <2> QED
    BY <2>1, <2>2, <2>3, <2>4
<1>3. Enclosed'
  <2> SUFFICES ASSUME NEW x \in Cells, maze'[x] = Open PROVE x \in Inner
    BY DEF Enclosed, OpenCells
  <2>1. maze[x] = Open => x \in Inner
    BY DEF MazeInv, Enclosed, OpenCells
  <2> QED
    BY <1>m, <1>r, <1>v, <2>1
<1>4. Spreading'
  <2> SUFFICES ASSUME NEW x \in Rooms, NEW d \in Around(x), maze'[x] = Open, d \in Inner
               PROVE  maze'[d] # Wall
    BY DEF Spreading
  <2>1. CASE x = c
    BY <1>m, <1>r, <1>v, <2>1 DEF Fresh
  <2>2. CASE x # c
    <3>1. maze[x] = Open
      BY <1>m, <1>r, <1>v, <2>2
    <3>2. maze[d] # Wall
      BY <3>1 DEF MazeInv, Spreading
    <3> QED
      BY <1>m, <1>r, <1>v, <3>2
  <2> QED
    BY <2>1, <2>2
<1>5. Phases'
  BY <1>m, <1>r DEF Phases, OpenRooms, OpenCells
<1>6. DoorsLeadIn'
  BY DEF DoorsLeadIn
<1> QED
  BY <1>1, <1>2, <1>3, <1>4, <1>5, <1>6 DEF MazeInv

LEMMA StartDigs == ASSUME MazeInv, Start PROVE \E c \in Rooms : Dig(c, {})
<1>1. PICK i \in 0 .. (Width \div 2) - 1, j \in 0 .. (Height \div 2) - 1 :
        MarkCell(<<2 * i + 1, 2 * j + 1>>, maze, queued)
  BY DEF Start
<1> DEFINE c == <<2 * i + 1, 2 * j + 1>>
<1>2. c \in Rooms
  BY Sizes DEF Rooms, Inner, Odd
<1> HIDE DEF c
<1>3. c \in Cells /\ (\A x \in Cells : maze[x] = Wall /\ queued[x] = 0) /\ maze \in [Cells -> {0, 1, 2}]
  BY <1>2, InnerAreCells DEF Start, MazeInv, Phases, FrontierServed, Rooms, Wall, Frontier,
                             MazeTypeOK, Open
<1>4. {d \in Around(c) : Addable([maze EXCEPT ![c] = Open], d)} = Fresh(c)
  BY <1>2, <1>3, RoomsAround, InnerAreCells DEF Addable, Fresh, Wall
<1>5. Dig(c, {})
  <2>1. c \notin Fresh(c)
    BY <1>2, RoomsAround DEF Fresh
  <2>2. MarkCell(c, maze, queued)
    BY <1>1 DEF c
  <2> QED
    BY <1>3, <1>4, <2>1, <2>2 DEF MarkCell, Dig
<1> QED
  BY <1>2, <1>5

LEMMA GrowDigs ==
  ASSUME MazeInv, Grow
  PROVE  \E c \in Rooms : \E d \in Around(c) \cap Rooms :
           maze[c] = Frontier /\ maze[d] = Open /\ Dig(c, {Between(c, d)})
<1>1. PICK c \in Queue :
        \/ \E d \in Neighbors(c) :
             MarkCell(c, [maze EXCEPT ![Between(c, d)] = Open], Popped(c))
        \/ Neighbors(c) = {}
  BY DEF Grow
<1>2. c \in Cells /\ queued[c] = 1 /\ maze[c] = Frontier /\ c \in Rooms /\ Neighbors(c) # {}
  BY DEF Queue, MazeInv, FrontierServed
<1>3. PICK d \in Neighbors(c) :
        MarkCell(c, [maze EXCEPT ![Between(c, d)] = Open], Popped(c))
  BY <1>1, <1>2
<1>4. d \in Around(c) /\ d \in Cells
  BY <1>2, InRooms, Sizes DEF Neighbors, Around, Cells
<1> DEFINE b == Between(c, d)
<1>5. b \in Inner /\ b \notin Rooms /\ b \in Cells /\ b # c
  BY <1>2, <1>4, RoomsAround, InnerAreCells
<1>6. MarkCell(c, [maze EXCEPT ![b] = Open], Popped(c))
  BY <1>3
<1> HIDE DEF b
<1>7. maze \in [Cells -> {0, 1, 2}] /\ queued \in [Cells -> Nat]
  BY DEF MazeInv, MazeTypeOK, Open, Wall, Frontier
<1>8. \A x \in Around(c) : x \in Inner => x # b /\ x # c /\ x \in Cells
  BY <1>2, <1>5, RoomsAround, InnerAreCells
<1>9. {x \in Around(c) : Addable([[maze EXCEPT ![b] = Open] EXCEPT ![c] = Open], x)} = Fresh(c)
  BY <1>7, <1>8 DEF Addable, Fresh
<1>10. Dig(c, {b})
  <2>1. c \notin Fresh(c) /\ Fresh(c) \subseteq Cells
    BY <1>8 DEF Fresh
  <2>2. maze' = [x \in Cells |-> IF x = c \/ x \in {b} THEN Open
                                 ELSE IF x \in Fresh(c) THEN Frontier ELSE maze[x]]
    <3> DEFINE m == [maze EXCEPT ![b] = Open]
    <3>1. maze' = [x \in Cells |-> IF x \in Fresh(c) THEN Frontier ELSE [m EXCEPT ![c] = Open][x]]
      <4>1. MarkCell(c, m, Popped(c)) /\ Fresh(c) = {x \in Around(c) : Addable([m EXCEPT ![c] = Open], x)}
        BY <1>6, <1>9
      <4> HIDE DEF m
      <4> QED
        BY <4>1 DEF MarkCell
    <3>2. b \notin Fresh(c)
      BY <1>8 DEF Fresh
    <3> QED
      BY <1>2, <1>5, <1>7, <2>1, <3>1, <3>2
  <2>3. queued' = [x \in Cells |-> IF x = c THEN 0
                                   ELSE IF x \in Fresh(c) THEN queued[x] + 1 ELSE queued[x]]
    <3>1. queued' = [x \in Cells |-> IF x \in Fresh(c) THEN Popped(c)[x] + 1 ELSE Popped(c)[x]]
      BY <1>6, <1>9 DEF MarkCell
    <3>2. \A x \in Cells : Popped(c)[x] = IF x = c THEN 0 ELSE queued[x]
      BY <1>2, <1>7 DEF Popped
    <3> QED
      BY <2>1, <3>1, <3>2
  <2> QED
    BY <2>2, <2>3 DEF Dig
<1> QED
  <2>1. maze[d] = Open /\ d \in Rooms
    BY <1>2, <1>3, <1>4, RoomsAround DEF Neighbors
  <2>2. Dig(c, {Between(c, d)})
    BY <1>10 DEF b
  <2> QED
    BY <1>2, <1>4, <2>1, <2>2

LEMMA StartKeeps == ASSUME MazeInv, Start PROVE MazeInv'
BY StartDigs, DigKeeps DEF Start

LEMMA GrowKeeps == ASSUME MazeInv, Grow PROVE MazeInv'
<1>1. PICK c \in Rooms : \E d \in Around(c) \cap Rooms : Dig(c, {Between(c, d)})
  BY GrowDigs
<1>2. PICK d \in Around(c) \cap Rooms : Dig(c, {Between(c, d)})
  BY <1>1
<1>3. {Between(c, d)} \subseteq Inner \ Rooms
  BY <1>2, RoomsAround, InnerAreCells DEF Rooms
<1> QED
  BY <1>2, <1>3, DigKeeps DEF Grow

(* With no frontier left, every room is open: of those that are not, take  *)
(* one that is as near as possible to an open room; the room next to it on *)
(* the way there is open, so it was put on the frontier.                   *)
LEMMA AllRooms ==
  ASSUME MazeInv, phase \in {"grow", "doors", "done"}, \A x \in Cells : maze[x] # Frontier
  PROVE  Rooms \subseteq OpenCells
<1>c. Rooms \subseteq Inner /\ Inner \subseteq Cells
  BY InnerAreCells DEF Rooms
<1>1. PICK r \in Rooms : maze[r] = Open
  BY DEF MazeInv, Phases, OpenRooms, OpenCells
<1>2. SUFFICES ASSUME NEW w \in Rooms, maze[w] # Open PROVE FALSE
  BY <1>c DEF OpenCells
<1> DEFINE Abs(n) == IF n >= 0 THEN n ELSE -n
           Far(u) == Abs(u[1] - r[1]) + Abs(u[2] - r[2])
           Closed == {u \in Rooms : maze[u] # Open}
           T == {Far(u) : u \in Closed}
<1>3. \A u \in Rooms : /\ u = <<u[1], u[2]>> /\ u[1] \in Int /\ u[2] \in Int
                       /\ u[1] >= 1 /\ u[2] >= 1 /\ u[1] <= Width - 2 /\ u[2] <= Height - 2
                       /\ u[1] % 2 = 1 /\ u[2] % 2 = 1
  BY InRooms, Sizes
<1>4. \A u \in Rooms : Far(u) \in Nat
  BY <1>1, <1>3
<1>5. PICK k \in T : \A l \in T : k <= l
  <2>1. T \in SUBSET Nat /\ T # {}
    BY <1>2, <1>4
  <2> HIDE DEF T
  <2> QED
    BY <2>1, LeastOf
<1>6. PICK u \in Closed : \A z \in Closed : Far(u) <= Far(z)
  BY <1>5
<1>7. ASSUME NEW z \in Rooms, z \in Around(u), Far(z) < Far(u) PROVE FALSE
  <2>1. maze[z] = Open
    <3>1. Far(z) \in Nat /\ Far(u) \in Nat
      BY <1>4
    <3>2. z \notin Closed
      <4> SUFFICES ASSUME z \in Closed PROVE FALSE
        OBVIOUS
      <4>1. Far(u) <= Far(z)
        BY <1>6
      <4> HIDE DEF Far
      <4> QED
        BY <1>7, <3>1, <4>1
    <3> QED
      BY <3>2
  <2>2. u \in Around(z) /\ u \in Inner /\ u \in Cells
    BY <1>7, <1>c, RoomsAround
  <2>3. maze[u] # Wall
    BY <2>1, <2>2 DEF MazeInv, Spreading
  <2> QED
    BY <2>2, <2>3 DEF MazeInv, MazeTypeOK
<1> DEFINE x == u[1]
           y == u[2]
           a == r[1]
           b == r[2]
<1>8. /\ u = <<x, y>> /\ r = <<a, b>> /\ x \in Int /\ y \in Int /\ a \in Int /\ b \in Int
      /\ x >= 1 /\ y >= 1 /\ x <= Width - 2 /\ y <= Height - 2 /\ x % 2 = 1 /\ y % 2 = 1
      /\ a >= 1 /\ b >= 1 /\ a <= Width - 2 /\ b <= Height - 2 /\ a % 2 = 1 /\ b % 2 = 1
  BY <1>1, <1>3
<1>9. x # a \/ y # b
  BY <1>1, <1>8
<1>10. /\ Around(u) = {<<x - 2, y>>, <<x + 2, y>>, <<x, y - 2>>, <<x, y + 2>>}
       /\ Far(u) = Abs(x - a) + Abs(y - b)
       /\ Far(<<x - 2, y>>) = Abs(x - 2 - a) + Abs(y - b)
       /\ Far(<<x + 2, y>>) = Abs(x + 2 - a) + Abs(y - b)
       /\ Far(<<x, y - 2>>) = Abs(x - a) + Abs(y - 2 - b)
       /\ Far(<<x, y + 2>>) = Abs(x - a) + Abs(y + 2 - b)
  BY <1>8 DEF Around
<1> HIDE DEF x, y, a, b, Far, Closed, T
<1>11. CASE x > a
  <2>1. x - 2 >= a /\ (x - 2) % 2 = 1
    BY <1>8, <1>11
  <2>2. <<x - 2, y>> \in Rooms
    BY <1>8, <2>1, InRooms, Sizes
  <2>3. Far(<<x - 2, y>>) < Far(u)
    BY <1>8, <1>10, <2>1
  <2> QED
    BY <1>7, <1>10, <2>2, <2>3
<1>12. CASE x < a
  <2>1. x + 2 <= a /\ (x + 2) % 2 = 1
    BY <1>8, <1>12
  <2>2. <<x + 2, y>> \in Rooms
    BY <1>8, <2>1, InRooms, Sizes
  <2>3. Far(<<x + 2, y>>) < Far(u)
    BY <1>8, <1>10, <2>1
  <2> QED
    BY <1>7, <1>10, <2>2, <2>3
<1>13. CASE y > b
  <2>1. y - 2 >= b /\ (y - 2) % 2 = 1
    BY <1>8, <1>13
  <2>2. <<x, y - 2>> \in Rooms
    BY <1>8, <2>1, InRooms, Sizes
  <2>3. Far(<<x, y - 2>>) < Far(u)
    BY <1>8, <1>10, <2>1
  <2> QED
    BY <1>7, <1>10, <2>2, <2>3
<1>14. CASE y < b
  <2>1. y + 2 <= b /\ (y + 2) % 2 = 1
    BY <1>8, <1>14
  <2>2. <<x, y + 2>> \in Rooms
    BY <1>8, <2>1, InRooms, Sizes
  <2>3. Far(<<x, y + 2>>) < Far(u)
    BY <1>8, <1>10, <2>1
  <2> QED
    BY <1>7, <1>10, <2>2, <2>3
<1> QED
  BY <1>8, <1>9, <1>11, <1>12, <1>13, <1>14

LEMMA GrownKeeps == ASSUME MazeInv, Grown PROVE MazeInv'
<1>1. phase = "grow" /\ Queue = {} /\ phase' = "doors" /\ UNCHANGED <<maze, queued, StartPoint, ExitPoint>>
  BY DEF Grown
<1>2. \A c \in Cells : maze[c] # Frontier
  BY <1>1 DEF Queue, MazeInv, FrontierServed
<1>3. MazeTypeOK' /\ FrontierServed' /\ Enclosed' /\ Spreading'
  BY <1>1 DEF MazeInv, MazeTypeOK, FrontierServed, Neighbors, Enclosed, OpenCells, Spreading
<1>4. Phases' /\ DoorsLeadIn'
  BY <1>1, <1>2 DEF MazeInv, Phases, OpenRooms, OpenCells, DoorsLeadIn
<1> QED
  BY <1>3, <1>4 DEF MazeInv

LEMMA DoorsKeeps == ASSUME MazeInv, Doors PROVE MazeInv'
<1>1. PICK x \in Edges(1), z \in Edges(Height - 2) :
        StartPoint' = <<x, 0>> /\ ExitPoint' = <<z, Height - 1>>
  BY DEF Doors
<1> DEFINE s == <<x, 0>>
           e == <<z, Height - 1>>
<1>2. /\ x \in 1..Width - 2 /\ maze[<<x, 1>>] = Open
      /\ z \in 1..Width - 2 /\ maze[<<z, Height - 2>>] = Open
  BY DEF Edges
<1>3. /\ s \in Cells /\ e \in Cells /\ s \notin Inner /\ e \notin Inner
      /\ <<x, 1>> \in Cells /\ <<z, Height - 2>> \in Cells
  BY <1>2, Sizes DEF Cells, Inner
<1>4. /\ StartPoint' = s /\ ExitPoint' = e /\ phase = "doors" /\ phase' = "done" /\ queued' = queued
      /\ maze' = [maze EXCEPT ![s] = Open, ![e] = Open]
  BY <1>1 DEF Doors
<1>e. s[1] = x /\ s[2] = 0 /\ e[1] = z /\ e[2] = Height - 1
  OBVIOUS
<1> HIDE DEF s, e
<1>5. /\ maze' \in [Cells -> {Open, Wall, Frontier}]
      /\ \A c \in Cells : maze'[c] = IF c = s \/ c = e THEN Open ELSE maze[c]
  BY <1>3, <1>4 DEF MazeInv, MazeTypeOK
<1>6. MazeTypeOK'
  BY <1>3, <1>4, <1>5 DEF MazeInv, MazeTypeOK
<1>7. \A c \in Cells : maze[c] # Frontier /\ maze'[c] # Frontier
  BY <1>4, <1>5 DEF MazeInv, Phases, Open, Frontier
<1>8. FrontierServed'
  BY <1>4, <1>7 DEF MazeInv, FrontierServed
<1>9. Rooms \subseteq OpenCells /\ Rooms \subseteq Inner /\ Inner \subseteq Cells
  BY <1>4, <1>7, AllRooms, InnerAreCells DEF Rooms
<1>10. Enclosed'
  BY <1>4 DEF Enclosed
<1>11. Spreading'
  BY <1>3, <1>5, <1>9 DEF MazeInv, Spreading
<1>12. Phases'
  BY <1>4, <1>5, <1>7, <1>9 DEF MazeInv, Phases, OpenRooms, OpenCells
<1>13. DoorsLeadIn'
  <2>1. Rooms \subseteq OpenCells'
    BY <1>5, <1>9 DEF OpenCells
  <2>2. {c \in OpenCells' : c \notin Inner} = {s, e}
    <3>1. \A c \in Cells : maze[c] = Open => c \in Inner
      BY <1>4 DEF MazeInv, Enclosed, OpenCells
    <3> QED
      BY <1>3, <1>5, <3>1 DEF OpenCells
  <2>3. maze'[<<x, 1>>] = Open /\ maze'[<<z, Height - 2>>] = Open
    BY <1>2, <1>3, <1>5
  <2> QED
    BY <1>4, <1>e, <2>1, <2>2, <2>3 DEF DoorsLeadIn
<1> QED
  BY <1>6, <1>8, <1>10, <1>11, <1>12, <1>13 DEF MazeInv

LEMMA MazeKept == ASSUME MazeInv, UNCHANGED mazeVars PROVE MazeInv'
<1>1. MazeTypeOK' /\ FrontierServed' /\ Enclosed'
  BY DEF MazeInv, mazeVars, MazeTypeOK, FrontierServed, Neighbors, Enclosed, OpenCells
<1>2. Spreading' /\ Phases' /\ DoorsLeadIn'
  BY DEF MazeInv, mazeVars, Spreading, Phases, OpenRooms, OpenCells, DoorsLeadIn
<1> QED
  BY <1>1, <1>2 DEF MazeInv

-----------------------------------------------------------------------------
(* THE FLOOR                                                               *)

FloorTypes ==
  /\ HoldingTime \in [Cells -> BOOLEAN] /\ ResetTime \in [Cells -> BOOLEAN]
  /\ timer \in [Cells -> {"none", "fall", "reset"}]
  /\ physics \in [Cells -> BOOLEAN] /\ home \in [Cells -> BOOLEAN]

(* Only what holds for a time at all ever falls.                           *)
HoldsFirst ==
  \A c \in Cells : timer[c] = "fall" \/ physics[c] \/ ~home[c] => HoldingTime[c]

(* The platforms are made from the finished maze, and not before.          *)
Built ==
  IF spawned THEN phase = "done" /\ \A c \in Cells : HoldingTime[c] = (maze[c] # Open)
             ELSE \A c \in Cells : timer[c] # "fall" /\ ~physics[c] /\ home[c]

FloorInv == MazeInv /\ FloorTypes /\ HoldsFirst /\ Built

LEMMA WalkKeeps == ASSUME FloorInv, NEW c \in Cells,
                          \/ \E w \in Walkers : Floor!Overlap(c, w) \/ Floor!StepOff(c, w)
                          \/ Floor!Timers(c) \/ Floor!Drop(c)
                   PROVE  FloorTypes' /\ HoldsFirst' /\ UNCHANGED HoldingTime
<1> USE DEF Floor!times, Floor!SetTimer
<1>1. ASSUME NEW w \in Walkers, Floor!Overlap(c, w)
      PROVE  FloorTypes' /\ HoldsFirst' /\ UNCHANGED HoldingTime
  <2>1. /\ UNCHANGED <<HoldingTime, ResetTime, physics, home>>
        /\ \/ UNCHANGED timer
           \/ timer' = [timer EXCEPT ![c] = IF HoldingTime[c] THEN "fall" ELSE "none"]
    BY <1>1 DEF Floor!Overlap
  <2>2. FloorTypes'
    BY <2>1 DEF FloorInv, FloorTypes
  <2>3. HoldsFirst'
    BY <2>1 DEF FloorInv, FloorTypes, HoldsFirst
  <2> QED
    BY <2>1, <2>2, <2>3
<1>2. ASSUME NEW w \in Walkers, Floor!StepOff(c, w)
      PROVE  FloorTypes' /\ HoldsFirst' /\ UNCHANGED HoldingTime
  BY <1>2 DEF Floor!StepOff, FloorInv, FloorTypes, HoldsFirst
<1>3. ASSUME Floor!FallingPlatform(c)
      PROVE  FloorTypes' /\ HoldsFirst' /\ UNCHANGED HoldingTime
  <2>1. /\ timer[c] = "fall" /\ physics' = [physics EXCEPT ![c] = TRUE]
        /\ timer' = [timer EXCEPT ![c] = IF ResetTime[c] THEN "reset" ELSE "none"]
        /\ UNCHANGED <<HoldingTime, ResetTime, home>>
    BY <1>3 DEF Floor!FallingPlatform
  <2>2. FloorTypes'
    BY <2>1 DEF FloorInv, FloorTypes
  <2>3. HoldsFirst'
    BY <2>1 DEF FloorInv, FloorTypes, HoldsFirst
  <2> QED
    BY <2>1, <2>2, <2>3
<1>4. ASSUME Floor!ResetPlatform(c)
      PROVE  FloorTypes' /\ HoldsFirst' /\ UNCHANGED HoldingTime
  <2>1. /\ physics' = [physics EXCEPT ![c] = FALSE] /\ timer' = [timer EXCEPT ![c] = "none"]
        /\ home' = [home EXCEPT ![c] = TRUE] /\ UNCHANGED <<HoldingTime, ResetTime>>
    BY <1>4 DEF Floor!ResetPlatform
  <2>2. FloorTypes'
    BY <2>1 DEF FloorInv, FloorTypes
  <2>3. HoldsFirst'
    BY <2>1 DEF FloorInv, FloorTypes, HoldsFirst
  <2> QED
    BY <2>1, <2>2, <2>3
<1>5. ASSUME Floor!Drop(c)
      PROVE  FloorTypes' /\ HoldsFirst' /\ UNCHANGED HoldingTime
  <2>1. /\ physics[c] /\ home' = [home EXCEPT ![c] = FALSE]
        /\ UNCHANGED <<HoldingTime, ResetTime, timer, physics>>
    BY <1>5 DEF Floor!Drop
  <2>2. FloorTypes'
    BY <2>1 DEF FloorInv, FloorTypes
  <2>3. HoldsFirst'
    BY <2>1 DEF FloorInv, FloorTypes, HoldsFirst
  <2> QED
    BY <2>1, <2>2, <2>3
<1> QED
  BY <1>1, <1>2, <1>3, <1>4, <1>5 DEF Floor!Timers

(* The invariant that the rest follows from.                               *)
THEOREM FloorInvariant == Spec => []FloorInv
<1>1. Init => FloorInv
  <2> SUFFICES ASSUME Init PROVE FloorInv
    OBVIOUS
  <2>1. MazeInv
    BY MazeStarts DEF Init
  <2>2. FloorTypes /\ HoldsFirst /\ Built
    BY DEF Init, Floor!AtRest, FloorTypes, HoldsFirst, Built
  <2> QED
    BY <2>1, <2>2 DEF FloorInv
<1>2. FloorInv /\ [Next]_vars => FloorInv'
  <2> SUFFICES ASSUME FloorInv, [Next]_vars PROVE FloorInv'
    OBVIOUS
  <2>1. CASE GenerateMaze
    <3>1. MazeInv'
      BY <2>1, StartKeeps, GrowKeeps, GrownKeeps, DoorsKeeps DEF GenerateMaze, MazeNext, FloorInv
    <3>2. FloorTypes' /\ HoldsFirst' /\ Built'
      BY <2>1 DEF GenerateMaze, floorVars, FloorInv, FloorTypes, HoldsFirst, Built
    <3> QED
      BY <3>1, <3>2 DEF FloorInv
  <2>2. CASE SpawnMaze
    <3>1. MazeInv'
      BY <2>2, MazeKept DEF SpawnMaze, FloorInv
    <3>2. FloorTypes' /\ HoldsFirst' /\ Built'
      BY <2>2 DEF SpawnMaze, mazeVars, FloorInv, FloorTypes, HoldsFirst, Built
    <3> QED
      BY <3>1, <3>2 DEF FloorInv
  <2>3. CASE Walk
    <3>1. MazeInv'
      BY <2>3, MazeKept DEF Walk, FloorInv
    <3>2. FloorTypes' /\ HoldsFirst' /\ UNCHANGED HoldingTime
      BY <2>3, WalkKeeps DEF Walk, Floor!FallNext
    <3>3. Built'
      BY <2>3, <3>2 DEF Walk, mazeVars, FloorInv, Built
    <3> QED
      BY <3>1, <3>2, <3>3 DEF FloorInv
  <2>4. CASE UNCHANGED vars
    <3>1. MazeInv'
      BY <2>4, MazeKept DEF vars, FloorInv
    <3>2. FloorTypes' /\ HoldsFirst' /\ Built'
      BY <2>4 DEF vars, mazeVars, floorVars, FloorInv, FloorTypes, HoldsFirst, Built
    <3> QED
      BY <3>1, <3>2 DEF FloorInv
  <2> QED
    BY <2>1, <2>2, <2>3, <2>4 DEF Next
<1> QED
  BY <1>1, <1>2, PTL DEF Spec

(* The queue holds every frontier room once, and a popped room always has  *)
(* an open neighbour to be joined to: no room is dropped by the loop.      *)
THEOREM NoRoomIsDropped == Spec => []FrontierServed
<1>1. FloorInv => FrontierServed
  BY DEF FloorInv, MazeInv
<1> QED
  BY <1>1, FloorInvariant, PTL

(* The finished maze has opened every room, and its two doors lead in.     *)
THEOREM EveryRoomAndBothDoors == Spec => []DoorsLeadIn
<1>1. FloorInv => DoorsLeadIn
  BY DEF FloorInv, MazeInv
<1> QED
  BY <1>1, FloorInvariant, PTL

(* No platform of an open cell ever moves, whoever steps where.            *)
THEOREM PathNeverFalls == Spec => []PathHolds
<1>1. FloorInv => PathHolds
  BY DEF FloorInv, FloorTypes, HoldsFirst, Built, PathHolds, OpenCells
<1> QED
  BY <1>1, FloorInvariant, PTL

-----------------------------------------------------------------------------
(* THE TREE                                                                *)

(* A wall between two rooms is opened with the second of them.             *)
WallsLast ==
  \A c \in Rooms : \A d \in Around(c) \cap Rooms : maze[Between(c, d)] = Open => maze[c] = Open

NoPassage == phase = "start" => OpenRooms = {} /\ Passages = {}

TreeInv == Tree /\ WallsLast /\ NoPassage

(* The two rooms beside a wall can be read off it.                         *)
LEMMA Beside ==
  ASSUME NEW c \in Rooms, NEW d \in Around(c)
  PROVE  LET b == Between(c, d) IN
         /\ Between(d, c) = b
         /\ \/ b[1] % 2 = 0 /\ {c, d} = {<<b[1] - 1, b[2]>>, <<b[1] + 1, b[2]>>}
            \/ b[1] % 2 = 1 /\ {c, d} = {<<b[1], b[2] - 1>>, <<b[1], b[2] + 1>>}
<1> DEFINE x == c[1]
           y == c[2]
           b == Between(c, d)
<1>1. /\ c = <<x, y>> /\ x \in Int /\ y \in Int /\ x % 2 = 1 /\ y % 2 = 1
  BY InRooms, Sizes
<1> HIDE DEF x, y
<1>2. d \in {<<x - 2, y>>, <<x + 2, y>>, <<x, y - 2>>, <<x, y + 2>>}
  BY <1>1 DEF Around
<1>3. CASE d = <<x - 2, y>>
  <2>1. b = <<x - 1, y>> /\ Between(d, c) = <<x - 1, y>>
    BY <1>1, <1>3 DEF Between
  <2>2. (x - 1) % 2 = 0 /\ (x - 1) - 1 = x - 2 /\ (x - 1) + 1 = x
    BY <1>1
  <2> HIDE DEF b
  <2>3. b[1] = x - 1 /\ b[2] = y
    BY <2>1
  <2>4. {c, d} = {<<b[1] - 1, b[2]>>, <<b[1] + 1, b[2]>>}
    BY <1>1, <1>3, <2>2, <2>3
  <2> QED
    BY <2>1, <2>2, <2>3, <2>4 DEF b
<1>4. CASE d = <<x + 2, y>>
  <2>1. b = <<x + 1, y>> /\ Between(d, c) = <<x + 1, y>>
    BY <1>1, <1>4 DEF Between
  <2>2. (x + 1) % 2 = 0 /\ (x + 1) - 1 = x /\ (x + 1) + 1 = x + 2
    BY <1>1
  <2> HIDE DEF b
  <2>3. b[1] = x + 1 /\ b[2] = y
    BY <2>1
  <2>4. {c, d} = {<<b[1] - 1, b[2]>>, <<b[1] + 1, b[2]>>}
    BY <1>1, <1>4, <2>2, <2>3
  <2> QED
    BY <2>1, <2>2, <2>3, <2>4 DEF b
<1>5. CASE d = <<x, y - 2>>
  <2>1. b = <<x, y - 1>> /\ Between(d, c) = <<x, y - 1>>
    BY <1>1, <1>5 DEF Between
  <2>2. (y - 1) - 1 = y - 2 /\ (y - 1) + 1 = y
    BY <1>1
  <2> HIDE DEF b
  <2>3. b[1] = x /\ b[2] = y - 1
    BY <2>1
  <2>4. {c, d} = {<<b[1], b[2] - 1>>, <<b[1], b[2] + 1>>}
    BY <1>1, <1>5, <2>2, <2>3
  <2> QED
    BY <1>1, <2>1, <2>3, <2>4 DEF b
<1>6. CASE d = <<x, y + 2>>
  <2>1. b = <<x, y + 1>> /\ Between(d, c) = <<x, y + 1>>
    BY <1>1, <1>6 DEF Between
  <2>2. (y + 1) - 1 = y /\ (y + 1) + 1 = y + 2
    BY <1>1
  <2> HIDE DEF b
  <2>3. b[1] = x /\ b[2] = y + 1
    BY <2>1
  <2>4. {c, d} = {<<b[1], b[2] - 1>>, <<b[1], b[2] + 1>>}
    BY <1>1, <1>6, <2>2, <2>3
  <2> QED
    BY <1>1, <2>1, <2>3, <2>4 DEF b
<1> QED
  BY <1>2, <1>3, <1>4, <1>5, <1>6

LEMMA FiniteGrid == /\ IsFiniteSet(OpenRooms) /\ IsFiniteSet(Passages)
<1>1. IsFiniteSet(0 .. Width - 1) /\ IsFiniteSet(0 .. Height - 1)
  BY Sizes, FS_Interval
<1>2. IsFiniteSet(Cells)
  BY <1>1, FS_Product DEF Cells
<1>3. OpenRooms \subseteq Cells /\ Passages \subseteq Cells
  BY DEF OpenRooms, Passages, OpenCells
<1> QED
  BY <1>2, <1>3, FS_Subset

(* A room and the wall to an open neighbour are opened.                    *)
LEMMA GrowTree ==
  ASSUME MazeInv, TreeInv, NEW c \in Rooms, NEW d \in Around(c) \cap Rooms,
         maze[c] = Frontier, maze[d] = Open, Dig(c, {Between(c, d)}), phase' # "start"
  PROVE  TreeInv'
<1> DEFINE b == Between(c, d)
<1>0. /\ Rooms \subseteq Inner /\ Inner \subseteq Cells
      /\ b \in Inner /\ b \notin Rooms /\ c \in Around(d) /\ c # d
      /\ Open # Frontier /\ Wall # Open
  BY RoomsAround, InnerAreCells DEF Rooms, Open, Frontier, Wall
<1>1. Fresh(c) \subseteq Rooms /\ \A x \in Fresh(c) : maze[x] = Wall
  BY <1>0, RoomsAround DEF Fresh
<1>2. \A x \in Cells : maze'[x] = Open <=> x = c \/ x = b \/ maze[x] = Open
  BY <1>0, <1>1 DEF Dig
<1>3. /\ OpenRooms' = OpenRooms \cup {c} /\ c \notin OpenRooms /\ d \in OpenRooms
      /\ OpenCells' = OpenCells \cup {b, c}
  BY <1>0, <1>2 DEF OpenRooms, OpenCells
<1>4. b \notin Passages
  BY <1>0 DEF TreeInv, WallsLast, Passages, OpenCells
<1>5. Passages' = Passages \cup {b}
  BY <1>0, <1>2 DEF Passages, OpenCells
<1>6. Between(d, c) = b
  BY Beside
<1> HIDE DEF b
<1>7. NoCycle'
  <2>1. /\ Cardinality(OpenRooms') = Cardinality(OpenRooms) + 1
        /\ Cardinality(Passages') = Cardinality(Passages) + 1
    BY <1>3, <1>4, <1>5, FiniteGrid, FS_AddElement
  <2>2. Cardinality(Passages) + 1 = Cardinality(OpenRooms)
    BY <1>3 DEF TreeInv, Tree, NoCycle
  <2>3. Cardinality(Passages) \in Nat /\ Cardinality(OpenRooms) \in Nat
    BY FiniteGrid, FS_CardinalityType
  <2> QED
    BY <2>1, <2>2, <2>3 DEF NoCycle
<1>8. Connected'
  <2> SUFFICES ASSUME NEW A \in SUBSET OpenRooms', A # {}, A # OpenRooms'
               PROVE  \E x \in A, y \in OpenRooms' \ A : Joined(x, y)'
    BY DEF Connected
  <2>0. Joined(c, d)' /\ Joined(d, c)'
    BY <1>0, <1>3, <1>6 DEF Joined, OpenRooms, b
  <2>1. CASE A = {c}
    BY <1>0, <1>3, <2>0, <2>1
  <2>2. CASE A = OpenRooms
    BY <1>3, <2>0, <2>2
  <2>3. CASE A # {c} /\ A # OpenRooms
    <3> DEFINE B == A \ {c}
    <3>1. B \in SUBSET OpenRooms /\ B # {}
      BY <1>3, <2>3
    <3>2. B # OpenRooms
      BY <1>3, <2>3
    <3>3. PICK x \in B, y \in OpenRooms \ B : Joined(x, y)
      BY <3>1, <3>2 DEF TreeInv, Tree, Connected
    <3>4. x \in A /\ y \in OpenRooms' \ A
      BY <1>3, <3>3
    <3>5. Joined(x, y)'
      BY <1>3, <3>3 DEF Joined
    <3> QED
      BY <3>4, <3>5
  <2> QED
    BY <2>1, <2>2, <2>3
<1>9. WallsLast'
  <2> SUFFICES ASSUME NEW x \in Rooms, NEW y \in Around(x) \cap Rooms, maze'[Between(x, y)] = Open
               PROVE  maze'[x] = Open
    BY DEF WallsLast
  <2>1. Between(x, y) \in Cells /\ Between(x, y) \notin Rooms
    BY <1>0, RoomsAround
  <2>2. CASE Between(x, y) = b
    <3>a. \/ b[1] % 2 = 0 /\ {c, d} = {<<b[1] - 1, b[2]>>, <<b[1] + 1, b[2]>>}
          \/ b[1] % 2 = 1 /\ {c, d} = {<<b[1], b[2] - 1>>, <<b[1], b[2] + 1>>}
      BY Beside DEF b
    <3>b. \/ b[1] % 2 = 0 /\ {x, y} = {<<b[1] - 1, b[2]>>, <<b[1] + 1, b[2]>>}
          \/ b[1] % 2 = 1 /\ {x, y} = {<<b[1], b[2] - 1>>, <<b[1], b[2] + 1>>}
      BY <2>2, Beside
    <3>1. {x, y} = {c, d}
      <4> DEFINE odd == b[1] % 2
      <4>1. 0 # 1 /\ odd = b[1] % 2
        OBVIOUS
      <4> HIDE DEF odd
      <4> QED
        BY <3>a, <3>b, <4>1
    <3> QED
      BY <1>0, <1>2, <3>1
  <2>3. CASE Between(x, y) # b
    <3>1. maze[x] = Open
      BY <1>2, <2>1, <2>3 DEF TreeInv, WallsLast
    <3> QED
      BY <1>0, <1>2, <3>1
  <2> QED
    BY <2>2, <2>3
<1>10. NoPassage'
  BY DEF NoPassage
<1> QED
  BY <1>7, <1>8, <1>9, <1>10 DEF TreeInv, Tree

(* The first room.                                                         *)
LEMMA StartTree ==
  ASSUME MazeInv, TreeInv, NEW c \in Rooms, Dig(c, {}), phase = "start", phase' # "start"
  PROVE  TreeInv'
<1>0. Rooms \subseteq Inner /\ Inner \subseteq Cells /\ Open # Frontier /\ Wall # Open
  BY InnerAreCells DEF Rooms, Open, Frontier, Wall
<1>1. \A x \in Cells : maze[x] = Wall
  BY DEF MazeInv, Phases
<1>2. \A x \in Cells : maze'[x] = Open <=> x = c
  BY <1>0, <1>1 DEF Dig
<1>3. OpenRooms' = {c} /\ Passages' = {}
  BY <1>0, <1>2 DEF OpenRooms, Passages, OpenCells
<1>4. NoCycle'
  <2>1. Cardinality({c}) = 1 /\ Cardinality({}) = 0
    BY FS_Singleton, FS_EmptySet
  <2> QED
    BY <1>3, <2>1 DEF NoCycle
<1>5. Connected'
  BY <1>3 DEF Connected
<1>6. WallsLast'
  <2>1. \A x \in Rooms : \A y \in Around(x) \cap Rooms : Between(x, y) \in Cells /\ Between(x, y) \notin Rooms
    BY <1>0, RoomsAround
  <2> QED
    BY <1>2, <2>1 DEF WallsLast
<1> QED
  BY <1>4, <1>5, <1>6 DEF TreeInv, Tree, NoPassage

(* The doors are outside, and the rest of the loop opens nothing.          *)
LEMMA TreeStays ==
  ASSUME TreeInv, \A x \in Inner : maze'[x] = Open <=> maze[x] = Open,
         phase' = "start" => phase = "start"
  PROVE  TreeInv'
<1>0. Rooms \subseteq Inner /\ Inner \subseteq Cells
  BY InnerAreCells DEF Rooms
<1>1. OpenRooms' = OpenRooms /\ Passages' = Passages
  BY <1>0 DEF OpenRooms, Passages, OpenCells
<1>2. NoCycle' /\ NoPassage'
  BY <1>1 DEF TreeInv, Tree, NoCycle, NoPassage
<1>3. \A x \in Rooms : \A y \in Around(x) \cap Rooms : Between(x, y) \in Inner
  BY <1>0, RoomsAround
<1>4. WallsLast'
  BY <1>0, <1>3 DEF TreeInv, WallsLast
<1>5. \A x, y \in OpenRooms : Joined(x, y) => Joined(x, y)'
  <2>1. \A z \in Inner : z \in OpenCells => z \in OpenCells'
    BY <1>0 DEF OpenCells
  <2> QED
    BY <1>0, <1>3, <2>1 DEF Joined, OpenRooms
<1>6. Connected'
  <2> SUFFICES ASSUME NEW A \in SUBSET OpenRooms, A # {}, A # OpenRooms
               PROVE  \E x \in A, y \in OpenRooms \ A : Joined(x, y)'
    BY <1>1 DEF Connected
  <2>1. PICK x \in A, y \in OpenRooms \ A : Joined(x, y)
    BY DEF TreeInv, Tree, Connected
  <2> QED
    BY <1>5, <2>1
<1> QED
  BY <1>2, <1>4, <1>6 DEF TreeInv, Tree

LEMMA InitTree == ASSUME MazeInit PROVE TreeInv
<1>1. \A x \in Cells : maze[x] # Open
  BY DEF MazeInit, Wall, Open
<1>2. OpenRooms = {} /\ Passages = {}
  BY <1>1 DEF OpenRooms, Passages, OpenCells
<1>3. WallsLast
  <2>1. \A x \in Rooms : \A y \in Around(x) \cap Rooms : Between(x, y) \in Cells
    BY RoomsAround, InnerAreCells DEF Rooms
  <2> QED
    BY <1>1, <2>1 DEF WallsLast
<1> QED
  BY <1>2, <1>3 DEF TreeInv, Tree, Connected, NoCycle, NoPassage

LEMMA StepTree ==
  ASSUME FloorInv, TreeInv, [Next]_vars
  PROVE  TreeInv'
<1>i. MazeInv
  BY DEF FloorInv
<1>1. CASE Start
  <2>1. PICK c \in Rooms : Dig(c, {})
    BY <1>i, <1>1, StartDigs
  <2> QED
    BY <1>i, <1>1, <2>1, StartTree DEF Start
<1>2. CASE Grow
  <2>1. PICK c \in Rooms : \E d \in Around(c) \cap Rooms :
          maze[c] = Frontier /\ maze[d] = Open /\ Dig(c, {Between(c, d)})
    BY <1>i, <1>2, GrowDigs
  <2>2. PICK d \in Around(c) \cap Rooms :
          maze[c] = Frontier /\ maze[d] = Open /\ Dig(c, {Between(c, d)})
    BY <2>1
  <2> QED
    BY <1>i, <1>2, <2>2, GrowTree DEF Grow
<1>3. CASE Doors
  <2>1. PICK x \in Edges(1), z \in Edges(Height - 2) :
          StartPoint' = <<x, 0>> /\ ExitPoint' = <<z, Height - 1>>
    BY <1>3 DEF Doors
  <2>2. StartPoint' \notin Inner /\ ExitPoint' \notin Inner
    BY <2>1, Sizes DEF Inner
  <2>3. maze' = [maze EXCEPT ![StartPoint'] = Open, ![ExitPoint'] = Open] /\ phase' = "done"
    BY <1>3 DEF Doors
  <2>4. \A x_1 \in Inner : maze'[x_1] = maze[x_1]
    BY <1>i, <2>2, <2>3, InnerAreCells DEF MazeInv, MazeTypeOK
  <2> QED
    BY <2>3, <2>4, TreeStays
<1>4. CASE UNCHANGED maze /\ (phase' = "start" => phase = "start")
  BY <1>4, TreeStays
<1>5. CASE Grown
  BY <1>4, <1>5 DEF Grown
<1>6. CASE UNCHANGED mazeVars
  BY <1>4, <1>6 DEF mazeVars
<1> QED
  BY <1>1, <1>2, <1>3, <1>5, <1>6 DEF Next, GenerateMaze, MazeNext, SpawnMaze, Walk, vars

(* The rooms opened so far always form a tree: all hang together, and no   *)
(* cycle was opened.                                                       *)
THEOREM MazeIsTree == Spec => []Tree
<1>1. Init => TreeInv
  BY InitTree DEF Init
<1>2. TreeInv => Tree
  BY DEF TreeInv
<1> QED
  BY <1>1, <1>2, StepTree, FloorInvariant, PTL DEF Spec
===============================================================================
