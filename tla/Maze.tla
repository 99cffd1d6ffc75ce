-------------------------------- MODULE Maze --------------------------------
(***************************************************************************)
(* ARandomMazeSpawner::GenerateMaze: a randomised Prim maze on a grid.      *)
(*                                                                         *)
(* Rooms are the cells with odd coordinates.  MarkCell opens a room and    *)
(* pushes the rooms at distance two that are still walls on the frontier;  *)
(* the loop pops a frontier room, opens it and the wall to one of its open *)
(* neighbours, until the frontier is empty.  Then one cell of the top and  *)
(* one of the bottom border are opened as entrance and exit.               *)
(*                                                                         *)
(* The weights rand() % 100 only decide the order in which rooms leave the *)
(* priority queue; any order is possible (let the weights be the ranks), so*)
(* a pop takes any room.  The queue is kept as the number of its entries   *)
(* for each cell.                                                          *)
(***************************************************************************)
EXTENDS Integers, FiniteSets

CONSTANTS
  LevelWidth,   \* Width of the placed actor
  LevelHeight   \* Height of the placed actor

(* With less than two cells a side the code computes rand() % 0.           *)
ASSUME MazeAssumption ==
  /\ LevelWidth \in Nat /\ LevelWidth >= 2
  /\ LevelHeight \in Nat /\ LevelHeight >= 2

(* An even size is made odd.                                               *)
MadeOdd(n) == IF n % 2 = 0 THEN n + 1 ELSE n

Width  == MadeOdd(LevelWidth)
Height == MadeOdd(LevelHeight)

Cells  == (0 .. Width - 1) \X (0 .. Height - 1)     \* <<x, y>>
Inner  == (1 .. Width - 2) \X (1 .. Height - 2)
Odd(n) == n % 2 = 1
Rooms  == {c \in Inner : Odd(c[1]) /\ Odd(c[2])}

Open     == 0
Wall     == 1
Frontier == 2

VARIABLES
  maze,       \* maze[<<x, y>>]: Maze[y][x]
  queued,     \* queued[c]: how many entries of Pq_Frontier are for cell c
  phase,      \* "start", "grow", "doors", "done": where GenerateMaze is
  StartPoint, \* the entrance, once chosen
  ExitPoint   \* the exit, once chosen

mazeVars == <<maze, queued, phase, StartPoint, ExitPoint>>

(* The cells at distance two in the four directions, and the wall between. *)
Around(c) == {<<c[1] - 2, c[2]>>, <<c[1] + 2, c[2]>>, <<c[1], c[2] - 2>>, <<c[1], c[2] + 2>>}
Between(c, d) == <<(c[1] + d[1]) \div 2, (c[2] + d[2]) \div 2>>

OpenCells == {c \in Cells : maze[c] = Open}
Queue     == {c \in Cells : queued[c] > 0}

-----------------------------------------------------------------------------
MazeTypeOK ==
  /\ maze \in [Cells -> {Open, Wall, Frontier}]
  /\ queued \in [Cells -> Nat]
  /\ phase \in {"start", "grow", "doors", "done"}
  /\ StartPoint \in Cells
  /\ ExitPoint \in Cells

MazeInit ==
  /\ maze = [c \in Cells |-> Wall]
  /\ queued = [c \in Cells |-> 0]
  /\ phase = "start"
  /\ StartPoint = <<0, 0>>
  /\ ExitPoint = <<0, 0>>

(* MUTANT: a cell is pushed although it is on the frontier.                *)
AddableAgain(m, c) == c \in Inner /\ m[c] # Open

(* The test of AddFrontier.                                                *)
Addable(m, c) == c \in Inner /\ m[c] = Wall

(* MarkCell(x, y) on the grid m and the queue q.                           *)
MarkCell(c, m, q) ==
  LET opened == [m EXCEPT ![c] = Open]
      added  == {d \in Around(c) : Addable(opened, d)}
  IN  /\ maze' = [x \in Cells |-> IF x \in added THEN Frontier ELSE opened[x]]
      /\ queued' = [x \in Cells |-> IF x \in added THEN q[x] + 1 ELSE q[x]]

(* The random start cell.                                                  *)
Start ==
  /\ phase = "start"
  /\ \E i \in 0 .. (Width \div 2) - 1, j \in 0 .. (Height \div 2) - 1 :
       MarkCell(<<2 * i + 1, 2 * j + 1>>, maze, queued)
  /\ phase' = "grow"
  /\ UNCHANGED <<StartPoint, ExitPoint>>

(* The open cells next to a popped one, with the bounds the code tests.    *)
Neighbors(c) ==
  {d \in Around(c) : /\ d[1] >= 0 /\ d[2] >= 0 /\ d[1] < Width /\ d[2] < Height
                     /\ maze[d] = Open}

Popped(c) == [queued EXCEPT ![c] = @ - 1]

(* MUTANT: every wall to an open neighbour is opened.                      *)
GrowAll ==
  /\ phase = "grow"
  /\ \E c \in Queue :
       MarkCell(c, [x \in Cells |-> IF \E d \in Neighbors(c) : x = Between(c, d)
                                    THEN Open ELSE maze[x]], Popped(c))
  /\ UNCHANGED <<phase, StartPoint, ExitPoint>>

(* One iteration of the loop.                                              *)
Grow ==
  /\ phase = "grow"
  /\ \E c \in Queue :
       \/ \E d \in Neighbors(c) :
            MarkCell(c, [maze EXCEPT ![Between(c, d)] = Open], Popped(c))
       \/ /\ Neighbors(c) = {}
          /\ queued' = Popped(c)
          /\ UNCHANGED maze
  /\ UNCHANGED <<phase, StartPoint, ExitPoint>>

Grown ==
  /\ phase = "grow" /\ Queue = {}
  /\ phase' = "doors"
  /\ UNCHANGED <<maze, queued, StartPoint, ExitPoint>>

(* edges: the border columns below (above) which the maze is open.         *)
Edges(row) == {x \in 1 .. Width - 2 : maze[<<x, row>>] = Open}

(* MUTANT: the exit's column is chosen in the top row.                     *)
DoorsTop ==
  /\ phase = "doors"
  /\ \E x \in Edges(1), z \in Edges(1) :
       /\ StartPoint' = <<x, 0>>
       /\ ExitPoint' = <<z, Height - 1>>
  /\ maze' = [maze EXCEPT ![StartPoint'] = Open, ![ExitPoint'] = Open]
  /\ phase' = "done"
  /\ UNCHANGED queued

Doors ==
  /\ phase = "doors"
  /\ \E x \in Edges(1), z \in Edges(Height - 2) :
       /\ StartPoint' = <<x, 0>>
       /\ ExitPoint' = <<z, Height - 1>>
  /\ maze' = [maze EXCEPT ![StartPoint'] = Open, ![ExitPoint'] = Open]
  /\ phase' = "done"
  /\ UNCHANGED queued

MazeNext == Start \/ Grow \/ Grown \/ Doors

MazeSpec == MazeInit /\ [][MazeNext]_mazeVars

-----------------------------------------------------------------------------
(* PROPERTIES *)

OpenRooms == Rooms \cap OpenCells

(* Two rooms are joined when they are open and so is the wall between them.*)
Joined(c, d) == d \in Around(c) /\ {c, d, Between(c, d)} \subseteq OpenCells

(* The open walls between rooms.                                           *)
Passages == (Inner \ Rooms) \cap OpenCells

(* The rooms opened so far form a tree.  They hang together: every way to  *)
(* divide them in two is crossed by a passage.  And there is no cycle:     *)
(* there is one passage less than there are rooms.                         *)
Connected ==
  \A A \in SUBSET OpenRooms :
    A # {} /\ A # OpenRooms => \E c \in A, d \in OpenRooms \ A : Joined(c, d)

NoCycle == OpenRooms # {} => Cardinality(Passages) + 1 = Cardinality(OpenRooms)
Tree == Connected /\ NoCycle

(* A popped room always has an open neighbour, so that none is dropped; the*)
(* queue holds every frontier room once and nothing else.                  *)
FrontierServed ==
  \A c \in Cells : /\ queued[c] = IF maze[c] = Frontier THEN 1 ELSE 0
                   /\ maze[c] = Frontier => c \in Rooms /\ Neighbors(c) # {}

(* The finished maze has one door at the top and one at the bottom, each   *)
(* next to an open cell, its border is closed otherwise, and no room was   *)
(* left out: with Tree, every room can be reached from both doors.         *)
DoorsLeadIn ==
  phase = "done" =>
    /\ Rooms \subseteq OpenCells
    /\ {c \in OpenCells : c \notin Inner} = {StartPoint, ExitPoint}
    /\ StartPoint[2] = 0 /\ maze[<<StartPoint[1], 1>>] = Open
    /\ ExitPoint[2] = Height - 1 /\ maze[<<ExitPoint[1], Height - 2>>] = Open

(* The comment above the loops that choose the doors: odd coordinates only.*)
OddDoors == phase = "done" => Odd(StartPoint[1]) /\ Odd(ExitPoint[1])
=============================================================================
