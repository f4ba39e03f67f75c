-------------------------------- MODULE Maze --------------------------------
(***************************************************************************)
(* problems/maze: the generator carves a maze with Prim's algorithm, puts  *)
(* walls back where they do not disconnect it, and picks two cells; the    *)
(* user then walks from one to the other.  The outermost ring is always    *)
(* wall and is left out; cells outside the interior are walls.  The order  *)
(* in which Prim's algorithm and the sampling draw cells is arbitrary.     *)
(***************************************************************************)
EXTENDS TurnBasedCase

CONSTANTS
  Rows, Columns,  \* of the interior
  MazeMoves       \* max_moves

MazeAssumption == Rows \in Nat /\ Columns \in Nat

Cells == (1..Rows) \X (1..Columns)
Neighbours(S, c) == {d \in S : Adjacent(c, d)}

(* The cells within n steps of s, over the open ones. *)
Within(open, s) ==
  LET ball[n \in 0..Cardinality(open)] ==
        IF n = 0 THEN {s}
        ELSE LET inner == ball[n - 1]
             IN inner \cup {c \in open : Neighbours(inner, c) # {}}
  IN ball

Reachable(open, s) == Within(open, s)[Cardinality(open)]

(* Mutant: two cells are enough for it to look at. *)
IsConnectedIfBig(open) ==
  Cardinality(open) > 3 => \E s \in open : Reachable(open, s) = open

IsConnected(open) == \E s \in open : Reachable(open, s) = open

ShortestPath(open, s, t) ==
  CHOOSE n \in 0..Cardinality(open) :
    t \in Within(open, s)[n] /\ \A m \in 0..(n - 1) : t \notin Within(open, s)[m]

MazeInit ==
  /\ CaseInit
  /\ \E c \in Cells :
       env = [stage |-> "carve", open |-> {c}, walls |-> Neighbours(Cells, c), at |-> 0]

(* A wall with exactly one open neighbour is carved. *)
Carve(c) ==
  /\ verdict = "running" /\ env.stage = "carve" /\ c \in env.walls
  /\ LET carved == c \notin env.open /\ Cardinality(Neighbours(env.open, c)) = 1 IN
     env' = [env EXCEPT
       !.open = IF carved THEN @ \cup {c} ELSE @,
       !.walls = IF carved THEN (@ \ {c}) \cup Neighbours(Cells, c) ELSE @ \ {c}]
  /\ UNCHANGED <<verdict, score>>

(* Row by row, an open cell may become a wall again. *)
Thin ==
  /\ verdict = "running"
  /\ \/ env.stage = "carve" /\ env.walls = {}
     \/ env.stage = "thin"
  /\ env.at < Rows * Columns
  /\ LET c == <<(env.at \div Columns) + 1, (env.at % Columns) + 1>> IN
     \E thinner \in {env.open, env.open \ {c}} :
       /\ thinner = env.open \/ IsConnected(thinner)
       /\ env' = [env EXCEPT !.stage = "thin", !.open = thinner, !.at = @ + 1]
  /\ UNCHANGED <<verdict, score>>

(* pick_start_end raises when two cells or less are left. *)
TooSmall ==
  /\ verdict = "running" /\ env.stage = "thin" /\ env.at = Rows * Columns
  /\ Cardinality(env.open) <= 2
  /\ Raised

Started(open, s, t) ==
  [stage |-> "play", open |-> open, end |-> t, position |-> s, moves |-> 0, success |-> FALSE,
   optimal |-> IF t \in Reachable(open, s) THEN ShortestPath(open, s, t)
               ELSE (Rows + 2) + (Columns + 2)]

PickStartEnd(s, t) ==
  /\ verdict = "running" /\ env.stage = "thin" /\ env.at = Rows * Columns
  /\ Cardinality(env.open) > 2
  /\ s # t
  /\ env' = Started(env.open, s, t)
  /\ UNCHANGED <<verdict, score>>

Playing == verdict = "running" /\ env.stage = "play"
Points(e) == EfficiencyScore(e.success, e.moves, e.optimal, MazeMoves)
After(e) == Applied(e, e.success \/ e.moves >= MazeMoves, e.success, Points(e))

(* An unknown direction costs nothing and ends nothing. *)
InvalidDirection == Playing /\ After(env)

HitWall(d) ==
  /\ Playing
  /\ Moved(env.position, d) \notin env.open
  /\ After([env EXCEPT !.moves = @ + 1])

Move(d) ==
  /\ Playing
  /\ Moved(env.position, d) \in env.open
  /\ After([env EXCEPT !.position = Moved(env.position, d), !.moves = @ + 1,
                       !.success = Moved(env.position, d) = env.end])

Abandoned == Playing /\ Interrupted(Points(env))

MazeNext ==
  \/ \E c \in Cells : Carve(c)
  \/ Thin
  \/ TooSmall
  \/ \E s, t \in env.open : PickStartEnd(s, t)
  \/ InvalidDirection
  \/ \E d \in Deltas : HitWall(d)
  \/ \E d \in Deltas : Move(d)
  \/ Abandoned

(* The generated maze can be solved, and no solution beats the number the  *)
(* score is measured against: the walls put back keep it connected, and    *)
(* the breadth-first search and the game count the same moves.             *)
MazeSolvable ==
  env.stage = "play" =>
    /\ env.moves = 0 => env.end \in Reachable(env.open, env.position)
    /\ env.success => env.moves >= env.optimal
=============================================================================
