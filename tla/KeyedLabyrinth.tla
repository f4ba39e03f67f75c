---------------------------- MODULE KeyedLabyrinth ----------------------------
(***************************************************************************)
(* problems/keyed_labyrinth: a main path from corner to corner, branches   *)
(* off it, keys and doors of as many colours as there are locks on it; the *)
(* user walks, picks up the keys it steps on and opens the doors it has    *)
(* the key of.  The outer ring is wall, and so is whatever is not open.    *)
(***************************************************************************)
EXTENDS TurnBasedCase, Sequences, Functions

CONSTANTS
  Width, Height,   \* of the interior
  Locks,           \* num_locks; a lock's index is its colour
  Walks,           \* bound: the walks that branches may be
  ExtraWalls,      \* bound: the cells that may become walls again
  LabyrinthMoves   \* max_moves

Interior == (1..Width) \X (1..Height)
Goal == <<Width, Height>>
Apart == (Width - 1) + (Height - 1)

(* A branch is a walk of up to four steps that does not leave the interior *)
(* (a step that would is not made): it starts in its first cell.           *)
IsWalk(w) ==
  /\ w \in Seq(Interior) /\ Len(w) \in 1..5
  /\ \A i \in 2..Len(w) : \E d \in Deltas : w[i] = Moved(w[i - 1], d)

(* The code's clamps on the sides and on num_locks.  The search of         *)
(* OptimalMoves gets as far as the goal.                                   *)
LabyrinthAssumption ==
  /\ Width \in Nat /\ Width >= 5 /\ Height \in Nat /\ Height >= 5 /\ Locks \in 1..3
  /\ \A w \in Walks : IsWalk(w)
  /\ LabyrinthMoves \in Nat /\ LabyrinthMoves >= Apart

(* The keys and doors of a path alternate along it, a segment apart.  The  *)
(* last door's place, 2 * Locks * Segment, is always short of the goal, so *)
(* the code's clamps never bite.                                           *)
Segment(path) == Larger(1, (Len(path) - 2) \div (2 * Locks + 1))
KeyCell(path, i) == path[2 + (2 * i - 1) * Segment(path)]
DoorCell(path, i) == path[2 + (2 * i) * Segment(path)]

(* Mutant: doors stand open. *)
EnterableWithoutKey(c, cell, inventory) == cell \in c.open

(* The cell has been entered with these keys: what may be entered next.    *)
Enterable(c, cell, inventory) ==
  cell \in c.open /\ \A i \in 1..Locks : cell = c.doors[i] => i \in inventory

PickedUp(c, cell, inventory) ==
  inventory \cup {i \in 1..Locks : c.keys[i] = cell}

(* Where one move leads to from any of these states, cells with keys. *)
NextStates(c, states) ==
  LET into(t) == Moved(t[1][1], t[2])
      inventory(t) == t[1][2]
  IN {<<into(t), PickedUp(c, into(t), inventory(t))>> :
        t \in {u \in states \X Deltas : Enterable(c, into(u), inventory(u))}}

(* Breadth first over cells and inventories, starting with n moves made.   *)
(* A search of the whole labyrinth is at most Cells * 2^Locks deep; every  *)
(* labyrinth here is solved within LabyrinthMoves.                         *)
OptimalMoves(c) ==
  LET layer[n \in 0..LabyrinthMoves] ==
        IF n = 0 THEN {<<<<1, 1>>, {}>>} ELSE NextStates(c, layer[n - 1])
      solved == {n \in 0..LabyrinthMoves : \E s \in layer[n] : s[1] = Goal}
  IN CHOOSE n \in solved : \A m \in solved : n <= m

LabyrinthInit == CaseInit /\ env = [stage |-> "carve", path |-> <<<<1, 1>>>>]

CarveMainPath(d) ==
  /\ verdict = "running" /\ env.stage = "carve"
  /\ Moved(env.path[Len(env.path)], d) \in Interior
  /\ env' = [env EXCEPT !.path = Append(@, Moved(@[Len(@)], d))]
  /\ UNCHANGED <<verdict, score>>

(* Each branch starts in a cell of its own, on the path between its ends.  *)
OffThePath(path, branches) ==
  /\ \A w \in branches : \E i \in 2..(Len(path) - 1) : w[1] = path[i]
  /\ \A v, w \in branches : v[1] = w[1] => v = w
  /\ Cardinality(branches) <= Larger(8, Len(path) \div 2)

Started(c) ==
  [stage |-> "play", case |-> c, optimal |-> OptimalMoves(c), position |-> <<1, 1>>,
   inventory |-> {}, opened |-> {}, moves |-> 0, success |-> FALSE]

(* Any of the branches' cells that are not on the path may become a wall   *)
(* again.                                                                  *)
Generate(branches, walls) ==
  LET path == Range(env.path)
      carved == UNION {Range(w) : w \in branches}
      c == [open |-> path \cup (carved \ walls),
            keys |-> [i \in 1..Locks |-> KeyCell(env.path, i)],
            doors |-> [i \in 1..Locks |-> DoorCell(env.path, i)]]
  IN /\ verdict = "running" /\ env.stage = "carve" /\ env.path[Len(env.path)] = Goal
     /\ OffThePath(env.path, branches)
     /\ walls \subseteq carved \ path
     /\ env' = Started(c)
     /\ UNCHANGED <<verdict, score>>

Playing == verdict = "running" /\ env.stage = "play"
Points(e) == EfficiencyScore(e.success, e.moves, e.optimal, LabyrinthMoves)
After(e) == Applied(e, e.success \/ e.moves >= LabyrinthMoves, e.success, Points(e))

(* An unknown direction ends the case; it is not even counted as a move.   *)
InvalidDirection == Playing /\ Applied(env, TRUE, FALSE, Points(env))

(* A wall, or a door whose key is missing. *)
Blocked(cell) ==
  /\ Playing
  /\ ~Enterable(env.case, cell, env.inventory)
  /\ After([env EXCEPT !.moves = @ + 1])

Move(cell) ==
  /\ Playing
  /\ Enterable(env.case, cell, env.inventory)
  /\ After([env EXCEPT
       !.position = cell, !.moves = @ + 1, !.success = cell = Goal,
       !.opened = @ \cup {i \in 1..Locks : env.case.doors[i] = cell},
       !.inventory = PickedUp(env.case, cell, @)])

Abandoned == Playing /\ Interrupted(Points(env))

LabyrinthNext ==
  \/ \E d \in {<<1, 0>>, <<0, 1>>} : CarveMainPath(d)
  \/ \E branches \in SUBSET Walks, walls \in SUBSET ExtraWalls : Generate(branches, walls)
  \/ InvalidDirection
  \/ \E d \in Deltas : Blocked(Moved(env.position, d))
  \/ \E d \in Deltas : Move(Moved(env.position, d))
  \/ Abandoned

(* Every labyrinth can be solved in as many moves as the corners are apart *)
(* (the keys lie on the way, each before its door), and nobody solves it   *)
(* in less than the score is measured against or without every key.        *)
LabyrinthSolvable ==
  env.stage = "play" =>
    /\ env.optimal = Apart
    /\ env.success => env.moves >= env.optimal
    /\ env.opened \subseteq env.inventory
=============================================================================
