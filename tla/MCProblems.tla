----------------------------- MODULE MCProblems -----------------------------
(* One case of each problem. *)
EXTENDS Problems

(* A branch along the rows, one around them, and one that comes back. *)
MCWalks ==
  {<< <<2, 1>>, <<2, 2>>, <<2, 3>>, <<2, 4>>, <<3, 4>> >>,
   << <<3, 3>>, <<4, 3>>, <<4, 2>>, <<5, 2>> >>,
   << <<1, 3>>, <<1, 4>>, <<1, 3>>, <<2, 3>> >>}
MCExtraWalls == {<<2, 3>>, <<4, 2>>}
MCArguments == 1..6
=============================================================================
