--------------------------------- MODULE Loops ---------------------------------
(***************************************************************************)
(* The loops of the pure functions.  The variables of a loop are a record, *)
(* its body is a function on such records that changes nothing where the   *)
(* loop ends.                                                              *)
(***************************************************************************)

\* The variables where the loop with the body step ends that starts with x.
While(step, x) ==
  LET end[y \in DOMAIN step] == IF step[y] = y THEN y ELSE end[step[y]]
  IN  end[x]
=============================================================================
