--------------------------- MODULE MCPlayerScreen ---------------------------
(***************************************************************************)
(* Two or three short files, as long as each other or not, each unwatched, *)
(* stopped in the middle or watched to its end.                            *)
(***************************************************************************)
EXTENDS PlayerScreen

SameLength == [f \in File |-> 3]
OddLengths == [f \in File |-> IF f = 1 THEN 4 ELSE 3]
AnyResume == [File -> {0, 1, 3}]
(* Of three files the middle one has been watched to its end. *)
MiddleWatched == {[f \in File |-> IF f = 2 THEN 3 ELSE 0]}
=============================================================================
