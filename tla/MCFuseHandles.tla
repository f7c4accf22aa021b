--------------------------- MODULE MCFuseHandles ---------------------------
(* An instance of FuseHandles: records of one and two units in pages of   *)
(* two, so that a page cuts a record; the same tasks in every part.       *)
EXTENDS FuseHandles

MCLength == <<1, 2, 1>>
Symm == Permutations(Lockers)
====
