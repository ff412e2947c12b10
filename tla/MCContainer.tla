------------------------------ MODULE MCContainer ------------------------------
(***************************************************************************)
(* A small document for TLC: hands put boards between the places a write   *)
(* uses, and backs on boards or off them.                                  *)
(***************************************************************************)
EXTENDS Container

MCHandSlots == {3}
MCBackSpans == {<<2, 4>>, <<3, 6>>}
Symmetry == {names @@ docs : names \in Permutations(Names), docs \in Permutations(Docs)}
================================================================================
