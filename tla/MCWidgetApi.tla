----------------------------- MODULE MCWidgetApi -----------------------------
(* WidgetApi on a small instance: version 1 of a widget allows a page,     *)
(* version 2 no longer does.                                               *)
EXTENDS WidgetApi, TLC

CONSTANT page1

MCAllow == [v \in 1..MaxVersion |-> IF v = 1 THEN {page1} ELSE {}]

Symmetry == Permutations(Procs)

=============================================================================
