---- MODULE MCBackground ----
EXTENDS Background, TLC

(* Tabs only differ by name. *)
AnyTab == Permutations(Tabs)
====
