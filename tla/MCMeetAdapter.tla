------------------------------ MODULE MCMeetAdapter ------------------------------
(* Values of MeetAdapter's constants that a configuration file cannot write. *)
EXTENDS MeetAdapter, TLC

CONSTANTS A, B

MCSymmetry == Permutations({A, B})

\* Ann has two devices: she reconnects under the second while the first is still there.
MCOwner == [d \in Device |-> IF d = "b1" THEN "Bob" ELSE "Ann"]

\* The loop alone; a meeting and its roster, and its end; two meetings and their capture; two
\* meetings and a roster that outlives the first.
MCBudgets ==
  {[moves |-> 4, dips |-> 3, roster |-> 0, switches |-> 0, faults |-> 1],
   [moves |-> 2, dips |-> 0, roster |-> 5, switches |-> 1, faults |-> 0],
   [moves |-> 3, dips |-> 0, roster |-> 3, switches |-> 0, faults |-> 0],
   [moves |-> 4, dips |-> 0, roster |-> 0, switches |-> 2, faults |-> 0],
   [moves |-> 4, dips |-> 0, roster |-> 2, switches |-> 0, faults |-> 0]}
=============================================================================
