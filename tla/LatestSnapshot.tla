---------------------------- MODULE LatestSnapshot ----------------------------
(***************************************************************************)
(* What content/core/persistence.ts promises the rest of the program: one    *)
(* stored snapshot of a session that goes on changing, which is only ever     *)
(* replaced by a newer one, and not at all once the meeting is over and what  *)
(* was already on its way has arrived.                                       *)
(***************************************************************************)
EXTENDS Naturals

CONSTANT MaxVersion     \* bound: changes to one session

VARIABLES
    version,    \* of the session object in the page
    stored,     \* the version under the session key, 0 before the first write
    phase       \* "open", "draining" what is on its way, "done"

Init == version = 1 /\ stored = 0 /\ phase = "open"

Later(p) == CASE p = "open"     -> {"open", "draining", "done"}
              [] p = "draining" -> {"draining", "done"}
              [] OTHER          -> {"done"}

Change ==
    /\ phase = "open"
    /\ version < MaxVersion
    /\ version' = version + 1
    /\ phase' \in Later(phase)
    /\ UNCHANGED stored

Save ==
    /\ phase # "done"
    /\ stored' \in stored .. version
    /\ phase' \in Later(phase)
    /\ UNCHANGED version

Next == Change \/ Save

Spec == Init /\ [][Next]_<<version, stored, phase>>
===============================================================================
