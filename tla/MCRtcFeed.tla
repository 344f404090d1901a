------------------------------ MODULE MCRtcFeed ------------------------------
(* Values of RtcFeed's constants that a configuration file cannot write.    *)
EXTENDS RtcFeed, TLC

CONSTANTS ann, bob, hi, bye, o1, o2, t1

MCKey == {<<ann, 1>>, <<bob, 1>>}

\* One channel and every kind of revision; or several channels and words only added; or
\* chat. Captions and chat meet in the wipe, the pause and the roster only.
Interrupted ==
  [captions |-> 5, on |-> {{"captions"}}, rewords |-> TRUE, chat |-> {}, copies |-> 0,
   pauses |-> 0, wipes |-> 0, time |-> 3]
Sniffed ==
  [captions |-> 3, on |-> SUBSET {"captions", "renamed"}, rewords |-> FALSE, chat |-> {}, copies |-> 0,
   pauses |-> 2, wipes |-> 1, time |-> 1]
Chatted ==
  [captions |-> 0, on |-> {}, rewords |-> FALSE, chat |-> {o1, o2, t1}, copies |-> 3,
   pauses |-> 0, wipes |-> 0, time |-> 3]
Replayed ==
  [captions |-> 0, on |-> {}, rewords |-> FALSE, chat |-> {o1}, copies |-> 4,
   pauses |-> 1, wipes |-> 1, time |-> 3]

MCBudgets == {Interrupted, Sniffed, Chatted, Replayed}

MCSymmetry == Permutations({hi, bye}) \cup Permutations({o1, o2}) \cup Permutations({ann, bob})
=============================================================================
