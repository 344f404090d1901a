------------------------------- MODULE Meetings -------------------------------
(***************************************************************************)
(* What the background stores and writes, and the pure functions on it:     *)
(* background/merge.ts, background/snapshot.ts, the retention rule of        *)
(* background/store.ts and the file placement of background/export.ts.       *)
(*                                                                         *)
(* Captured content is abstracted to a number of words per visit: the code   *)
(* only asks whether there is any, and the properties only how much of it    *)
(* is where.  An instant doubles as the identity of what happened at it:     *)
(* a visit is named by its startedAt, a meeting by the instant it was built. *)
(***************************************************************************)
EXTENDS Naturals, Sequences

CONSTANTS
    Rooms,      \* meeting paths; each carries a Meet code of its own
    MergeGap,   \* MERGE_GAP_MS, in instants
    Minute,     \* instants that share one minute stamp in a file name
    None        \* an absent storage key

ASSUME GapAssumption    == MergeGap \in Nat
ASSUME MinuteAssumption == Minute \in Nat \ {0}

(* ActiveSession: what a content script keeps under its tab's key.  "crowd"   *)
(* stands for participants.length >= 2.                                      *)
Session == [room: Rooms, private: BOOLEAN, startedAt: Nat, words: Nat, crowd: BOOLEAN]

(* VisitSpan together with the body the visit contributed. *)
Visit == [startedAt: Nat, words: Nat]

Meeting == [id: Nat, room: Rooms, private: BOOLEAN,
            startedAt: Nat, endedAt: Nat, visits: Seq(Visit)]

(* Folder, title, minute stamp and Meet code of a .md, relative to Downloads. *)
Path == [room: Rooms, private: BOOLEAN, minute: Nat]

ASSUME NoneAssumption ==
    /\ None \notin Rooms
    /\ None \notin Session
    /\ None \notin Meeting
    /\ None \notin Path

-------------------------------------------------------------------------------

(* isCaptureFailure of a live session, and of a stored meeting. *)
Empty(s)   == s.words = 0
NoVisit(m) == Len(m.visits) = 0     \* deviation: a visit without a word counts
Failure(m) == \A i \in DOMAIN m.visits : m.visits[i].words = 0

SessionToMeeting(s, id, at) ==
    [id |-> id, room |-> s.room, private |-> s.private,
     startedAt |-> s.startedAt, endedAt |-> at,
     visits |-> <<[startedAt |-> s.startedAt, words |-> s.words]>>]

(* A sequential rejoin of the same room with the same privacy, starting      *)
(* within the gap; overlapping visits (a negative gap) never merge.           *)
ShouldMerge(target, incoming) ==
    /\ target.private = incoming.private
    /\ target.room = incoming.room
    /\ target.endedAt <= incoming.startedAt
    /\ incoming.startedAt - target.endedAt <= MergeGap

MergeKeepingTarget(target, incoming) ==     \* deviation: the rejoin's visit is lost
    [target EXCEPT !.endedAt = incoming.endedAt]

MergeKeepingIncoming(target, incoming) ==   \* deviation: the earlier visits are lost
    [target EXCEPT !.endedAt = incoming.endedAt,
                   !.visits  = incoming.visits]

MergeMeetings(target, incoming) ==
    [target EXCEPT !.endedAt = incoming.endedAt,
                   !.visits  = @ \o incoming.visits]

Merged(m) == Len(m.visits) > 1

(* Position i of the history is what a newest-first scan would merge into. *)
NewestTarget(history, incoming, i) ==
    /\ i \in DOMAIN history
    /\ ShouldMerge(history[i], incoming)
    /\ \A j \in DOMAIN history : j > i => ~ShouldMerge(history[j], incoming)

Mergeable(history, incoming) ==
    \E i \in DOMAIN history : ShouldMerge(history[i], incoming)

(* Append, then keep the newest "limit" meetings. *)
AppendWithRetention(history, m, limit) ==
    LET next == Append(history, m)
    IN  SubSeq(next, IF Len(next) > limit THEN Len(next) - limit + 1 ELSE 1, Len(next))

-------------------------------------------------------------------------------

PathOf(m) == [room |-> m.room, private |-> m.private, minute |-> m.startedAt \div Minute]

(* A merged meeting, and a session that already saved to this very path,     *)
(* overwrite; anything else is uniquified.                                  *)
Overwrites(m, written) == Merged(m) \/ written = PathOf(m)

(* The Downloads folder maps a path to its copies: "name.md", "name (1).md", *)
(* ...  Uniquify lands on the next free copy, overwrite on the first one.    *)
FilesAt(disk, p) == IF p \in DOMAIN disk THEN disk[p] ELSE << >>

Put(disk, p, over, body) ==
    [q \in DOMAIN disk \cup {p} |->
        IF q # p THEN disk[q]
        ELSE IF over /\ FilesAt(disk, p) # << >>
             THEN [FilesAt(disk, p) EXCEPT ![1] = body]
             ELSE Append(FilesAt(disk, p), body)]

Body == [id: Nat, final: BOOLEAN, visits: Seq(Visit)]

(* The .md of a finished meeting, and the partial one a mid-meeting save      *)
(* writes, carrying the disclaimer.                                         *)
FinalBody(m)   == [id |-> m.id, final |-> TRUE,  visits |-> m.visits]
PartialBody(m) == [id |-> m.id, final |-> FALSE, visits |-> m.visits]

-------------------------------------------------------------------------------

(* The meeting or file x holds at least n words of the visit begun at v. *)
Holds(x, v, n) ==
    \E i \in DOMAIN x.visits : x.visits[i].startedAt = v /\ x.visits[i].words >= n

(* Everything file x holds is also in y. *)
Covers(y, x) ==
    \A i \in DOMAIN x.visits : Holds(y, x.visits[i].startedAt, x.visits[i].words)
===============================================================================
