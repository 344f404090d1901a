----------------------------- MODULE AdapterProofs -----------------------------
(***************************************************************************)
(* What the adapter of a tab promises, for any paths, people, devices and  *)
(* bounds, and any order of the intervals the code waits for: a recording  *)
(* follows the call and begins soon, the notice tells whether anything is  *)
(* transcribed, and the participants include whoever the transcript names. *)
(***************************************************************************)
EXTENDS MeetAdapter, TLAPS

-----------------------------------------------------------------------------
\* The steps of the loop, whatever the meeting makes of them

LoopStep ==
  \/ EntersPage \/ Drained \/ Evicted \/ Joined \/ BackedOut \/ Started \/ Flushed \/ Finalized
  \/ Rearmed \/ Dies \/ Orphaned
  \/ \E stale \in BOOLEAN : ReadsPrevious(stale)
  \/ \E path \in Path \cup {Elsewhere} : Goes(path)
  \/ Joins
  \/ \E click \in BOOLEAN : LeavesCall(click)
  \/ IconGoes \/ IconReturns \/ MediaFalls \/ MediaReturns
  \/ LoopTick

LEMMA StepOfLoop == [Next]_vars => LoopStep \/ UNCHANGED loopVars
<1> SUFFICES ASSUME [Next]_vars PROVE LoopStep \/ UNCHANGED loopVars
  OBVIOUS
<1>1. CASE Polls
  BY <1>1 DEF Polls, LoopStep
<1>2. CASE StartsMeeting
  BY <1>2 DEF StartsMeeting, LoopStep
<1>3. CASE FlushEnds
  BY <1>3 DEF FlushEnds, LoopStep
<1>4. CASE Tick
  BY <1>4 DEF Tick, LoopStep
<1>5. CASE Page
  BY <1>5 DEF Page, LoopStep
<1>6. CASE Roster \/ Capture \/ SetRecording \/ Purge \/ UNCHANGED vars
  BY <1>6 DEF Roster, Capture, SetRecording, Purge, vars
<1>7. CASE Fails
  BY <1>7 DEF Fails, LoopStep
<1> QED
  BY <1>1, <1>2, <1>3, <1>4, <1>5, <1>6, <1>7 DEF Next

PageType ==
  [path : Path \cup {Elsewhere}, icon : BOOLEAN, call : BOOLEAN, open : BOOLEAN,
   dark : Nat, hidden : Nat, residue : Nat, missed : BOOLEAN]

LoopType ==
  /\ page \in PageType
  /\ loop \in Waits
  /\ spent \in Nat
  /\ meetingPath \in Path \cup {Elsewhere}
  /\ lastMeeting \in [path : Path \cup {Elsewhere}, ago : Nat]
  /\ zeroFor \in Nat \cup {Live}
  /\ goneCount \in Nat
  /\ orphaned \in BOOLEAN
  /\ waited \in Nat

LEMMA Constants ==
  /\ MediaGrace \in Nat /\ LeaveChecks \in Nat /\ TailGrace \in Nat
  /\ MediaGrace > 0 /\ LeaveChecks > 0 /\ TailGrace > 0
  /\ Flush \in Nat /\ Residue \in Nat
  BY LoopAssumption

LEMMA UptoType == \A n, limit \in Nat : Upto(n, limit) \in Nat /\ Upto(n, limit) >= n
  BY DEF Upto

LEMMA LoopTypeInit == Init => LoopType
<1> SUFFICES ASSUME LoopInit PROVE LoopType
  BY DEF Init
<1>1. page \in PageType
  BY DEF LoopInit, PageType
<1>2. loop \in Waits
  BY DEF LoopInit, Waits
<1>3. lastMeeting \in [path : Path \cup {Elsewhere}, ago : Nat]
  BY LoopAssumption DEF LoopInit
<1> QED
  BY <1>1, <1>2, <1>3 DEF LoopInit, LoopType, Live

\* The page after a tick, field by field.
LEMMA TickedPage ==
  ASSUME LoopType, LoopTick
  PROVE  /\ page' \in PageType
         /\ page'.path = page.path
         /\ page'.icon = page.icon /\ page'.call = page.call
         /\ page'.open = page.open /\ page'.missed = page.missed
         /\ page'.dark = IF page.open THEN 0 ELSE Upto(page.dark, MediaGrace)
         /\ page'.hidden = IF page.icon THEN 0 ELSE Upto(page.hidden, LeaveChecks)
         /\ page'.residue = IF ~page.call /\ page.icon THEN page.residue + 1 ELSE 0
<1>1. page \in PageType
  BY DEF LoopType
<1>2. page.dark \in Nat /\ page.hidden \in Nat /\ page.residue \in Nat
  BY <1>1 DEF PageType
<1>4. /\ Upto(page.dark, MediaGrace) \in Nat /\ Upto(page.hidden, LeaveChecks) \in Nat
      /\ page.residue + 1 \in Nat
  BY <1>2, Constants DEF Upto
<1>3. page' = [page EXCEPT
       !.dark = IF page.open THEN 0 ELSE Upto(page.dark, MediaGrace),
       !.hidden = IF page.icon THEN 0 ELSE Upto(page.hidden, LeaveChecks),
       !.residue = IF ~page.call /\ page.icon THEN page.residue + 1 ELSE 0]
  BY DEF LoopTick
<1> QED
  BY <1>1, <1>3, <1>4 DEF PageType

LEMMA LoopTypeStep == LoopType /\ (LoopStep \/ UNCHANGED loopVars) => LoopType'
<1> SUFFICES ASSUME LoopType, LoopStep \/ UNCHANGED loopVars PROVE LoopType'
  OBVIOUS
<1> USE DEF LoopType
<1>1. CASE UNCHANGED loopVars
  BY <1>1 DEF loopVars
<1>2. CASE \/ EntersPage \/ Drained \/ Joined \/ BackedOut \/ Started \/ Flushed \/ Finalized
         \/ Rearmed
  BY <1>2 DEF EntersPage, Drained, Joined, BackedOut, Started, Flushed, Finalized, Rearmed,
              returns, Waits, Live
<1>11. CASE Evicted \/ Dies \/ Orphaned \/ \E stale \in BOOLEAN : ReadsPrevious(stale)
  <2>1. loop' \in Waits
    BY <1>11 DEF Evicted, Dies, Orphaned, ReadsPrevious, returns, Waits
  <2>2. lastMeeting' \in [path : Path \cup {Elsewhere}, ago : Nat]
    BY <1>11 DEF Evicted, Dies, Orphaned, ReadsPrevious, returns
  <2>3. /\ UNCHANGED <<page, meetingPath, zeroFor, goneCount>>
        /\ (spent' = 0 \/ spent' = spent) /\ (waited' = 0 \/ waited' = waited)
    BY <1>11 DEF Evicted, Dies, Orphaned, ReadsPrevious, returns
  <2>4. orphaned' \in BOOLEAN
    BY <1>11 DEF Evicted, Dies, Orphaned, ReadsPrevious
  <2>5. spent' \in Nat /\ waited' \in Nat
    BY <2>3
  <2> QED
    BY <2>1, <2>2, <2>3, <2>4, <2>5
<1>3. ASSUME NEW path \in Path \cup {Elsewhere}, Goes(path) PROVE LoopType'
  BY <1>3 DEF Goes, PageType
<1>4. ASSUME NEW open \in BOOLEAN, mediaEvent(open) PROVE zeroFor' \in Nat \cup {Live}
  BY <1>4 DEF mediaEvent, nextMediaZeroSince
<1>5. CASE Joins
  <2>1. page' \in PageType
    BY <1>5 DEF Joins, PageType
  <2> QED
    BY <1>5, <1>4, <2>1 DEF Joins
<1>6. ASSUME NEW click \in BOOLEAN, LeavesCall(click) PROVE LoopType'
  <2>1. PICK missed \in BOOLEAN : page' = [page EXCEPT !.call = FALSE, !.missed = missed]
    BY <1>6 DEF LeavesCall
  <2>2. page' \in PageType
    BY <2>1 DEF PageType
  <2> QED
    BY <1>6, <2>2 DEF LeavesCall, endMeeting, Waits
<1>7. CASE IconGoes \/ IconReturns
  BY <1>7 DEF IconGoes, IconReturns, PageType
<1>8. CASE MediaFalls
  <2>1. page' = [page EXCEPT !.open = FALSE] /\ mediaEvent(FALSE)
    BY <1>8 DEF MediaFalls
  <2>2. page' \in PageType
    BY <2>1 DEF PageType
  <2> QED
    BY <1>8, <1>4, <2>1, <2>2 DEF MediaFalls
<1>10. CASE MediaReturns
  <2>1. page' = [page EXCEPT !.open = TRUE, !.dark = 0] /\ mediaEvent(TRUE)
    BY <1>10 DEF MediaReturns
  <2>2. page' \in PageType
    BY <2>1 DEF PageType
  <2> QED
    BY <1>10, <1>4, <2>1, <2>2 DEF MediaReturns
<1>9. CASE LoopTick
  <2>1. page' \in PageType
    BY <1>9, TickedPage
  <2>2. zeroFor' \in Nat \cup {Live}
    BY <1>9, UptoType, Constants DEF LoopTick, Live
  <2>3. lastMeeting' \in [path : Path \cup {Elsewhere}, ago : Nat]
    BY <1>9, UptoType, Constants DEF LoopTick
  <2>4. goneCount' \in Nat /\ spent' \in Nat /\ loop' \in Waits
    BY <1>9, UptoType, Constants DEF LoopTick, endWatcher, nextGone, endMeeting, Waits
  <2>5. waited' \in Nat
    BY <1>9, UptoType, Constants DEF LoopTick, Overdue
  <2> QED
    BY <1>9, <2>1, <2>2, <2>3, <2>4, <2>5 DEF LoopTick
<1> QED
  BY <1>1, <1>2, <1>3, <1>5, <1>6, <1>7, <1>8, <1>9, <1>10, <1>11 DEF LoopStep

-----------------------------------------------------------------------------
(***************************************************************************)
(* FollowsTheCall. A left-over icon is gone before the wait for it is      *)
(* over, or belongs to a call too short to be recorded (ResidueKnown); the *)
(* zero that ends a meeting counts from when the media path went down      *)
(* (ZeroIsDark), and the missed icon from when it went away.               *)
(***************************************************************************)

ResidueKnown ==
  /\ page.residue <= Residue
  /\ page.icon /\ ~page.call /\ ~page.missed =>
       /\ loop \notin {"watching", "draining", "entering", "evicting", "joining"}
       /\ loop = "rearming" => spent <= page.residue

ZeroIsDark ==
  listening /\ page.call /\ zeroFor # Live => ~page.open /\ zeroFor <= page.dark

GoneIsHidden == loop = "meeting" => goneCount <= page.hidden

CallInv == ResidueKnown /\ ZeroIsDark /\ GoneIsHidden

\* What FollowsTheCall says of a step.
Follows ==
  /\ loop = "joining" /\ loop' = "starting" => page.call \/ page.missed
  /\ loop = "meeting" /\ loop' = "flushing" => ~page'.call \/ page.path # meetingPath

LEMMA CallStep ==
  LoopType /\ CallInv /\ (LoopStep \/ UNCHANGED loopVars) /\ Residue < TailGrace
    => CallInv' /\ Follows
<1> SUFFICES ASSUME LoopType, CallInv, LoopStep \/ UNCHANGED loopVars, Residue < TailGrace
             PROVE  CallInv' /\ Follows
  OBVIOUS
<1> USE DEF CallInv, ResidueKnown, ZeroIsDark, GoneIsHidden, Follows, listening, Live
<1>t. /\ page.dark \in Nat /\ page.hidden \in Nat /\ page.residue \in Nat
      /\ page.icon \in BOOLEAN /\ page.call \in BOOLEAN /\ page.open \in BOOLEAN
      /\ page.missed \in BOOLEAN /\ page \in PageType
      /\ spent \in Nat /\ zeroFor \in Nat \cup {-1} /\ goneCount \in Nat
  BY DEF LoopType, PageType
<1>1. CASE UNCHANGED loopVars
  BY <1>1 DEF loopVars
<1>2. CASE EntersPage \/ Drained \/ Joined \/ Flushed
  BY <1>2 DEF EntersPage, Drained, Joined, Flushed
<1>13. CASE Evicted \/ Dies \/ \E stale \in BOOLEAN : ReadsPrevious(stale)
  BY <1>13 DEF Evicted, Dies, ReadsPrevious
<1>3. CASE BackedOut \/ Finalized \/ Orphaned
  <2>1. page' = page /\ loop' = "rearming" /\ spent' = 0 /\ zeroFor' = zeroFor
    BY <1>3 DEF BackedOut, Finalized, Orphaned, returns
  <2>2. BackedOut => ~page.icon
    BY DEF BackedOut
  <2>3. (Finalized => loop = "finalizing") /\ (Orphaned => loop = "starting")
    BY DEF Finalized, Orphaned
  <2> QED
    BY <2>1, <2>2, <2>3, <1>3, <1>t
<1>4. CASE Started
  BY <1>4, <1>t DEF Started
<1>5. CASE Rearmed
  BY <1>5, <1>t, Constants DEF Rearmed, shouldFinishRearmWait
<1>6. ASSUME NEW path \in Path \cup {Elsewhere}, Goes(path) PROVE CallInv' /\ Follows
  BY <1>6, <1>t DEF Goes, PageType
<1>7. CASE Joins
  <2>1. /\ page'.call /\ page'.hidden = page.hidden /\ page'.residue = 0
    BY <1>7, <1>t DEF Joins, PageType
  <2>2. listening => zeroFor' = -1
    BY <1>7 DEF Joins, mediaEvent, nextMediaZeroSince
  <2>3. loop' = loop /\ goneCount' = goneCount
    BY <1>7 DEF Joins
  <2> QED
    BY <2>1, <2>2, <2>3, Constants
<1>8. ASSUME NEW click \in BOOLEAN, LeavesCall(click) PROVE CallInv' /\ Follows
  <2>1. PICK missed \in BOOLEAN : /\ page' = [page EXCEPT !.call = FALSE, !.missed = missed]
                                  /\ missed <=> ~recorded
    BY <1>8 DEF LeavesCall
  <2>2. /\ page'.icon = page.icon /\ ~page'.call /\ page'.missed = missed
        /\ page'.hidden = page.hidden /\ page'.residue = page.residue
    BY <2>1, <1>t DEF PageType
  <2>3. missed \/ loop \in {"starting", "meeting"}
    BY <2>1 DEF recorded
  <2>4. /\ loop' = loop \/ (loop = "meeting" /\ loop' = "flushing")
        /\ zeroFor' = zeroFor /\ goneCount' = goneCount
    BY <1>8 DEF LeavesCall, endMeeting
  <2> QED
    BY <2>2, <2>3, <2>4
<1>9. CASE IconGoes \/ IconReturns
  BY <1>9, <1>t DEF IconGoes, IconReturns, PageType
<1>10. CASE MediaFalls
  BY <1>10, <1>t DEF MediaFalls, mediaEvent, nextMediaZeroSince, PageType
<1>11. CASE MediaReturns
  BY <1>11, <1>t DEF MediaReturns, mediaEvent, nextMediaZeroSince, PageType
<1>12. CASE LoopTick
  <2>1. MeetKeepsUp
    BY <1>12 DEF LoopTick
  <2>2. ResidueKnown'
    <3>1. page'.residue <= Residue
      BY <1>12, <2>1, <1>t, TickedPage, Constants DEF MeetKeepsUp
    <3>2. loop' = loop \/ loop' = "flushing"
      BY <1>12 DEF LoopTick, endWatcher, endMeeting
    <3>3. loop = "rearming" => spent' <= spent + 1
      BY <1>12, <1>t, Constants DEF LoopTick, Upto
    <3>4. page.icon /\ ~page.call => page'.residue = page.residue + 1
      BY <1>12, TickedPage
    <3>5. page'.icon = page.icon /\ page'.call = page.call /\ page'.missed = page.missed
      BY <1>12, TickedPage
    <3>6. spent' \in Nat
      BY LoopTypeStep, <1>12 DEF LoopStep, LoopType
    <3> QED
      BY <3>1, <3>2, <3>3, <3>4, <3>5, <3>6, <1>t
  <2>3. ZeroIsDark'
    <3>1. listening' => listening
      BY <1>12 DEF LoopTick, endWatcher, endMeeting
    <3>2. page'.open = page.open /\ page'.call = page.call
      BY <1>12, TickedPage
    <3>3. page'.dark = IF page.open THEN 0 ELSE Upto(page.dark, MediaGrace)
      BY <1>12, TickedPage
    <3>4. zeroFor' = IF zeroFor = -1 THEN -1 ELSE Upto(zeroFor, MediaGrace)
      BY <1>12 DEF LoopTick
    <3> QED
      BY <3>1, <3>2, <3>3, <3>4, <1>t, Constants DEF Upto
  <2>4. GoneIsHidden'
    <3>1. loop' = "meeting" => /\ loop = "meeting" /\ page.path = meetingPath
                               /\ goneCount' = nextGone /\ nextGone < LeaveChecks
      BY <1>12, <1>t, Constants DEF LoopTick, endWatcher, endMeeting, leaveStateEnds, nextGone
    <3>2. page'.hidden = IF page.icon THEN 0 ELSE Upto(page.hidden, LeaveChecks)
      BY <1>12, TickedPage
    <3> QED
      BY <3>1, <3>2, <1>t, Constants DEF Upto, nextGone
  <2>5. Follows
    <3>1. loop = "joining" => loop' # "starting"
      BY <1>12 DEF LoopTick
    <3>2. ASSUME loop = "meeting", loop' = "flushing", page.call
          PROVE  page.path # meetingPath
      <4>1. ~shouldEndFromMedia
        BY <3>2, <2>1, <1>t, Constants DEF shouldEndFromMedia, MeetKeepsUp
      <4>2. leaveStateEnds
        BY <1>12, <3>2, <4>1 DEF LoopTick, endWatcher
      <4>3. nextGone < LeaveChecks
        BY <3>2, <2>1, <1>t, Constants DEF nextGone, MeetKeepsUp
      <4> QED
        BY <4>2, <4>3, <1>t, Constants DEF leaveStateEnds, nextGone
    <3>3. page'.call = page.call
      BY <1>12, TickedPage
    <3> QED
      BY <3>1, <3>2, <3>3
  <2> QED
    BY <2>2, <2>3, <2>4, <2>5
<1> QED
  BY <1>1, <1>2, <1>3, <1>4, <1>5, <1>6, <1>7, <1>8, <1>9, <1>10, <1>11, <1>12, <1>13 DEF LoopStep

\* A recording starts in a call and ends with it, as long as the icon a call leaves behind
\* is gone before the wait for it is given up (main, endWatcher, meet-lifecycle.ts).
THEOREM CallIsFollowed == ASSUME Residue < TailGrace PROVE Spec => FollowsTheCall
<1>1. Init => LoopType /\ CallInv
  BY LoopTypeInit, Constants DEF Init, LoopInit, CallInv, ResidueKnown, ZeroIsDark,
     GoneIsHidden, listening
<1>2. LoopType /\ CallInv /\ [Next]_vars => LoopType' /\ CallInv'
  BY LoopTypeStep, CallStep, StepOfLoop
<1>3. LoopType /\ CallInv /\ [Next]_vars =>
        [/\ loop = "joining" /\ loop' = "starting" => page.call \/ page.missed
         /\ loop = "meeting" /\ loop' = "flushing" =>
              ~page'.call \/ page.path # meetingPath]_loopVars
  BY CallStep, StepOfLoop DEF Follows
<1> QED
  BY <1>1, <1>2, <1>3, PTL DEF Spec, FollowsTheCall

-----------------------------------------------------------------------------
(***************************************************************************)
(* RecordedSoon. The waits follow each other, and each has a part of the   *)
(* bound: a call begun while the previous meeting is flushed (Flush), its  *)
(* icon waited out (TailGrace) and its tail drained (TailGrace again). A   *)
(* call on another path than the one recorded is a new one, with one tick  *)
(* at most before the end watcher notices. A start cut short begins the    *)
(* count anew.                                                             *)
(***************************************************************************)

Moved == IF page.path # meetingPath THEN 1 ELSE 0

WaitInv ==
  /\ ~page.call => waited = 0
  /\ page.call => page.path \in Path
  /\ loop # "dead" => waited <= Flush + 2 * TailGrace
  /\ loop \in {"entering", "evicting", "joining", "starting", "meeting"}
       /\ page.path # meetingPath => waited = 0
  /\ loop = "flushing" => waited <= spent + Moved /\ spent <= Flush
  /\ loop = "finalizing" => waited <= Flush + Moved
  /\ loop = "rearming" =>
       /\ waited <= Flush + Moved + spent
       /\ spent <= TailGrace
       /\ lastMeeting.path = meetingPath
  /\ loop = "watching" /\ shouldDrainTail(page.path) => waited <= Flush + TailGrace
  /\ loop = "draining" =>
       /\ waited <= Flush + TailGrace + spent
       /\ spent <= TailGrace
       /\ spent <= lastMeeting.ago

LEMMA WaitStep ==
  ASSUME LoopType, CallInv, WaitInv, LoopStep \/ UNCHANGED loopVars,
         Residue < TailGrace, Flush <= TailGrace
  PROVE  WaitInv'
<1> USE DEF WaitInv, Moved
<1>t. /\ page.icon \in BOOLEAN /\ page.call \in BOOLEAN /\ page \in PageType
      /\ spent \in Nat /\ waited \in Nat /\ lastMeeting.ago \in Nat
      /\ lastMeeting \in [path : Path \cup {Elsewhere}, ago : Nat] /\ loop \in Waits
  BY DEF LoopType, PageType
<1>1. CASE UNCHANGED loopVars
  BY <1>1 DEF loopVars, shouldDrainTail
<1>2. CASE EntersPage
  <2>1. page' = page /\ waited' = waited /\ lastMeeting' = lastMeeting /\ loop = "watching"
        /\ spent' = 0
    BY <1>2 DEF EntersPage
  <2>2. CASE shouldDrainTail(page.path)
    BY <2>1, <2>2, <1>2, <1>t, Constants DEF EntersPage
  <2>3. CASE ~shouldDrainTail(page.path)
    BY <2>1, <2>3, <1>2, <1>t, Constants DEF EntersPage
  <2> QED
    BY <2>2, <2>3
<1>3. CASE Drained
  BY <1>3, <1>t, Constants DEF Drained, shouldDrainTail
<1>4. CASE Joined \/ Started
  BY <1>4, <1>t DEF Joined, Started
<1>13. CASE Evicted \/ Dies \/ \E stale \in BOOLEAN : ReadsPrevious(stale)
  BY <1>13, <1>t DEF Evicted, Dies, ReadsPrevious
<1>14. CASE Orphaned
  <2>1. /\ page' = page /\ waited' = 0 /\ meetingPath' = meetingPath
        /\ loop' = "rearming" /\ spent' = 0 /\ lastMeeting'.path = meetingPath
    BY <1>14 DEF Orphaned, returns
  <2> QED
    BY <2>1, <1>t, Constants
<1>5. CASE BackedOut \/ Finalized
  <2>1. /\ page' = page /\ waited' = waited /\ meetingPath' = meetingPath
        /\ loop' = "rearming" /\ spent' = 0 /\ lastMeeting'.path = meetingPath
    BY <1>5 DEF BackedOut, Finalized, returns
  <2>2. waited <= Flush + Moved
    BY <1>5, <1>t, Constants DEF BackedOut, Finalized
  <2> QED
    BY <2>1, <2>2, <1>t, Constants
<1>6. CASE Flushed
  BY <1>6, <1>t, Constants DEF Flushed
<1>7. CASE Rearmed
  BY <1>7, <1>t, Constants DEF Rearmed, shouldDrainTail
<1>8. ASSUME NEW path \in Path \cup {Elsewhere}, Goes(path) PROVE WaitInv'
  <2>1. ~page.call /\ ~page'.call /\ waited' = 0 /\ spent' = spent /\ loop' = loop
        /\ lastMeeting' = lastMeeting /\ meetingPath' = meetingPath
    BY <1>8, <1>t DEF Goes, PageType
  <2> QED
    BY <2>1, <1>t, Constants
<1>9. CASE Joins
  <2>1. page'.call /\ page'.path = page.path /\ page.path \in Path /\ waited' = 0 /\ spent' = spent
        /\ loop' = loop /\ lastMeeting' = lastMeeting /\ meetingPath' = meetingPath
    BY <1>9, <1>t DEF Joins, PageType
  <2> QED
    BY <2>1, <1>t, Constants
<1>10. ASSUME NEW click \in BOOLEAN, LeavesCall(click) PROVE WaitInv'
  <2>1. PICK missed \in BOOLEAN : page' = [page EXCEPT !.call = FALSE, !.missed = missed]
    BY <1>10 DEF LeavesCall
  <2>2. ~page'.call /\ page'.path = page.path
    BY <2>1, <1>t DEF PageType
  <2>3. /\ waited' = 0 /\ lastMeeting' = lastMeeting /\ meetingPath' = meetingPath
        /\ (loop' = loop /\ spent' = spent) \/ (loop' = "flushing" /\ spent' = 0)
    BY <1>10 DEF LeavesCall, endMeeting
  <2> QED
    BY <2>2, <2>3, <1>t, Constants
<1>11. CASE IconGoes \/ IconReturns \/ MediaFalls \/ MediaReturns
  <2>1. page'.call = page.call /\ page'.path = page.path
    BY <1>11, <1>t DEF IconGoes, IconReturns, MediaFalls, MediaReturns, PageType
  <2>2. /\ waited' = waited /\ lastMeeting' = lastMeeting /\ meetingPath' = meetingPath
        /\ loop' = loop /\ spent' = spent
    BY <1>11 DEF IconGoes, IconReturns, MediaFalls, MediaReturns
  <2> QED
    BY <2>1, <2>2 DEF shouldDrainTail
<1>12. CASE LoopTick
  <2>1. page'.call = page.call /\ page'.path = page.path
    BY <1>12, TickedPage
  <2>2. /\ ~Due /\ meetingPath' = meetingPath /\ lastMeeting'.path = lastMeeting.path
        /\ lastMeeting'.ago = Upto(lastMeeting.ago, TailGrace)
    BY <1>12, <1>t DEF LoopTick
  <2>3. \/ waited' = waited
        \/ /\ waited' \in Nat /\ waited' <= waited + 1
           /\ page.call /\ page.icon /\ ~recorded /\ loop \notin Asked
    BY <1>12, <1>t, Constants DEF LoopTick, Upto, Overdue
  <2>4. CASE loop = "meeting"
    <3>1. loop' = "meeting" \/ (loop' = "flushing" /\ spent' = 0)
      BY <1>12, <2>4 DEF LoopTick, endWatcher, endMeeting
    <3>2. loop' = "flushing" => ~page'.call \/ page.path # meetingPath
      BY <2>4, <1>12, CallStep DEF Follows
    <3>3. page.path = meetingPath => waited' = waited
      BY <2>3, <2>4 DEF recorded
    <3>4. loop' = "meeting" /\ page.call => page.path = meetingPath
      BY <1>12, <2>4, <1>t, Constants DEF LoopTick, endWatcher, endMeeting, leaveStateEnds
    <3> QED
      BY <2>1, <2>2, <2>3, <2>4, <3>1, <3>2, <3>3, <3>4, <1>t, Constants
  <2>5. CASE loop # "meeting"
    <3>1. loop' = loop /\ spent' = Upto(spent, TailGrace)
      BY <1>12, <2>5 DEF LoopTick
    <3>2. CASE loop = "joining"
      BY <2>1, <2>2, <2>3, <3>1, <3>2, <1>t, Constants DEF Due
    <3>8. CASE loop \in {"entering", "evicting", "starting"}
      BY <2>1, <2>2, <2>3, <3>1, <3>8, <1>t DEF Asked
    <3>9. CASE loop = "dead"
      BY <2>1, <3>1, <3>9, <1>t, <2>3
    <3>3. CASE loop = "flushing"
      BY <2>1, <2>2, <2>3, <3>1, <3>3, <1>t, Constants DEF Due, Upto
    <3>4. CASE loop = "finalizing"
      BY <2>1, <2>2, <2>3, <3>1, <3>4, <1>t, Constants DEF Asked
    <3>5. CASE loop = "rearming"
      BY <2>1, <2>2, <2>3, <3>1, <3>5, <1>t, Constants DEF Due, Upto, shouldFinishRearmWait
    <3>6. CASE loop = "watching"
      BY <2>1, <2>2, <2>3, <3>1, <3>6, <1>t, Constants DEF Due, shouldDrainTail, Upto
    <3>7. CASE loop = "draining"
      BY <2>1, <2>2, <2>3, <3>1, <3>7, <1>t, Constants DEF Due, Upto
    <3> QED
      BY <3>2, <3>3, <3>4, <3>5, <3>6, <3>7, <3>8, <3>9, <2>5, <1>t DEF Waits
  <2> QED
    BY <2>4, <2>5
<1> QED
  BY <1>1, <1>2, <1>3, <1>4, <1>5, <1>6, <1>7, <1>8, <1>9, <1>10, <1>11, <1>12, <1>13, <1>14
     DEF LoopStep

\* As long as no storage error has ended the loop, no call goes unrecorded longer than the
\* flush and two tails, even one joined again at once after another, or one whose start an
\* update cut short (main, endMeeting, shouldDrainTail, shouldFinishRearmWait).
THEOREM CallsAreRecordedSoon ==
  ASSUME Residue < TailGrace, Flush <= TailGrace PROVE Spec => []RecordedSoon
<1>1. Init => LoopType /\ CallInv /\ WaitInv
  BY LoopTypeInit, Constants DEF Init, LoopInit, CallInv, ResidueKnown, ZeroIsDark,
     GoneIsHidden, listening, WaitInv, shouldDrainTail
<1>2. LoopType /\ CallInv /\ WaitInv /\ [Next]_vars => LoopType' /\ CallInv' /\ WaitInv'
  BY LoopTypeStep, CallStep, WaitStep, StepOfLoop
<1>3. LoopType /\ WaitInv => RecordedSoon
  BY Constants DEF LoopType, WaitInv, RecordedSoon, Overdue
<1> QED
  BY <1>1, <1>2, <1>3, PTL DEF Spec

-----------------------------------------------------------------------------
(***************************************************************************)
(* NoticeTells. A running meeting knows what the page script has armed, so *)
(* while it has armed nothing the warning given is about that, and once it *)
(* has, the warning is about captions or was taken down.                   *)
(***************************************************************************)

HealthType ==
  /\ subscribed \in BOOLEAN /\ captureArmed \in BOOLEAN /\ captureWarned \in BOOLEAN
  /\ captionsSeen \in BOOLEAN /\ attentive \in BOOLEAN /\ recording \in BOOLEAN
  /\ elapsed \in Nat

HealthInv ==
  /\ captureNotice # "none" => running /\ captureWarned
  /\ running =>
       /\ captureArmed <=> subscribed
       /\ attentive => recording
       /\ captureNotice = "not-armed" => ~subscribed
       /\ captureNotice = "no-captions" => subscribed
       /\ captureWarned /\ ~subscribed => captureNotice = "not-armed"
       /\ attentive /\ ~subscribed /\ elapsed >= ArmGrace => captureWarned

\* Where a meeting begins and ends: the loop, seen from the meeting.
LEMMA RunningStep ==
  ASSUME [Next]_vars
  PROVE  \/ StartsMeeting
         \/ running' = running
         \/ running /\ ~running' /\ (Tick \/ Page)
<1> USE DEF running
<1>1. CASE Polls
  BY <1>1 DEF Polls, EntersPage, Drained, ReadsPrevious, Evicted, Joined, BackedOut, Finalized,
              Rearmed, returns
<1>6. CASE Fails
  BY <1>6 DEF Fails, Dies, Orphaned, returns
<1>2. CASE FlushEnds
  BY <1>2 DEF FlushEnds, Flushed
<1>3. CASE Tick
  BY <1>3 DEF Tick, LoopTick, endWatcher, endMeeting
<1>4. CASE Page
  BY <1>4 DEF Page, Goes, Joins, LeavesCall, IconGoes, IconReturns, MediaFalls, MediaReturns,
              endMeeting
<1>5. CASE Roster \/ Capture \/ SetRecording \/ Purge \/ UNCHANGED vars
  BY <1>5 DEF Roster, Capture, SetRecording, Purge, vars, loopVars
<1> QED
  BY <1>1, <1>2, <1>3, <1>4, <1>5, <1>6 DEF Next

LEMMA HealthStep == HealthType /\ HealthInv /\ [Next]_vars => HealthType' /\ HealthInv'
<1> SUFFICES ASSUME HealthType, HealthInv, [Next]_vars PROVE HealthType' /\ HealthInv'
  OBVIOUS
<1> USE DEF HealthType, HealthInv
<1>g. ArmGrace \in Nat /\ ArmGrace > 0 /\ SilentGrace \in Nat
  BY HealthAssumption
<1>1. CASE Polls \/ Fails \/ FlushEnds \/ Roster \/ Purge \/ UNCHANGED vars
  <2>1. UNCHANGED healthVars /\ UNCHANGED recording
    BY <1>1 DEF Polls, Fails, FlushEnds, Roster, Purge, vars
  <2>2. running' = running
    BY <1>1 DEF running, Polls, EntersPage, Drained, ReadsPrevious, Evicted, Joined, BackedOut,
       Finalized, Rearmed, returns, Fails, Dies, Orphaned, FlushEnds, Flushed, Roster, Purge, vars,
       loopVars
  <2> QED
    BY <2>1, <2>2 DEF healthVars
<1>2. CASE StartsMeeting
  <2>1. /\ captureArmed' = subscribed /\ subscribed' = subscribed
        /\ captureWarned' = FALSE /\ captureNotice' = "none"
        /\ captionsSeen' = FALSE /\ elapsed' = 0 /\ attentive' = TRUE /\ recording' = TRUE
    BY <1>2 DEF StartsMeeting, HealthStart
  <2>2. HealthType'
    BY <2>1 DEF HealthType
  <2>3. captureArmed' <=> subscribed'
    BY <2>1
  <2> QED
    BY <2>1, <2>2, <2>3, <1>g
<1>3. CASE Tick
  <2>1. UNCHANGED recording /\ (running' => running)
    BY <1>3, RunningStep DEF Tick, running, LoopTick, endWatcher, endMeeting
  <2>2. CASE running /\ loop' = "flushing"
    <3>1. HealthEnds /\ ~running'
      BY <1>3, <2>2 DEF Tick, IfItEnds, running
    <3> QED
      BY <3>1, <2>1 DEF HealthEnds
  <2>3. CASE ~(running /\ loop' = "flushing")
    <3>1. HealthTick(running, Cardinality(attendees), recording)
      BY <1>3, <2>3 DEF Tick, IfItEnds
    <3>2. running' = running
      BY <1>3, <2>3 DEF Tick, running, LoopTick, endWatcher, endMeeting
    <3>3. PICK at \in Nat, fault \in {"none", "not-armed", "no-captions"} :
            /\ at = IF elapsed < ArmGrace + SilentGrace THEN elapsed + 1 ELSE elapsed
            /\ fault = captureFault(at, Cardinality(attendees), recording)
            /\ elapsed' = at
            /\ IF running /\ fault # "none"
               THEN captureWarned' = TRUE /\ captureNotice' = fault
               ELSE UNCHANGED <<captureWarned, captureNotice>>
            /\ UNCHANGED <<subscribed, captureArmed, captionsSeen, attentive>>
      BY <3>1, <1>g DEF HealthTick, captureFault
    <3>4. fault = "not-armed" => ~captureArmed
      BY <3>3 DEF captureFault
    <3>8. fault = "no-captions" => captureArmed
      BY <3>3 DEF captureFault
    <3>5. captureWarned => fault = "none"
      BY <3>3 DEF captureFault
    <3>6. ~captureWarned /\ ~captureArmed /\ recording =>
            fault = IF at >= ArmGrace THEN "not-armed" ELSE "none"
      BY <3>3 DEF captureFault
    <3>7. ~captureArmed => fault \in {"none", "not-armed"}
      BY <3>3 DEF captureFault
    <3> QED
      BY <3>2, <3>3, <3>4, <3>5, <3>6, <3>7, <3>8, <2>1, <1>g
  <2> QED
    BY <2>2, <2>3
<1>4. CASE Page
  <2>1. UNCHANGED recording
    BY <1>4 DEF Page
  <2>2. CASE running /\ loop' = "flushing"
    <3>1. HealthEnds /\ ~running'
      BY <1>4, <2>2 DEF Page, IfItEnds, running
    <3> QED
      BY <3>1, <2>1 DEF HealthEnds
  <2>3. CASE ~(running /\ loop' = "flushing")
    <3>1. UNCHANGED healthVars
      BY <1>4, <2>3 DEF Page, IfItEnds
    <3>2. running' = running
      BY <1>4, <2>3 DEF Page, running, Goes, Joins, LeavesCall, IconGoes, IconReturns, MediaFalls,
         MediaReturns, endMeeting
    <3> QED
      BY <3>1, <3>2, <2>1 DEF healthVars
  <2> QED
    BY <2>2, <2>3
<1>5. CASE Capture
  <2>1. UNCHANGED recording /\ running' = running
    BY <1>5 DEF Capture, loopVars, running
  <2>2. CASE Arms(running)
    BY <2>1, <2>2 DEF Arms, onCaptureArmed
  <2>3. CASE CaptionSeen(listening, recording)
    BY <2>1, <2>3 DEF CaptionSeen
  <2> QED
    BY <1>5, <2>2, <2>3 DEF Capture
<1>6. CASE SetRecording
  <2>1. running' = running
    BY <1>6 DEF SetRecording, loopVars, running
  <2> QED
    BY <1>6, <2>1 DEF SetRecording, HealthPauses
<1> QED
  BY <1>1, <1>2, <1>3, <1>4, <1>5, <1>6 DEF Next

\* What is said of a meeting that captures nothing is true: "not asked for" as long as the
\* page script has asked for nothing, and no longer.
LEMMA NoticeIsRight == HealthType /\ HealthInv => NoticeIsTrue(running)
  BY DEF HealthType, HealthInv, NoticeIsTrue

\* The tick at the silent grace warns of a meeting that armed and heard nothing, and the
\* one at the arming grace of a meeting that did not arm.
LEMMA SilenceStep ==
  ASSUME HealthType, HealthInv, running, Tick, running'
  PROVE  SilenceIsTold(Cardinality(attendees))
<1> SUFFICES ASSUME attentive, ~captionsSeen, ~(Cardinality(attendees) < 2),
                    elapsed' >= ArmGrace + SilentGrace, ~captureWarned
             PROVE  captureWarned'
  <2>1. HealthTick(running, Cardinality(attendees), recording)
    BY DEF Tick, IfItEnds, running
  <2>2. captureWarned => captureWarned'
    BY <2>1 DEF HealthTick
  <2> QED
    BY <2>2 DEF SilenceIsTold, HealthType
<1>1. HealthTick(TRUE, Cardinality(attendees), TRUE)
  BY DEF Tick, IfItEnds, running, HealthInv, HealthType
<1>2. ArmGrace \in Nat /\ SilentGrace \in Nat /\ elapsed \in Nat /\ elapsed' \in Nat
  BY <1>1, HealthAssumption DEF HealthType, HealthTick
<1>3. elapsed' >= ArmGrace /\ elapsed' >= SilentGrace
  BY <1>2
<1>4. captureFault(elapsed', Cardinality(attendees), TRUE) # "none"
  BY <1>3 DEF captureFault
<1> QED
  BY <1>1, <1>4 DEF HealthTick

\* The notice that nothing is transcribed says what is true of the page while it is up, and
\* a meeting in company of which nothing was captured is warned of by its grace, however
\* the meetings before it in the tab left the page script (runMeeting, captureFault).
THEOREM NoticeHolds == Spec => NoticeTells
<1>1. Init => HealthType /\ HealthInv
  <2> SUFFICES ASSUME Init PROVE HealthType /\ HealthInv
    OBVIOUS
  <2>1. HealthType
    BY DEF Init, HealthInit, HealthType
  <2>2. ~running /\ captureNotice = "none"
    BY DEF Init, HealthInit, LoopInit, running
  <2> QED
    BY <2>1, <2>2 DEF HealthInv
<1>2. HealthType /\ HealthInv /\ [Next]_vars =>
        [running /\ Tick /\ running' => SilenceIsTold(Cardinality(attendees))]_vars
  BY SilenceStep
<1> QED
  BY <1>1, <1>2, HealthStep, NoticeIsRight, PTL DEF Spec, NoticeTells

-----------------------------------------------------------------------------
\* SpeakersAreListed. The participants are computed from the last transcript as the
\* listeners go, and nothing but the next meeting changes either afterwards.

LEMMA SpeakersStep == SpeakersAreListed /\ [Next]_vars => SpeakersAreListed'
<1> SUFFICES ASSUME SpeakersAreListed, [Next]_vars, loop' = "finalizing"
             PROVE  speakers' \ {Unnamed} \subseteq participants'
  BY DEF SpeakersAreListed
<1>1. CASE FlushEnds
  BY <1>1 DEF FlushEnds, FinalSnapshot, resolve, finalAttendees
<1>2. CASE ~FlushEnds
  <2>1. loop = "finalizing"
    BY <1>2, StepOfLoop DEF Next, Polls, StartsMeeting, Tick, Page, Roster, Capture, SetRecording, Purge,
       EntersPage, Drained, ReadsPrevious, Evicted, Joined, BackedOut, Started, Finalized, Rearmed,
       Fails, Dies, Orphaned, returns, LoopTick, endWatcher, endMeeting, Goes, Joins, LeavesCall, IconGoes, IconReturns, MediaFalls, MediaReturns, vars, loopVars
  <2>2. UNCHANGED <<speakers, participants>>
    <3>1. CASE Polls \/ Fails \/ Capture \/ SetRecording \/ UNCHANGED vars
      BY <3>1 DEF Polls, Fails, Capture, SetRecording, vars, presenceVars
    <3>2. CASE Tick \/ Page
      BY <3>2, <2>1 DEF Tick, Page, IfItEnds, running, presenceVars
    <3>3. CASE StartsMeeting \/ Purge
      BY <3>3, <2>1 DEF StartsMeeting, Started, Purge, listening
    <3>4. CASE Roster
      BY <3>4, <2>1 DEF Roster, listening, Enters, Broadcast, Tombstone, SelfNamed
    <3> QED
      BY <3>1, <3>2, <3>3, <3>4, <1>2 DEF Next
  <2> QED
    BY <2>1, <2>2 DEF SpeakersAreListed
<1> QED
  BY <1>1, <1>2

\* Whoever the transcript of a finished meeting names is among its participants
\* (endMeeting, finalAttendees).
THEOREM SpeakersListed == Spec => []SpeakersAreListed
<1>1. Init => SpeakersAreListed
  BY DEF Init, LoopInit, SpeakersAreListed
<1> QED
  BY <1>1, SpeakersStep, PTL DEF Spec

-----------------------------------------------------------------------------
\* The markers of a meeting tell who is in the call (MarkersTell), for any number of
\* people, devices and meetings. For a name that is sure, the devices counted as active
\* are exactly those Meet has told of and that are still there (ActiveAreTold), because
\* the roster never gives a device another name than its owner's (RosterRight).

Marker == {"join", "leave"}

\* The names whose markers must tell.
Sure == Name \ (unsure \cup {Self})

Present(n) == {d \in told : Owner[d] = n}

RosterRight ==
  /\ told \subseteq Device
  /\ roster \in [Device -> Name \cup {Unnamed}]
  /\ \A d \in Device : roster[d] \in {Owner[d], Unnamed}
  /\ \A d \in told : roster[d] = Owner[d]

MarkersType ==
  /\ activeByName \in [Name -> SUBSET Device]
  /\ markers \in [Name -> Seq(Marker)]

ActiveAreTold == \A n \in Sure : activeByName[n] = Present(n)

\* The markers of one person, and what they say of presence.
MarkedAs(s, present) ==
  /\ Alternates(s)
  /\ s # <<>> => (Last(s) = "join" <=> present)

MarkedSure == \A n \in Sure : MarkedAs(markers[n], Present(n) # {})

PresenceInv == RosterRight /\ MarkersType /\ (running => ActiveAreTold /\ MarkedSure)

-----------------------------------------------------------------------------
\* A marker of the other kind, put at the end.
LEMMA MarkerAppended ==
  ASSUME NEW s \in Seq(Marker), NEW k \in Marker, NEW was \in BOOLEAN,
         MarkedAs(s, was), was <=> k # "join"
  PROVE  Append(s, k) \in Seq(Marker) /\ MarkedAs(Append(s, k), k = "join")
<1> DEFINE t == Append(s, k)
<1>1. /\ t \in Seq(Marker) /\ Len(t) = Len(s) + 1 /\ t[Len(t)] = k /\ t # <<>>
      /\ \A i \in 1..Len(s) : t[i] = s[i]
  OBVIOUS
<1>2. Len(s) \in Nat /\ (Len(s) # 0 => s # <<>>)
  OBVIOUS
<1>3. Len(s) # 0 => s[Len(s)] # k
  BY <1>2 DEF MarkedAs, Last, Marker
<1>4. ASSUME NEW i \in 1..(Len(t) - 1) PROVE t[i] # t[i + 1]
  <2>1. CASE i = Len(s)
    BY <1>1, <1>2, <1>3, <2>1
  <2>2. CASE i # Len(s)
    <3>1. i \in 1..(Len(s) - 1) /\ i \in 1..Len(s) /\ i + 1 \in 1..Len(s)
      BY <1>1, <1>2, <2>2
    <3>2. s[i] # s[i + 1]
      BY <3>1 DEF MarkedAs, Alternates
    <3> QED
      BY <1>1, <3>1, <3>2
  <2> QED
    BY <2>1, <2>2
<1>5. Alternates(t)
  BY <1>4 DEF Alternates
<1>6. Last(t) = k
  BY <1>1 DEF Last
<1> QED
  BY <1>1, <1>5, <1>6 DEF MarkedAs

LEMMA Unmarked == ASSUME NEW p PROVE MarkedAs(<<>>, p)
  BY DEF MarkedAs, Alternates

-----------------------------------------------------------------------------
\* The page's roster: every event puts the owner's name, or leaves what is there.
LEMMA RosterStep == RosterRight /\ [Next]_vars => RosterRight'
<1> SUFFICES ASSUME RosterRight, [Next]_vars PROVE RosterRight'
  OBVIOUS
<1> USE DEF RosterRight
<1>o. Owner \in [Device -> Name]
  BY PresenceAssumption
<1>1. CASE Roster
  <2>1. CASE \E d \in Device : Enters(d) \/ Speaks(d)
    BY <2>1 DEF Enters, Speaks
  <2>2. CASE SelfNamed(listening)
    BY <2>2 DEF SelfNamed
  <2>3. CASE \E d \in Device : Broadcast(d, listening, ending, elapsed, recording)
    BY <2>3, <1>o DEF Broadcast
  <2>4. CASE \E d \in Device, named \in BOOLEAN :
               Tombstone(d, named, listening, ending, recording)
    BY <2>4, <1>o DEF Tombstone
  <2>5. CASE \E d \in Device : ChatNames(d)
    BY <2>5, <1>o DEF ChatNames
  <2> QED
    BY <1>1, <2>1, <2>2, <2>3, <2>4, <2>5 DEF Roster
<1>2. CASE ~Roster
  BY <1>2 DEF Next, Polls, Fails, StartsMeeting, FlushEnds, Tick, Page, IfItEnds, Capture, SetRecording,
     Purge, vars, presenceVars, PresenceStart, PresenceEnds, FinalSnapshot, PresencePurge
<1> QED
  BY <1>1, <1>2

-----------------------------------------------------------------------------
\* A device that is told of is counted with its owner.
LEMMA BroadcastStep ==
  ASSUME PresenceInv, running, NEW d \in Device,
         Broadcast(d, listening, ending, elapsed, recording), RosterRight'
  PROVE  MarkersType' /\ ActiveAreTold' /\ MarkedSure'
<1> DEFINE o == Owner[d]
<1>1. o \in Name /\ Owner \in [Device -> Name]
  BY PresenceAssumption
<1>2. recordDevice(d, o, elapsed, recording)
  BY DEF Broadcast, running, listening, ending
<1>3. told' = told \cup {d}
  BY DEF Broadcast
<1>4. activeByName' = [activeByName EXCEPT ![o] = @ \cup {d}]
  BY <1>2 DEF recordDevice
<1>5. MarkersType /\ ActiveAreTold /\ MarkedSure /\ RosterRight
  BY DEF PresenceInv
<1>6. activeByName' \in [Name -> SUBSET Device]
  BY <1>1, <1>4, <1>5 DEF MarkersType
<1>7. unsure \subseteq unsure' /\ (\A n \in Name : n # o => markers'[n] = markers[n])
  BY <1>1, <1>2, <1>5 DEF recordDevice, pushPresence, MarkersType
<1>8. Present(o)' = Present(o) \cup {d} /\ (\A n \in Name : n # o => Present(n)' = Present(n))
  BY <1>1, <1>3 DEF Present
<1>9. ActiveAreTold'
  BY <1>1, <1>4, <1>5, <1>7, <1>8 DEF ActiveAreTold, Sure, MarkersType
<1>10. markers' \in [Name -> Seq(Marker)] /\ (o \in Sure' => MarkedAs(markers'[o], TRUE))
  <2>1. CASE activeByName[o] # {}
    <3>1. UNCHANGED markers
      BY <1>2, <2>1 DEF recordDevice, isMidMeetingJoin
    <3>2. o \in Sure' => o \in Sure /\ MarkedAs(markers[o], Present(o) # {}) /\ Present(o) # {}
      BY <1>5, <1>7, <2>1 DEF Sure, ActiveAreTold, MarkedSure
    <3> QED
      BY <1>5, <3>1, <3>2 DEF MarkersType, MarkedAs
  <2>2. CASE activeByName[o] = {} /\ isMidMeetingJoin(o, FALSE, elapsed) /\ recording
    <3>1. markers' = [markers EXCEPT ![o] = Append(@, "join")]
      BY <1>2, <2>2 DEF recordDevice, pushPresence, isMidMeetingJoin
    <3>2. o \in Sure' => MarkedAs(markers[o], FALSE)
      BY <1>5, <1>7, <2>2 DEF Sure, ActiveAreTold, MarkedSure, MarkedAs
    <3>3. markers[o] \in Seq(Marker) /\ "join" \in Marker
      BY <1>1, <1>5 DEF MarkersType, Marker
    <3>4. Append(markers[o], "join") \in Seq(Marker)
      BY <3>3
    <3>5. o \in Sure' => MarkedAs(Append(markers[o], "join"), TRUE)
      BY <3>2, <3>3, MarkerAppended DEF MarkedAs
    <3> QED
      BY <1>1, <1>5, <3>1, <3>4, <3>5 DEF MarkersType
  <2>3. CASE activeByName[o] = {} /\ isMidMeetingJoin(o, FALSE, elapsed) /\ ~recording
    <3>1. UNCHANGED markers /\ o \in unsure'
      BY <1>2, <2>3 DEF recordDevice, pushPresence, isMidMeetingJoin
    <3> QED
      BY <1>5, <3>1 DEF MarkersType, Sure
  <2>4. CASE activeByName[o] = {} /\ ~isMidMeetingJoin(o, FALSE, elapsed)
    <3>1. UNCHANGED markers /\ (o \in unsure' \/ markers[o] = <<>>)
      BY <1>2, <2>4 DEF recordDevice, isMidMeetingJoin
    <3> QED
      BY <1>5, <3>1, Unmarked DEF MarkersType, Sure
  <2> QED
    BY <2>1, <2>2, <2>3, <2>4
<1>11. ASSUME NEW n \in Sure' PROVE MarkedAs(markers'[n], Present(n)' # {})
  <2>1. CASE n = o
    BY <1>8, <1>10, <2>1 DEF MarkedAs
  <2>2. CASE n # o
    BY <1>5, <1>7, <1>8, <2>2 DEF MarkedSure, Sure
  <2> QED
    BY <2>1, <2>2
<1> QED
  BY <1>6, <1>9, <1>10, <1>11 DEF MarkersType, MarkedSure

\* A device that goes is no longer counted, wherever it was.
LEMMA TombstoneStep ==
  ASSUME PresenceInv, running, NEW d \in Device, NEW named \in BOOLEAN,
         Tombstone(d, named, listening, ending, recording)
  PROVE  MarkersType' /\ ActiveAreTold' /\ MarkedSure'
<1> DEFINE o == Owner[d]
           names == IF named THEN [roster EXCEPT ![d] = Owner[d]] ELSE roster
<1>1. o \in Name /\ Owner \in [Device -> Name] /\ Unnamed \notin Name
  BY PresenceAssumption
<1>2. recordLeave(d, names[d], recording)
  BY DEF Tombstone, running, listening, ending
<1>3. told' = told \ {d}
  BY DEF Tombstone
<1>5. MarkersType /\ ActiveAreTold /\ MarkedSure /\ RosterRight
  BY DEF PresenceInv
<1>4. names[d] \in {o, Unnamed} /\ (d \in told => names[d] = o)
  BY <1>5 DEF RosterRight
<1>8. Present(o)' = Present(o) \ {d} /\ (\A n \in Name : n # o => Present(n)' = Present(n))
  BY <1>1, <1>3 DEF Present
<1>9. CASE names[d] = Unnamed \/ d \notin activeByName[o]
  <2>1. UNCHANGED <<activeByName, markers, unsure>>
    BY <1>2, <1>4, <1>9, <1>1 DEF recordLeave
  <2>2. Sure' = Sure
    BY <2>1 DEF Sure
  <2>3. o \in Sure => d \notin told
    BY <1>1, <1>4, <1>5, <1>9 DEF ActiveAreTold, Present
  <2>4. \A n \in Sure : Present(n)' = Present(n)
    BY <1>8, <2>3 DEF Present, Sure
  <2> QED
    BY <1>5, <2>1, <2>2, <2>4 DEF MarkersType, ActiveAreTold, MarkedSure
<1>10. CASE names[d] = o /\ d \in activeByName[o]
  <2>1. activeByName' = [activeByName EXCEPT ![o] = @ \ {d}]
    BY <1>1, <1>2, <1>10 DEF recordLeave
  <2>2. unsure \subseteq unsure' /\ (\A n \in Name : n # o => markers'[n] = markers[n])
    BY <1>1, <1>2, <1>5, <1>10 DEF recordLeave, pushPresence, MarkersType
  <2>3. activeByName' \in [Name -> SUBSET Device]
    BY <1>1, <1>5, <2>1 DEF MarkersType
  <2>4. ActiveAreTold'
    BY <1>1, <1>5, <1>8, <2>1, <2>2 DEF ActiveAreTold, Sure, MarkersType
  <2>5. /\ markers' \in [Name -> Seq(Marker)]
        /\ o \in Sure' => MarkedAs(markers'[o], Present(o)' # {})
    <3>1. o \in Sure' => /\ o \in Sure /\ o # Self
                         /\ activeByName[o] = Present(o) /\ d \in Present(o)
                         /\ MarkedAs(markers[o], TRUE)
      BY <1>5, <1>10, <2>2 DEF Sure, ActiveAreTold, MarkedSure, MarkedAs
    <3>2. CASE activeByName[o] # {d} \/ (selfName /\ o = Self)
      <4>1. UNCHANGED markers
        BY <1>1, <1>2, <1>10, <3>2 DEF recordLeave
      <4>2. o \in Sure' => Present(o)' # {}
        BY <1>8, <3>1, <3>2
      <4> QED
        BY <1>5, <3>1, <4>1, <4>2 DEF MarkersType, MarkedAs
    <3>3. CASE activeByName[o] = {d} /\ ~(selfName /\ o = Self) /\ recording
      <4>1. markers' = [markers EXCEPT ![o] = Append(@, "leave")]
        BY <1>1, <1>2, <1>10, <3>3 DEF recordLeave, pushPresence
      <4>2. markers[o] \in Seq(Marker) /\ "leave" \in Marker
        BY <1>1, <1>5 DEF MarkersType, Marker
      <4>3. Append(markers[o], "leave") \in Seq(Marker)
        BY <4>2
      <4>4. o \in Sure' => MarkedAs(Append(markers[o], "leave"), FALSE)
        BY <3>1, <4>2, MarkerAppended DEF MarkedAs
      <4>5. o \in Sure' => Present(o)' = {}
        BY <1>8, <3>1, <3>3
      <4>6. o \in Sure' => MarkedAs(Append(markers[o], "leave"), Present(o)' # {})
        BY <4>4, <4>5 DEF MarkedAs
      <4> QED
        BY <1>1, <1>5, <4>1, <4>3, <4>6 DEF MarkersType
    <3>4. CASE activeByName[o] = {d} /\ ~(selfName /\ o = Self) /\ ~recording
      <4>1. UNCHANGED markers /\ o \in unsure'
        BY <1>1, <1>2, <1>10, <3>4 DEF recordLeave, pushPresence
      <4> QED
        BY <1>5, <4>1 DEF MarkersType, Sure
    <3> QED
      BY <3>2, <3>3, <3>4
  <2>6. ASSUME NEW n \in Sure' PROVE MarkedAs(markers'[n], Present(n)' # {})
    <3>1. CASE n = o
      BY <2>5, <3>1
    <3>2. CASE n # o
      BY <1>5, <1>8, <2>2, <3>2 DEF MarkedSure, Sure
    <3> QED
      BY <3>1, <3>2
  <2> QED
    BY <2>3, <2>4, <2>5, <2>6 DEF MarkersType, MarkedSure
<1> QED
  BY <1>4, <1>9, <1>10

-----------------------------------------------------------------------------
\* A meeting starts with the roster for its active devices, and no markers.
LEMMA StartStep ==
  ASSUME PresenceInv, StartsMeeting
  PROVE  MarkersType' /\ ActiveAreTold' /\ MarkedSure'
<1>1. /\ activeByName' = [n \in Name |-> Seeded(n)]
      /\ markers' = [n \in Name |-> <<>>]
      /\ unsure' = {n \in Name : ~(Seeded(n) \subseteq told)}
      /\ told' = told
  BY DEF StartsMeeting, PresenceStart
<1>2. RosterRight
  BY DEF PresenceInv
<1>3. MarkersType'
  BY <1>1 DEF MarkersType, Seeded
<1>4. ASSUME NEW n \in Sure' PROVE activeByName'[n] = Present(n)'
  <2>1. n \in Name /\ Seeded(n) \subseteq told /\ n # Unnamed
    BY <1>1, PresenceAssumption DEF Sure
  <2>2. Seeded(n) = Present(n)
    BY <1>2, <2>1 DEF RosterRight, Seeded, Present
  <2> QED
    BY <1>1, <2>1, <2>2 DEF Present
<1>5. ASSUME NEW n \in Sure' PROVE MarkedAs(markers'[n], Present(n)' # {})
  BY <1>1, Unmarked DEF Sure
<1> QED
  BY <1>3, <1>4, <1>5 DEF ActiveAreTold, MarkedSure

\* A step that counts nobody in or out.
LEMMA NobodyMoves ==
  ASSUME PresenceInv, UNCHANGED <<told, activeByName, markers, unsure>>
  PROVE  MarkersType' /\ (running => ActiveAreTold' /\ MarkedSure')
<1>1. Sure' = Sure /\ \A n : Present(n)' = Present(n)
  BY DEF Sure, Present
<1> QED
  BY <1>1 DEF PresenceInv, MarkersType, ActiveAreTold, MarkedSure

LEMMA PresenceStep == PresenceInv /\ [Next]_vars => PresenceInv'
<1> SUFFICES ASSUME PresenceInv, [Next]_vars PROVE PresenceInv'
  OBVIOUS
<1>1. RosterRight'
  BY RosterStep DEF PresenceInv
<1>2. CASE StartsMeeting
  BY <1>1, <1>2, StartStep DEF PresenceInv
<1>3. CASE running' => running
  <2>1. CASE UNCHANGED <<told, activeByName, markers, unsure>>
    BY <1>1, <1>3, <2>1, NobodyMoves DEF PresenceInv
  <2>2. CASE Purge
    <3>1. /\ UNCHANGED <<told, activeByName, unsure>>
          /\ markers' = [n \in Name |-> <<>>]
      BY <2>2 DEF Purge, PresencePurge
    <3>2. Sure' = Sure /\ \A n : Present(n)' = Present(n)
      BY <3>1 DEF Sure, Present
    <3>3. MarkersType' /\ (running => ActiveAreTold')
      BY <3>1, <3>2 DEF PresenceInv, MarkersType, ActiveAreTold
    <3>4. MarkedSure'
      BY <3>1, Unmarked DEF MarkedSure, Sure
    <3> QED
      BY <1>1, <1>3, <3>3, <3>4 DEF PresenceInv
  <2>3. CASE Roster
    <3>1. running' = running
      BY <2>3 DEF Roster, loopVars, running
    <3>2. CASE ~running
      <4>1. UNCHANGED <<activeByName, markers>> \/ (listening /\ ~ending)
        BY <2>3 DEF Roster, Enters, Broadcast, Tombstone, Speaks, ChatNames, SelfNamed
      <4>2. ~(listening /\ ~ending)
        BY <3>2 DEF listening, ending, running
      <4> QED
        BY <1>1, <3>1, <3>2, <4>1, <4>2 DEF PresenceInv, MarkersType
    <3>3. CASE running
      <4>1. CASE \E d \in Device : Broadcast(d, listening, ending, elapsed, recording)
        BY <1>1, <3>3, <4>1, BroadcastStep DEF PresenceInv
      <4>2. CASE \E d \in Device, named \in BOOLEAN :
                   Tombstone(d, named, listening, ending, recording)
        BY <1>1, <3>3, <4>2, TombstoneStep DEF PresenceInv
      <4>3. CASE SelfNamed(listening) \/ \E d \in Device : Enters(d) \/ Speaks(d) \/ ChatNames(d)
        <5>1. UNCHANGED <<told, activeByName, markers, unsure>>
          BY <4>3 DEF SelfNamed, Enters, Speaks, ChatNames
        <5> QED
          BY <2>1, <5>1
      <4> QED
        BY <2>3, <4>1, <4>2, <4>3 DEF Roster
    <3> QED
      BY <3>2, <3>3
  <2>4. CASE Tick \/ Page \/ Polls \/ Fails \/ FlushEnds \/ Capture \/ SetRecording \/ UNCHANGED vars
    <3>1. UNCHANGED <<told, activeByName, markers, unsure>>
      BY <2>4 DEF Fails, Tick, Page, IfItEnds, Polls, FlushEnds, Capture, SetRecording, vars, presenceVars,
         PresenceEnds, FinalSnapshot
    <3> QED
      BY <2>1, <3>1
  <2> QED
    BY <2>2, <2>3, <2>4, <1>2, <1>1, StartStep DEF Next, PresenceInv
<1> QED
  BY <1>2, <1>3, RunningStep

\* While a meeting runs, the markers of a person alternate, and the last is a join exactly
\* while a device that Meet has told of is in the call: over reconnects under new devices,
\* repeated broadcasts and tombstones without a name, for whoever did not come back in the
\* settle window or move while paused (recordDevice, recordLeave, pushPresence).
THEOREM MarkersHold == Spec => []MarkersTell
<1>1. Init => PresenceInv
  <2> SUFFICES ASSUME Init PROVE PresenceInv
    OBVIOUS
  <2>1. RosterRight
    BY DEF Init, PresenceInit, RosterRight
  <2>2. MarkersType
    BY DEF Init, PresenceInit, MarkersType
  <2>3. ~running
    BY DEF Init, LoopInit, running
  <2> QED
    BY <2>1, <2>2, <2>3 DEF PresenceInv
<1>2. PresenceInv => MarkersTell
  <2> SUFFICES ASSUME PresenceInv, running, NEW n \in Sure
               PROVE  /\ Alternates(markers[n])
                      /\ markers[n] # <<>> =>
                           (Last(markers[n]) = "join" <=> \E d \in told : Owner[d] = n)
    BY DEF MarkersTell, PresenceIsMarked, Sure
  <2>1. MarkedAs(markers[n], Present(n) # {})
    BY DEF PresenceInv, MarkedSure
  <2> QED
    BY <2>1 DEF MarkedAs, Present
<1> QED
  BY <1>1, <1>2, PresenceStep, PTL DEF Spec
=============================================================================
