-------------------------------- MODULE MeetLoop --------------------------------
(***************************************************************************)
(* The watch loop of one tab (platforms/meet.ts main, runMeeting,          *)
(* endMeeting; platforms/meet-lifecycle.ts): a meeting page is entered,    *)
(* the lobby waited out, the meeting recorded until its end is detected,   *)
(* the tail of the captions let in, the session finalized, and the loop    *)
(* armed again for the next meeting of the tab. A storage read that fails  *)
(* while the script still has its context ends the loop for good.          *)
(*                                                                         *)
(* A tick is END_WATCH_INTERVAL_MS. The loop polls far more often, so a    *)
(* wait that is over ends before the next tick; an answer of the           *)
(* background may take any time. The page (path, leave icon, media path)   *)
(* and the user are the environment.                                       *)
(***************************************************************************)
EXTENDS Integers

CONSTANTS
  Path,          \* meeting paths of the tab
  MediaGrace,    \* MEDIA_END_GRACE_MS, in ticks
  LeaveChecks,   \* LEAVE_GONE_CHECKS
  TailGrace,     \* CAPTION_TAIL_GRACE_MS, in ticks
  Flush,         \* CAPTION_FLUSH_MS, in ticks
  Residue        \* external: ticks the leave icon may outlast a call

ASSUME LoopAssumption ==
  /\ {MediaGrace, LeaveChecks, TailGrace} \subseteq Nat \ {0}
  /\ Flush \in Nat /\ Residue \in Nat

VARIABLES
  page,         \* external: path, leave icon, media path, and the call of the user
  loop,         \* where the loop stands
  spent,        \* ticks in its present wait
  meetingPath,
  lastMeeting,  \* lastMeetingPath, and the ticks since lastMeetingEndedAt
  zeroFor,      \* ticks since mediaZeroSince, or Live
  goneCount,
  orphaned,     \* an update has taken the script's context in the middle of a start
  waited        \* history: ticks the call in progress has gone unrecorded

loopVars == <<page, loop, spent, meetingPath, lastMeeting, zeroFor, goneCount, orphaned, waited>>

Elsewhere == "elsewhere"
Live == -1
Waits == {"watching", "draining", "entering", "evicting", "joining", "starting", "meeting",
          "flushing", "finalizing", "rearming", "dead"}

\* bound: a call that has waited longer than the flush and twice the tail, in ticks, is
\* counted no further.
Overdue == Flush + 2 * TailGrace + 1

\* Waits for storage or for an answer of the background.
Asked == {"entering", "evicting", "starting", "finalizing"}

LoopInit ==
  /\ page = [path |-> Elsewhere, icon |-> FALSE, call |-> FALSE, open |-> FALSE,
             dark |-> 0, hidden |-> 0, residue |-> 0, missed |-> FALSE]
  /\ loop = "watching"
  /\ spent = 0
  /\ meetingPath = Elsewhere
  /\ lastMeeting = [path |-> Elsewhere, ago |-> TailGrace]
  /\ zeroFor = Live
  /\ goneCount = 0
  /\ orphaned = FALSE
  /\ waited = 0

\* Whether the listeners of a meeting are installed.
listening == loop \in {"meeting", "flushing"}
recorded == loop \in {"starting", "meeting"} /\ meetingPath = page.path

-----------------------------------------------------------------------------
\* The loop

Upto(n, limit) == IF n < limit THEN n + 1 ELSE n

shouldDrainTail(path) == path = lastMeeting.path /\ lastMeeting.ago < TailGrace

\* waitFor(isMeetingPath), then a tail to drain or runMeeting.
EntersPage ==
  /\ loop = "watching" /\ page.path \in Path
  /\ spent' = 0
  /\ IF shouldDrainTail(page.path)
     THEN loop' = "draining" /\ UNCHANGED meetingPath
     ELSE loop' = "entering" /\ meetingPath' = page.path
  /\ UNCHANGED <<page, lastMeeting, zeroFor, goneCount, orphaned, waited>>

Drained ==
  /\ loop = "draining" /\ spent >= TailGrace
  /\ loop' = "watching"
  /\ UNCHANGED <<page, spent, meetingPath, lastMeeting, zeroFor, goneCount, orphaned, waited>>

\* After runMeeting, joined or not: the meeting is remembered and the icon waited out.
returns ==
  /\ loop' = "rearming" /\ spent' = 0
  /\ lastMeeting' = [path |-> meetingPath, ago |-> 0]

\* readPreviousSession: a session of another path under the tab's key is finalized before
\* the lobby. An orphaned script can read none.
ReadsPrevious(stale) ==
  /\ loop = "entering"
  /\ stale => ~orphaned
  /\ loop' = IF stale THEN "evicting" ELSE "joining"
  /\ UNCHANGED <<page, spent, meetingPath, lastMeeting, zeroFor, goneCount, orphaned, waited>>

Evicted ==
  /\ loop = "evicting"
  /\ loop' = "joining"
  /\ UNCHANGED <<page, spent, meetingPath, lastMeeting, zeroFor, goneCount, orphaned, waited>>

\* readPreviousSession and readSettings hand on every storage error but that of a lost
\* context, runMeeting and main hand it on too: nobody watches this tab any more.
Dies ==
  /\ loop \in {"entering", "starting"} /\ ~orphaned
  /\ loop' = "dead"
  /\ UNCHANGED <<page, spent, meetingPath, lastMeeting, zeroFor, goneCount, orphaned, waited>>

\* waitForIcon in the lobby: the icon is there, or the user backed out.
Joined ==
  /\ loop = "joining" /\ page.icon
  /\ loop' = "starting"
  /\ UNCHANGED <<page, spent, meetingPath, lastMeeting, zeroFor, goneCount, orphaned, waited>>

BackedOut ==
  /\ loop = "joining" /\ ~page.icon /\ page.path # meetingPath
  /\ returns
  /\ UNCHANGED <<page, meetingPath, zeroFor, goneCount, orphaned, waited>>

\* meetingStarted, the settings and the relay's token are answered: the listeners and
\* the end watcher are installed.
Started ==
  /\ loop = "starting"
  /\ loop' = "meeting"
  /\ zeroFor' = Live /\ goneCount' = 0
  /\ UNCHANGED <<page, spent, meetingPath, lastMeeting, orphaned, waited>>

\* The context goes under a raw chrome.* call of the start: main catches it and arms again.
\* It can only go once. The call counts as unrecorded from here.
Orphaned ==
  /\ loop = "starting" /\ ~orphaned
  /\ orphaned' = TRUE
  /\ returns
  /\ waited' = 0
  /\ UNCHANGED <<page, meetingPath, zeroFor, goneCount>>

\* endMeeting up to the flush wait.
endMeeting == loop' = "flushing" /\ spent' = 0

\* The flush wait ends early once the media path is down; the listeners go.
Flushed ==
  /\ loop = "flushing" /\ (spent >= Flush \/ zeroFor # Live)
  /\ loop' = "finalizing"
  /\ UNCHANGED <<page, spent, meetingPath, lastMeeting, zeroFor, goneCount, orphaned, waited>>

\* The final write and meetingEnded are answered.
Finalized ==
  /\ loop = "finalizing"
  /\ returns
  /\ UNCHANGED <<page, meetingPath, zeroFor, goneCount, orphaned, waited>>

\* deviation: the icon is waited out without a cap.
deviationUncapped == ~page.icon

shouldFinishRearmWait == ~page.icon \/ spent >= TailGrace

Rearmed ==
  /\ loop = "rearming" /\ shouldFinishRearmWait
  /\ loop' = "watching"
  /\ UNCHANGED <<page, spent, meetingPath, lastMeeting, zeroFor, goneCount, orphaned, waited>>

\* A poll that has something to do comes before the next tick.
Due ==
  \/ loop = "watching" /\ page.path \in Path
  \/ loop = "draining" /\ spent >= TailGrace
  \/ loop = "joining" /\ (page.icon \/ page.path # meetingPath)
  \/ loop = "flushing" /\ (spent >= Flush \/ zeroFor # Live)
  \/ loop = "rearming" /\ shouldFinishRearmWait

-----------------------------------------------------------------------------
\* The page and the user

\* deviation: a session that opens again does not take back the first zero.
deviationKeepsZero(open) == IF open THEN zeroFor ELSE IF zeroFor = Live THEN 0 ELSE zeroFor

\* nextMediaZeroSince, for a media event.
nextMediaZeroSince(open) == IF open THEN Live ELSE IF zeroFor = Live THEN 0 ELSE zeroFor
mediaEvent(open) == zeroFor' = IF listening THEN nextMediaZeroSince(open) ELSE zeroFor

Goes(path) ==
  /\ ~page.call /\ path # page.path
  /\ page' = [page EXCEPT !.path = path]
  /\ UNCHANGED <<loop, spent, meetingPath, lastMeeting, zeroFor, goneCount, orphaned, waited>>

\* The user joins: the leave icon shows and a media-session is open.
Joins ==
  /\ ~page.call /\ page.path \in Path
  /\ page' = [page EXCEPT !.call = TRUE, !.icon = TRUE, !.open = TRUE, !.dark = 0,
                          !.residue = 0]
  /\ mediaEvent(TRUE)
  /\ UNCHANGED <<loop, spent, meetingPath, lastMeeting, goneCount, orphaned, waited>>

\* The user leaves, or is thrown out: with a click on the leave button or without.
\* The icon may stay for a while.
LeavesCall(click) ==
  /\ page.call
  /\ click => page.icon
  /\ page' = [page EXCEPT !.call = FALSE, !.missed = ~recorded]
  /\ waited' = 0
  /\ IF click /\ loop = "meeting" THEN endMeeting ELSE UNCHANGED <<loop, spent>>
  /\ UNCHANGED <<meetingPath, lastMeeting, zeroFor, goneCount, orphaned>>

\* Meet renders its toolbar again, or takes it away after the call.
IconGoes ==
  /\ page.icon /\ page' = [page EXCEPT !.icon = FALSE]
  /\ UNCHANGED <<loop, spent, meetingPath, lastMeeting, zeroFor, goneCount, orphaned, waited>>
IconReturns ==
  /\ page.call /\ ~page.icon /\ page' = [page EXCEPT !.icon = TRUE]
  /\ UNCHANGED <<loop, spent, meetingPath, lastMeeting, zeroFor, goneCount, orphaned, waited>>

\* The last media-session closes, or one opens again: a reconnect, or the end.
MediaFalls ==
  /\ page.open /\ page' = [page EXCEPT !.open = FALSE]
  /\ mediaEvent(FALSE)
  /\ UNCHANGED <<loop, spent, meetingPath, lastMeeting, goneCount, orphaned, waited>>
MediaReturns ==
  /\ page.call /\ ~page.open /\ page' = [page EXCEPT !.open = TRUE, !.dark = 0]
  /\ mediaEvent(TRUE)
  /\ UNCHANGED <<loop, spent, meetingPath, lastMeeting, goneCount, orphaned, waited>>

-----------------------------------------------------------------------------
(***************************************************************************)
(* A tick, with the check of the end watcher. What Meet owes: in a call    *)
(* the icon is missed by less than LeaveChecks checks in a row, and the    *)
(* media path is down for less than MediaGrace; after it the icon goes     *)
(* within Residue.                                                         *)
(***************************************************************************)
MeetKeepsUp ==
  /\ page.call /\ ~page.icon => page.hidden + 1 < LeaveChecks
  /\ page.call /\ ~page.open => page.dark + 1 < MediaGrace
  /\ ~page.call /\ page.icon => page.residue < Residue

shouldEndFromMedia == zeroFor # Live /\ zeroFor + 1 >= MediaGrace

\* nextLeaveState
nextGone == IF page.icon THEN 0 ELSE goneCount + 1
leaveStateEnds == page.path # meetingPath \/ nextGone >= LeaveChecks

endWatcher ==
  IF shouldEndFromMedia
  THEN endMeeting /\ UNCHANGED goneCount
  ELSE /\ goneCount' = IF page.path # meetingPath THEN goneCount ELSE nextGone
       /\ IF leaveStateEnds THEN endMeeting ELSE UNCHANGED <<loop, spent>>

LoopTick ==
  /\ ~Due /\ MeetKeepsUp
  /\ page' = [page EXCEPT
       !.dark = IF page.open THEN 0 ELSE Upto(@, MediaGrace),
       !.hidden = IF page.icon THEN 0 ELSE Upto(@, LeaveChecks),
       !.residue = IF ~page.call /\ page.icon THEN @ + 1 ELSE 0]
  /\ zeroFor' = IF zeroFor = Live THEN Live ELSE Upto(zeroFor, MediaGrace)
  /\ lastMeeting' = [lastMeeting EXCEPT !.ago = Upto(@, TailGrace)]
  /\ waited' = IF page.call /\ page.icon /\ ~recorded /\ loop \notin Asked
               THEN Upto(waited, Overdue) ELSE waited
  /\ IF loop = "meeting" THEN endWatcher
     ELSE spent' = Upto(spent, TailGrace) /\ UNCHANGED <<loop, goneCount>>
  /\ UNCHANGED <<meetingPath, orphaned>>

-----------------------------------------------------------------------------
\* Properties

\* A recording follows the call: none starts before the user is in a call (unless on the
\* residue of one too short to be recorded), and none is cut short by a flickering icon or
\* a reconnect: it ends once the call is over or the page is another one
\* (meet.ts:518-558, 1062-1102; meet-lifecycle.ts:18-166).
FollowsTheCall ==
  [][/\ loop = "joining" /\ loop' = "starting" => page.call \/ page.missed
     /\ loop = "meeting" /\ loop' = "flushing" =>
          ~page'.call \/ page.path # meetingPath]_loopVars

\* As long as the loop lives, a call is recorded soon, even one joined again at once,
\* while the residue of the icon, the tail of the captions and the finalize of the previous
\* meeting are still waited for, and again soon after a start that an orphaned context cut
\* short: "an unbounded wait here would block the loop forever" (meet.ts:518-558). Ticks in
\* which storage or the background has yet to answer, or the icon is missing, are not
\* counted; a loop that a storage error has ended records no call (Dies).
RecordedSoon == loop # "dead" => waited < Overdue
=============================================================================
