------------------------------ MODULE MeetAdapter ------------------------------
(***************************************************************************)
(* The adapter of one tab: the watch loop, and what a meeting keeps while  *)
(* its listeners are installed, presence and the health of the capture     *)
(* (platforms/meet.ts). What it stores, and what the background makes of   *)
(* it, is Background and SessionWriter.                                    *)
(***************************************************************************)
EXTENDS MeetLoop, Presence, CaptureHealth, FiniteSets

\* bound: moves of the user, dips of icon and media, roster events, switches, faults of
\* storage or context
CONSTANT Budgets

ASSUME AdapterAssumption == Settle <= ArmGrace + SilentGrace

VARIABLES recording, budget

vars == <<loopVars, presenceVars, healthVars, recording, budget>>

Init ==
  /\ LoopInit /\ PresenceInit /\ HealthInit
  /\ recording = TRUE
  /\ budget \in Budgets

running == loop = "meeting"
ending == loop = "flushing"

spend(kind) ==
  /\ budget[kind] > 0
  /\ budget' = [budget EXCEPT ![kind] = @ - 1]

-----------------------------------------------------------------------------
\* The loop goes on.
Polls ==
  /\ \/ EntersPage \/ Drained \/ Evicted \/ Joined \/ BackedOut \/ Finalized \/ Rearmed
     \/ \E stale \in BOOLEAN : ReadsPrevious(stale)
  /\ UNCHANGED <<presenceVars, healthVars, recording, budget>>

\* An attempt to record comes to nothing.
Fails ==
  /\ spend("faults")
  /\ Dies \/ Orphaned
  /\ UNCHANGED <<presenceVars, healthVars, recording>>

StartsMeeting ==
  /\ Started
  /\ PresenceStart /\ HealthStart(TRUE)
  /\ recording' = TRUE
  /\ UNCHANGED budget

FlushEnds ==
  /\ Flushed
  /\ FinalSnapshot
  /\ UNCHANGED <<healthVars, recording, budget>>

\* The first part of endMeeting, if the step before it ended the meeting.
IfItEnds(otherwise) ==
  IF running /\ loop' = "flushing" THEN PresenceEnds /\ HealthEnds
  ELSE UNCHANGED presenceVars /\ otherwise

Tick ==
  /\ LoopTick
  /\ IfItEnds(HealthTick(running, Cardinality(attendees), recording))
  /\ UNCHANGED <<recording, budget>>

Page ==
  /\ \/ \E path \in Path \cup {Elsewhere} : Goes(path) /\ spend("moves")
     \/ Joins /\ spend("moves")
     \/ \E click \in BOOLEAN : LeavesCall(click) /\ spend("moves")
     \/ IconGoes /\ IF page.call THEN spend("dips") ELSE UNCHANGED budget
     \/ MediaFalls /\ IF page.call THEN spend("dips") ELSE UNCHANGED budget
     \/ (IconReturns \/ MediaReturns) /\ UNCHANGED budget
  /\ IfItEnds(UNCHANGED healthVars)
  /\ UNCHANGED recording

Roster ==
  /\ spend("roster")
  /\ \/ \E d \in Device :
          \/ Enters(d)
          \/ Broadcast(d, listening, ending, elapsed, recording)
          \/ \E named \in BOOLEAN : Tombstone(d, named, listening, ending, recording)
          \/ listening /\ recording /\ (Speaks(d) \/ ChatNames(d))
     \/ SelfNamed(listening)
  /\ UNCHANGED <<loopVars, healthVars, recording>>

Capture ==
  /\ spend("switches")
  /\ Arms(running) \/ CaptionSeen(listening, recording)
  /\ UNCHANGED <<loopVars, presenceVars, recording>>

\* onRecordingChange and onPurge, from the controls of the meeting.
SetRecording ==
  /\ spend("switches")
  /\ listening
  /\ recording' = ~recording
  /\ HealthPauses
  /\ UNCHANGED <<loopVars, presenceVars>>

Purge ==
  /\ spend("switches")
  /\ listening
  /\ PresencePurge
  /\ UNCHANGED <<loopVars, healthVars, recording>>

Next ==
  \/ Polls \/ Fails \/ StartsMeeting \/ FlushEnds \/ Tick \/ Page
  \/ Roster \/ Capture \/ SetRecording \/ Purge

Spec == Init /\ [][Next]_vars

-----------------------------------------------------------------------------
\* Properties

\* What the notice that nothing is transcribed promises: it is true of the page while it is
\* up (CaptureHealth), and a meeting in company of which nothing was captured has been
\* told of by the silent grace, whatever the page script did in the meetings before it,
\* unless it was paused.
NoticeTells ==
  /\ [](NoticeIsTrue(running))
  /\ [][running /\ Tick /\ running' => SilenceIsTold(Cardinality(attendees))]_vars

\* While the meeting runs its markers tell who is in the call (Presence).
MarkersTell == running => PresenceIsMarked

\* Once the meeting has been written for the last time, everybody the transcript names is
\* among its participants, even one named only while the captions' tail came in:
\* "the file listed 2 of 4 people" (meet-lifecycle.ts:76-94, meet.ts:1167-1174).
SpeakersAreListed == loop = "finalizing" => speakers \ {Unnamed} \subseteq participants
=============================================================================
