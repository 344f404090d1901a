------------------------------ MODULE CaptureHealth ------------------------------
(***************************************************************************)
(* The watchdog of a meeting that captures nothing (platforms/meet.ts,     *)
(* captureFault of meet-lifecycle.ts): a notice that stays until it is     *)
(* taken down. The page script announces once that captions were asked     *)
(* for, and again on every push of the configuration.                      *)
(***************************************************************************)
EXTENDS Naturals

CONSTANTS
  ArmGrace,     \* CAPTURE_HEALTH_GRACE_MS, in ticks
  SilentGrace   \* CAPTURE_SILENT_GRACE_MS, in ticks

ASSUME HealthAssumption == ArmGrace \in Nat \ {0} /\ SilentGrace \in Nat

VARIABLES
  subscribed,      \* captureArmed of the page script: it is never taken back
  captureArmed,
  captureWarned,
  captureNotice,
  captionsSeen,    \* funnel.received > 0
  elapsed,         \* ticks since meetingStartedAt
  attentive        \* history: transcribing was on all along, so far

healthVars == <<subscribed, captureArmed, captureWarned, captureNotice, captionsSeen,
                elapsed, attentive>>

HealthInit ==
  /\ subscribed = FALSE /\ captureArmed = FALSE
  /\ captureWarned = FALSE /\ captureNotice = "none"
  /\ captionsSeen = FALSE /\ elapsed = 0 /\ attentive = TRUE

\* onCaptureArmed: a warning that has been overtaken goes.
onCaptureArmed ==
  /\ captureArmed' = TRUE
  /\ captureNotice' = IF ~captureArmed /\ captureWarned THEN "none" ELSE captureNotice

\* The page script subscribes, and says so to the meeting that listens.
Arms(listens) ==
  /\ ~subscribed /\ subscribed' = TRUE
  /\ IF listens THEN onCaptureArmed ELSE UNCHANGED <<captureArmed, captureNotice>>
  /\ UNCHANGED <<captureWarned, captionsSeen, elapsed, attentive>>

\* deviation: the configuration is pushed before the listener is there, and not after.
deviationPushedEarly(on) ==
  /\ captureArmed' = FALSE
  /\ captureWarned' = FALSE /\ captureNotice' = "none"
  /\ captionsSeen' = FALSE /\ elapsed' = 0 /\ attentive' = on
  /\ UNCHANGED subscribed

\* runMeeting: the listener is installed, then the push that has it told.
HealthStart(on) ==
  /\ captureArmed' = subscribed
  /\ captureWarned' = FALSE /\ captureNotice' = "none"
  /\ captionsSeen' = FALSE /\ elapsed' = 0 /\ attentive' = on
  /\ UNCHANGED subscribed

\* A caption comes: a paused meeting does not count it.
CaptionSeen(listens, recording) ==
  /\ subscribed /\ listens /\ recording
  /\ captionsSeen' = TRUE
  /\ UNCHANGED <<subscribed, captureArmed, captureWarned, captureNotice, elapsed, attentive>>

captureFault(at, attendees, recording) ==
  IF captureWarned \/ ~recording THEN "none"
  ELSE IF ~captureArmed THEN IF at >= ArmGrace THEN "not-armed" ELSE "none"
  ELSE IF captionsSeen \/ attendees < 2 THEN "none"
  ELSE IF at >= SilentGrace THEN "no-captions" ELSE "none"

\* The health timer, once a tick.
HealthTick(running, attendees, recording) ==
  LET at == IF elapsed < ArmGrace + SilentGrace THEN elapsed + 1 ELSE elapsed
      fault == captureFault(at, attendees, recording)
  IN
  /\ elapsed' = at
  /\ IF running /\ fault # "none"
     THEN captureWarned' = TRUE /\ captureNotice' = fault
     ELSE UNCHANGED <<captureWarned, captureNotice>>
  /\ UNCHANGED <<subscribed, captureArmed, captionsSeen, attentive>>

\* endMeeting: the timer stops, the notice goes.
HealthEnds ==
  /\ captureNotice' = "none"
  /\ UNCHANGED <<subscribed, captureArmed, captureWarned, captionsSeen, elapsed, attentive>>

HealthPauses ==
  /\ attentive' = FALSE
  /\ UNCHANGED <<subscribed, captureArmed, captureWarned, captureNotice, captionsSeen, elapsed>>

\* Properties

\* No notice outlives its meeting. While the page script has not asked for captions, on
\* this page, a meeting past its grace that was not paused says so, and it is taken down
\* when capture arms late; it is not raised when capture armed before the meeting could
\* listen. "No captions" is only said where captions were asked for; it stays up if they
\* come after all (meet.ts:796-869, 1117-1124).
NoticeIsTrue(running) ==
  /\ captureNotice # "none" => running
  /\ captureNotice = "not-armed" => ~subscribed
  /\ captureNotice = "no-captions" => subscribed
  /\ running /\ attentive /\ ~subscribed /\ elapsed >= ArmGrace => captureNotice = "not-armed"

\* Of a tick of a running meeting: by its grace, one without a caption in company has been
\* warned of. A page script that asked in an earlier meeting only, and never in this one,
\* counts as armed (main.ts:292), and falls under this one alone.
SilenceIsTold(attendees) ==
  attentive /\ ~captionsSeen /\ elapsed' >= ArmGrace + SilentGrace
    => captureWarned' \/ attendees < 2
=============================================================================
