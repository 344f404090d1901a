------------------------------- MODULE RtcFeed -------------------------------
(***************************************************************************)
(* The feed of a running meeting: captions and chat as they reach it from  *)
(* the page, transcribing switched off and on, and a wipe of everything    *)
(* captured so far (meet-rtc/feed.ts, platforms/meet.ts).                  *)
(***************************************************************************)
EXTENDS CaptionFeed, ChatFeed

CONSTANTS
  Budgets      \* bound: the captions, pauses, wipes and ticks of a behaviour

Budget ==
  [captions : Nat, on : SUBSET SUBSET (Channel \cup Unknown), rewords : BOOLEAN,
   chat : SUBSET Message, copies : Nat, pauses : Nat, wipes : Nat, time : Nat]

ASSUME BudgetAssumption == Budgets \subseteq Budget

VARIABLES recording, now, budget

vars == <<captionVars, chatVars, recording, now, budget>>

Init ==
  /\ CaptionInit /\ ChatInit
  /\ recording = TRUE
  /\ now = 1
  /\ budget \in Budgets

Tick ==
  /\ now < budget.time /\ now' = now + 1
  /\ UNCHANGED <<captionVars, chatVars, recording, budget>>

MeetRevises ==
  /\ budget.captions > 0
  /\ \E k \in Key, on \in budget.on : Revise(k, on, budget.rewords)
  /\ budget' = [budget EXCEPT !.captions = @ - 1]
  /\ UNCHANGED <<chatVars, recording, now>>

NextFrame ==
  /\ \E c \in Channel \cup Unknown : Decode(c, now, recording)
  /\ UNCHANGED <<chatVars, recording, now, budget>>

OtherTraffic ==
  /\ budget.captions > 0
  /\ \E c \in Unknown \cap UNION budget.on : Other(c)
  /\ UNCHANGED <<chatVars, recording, now, budget>>

Chat ==
  /\ budget.copies > 0
  /\ \/ LearnName /\ UNCHANGED budget
     \/ LearnDevice /\ UNCHANGED budget
     \/ /\ \E m \in budget.chat, via \in Transport : Copy(m, via, now, recording)
        /\ budget' = [budget EXCEPT !.copies = @ - 1]
  /\ UNCHANGED <<captionVars, recording, now>>

\* onRecordingChange
SetRecording ==
  /\ budget.pauses > 0
  /\ recording' = ~recording
  /\ budget' = [budget EXCEPT !.pauses = @ - 1]
  /\ UNCHANGED <<captionVars, chatVars, now>>

\* purge: the feed starts from an empty base; the roster stays.
Purge ==
  /\ budget.wipes > 0
  /\ CaptionReset /\ ChatReset
  /\ budget' = [budget EXCEPT !.wipes = @ - 1]
  /\ UNCHANGED <<recording, now>>

Next == Tick \/ MeetRevises \/ NextFrame \/ OtherTraffic \/ Chat \/ SetRecording \/ Purge

Spec == Init /\ [][Next]_vars
=============================================================================
