------------------------------ MODULE FileProofs ------------------------------
(***************************************************************************)
(* What becomes of the files: no write after the start-up recovery takes     *)
(* anything away from a file, and a partial file is replaced by the complete  *)
(* one, for any number of rooms, meetings, words and saves, any merge gap and  *)
(* any retention. "Undisturbed" names what the two theorems rest on; each of   *)
(* its conditions is a known limit of the code (README, section 5).           *)
(***************************************************************************)
EXTENDS HistoryProofs

SoleTab == \A t, u \in Tabs : t = u

(* Neither the in-meeting privacy switch nor settings.mergeRejoins is touched. *)
SteadySettings ==
    /\ \A a, b \in Privacies : a = b
    /\ \A a, b \in MergeModes : a = b

(* One tab is used for meetings, no two visits share a minute, the settings stay,  *)
(* a save is over before its meeting is, every session is finalized once, and     *)
(* nothing is wiped. Saves and downloads may fail, and the user may delete.       *)
Undisturbed ==
    /\ SoleTab
    /\ Minute = 1
    /\ SteadySettings
    /\ LobbyOutlastsFinalize
    /\ ~SavesMayOutlastMeeting
    /\ FinalizedOnce
    /\ ~WipesEnabled

(* What the other proofs say of such a run. *)
Ground ==
    /\ TypeOK /\ Custody /\ Answers /\ RecordInv /\ OwnSession
    /\ Numbered /\ Built /\ Dated /\ Awaited
    /\ Uncommitted /\ CommittedOnce /\ Rowed /\ Grown

LEMMA GroundHolds ==
    ASSUME Undisturbed
    PROVE  Spec => []Ground
  <1>1. /\ LobbyOutlastsFinalize /\ ~SavesMayOutlastMeeting /\ FinalizedOnce /\ ~WipesEnabled
        /\ EvictionSucceeds
    BY DEF Undisturbed, EvictionSucceeds, FinalizedOnce
  <1>2. Init => RecordInv /\ Uncommitted /\ CommittedOnce
    BY DEF Init, Uncommitted, UncommittedOf, CommittedOnce, NoPage, RecordInv, RecordDiesWithSession,
           SavesInMeeting, NoSave
  <1>3. TypeOK /\ Custody /\ Answers /\ RecordInv /\ [Next]_vars => RecordInv'
    BY <1>1, RecordStep
  <1>4. TypeOK /\ TypeOK' /\ Custody /\ Built /\ Dated /\ Awaited /\ Uncommitted /\ CommittedOnce
          /\ [Next]_vars => Uncommitted' /\ CommittedOnce'
    BY <1>1, UncommittedStep, CommittedOnceStep
  <1>5. /\ Spec => []TypeOK
        /\ Spec => []Custody
        /\ Spec => []Answers
        /\ Spec => []OwnSession
        /\ Spec => []Numbered
    BY <1>1, TypeCorrect, CustodyHolds, AnswersHold, OwnSessionHolds, NumberedHolds
  <1>6. /\ Spec => []Built
        /\ Spec => []Dated
        /\ Spec => []Awaited
        /\ Spec => [](Rowed /\ Copied)
        /\ Spec => []Grown
    BY <1>1, BuiltHolds, DatedHolds, AwaitedHolds, CopiedHolds, GrownHolds
  <1>7. QED
    BY <1>2, <1>3, <1>4, <1>5, <1>6, PTL DEF Spec, Ground

LEMMA NoMishap ==
    ASSUME Undisturbed, TypeOK
    PROVE  /\ \A t \in Tabs : ~FinThrow(t)
           /\ ~Reboot
           /\ ~Restart /\ ~UpdateAvailable /\ ~BrowserCrash
  BY DEF Undisturbed, FinalizedOnce, FinThrow, Reboot, Restart, UpdateAvailable, BrowserCrash, TypeOK

-------------------------------------------------------------------------------
(*                            One task at a time                            *)

(* A delivery is alone: its meeting's session is gone, and its page waits or is     *)
(* closed. So nothing else is finalized, saved or delivered until it is over.     *)
DeliveryAlone ==
    \A t \in Tabs : \A d \in dels :
        /\ session[t] = None
        /\ fin[t].pc \in {"idle", "session", "untrackOnly"}
        /\ d.who = "page" \/ content[t].pc = "closed"
        /\ \A e \in dels : e = d

(* The recovery never finds a session that nobody else finalizes. *)
RecoveryFindsNone ==
    /\ rec.results = {}
    /\ \A t \in Tabs :
          /\ fin[t].pc # "idle" => fin[t].who = "page" \/ content[t].pc = "closed"
          /\ fin[t].pc # "idle" /\ fin[t].who = "recovery" =>
                session[t] = None /\ fin[t].pc \in {"session", "untrackOnly"}
          /\ content[t].pc = "closed" /\ fin[t].pc = "idle" => session[t] = None

OneTask == DeliveryAlone /\ RecoveryFindsNone

LEMMA StartCalls ==
    ASSUME TypeOK, NEW t \in Tabs, NEW who, StartFinalize(t, who)
    PROVE  fin'[t].pc = "session" /\ fin'[t].who = who
  BY DEF StartFinalize, TypeOK, NoFin

LEMMA PageKeepsOneTask ==
    ASSUME Undisturbed, Ground, OneTask, NEW t \in Tabs, Page(t) \/ MeetingEnded(t)
    PROVE  OneTask'
  <1> USE DEF store, worker, ghosts
  <1>0. /\ TypeOK /\ Answers /\ AnswersOf(t) /\ AwaitedOf(t) /\ SoleTab /\ ~ReloadsAfterLeave
        /\ \A u \in Tabs : u = t
      BY DEF Ground, Answers, Awaited, Undisturbed, SoleTab, FinalizedOnce
  <1>1. /\ content[t] \in Content /\ fin[t] \in Fin
        /\ \A d \in dels : d \in Delivery /\ d.tab = t
    BY <1>0 DEF TypeOK, Delivery
  <1>2. content[t].pc # "closed"
    BY DEF Page, ReadPrevious, LeaveLobby, Join, Capture, Attend, SetPrivate, Wipe, WriteSession,
           EndMeeting, RelaySession, Reload, CloseTab, MeetingEnded
  <1>3. fin[t].pc # "idle" => fin[t].who = "page" /\ content[t].pc \in Waiting
    BY <1>0, <1>2 DEF OneTask, RecoveryFindsNone, AnswersOf
  <1>4. dels # {} => content[t].pc \in Waiting /\ session[t] = None /\ fin[t].pc = "idle"
    BY <1>0, <1>1, <1>2 DEF OneTask, DeliveryAlone, AnswersOf, PageDels
  <1>5. CASE content[t].pc \in Waiting
    <2>1. CloseTab(t)
      BY <1>0, <1>5 DEF Page, ReadPrevious, LeaveLobby, Join, Capture, Attend, SetPrivate, Wipe,
             WriteSession, EndMeeting, RelaySession, Reload, MeetingEnded, Waiting
    <2>2. content'[t].pc = "closed" /\ session' = session /\ rec' = rec
      BY <2>1, <1>0 DEF CloseTab, TypeOK, NoPage
    <2>3. /\ fin'[t].pc # "idle" /\ fin'[t].who = "nobody"
          /\ fin[t].pc = "idle" => fin'[t].pc = "session"
      <3>1. CASE fin[t].pc = "idle"
        BY <2>1, <3>1, <1>0, StartCalls DEF CloseTab
      <3>2. CASE fin[t].pc # "idle"
        BY <2>1, <3>2, <1>0, <1>1, <1>3 DEF CloseTab, TypeOK, Unheard, Fin
      <3>3. QED
        BY <3>1, <3>2
    <2>4. \A d \in dels' : /\ d.who = "page" \/ content'[t].pc = "closed"
                           /\ \A e \in dels' : e = d
      BY <2>1, <2>2 DEF CloseTab, Deafen, Unheard, OneTask, DeliveryAlone
    <2>5. dels' # {} => dels # {}
      BY <2>1 DEF CloseTab, Deafen
    <2>6. QED
      BY <1>0, <1>4, <2>2, <2>3, <2>4, <2>5 DEF OneTask, DeliveryAlone, RecoveryFindsNone
  <1>6. CASE content[t].pc \notin Waiting
    <2>1. dels = {} /\ fin[t].pc = "idle"
      BY <1>3, <1>4, <1>6
    <2>2. dels' = {} /\ rec' = rec
      BY <2>1 DEF Page, ReadPrevious, LeaveLobby, Join, Capture, Attend, SetPrivate, Wipe,
             WriteSession, EndMeeting, RelaySession, Reload, CloseTab, Deafen, MeetingEnded
    <2>3. CASE CloseTab(t)
      <3>1. content'[t].pc = "closed" /\ fin'[t].pc = "session" /\ fin'[t].who = "nobody"
        <4>1. content'[t].pc = "closed"
          BY <2>3, <1>0 DEF CloseTab, TypeOK, NoPage
        <4>2. StartFinalize(t, "nobody")
          BY <2>1, <2>3 DEF CloseTab
        <4>3. QED
          BY <4>1, <4>2, <1>0, StartCalls
      <3>2. QED
        BY <1>0, <2>2, <3>1 DEF OneTask, DeliveryAlone, RecoveryFindsNone
    <2>4. CASE MeetingEnded(t)
      <3>1. fin'[t].pc = "session" /\ fin'[t].who = "page"
        BY <2>1, <2>4, <1>0, StartCalls DEF MeetingEnded
      <3>2. QED
        BY <1>0, <2>2, <3>1 DEF OneTask, DeliveryAlone, RecoveryFindsNone
    <2>5. CASE ~CloseTab(t) /\ ~MeetingEnded(t)
      <3>1. fin'[t].pc = "idle" /\ content'[t].pc # "closed"
        <4>1. CASE Reload(t)
          BY <2>1, <4>1, <1>0, <1>1 DEF Reload, TypeOK, Unheard, Fin, NoPage
        <4>2. CASE \E r \in Rooms : ReadPrevious(t, r)
          <5>1. PICK r \in Rooms : ReadPrevious(t, r)
            BY <4>2
          <5>2. QED
            BY <2>1, <5>1, <1>0, ReadPreviousOpens DEF ReadPrevious
        <4>3. CASE \E private \in Privacies, heard \in BOOLEAN : Join(t, private, heard)
          <5>1. content'[t].pc = "in" /\ fin' = fin
            BY <4>3, <1>0, <1>1 DEF Join, TypeOK, Content
          <5>2. QED
            BY <2>1, <5>1
        <4>4. CASE /\ ~Reload(t) /\ ~\E r \in Rooms : ReadPrevious(t, r)
                   /\ ~\E private \in Privacies, heard \in BOOLEAN : Join(t, private, heard)
          BY <2>1, <2>5, <4>4, <1>0, <1>1, <1>2
             DEF Page, LeaveLobby, Capture, Attend, SetPrivate, Wipe,
                 WriteSession, EndMeeting, RelaySession, TypeOK, NoPage, Content
        <4>5. QED
          BY <4>1, <4>2, <4>3, <4>4
      <3>2. QED
        BY <1>0, <2>2, <3>1 DEF OneTask, DeliveryAlone, RecoveryFindsNone
    <2>6. QED
      BY <2>3, <2>4, <2>5
  <1>7. QED
    BY <1>5, <1>6

(* The page that is answered is the one that waits, so no other is disturbed. *)
LEMMA AnsweredPage ==
    ASSUME TypeOK, SoleTab, OneTask, NEW t \in Tabs, NEW who, Reply(t, who),
           who # "page" \/ content[t].pc \in Waiting
    PROVE  /\ content'[t].pc = "closed" <=> content[t].pc = "closed"
           /\ who # "page" => content' = content
  BY DEF Reply, Answer, NoPage, Waiting, TypeOK, Content

LEMMA FinalizationKeepsOneTask ==
    ASSUME Undisturbed, Ground, OneTask, NEW t \in Tabs, Finalization(t)
    PROVE  OneTask'
  <1> USE DEF store, worker, ghosts
  <1>0. /\ TypeOK /\ Answers /\ AnswersOf(t) /\ SoleTab /\ Numbered /\ Custody
        /\ \A u \in Tabs : u = t
      BY DEF Ground, Answers, Undisturbed, SoleTab
  <1>1. /\ content[t] \in Content /\ fin[t] \in Fin /\ rec \in Rec
        /\ \A d \in dels : d \in Delivery /\ d.tab = t
    BY <1>0 DEF TypeOK, Delivery
  <1>2. fin[t].pc # "idle"
    BY DEF Finalization, FinReadSession, FinReadWritten, FinAppendFailure, FinCommit, FinMark,
           FinRemove, FinUntrack
  <1>3. CASE FinUntrack(t)
    <2>1. session[t] = None /\ session' = session
      BY <1>0, <1>3 DEF FinUntrack, Custody, FinalizeOwnsSession
    <2>2. fin'[t].pc = "idle"
      BY <1>0, <1>3, FinIsReleased
    <2>3. fin[t].m # None => fin[t].pc = "untrack" /\ dels = {} /\ fin[t].who # "recovery"
      BY <1>0, <1>3 DEF FinUntrack, Numbered, OneTask, DeliveryAlone, RecoveryFindsNone
    <2>4. rec'.results = {}
      <3>1. \A r \in rec'.results \ rec.results : fin[t].m # None
        BY <1>0, <1>3, UntrackEffect
      <3>2. fin[t].m # None => rec' = rec
        BY <1>3, <2>3 DEF FinUntrack
      <3>3. QED
        BY <3>1, <3>2 DEF OneTask, RecoveryFindsNone
    <2>5. CASE fin[t].m # None /\ ~Failure(fin[t].m)
      <3>1. /\ dels' = {[tab |-> t, who |-> fin[t].who, m |-> fin[t].m, w |-> fin[t].w,
                         pc |-> "download"]}
            /\ content' = content
        BY <1>3, <2>3, <2>5 DEF FinUntrack
      <3>2. fin[t].who = "page" \/ content[t].pc = "closed"
        BY <1>2 DEF OneTask, RecoveryFindsNone
      <3>3. QED
        BY <1>0, <2>1, <2>2, <2>4, <3>1, <3>2 DEF OneTask, DeliveryAlone, RecoveryFindsNone
    <2>6. CASE ~(fin[t].m # None /\ ~Failure(fin[t].m))
      <3>1. dels' = dels
        BY <1>3, <2>6 DEF FinUntrack
      <3>2. content' = content \/ (Reply(t, fin[t].who) /\ fin[t].who = "page")
        BY <1>3, <2>6 DEF FinUntrack, Reply
      <3>3. fin[t].who = "page" => content[t].pc \in Waiting /\ PageDels(t) = {}
        BY <1>0, <1>2 DEF AnswersOf
      <3>4. fin[t].who = "page" => dels = {}
        BY <1>1, <3>3 DEF PageDels, Waiting, OneTask, DeliveryAlone
      <3>5. QED
        BY <1>0, <2>1, <2>2, <2>4, <3>1, <3>2, <3>4 DEF OneTask, DeliveryAlone, RecoveryFindsNone
    <2>7. QED
      BY <2>5, <2>6
  <1>4. CASE FinReadSession(t)
    <2>1. /\ fin'[t].pc = IF session[t] = None THEN "untrackOnly" ELSE "written"
          /\ fin'[t].who = fin[t].who
      BY <1>0, <1>1, <1>4 DEF FinReadSession, TypeOK, Fin
    <2>2. UNCHANGED <<session, content, dels, rec>>
      BY <1>4 DEF FinReadSession
    <2>3. QED
      BY <1>0, <1>2, <2>1, <2>2 DEF OneTask, DeliveryAlone, RecoveryFindsNone
  <1>5. CASE ~FinUntrack(t) /\ ~FinReadSession(t)
    <2>1. fin[t].pc \notin {"idle", "session", "untrackOnly"}
      BY <1>5 DEF Finalization, FinReadWritten, FinAppendFailure, FinCommit, FinMark, FinRemove
    <2>2. dels = {} /\ fin[t].who # "recovery"
      BY <1>0, <2>1 DEF OneTask, DeliveryAlone, RecoveryFindsNone
    <2>3. UNCHANGED <<content, dels, rec>>
      BY <1>5 DEF Finalization, FinReadWritten, FinAppendFailure, FinCommit, FinMark, FinRemove
    <2>4. fin'[t].pc # "idle" /\ fin'[t].who = fin[t].who
      BY <1>0, <1>1, <1>5 DEF Finalization, FinReadWritten, FinAppendFailure, FinCommit, FinMark,
                              FinRemove, TypeOK, Fin
    <2>5. QED
      BY <1>0, <1>2, <2>2, <2>3, <2>4 DEF OneTask, DeliveryAlone, RecoveryFindsNone
  <1>6. QED
    BY <1>3, <1>4, <1>5

LEMMA OthersKeepOneTask ==
    ASSUME Undisturbed, Ground, OneTask,
           \/ \E d \in dels : Deliver(d) \/ DeliverFail(d)
           \/ \E t \in Tabs : SaveStart(t) \/ Saving(t) \/ SaveFail(t)
           \/ Recovery \/ RecFail
           \/ \E i \in DOMAIN history : DeleteMeeting(i)
           \/ UNCHANGED vars
    PROVE  OneTask'
  <1> USE DEF store, worker, ghosts
  <1>0. TypeOK /\ Answers /\ SoleTab
    BY DEF Ground, Undisturbed
  <1>1. rec \in Rec /\ \A t \in Tabs : content[t] \in Content
    BY <1>0 DEF TypeOK
  <1>2. CASE UNCHANGED <<session, content, fin, dels>> /\ rec'.results = {}
    BY <1>2 DEF OneTask, DeliveryAlone, RecoveryFindsNone
  <1>3. ASSUME NEW d \in dels, Deliver(d) \/ DeliverFail(d) PROVE OneTask'
    <2> DEFINE t == d.tab
    <2>1. t \in Tabs /\ \A u \in Tabs : u = t
      BY <1>0 DEF TypeOK, Delivery, SoleTab
    <2>2. dels = {d} /\ session[t] = None /\ UNCHANGED <<session, fin, rec>>
      BY <1>3, <2>1 DEF Deliver, DeliverFile, DeliverClear, DeliverFail, OneTask, DeliveryAlone
    <2>3. d.who = "page" => content[t].pc \in Waiting
      BY <1>0, <2>1 DEF Answers, AnswersOf, PageDels
    <2>4. CASE DeliverFile(d)
      <3>1. dels' = {[d EXCEPT !.pc = "clear"]} /\ content' = content
        BY <2>2, <2>4 DEF DeliverFile
      <3>2. [d EXCEPT !.pc = "clear"].who = d.who
        BY <1>0 DEF TypeOK, Delivery
      <3>3. QED
        BY <2>2, <3>1, <3>2 DEF OneTask, DeliveryAlone, RecoveryFindsNone
    <2>5. CASE DeliverClear(d) \/ DeliverFail(d)
      <3>1. dels' = {} /\ Reply(t, d.who)
        BY <2>2, <2>5 DEF DeliverClear, DeliverFail
      <3>2. content'[t].pc = "closed" <=> content[t].pc = "closed"
        BY <1>0, <2>1, <2>3, <3>1, AnsweredPage
      <3>3. QED
        BY <2>1, <2>2, <3>1, <3>2 DEF OneTask, DeliveryAlone, RecoveryFindsNone
    <2>6. QED
      BY <1>3, <2>4, <2>5 DEF Deliver
  <1>4. ASSUME NEW t \in Tabs, RecScan(t) PROVE OneTask'
    <2>1. CASE content[t].pc = "closed" /\ fin[t].pc = "idle"
      <3>1. StartFinalize(t, "recovery") /\ rec'.results = rec.results
        BY <1>1, <1>4, <2>1 DEF RecScan, Rec
      <3>2. fin'[t].pc = "session" /\ fin'[t].who = "recovery" /\ UNCHANGED <<session, content, dels>>
        BY <1>0, <1>4, <3>1, StartCalls DEF RecScan
      <3>3. QED
        BY <1>0, <2>1, <3>1, <3>2 DEF OneTask, DeliveryAlone, RecoveryFindsNone, SoleTab
    <2>2. CASE ~(content[t].pc = "closed" /\ fin[t].pc = "idle")
      BY <1>1, <1>2, <1>4, <2>2 DEF RecScan, Rec, OneTask, RecoveryFindsNone
    <2>3. QED
      BY <2>1, <2>2
  <1>5. CASE Recovery \/ RecFail
    <2>1. CASE RecPauses
      <3>1. rec'.results \subseteq rec.results
        BY <1>0, <2>1, PauseEffect
      <3>2. QED
        BY <1>2, <2>1, <3>1 DEF RecPauses, RecReadKeys, RecScanned, RecListPending, RecDone, RecFail,
                                OneTask, RecoveryFindsNone
    <2>2. CASE RecDeliver
      BY <2>2 DEF RecDeliver, OneTask, RecoveryFindsNone
    <2>3. CASE RecNext \/ RecSave \/ RecClear
      <3>1. rec'.results = rec.results
        BY <1>1, <2>3 DEF RecNext, RecSave, RecClear, Rec
      <3>2. QED
        BY <1>2, <2>3, <3>1 DEF RecNext, RecSave, RecClear, OneTask, RecoveryFindsNone
    <2>4. QED
      BY <1>4, <1>5, <2>1, <2>2, <2>3 DEF Recovery, RecPauses
  <1>6. ASSUME NEW t \in Tabs, SaveStart(t) \/ Saving(t) \/ SaveFail(t) PROVE OneTask'
    BY <1>2, <1>6 DEF SaveStart, Saving, SaveResolve, SaveReadWritten, SaveDownload, SaveRecord,
                      SaveFail, OneTask, RecoveryFindsNone
  <1>7. ASSUME NEW i \in DOMAIN history, DeleteMeeting(i) PROVE OneTask'
    BY <1>2, <1>7 DEF DeleteMeeting, OneTask, RecoveryFindsNone
  <1>8. CASE UNCHANGED vars
    BY <1>2, <1>8 DEF vars, OneTask, RecoveryFindsNone
  <1>9. QED
    BY <1>3, <1>5, <1>6, <1>7, <1>8

LEMMA OneTaskStep ==
    ASSUME Undisturbed, Ground, OneTask, [Next]_vars
    PROVE  OneTask'
  BY NoMishap, PageKeepsOneTask, FinalizationKeepsOneTask, OthersKeepOneTask
     DEF Next, Failures, Ground

LEMMA OneTaskHolds ==
    ASSUME Undisturbed
    PROVE  Spec => []OneTask
  <1>1. Init => OneTask
    BY DEF Init, OneTask, DeliveryAlone, RecoveryFindsNone, NoFin, NoPage, NewRec, NoRec
  <1>2. Ground /\ OneTask /\ [Next]_vars => OneTask'
    BY OneTaskStep
  <1>3. QED
    BY <1>1, <1>2, GroundHolds, PTL DEF Spec

-------------------------------------------------------------------------------
(*                        Copies of a session are alike                     *)

Alike(x, y) == x.room = y.room /\ x.private = y.private /\ x.startedAt = y.startedAt

(* The page is in a meeting, or about to resume one. *)
Recording(t) == content[t].pc \in {"lobby", "in", "sealed"} /\ content[t].mem # None

(* All copies of a session will be filed in the same place. *)
CopiesAlike ==
    \A t \in Tabs :
        /\ session[t] # None => session[t].private \in Privacies
        /\ content[t].mem # None => content[t].mem.private \in Privacies
        /\ Recording(t) /\ session[t] # None => Alike(content[t].mem, session[t])

(* A save is of the stored session, an earlier state of it, and overwrites what the *)
(* last save of it wrote.                                                    *)
SavesAlike ==
    \A t \in Tabs :
        /\ saves[t].pc # "idle" =>
              /\ saves[t].s \in Session /\ Alike(saves[t].s, session[t])
              /\ 0 < saves[t].s.words /\ saves[t].s.words <= session[t].words
        /\ saves[t].pc = "download" => saves[t].w = written[t]

(* So does a finalization, under the settings there are. *)
BuildingAlike ==
    \A t \in Tabs : Building(t) =>
        /\ Alike(fin[t].m, fin[t].s)
        /\ fin[t].w = written[t]
        /\ fin[t].pc = "commit" => fin[t].merge \in MergeModes

AllAlike == CopiesAlike /\ SavesAlike /\ BuildingAlike

LEMMA SessionMoves ==
    ASSUME Undisturbed, Ground, [Next]_vars, NEW t \in Tabs
    PROVE  \/ session'[t] = session[t]
           \/ /\ session'[t] = content[t].mem /\ session'[t] \in Session
              /\ Recording(t) /\ content[t].pc = "in"
              /\ content'[t].mem = content[t].mem
              /\ UNCHANGED <<written, history, pending, disk, worker, clock, gone>>
           \/ FinRemove(t)
  <1> USE DEF store, worker, ghosts
  <1>0. TypeOK /\ SoleTab /\ AwaitedOf(t) /\ content[t] \in Content
    BY DEF Ground, Undisturbed, Awaited, TypeOK
  <1> SUFFICES ASSUME session' # session
               PROVE  \/ FinRemove(t)
                      \/ /\ session'[t] = content[t].mem /\ session'[t] \in Session
                         /\ Recording(t) /\ content[t].pc = "in"
                         /\ content'[t].mem = content[t].mem
                         /\ UNCHANGED <<written, history, pending, disk, worker, clock, gone>>
    OBVIOUS
  <1>1. WriteSession(t) \/ EndMeeting(t) \/ RelaySession(t) \/ FinRemove(t)
    BY <1>0, SessionWriters DEF SoleTab
  <1>2. ~RelaySession(t)
    BY <1>0 DEF RelaySession, AwaitedOf
  <1>3. content[t].pc = "in" => content[t].mem \in Session
    BY <1>0 DEF Content
  <1>4. QED
    BY <1>0, <1>1, <1>2, <1>3, NoneAssumption DEF WriteSession, EndMeeting, Recording, TypeOK, Content

(* What a step makes of the session a page works on: nothing, one more word or       *)
(* attendee, a new session, or the stored one resumed.                          *)
LEMMA MemMoves ==
    ASSUME Undisturbed, Ground, CopiesAlike, [Next]_vars, NEW t \in Tabs, content'[t].mem # None
    PROVE  /\ content'[t].mem.private \in Privacies
           /\ Recording(t)' =>
                \/ Recording(t) /\ Alike(content'[t].mem, content[t].mem)
                \/ content'[t].mem = session[t] /\ UNCHANGED session
                \/ session[t] = None /\ session'[t] = None
  <1> USE DEF store, worker, ghosts
  <1>0. /\ TypeOK /\ AwaitedOf(t) /\ OwnSessionOf(t) /\ SoleTab /\ SteadySettings /\ Answers
        /\ content[t] \in Content /\ \A u \in Tabs : u = t
    BY DEF Ground, Undisturbed, Awaited, OwnSession, TypeOK, SoleTab
  <1>1. CASE content'[t] = content[t]
    BY <1>1 DEF Recording, CopiesAlike, Alike
  <1>2. CASE content'[t] = Answer(content[t])
    BY <1>0, <1>2 DEF Answer, NoPage, Recording, CopiesAlike, AwaitedOf, Content
  <1>3. CASE \E r \in Rooms : ReadPrevious(t, r)
    <2>1. PICK r \in Rooms : ReadPrevious(t, r)
      BY <1>3
    <2>2. QED
      BY <1>0, <2>1, ReadPreviousOpens DEF ReadPrevious, Recording, CopiesAlike
  <1>4. CASE \E private \in Privacies, heard \in BOOLEAN : Join(t, private, heard)
    <2>1. CASE /\ content[t].mem # None
               /\ \E heard : content' = [content EXCEPT ![t].pc = "in", ![t].heard = heard]
      <3>1. content'[t].mem = content[t].mem /\ Recording(t)
        BY <1>0, <1>4, <2>1 DEF Join, TypeOK, Content, Recording
      <3>2. QED
        BY <2>1, <3>1 DEF CopiesAlike, Alike
    <2>2. CASE content[t].mem = None
      <3>1. /\ content[t].pc = "lobby" /\ session' = session
            /\ content'[t].mem.private \in Privacies
        BY <1>0, <1>4, <2>2 DEF Join, TypeOK, Content
      <3>2. session[t] = None
        BY <1>0, <2>2, <3>1 DEF OwnSessionOf, AwaitedOf, Same
      <3>3. QED
        BY <3>1, <3>2
    <2>3. QED
      BY <1>4, <2>1, <2>2 DEF Join
  <1>5. CASE Capture(t) \/ Attend(t) \/ \E private \in Privacies : SetPrivate(t, private)
    <2>1. content[t].mem \in Session /\ content[t].pc = "in"
      BY <1>0, <1>5 DEF Capture, Attend, SetPrivate, Content
    <2>2. content[t].mem.private \in Privacies
      BY <2>1, NoneAssumption DEF CopiesAlike
    <2>3. Alike(content'[t].mem, content[t].mem)
      BY <1>0, <1>5, <2>1, <2>2 DEF Capture, Attend, SetPrivate, TypeOK, Content, Session, Alike,
                                    SteadySettings
    <2>4. QED
      BY <2>1, <2>2, <2>3, NoneAssumption DEF Recording, Alike
  <1>6. CASE EndMeeting(t)
    BY <1>0, <1>6 DEF EndMeeting, TypeOK, Content, Recording, CopiesAlike, Alike
  <1>7. CASE MeetingEnded(t)
    <2>1. content[t].pc \in {"sealed", "stale"}
      BY <1>0, <1>7 DEF MeetingEnded, AwaitedOf
    <2>2. fin[t].pc = "idle"
      BY <1>0, <2>1 DEF AwaitedOf
    <2>3. /\ content'[t].pc \in {"ended", "evicting"}
          /\ content'[t].mem = content[t].mem
      BY <1>0, <1>7, <2>1, <2>2 DEF MeetingEnded, TypeOK, Content
    <2>4. QED
      BY <2>3 DEF Recording, CopiesAlike
  <1>8. content'[t] = content[t] \/ content'[t] = Answer(content[t])
          \/ (\E r \in Rooms : ReadPrevious(t, r))
          \/ (\E private \in Privacies, heard \in BOOLEAN : Join(t, private, heard))
          \/ Capture(t) \/ Attend(t) \/ (\E private \in Privacies : SetPrivate(t, private))
          \/ EndMeeting(t) \/ MeetingEnded(t)
    <2>1. \A who : \A u \in Tabs : Reply(u, who) => content'[t] \in {content[t], Answer(content[t])}
      BY <1>0 DEF Reply, TypeOK
    <2>2. ASSUME LeaveLobby(t) \/ Reload(t) \/ CloseTab(t) PROVE FALSE
      BY <1>0, <2>2 DEF LeaveLobby, Reload, CloseTab, NoPage, TypeOK
    <2>3. ASSUME Page(t) PROVE content'[t] = content[t]
          \/ (\E r \in Rooms : ReadPrevious(t, r))
          \/ (\E private \in Privacies, heard \in BOOLEAN : Join(t, private, heard))
          \/ Capture(t) \/ Attend(t) \/ (\E private \in Privacies : SetPrivate(t, private))
          \/ EndMeeting(t)
      <3>1. ~Wipe(t) /\ ~RelaySession(t)
        BY <1>0 DEF Wipe, RelaySession, Undisturbed, AwaitedOf
      <3>2. WriteSession(t) => content'[t] = content[t]
        BY DEF WriteSession
      <3>3. QED
        BY <2>2, <2>3, <3>1, <3>2 DEF Page
    <2>4. \A u \in Tabs : SaveStart(u) \/ Saving(u) \/ SaveFail(u) => content' = content
      BY DEF SaveStart, Saving, SaveResolve, SaveReadWritten, SaveDownload, SaveRecord, SaveFail
    <2>5. Finalization(t) => content' = content \/ Reply(t, fin[t].who)
      BY DEF Finalization, FinReadSession, FinReadWritten, FinAppendFailure, FinCommit, FinMark,
             FinRemove, FinUntrack
    <2>6. \A d \in dels : Deliver(d) \/ DeliverFail(d) => content' = content \/ Reply(d.tab, d.who)
      BY DEF Deliver, DeliverFile, DeliverClear, DeliverFail
    <2>7. \A d \in dels : d.tab \in Tabs
      BY <1>0 DEF TypeOK, Delivery
    <2>8. Recovery \/ RecFail => content' = content
      BY DEF Recovery, RecReadKeys, RecScan, RecScanned, RecDeliver, RecListPending, RecNext,
             RecSave, RecClear, RecDone, RecFail
    <2>9. \A i \in DOMAIN history : DeleteMeeting(i) => content' = content
      BY DEF DeleteMeeting
    <2>10. QED
      BY <1>0, <2>1, <2>3, <2>4, <2>5, <2>6, <2>7, <2>8, <2>9, NoMishap DEF Next, Failures, vars
  <1>9. \A r \in Rooms : ReadPrevious(t, r) => content'[t].room = r
    BY <1>0 DEF ReadPrevious, TypeOK
  <1>10. QED
    BY <1>1, <1>2, <1>3, <1>4, <1>5, <1>6, <1>7, <1>8, <1>9

LEMMA WrittenMoves ==
    ASSUME Undisturbed, Ground, [Next]_vars, NEW t \in Tabs
    PROVE  written'[t] = written[t] \/ SaveRecord(t) \/ FinRemove(t)
  <1> USE DEF store, worker, ghosts
  <1>0. TypeOK /\ SoleTab
    BY DEF Ground, Undisturbed
  <1>1. (Page(t) \/ MeetingEnded(t)) => UNCHANGED written
    BY <1>0, PageEffect DEF PageLeavesWorker
  <1>2. Finalization(t) => FinRemove(t) \/ UNCHANGED written
    BY DEF Finalization, FinReadSession, FinReadWritten, FinAppendFailure, FinCommit, FinMark,
           FinUntrack
  <1>3. SaveStart(t) \/ Saving(t) \/ SaveFail(t) => SaveRecord(t) \/ UNCHANGED written
    BY DEF SaveStart, Saving, SaveResolve, SaveReadWritten, SaveDownload, SaveFail
  <1>4. \A d \in dels : Deliver(d) \/ DeliverFail(d) => UNCHANGED written
    BY DEF Deliver, DeliverFile, DeliverClear, DeliverFail
  <1>5. Recovery \/ RecFail => UNCHANGED written
    BY DEF Recovery, RecReadKeys, RecScan, RecScanned, RecDeliver, RecListPending, RecNext,
           RecSave, RecClear, RecDone, RecFail
  <1>6. \A i \in DOMAIN history : DeleteMeeting(i) => UNCHANGED written
    BY DEF DeleteMeeting
  <1>7. QED
    BY <1>0, <1>1, <1>2, <1>3, <1>4, <1>5, <1>6, NoMishap DEF Next, Failures, vars, SoleTab

(* What a step makes of a save under way. *)
LEMMA SaveMoves ==
    ASSUME Undisturbed, Ground, [Next]_vars, NEW t \in Tabs
    PROVE  \/ saves'[t] = saves[t]
           \/ SaveStart(t) \/ SaveResolve(t) \/ SaveReadWritten(t) \/ SaveDownload(t)
           \/ saves'[t].pc = "idle" /\ (SaveRecord(t) \/ SaveFail(t))
  <1> USE DEF store, worker, ghosts
  <1>0. TypeOK /\ SoleTab
    BY DEF Ground, Undisturbed
  <1>1. (Page(t) \/ MeetingEnded(t)) => UNCHANGED saves
    BY <1>0, PageEffect DEF PageLeavesWorker
  <1>2. Finalization(t) => UNCHANGED saves
    BY DEF Finalization, FinReadSession, FinReadWritten, FinAppendFailure, FinCommit, FinMark,
           FinRemove, FinUntrack
  <1>3. SaveRecord(t) \/ SaveFail(t) => saves'[t].pc = "idle"
    BY <1>0 DEF SaveRecord, SaveFail, TypeOK, NoSave
  <1>4. \A d \in dels : Deliver(d) \/ DeliverFail(d) => UNCHANGED saves
    BY DEF Deliver, DeliverFile, DeliverClear, DeliverFail
  <1>5. Recovery \/ RecFail => UNCHANGED saves
    BY DEF Recovery, RecReadKeys, RecScan, RecScanned, RecDeliver, RecListPending, RecNext,
           RecSave, RecClear, RecDone, RecFail
  <1>6. \A i \in DOMAIN history : DeleteMeeting(i) => UNCHANGED saves
    BY DEF DeleteMeeting
  <1>7. QED
    BY <1>0, <1>1, <1>2, <1>3, <1>4, <1>5, <1>6, NoMishap DEF Next, Failures, Saving, vars, SoleTab

(* A save goes on with the session it began with. *)
LEMMA SaveGoesOn ==
    ASSUME TypeOK, NEW t \in Tabs, SaveResolve(t) \/ SaveReadWritten(t) \/ SaveDownload(t)
    PROVE  /\ saves[t].pc # "idle" /\ saves'[t].s = saves[t].s
           /\ UNCHANGED <<session, written>>
           /\ saves'[t].pc = "download" => saves'[t].w = written[t]
  <1>1. saves[t] \in Save /\ saves \in [Tabs -> Save]
    BY DEF TypeOK
  <1>2. CASE SaveResolve(t)
    <2>1. PICK m : saves' = [saves EXCEPT ![t].pc = "written", ![t].m = m]
      BY <1>2 DEF SaveResolve
    <2>2. saves[t].pc = "resolve" /\ UNCHANGED <<session, written>>
      BY <1>2 DEF SaveResolve, store
    <2>3. QED
      BY <1>1, <2>1, <2>2 DEF Save
  <1>3. CASE SaveReadWritten(t) \/ SaveDownload(t)
    BY <1>1, <1>3 DEF SaveReadWritten, SaveDownload, Save, store
  <1>4. QED
    BY <1>2, <1>3

LEMMA SessionGrowsAlike ==
    ASSUME Undisturbed, Ground, CopiesAlike, [Next]_vars, NEW t \in Tabs, session[t] # None,
           fin[t].pc # "remove"
    PROVE  /\ session'[t] # None /\ Alike(session'[t], session[t])
           /\ session[t].words <= session'[t].words
  <1>1. session[t] \in Session /\ GrownOf(t)
    BY DEF Ground, TypeOK, Grown
  <1>2. ~FinRemove(t)
    BY DEF FinRemove
  <1>3. CASE session'[t] = session[t]
    BY <1>1, <1>3 DEF Alike, Session
  <1>4. CASE session'[t] # session[t]
    <2>1. session'[t] = content[t].mem /\ session'[t] \in Session /\ Recording(t)
      BY <1>2, <1>4, SessionMoves
    <2>2. Alike(content[t].mem, session[t])
      BY <2>1 DEF CopiesAlike
    <2>3. QED
      BY <1>1, <2>1, <2>2, NoneAssumption DEF GrownOf, Alike, Recording
  <1>5. QED
    BY <1>3, <1>4

LEMMA BuildingMoves ==
    ASSUME Undisturbed, Ground, [Next]_vars, NEW t \in Tabs, Building(t)'
    PROVE  \/ FinReadWritten(t)
           \/ /\ fin'[t].pc = fin[t].pc /\ fin'[t].s = fin[t].s /\ fin'[t].m = fin[t].m
              /\ fin'[t].w = fin[t].w /\ fin'[t].merge = fin[t].merge
  <1> USE DEF store, worker, ghosts
  <1>0. TypeOK /\ SoleTab /\ fin \in [Tabs -> Fin] /\ fin[t] \in Fin
    BY DEF Ground, Undisturbed, TypeOK
  <1>1. CASE UNCHANGED fin
    BY <1>1
  <1>2. CASE fin' = [fin EXCEPT ![t] = Unheard(@)]
    BY <1>0, <1>2 DEF Unheard, Fin
  <1>3. \A who : ~StartFinalize(t, who)
    BY <1>0, StartLeaves DEF Building
  <1>4. Page(t) \/ MeetingEnded(t) => UNCHANGED fin \/ fin' = [fin EXCEPT ![t] = Unheard(@)]
    BY <1>3 DEF Page, ReadPrevious, LeaveLobby, Join, Capture, Attend, SetPrivate, Wipe,
           WriteSession, EndMeeting, RelaySession, Reload, CloseTab, MeetingEnded
  <1>5. Finalization(t) => FinReadWritten(t)
    <2>1. FinReadSession(t) => fin'[t].pc \in {"untrackOnly", "written"}
      BY <1>0 DEF FinReadSession, Fin
    <2>2. FinMark(t) \/ FinRemove(t) => fin'[t].pc \in {"remove", "untrack"}
      BY <1>0 DEF FinMark, FinRemove, Fin
    <2>3. QED
      BY <1>0, <2>1, <2>2, FinIsReleased, CommitEffect DEF Finalization, Building
  <1>6. SaveStart(t) \/ Saving(t) \/ SaveFail(t) => UNCHANGED fin
    BY DEF SaveStart, Saving, SaveResolve, SaveReadWritten, SaveDownload, SaveRecord, SaveFail
  <1>7. \A d \in dels : Deliver(d) \/ DeliverFail(d) => UNCHANGED fin
    BY DEF Deliver, DeliverFile, DeliverClear, DeliverFail
  <1>8. Recovery \/ RecFail => UNCHANGED fin
    BY <1>0, <1>3 DEF Recovery, RecReadKeys, RecScan, RecScanned, RecDeliver, RecListPending, RecNext,
           RecSave, RecClear, RecDone, RecFail, SoleTab
  <1>9. \A i \in DOMAIN history : DeleteMeeting(i) => UNCHANGED fin
    BY DEF DeleteMeeting
  <1>10. QED
    BY <1>0, <1>1, <1>2, <1>4, <1>5, <1>6, <1>7, <1>8, <1>9, NoMishap
       DEF Next, Failures, vars, SoleTab

LEMMA AllAlikeStep ==
    ASSUME Undisturbed, Ground, AllAlike, [Next]_vars
    PROVE  AllAlike'
  <1> USE DEF store, worker, ghosts
  <1>0. /\ TypeOK
        /\ RecordInv /\ Awaited /\ Custody /\ Numbered /\ Grown /\ SoleTab
    BY DEF Ground, Undisturbed
  <1>1. CopiesAlike'
    <2> SUFFICES ASSUME NEW t \in Tabs
                 PROVE  /\ session'[t] # None => session'[t].private \in Privacies
                        /\ content'[t].mem # None => content'[t].mem.private \in Privacies
                        /\ Recording(t)' /\ session'[t] # None => Alike(content'[t].mem, session'[t])
      BY DEF CopiesAlike
    <2>1. FinRemove(t) => session'[t] = None
      BY <1>0 DEF FinRemove, TypeOK
    <2>2. \/ session'[t] = session[t]
          \/ session'[t] = content[t].mem /\ Recording(t) /\ content'[t].mem = content[t].mem
          \/ session'[t] = None
      BY <2>1, SessionMoves
    <2>3. session'[t] # None => session'[t].private \in Privacies
      BY <2>2 DEF AllAlike, CopiesAlike, Recording
    <2>4. content'[t].mem # None => content'[t].mem.private \in Privacies
      BY MemMoves DEF AllAlike
    <2>5. ASSUME Recording(t)', session'[t] # None PROVE Alike(content'[t].mem, session'[t])
      <3>1. \/ Recording(t) /\ Alike(content'[t].mem, content[t].mem)
            \/ content'[t].mem = session[t] /\ UNCHANGED session
            \/ session[t] = None /\ session'[t] = None
        BY <2>5, MemMoves DEF AllAlike, Recording
      <3>2. QED
        BY <2>2, <2>5, <3>1 DEF AllAlike, CopiesAlike, Alike, Recording
    <2>6. QED
      BY <2>3, <2>4, <2>5
  <1>2. SavesAlike'
    <2> SUFFICES ASSUME NEW t \in Tabs, saves'[t].pc # "idle"
                 PROVE  /\ saves'[t].s \in Session /\ Alike(saves'[t].s, session'[t])
                        /\ 0 < saves'[t].s.words /\ saves'[t].s.words <= session'[t].words
                        /\ saves'[t].pc = "download" => saves'[t].w = written'[t]
      BY DEF SavesAlike
    <2>1. CASE saves'[t] = saves[t]
      <3>1. content[t].pc = "in" /\ session[t] # None /\ fin[t].pc = "idle"
        BY <1>0, <2>1 DEF RecordInv, SavesInMeeting, Awaited, AwaitedOf
      <3>2. /\ session'[t] # None /\ Alike(session'[t], session[t])
            /\ session[t].words <= session'[t].words
        BY <3>1, SessionGrowsAlike DEF AllAlike
      <3>3. written'[t] = written[t]
        <4>1. SaveRecord(t) => saves'[t].pc = "idle"
          BY <1>0 DEF SaveRecord, TypeOK, NoSave
        <4>2. ~FinRemove(t)
          BY <3>1 DEF FinRemove
        <4>3. QED
          BY <4>1, <4>2, WrittenMoves
      <3>4. /\ saves[t].s \in Session /\ Alike(saves[t].s, session[t])
            /\ 0 < saves[t].s.words /\ saves[t].s.words <= session[t].words
            /\ saves[t].pc = "download" => saves[t].w = written[t]
        BY <2>1 DEF AllAlike, SavesAlike
      <3>5. saves[t].s.words \in Nat /\ session[t].words \in Nat /\ session'[t].words \in Nat
        <4>1. session'[t] \in Session
          BY <1>0, <3>1, <3>2, SessionMoves DEF TypeOK, FinRemove
        <4>2. QED
          BY <1>0, <3>1, <3>4, <4>1 DEF TypeOK, Session
      <3>6. QED
        BY <2>1, <3>2, <3>3, <3>4, <3>5 DEF Alike
    <2>2. CASE SaveStart(t)
      <3>1. /\ saves'[t].s = session[t] /\ saves'[t].pc = "resolve" /\ session' = session
            /\ session[t] \in Session /\ session[t].words # 0
        BY <1>0, <2>2 DEF SaveStart, TypeOK, NoSave, Empty
      <3>2. QED
        BY <3>1 DEF Alike, Session
    <2>3. CASE SaveResolve(t) \/ SaveReadWritten(t) \/ SaveDownload(t)
      BY <1>0, <2>3, SaveGoesOn DEF AllAlike, SavesAlike
    <2>4. QED
      BY <2>1, <2>2, <2>3, SaveMoves
  <1>3. BuildingAlike'
    <2> SUFFICES ASSUME NEW t \in Tabs, Building(t)'
                 PROVE  /\ Alike(fin'[t].m, fin'[t].s)
                        /\ fin'[t].w = written'[t]
                        /\ fin'[t].pc = "commit" => fin'[t].merge \in MergeModes
      BY DEF BuildingAlike
    <2>1. CASE FinReadWritten(t)
      <3>1. fin[t] \in Fin /\ fin \in [Tabs -> Fin] /\ fin[t].s \in Session
        BY <1>0, <2>1 DEF FinReadWritten, TypeOK, Fin
      <3>2. PICK merge \in MergeModes :
              /\ fin'[t].m = SessionToMeeting(fin[t].s, clock + 1, clock + 1)
              /\ fin'[t].s = fin[t].s /\ fin'[t].w = written[t] /\ fin'[t].merge = merge
        BY <2>1, <3>1 DEF FinReadWritten, Building, Fin
      <3>3. written' = written
        BY <2>1 DEF FinReadWritten
      <3>4. QED
        BY <3>2, <3>3 DEF Alike, SessionToMeeting
    <2>2. CASE /\ fin'[t].pc = fin[t].pc /\ fin'[t].s = fin[t].s /\ fin'[t].m = fin[t].m
               /\ fin'[t].w = fin[t].w /\ fin'[t].merge = fin[t].merge
      <3>1. Building(t)
        BY <2>2 DEF Building
      <3>2. ~SaveRecord(t) /\ ~FinRemove(t)
        BY <1>0, <3>1 DEF SaveRecord, FinRemove, Building, RecordInv, SavesInMeeting, Awaited, AwaitedOf
      <3>3. written'[t] = written[t]
        BY <3>2, WrittenMoves
      <3>4. QED
        BY <2>2, <3>1, <3>3 DEF AllAlike, BuildingAlike
    <2>3. QED
      BY <2>1, <2>2, BuildingMoves
  <1>4. QED
    BY <1>1, <1>2, <1>3 DEF AllAlike

LEMMA AllAlikeHolds ==
    ASSUME Undisturbed
    PROVE  Spec => []AllAlike
  <1>1. Init => AllAlike
    BY DEF Init, AllAlike, CopiesAlike, SavesAlike, BuildingAlike, Building, Recording, NoSave, NoFin,
           NoPage
  <1>2. Ground /\ AllAlike /\ [Next]_vars => AllAlike'
    BY AllAlikeStep
  <1>3. QED
    BY <1>1, <1>2, GroundHolds, PTL DEF Spec


-------------------------------------------------------------------------------
(*                            What is in the files                          *)

(* The visit begun at v is not in history yet, and its session is still there. *)
Live(v) ==
    \E t \in Tabs :
        \/ session[t] # None /\ fin[t].pc \notin {"mark", "remove"} /\ session[t].startedAt = v
        \/ Recording(t) /\ content[t].mem.startedAt = v

(* The most words of the session any file can have. *)
Latest(t) == IF saves[t].pc # "idle" THEN saves[t].s.words ELSE session[t].words

(* Meeting m is about to be written to its file, or has just been. *)
Saved(m)  == \E t \in Tabs : saves[t].pc \in {"written", "download", "record"} /\ saves[t].m = m
InHand(m) ==
    \/ Saved(m)
    \/ \E t \in Tabs : Holding(t) /\ fin[t].m = m
    \/ \E d \in dels : d.m = m

(* The transcript b is in a file at path p, or may still get there. *)
Source(m) == Saved(m) \/ Outgoing(m) \/ \E i \in DOMAIN history : history[i] = m
Text(p, b) ==
    \/ \E m \in Meeting : Source(m) /\ p = PathOf(m) /\ b = m.visits
    \/ p \in DOMAIN disk /\ \E k \in DOMAIN disk[p] : b = disk[p][k].visits

(* Row i is what the session under way would be merged into. *)
Target(i) ==
    TRUE \in MergeModes /\ \E t \in Tabs : session[t] # None /\ NewestTarget(history, session[t], i)

(* A path has the minute of the first visit in its files. *)
Headed(p, b) ==
    /\ Len(b) > 0
    /\ b[1].startedAt = p.minute
    /\ \A k \in DOMAIN b : b[k].startedAt <= clock

(* The session under way is the last visit, and is ahead of the file. *)
Ahead(b) ==
    \A k \in DOMAIN b : Live(b[k].startedAt) =>
        /\ k = Len(b) /\ b[k].words > 0
        /\ \E t \in Tabs : /\ session[t] # None /\ session[t].startedAt = b[k].startedAt
                           /\ b[k].words <= Latest(t)

(* The meeting of history filed at the same path has all of the file, but for the    *)
(* visit that is going to be merged into it.                                   *)
RowCovers(p, b) ==
    \A i \in DOMAIN history : PathOf(history[i]) = p =>
        \A k \in DOMAIN b : \/ Holds(history[i], b[k].startedAt, b[k].words)
                            \/ Live(b[k].startedAt) /\ Target(i)

(* The meeting about to be written at the same path has all of the file. *)
HandCovers(p, b) ==
    \A m \in Meeting : InHand(m) /\ PathOf(m) = p =>
        \A k \in DOMAIN b : Holds(m, b[k].startedAt, b[k].words)

Files ==
    \A p \in Path : \A b \in Seq(Visit) :
        Text(p, b) => Headed(p, b) /\ Ahead(b) /\ RowCovers(p, b) /\ HandCovers(p, b)

LEMMA PutEffect ==
    ASSUME NEW d, DiskOK(d), NEW q \in Path, NEW over, NEW body \in Body
    PROVE  LET n == Put(d, q, over, body)
           IN  /\ \A p \in DOMAIN n : \A k \in DOMAIN n[p] :
                     \/ p = q /\ n[p][k] = body
                     \/ p \in DOMAIN d /\ k \in DOMAIN d[p] /\ n[p][k] = d[p][k]
               /\ \A p \in DOMAIN d : \A k \in DOMAIN d[p] :
                     /\ p \in DOMAIN n /\ k \in DOMAIN n[p]
                     /\ n[p][k] = d[p][k] \/ (p = q /\ n[p][k] = body)
               /\ over /\ q \in DOMAIN d /\ 1 \in DOMAIN d[q] => n[q][1] = body
  <1> DEFINE files == FilesAt(d, q)
             n     == Put(d, q, over, body)
             more  == over /\ files # << >>
  <1>1. files \in Seq(Body)
    BY DEF FilesAt, DiskOK
  <1>2. /\ DOMAIN n = DOMAIN d \cup {q}
        /\ \A p \in DOMAIN d \ {q} : n[p] = d[p]
        /\ more => n[q] = [files EXCEPT ![1] = body]
        /\ ~more => n[q] = Append(files, body)
    BY DEF Put
  <1>3. \A k \in DOMAIN Append(files, body) :
           Append(files, body)[k] = body \/ (k \in DOMAIN files /\ Append(files, body)[k] = files[k])
    <2> HIDE DEF files
    <2>1. QED
      BY <1>1
  <1>4. \A k \in DOMAIN files : /\ k \in DOMAIN Append(files, body)
                                /\ Append(files, body)[k] = files[k]
    <2> HIDE DEF files
    <2>1. QED
      BY <1>1
  <1>5. /\ DOMAIN [files EXCEPT ![1] = body] = DOMAIN files
        /\ \A k \in DOMAIN files : [files EXCEPT ![1] = body][k] = IF k = 1 THEN body ELSE files[k]
    OBVIOUS
  <1>6. /\ q \in DOMAIN d => files = d[q]
        /\ q \notin DOMAIN d => files = << >>
        /\ DOMAIN << >> = {}
    BY DEF FilesAt
  <1>7. 1 \in DOMAIN files => files # << >>
    BY <1>6
  <1> HIDE DEF files, n
  <1>8. \A p \in DOMAIN n : \A k \in DOMAIN n[p] :
          \/ p = q /\ n[p][k] = body
          \/ p \in DOMAIN d /\ k \in DOMAIN d[p] /\ n[p][k] = d[p][k]
    BY <1>2, <1>3, <1>5, <1>6
  <1>9. \A p \in DOMAIN d : \A k \in DOMAIN d[p] :
          /\ p \in DOMAIN n /\ k \in DOMAIN n[p]
          /\ n[p][k] = d[p][k] \/ (p = q /\ n[p][k] = body)
    BY <1>2, <1>4, <1>5, <1>6
  <1>10. over /\ q \in DOMAIN d /\ 1 \in DOMAIN d[q] => n[q][1] = body
    BY <1>2, <1>5, <1>6, <1>7
  <1>11. QED
    BY <1>8, <1>9, <1>10 DEF n

LEMMA DiskMoves ==
    ASSUME Undisturbed, Ground, [Next]_vars
    PROVE  \/ UNCHANGED disk
           \/ \E d \in dels : DeliverFile(d)
           \/ RecSave
           \/ \E t \in Tabs : SaveDownload(t)
  <1> USE DEF store, worker, ghosts
  <1>0. TypeOK
    BY DEF Ground
  <1>1. \A t \in Tabs : Page(t) \/ MeetingEnded(t) => disk' = disk
    BY <1>0, PageEffect DEF PageLeavesWorker
  <1>2. \A t \in Tabs : Finalization(t) => disk' = disk
    BY DEF Finalization, FinReadSession, FinReadWritten, FinAppendFailure, FinCommit, FinMark,
           FinRemove, FinUntrack
  <1>3. \A t \in Tabs : SaveStart(t) \/ Saving(t) \/ SaveFail(t) => disk' = disk \/ SaveDownload(t)
    BY DEF SaveStart, Saving, SaveResolve, SaveReadWritten, SaveRecord, SaveFail
  <1>4. \A d \in dels : Deliver(d) \/ DeliverFail(d) => disk' = disk \/ DeliverFile(d)
    BY DEF Deliver, DeliverClear, DeliverFail
  <1>5. Recovery \/ RecFail => disk' = disk \/ RecSave
    BY DEF Recovery, RecReadKeys, RecScan, RecScanned, RecDeliver, RecListPending, RecNext, RecClear,
           RecDone, RecFail
  <1>6. (\E i \in DOMAIN history : DeleteMeeting(i)) \/ UNCHANGED vars => disk' = disk
    BY DEF DeleteMeeting, vars
  <1>7. QED
    BY <1>0, <1>1, <1>2, <1>3, <1>4, <1>5, <1>6, NoMishap DEF Next, Failures

(* What is written is in hand, or the recovery's, and replaces at most the first copy. *)
LEMMA Written ==
    ASSUME Undisturbed, Ground, [Next]_vars, disk' # disk
    PROVE  \E m \in Meeting, body \in Body, over \in BOOLEAN :
              /\ disk' = Put(disk, PathOf(m), over, body) /\ body.visits = m.visits
              /\ \/ InHand(m) /\ Source(m)
                 \/ rec.pc # "off" /\ Source(m)
              /\ body.final => Outgoing(m)
              /\ ~body.final => \E t \in Tabs : SaveDownload(t)
  <1>0. TypeOK
    BY DEF Ground
  <1>1. ASSUME NEW d \in dels, DeliverFile(d)
        PROVE  \E m \in Meeting, body \in Body, over \in BOOLEAN :
                  /\ disk' = Put(disk, PathOf(m), over, body) /\ body.visits = m.visits
                  /\ InHand(m) /\ Outgoing(m) /\ body.final
    <2>1. d.m \in Meeting /\ FinalBody(d.m) \in Body
      BY <1>0, BodyType DEF TypeOK, Delivery
    <2>2. disk' = Put(disk, PathOf(d.m), Overwrites(d.m, d.w), FinalBody(d.m))
      BY <1>1 DEF DeliverFile, Download
    <2>3. /\ Overwrites(d.m, d.w) \in BOOLEAN /\ FinalBody(d.m).visits = d.m.visits
          /\ FinalBody(d.m).final
      BY DEF Overwrites, Merged, FinalBody
    <2>4. InHand(d.m) /\ Outgoing(d.m)
      BY DEF InHand, Outgoing
    <2>5. QED
      BY <2>1, <2>2, <2>3, <2>4
  <1>2. ASSUME RecSave
        PROVE  \E m \in Meeting, body \in Body, over \in BOOLEAN :
                  /\ disk' = Put(disk, PathOf(m), over, body) /\ body.visits = m.visits
                  /\ rec.pc # "off" /\ Outgoing(m) /\ body.final
    <2>1. rec.m \in Meeting /\ FinalBody(rec.m) \in Body
      BY <1>0, <1>2, NoneAssumption, BodyType DEF TypeOK, Rec, RecSave
    <2>2. disk' = Put(disk, PathOf(rec.m), Overwrites(rec.m, rec.w), FinalBody(rec.m))
      BY <1>2 DEF RecSave, Download
    <2>3. /\ Overwrites(rec.m, rec.w) \in BOOLEAN /\ FinalBody(rec.m).visits = rec.m.visits
          /\ FinalBody(rec.m).final
      BY DEF Overwrites, Merged, FinalBody
    <2>4. rec.pc # "off" /\ Outgoing(rec.m)
      BY <1>2 DEF Outgoing, RecSave
    <2>5. QED
      BY <2>1, <2>2, <2>3, <2>4
  <1>3. ASSUME NEW t \in Tabs, SaveDownload(t)
        PROVE  \E m \in Meeting, body \in Body, over \in BOOLEAN :
                  /\ disk' = Put(disk, PathOf(m), over, body) /\ body.visits = m.visits
                  /\ InHand(m) /\ Saved(m) /\ ~body.final
    <2> DEFINE m == saves[t].m
    <2>1. m \in Meeting /\ PartialBody(m) \in Body
      BY <1>0, <1>3, NoneAssumption, BodyType DEF TypeOK, Save, SaveDownload
    <2>2. disk' = Put(disk, PathOf(m), Overwrites(m, saves[t].w), PartialBody(m))
      BY <1>3 DEF SaveDownload
    <2>3. /\ Overwrites(m, saves[t].w) \in BOOLEAN /\ PartialBody(m).visits = m.visits
          /\ ~PartialBody(m).final
      BY DEF Overwrites, Merged, PartialBody
    <2>4. InHand(m) /\ Saved(m)
      BY <1>3 DEF InHand, Saved, SaveDownload
    <2> HIDE DEF m
    <2>5. QED
      BY <2>1, <2>2, <2>3, <2>4
  <1>4. QED
    BY <1>1, <1>2, <1>3, DiskMoves DEF Source


(* No visit comes to life but one that begins. *)
LEMMA LiveBefore ==
    ASSUME Undisturbed, Ground, CopiesAlike, [Next]_vars, NEW v, Live(v)'
    PROVE  Live(v) \/ v = clock + 1
  <1>0. TypeOK /\ Awaited /\ SoleTab /\ FinalizedOnce
    BY DEF Ground, Undisturbed
  <1>1. PICK t \in Tabs :
          \/ session'[t] # None /\ fin'[t].pc \notin {"mark", "remove"} /\ session'[t].startedAt = v
          \/ Recording(t)' /\ content'[t].mem.startedAt = v
    BY <1>0 DEF Live
  <1>2. CASE session'[t] # None /\ fin'[t].pc \notin {"mark", "remove"} /\ session'[t].startedAt = v
    <2>1. ~FinRemove(t)
      BY <1>0, <1>2 DEF FinRemove, TypeOK
    <2>2. CASE session'[t] = content[t].mem /\ Recording(t)
      BY <1>2, <2>2 DEF Live
    <2>3. CASE session'[t] = session[t]
      <3>1. fin[t].pc # "remove"
        <4>1. FinMoves(t)
          BY <1>0, FinMovesAtEveryStep
        <4>2. QED
          BY <1>0, <1>2, <2>1, <4>1, NoMishap DEF FinMoves, Finalization, FinReadSession, FinReadWritten,
             FinAppendFailure, FinCommit, FinMark, FinUntrack
      <3>2. fin[t].pc # "mark"
        <4>1. FinMark(t) => fin'[t].pc = "remove"
          BY <1>0 DEF FinMark, TypeOK, Fin
        <4>2. FinMoves(t)
          BY <1>0, FinMovesAtEveryStep
        <4>3. QED
          BY <1>0, <1>2, <2>1, <4>1, <4>2, NoMishap DEF FinMoves, Finalization, FinReadSession,
             FinReadWritten, FinAppendFailure, FinCommit, FinUntrack
      <3>3. QED
        BY <1>2, <2>3, <3>1, <3>2 DEF Live
    <2>4. QED
      BY <2>1, <2>2, <2>3, SessionMoves
  <1>3. CASE Recording(t)' /\ content'[t].mem.startedAt = v
    <2>1. OwnBefore(t)
      BY <1>0, <1>3, PagesMove DEF Recording
    <2>2. fin[t].pc = "idle"
      BY <1>0, <2>1 DEF OwnBefore, Awaited, AwaitedOf
    <2>3. CASE content'[t].mem = session[t]
      BY <1>3, <2>2, <2>3 DEF Live, Recording
    <2>4. CASE content[t].pc \in {"lobby", "in", "sealed"}
               /\ (content'[t].mem = content[t].mem \/ Grew(t))
      BY <1>3, <2>4 DEF Live, Recording, Grew
    <2>5. CASE Begun(t)
      BY <1>3, <2>5 DEF Begun
    <2>6. QED
      <3>1. CopiesMove(t)
        BY <1>0, CopiesMoveAtEveryStep
      <3>2. content'[t].mem # None
        BY <1>3 DEF Recording
      <3>3. QED
        BY <2>1, <2>3, <2>4, <2>5, <3>1, <3>2 DEF CopiesMove, OwnBefore
  <1>4. QED
    BY <1>1, <1>2, <1>3

(* The session of a live visit with words in a file is the stored one. *)
LEMMA LiveSession ==
    ASSUME Undisturbed, Ground, NEW p \in Path, NEW b \in Seq(Visit), Ahead(b),
           NEW k \in DOMAIN b, Live(b[k].startedAt), NEW t \in Tabs
    PROVE  /\ k = Len(b) /\ b[k].words > 0
           /\ session[t] \in Session /\ session[t].startedAt = b[k].startedAt
           /\ fin[t].pc \notin {"mark", "remove"}
           /\ b[k].words <= Latest(t)
  <1>0. TypeOK /\ Awaited /\ SoleTab
    BY DEF Ground, Undisturbed
  <1>1. /\ k = Len(b) /\ b[k].words > 0
        /\ session[t] # None /\ session[t].startedAt = b[k].startedAt
        /\ b[k].words <= Latest(t)
    BY <1>0 DEF Ahead, SoleTab
  <1>2. fin[t].pc \notin {"mark", "remove"}
    BY <1>0 DEF Live, SoleTab, Recording, Awaited, AwaitedOf
  <1>3. session[t] \in Session
    BY <1>0, <1>1 DEF TypeOK
  <1>4. QED
    BY <1>1, <1>2, <1>3

(* ... and it stays, and ahead, until it is committed. *)
LEMMA LiveStays ==
    ASSUME Undisturbed, Ground, AllAlike, [Next]_vars, NEW t \in Tabs, ~Commits(t),
           session[t] # None, fin[t].pc \notin {"mark", "remove"}, Latest(t) > 0
    PROVE  /\ session'[t] # None /\ Alike(session'[t], session[t])
           /\ fin'[t].pc \notin {"mark", "remove"}
           /\ Latest(t) <= Latest(t)'
           /\ Live(session[t].startedAt)'
  <1>0. /\ TypeOK /\ Custody /\ SoleTab /\ RecordInv /\ CopiesAlike /\ SavesAlike
        /\ fin[t] \in Fin /\ fin \in [Tabs -> Fin] /\ session[t] \in Session
    BY DEF Ground, Undisturbed, AllAlike, TypeOK
  <1>1. /\ session'[t] # None /\ Alike(session'[t], session[t])
        /\ session[t].words <= session'[t].words
    BY <1>0, SessionGrowsAlike
  <1>2. session[t].words \in Nat /\ session'[t] \in Session /\ session'[t].words \in Nat
    <2>1. session'[t] \in Session
      BY <1>0, <1>1, SessionMoves DEF TypeOK, FinRemove
    <2>2. QED
      BY <1>0, <2>1 DEF Session
  <1>3. fin'[t].pc \notin {"mark", "remove"}
    <2>1. CASE FinReadWritten(t)
      <3>1. session[t] = fin[t].s /\ fin[t].pc # "idle"
        BY <1>0, <2>1 DEF Custody, FinalizeOwnsSession, FinReadWritten
      <3>2. saves[t].pc = "idle"
        BY <1>0, <3>1 DEF Ground, Awaited, AwaitedOf, RecordInv, SavesInMeeting
      <3>3. ~Empty(fin[t].s)
        BY <1>2, <3>1, <3>2 DEF Latest, Empty
      <3>4. QED
        BY <1>0, <2>1, <3>3 DEF FinReadWritten, Fin
    <2>2. CASE FinReadSession(t)
      BY <1>0, <2>2 DEF FinReadSession, Fin
    <2>3. CASE FinUntrack(t)
      BY <1>0, <2>3, FinIsReleased
    <2>4. QED
      <3>1. FinMoves(t)
        BY <1>0, FinMovesAtEveryStep
      <3>2. QED
        BY <1>0, <2>1, <2>2, <2>3, <3>1, NoMishap DEF FinMoves, Finalization, Commits, FinMark, FinRemove
  <1>4. Latest(t) <= Latest(t)'
    <2>1. saves[t].pc # "idle" => saves[t].s.words \in Nat /\ saves[t].s.words <= session[t].words
      BY <1>0 DEF SavesAlike, Session
    <2>2. CASE saves'[t] = saves[t]
      BY <1>1, <1>2, <2>1, <2>2 DEF Latest
    <2>3. CASE SaveStart(t)
      <3>1. saves'[t].s = session[t] /\ saves'[t].pc = "resolve" /\ saves[t].pc = "idle"
        BY <1>0, <2>3 DEF SaveStart, TypeOK, NoSave
      <3>2. QED
        BY <1>2, <3>1 DEF Latest
    <2>4. CASE SaveResolve(t) \/ SaveReadWritten(t) \/ SaveDownload(t)
      <3>1. saves[t].pc # "idle" /\ saves'[t].s = saves[t].s
        BY <1>0, <2>4, SaveGoesOn
      <3>2. QED
        BY <1>1, <1>2, <2>1, <3>1 DEF Latest
    <2>5. CASE saves'[t].pc = "idle"
      BY <1>1, <1>2, <2>1, <2>5 DEF Latest
    <2>6. QED
      BY <2>2, <2>3, <2>4, <2>5, SaveMoves
  <1>5. Live(session[t].startedAt)'
    BY <1>1, <1>3 DEF Live, Alike
  <1>6. QED
    BY <1>1, <1>3, <1>4, <1>5


(* The two steps that make a new text: a commit, and a save that builds its meeting. *)
Composes(t) == Commits(t) \/ SaveResolve(t)

(* Any other step gets nothing new into its hands, into history or into a file. *)
LEMMA HandBefore ==
    ASSUME Undisturbed, Ground, [Next]_vars, \A t \in Tabs : ~Composes(t),
           NEW m \in Meeting, InHand(m)'
    PROVE  InHand(m)
  <1> USE DEF store, worker, ghosts
  <1>0. TypeOK /\ Numbered
    BY DEF Ground
  <1>1. Saved(m)' => Saved(m)
    <2> SUFFICES ASSUME NEW t \in Tabs, saves'[t].pc \in {"written", "download", "record"},
                        saves'[t].m = m
                 PROVE  Saved(m)
      BY <1>0 DEF Saved, TypeOK
    <2>1. CASE saves'[t] = saves[t]
      BY <2>1 DEF Saved
    <2>2. ~SaveStart(t)
      BY <1>0 DEF SaveStart, TypeOK, NoSave
    <2>3. CASE SaveReadWritten(t) \/ SaveDownload(t)
      <3>1. saves[t].pc \in {"written", "download"} /\ saves'[t].m = saves[t].m
        BY <1>0, <2>3 DEF SaveReadWritten, SaveDownload, TypeOK, Save
      <3>2. QED
        BY <3>1 DEF Saved
    <2>4. QED
      BY <2>1, <2>2, <2>3, SaveMoves DEF Composes
  <1>2. \A t \in Tabs : Holding(t)' => Holding(t) /\ fin'[t].m = fin[t].m
    <2> SUFFICES ASSUME NEW t \in Tabs, Holding(t)' PROVE Holding(t) /\ fin'[t].m = fin[t].m
      OBVIOUS
    <2>1. FinMoves(t)
      BY <1>0, FinMovesAtEveryStep
    <2>2. CASE Finalization(t) \/ FinThrow(t)
      BY <1>0, <2>2, HoldingBefore DEF Composes
    <2>3. QED
      BY <2>1, <2>2, NoMishap, <1>0 DEF FinMoves, Holding
  <1>3. \A d \in dels' : (\E e \in dels : d.m = e.m) \/ \E t \in Tabs : Holding(t) /\ d.m = fin[t].m
    <2>1. ASSUME NEW t \in Tabs, Page(t) \/ MeetingEnded(t)
          PROVE  \A d \in dels' : \E e \in dels : d.m = e.m
      BY <1>0, <2>1, PageEffect DEF PageLeavesWorker
    <2>2. ASSUME NEW t \in Tabs, FinUntrack(t)
          PROVE  \A d \in dels' \ dels : Holding(t) /\ d.m = fin[t].m
      <3>1. \A d \in dels' \ dels : fin[t].m # None /\ d.m = fin[t].m
        BY <1>0, <2>2, UntrackEffect
      <3>2. fin[t].m # None => Holding(t)
        BY <1>0, <2>2 DEF FinUntrack, Holding, Numbered
      <3>3. QED
        BY <3>1, <3>2
    <2>3. ASSUME NEW t \in Tabs, Finalization(t), ~FinUntrack(t) PROVE dels' = dels
      BY <2>3 DEF Finalization, FinReadSession, FinReadWritten, FinAppendFailure, FinCommit, FinMark,
                  FinRemove
    <2>4. ASSUME NEW t \in Tabs, SaveStart(t) \/ Saving(t) \/ SaveFail(t) PROVE dels' = dels
      BY <2>4 DEF SaveStart, Saving, SaveResolve, SaveReadWritten, SaveDownload, SaveRecord, SaveFail
    <2>5. ASSUME NEW d \in dels, Deliver(d) \/ DeliverFail(d)
          PROVE  \A e \in dels' : \E x \in dels : e.m = x.m
      <3>1. d \in Delivery
        BY <1>0 DEF TypeOK
      <3>2. [d EXCEPT !.pc = "clear"].m = d.m
        BY <3>1 DEF Delivery
      <3>3. dels' \subseteq dels \cup {[d EXCEPT !.pc = "clear"]}
        BY <2>5 DEF Deliver, DeliverFile, DeliverClear, DeliverFail
      <3>4. QED
        BY <3>2, <3>3
    <2>6. ASSUME Recovery \/ RecFail PROVE dels' = dels
      BY <2>6 DEF Recovery, RecReadKeys, RecScan, RecScanned, RecDeliver, RecListPending, RecNext,
                  RecSave, RecClear, RecDone, RecFail
    <2>7. ASSUME (\E i \in DOMAIN history : DeleteMeeting(i)) \/ UNCHANGED vars PROVE dels' = dels
      BY <2>7 DEF DeleteMeeting, vars
    <2>8. QED
      BY <1>0, <2>1, <2>2, <2>3, <2>4, <2>5, <2>6, <2>7, NoMishap DEF Next, Failures
  <1>4. QED
    BY <1>1, <1>2, <1>3 DEF InHand

LEMMA RowBefore ==
    ASSUME Undisturbed, Ground, [Next]_vars, \A t \in Tabs : ~Composes(t)
    PROVE  \/ UNCHANGED history
           \/ \E i \in DOMAIN history : Removed(i) /\ DeleteMeeting(i)
  BY HistoryWriters, RemovedBy DEF Ground, Composes, Commits

LEMMA TextBefore ==
    ASSUME Undisturbed, Ground, [Next]_vars, \A t \in Tabs : ~Composes(t),
           NEW p \in Path, NEW b \in Seq(Visit), Text(p, b)'
    PROVE  Text(p, b)
  <1>0. TypeOK /\ Numbered /\ DiskOK(disk)
    BY DEF Ground, TypeOK, DiskOK
  <1>1. ASSUME NEW m \in Meeting, Source(m)' PROVE Source(m)
    <2>1. Saved(m)' => InHand(m)
      BY HandBefore DEF InHand
    <2>2. InHand(m) => Source(m)
      BY DEF InHand, Source, Outgoing
    <2>3. Outgoing(m)' => Outgoing(m) \/ \E i \in DOMAIN history : history[i] = m
      <3>1. ASSUME NEW t \in Tabs, Finalization(t) \/ FinThrow(t), Outgoing(m)' PROVE Outgoing(m)
        BY <1>0, <3>1, FinalizationSends DEF Composes
      <3>2. QED
        BY <1>0, <3>1, OthersSend
    <2>4. (\E i \in DOMAIN history' : history'[i] = m) => \E i \in DOMAIN history : history[i] = m
      BY RowBefore DEF Removed
    <2>5. QED
      BY <1>1, <2>1, <2>2, <2>3, <2>4 DEF Source
  <1>2. ASSUME p \in DOMAIN disk', NEW k \in DOMAIN disk'[p], b = disk'[p][k].visits PROVE Text(p, b)
    <2>1. CASE disk' = disk
      BY <1>2, <2>1 DEF Text
    <2>2. CASE disk' # disk
      <3>1. PICK m \in Meeting, body \in Body, over \in BOOLEAN :
              disk' = Put(disk, PathOf(m), over, body) /\ body.visits = m.visits /\ Source(m)
        BY <2>2, Written
      <3>2. \/ p = PathOf(m) /\ disk'[p][k] = body
            \/ p \in DOMAIN disk /\ k \in DOMAIN disk[p] /\ disk'[p][k] = disk[p][k]
        BY <1>0, <1>2, <3>1, PutEffect, PathType
      <3>3. QED
        BY <1>2, <3>1, <3>2 DEF Text
    <2>3. QED
      BY <2>1, <2>2
  <1>3. QED
    BY <1>1, <1>2 DEF Text


LEMMA LatestType ==
    ASSUME Ground, SavesAlike, NEW t \in Tabs, session[t] # None
    PROVE  Latest(t) \in Nat
  BY DEF Ground, TypeOK, SavesAlike, Latest, Session

(* What the session under way would be merged into stays so when another row goes. *)
LEMMA TargetStays ==
    ASSUME TypeOK, TypeOK', NEW t \in Tabs, SoleTab, session[t] # None, session'[t] # None,
           Alike(session'[t], session[t]),
           NEW n \in DOMAIN history, Removed(n), NEW i \in DOMAIN history',
           Target(IF i < n THEN i ELSE i + 1)
    PROVE  Target(i)'
  <1> DEFINE was(j) == IF j < n THEN j ELSE j + 1
  <1>1. \A j \in DOMAIN history' : was(j) \in DOMAIN history /\ history'[j] = history[was(j)]
    BY DEF Removed
  <1>2. TRUE \in MergeModes /\ NewestTarget(history, session[t], was(i))
    BY DEF Target, SoleTab
  <1>3. \A j \in DOMAIN history' : ShouldMerge(history'[j], session'[t]) <=> ShouldMerge(history[was(j)], session[t])
    BY <1>1 DEF ShouldMerge, Alike
  <1>4. \A j \in DOMAIN history' : j \in Nat /\ (j > i => was(j) > was(i))
    <2>1. n \in Nat
      BY DEF TypeOK
    <2>2. \A j \in DOMAIN history' : j \in Nat
      BY DEF TypeOK
    <2>3. QED
      BY <2>1, <2>2
  <1>5. NewestTarget(history', session'[t], i)
    BY <1>1, <1>2, <1>3, <1>4 DEF NewestTarget
  <1>6. QED
    BY <1>2, <1>5 DEF Target

LEMMA FilesCarried ==
    ASSUME Undisturbed, Ground, AllAlike, Files, [Next]_vars, \A t \in Tabs : ~Composes(t)
    PROVE  Files'
  <1> SUFFICES ASSUME NEW p \in Path, NEW b \in Seq(Visit), Text(p, b)'
               PROVE  Headed(p, b)' /\ Ahead(b)' /\ RowCovers(p, b)' /\ HandCovers(p, b)'
    BY DEF Files
  <1>0. TypeOK /\ SoleTab /\ CopiesAlike /\ SavesAlike
    BY DEF Ground, Undisturbed, AllAlike
  <1>1. Headed(p, b) /\ Ahead(b) /\ RowCovers(p, b) /\ HandCovers(p, b)
    BY TextBefore DEF Files
  <1>2. clock \in Nat /\ clock' \in Nat /\ clock <= clock'
    BY <1>0, ClockMoves DEF TypeOK
  <1>3. \A k \in DOMAIN b : b[k].startedAt \in Nat /\ b[k].words \in Nat
    BY VisitAt
  <1>4. ASSUME NEW k \in DOMAIN b, Live(b[k].startedAt)' PROVE Live(b[k].startedAt)
    BY <1>0, <1>1, <1>2, <1>3, <1>4, LiveBefore DEF Headed
  <1>5. ASSUME NEW k \in DOMAIN b, Live(b[k].startedAt), NEW t \in Tabs
        PROVE  /\ session[t] # None /\ session'[t] # None /\ Alike(session'[t], session[t])
               /\ session[t].startedAt = b[k].startedAt
               /\ k = Len(b) /\ b[k].words > 0
               /\ b[k].words <= Latest(t)'
               /\ Live(b[k].startedAt)'
    <2>1. /\ k = Len(b) /\ b[k].words > 0
          /\ session[t] \in Session /\ session[t].startedAt = b[k].startedAt
          /\ fin[t].pc \notin {"mark", "remove"}
          /\ b[k].words <= Latest(t)
      BY <1>1, <1>5, LiveSession
    <2>2. session[t] # None
      BY <2>1, NoneAssumption
    <2>3. Latest(t) \in Nat /\ Latest(t) > 0
      BY <1>0, <1>3, <2>1, <2>2, LatestType
    <2>4. /\ session'[t] # None /\ Alike(session'[t], session[t])
          /\ Latest(t) <= Latest(t)' /\ Live(session[t].startedAt)'
      BY <2>1, <2>2, <2>3, LiveStays DEF Composes
    <2>5. Latest(t)' \in Nat
      <3>1. SavesAlike' /\ TypeOK'
        BY AllAlikeStep, <1>0, NextKeepsType DEF AllAlike
      <3>2. QED
        BY <2>4, <3>1 DEF TypeOK, SavesAlike, Latest, Session
    <2>6. b[k].words <= Latest(t)'
      <3> DEFINE n == Latest(t)
      <3>1. n \in Nat /\ n' \in Nat /\ n <= n' /\ b[k].words <= n
        BY <2>1, <2>3, <2>4, <2>5
      <3> HIDE DEF n
      <3>2. QED
        BY <1>3, <3>1 DEF n
    <2>7. QED
      BY <2>1, <2>2, <2>4, <2>6 DEF Alike, Live
  <1>6. Headed(p, b)'
    BY <1>1, <1>2, <1>3 DEF Headed
  <1>7. Ahead(b)'
    <2> SUFFICES ASSUME NEW k \in DOMAIN b, Live(b[k].startedAt)'
                 PROVE  /\ k = Len(b) /\ b[k].words > 0
                        /\ \E t \in Tabs : /\ session'[t] # None /\ session'[t].startedAt = b[k].startedAt
                                           /\ b[k].words <= Latest(t)'
      BY DEF Ahead
    <2>1. Live(b[k].startedAt)
      BY <1>4
    <2>2. PICK t \in Tabs : TRUE
      BY <2>1 DEF Live
    <2>3. QED
      BY <1>5, <2>1, <2>2 DEF Alike
  <1>8. RowCovers(p, b)'
    <2> SUFFICES ASSUME NEW i \in DOMAIN history', PathOf(history'[i]) = p, NEW k \in DOMAIN b
                 PROVE  \/ Holds(history'[i], b[k].startedAt, b[k].words)
                        \/ Live(b[k].startedAt)' /\ Target(i)'
      BY DEF RowCovers
    <2>1. CASE UNCHANGED history
      <3>1. CASE Holds(history[i], b[k].startedAt, b[k].words)
        BY <2>1, <3>1
      <3>2. CASE Live(b[k].startedAt) /\ Target(i)
        <4>1. PICK t \in Tabs : session[t] # None /\ NewestTarget(history, session[t], i)
          BY <3>2 DEF Target
        <4>2. /\ session'[t] # None /\ Alike(session'[t], session[t]) /\ Live(b[k].startedAt)'
          BY <1>5, <3>2
        <4>3. NewestTarget(history', session'[t], i)
          BY <2>1, <4>1, <4>2 DEF NewestTarget, ShouldMerge, Alike
        <4>4. QED
          BY <3>2, <4>2, <4>3 DEF Target
      <3>3. QED
        BY <1>1, <2>1, <3>1, <3>2 DEF RowCovers
    <2>2. ASSUME NEW n \in DOMAIN history, Removed(n)
          PROVE  \/ Holds(history'[i], b[k].startedAt, b[k].words)
                 \/ Live(b[k].startedAt)' /\ Target(i)'
      <3> DEFINE j == IF i < n THEN i ELSE i + 1
      <3>1. j \in DOMAIN history /\ history'[i] = history[j]
        BY <2>2 DEF Removed
      <3>2. CASE Holds(history[j], b[k].startedAt, b[k].words)
        BY <3>1, <3>2
      <3>3. CASE Live(b[k].startedAt) /\ Target(j)
        <4>1. PICK t \in Tabs : TRUE
          BY <3>3 DEF Live
        <4>2. /\ session[t] # None /\ session'[t] # None /\ Alike(session'[t], session[t])
              /\ Live(b[k].startedAt)'
          BY <1>5, <3>3
        <4>3. Target(i)'
          BY <1>0, <2>2, <3>3, <4>2, TargetStays, NextKeepsType
        <4>4. QED
          BY <4>2, <4>3
      <3>4. QED
        BY <1>1, <3>1, <3>2, <3>3 DEF RowCovers
    <2>3. QED
      BY <2>1, <2>2, RowBefore
  <1>9. HandCovers(p, b)'
    BY <1>1, HandBefore DEF HandCovers
  <1>10. QED
    BY <1>6, <1>7, <1>8, <1>9


LEMMA MergeShape ==
    ASSUME NEW a \in Meeting, NEW x \in Meeting, NEW y \in Visit, x.visits = <<y>>
    PROVE  LET m == MergeMeetings(a, x)
           IN  /\ m \in Meeting /\ PathOf(m) = PathOf(a)
               /\ Len(a.visits) \in Nat /\ Len(m.visits) = Len(a.visits) + 1
               /\ DOMAIN m.visits = 1 .. Len(a.visits) + 1
               /\ DOMAIN a.visits = 1 .. Len(a.visits)
               /\ \A k \in DOMAIN a.visits : m.visits[k] = a.visits[k]
               /\ m.visits[Len(a.visits) + 1] = y
  <1> DEFINE s == a.visits
             c == s \o <<y>>
  <1>1. s \in Seq(Visit) /\ <<y>> \in Seq(Visit)
    BY MeetingVisits
  <1>2. /\ MergeMeetings(a, x) \in Meeting /\ MergeMeetings(a, x).visits = c
        /\ PathOf(MergeMeetings(a, x)) = PathOf(a)
    BY MergeType DEF MergeMeetings, Meeting, PathOf
  <1> HIDE DEF s
  <1>3. /\ Len(s) \in Nat /\ DOMAIN s = 1 .. Len(s)
        /\ Len(c) = Len(s) + 1 /\ DOMAIN c = 1 .. Len(s) + 1
        /\ \A k \in 1 .. Len(s) : c[k] = s[k]
        /\ c[Len(s) + 1] = y
    BY <1>1
  <1> HIDE DEF c
  <1>4. QED
    BY <1>2, <1>3 DEF s

(* A visit of history is no longer live. *)
LEMMA RowsAreNotLive ==
    ASSUME Ground, NEW i \in DOMAIN history, NEW k \in DOMAIN history[i].visits
    PROVE  /\ ~Live(history[i].visits[k].startedAt)
           /\ Visited(history[i].visits[k].startedAt)
  <1>1. Visited(history[i].visits[k].startedAt)
    BY DEF Visited, VisitsOf
  <1>2. QED
    BY <1>1 DEF Live, Recording, Ground, Uncommitted, UncommittedOf

LEMMA RowText ==
    ASSUME Ground, Files, NEW i \in DOMAIN history
    PROVE  /\ history[i] \in Meeting /\ history[i].visits \in Seq(Visit)
           /\ PathOf(history[i]) \in Path
           /\ Text(PathOf(history[i]), history[i].visits)
           /\ Headed(PathOf(history[i]), history[i].visits)
           /\ 1 \in DOMAIN history[i].visits
  <1> DEFINE b == history[i].visits
  <1>1. history[i] \in Meeting /\ b \in Seq(Visit) /\ PathOf(history[i]) \in Path
    BY RowType, MeetingVisits, PathType DEF Ground
  <1>2. Text(PathOf(history[i]), b)
    BY <1>1 DEF Text, Source
  <1>3. Headed(PathOf(history[i]), b)
    BY <1>1, <1>2 DEF Files
  <1> HIDE DEF b
  <1>4. 1 \in DOMAIN b
    BY <1>1, <1>3 DEF Headed
  <1>5. QED
    BY <1>1, <1>2, <1>3, <1>4 DEF b

(* Two meetings of history never share a path. *)
LEMMA RowsApart ==
    ASSUME Ground, Files, NEW i \in DOMAIN history, NEW j \in DOMAIN history,
           PathOf(history[i]) = PathOf(history[j])
    PROVE  i = j
  BY RowText DEF Headed, Ground, CommittedOnce

(* What the session under way makes of itself, alone or merged into its target, covers  *)
(* all that is filed at its path.                                              *)
LEMMA NewCovers ==
    ASSUME Undisturbed, Ground, SavesAlike, Files, NEW t \in Tabs, session[t] # None,
           fin[t].pc \notin {"mark", "remove"},
           NEW y \in Visit, y.startedAt = session[t].startedAt, y.words = Latest(t),
           NEW x \in Meeting, x.startedAt = session[t].startedAt, x.visits = <<y>>,
           NEW m, m = x \/ \E i \in DOMAIN history : Target(i) /\ m = MergeMeetings(history[i], x)
    PROVE  /\ m \in Meeting
           /\ Headed(PathOf(m), m.visits)
           /\ \A b \in Seq(Visit) : Text(PathOf(m), b) =>
                 \A k \in DOMAIN b : Holds(m, b[k].startedAt, b[k].words)
           /\ \A j \in DOMAIN history : PathOf(history[j]) = PathOf(m) =>
                 m # x /\ Target(j) /\ m = MergeMeetings(history[j], x)
           /\ \A k \in DOMAIN m.visits : Live(m.visits[k].startedAt) =>
                 k = Len(m.visits) /\ m.visits[k] = y
  <1> DEFINE v == session[t].startedAt
  <1>0. TypeOK /\ SoleTab /\ Minute = 1 /\ Dated /\ Uncommitted /\ clock \in Nat
    BY DEF Ground, Undisturbed, TypeOK
  <1>1. session[t] \in Session /\ v \in Nat /\ Live(v) /\ ~Visited(v) /\ v <= clock
    BY <1>0 DEF TypeOK, Session, Live, Uncommitted, UncommittedOf, Dated, Owns
  <1>2. ASSUME NEW p \in Path, NEW b \in Seq(Visit), Text(p, b), NEW k \in DOMAIN b,
               Live(b[k].startedAt)
        PROVE  b[k].startedAt = y.startedAt /\ b[k].words <= y.words /\ k = Len(b)
    BY <1>2, LiveSession DEF Files
  <1>3. ASSUME NEW b \in Seq(Visit), Headed(PathOf(x), b)
        PROVE  1 \in DOMAIN b /\ b[1].startedAt = v
    BY <1>0, <1>1, <1>3 DEF Headed, PathOf
  <1>4. /\ x.visits \in Seq(Visit) /\ Len(x.visits) = 1 /\ DOMAIN x.visits = {1} /\ x.visits[1] = y
    BY MeetingVisits
  <1>5. CASE m = x
    <2>1. Headed(PathOf(m), m.visits)
      <3>1. PathOf(m).minute = v
        BY <1>0, <1>1, <1>5 DEF PathOf
      <3>2. /\ Len(m.visits) > 0 /\ m.visits[1].startedAt = v
            /\ \A k \in DOMAIN m.visits : m.visits[k].startedAt = v
        <4> DEFINE w == x.visits
        <4>1. Len(w) = 1 /\ DOMAIN w = {1} /\ w[1].startedAt = v
          BY <1>4
        <4> HIDE DEF w
        <4>2. Len(w) > 0 /\ \A k \in DOMAIN w : w[k].startedAt = v
          BY <4>1
        <4>3. QED
          BY <1>5, <4>1, <4>2 DEF w
      <3>3. QED
        BY <1>1, <3>1, <3>2 DEF Headed
    <2>2. ASSUME NEW b \in Seq(Visit), Text(PathOf(m), b), NEW k \in DOMAIN b
          PROVE  Holds(m, b[k].startedAt, b[k].words)
      <3>1. PathOf(m) \in Path
        BY <1>5, PathType
      <3>2. 1 \in DOMAIN b /\ b[1].startedAt = v
        BY <1>3, <1>5, <2>2, <3>1 DEF Files
      <3>3. 1 = Len(b)
        BY <1>1, <1>2, <2>2, <3>1, <3>2
      <3>4. k = 1
        BY <2>2, <3>3
      <3>5. b[1].startedAt = y.startedAt /\ b[1].words <= y.words
        BY <1>1, <1>2, <2>2, <3>1, <3>2
      <3>6. b[1].words \in Nat /\ y.words \in Nat
        BY <3>2, VisitAt DEF Visit
      <3>7. QED
        BY <1>4, <1>5, <3>4, <3>5, <3>6 DEF Holds
    <2>3. ASSUME NEW j \in DOMAIN history, PathOf(history[j]) = PathOf(m) PROVE FALSE
      <3>1. history[j].visits[1].startedAt = v /\ 1 \in DOMAIN history[j].visits
        BY <1>3, <1>5, <2>3, RowText
      <3>2. QED
        BY <1>1, <3>1, RowsAreNotLive
    <2>4. QED
      BY <1>4, <1>5, <2>1, <2>2, <2>3
  <1>6. ASSUME NEW i \in DOMAIN history, Target(i), m = MergeMeetings(history[i], x)
        PROVE  /\ m \in Meeting
               /\ Headed(PathOf(m), m.visits)
               /\ \A b \in Seq(Visit) : Text(PathOf(m), b) =>
                     \A k \in DOMAIN b : Holds(m, b[k].startedAt, b[k].words)
               /\ \A j \in DOMAIN history : PathOf(history[j]) = PathOf(m) =>
                     m # x /\ Target(j) /\ m = MergeMeetings(history[j], x)
               /\ \A k \in DOMAIN m.visits : Live(m.visits[k].startedAt) =>
                     k = Len(m.visits) /\ m.visits[k] = y
    <2> DEFINE a == history[i]
               n == Len(a.visits)
    <2>1. /\ a \in Meeting /\ a.visits \in Seq(Visit) /\ PathOf(a) \in Path
          /\ Headed(PathOf(a), a.visits) /\ 1 \in DOMAIN a.visits
      BY <1>6, RowText
    <2>2. /\ m \in Meeting /\ PathOf(m) = PathOf(a)
          /\ n \in Nat /\ Len(m.visits) = n + 1
          /\ DOMAIN m.visits = 1 .. n + 1 /\ DOMAIN a.visits = 1 .. n
          /\ \A k \in DOMAIN a.visits : m.visits[k] = a.visits[k]
          /\ m.visits[n + 1] = y
      BY <1>6, <2>1, MergeShape
    <2> HIDE DEF n
    <2>3. Headed(PathOf(m), m.visits)
      BY <1>0, <1>1, <2>1, <2>2 DEF Headed
    <2>4. ASSUME NEW b \in Seq(Visit), Text(PathOf(m), b), NEW k \in DOMAIN b
          PROVE  Holds(m, b[k].startedAt, b[k].words)
      <3>1. CASE Holds(a, b[k].startedAt, b[k].words)
        <4>1. \A u, w : Holds(a, u, w) => Holds(m, u, w)
          BY <2>2 DEF Holds
        <4>2. QED
          BY <3>1, <4>1
      <3>2. CASE Live(b[k].startedAt)
        <4>1. b[k].startedAt = y.startedAt /\ b[k].words <= y.words
          BY <1>2, <2>1, <2>2, <2>4, <3>2
        <4>2. b[k].words \in Nat /\ y.words \in Nat
          BY VisitAt DEF Visit
        <4>3. QED
          BY <2>2, <4>1, <4>2 DEF Holds
      <3>3. RowCovers(PathOf(m), b)
        BY <2>1, <2>2, <2>4 DEF Files
      <3>4. QED
        BY <1>6, <2>2, <3>1, <3>2, <3>3 DEF RowCovers
    <2>5. ASSUME NEW j \in DOMAIN history, PathOf(history[j]) = PathOf(m) PROVE j = i
      BY <1>6, <2>2, <2>5, RowsApart
    <2>6. ASSUME NEW k \in DOMAIN m.visits, Live(m.visits[k].startedAt)
          PROVE  k = Len(m.visits) /\ m.visits[k] = y
      BY <1>6, <2>2, <2>6, RowsAreNotLive
    <2>7. m # x
      BY <1>4, <2>1, <2>2 DEF Headed
    <2>8. QED
      BY <1>6, <2>2, <2>3, <2>4, <2>5, <2>6, <2>7
  <1>7. QED
    BY <1>5, <1>6


(* With a new text m, and nothing else in hand, the files stay as they must be if the  *)
(* session and the rows do.                                                    *)
LEMMA FilesWith ==
    ASSUME Undisturbed, Ground, Files, clock' = clock,
           NEW m \in Meeting, Headed(PathOf(m), m.visits),
           \A b \in Seq(Visit) : Text(PathOf(m), b) =>
              \A k \in DOMAIN b : Holds(m, b[k].startedAt, b[k].words),
           \A p \in Path : \A b \in Seq(Visit) :
              Text(p, b)' => Text(p, b) \/ (p = PathOf(m) /\ b = m.visits),
           \A n \in Meeting : InHand(n)' => n = m,
           NEW p \in Path, NEW b \in Seq(Visit), Text(p, b)'
    PROVE  Headed(p, b)' /\ HandCovers(p, b)'
  <1>1. \A k \in DOMAIN m.visits : Holds(m, m.visits[k].startedAt, m.visits[k].words)
    BY MeetingVisits, VisitAt DEF Holds
  <1>2. Headed(p, b)
    BY DEF Files
  <1>3. Headed(p, b)'
    BY <1>2 DEF Headed
  <1>4. ASSUME PathOf(m) = p PROVE \A k \in DOMAIN b : Holds(m, b[k].startedAt, b[k].words)
    BY <1>1, <1>4
  <1>5. QED
    BY <1>3, <1>4 DEF HandCovers

LEMMA SaveComposes ==
    ASSUME Undisturbed, Ground, OneTask, AllAlike, Files, NEW t \in Tabs, SaveResolve(t)
    PROVE  Files'
  <1> DEFINE s == saves[t].s
             x == SessionToMeeting(s, 0, clock)
             y == VisitOf(s)
             m == saves'[t].m
  <1> USE DEF store, worker, ghosts
  <1>0. /\ TypeOK /\ SoleTab /\ saves[t] \in Save /\ saves \in [Tabs -> Save] /\ clock \in Nat
        /\ \A u \in Tabs : u = t
    BY DEF Ground, Undisturbed, SoleTab, TypeOK
  <1>1. /\ session[t] # None /\ fin[t].pc = "idle" /\ dels = {}
        /\ s \in Session /\ Alike(s, session[t])
    <2>1. saves[t].pc # "idle"
      BY DEF SaveResolve
    <2>2. content[t].pc = "in" /\ session[t] # None
      BY <2>1 DEF Ground, RecordInv, SavesInMeeting
    <2>3. fin[t].pc = "idle"
      BY <2>2 DEF Ground, Awaited, AwaitedOf
    <2>4. QED
      BY <2>1, <2>2, <2>3 DEF OneTask, DeliveryAlone, AllAlike, SavesAlike
  <1>2. /\ x \in Meeting /\ y \in Visit /\ x.visits = <<y>> /\ x.startedAt = session[t].startedAt
        /\ y.startedAt = session[t].startedAt /\ y.words = Latest(t)
    <2>1. x \in Meeting
      BY <1>0, <1>1, BuildType
    <2>2. QED
      BY <1>1, <2>1 DEF SessionToMeeting, VisitOf, Visit, Session, Alike, Latest, SaveResolve
  <1>3. UNCHANGED <<session, written, history, disk, content, fin, dels, rec, clock>>
    BY DEF SaveResolve
  <1>4. /\ saves'[t].pc = "written" /\ saves'[t].s = s
        /\ m = x \/ \E i \in DOMAIN history : Target(i) /\ m = MergeMeetings(history[i], x)
    <2>1. ASSUME TRUE \in MergeModes, NEW i \in DOMAIN history, NewestTarget(history, x, i),
                 saves' = [saves EXCEPT ![t].pc = "written", ![t].m = MergeMeetings(history[i], x)]
          PROVE  /\ saves'[t].pc = "written" /\ saves'[t].s = s
                 /\ Target(i) /\ m = MergeMeetings(history[i], x)
      <3>1. NewestTarget(history, session[t], i)
        BY <1>1, <2>1 DEF NewestTarget, ShouldMerge, Alike, SessionToMeeting
      <3>2. saves'[t].pc = "written" /\ saves'[t].s = s /\ m = MergeMeetings(history[i], x)
        BY <1>0, <2>1 DEF Save
      <3>3. QED
        BY <1>1, <2>1, <3>1, <3>2 DEF Target
    <2>2. CASE saves' = [saves EXCEPT ![t].pc = "written", ![t].m = x]
      BY <1>0, <2>2 DEF Save
    <2>3. QED
      BY <2>1, <2>2 DEF SaveResolve
  <1> HIDE DEF s, x, y, m
  <1>5. /\ m \in Meeting /\ Headed(PathOf(m), m.visits)
        /\ \A b \in Seq(Visit) : Text(PathOf(m), b) =>
              \A k \in DOMAIN b : Holds(m, b[k].startedAt, b[k].words)
        /\ \A j \in DOMAIN history : PathOf(history[j]) = PathOf(m) =>
              m # x /\ Target(j) /\ m = MergeMeetings(history[j], x)
        /\ \A k \in DOMAIN m.visits : Live(m.visits[k].startedAt) =>
              k = Len(m.visits) /\ m.visits[k] = y
    BY <1>1, <1>2, <1>4, NewCovers DEF AllAlike
  <1>6. /\ \A v : Live(v)' <=> Live(v)
        /\ \A i : Target(i)' <=> Target(i)
        /\ Latest(t)' = Latest(t)
    BY <1>3, <1>4 DEF Live, Recording, Target, Latest, SaveResolve, s
  <1>7. \A n \in Meeting : InHand(n)' => n = m
    BY <1>0, <1>1, <1>3 DEF InHand, Saved, Holding, m
  <1>8. ASSUME NEW p \in Path, NEW b \in Seq(Visit), Text(p, b)'
        PROVE  Text(p, b) \/ (p = PathOf(m) /\ b = m.visits)
    <2>1. \A n \in Meeting : Source(n)' => Source(n) \/ n = m
      BY <1>0, <1>3 DEF Source, Saved, Outgoing, Holding, m
    <2>2. QED
      BY <1>3, <1>8, <2>1 DEF Text
  <1>9. ASSUME NEW p \in Path, NEW b \in Seq(Visit), Text(p, b)'
        PROVE  Ahead(b)' /\ RowCovers(p, b)'
    <2>1. CASE Text(p, b)
      <3>1. Ahead(b) /\ RowCovers(p, b)
        BY <2>1 DEF Files
      <3>2. Ahead(b)'
        BY <1>0, <1>3, <1>6, <3>1 DEF Ahead
      <3>3. RowCovers(p, b)'
        BY <1>3, <1>6, <3>1 DEF RowCovers
      <3>4. QED
        BY <3>2, <3>3
    <2>2. CASE p = PathOf(m) /\ b = m.visits
      <3>1. \A k \in DOMAIN b : Live(b[k].startedAt) => k = Len(b) /\ b[k] = y
        BY <1>5, <2>2
      <3>2. y.words > 0 /\ y.words <= Latest(t) /\ y.words \in Nat
        BY <1>1, <1>2 DEF AllAlike, SavesAlike, SaveResolve, VisitOf, y, s, Visit
      <3>3. Ahead(b)'
        BY <1>1, <1>2, <1>3, <1>6, <3>1, <3>2 DEF Ahead
      <3>4. ASSUME NEW j \in DOMAIN history, PathOf(history[j]) = p, NEW k \in DOMAIN b
            PROVE  Holds(history[j], b[k].startedAt, b[k].words) \/ (Live(b[k].startedAt) /\ Target(j))
        <4> DEFINE a == history[j]
                   n == Len(a.visits)
        <4>1. Target(j) /\ m = MergeMeetings(a, x)
          BY <1>5, <2>2, <3>4
        <4>2. a \in Meeting /\ a.visits \in Seq(Visit)
          BY RowText
        <4>3. /\ n \in Nat /\ DOMAIN b = 1 .. n + 1 /\ DOMAIN a.visits = 1 .. n
              /\ \A l \in DOMAIN a.visits : b[l] = a.visits[l]
              /\ b[n + 1] = y
          BY <1>2, <2>2, <4>1, <4>2, MergeShape
        <4> HIDE DEF n, a
        <4>4. CASE k \in DOMAIN a.visits
          <5>1. b[k].words \in Nat
            BY VisitAt
          <5>2. QED
            BY <4>3, <4>4, <5>1 DEF Holds, a
        <4>5. CASE k = n + 1
          BY <1>1, <1>2, <4>1, <4>3, <4>5 DEF Live
        <4>6. QED
          BY <4>3, <4>4, <4>5
      <3>5. RowCovers(p, b)'
        BY <1>3, <1>6, <3>4 DEF RowCovers
      <3>6. QED
        BY <3>3, <3>5
    <2>3. QED
      BY <1>8, <1>9, <2>1, <2>2
  <1>10. ASSUME NEW p \in Path, NEW b \in Seq(Visit), Text(p, b)'
         PROVE  Headed(p, b)' /\ HandCovers(p, b)'
    BY <1>3, <1>5, <1>7, <1>8, <1>10, FilesWith
  <1>11. QED
    BY <1>9, <1>10 DEF Files


LEMMA OneTarget ==
    ASSUME TypeOK, SoleTab, NEW i, NEW j, Target(i), Target(j)
    PROVE  i = j
  <1>1. PICK t \in Tabs : NewestTarget(history, session[t], i) /\ NewestTarget(history, session[t], j)
    BY DEF Target, SoleTab
  <1>2. i \in Nat /\ j \in Nat
    BY <1>1 DEF NewestTarget, TypeOK
  <1>3. QED
    BY <1>1, <1>2 DEF NewestTarget

(* What a commit makes of the session under way, and of history. *)
LEMMA CommitMakes ==
    ASSUME Undisturbed, Ground, OneTask, AllAlike, Files, NEW t \in Tabs, Commits(t)
    PROVE  LET x == fin[t].m
               m == fin'[t].m
           IN  /\ session[t] # None /\ session[t] = fin[t].s
               /\ fin[t].pc \notin {"mark", "remove"} /\ saves[t].pc = "idle" /\ dels = {}
               /\ content[t].pc \notin {"lobby", "in", "sealed"}
               /\ x \in Meeting /\ x.visits = <<VisitOf(session[t])>>
               /\ Alike(x, session[t]) /\ VisitOf(session[t]) \in Visit
               /\ Latest(t) = session[t].words
               /\ \/ /\ Appended(x) /\ m = x
                     /\ fin'[t].pc = "remove" => Empty(session[t])
                     /\ fin'[t].pc = "mark" => \A i : ~Target(i)
                  \/ /\ fin'[t].pc = "mark"
                     /\ \E i \in DOMAIN history :
                           /\ Target(i) /\ MergedInto(i, x)
                           /\ m = history'[i] /\ m = MergeMeetings(history[i], x)
  <1> DEFINE x == fin[t].m
             m == fin'[t].m
  <1>0. /\ TypeOK /\ SoleTab /\ SteadySettings /\ fin[t] \in Fin
        /\ \A u \in Tabs : u = t
    BY DEF Ground, Undisturbed, SoleTab, TypeOK
  <1>1. /\ Building(t) /\ x \in Meeting
        /\ fin'[t].pc = IF fin[t].pc = "append" THEN "remove" ELSE "mark"
    BY <1>0, CommitEffect DEF Commits
  <1>2. /\ session[t] # None /\ session[t] = fin[t].s
        /\ content[t].pc \notin {"lobby", "in", "sealed"}
        /\ saves[t].pc = "idle" /\ dels = {}
    BY <1>1 DEF Building, Ground, Custody, FinalizeOwnsSession, Awaited, AwaitedOf, RecordInv,
                SavesInMeeting, OneTask, DeliveryAlone
  <1>3. /\ x.visits = <<VisitOf(session[t])>> /\ Alike(x, session[t])
        /\ VisitOf(session[t]) \in Visit /\ Latest(t) = session[t].words
        /\ fin[t].pc = "append" => Empty(session[t])
        /\ fin[t].pc = "commit" => fin[t].merge \in MergeModes
    <2>1. session[t] \in Session
      BY <1>0, <1>2 DEF TypeOK
    <2>2. VisitOf(session[t]) \in Visit
      BY <2>1 DEF VisitOf, Session, Visit
    <2>3. /\ x.visits = <<VisitOf(session[t])>>
          /\ fin[t].pc = "append" => Empty(session[t])
      BY <1>1, <1>2 DEF Ground, Built, VisitOf
    <2>4. /\ Alike(x, session[t])
          /\ fin[t].pc = "commit" => fin[t].merge \in MergeModes
      BY <1>1, <1>2 DEF AllAlike, BuildingAlike
    <2>5. QED
      BY <1>2, <2>2, <2>3, <2>4 DEF Latest
  <1>4. \A i \in DOMAIN history : NewestTarget(history, x, i) <=> NewestTarget(history, session[t], i)
    BY <1>3 DEF NewestTarget, ShouldMerge, Alike
  <1>5. CASE FinAppendFailure(t)
    <2>1. fin'[t].pc = "remove" /\ fin[t].pc = "append" /\ Appended(x)
      BY <1>0, <1>1, <1>5, AppendedBy DEF FinAppendFailure
    <2>2. m = x
      BY <1>0, <1>5 DEF FinAppendFailure, TypeOK, Fin
    <2>3. QED
      BY <1>1, <1>2, <1>3, <2>1, <2>2
  <1>6. CASE FinCommit(t)
    <2>1. fin[t].pc = "commit" /\ fin'[t].pc = "mark"
      BY <1>1, <1>6 DEF FinCommit
    <2>2. ASSUME fin[t].merge, NEW i \in DOMAIN history, NewestTarget(history, x, i),
                 history' = [history EXCEPT ![i] = MergeMeetings(history[i], x)],
                 fin' = [fin EXCEPT ![t].pc = "mark", ![t].m = MergeMeetings(history[i], x)]
          PROVE  Target(i) /\ MergedInto(i, x) /\ m = history'[i] /\ m = MergeMeetings(history[i], x)
      <3>1. MergedInto(i, x)
        BY <1>0, <2>2 DEF MergedInto, TypeOK
      <3>2. m = MergeMeetings(history[i], x)
        BY <1>0, <2>2 DEF TypeOK, Fin
      <3>3. Target(i)
        BY <1>0, <1>2, <1>3, <1>4, <2>1, <2>2 DEF Target, Fin
      <3>4. QED
        BY <3>1, <3>2, <3>3 DEF MergedInto
    <2>3. ASSUME ~(fin[t].merge /\ Mergeable(history, x)), AppendToHistory(x),
                 fin' = [fin EXCEPT ![t].pc = "mark"]
          PROVE  Appended(x) /\ m = x /\ \A i : ~Target(i)
      <3>1. Appended(x) /\ m = x
        BY <1>0, <1>1, <2>3, AppendedBy DEF TypeOK, Fin
      <3>2. ASSUME NEW i, Target(i) PROVE FALSE
        <4>1. TRUE \in MergeModes /\ i \in DOMAIN history /\ NewestTarget(history, session[t], i)
          BY <1>0, <3>2 DEF Target, NewestTarget
        <4>2. fin[t].merge = TRUE
          BY <1>0, <1>3, <2>1, <4>1 DEF SteadySettings
        <4>3. Mergeable(history, x)
          BY <1>4, <4>1 DEF Mergeable, NewestTarget
        <4>4. QED
          BY <2>3, <4>2, <4>3
      <3>3. QED
        BY <3>1, <3>2
    <2>4. QED
      BY <1>1, <1>2, <1>3, <1>6, <2>1, <2>2, <2>3 DEF FinCommit
  <1>7. QED
    BY <1>5, <1>6 DEF Commits

LEMMA CommitComposes ==
    ASSUME Undisturbed, Ground, OneTask, AllAlike, Files, NEW t \in Tabs, Commits(t)
    PROVE  Files'
  <1> DEFINE x == fin[t].m
             m == fin'[t].m
             y == VisitOf(session[t])
  <1>0. /\ TypeOK /\ SoleTab /\ \A u \in Tabs : u = t
        /\ Len(history) \in Nat /\ \A j \in DOMAIN history' : j \in Nat
    BY CommitEffect, NextKeepsType DEF Ground, Undisturbed, SoleTab, TypeOK, Next, Finalization, Commits
  <1>1. /\ session[t] # None /\ session[t] = fin[t].s
        /\ fin[t].pc \notin {"mark", "remove"} /\ saves[t].pc = "idle" /\ dels = {}
        /\ content[t].pc \notin {"lobby", "in", "sealed"}
        /\ x \in Meeting /\ x.visits = <<y>> /\ Alike(x, session[t]) /\ y \in Visit
        /\ Latest(t) = session[t].words
    BY CommitMakes
  <1>2. \/ /\ Appended(x) /\ m = x
           /\ fin'[t].pc = "remove" => Empty(session[t])
           /\ fin'[t].pc = "mark" => \A i : ~Target(i)
        \/ /\ fin'[t].pc = "mark"
           /\ \E i \in DOMAIN history :
                 Target(i) /\ MergedInto(i, x) /\ m = history'[i] /\ m = MergeMeetings(history[i], x)
    BY CommitMakes
  <1>3. /\ UNCHANGED <<session, disk, content, dels, saves, rec, clock>>
        /\ fin'[t].pc \in {"mark", "remove"}
    BY <1>0, CommitEffect DEF Commits
  <1>4. y.startedAt = session[t].startedAt /\ y.words = Latest(t) /\ x.startedAt = session[t].startedAt
    BY <1>1 DEF VisitOf, Alike
  <1> HIDE DEF x, m, y
  <1>5. /\ m \in Meeting /\ Headed(PathOf(m), m.visits)
        /\ \A b \in Seq(Visit) : Text(PathOf(m), b) =>
              \A k \in DOMAIN b : Holds(m, b[k].startedAt, b[k].words)
        /\ \A j \in DOMAIN history : PathOf(history[j]) = PathOf(m) =>
              m # x /\ Target(j) /\ m = MergeMeetings(history[j], x)
    BY <1>1, <1>2, <1>4, NewCovers DEF AllAlike
  <1>6. \A v : ~Live(v)'
    BY <1>0, <1>1, <1>3 DEF Live, Recording
  <1>7. \A n \in Meeting : InHand(n)' => n = m
    <2>1. \A n \in Meeting : ~Saved(n)'
      BY <1>0, <1>1, <1>3 DEF Saved
    <2>2. QED
      BY <1>0, <1>1, <1>3, <2>1 DEF InHand, Holding, m
  <1>8. ASSUME NEW j \in DOMAIN history' PROVE history'[j] = m \/ \E i \in DOMAIN history : history'[j] = history[i]
    <2>1. CASE Appended(x) /\ m = x
      BY <2>1 DEF Appended
    <2>2. CASE \E i \in DOMAIN history : MergedInto(i, x) /\ m = history'[i]
      BY <2>2 DEF MergedInto
    <2>3. QED
      BY <1>2, <2>1, <2>2
  <1>9. ASSUME NEW p \in Path, NEW b \in Seq(Visit), Text(p, b)'
        PROVE  Text(p, b) \/ (p = PathOf(m) /\ b = m.visits)
    <2>1. ASSUME NEW n \in Meeting, Source(n)' PROVE Source(n) \/ n = m
      <3>1. ~Saved(n)'
        BY <1>0, <1>1, <1>3 DEF Saved
      <3>2. Outgoing(n)' => Outgoing(n) \/ n = m
        BY <1>0, CommitSends DEF m
      <3>3. QED
        BY <1>8, <2>1, <3>1, <3>2 DEF Source
    <2>2. QED
      BY <1>3, <1>9, <2>1 DEF Text
  <1>10. \A k \in DOMAIN m.visits : Holds(m, m.visits[k].startedAt, m.visits[k].words)
    BY <1>5, MeetingVisits, VisitAt DEF Holds
  (* A live visit in a file has words, so its session is not committed as a failure. *)
  <1>11. ASSUME NEW p \in Path, NEW b \in Seq(Visit), Text(p, b), NEW k \in DOMAIN b,
                Live(b[k].startedAt)
         PROVE  fin'[t].pc = "mark"
    <2>1. b[k].words > 0 /\ b[k].words <= session[t].words /\ b[k].words \in Nat
      BY <1>1, <1>11, LiveSession, VisitAt DEF Files
    <2>2. ~Empty(session[t])
      BY <2>1 DEF Empty
    <2>3. QED
      BY <1>2, <1>3, <2>2
  <1>12. ASSUME NEW p \in Path, NEW b \in Seq(Visit), Text(p, b)'
         PROVE  RowCovers(p, b)'
    <2> SUFFICES ASSUME NEW j \in DOMAIN history', PathOf(history'[j]) = p, NEW k \in DOMAIN b
                 PROVE  Holds(history'[j], b[k].startedAt, b[k].words)
      BY DEF RowCovers
    <2>1. CASE history'[j] = m
      BY <1>5, <1>9, <1>10, <1>12, <2>1
    <2>2. CASE history'[j] # m
      <3>1. PICK i \in DOMAIN history :
              /\ history'[j] = history[i]
              /\ \A n \in DOMAIN history : MergedInto(n, x) /\ m = history'[n] => i # n
        <4>1. CASE Appended(x) /\ m = x /\ ~(\E n \in DOMAIN history : MergedInto(n, x) /\ m = history'[n])
          BY <2>2, <4>1 DEF Appended
        <4>2. ASSUME NEW n \in DOMAIN history, MergedInto(n, x), m = history'[n]
              PROVE  /\ history'[j] = history[j] /\ j \in DOMAIN history
                     /\ \A l \in DOMAIN history : MergedInto(l, x) /\ m = history'[l] => j # l
          BY <2>2, <4>2 DEF MergedInto
        <4>3. QED
          BY <1>2, <4>1, <4>2
      <3>2. PathOf(history[i]) # PathOf(m)
        <4> SUFFICES ASSUME PathOf(history[i]) = PathOf(m) PROVE FALSE
          OBVIOUS
        <4>1. m # x /\ Target(i)
          BY <1>5
        <4>2. PICK n \in DOMAIN history : Target(n) /\ MergedInto(n, x) /\ m = history'[n]
          BY <1>2, <4>1
        <4>3. i = n
          BY <1>0, <4>1, <4>2, OneTarget
        <4>4. QED
          BY <3>1, <4>2, <4>3
      <3>3. Text(p, b)
        BY <1>9, <1>12, <2>2, <3>1, <3>2
      <3>4. ~(Live(b[k].startedAt) /\ Target(i))
        <4> SUFFICES ASSUME Live(b[k].startedAt), Target(i) PROVE FALSE
          OBVIOUS
        <4>1. fin'[t].pc = "mark"
          BY <1>11, <3>3
        <4>2. PICK n \in DOMAIN history : Target(n) /\ MergedInto(n, x) /\ m = history'[n]
          BY <1>2, <4>1
        <4>3. i = n
          BY <1>0, <4>2, OneTarget
        <4>4. QED
          BY <3>1, <4>2, <4>3
      <3>5. QED
        BY <3>1, <3>3, <3>4 DEF Files, RowCovers
    <2>3. QED
      BY <2>1, <2>2
  <1>13. ASSUME NEW p \in Path, NEW b \in Seq(Visit), Text(p, b)'
         PROVE  Headed(p, b)' /\ HandCovers(p, b)'
    BY <1>3, <1>5, <1>7, <1>9, <1>13, FilesWith
  <1>14. QED
    BY <1>6, <1>12, <1>13 DEF Files, Ahead


LEMMA FilesHold ==
    ASSUME Undisturbed
    PROVE  Spec => []Files
  <1>1. Init => Files
    BY DEF Init, Files, Text, Source, Saved, Outgoing, Holding, NoSave, NoFin, NewRec, NoRec
  <1>2. Ground /\ OneTask /\ AllAlike /\ Files /\ [Next]_vars => Files'
    BY FilesCarried, SaveComposes, CommitComposes DEF Composes
  <1>3. QED
    BY <1>1, <1>2, GroundHolds, OneTaskHolds, AllAlikeHolds, PTL DEF Spec

(* Undisturbed, no write after the start-up recovery takes anything away from a file: *)
(* neither a save, nor a final file, nor the two of a rejoined meeting, whatever is   *)
(* merged or not, retained or deleted, and whichever download fails (snapshot.ts,    *)
(* export.ts, merge.ts: all fold the same earlier visits in).                    *)
THEOREM OnlyGrowsHolds ==
    ASSUME Undisturbed
    PROVE  Spec => OnlyGrows
  <1> DEFINE Keeps == rec.pc = "off" =>
         \A p \in DOMAIN disk : \A k \in DOMAIN disk[p] : Covers(disk'[p][k], disk[p][k])
  <1>1. Ground /\ Files /\ [Next]_vars => Keeps
    <2> SUFFICES ASSUME Ground, Files, [Next]_vars, rec.pc = "off",
                        NEW p \in DOMAIN disk, NEW k \in DOMAIN disk[p]
                 PROVE  Covers(disk'[p][k], disk[p][k])
      OBVIOUS
    <2>1. /\ DiskOK(disk) /\ p \in Path
          /\ disk[p][k].visits \in Seq(Visit)
      <3> DEFINE list == disk[p]
      <3>1. DiskOK(disk) /\ p \in Path /\ list \in Seq(Body)
        BY DEF Ground, TypeOK, DiskOK
      <3> HIDE DEF list
      <3>2. k \in DOMAIN list
        BY DEF list
      <3>3. list[k] \in Body
        BY <3>1, <3>2
      <3>4. list[k].visits \in Seq(Visit)
        BY <3>3 DEF Body
      <3>5. QED
        BY <3>1, <3>4 DEF list
    <2>2. CASE disk'[p][k] = disk[p][k]
      BY <2>1, <2>2, VisitAt DEF Covers, Holds
    <2>3. CASE disk'[p][k] # disk[p][k]
      <3>1. PICK m \in Meeting, body \in Body, over \in BOOLEAN :
              /\ disk' = Put(disk, PathOf(m), over, body) /\ body.visits = m.visits
              /\ InHand(m)
        BY <2>3, Written
      <3>2. p = PathOf(m) /\ disk'[p][k] = body
        BY <2>1, <2>3, <3>1, PutEffect, PathType
      <3>3. Text(p, disk[p][k].visits)
        BY DEF Text
      <3>4. HandCovers(p, disk[p][k].visits)
        BY <2>1, <3>3 DEF Files
      <3>5. QED
        BY <3>1, <3>2, <3>4 DEF HandCovers, Covers, Holds
    <2>4. QED
      BY <2>2, <2>3
  <1>2. Ground /\ Files /\ [Next]_vars => [Keeps]_vars
    BY <1>1
  <1>3. QED
    BY <1>2, GroundHolds, FilesHold, PTL DEF Spec, OnlyGrows


-------------------------------------------------------------------------------
(*                     A partial file is replaced in the end                *)

(* No finished meeting is taken out of history, and its download succeeds. *)
Delivers == ~DeletesEnabled /\ ~DownloadsMayFail

(* None of the visits of b is live: all of them are finished. *)
Closed(b) == \A k \in DOMAIN b : ~Live(b[k].startedAt)

FinalsAreClosed ==
    /\ \A m \in Meeting : Outgoing(m) => Closed(m.visits)
    /\ \A p \in DOMAIN disk : \A k \in DOMAIN disk[p] : disk[p][k].final => Closed(disk[p][k].visits)

(* The file the session of tab t goes to when it is finalized: its target's, or its own. *)
GoesTo(t, p) ==
    \/ \E i : Target(i) /\ p = PathOf(history[i])
    \/ (\A i : ~Target(i)) /\ p = PathOf(session[t])

(* ... and that is also where a save of it goes. *)
SavesPlaced ==
    \A t \in Tabs : saves[t].pc \in {"written", "download", "record"} =>
        LET m == saves[t].m
        IN  /\ GoesTo(t, PathOf(m))
            /\ Merged(m) \/ \A i : ~Target(i)
            /\ Len(m.visits) > 0 /\ m.visits[Len(m.visits)].startedAt = session[t].startedAt

(* Whatever of tab t is at path p, its final file will take the place of. *)
Claims(t, p) ==
    \/ \E i : Target(i)
    \/ written[t] = p
    \/ saves[t].pc = "record" /\ PathOf(saves[t].m) = p

(* The session begun at v is still stored, and its final file will replace p. *)
Unfinished(p, v) ==
    \E t \in Tabs : /\ session[t] # None /\ session[t].startedAt = v
                    /\ fin[t].pc \notin {"mark", "remove"}
                    /\ GoesTo(t, p) /\ Claims(t, p)

(* Meeting m, written as w says, replaces what was saved of visit v at path p. *)
Replaces(m, w, p, v) ==
    PathOf(m) = p /\ Overwrites(m, w) /\ Holds(m, v, 0) /\ ~Failure(m)

Replacing(p, v) ==
    \/ \E t \in Tabs : Holding(t) /\ Replaces(fin[t].m, fin[t].w, p, v)
    \/ \E d \in dels : d.pc = "download" /\ Replaces(d.m, d.w, p, v)

(* A partial file is the first of its path, and its session is unfinished, or what     *)
(* replaces it is on its way.                                                  *)
PartialsTaken ==
    \A p \in DOMAIN disk : \A k \in DOMAIN disk[p] :
        ~disk[p][k].final =>
            /\ k = 1
            /\ LET v == disk[p][k].visits[Len(disk[p][k].visits)].startedAt
               IN  Unfinished(p, v) \/ Replacing(p, v)

Partials == FinalsAreClosed /\ SavesPlaced /\ PartialsTaken

(* A file is filed at a path, and is a list of visits. *)
LEMMA FileType ==
    ASSUME NEW d, DiskOK(d), NEW p \in DOMAIN d, NEW k \in DOMAIN d[p]
    PROVE  p \in Path /\ d[p][k] \in Body /\ d[p][k].visits \in Seq(Visit)
  <1> DEFINE list == d[p]
  <1>1. p \in Path /\ list \in Seq(Body) /\ k \in DOMAIN list
    BY DEF DiskOK
  <1> HIDE DEF list
  <1>2. list[k] \in Body
    BY <1>1
  <1>3. list[k].visits \in Seq(Visit)
    BY <1>2 DEF Body
  <1>4. QED
    BY <1>1, <1>2, <1>3 DEF list

(* A commit ends the only session there is. *)
LEMMA CommitEnds ==
    ASSUME Undisturbed, Ground, OneTask, AllAlike, Files, NEW t \in Tabs, Commits(t), NEW v
    PROVE  ~Live(v)'
  <1>0. TypeOK /\ SoleTab /\ \A u \in Tabs : u = t
    BY DEF Ground, Undisturbed, SoleTab
  <1>1. content[t].pc \notin {"lobby", "in", "sealed"}
    BY CommitMakes
  <1>2. UNCHANGED <<session, content>> /\ fin'[t].pc \in {"mark", "remove"}
    BY <1>0, CommitEffect DEF Commits
  <1>3. QED
    BY <1>0, <1>1, <1>2 DEF Live, Recording

(* What is closed and filed stays closed. *)
LEMMA ClosedStays ==
    ASSUME Undisturbed, Ground, OneTask, AllAlike, Files, [Next]_vars,
           NEW p \in Path, NEW b \in Seq(Visit), Text(p, b), Closed(b)
    PROVE  Closed(b)'
  <1> SUFFICES ASSUME NEW k \in DOMAIN b, Live(b[k].startedAt)' PROVE FALSE
    BY DEF Closed
  <1>1. b[k].startedAt <= clock /\ b[k].startedAt \in Nat /\ clock \in Nat
    BY VisitAt DEF Files, Headed, Ground, TypeOK
  <1>2. Live(b[k].startedAt) \/ b[k].startedAt = clock + 1
    BY LiveBefore DEF AllAlike
  <1>3. QED
    BY <1>1, <1>2 DEF Closed

LEMMA FinalsAreClosedStep ==
    ASSUME Undisturbed, Ground, OneTask, AllAlike, Files, FinalsAreClosed, [Next]_vars
    PROVE  FinalsAreClosed'
  <1>0. TypeOK /\ Numbered /\ DiskOK(disk)
    BY DEF Ground, TypeOK, DiskOK
  <1>1. CASE \E t \in Tabs : Commits(t)
    BY <1>1, CommitEnds DEF FinalsAreClosed, Closed
  <1>2. CASE \A t \in Tabs : ~Commits(t)
    <2>1. ASSUME NEW m \in Meeting, Outgoing(m)' PROVE Closed(m.visits)'
      <3>1. Outgoing(m) \/ \E i \in DOMAIN history : history[i] = m
        <4>1. ASSUME NEW t \in Tabs, Finalization(t) \/ FinThrow(t) PROVE Outgoing(m)
          BY <1>0, <1>2, <2>1, <4>1, FinalizationSends
        <4>2. QED
          BY <1>0, <2>1, <4>1, OthersSend
      <3>2. Text(PathOf(m), m.visits) /\ PathOf(m) \in Path /\ m.visits \in Seq(Visit)
        BY <3>1, PathType, MeetingVisits DEF Text, Source
      <3>3. Closed(m.visits)
        BY <3>1, RowsAreNotLive DEF FinalsAreClosed, Closed
      <3>4. QED
        BY <3>2, <3>3, ClosedStays
    <2>2. ASSUME NEW p \in DOMAIN disk', NEW k \in DOMAIN disk'[p], disk'[p][k].final,
                 NEW b, b = disk'[p][k].visits
          PROVE  Closed(b)'
      <3>1. CASE p \in DOMAIN disk /\ k \in DOMAIN disk[p] /\ disk'[p][k] = disk[p][k]
        <4>1. p \in Path /\ b \in Seq(Visit)
          BY <1>0, <2>2, <3>1, FileType
        <4>2. Text(p, b) /\ Closed(b)
          BY <2>2, <3>1 DEF Text, FinalsAreClosed
        <4>3. QED
          BY <4>1, <4>2, ClosedStays
      <3>2. CASE ~(p \in DOMAIN disk /\ k \in DOMAIN disk[p] /\ disk'[p][k] = disk[p][k])
        <4>1. disk' # disk
          BY <2>2, <3>2
        <4>2. PICK m \in Meeting, body \in Body, over \in BOOLEAN :
                /\ disk' = Put(disk, PathOf(m), over, body) /\ body.visits = m.visits
                /\ body.final => Outgoing(m)
          BY <4>1, Written
        <4>3. disk'[p][k] = body
          BY <1>0, <2>2, <3>2, <4>2, PutEffect, PathType
        <4>4. Outgoing(m) /\ b = m.visits /\ b \in Seq(Visit) /\ PathOf(m) \in Path
          BY <2>2, <4>2, <4>3, PathType, MeetingVisits
        <4>5. Text(PathOf(m), b) /\ Closed(b)
          BY <4>4 DEF Text, Source, FinalsAreClosed
        <4>6. QED
          BY <4>4, <4>5, ClosedStays
      <3>3. QED
        BY <3>1, <3>2
    <2>3. QED
      BY <2>1, <2>2 DEF FinalsAreClosed
  <1>3. QED
    BY <1>1, <1>2

(* Where a session goes only changes with history. *)
LEMMA GoesToStays ==
    ASSUME Undisturbed, NEW t \in Tabs, session[t] # None, session'[t] # None,
           Alike(session'[t], session[t]), UNCHANGED history
    PROVE  /\ \A i : Target(i)' <=> Target(i)
           /\ \A p : GoesTo(t, p)' <=> GoesTo(t, p)
  <1>1. \A u \in Tabs : u = t
    BY DEF Undisturbed, SoleTab
  <1>2. \A i : NewestTarget(history', session'[t], i) <=> NewestTarget(history, session[t], i)
    BY DEF NewestTarget, ShouldMerge, Alike
  <1>3. \A i : Target(i)' <=> Target(i)
    BY <1>1, <1>2 DEF Target
  <1>4. PathOf(session'[t]) = PathOf(session[t])
    BY DEF PathOf, Alike
  <1>5. QED
    BY <1>3, <1>4 DEF GoesTo

LEMMA GoesOnce ==
    ASSUME TypeOK, SoleTab, NEW t \in Tabs, NEW p, NEW q, GoesTo(t, p), GoesTo(t, q)
    PROVE  p = q
  BY OneTarget DEF GoesTo

LEMMA HistoryStays ==
    ASSUME Delivers, TypeOK, [Next]_vars, \A t \in Tabs : ~Commits(t)
    PROVE  UNCHANGED history
  BY HistoryWriters DEF Delivers, DeleteMeeting, Commits

(* A save builds the meeting a finalization would build now. *)
LEMMA ResolvePlaces ==
    ASSUME Undisturbed, Ground, AllAlike, Files, NEW t \in Tabs, SaveResolve(t)
    PROVE  LET m == saves'[t].m
           IN  /\ GoesTo(t, PathOf(m))
               /\ Merged(m) \/ \A i : ~Target(i)
               /\ Len(m.visits) > 0 /\ m.visits[Len(m.visits)].startedAt = session[t].startedAt
               /\ UNCHANGED <<session, history>>
               /\ session[t] # None
  <1> DEFINE s == saves[t].s
             x == SessionToMeeting(s, 0, clock)
             y == VisitOf(s)
             m == saves'[t].m
  <1>0. /\ TypeOK /\ SoleTab /\ SteadySettings /\ saves[t] \in Save /\ saves \in [Tabs -> Save]
        /\ clock \in Nat /\ \A u \in Tabs : u = t
    BY DEF Ground, Undisturbed, SoleTab, TypeOK
  <1>1. /\ session[t] # None /\ s \in Session /\ Alike(s, session[t])
        /\ UNCHANGED <<session, history>>
    BY DEF SaveResolve, Ground, RecordInv, SavesInMeeting, AllAlike, SavesAlike, store
  <1>2. /\ x \in Meeting /\ y \in Visit /\ x.visits = <<y>> /\ y.startedAt = session[t].startedAt
        /\ PathOf(x) = PathOf(session[t])
    <2>1. x \in Meeting
      BY <1>0, <1>1, BuildType
    <2>2. QED
      BY <1>1, <2>1 DEF SessionToMeeting, VisitOf, Visit, Session, Alike, PathOf
  <1>3. \A i \in DOMAIN history : NewestTarget(history, x, i) <=> NewestTarget(history, session[t], i)
    BY <1>1 DEF NewestTarget, ShouldMerge, Alike, SessionToMeeting
  <1>4. ASSUME TRUE \in MergeModes, NEW i \in DOMAIN history, NewestTarget(history, x, i),
               saves' = [saves EXCEPT ![t].pc = "written", ![t].m = MergeMeetings(history[i], x)]
        PROVE  /\ GoesTo(t, PathOf(m)) /\ Merged(m)
               /\ Len(m.visits) > 0 /\ m.visits[Len(m.visits)].startedAt = session[t].startedAt
    <2> DEFINE a == history[i]
               n == Len(a.visits)
    <2>1. m = MergeMeetings(a, x)
      BY <1>0, <1>4 DEF Save
    <2>2. a \in Meeting /\ a.visits \in Seq(Visit) /\ n > 0
      BY RowText DEF Ground, Rowed
    <2>3. /\ PathOf(m) = PathOf(a) /\ n \in Nat /\ Len(m.visits) = n + 1
          /\ m.visits[n + 1] = y
      BY <1>2, <2>1, <2>2, MergeShape
    <2>4. Target(i)
      BY <1>1, <1>3, <1>4 DEF Target
    <2>5. GoesTo(t, PathOf(m))
      BY <2>3, <2>4 DEF GoesTo
    <2> HIDE DEF n, m
    <2>6. QED
      BY <1>2, <2>2, <2>3, <2>5 DEF Merged
  <1>5. ASSUME FALSE \in MergeModes \/ ~Mergeable(history, x),
               saves' = [saves EXCEPT ![t].pc = "written", ![t].m = x]
        PROVE  /\ GoesTo(t, PathOf(m)) /\ \A i : ~Target(i)
               /\ Len(m.visits) > 0 /\ m.visits[Len(m.visits)].startedAt = session[t].startedAt
    <2>1. m = x
      BY <1>0, <1>5 DEF Save
    <2>2. ASSUME NEW i, Target(i) PROVE FALSE
      <3>1. TRUE \in MergeModes /\ i \in DOMAIN history /\ NewestTarget(history, session[t], i)
        BY <1>0, <2>2 DEF Target, NewestTarget
      <3>2. FALSE \notin MergeModes
        BY <1>0, <3>1 DEF SteadySettings
      <3>3. Mergeable(history, x)
        BY <1>3, <3>1 DEF Mergeable, NewestTarget
      <3>4. QED
        BY <1>5, <3>2, <3>3
    <2>3. Len(m.visits) = 1 /\ m.visits[1] = y
      BY <1>2, <2>1
    <2>4. GoesTo(t, PathOf(m))
      BY <1>2, <2>1, <2>2 DEF GoesTo
    <2> HIDE DEF m, y
    <2>5. QED
      BY <1>2, <2>2, <2>3, <2>4
  <1>6. QED
    BY <1>1, <1>4, <1>5 DEF SaveResolve

LEMMA SavesPlacedStep ==
    ASSUME Undisturbed, Delivers, Ground, OneTask, AllAlike, Files, SavesPlaced, [Next]_vars
    PROVE  SavesPlaced'
  <1> SUFFICES ASSUME NEW t \in Tabs, saves'[t].pc \in {"written", "download", "record"},
                      NEW m, m = saves'[t].m
               PROVE  /\ GoesTo(t, PathOf(m))'
                      /\ Merged(m) \/ \A i : ~Target(i)'
                      /\ Len(m.visits) > 0
                      /\ m.visits[Len(m.visits)].startedAt = session'[t].startedAt
    BY DEF SavesPlaced
  <1>0. TypeOK /\ saves \in [Tabs -> Save] /\ saves[t] \in Save
    BY DEF Ground, TypeOK
  <1>1. CASE SaveResolve(t)
    <2>1. Alike(session'[t], session[t]) /\ session[t] # None /\ UNCHANGED <<session, history>>
      BY <1>1, ResolvePlaces DEF Alike
    <2>2. /\ \A i : Target(i)' <=> Target(i)
          /\ \A p : GoesTo(t, p)' <=> GoesTo(t, p)
      BY <2>1, GoesToStays
    <2>3. QED
      BY <1>1, <2>1, <2>2, ResolvePlaces
  <1>2. CASE ~SaveResolve(t)
    <2>1. /\ saves[t].pc \in {"written", "download", "record"}
          /\ saves'[t].m = saves[t].m
      <3>1. ~SaveStart(t)
        BY <1>0 DEF SaveStart, NoSave
      <3>2. CASE SaveReadWritten(t) \/ SaveDownload(t)
        BY <1>0, <3>2 DEF SaveReadWritten, SaveDownload, Save
      <3>3. QED
        BY <1>2, <3>1, <3>2, SaveMoves
    <2>2. session[t] # None /\ fin[t].pc = "idle"
      BY <2>1 DEF Ground, RecordInv, SavesInMeeting, Awaited, AwaitedOf
    <2>3. \A u \in Tabs : ~Commits(u)
      BY <2>1, CommitMakes DEF Undisturbed, SoleTab
    <2>4. session'[t] # None /\ Alike(session'[t], session[t])
      BY <2>2, SessionGrowsAlike DEF AllAlike
    <2>5. UNCHANGED history
      BY <1>0, <2>3, HistoryStays
    <2>6. /\ \A i : Target(i)' <=> Target(i)
          /\ \A p : GoesTo(t, p)' <=> GoesTo(t, p)
      BY <2>2, <2>4, <2>5, GoesToStays
    <2>7. QED
      BY <2>1, <2>4, <2>6 DEF SavesPlaced, Alike
  <1>3. QED
    BY <1>1, <1>2

(* What replaces the first copy of a path, or writes where there is none, leaves the   *)
(* other copies alone.                                                         *)
LEMMA PutFirst ==
    ASSUME NEW d, DiskOK(d), NEW q \in Path, NEW over, NEW body \in Body,
           over \/ q \notin DOMAIN d \/ 1 \notin DOMAIN d[q]
    PROVE  LET n == Put(d, q, over, body)
           IN  \A k \in DOMAIN n[q] :
                  IF k = 1 THEN n[q][k] = body
                           ELSE q \in DOMAIN d /\ k \in DOMAIN d[q] /\ n[q][k] = d[q][k]
  <1> DEFINE files == FilesAt(d, q)
             n     == Put(d, q, over, body)
             more  == over /\ files # << >>
  <1>1. files \in Seq(Body) /\ q \in DOMAIN n
    BY DEF FilesAt, DiskOK, Put
  <1>2. /\ more => n[q] = [files EXCEPT ![1] = body]
        /\ ~more => n[q] = Append(files, body)
    BY DEF Put
  <1>3. /\ q \in DOMAIN d => files = d[q]
        /\ q \notin DOMAIN d => files = << >>
    BY DEF FilesAt
  <1>4. 1 \notin DOMAIN files => files = << >>
    <2> HIDE DEF files
    <2>1. QED
      BY <1>1
  <1>5. CASE more
    <2> HIDE DEF files
    <2>1. 1 \in DOMAIN files
      BY <1>4, <1>5
    <2>2. /\ DOMAIN [files EXCEPT ![1] = body] = DOMAIN files
          /\ \A k \in DOMAIN files : [files EXCEPT ![1] = body][k] = IF k = 1 THEN body ELSE files[k]
      OBVIOUS
    <2> HIDE DEF n
    <2>3. n[q][1] = body /\ \A k \in DOMAIN n[q] : k # 1 => k \in DOMAIN files /\ n[q][k] = files[k]
      BY <1>2, <1>5, <2>1, <2>2
    <2>4. q \in DOMAIN d
      BY <1>3, <1>5
    <2>5. QED
      BY <1>3, <2>3, <2>4 DEF n
  <1>6. CASE ~more
    <2>1. files = << >>
      BY <1>3, <1>4, <1>6
    <2>2. n[q] = <<body>>
      BY <1>2, <1>6, <2>1
    <2>3. QED
      BY <2>2
  <1>7. QED
    BY <1>5, <1>6

(* The claim of a session on its file lasts until it is committed. *)
LEMMA ClaimsStay ==
    ASSUME Undisturbed, Ground, SavesPlaced, [Next]_vars, NEW t \in Tabs, NEW p,
           session[t] # None, session'[t] # None, Alike(session'[t], session[t]),
           fin[t].pc # "remove", UNCHANGED history, GoesTo(t, p), Claims(t, p)
    PROVE  Claims(t, p)'
  <1>0. TypeOK /\ SoleTab /\ saves \in [Tabs -> Save] /\ saves[t] \in Save
    BY DEF Ground, TypeOK, Undisturbed
  <1>1. CASE \E i : Target(i)
    BY <1>1, GoesToStays DEF Claims
  <1>2. SaveRecord(t) => written'[t] = p
    <2> SUFFICES ASSUME SaveRecord(t) PROVE written'[t] = p
      OBVIOUS
    <2>1. GoesTo(t, PathOf(saves[t].m))
      BY DEF SaveRecord, SavesPlaced
    <2>2. p = PathOf(saves[t].m)
      BY <1>0, <2>1, GoesOnce
    <2>3. QED
      BY <1>0, <2>2 DEF SaveRecord, TypeOK
  <1>3. CASE written[t] = p
    BY <1>2, <1>3, WrittenMoves DEF Claims, FinRemove
  <1>4. CASE saves[t].pc = "record" /\ PathOf(saves[t].m) = p
    BY <1>2, <1>4, SaveMoves
       DEF Claims, SaveStart, SaveResolve, SaveReadWritten, SaveDownload, SaveFail
  <1>5. QED
    BY <1>1, <1>3, <1>4 DEF Claims

(* The commit of a session that is in a partial file makes the meeting that replaces it. *)
LEMMA CommitReplaces ==
    ASSUME Undisturbed, Ground, OneTask, AllAlike, Files, NEW t \in Tabs, Commits(t),
           NEW p, GoesTo(t, p), Claims(t, p), ~Empty(session[t])
    PROVE  Holding(t)' /\ Replaces(fin'[t].m, fin'[t].w, p, session[t].startedAt)
  <1> DEFINE x == fin[t].m
             m == fin'[t].m
             y == VisitOf(session[t])
  <1>0. /\ TypeOK /\ SoleTab /\ fin[t] \in Fin /\ fin \in [Tabs -> Fin]
    BY DEF Ground, Undisturbed, TypeOK
  <1>1. /\ session[t] # None /\ saves[t].pc = "idle"
        /\ x \in Meeting /\ x.visits = <<y>> /\ Alike(x, session[t]) /\ y \in Visit
    BY CommitMakes
  <1>2. session[t] \in Session
    BY <1>0, <1>1 DEF TypeOK
  <1>3. y.startedAt = session[t].startedAt /\ y.words = session[t].words /\ y.words > 0
    BY <1>2 DEF VisitOf, Empty, Session
  <1>4. fin'[t].w = fin[t].w /\ fin[t].w = written[t]
    <2>1. fin'[t].w = fin[t].w
      BY <1>0 DEF Commits, FinAppendFailure, FinCommit, Fin
    <2>2. Building(t)
      BY DEF Commits, FinAppendFailure, FinCommit, Building
    <2>3. QED
      BY <2>1, <2>2 DEF AllAlike, BuildingAlike
  <1>5. /\ fin'[t].pc = "mark"
        /\ \/ m = x /\ \A i : ~Target(i)
           \/ \E i \in DOMAIN history : Target(i) /\ m = MergeMeetings(history[i], x)
    <2>1. /\ fin'[t].pc = "remove" => Empty(session[t])
          /\ fin'[t].pc \in {"mark", "remove"}
          /\ \/ m = x /\ (fin'[t].pc = "mark" => \A i : ~Target(i))
             \/ \E i \in DOMAIN history : Target(i) /\ m = MergeMeetings(history[i], x)
      BY <1>0, CommitMakes, CommitEffect DEF Commits
    <2>2. QED
      BY <2>1
  <1>6. ASSUME m = x, \A i : ~Target(i)
        PROVE  m # None /\ Replaces(m, fin'[t].w, p, session[t].startedAt)
    <2>1. PathOf(m) = p
      BY <1>1, <1>6 DEF GoesTo, PathOf, Alike
    <2>2. written[t] = p
      BY <1>1, <1>6 DEF Claims
    <2>3. DOMAIN m.visits = {1} /\ m.visits[1] = y
      BY <1>1, <1>6
    <2> HIDE DEF m, x, y
    <2>4. Holds(m, session[t].startedAt, 0) /\ ~Failure(m)
      BY <1>1, <1>3, <2>3 DEF Holds, Failure, Visit
    <2>5. QED
      BY <1>1, <1>4, <1>6, <2>1, <2>2, <2>4, NoneAssumption DEF Replaces, Overwrites
  <1>7. ASSUME NEW i \in DOMAIN history, Target(i), m = MergeMeetings(history[i], x)
        PROVE  m # None /\ Replaces(m, fin'[t].w, p, session[t].startedAt)
    <2> DEFINE a == history[i]
               n == Len(a.visits)
    <2>1. a \in Meeting /\ a.visits \in Seq(Visit) /\ n > 0
      BY RowText DEF Ground, Rowed
    <2>2. /\ m \in Meeting /\ PathOf(m) = PathOf(a) /\ n \in Nat /\ Len(m.visits) = n + 1
          /\ DOMAIN m.visits = 1 .. n + 1 /\ m.visits[n + 1] = y
      BY <1>1, <1>7, <2>1, MergeShape
    <2>3. PathOf(a) = p
      BY <1>0, <1>7, GoesOnce DEF GoesTo
    <2> HIDE DEF m, n, y
    <2>4. n + 1 \in DOMAIN m.visits /\ n + 1 > 1
      BY <2>1, <2>2
    <2>5. y.startedAt = session[t].startedAt /\ y.words > 0 /\ y.words \in Nat
      BY <1>1, <1>3 DEF Visit
    <2>6. Holds(m, session[t].startedAt, 0)
      <3>1. m.visits[n + 1].startedAt = session[t].startedAt /\ m.visits[n + 1].words >= 0
        BY <2>2, <2>5
      <3>2. QED
        BY <2>4, <3>1 DEF Holds
    <2>7. ~Failure(m)
      <3>1. m.visits[n + 1].words # 0
        BY <2>2, <2>5
      <3>2. QED
        BY <2>4, <3>1 DEF Failure
    <2>8. Merged(m)
      BY <2>2, <2>4 DEF Merged
    <2>9. QED
      BY <2>2, <2>3, <2>6, <2>7, <2>8, NoneAssumption DEF Replaces, Overwrites
  <1>8. QED
    BY <1>5, <1>6, <1>7 DEF Holding

LEMMA UnfinishedStep ==
    ASSUME Undisturbed, Delivers, Ground, OneTask, AllAlike, Files, SavesPlaced, [Next]_vars,
           NEW p \in Path, NEW b \in Seq(Visit), Text(p, b), NEW v, v = b[Len(b)].startedAt,
           Unfinished(p, v)
    PROVE  Unfinished(p, v)' \/ Replacing(p, v)'
  <1>0. TypeOK /\ SoleTab
    BY DEF Ground, Undisturbed
  <1>1. PICK t \in Tabs : /\ session[t] # None /\ session[t].startedAt = v
                          /\ fin[t].pc \notin {"mark", "remove"}
                          /\ GoesTo(t, p) /\ Claims(t, p)
    BY DEF Unfinished
  <1>2. Len(b) \in DOMAIN b /\ Live(v) /\ Ahead(b)
    <2>1. Headed(p, b) /\ Ahead(b)
      BY DEF Files
    <2>2. QED
      BY <1>1, <2>1 DEF Headed, Live
  <1>3. Latest(t) > 0 /\ Latest(t) \in Nat
    <2>1. b[Len(b)].words > 0 /\ b[Len(b)].words <= Latest(t) /\ b[Len(b)].words \in Nat
      BY <1>2, LiveSession, VisitAt
    <2>2. Latest(t) \in Nat
      BY <1>1, LatestType DEF AllAlike
    <2> DEFINE n == Latest(t)
               w == b[Len(b)].words
    <2> HIDE DEF n, w
    <2>3. w > 0 /\ w <= n /\ w \in Nat /\ n \in Nat
      BY <2>1, <2>2 DEF n, w
    <2>4. n > 0
      BY <2>3
    <2>5. QED
      BY <2>2, <2>4 DEF n
  <1>4. CASE Commits(t)
    <2>1. Latest(t) = session[t].words
      BY <1>4, CommitMakes
    <2>2. ~Empty(session[t])
      BY <1>3, <2>1 DEF Empty
    <2>3. Holding(t)' /\ Replaces(fin'[t].m, fin'[t].w, p, v)
      BY <1>1, <1>4, <2>2, CommitReplaces
    <2>4. QED
      BY <2>3 DEF Replacing
  <1>5. CASE ~Commits(t)
    <2>1. /\ session'[t] # None /\ Alike(session'[t], session[t])
          /\ fin'[t].pc \notin {"mark", "remove"}
      BY <1>1, <1>3, <1>5, LiveStays
    <2>2. UNCHANGED history
      BY <1>0, <1>5, HistoryStays DEF SoleTab
    <2>3. GoesTo(t, p)' /\ Claims(t, p)'
      BY <1>1, <2>1, <2>2, GoesToStays, ClaimsStay
    <2>4. QED
      BY <1>1, <2>1, <2>3 DEF Unfinished, Alike
  <1>6. QED
    BY <1>4, <1>5

(* A meeting in the hands of its finalization stays there until it is delivered. *)
LEMMA HoldingGoesOn ==
    ASSUME Undisturbed, Ground, [Next]_vars, NEW t \in Tabs, Holding(t), ~FinUntrack(t)
    PROVE  Holding(t)' /\ fin'[t].m = fin[t].m /\ fin'[t].w = fin[t].w
  <1> USE DEF store, worker, ghosts
  <1>0. TypeOK /\ SoleTab /\ fin \in [Tabs -> Fin] /\ fin[t] \in Fin
    BY DEF Ground, Undisturbed, TypeOK
  <1>1. CASE UNCHANGED fin
    BY <1>1 DEF Holding
  <1>2. CASE fin' = [fin EXCEPT ![t] = Unheard(@)]
    BY <1>0, <1>2 DEF Unheard, Fin, Holding
  <1>3. CASE Finalization(t)
    <2>1. FinMark(t) \/ FinRemove(t)
      BY <1>3 DEF Finalization, Holding, FinReadSession, FinReadWritten, FinAppendFailure, FinCommit
    <2>2. fin'[t].pc \in {"remove", "untrack"} /\ fin'[t].m = fin[t].m /\ fin'[t].w = fin[t].w
      BY <1>0, <2>1 DEF FinMark, FinRemove, Fin
    <2>3. QED
      BY <2>2 DEF Holding
  <1>4. Page(t) \/ MeetingEnded(t) => UNCHANGED fin \/ fin' = [fin EXCEPT ![t] = Unheard(@)]
    BY DEF Holding, Page, ReadPrevious, LeaveLobby, Join, Capture, Attend, SetPrivate, Wipe,
           WriteSession, EndMeeting, RelaySession, Reload, CloseTab, MeetingEnded
  <1>5. SaveStart(t) \/ Saving(t) \/ SaveFail(t) => UNCHANGED fin
    BY DEF SaveStart, Saving, SaveResolve, SaveReadWritten, SaveDownload, SaveRecord, SaveFail
  <1>6. \A d \in dels : Deliver(d) \/ DeliverFail(d) => UNCHANGED fin
    BY DEF Deliver, DeliverFile, DeliverClear, DeliverFail
  <1>7. Recovery \/ RecFail => UNCHANGED fin
    BY <1>0 DEF Holding, Recovery, RecReadKeys, RecScan, RecScanned, RecDeliver, RecListPending,
           RecNext, RecSave, RecClear, RecDone, RecFail, SoleTab
  <1>8. \A i \in DOMAIN history : DeleteMeeting(i) => UNCHANGED fin
    BY DEF DeleteMeeting
  <1>9. QED
    BY <1>0, <1>1, <1>2, <1>3, <1>4, <1>5, <1>6, <1>7, <1>8, NoMishap
       DEF Next, Failures, vars, SoleTab

(* What the finalization returns is delivered. *)
LEMMA UntrackDelivers ==
    ASSUME Undisturbed, Ground, OneTask, NEW t \in Tabs, FinUntrack(t), Holding(t), ~Failure(fin[t].m)
    PROVE  \E d \in dels' : d.pc = "download" /\ d.m = fin[t].m /\ d.w = fin[t].w
  <1>1. fin[t].pc = "untrack" /\ fin[t].m # None /\ fin[t].who # "recovery"
    BY DEF Holding, FinUntrack, OneTask, RecoveryFindsNone
  <1> DEFINE d == [tab |-> t, who |-> fin[t].who, m |-> fin[t].m, w |-> fin[t].w, pc |-> "download"]
  <1>2. d \in dels'
    BY <1>1 DEF FinUntrack
  <1>3. d.pc = "download" /\ d.m = fin[t].m /\ d.w = fin[t].w
    OBVIOUS
  <1> HIDE DEF d
  <1>4. QED
    BY <1>2, <1>3

(* A delivery still to be written stays so until it is. *)
LEMMA DownloadGoesOn ==
    ASSUME Undisturbed, Delivers, Ground, OneTask, [Next]_vars, NEW d \in dels, d.pc = "download",
           ~DeliverFile(d)
    PROVE  \E e \in dels' : e.pc = "download" /\ e.m = d.m /\ e.w = d.w
  <1> USE DEF store, worker, ghosts
  <1>0. TypeOK /\ SoleTab /\ d \in Delivery
    BY DEF Ground, Undisturbed, TypeOK
  <1>1. CASE dels \subseteq dels'
    BY <1>1
  <1>2. ASSUME NEW t \in Tabs, Deafen(t) PROVE \E e \in dels' : e.pc = "download" /\ e.m = d.m /\ e.w = d.w
    <2>1. (IF d.tab = t THEN Unheard(d) ELSE d) \in dels'
      BY <1>2 DEF Deafen
    <2>2. Unheard(d).pc = d.pc /\ Unheard(d).m = d.m /\ Unheard(d).w = d.w
      BY <1>0 DEF Unheard, Delivery
    <2>3. QED
      BY <2>1, <2>2
  <1>3. \A t \in Tabs : Page(t) \/ MeetingEnded(t) => Deafen(t) \/ UNCHANGED dels
    <2> SUFFICES ASSUME NEW t \in Tabs, Page(t) \/ MeetingEnded(t)
                 PROVE  Deafen(t) \/ UNCHANGED dels
      OBVIOUS
    <2>1. CASE Reload(t) \/ CloseTab(t) \/ MeetingEnded(t)
      BY <2>1 DEF Reload, CloseTab, MeetingEnded
    <2>2. CASE WriteSession(t) \/ EndMeeting(t) \/ RelaySession(t) \/ LeaveLobby(t)
      BY <2>2 DEF WriteSession, EndMeeting, RelaySession, LeaveLobby
    <2>3. CASE ~(\/ Reload(t) \/ CloseTab(t) \/ MeetingEnded(t)
                 \/ WriteSession(t) \/ EndMeeting(t) \/ RelaySession(t) \/ LeaveLobby(t))
      BY <2>3 DEF Page, ReadPrevious, Join, Capture, Attend, SetPrivate, Wipe
    <2>4. QED
      BY <2>1, <2>2, <2>3
  <1>4. \A t \in Tabs : Finalization(t) => dels \subseteq dels'
    <2> SUFFICES ASSUME NEW t \in Tabs, Finalization(t) PROVE dels \subseteq dels'
      OBVIOUS
    <2>1. CASE FinUntrack(t)
      BY <2>1 DEF FinUntrack
    <2>2. CASE ~FinUntrack(t)
      BY <2>2 DEF Finalization, FinReadSession, FinReadWritten, FinAppendFailure, FinCommit, FinMark,
                  FinRemove
    <2>3. QED
      BY <2>1, <2>2
  <1>5. \A t \in Tabs : SaveStart(t) \/ Saving(t) \/ SaveFail(t) => UNCHANGED dels
    BY DEF SaveStart, Saving, SaveResolve, SaveReadWritten, SaveDownload, SaveRecord, SaveFail
  <1>6. \A e \in dels : ~Deliver(e) /\ ~DeliverFail(e)
    <2>1. \A e \in dels : e = d
      BY <1>0 DEF OneTask, DeliveryAlone, Delivery
    <2>2. QED
      BY <2>1 DEF Deliver, DeliverClear, DeliverFail, Delivers
  <1>7. Recovery \/ RecFail => UNCHANGED dels
    BY DEF Recovery, RecReadKeys, RecScan, RecScanned, RecDeliver, RecListPending,
           RecNext, RecSave, RecClear, RecDone, RecFail
  <1>8. \A i \in DOMAIN history : DeleteMeeting(i) => UNCHANGED dels
    BY DEF DeleteMeeting
  <1>9. QED
    BY <1>0, <1>1, <1>2, <1>3, <1>4, <1>5, <1>6, <1>7, <1>8, NoMishap DEF Next, Failures, vars

LEMMA ReplacingStep ==
    ASSUME Undisturbed, Delivers, Ground, OneTask, [Next]_vars, NEW p, NEW v, Replacing(p, v)
    PROVE  \/ Replacing(p, v)'
           \/ \E d \in dels : DeliverFile(d) /\ PathOf(d.m) = p /\ Overwrites(d.m, d.w)
  <1>1. ASSUME NEW t \in Tabs, Holding(t), Replaces(fin[t].m, fin[t].w, p, v)
        PROVE  Replacing(p, v)'
    <2>1. CASE FinUntrack(t)
      <3>1. PICK d \in dels' : d.pc = "download" /\ d.m = fin[t].m /\ d.w = fin[t].w
        BY <1>1, <2>1, UntrackDelivers DEF Replaces
      <3>2. QED
        BY <1>1, <3>1 DEF Replacing
    <2>2. CASE ~FinUntrack(t)
      <3>1. Holding(t)' /\ fin'[t].m = fin[t].m /\ fin'[t].w = fin[t].w
        BY <1>1, <2>2, HoldingGoesOn
      <3>2. QED
        BY <1>1, <3>1 DEF Replacing
    <2>3. QED
      BY <2>1, <2>2
  <1>2. ASSUME NEW d \in dels, d.pc = "download", Replaces(d.m, d.w, p, v), ~DeliverFile(d)
        PROVE  Replacing(p, v)'
    <2>1. PICK e \in dels' : e.pc = "download" /\ e.m = d.m /\ e.w = d.w
      BY <1>2, DownloadGoesOn
    <2>2. QED
      BY <1>2, <2>1 DEF Replacing
  <1>3. QED
    BY <1>1, <1>2 DEF Replacing, Replaces

(* A save writes where it belongs: over the file its session claimed, or the first one. *)
LEMMA SaveIsFirst ==
    ASSUME Undisturbed, Ground, OneTask, AllAlike, Files, Partials, NEW t \in Tabs, SaveDownload(t)
    PROVE  LET p == PathOf(saves[t].m)
           IN  Overwrites(saves[t].m, saves[t].w) \/ p \notin DOMAIN disk \/ 1 \notin DOMAIN disk[p]
  <1> DEFINE p == PathOf(saves[t].m)
             b == disk[p][1].visits
  <1> SUFFICES ASSUME ~Overwrites(saves[t].m, saves[t].w), p \in DOMAIN disk, 1 \in DOMAIN disk[p]
               PROVE  FALSE
    OBVIOUS
  <1>0. TypeOK /\ SoleTab /\ DiskOK(disk) /\ Minute = 1 /\ \A u \in Tabs : u = t
    BY DEF Ground, Undisturbed, TypeOK, DiskOK, SoleTab
  <1>1. saves[t].pc = "download" /\ saves[t].w = written[t]
    BY DEF SaveDownload, AllAlike, SavesAlike
  <1>2. /\ session[t] \in Session /\ session[t] # None /\ fin[t].pc = "idle" /\ dels = {}
    <2>1. content[t].pc = "in" /\ session[t] # None
      BY <1>1 DEF Ground, RecordInv, SavesInMeeting
    <2>2. fin[t].pc = "idle"
      BY <2>1 DEF Ground, Awaited, AwaitedOf
    <2>3. QED
      BY <1>0, <1>1, <2>1, <2>2 DEF OneTask, DeliveryAlone, AllAlike, SavesAlike, TypeOK
  <1>3. (\A i : ~Target(i)) /\ p = PathOf(session[t])
    BY <1>1 DEF Partials, SavesPlaced, Overwrites, GoesTo
  <1>4. p \in Path /\ b \in Seq(Visit) /\ Text(p, b)
    BY <1>0, FileType DEF Text
  <1>5. 1 \in DOMAIN b /\ b[1].startedAt = p.minute
    BY <1>4 DEF Files, Headed
  <1>6. p.minute = session[t].startedAt
    BY <1>0, <1>2, <1>3 DEF PathOf, Session
  <1>7. Live(b[1].startedAt)
    BY <1>2, <1>5, <1>6 DEF Live
  <1>8. ~disk[p][1].final
    BY <1>5, <1>7 DEF Partials, FinalsAreClosed, Closed
  <1>9. PICK v : Unfinished(p, v) \/ Replacing(p, v)
    BY <1>8 DEF Partials, PartialsTaken
  <1>10. ~Replacing(p, v)
    BY <1>0, <1>2 DEF Replacing, Holding
  <1>11. Claims(t, p)
    BY <1>0, <1>9, <1>10 DEF Unfinished
  <1>12. written[t] = p
    BY <1>1, <1>3, <1>11 DEF Claims
  <1>13. QED
    BY <1>1, <1>12 DEF Overwrites

LEMMA PartialsTakenStep ==
    ASSUME Undisturbed, Delivers, Ground, OneTask, AllAlike, Files, Partials, [Next]_vars
    PROVE  PartialsTaken'
  <1> SUFFICES ASSUME NEW p \in DOMAIN disk', NEW k \in DOMAIN disk'[p], ~disk'[p][k].final,
                      NEW b, b = disk'[p][k].visits, NEW v, v = b[Len(b)].startedAt
               PROVE  k = 1 /\ (Unfinished(p, v)' \/ Replacing(p, v)')
    BY DEF PartialsTaken
  <1>0. /\ TypeOK /\ SoleTab /\ DiskOK(disk) /\ FinalsAreClosed /\ SavesPlaced /\ PartialsTaken
    BY DEF Ground, Undisturbed, TypeOK, DiskOK, Partials
  <1>1. CASE p \in DOMAIN disk /\ k \in DOMAIN disk[p] /\ disk'[p][k] = disk[p][k]
    <2>1. k = 1 /\ (Unfinished(p, v) \/ Replacing(p, v))
      BY <1>0, <1>1 DEF PartialsTaken
    <2>2. p \in Path /\ b \in Seq(Visit) /\ Text(p, b)
      BY <1>0, <1>1, FileType DEF Text
    <2>3. CASE Unfinished(p, v)
      BY <1>0, <2>1, <2>2, <2>3, UnfinishedStep
    <2>4. CASE Replacing(p, v)
      <3>1. ASSUME NEW d \in dels, DeliverFile(d), PathOf(d.m) = p, Overwrites(d.m, d.w) PROVE FALSE
        <4>1. /\ disk' = Put(disk, p, Overwrites(d.m, d.w), FinalBody(d.m))
              /\ FinalBody(d.m) \in Body /\ FinalBody(d.m).final
          BY <1>0, <3>1, BodyType DEF DeliverFile, Download, TypeOK, Delivery, FinalBody
        <4>2. /\ DiskOK(disk) /\ p \in Path
              /\ Overwrites(d.m, d.w) \/ p \notin DOMAIN disk \/ 1 \notin DOMAIN disk[p]
          BY <1>0, <2>2, <3>1
        <4>3. disk'[p][k] = FinalBody(d.m)
          BY <2>1, <4>1, <4>2, PutFirst
        <4>4. QED
          BY <2>1, <4>1, <4>3
      <3>2. QED
        BY <2>1, <2>4, <3>1, ReplacingStep
    <2>5. QED
      BY <2>1, <2>3, <2>4
  <1>2. CASE ~(p \in DOMAIN disk /\ k \in DOMAIN disk[p] /\ disk'[p][k] = disk[p][k])
    <2>1. disk' # disk
      BY <1>2
    <2>2. PICK m \in Meeting, body \in Body, over \in BOOLEAN :
            /\ disk' = Put(disk, PathOf(m), over, body)
            /\ ~body.final => \E t \in Tabs : SaveDownload(t)
      BY <2>1, Written
    <2>3. disk'[p][k] = body
      BY <1>0, <1>2, <2>2, PutEffect, PathType
    <2>4. PICK t \in Tabs : SaveDownload(t)
      BY <2>2, <2>3
    <2> DEFINE n == saves[t].m
    <2>5. /\ n \in Meeting /\ PartialBody(n) \in Body /\ PathOf(n) \in Path
          /\ saves[t].pc = "download" /\ saves[t] \in Save /\ saves \in [Tabs -> Save]
      BY <1>0, <2>4, NoneAssumption, BodyType, PathType DEF TypeOK, Save, SaveDownload
    <2>6. /\ disk' = Put(disk, PathOf(n), Overwrites(n, saves[t].w), PartialBody(n))
          /\ saves'[t].pc = "record" /\ saves'[t].m = n
          /\ UNCHANGED <<session, history, fin>>
      BY <2>4, <2>5 DEF SaveDownload, Save, store
    <2>7. p = PathOf(n) /\ disk'[p][k] = PartialBody(n)
      BY <1>0, <1>2, <2>5, <2>6, PutEffect
    <2>8. k = 1
      BY <1>0, <1>2, <2>4, <2>5, <2>6, <2>7, PutFirst, SaveIsFirst
    <2>9. /\ GoesTo(t, p) /\ v = session[t].startedAt
          /\ session[t] # None /\ fin[t].pc = "idle"
      <3>1. GoesTo(t, p) /\ n.visits[Len(n.visits)].startedAt = session[t].startedAt
        BY <1>0, <2>5, <2>7 DEF SavesPlaced
      <3>2. b = n.visits
        BY <2>7 DEF PartialBody
      <3>3. session[t] # None /\ content[t].pc = "in"
        BY <2>5 DEF Ground, RecordInv, SavesInMeeting
      <3>4. fin[t].pc = "idle"
        BY <3>3 DEF Ground, Awaited, AwaitedOf
      <3>5. QED
        BY <3>1, <3>2, <3>3, <3>4
    <2>10. GoesTo(t, p)'
      BY <2>6, <2>9, GoesToStays DEF Alike
    <2>11. Claims(t, p)'
      BY <2>6, <2>7 DEF Claims
    <2>12. Unfinished(p, v)'
      BY <2>6, <2>9, <2>10, <2>11 DEF Unfinished
    <2>13. QED
      BY <2>8, <2>12
  <1>3. QED
    BY <1>1, <1>2

LEMMA PartialsHold ==
    ASSUME Undisturbed, Delivers
    PROVE  Spec => []Partials
  <1>1. Init => Partials
    BY DEF Init, Partials, FinalsAreClosed, SavesPlaced, PartialsTaken, Outgoing, Holding, NoSave,
           NoFin, NewRec, NoRec
  <1>2. Ground /\ OneTask /\ AllAlike /\ Files /\ Partials /\ [Next]_vars => Partials'
    BY FinalsAreClosedStep, SavesPlacedStep, PartialsTakenStep DEF Partials
  <1>3. QED
    BY <1>1, <1>2, GroundHolds, OneTaskHolds, AllAlikeHolds, FilesHold, PTL DEF Spec

(* Undisturbed, no partial file is left behind: until the complete transcript takes its *)
(* place, the session it is of is stored or its meeting is on its way to that very file, *)
(* provided downloads of finished meetings succeed and the user deletes none (index.ts   *)
(* snapshotNow, sessions.ts, export.ts).                                         *)
THEOREM PartialIsReplacedHolds ==
    ASSUME Undisturbed, Delivers
    PROVE  Spec => []PartialIsReplaced
  <1>1. Partials => PartialIsReplaced
    BY DEF Partials, PartialsTaken, Unfinished, Replacing, Replaces, Holding, PartialIsReplaced
  <1>2. QED
    BY <1>1, PartialsHold, PTL

===============================================================================
