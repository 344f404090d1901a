---------------------------- MODULE HistoryProofs ----------------------------
(***************************************************************************)
(* What becomes of a meeting, for any number of tabs, rooms, stops and        *)
(* failures the theorem allows: an unfinished session is overwritten only once *)
(* it is kept, its save record goes with it, it is committed once, a pending   *)
(* mark is only cleared for what was exported, what was not exported yet is    *)
(* remembered somewhere, and no file without a word is written. A theorem      *)
(* states as hypotheses which of the failures it does not survive.             *)
(***************************************************************************)
EXTENDS BackgroundProofs

-------------------------------------------------------------------------------
(*                        Answers to waiting pages                          *)

Waiting == {"ended", "evicting", "relayed"}

PageDels(t) == {d \in dels : d.who = "page" /\ d.tab = t}

(* At most one answer is owed to the page of a tab, by its finalization or by a *)
(* delivery of it, and the page does nothing but wait for it.                  *)
AnswersOf(t) ==
    /\ fin[t].pc # "idle" /\ fin[t].who = "page" =>
          /\ content[t].pc \in Waiting
          /\ PageDels(t) = {}
          /\ fin[t].pc \in {"untrack", "untrackOnly"} => session[t] = None
    /\ \A d \in PageDels(t) :
          /\ content[t].pc \in Waiting
          /\ fin[t].pc = "idle"
          /\ session[t] = None
          /\ PageDels(t) = {d}

Answers == \A t \in Tabs : AnswersOf(t)

(* A step that has nothing to do with the answer owed to u. *)
LEMMA AnswersFrame ==
    ASSUME Answers, NEW u \in Tabs,
           PageDels(u)' = PageDels(u),
           session'[u] = session[u] \/ content[u].pc \notin Waiting,
           content'[u].pc = content[u].pc \/ content[u].pc \notin Waiting,
           \/ fin'[u] = fin[u]
           \/ fin'[u].pc = "idle" 
           \/ fin'[u].who # "page" /\ PageDels(u) = {}
    PROVE  AnswersOf(u)'
  BY DEF Answers, AnswersOf

LEMMA PageKeepsAnswers ==
    ASSUME TypeOK, Answers, NEW t \in Tabs, Page(t) \/ MeetingEnded(t)
    PROVE  Answers'
  <1> USE DEF store, worker, ghosts
  <1> SUFFICES ASSUME NEW u \in Tabs PROVE AnswersOf(u)'
    BY DEF Answers
  <1>1. CASE \/ \E r \in Rooms : ReadPrevious(t, r)
             \/ LeaveLobby(t)
             \/ \E private \in Privacies, heard \in BOOLEAN : Join(t, private, heard)
             \/ \E private \in Privacies : SetPrivate(t, private)
             \/ Capture(t) \/ Attend(t) \/ Wipe(t)
             \/ WriteSession(t) \/ EndMeeting(t) \/ RelaySession(t)
    <2>1. UNCHANGED <<dels, fin>> /\ content[t].pc \notin Waiting
      BY <1>1 DEF ReadPrevious, LeaveLobby, Join, SetPrivate, Capture, Attend, Wipe, WriteSession,
         EndMeeting, RelaySession, Waiting
    <2>2. u # t => content'[u] = content[u] /\ session'[u] = session[u]
      BY <1>1 DEF ReadPrevious, LeaveLobby, Join, SetPrivate, Capture, Attend, Wipe, WriteSession,
         EndMeeting, RelaySession, TypeOK
    <2>3. QED
      BY <2>1, <2>2, AnswersFrame DEF PageDels
  <1>2. CASE Reload(t) \/ CloseTab(t)
    <2>1. Deafen(t) /\ UNCHANGED session
      BY <1>2 DEF Reload, CloseTab
    <2>3. PageDels(u)' = IF u = t THEN {} ELSE PageDels(u)
      <3>1. \A d \in dels : d.tab = t => Unheard(d).who # "page" /\ Unheard(d).tab = t
        BY DEF Unheard, TypeOK, Delivery
      <3>2. QED
        BY <2>1, <3>1 DEF PageDels, Deafen
    <2>4. CASE u # t
      <3>1. content'[u] = content[u] /\ fin'[u] = fin[u]
        BY <1>2, <2>4 DEF Reload, CloseTab, StartFinalize, TypeOK
      <3>2. QED
        BY <2>1, <2>3, <2>4, <3>1, AnswersFrame
    <2>5. CASE u = t
      <3>1. fin'[t].who # "page"
        <4>1. Unheard(fin[t]).who # "page"
          BY DEF Unheard, TypeOK, Fin
        <4>2. [NoFin EXCEPT !.pc = "session", !.who = "nobody"].who # "page"
          BY DEF NoFin
        <4>3. QED
          BY <1>2, <4>1, <4>2 DEF Reload, CloseTab, StartFinalize, TypeOK
      <3>2. QED
        BY <2>3, <2>5, <3>1 DEF AnswersOf
    <2>6. QED
      BY <2>4, <2>5
  <1>3. CASE MeetingEnded(t)
    <2>1. UNCHANGED <<session, dels>> /\ content[t].pc \in {"sealed", "stale", "relaying"}
      BY <1>3 DEF MeetingEnded
    <2>2. PageDels(u)' = PageDels(u)
      BY <2>1 DEF PageDels
    <2>3. CASE u # t
      <3>1. content'[u] = content[u] /\ fin'[u] = fin[u]
        BY <1>3, <2>3 DEF MeetingEnded, StartFinalize, TypeOK
      <3>2. QED
        BY <2>1, <2>2, <3>1, AnswersFrame
    <2>4. CASE u = t /\ fin[t].pc # "idle"
      <3>1. fin' = fin
        BY <1>3, <2>4 DEF MeetingEnded
      <3>2. QED
        BY <2>1, <2>2, <2>4, <3>1, AnswersFrame DEF Waiting
    <2>5. CASE u = t /\ fin[t].pc = "idle"
      <3>1. PageDels(t) = {}
        BY <2>1 DEF Answers, AnswersOf, Waiting
      <3>2. fin'[t].pc = "session"
        BY <1>3, <2>5, StartBegins DEF MeetingEnded, TypeOK
      <3>3. content'[t].pc \in Waiting
        <4>1. content[t] \in [pc: ContentPCs, room: Rooms \cup {None}, mem: Session \cup {None}, heard: BOOLEAN]
          BY DEF TypeOK, Content
        <4>2. QED
          BY <1>3, <2>1, <2>5, <4>1 DEF MeetingEnded, Waiting, TypeOK
      <3>4. QED
        BY <2>2, <2>5, <3>1, <3>2, <3>3 DEF AnswersOf
    <2>6. QED
      BY <2>3, <2>4, <2>5
  <1>4. QED
    BY <1>1, <1>2, <1>3 DEF Page

(* What the answer makes of a page that waits for it. *)
LEMMA ReplyAnswers ==
    ASSUME TypeOK, NEW t \in Tabs, NEW who, Reply(t, who), who # "page" \/ content[t].pc \in Waiting
    PROVE  /\ \A u \in Tabs \ {t} : content'[u] = content[u]
           /\ who # "page" => content' = content
           /\ content'[t].pc # content[t].pc => content[t].pc \in Waiting
  BY DEF Reply, TypeOK, Answer, NoPage

LEMMA FinalizationKeepsAnswers ==
    ASSUME TypeOK, Answers, NEW t \in Tabs, Finalization(t)
    PROVE  Answers'
  <1> USE DEF store, worker, ghosts
  <1> SUFFICES ASSUME NEW u \in Tabs PROVE AnswersOf(u)'
    BY DEF Answers
  <1> DEFINE f == fin[t]
  <1>0. AnswersOf(u) /\ f \in Fin /\ f' = fin'[t]
    BY DEF TypeOK, Answers
  <1>1. CASE FinUntrack(t)
    <2>1. UNCHANGED session /\ fin' = [fin EXCEPT ![t] = NoFin]
      BY <1>1 DEF FinUntrack
    <2>2. fin'[t].pc = "idle" /\ f.pc # "idle"
      BY <1>1, <2>1 DEF FinUntrack, NoFin, TypeOK
    <2>3. f.who = "page" =>
             content[t].pc \in Waiting /\ PageDels(t) = {} /\ session[t] = None
      BY <1>1 DEF Answers, AnswersOf, FinUntrack
    <2>4. CASE f.who = "recovery" \/ ~(f.m # None /\ ~Failure(f.m))
      <3>1. UNCHANGED dels /\ (UNCHANGED content \/ Reply(t, f.who))
        BY <1>1, <2>4 DEF FinUntrack
      <3>2. PageDels(u)' = PageDels(u)
        BY <3>1 DEF PageDels
      <3>3. PageDels(t) = {}
        BY <2>2 DEF Answers, AnswersOf
      <3>4. \A v \in Tabs \ {t} : content'[v] = content[v]
        BY <2>3, <3>1, ReplyAnswers
      <3>5. CASE u = t
        BY <2>2, <3>2, <3>3, <3>5 DEF AnswersOf
      <3>6. CASE u # t
        BY <2>1, <3>2, <3>4, <3>6, AnswersFrame DEF TypeOK
      <3>7. QED
        BY <3>5, <3>6
    <2>5. CASE f.who # "recovery" /\ f.m # None /\ ~Failure(f.m)
      <3> DEFINE d == [tab |-> t, who |-> f.who, m |-> f.m, w |-> f.w, pc |-> "download"]
      <3>1. dels' = dels \cup {d} /\ UNCHANGED content
        BY <1>1, <2>5 DEF FinUntrack
      <3>2. d.tab = t /\ d.who = f.who
        OBVIOUS
      <3> HIDE DEF d
      <3>3. CASE u # t
        <4>1. PageDels(u)' = PageDels(u)
          BY <3>1, <3>2, <3>3 DEF PageDels
        <4>2. QED
          BY <2>1, <3>1, <3>3, <4>1, AnswersFrame DEF TypeOK
      <3>4. CASE u = t
        <4>1. PageDels(t) = {}
          BY <2>2 DEF Answers, AnswersOf
        <4>2. PageDels(t)' = IF f.who = "page" THEN {d} ELSE {}
          BY <3>1, <3>2, <4>1 DEF PageDels
        <4>3. QED
          BY <2>1, <2>2, <2>3, <3>1, <3>4, <4>2 DEF AnswersOf
      <3>5. QED
        BY <3>3, <3>4
    <2>6. QED
      BY <2>4, <2>5
  <1>2. CASE FinRemove(t)
    <2>1. UNCHANGED <<dels, content>> /\ session' = [session EXCEPT ![t] = None]
      BY <1>2 DEF FinRemove
    <2>2. PageDels(u)' = PageDels(u)
      BY <2>1 DEF PageDels
    <2>3. CASE u # t
      BY <1>2, <2>1, <2>2, <2>3, AnswersFrame DEF FinRemove, TypeOK
    <2>4. CASE u = t
      <3>1. fin'[t].who = f.who /\ f.pc # "idle" /\ session'[t] = None
        BY <1>0, <1>2, <2>1 DEF FinRemove, TypeOK, Fin
      <3>2. QED
        BY <1>0, <2>1, <2>2, <2>4, <3>1 DEF AnswersOf
    <2>5. QED
      BY <2>3, <2>4
  <1>3. CASE \/ FinReadSession(t) \/ FinReadWritten(t) \/ FinAppendFailure(t) \/ FinCommit(t)
             \/ FinMark(t)
    <2>1. UNCHANGED <<dels, content, session>>
      BY <1>3 DEF FinReadSession, FinReadWritten, FinAppendFailure, FinCommit, FinMark
    <2>2. PageDels(u)' = PageDels(u)
      BY <2>1 DEF PageDels
    <2>3. /\ f.pc # "idle"
          /\ fin'[t].who = f.who
          /\ \/ fin'[t].pc \notin {"untrack", "untrackOnly"}
             \/ session[t] = None
      <3>1. CASE FinReadWritten(t)
        <4>1. CASE Empty(f.s) /\ ~f.s.crowd
          BY <1>0, <3>1, <4>1 DEF FinReadWritten, TypeOK, Fin
        <4>2. CASE ~(Empty(f.s) /\ ~f.s.crowd)
          <5>1. PICK merge \in MergeModes :
                  fin' = [fin EXCEPT ![t].pc = IF Empty(f.s) THEN "append" ELSE "commit",
                                     ![t].w = written[t],
                                     ![t].m = SessionToMeeting(f.s, clock + 1, clock + 1),
                                     ![t].merge = merge]
            BY <3>1, <4>2 DEF FinReadWritten
          <5>2. fin'[t].who = f.who /\ fin'[t].pc \in {"append", "commit"}
            BY <1>0, <5>1 DEF TypeOK, Fin
          <5>3. QED
            BY <3>1, <5>2 DEF FinReadWritten
        <4>3. QED
          BY <4>1, <4>2
      <3>2. CASE FinReadSession(t)
        BY <1>0, <3>2 DEF FinReadSession, TypeOK, Fin
      <3>3. CASE FinAppendFailure(t) \/ FinCommit(t) \/ FinMark(t)
        BY <1>0, <3>3 DEF FinAppendFailure, FinCommit, FinMark, TypeOK, Fin
      <3>4. QED
        BY <1>3, <3>1, <3>2, <3>3
    <2>4. CASE u # t
      <3>1. fin'[u] = fin[u]
        BY <1>3, <2>4 DEF FinReadSession, FinReadWritten, FinAppendFailure, FinCommit, FinMark, TypeOK
      <3>2. QED
        BY <2>1, <2>2, <3>1, AnswersFrame
    <2>5. CASE u = t
      BY <1>0, <2>1, <2>2, <2>3, <2>5 DEF AnswersOf
    <2>6. QED
      BY <2>4, <2>5
  <1>4. QED
    BY <1>1, <1>2, <1>3 DEF Finalization

LEMMA DeliveryKeepsAnswers ==
    ASSUME TypeOK, Answers, NEW d \in dels, Deliver(d) \/ DeliverFail(d)
    PROVE  Answers'
  <1> USE DEF store, worker, ghosts
  <1> SUFFICES ASSUME NEW u \in Tabs PROVE AnswersOf(u)'
    BY DEF Answers
  <1>0. d \in Delivery /\ d.tab \in Tabs /\ AnswersOf(u) /\ UNCHANGED <<session, fin>>
    BY DEF TypeOK, Delivery, Answers, Deliver, DeliverFile, DeliverClear, DeliverFail
  <1>1. d.who = "page" => /\ content[d.tab].pc \in Waiting
                          /\ PageDels(d.tab) = {d}
    BY <1>0 DEF Answers, AnswersOf, PageDels
  <1>2. CASE DeliverFile(d)
    <2> DEFINE e == [d EXCEPT !.pc = "clear"]
    <2>1. e.tab = d.tab /\ e.who = d.who
      BY <1>0 DEF Delivery
    <2>2. dels' = (dels \ {d}) \cup {e} /\ UNCHANGED content
      BY <1>2 DEF DeliverFile
    <2> HIDE DEF e
    <2>3. CASE d \in PageDels(u)
      <3>1. PageDels(u) = {d}
        BY <1>1, <2>3 DEF PageDels
      <3>2. PageDels(u)' = {e}
        BY <2>1, <2>2, <2>3, <3>1 DEF PageDels
      <3>3. QED
        BY <1>0, <2>2, <3>1, <3>2 DEF AnswersOf
    <2>4. CASE d \notin PageDels(u)
      <3>1. PageDels(u)' = PageDels(u)
        BY <2>1, <2>2, <2>4 DEF PageDels
      <3>2. QED
        BY <1>0, <2>2, <3>1, AnswersFrame
    <2>5. QED
      BY <2>3, <2>4
  <1>3. CASE DeliverClear(d) \/ DeliverFail(d)
    <2>1. dels' = dels \ {d} /\ Reply(d.tab, d.who)
      BY <1>3 DEF DeliverClear, DeliverFail
    <2>2. CASE d \in PageDels(u)
      <3>1. PageDels(u)' = {} /\ fin[u].pc = "idle"
        BY <1>0, <2>1, <2>2 DEF PageDels, AnswersOf
      <3>2. QED
        BY <1>0, <3>1 DEF AnswersOf
    <2>3. CASE d \notin PageDels(u)
      <3>1. PageDels(u)' = PageDels(u)
        BY <2>1, <2>3 DEF PageDels
      <3>2. content'[u] = content[u]
        BY <1>0, <1>1, <2>1, <2>3, ReplyAnswers DEF PageDels
      <3>3. QED
        BY <1>0, <3>1, <3>2, AnswersFrame
    <2>4. QED
      BY <2>2, <2>3
  <1>4. QED
    BY <1>2, <1>3 DEF Deliver

LEMMA OthersKeepAnswers ==
    ASSUME TypeOK, Answers,
           \/ \E t \in Tabs : SaveStart(t) \/ Saving(t)
           \/ Recovery
           \/ Failures
           \/ \E i \in DOMAIN history : DeleteMeeting(i)
    PROVE  Answers'
  <1> USE DEF store, worker, ghosts
  <1> SUFFICES ASSUME NEW u \in Tabs PROVE AnswersOf(u)'
    BY DEF Answers
  <1>1. CASE \/ \E t \in Tabs : SaveStart(t) \/ Saving(t) \/ SaveFail(t)
             \/ Recovery /\ ~\E t \in Tabs : RecScan(t)
             \/ RecFail
             \/ \E i \in DOMAIN history : DeleteMeeting(i)
    <2>1. UNCHANGED <<session, content, dels, fin>>
      BY <1>1 DEF SaveStart, Saving, SaveResolve, SaveReadWritten, SaveDownload, SaveRecord, SaveFail,
         Recovery, RecReadKeys, RecScanned, RecDeliver, RecListPending, RecNext, RecSave, RecClear,
         RecDone, RecFail, DeleteMeeting
    <2>2. QED
      BY <2>1, AnswersFrame DEF PageDels
  <1>2. CASE \E t \in Tabs : RecScan(t)
    <2>1. PICK t \in Tabs : RecScan(t)
      BY <1>2
    <2>2. UNCHANGED <<session, content, dels>>
      BY <2>1 DEF RecScan
    <2>3. PageDels(u)' = PageDels(u)
      BY <2>2 DEF PageDels
    <2>4. fin'[u] = fin[u] \/ (content[u].pc = "closed" /\ fin'[u].who = "recovery")
      <3>1. [NoFin EXCEPT !.pc = "session", !.who = "recovery"].who = "recovery"
        BY DEF NoFin
      <3>2. QED
        BY <2>1, <3>1 DEF RecScan, StartFinalize, TypeOK
    <2>5. content[u].pc = "closed" => PageDels(u) = {}
      BY DEF Answers, AnswersOf, Waiting
    <2>6. QED
      BY <2>2, <2>3, <2>4, <2>5, AnswersFrame
  <1>3. CASE \E t \in Tabs : FinThrow(t)
    <2>1. PICK t \in Tabs : FinThrow(t)
      BY <1>3
    <2>2. /\ UNCHANGED <<session, dels>> /\ fin' = [fin EXCEPT ![t] = NoFin]
          /\ Reply(t, fin[t].who) /\ fin[t].pc # "idle"
      BY <2>1 DEF FinThrow
    <2>3. PageDels(u)' = PageDels(u)
      BY <2>2 DEF PageDels
    <2>4. fin[t].who = "page" => content[t].pc \in Waiting
      BY <2>2 DEF Answers, AnswersOf
    <2>5. CASE u = t
      <3>1. PageDels(t) = {}
        BY <2>2 DEF Answers, AnswersOf
      <3>2. fin'[t].pc = "idle"
        BY <2>2 DEF NoFin, TypeOK
      <3>3. QED
        BY <2>3, <2>5, <3>1, <3>2 DEF AnswersOf
    <2>6. CASE u # t
      <3>1. content'[u] = content[u] /\ fin'[u] = fin[u]
        BY <2>2, <2>4, <2>6, ReplyAnswers DEF TypeOK
      <3>2. QED
        BY <2>2, <2>3, <3>1, AnswersFrame
    <2>7. QED
      BY <2>5, <2>6
  <1>4. CASE Restart \/ UpdateAvailable \/ BrowserCrash
    <2>1. dels' = {} /\ fin'[u].pc = "idle"
      BY <1>4 DEF Restart, UpdateAvailable, BrowserCrash, Reboot, NoFin
    <2>2. QED
      BY <2>1 DEF AnswersOf, PageDels
  <1>5. CASE \E d \in dels : DeliverFail(d)
    BY <1>5, DeliveryKeepsAnswers DEF Answers
  <1>6. QED
    BY <1>1, <1>2, <1>3, <1>4, <1>5 DEF Failures

LEMMA AnswersInit == Init => Answers
  BY DEF Init, Answers, AnswersOf, PageDels, NoFin

LEMMA AnswersStep == TypeOK /\ Answers /\ [Next]_vars => Answers'
  <1> SUFFICES ASSUME TypeOK, Answers, [Next]_vars PROVE Answers'
    OBVIOUS
  <1>1. CASE Next
    BY <1>1, PageKeepsAnswers, FinalizationKeepsAnswers, DeliveryKeepsAnswers, OthersKeepAnswers DEF Next
  <1>2. CASE UNCHANGED vars
    BY <1>2 DEF vars, store, worker, ghosts, Answers, AnswersOf, PageDels
  <1>3. QED
    BY <1>1, <1>2

LEMMA AnswersHold == Spec => []Answers
  BY AnswersInit, AnswersStep, TypeCorrect, PTL DEF Spec

-------------------------------------------------------------------------------
(*                     The record of what a save wrote                      *)

(* A save is of a meeting that is being recorded. *)
SavesInMeeting ==
    \A t \in Tabs : saves[t].pc # "idle" => content[t].pc = "in" /\ session[t] # None

RecordInv == RecordDiesWithSession /\ SavesInMeeting

LEMMA RecordStep ==
    ASSUME LobbyOutlastsFinalize, ~SavesMayOutlastMeeting, TypeOK, Custody, Answers, RecordInv,
           [Next]_vars
    PROVE  RecordInv'
  <1> USE DEF store, worker, ghosts
  <1> SUFFICES ASSUME NEW u \in Tabs
               PROVE  /\ written'[u] # None => session'[u] # None
                      /\ saves'[u].pc # "idle" => content'[u].pc = "in" /\ session'[u] # None
    BY DEF RecordInv, RecordDiesWithSession, SavesInMeeting
  <1>0. /\ written[u] # None => session[u] # None
        /\ saves[u].pc # "idle" => content[u].pc = "in" /\ session[u] # None
    BY DEF RecordInv, RecordDiesWithSession, SavesInMeeting
  <1>1. ASSUME NEW t \in Tabs, Page(t) \/ MeetingEnded(t)
        PROVE  /\ UNCHANGED <<written, saves>>
               /\ session[u] # None => session'[u] # None
               /\ saves[u].pc # "idle" => content'[u].pc = "in"
    <2>1. UNCHANGED <<written, saves>>
      BY <1>1 DEF Page, ReadPrevious, LeaveLobby, Join, SetPrivate, Capture, Attend, Wipe,
         WriteSession, EndMeeting, RelaySession, Reload, CloseTab, MeetingEnded
    <2>2. session[u] # None => session'[u] # None
      <3>1. \/ UNCHANGED session
            \/ session' = [session EXCEPT ![t] = content[t].mem]
        BY <1>1 DEF Page, ReadPrevious, LeaveLobby, Join, SetPrivate, Capture, Attend, Wipe,
           WriteSession, EndMeeting, RelaySession, Reload, CloseTab, MeetingEnded
      <3>2. session' # session => content[t].mem # None
        BY <1>1 DEF Page, ReadPrevious, LeaveLobby, Join, SetPrivate, Capture, Attend, Wipe,
           WriteSession, EndMeeting, RelaySession, Reload, CloseTab, MeetingEnded, TypeOK, Content
      <3>3. QED
        BY <3>1, <3>2 DEF TypeOK
    <2>3. ASSUME saves[u].pc # "idle" PROVE content'[u].pc = "in"
      <3>1. content[u].pc = "in" /\ content[u] \in [pc: ContentPCs, room: Rooms \cup {None},
                                                    mem: Session \cup {None}, heard: BOOLEAN]
        BY <1>0, <2>3 DEF TypeOK, Content
      <3>2. CASE u # t
        <4>1. content'[u] = content[u]
          BY <1>1, <3>2 DEF Page, ReadPrevious, LeaveLobby, Join, SetPrivate, Capture, Attend, Wipe,
             WriteSession, EndMeeting, RelaySession, Reload, CloseTab, MeetingEnded, TypeOK
        <4>2. QED
          BY <3>1, <4>1
      <3>3. CASE u = t
        <4>1. \/ \E private \in Privacies : SetPrivate(t, private)
              \/ Capture(t) \/ Attend(t) \/ Wipe(t) \/ WriteSession(t)
          BY <1>1, <2>3, <3>1, <3>3 DEF Page, ReadPrevious, LeaveLobby, Join, EndMeeting, RelaySession,
             Reload, CloseTab, MeetingEnded
        <4>2. QED
          BY <3>1, <3>3, <4>1 DEF SetPrivate, Capture, Attend, Wipe, WriteSession, TypeOK
      <3>4. QED
        BY <3>2, <3>3
    <2>4. QED
      BY <2>1, <2>2, <2>3
  <1>2. ASSUME NEW t \in Tabs, Finalization(t) \/ FinThrow(t)
        PROVE  /\ UNCHANGED saves
               /\ \/ UNCHANGED <<written, session>>
                  \/ t = u /\ written'[u] = None /\ saves[u].pc = "idle"
                  \/ t # u /\ written'[u] = written[u] /\ session'[u] = session[u]
               /\ content[u].pc = "in" => content'[u] = content[u]
    <2>1. UNCHANGED saves
      BY <1>2 DEF Finalization, FinReadSession, FinReadWritten, FinAppendFailure, FinCommit, FinMark,
         FinRemove, FinUntrack, FinThrow
    <2>2. \/ UNCHANGED <<written, session>>
          \/ t = u /\ written'[u] = None /\ saves[u].pc = "idle"
          \/ t # u /\ written'[u] = written[u] /\ session'[u] = session[u]
      <3>1. UNCHANGED <<written, session>> \/ FinRemove(t)
        BY <1>2 DEF Finalization, FinReadSession, FinReadWritten, FinAppendFailure, FinCommit, FinMark,
           FinUntrack, FinThrow
      <3>2. fin[t].pc = "remove" => content[t].pc # "in"
        BY CustodyByTab DEF CustodyOf
      <3>3. QED
        BY <1>0, <3>1, <3>2 DEF FinRemove, TypeOK
    <2>3. content[u].pc = "in" => content'[u] = content[u]
      <3>1. UNCHANGED content \/ (fin[t].pc # "idle" /\ Reply(t, fin[t].who))
        BY <1>2 DEF Finalization, FinReadSession, FinReadWritten, FinAppendFailure, FinCommit, FinMark,
           FinRemove, FinUntrack, FinThrow
      <3>2. fin[t].pc # "idle" /\ fin[t].who = "page" => content[t].pc \in Waiting
        BY DEF Answers, AnswersOf
      <3>3. QED
        BY <3>1, <3>2 DEF Reply, TypeOK, Waiting
    <2>4. QED
      BY <2>1, <2>2, <2>3
  <1>3. ASSUME NEW d \in dels, Deliver(d) \/ DeliverFail(d)
        PROVE  /\ UNCHANGED <<saves, written, session>>
               /\ content[u].pc = "in" => content'[u] = content[u]
    <2>1. UNCHANGED <<saves, written, session>> /\ (UNCHANGED content \/ Reply(d.tab, d.who))
      BY <1>3 DEF Deliver, DeliverFile, DeliverClear, DeliverFail
    <2>2. d.tab \in Tabs
      BY DEF TypeOK, Delivery
    <2>3. d.who = "page" => content[d.tab].pc \in Waiting
      BY <2>2 DEF Answers, AnswersOf, PageDels
    <2>4. QED
      BY <2>1, <2>2, <2>3 DEF Reply, TypeOK, Waiting
  <1>4. ASSUME NEW t \in Tabs, SaveStart(t) \/ Saving(t) \/ SaveFail(t)
        PROVE  /\ written'[u] # None => session'[u] # None
               /\ saves'[u].pc # "idle" => content'[u].pc = "in" /\ session'[u] # None
    <2>1. UNCHANGED <<session, content>>
      BY <1>4 DEF SaveStart, Saving, SaveResolve, SaveReadWritten, SaveDownload, SaveRecord, SaveFail
    <2>2. saves'[u].pc # "idle" => content[u].pc = "in" /\ session[u] # None
      <3>1. u # t => saves'[u] = saves[u]
        BY <1>4 DEF SaveStart, Saving, SaveResolve, SaveReadWritten, SaveDownload, SaveRecord,
           SaveFail, TypeOK
      <3>2. saves[t].pc # "idle" \/ SaveStart(t)
        BY <1>4 DEF Saving, SaveResolve, SaveReadWritten, SaveDownload, SaveRecord, SaveFail
      <3>3. SaveStart(t) => content[t].pc = "in" /\ session[t] # None
        BY DEF SaveStart
      <3>4. QED
        BY <1>0, <3>1, <3>2, <3>3
    <2>3. written'[u] # None => session[u] # None
      <3>1. UNCHANGED written \/ SaveRecord(t)
        BY <1>4 DEF SaveStart, Saving, SaveResolve, SaveReadWritten, SaveDownload, SaveFail
      <3>2. SaveRecord(t) => written'[u] = written[u] \/ (u = t /\ saves[u].pc = "record")
        BY DEF SaveRecord, TypeOK
      <3>3. QED
        BY <1>0, <3>1, <3>2
    <2>4. QED
      BY <2>1, <2>2, <2>3
  <1>5. CASE Recovery \/ RecFail \/ \E i \in DOMAIN history : DeleteMeeting(i)
    <2>1. UNCHANGED <<written, session, saves, content>>
      BY <1>5 DEF Recovery, RecReadKeys, RecScan, RecScanned, RecDeliver, RecListPending, RecNext,
         RecSave, RecClear, RecDone, RecFail, DeleteMeeting
    <2>2. QED
      BY <1>0, <2>1
  <1>6. CASE Restart \/ UpdateAvailable \/ BrowserCrash
    <2>1. UNCHANGED <<written, session>> /\ saves'[u].pc = "idle"
      BY <1>6 DEF Restart, UpdateAvailable, BrowserCrash, Reboot, NoSave
    <2>2. QED
      BY <1>0, <2>1
  <1>7. CASE UNCHANGED vars
    BY <1>0, <1>7 DEF vars
  <1>8. QED
    BY <1>0, <1>1, <1>2, <1>3, <1>4, <1>5, <1>6, <1>7 DEF Next, Failures

(* The record of the path a mid-meeting save wrote is gone with the session it   *)
(* was for, through any stop or failure, as long as a save does not outlast its *)
(* meeting: the next meeting of the tab never overwrites the file of the last   *)
(* (index.ts snapshotNow against sessions.ts finalizeSession).                 *)
THEOREM RecordDiesWithSessionHolds ==
    ASSUME LobbyOutlastsFinalize, ~SavesMayOutlastMeeting
    PROVE  Spec => []RecordDiesWithSession
  <1>1. Init => RecordInv
    BY DEF Init, RecordInv, RecordDiesWithSession, SavesInMeeting, NoSave
  <1>2. TypeOK /\ Custody /\ Answers /\ RecordInv /\ [Next]_vars => RecordInv'
    BY RecordStep
  <1>3. RecordInv => RecordDiesWithSession
    BY DEF RecordInv
  <1>4. QED
    BY <1>1, <1>2, <1>3, TypeCorrect, CustodyHolds, AnswersHold, PTL DEF Spec

-------------------------------------------------------------------------------
(*                       No session overwrites another                      *)

SoleRoom == \A q, r \in Rooms : q = r

(* What may not happen: a finalization that is asked for before the lobby, of    *)
(* another room's session, and that fails or is cut off (StaleSessionOverwritten *)
(* is the run that shows it).                                                *)
EvictionSucceeds == SoleRoom \/ (~StorageMayFail /\ MaxStarts = 0)

(* The session a page holds is the stored one. *)
Same(t) == content[t].mem # None /\ content[t].mem.startedAt = session[t].startedAt

OwnSessionOf(t) ==
    session[t] # None =>
        /\ content[t].pc \in {"in", "sealed", "ended", "lost"} => Same(t)
        /\ content[t].pc = "lobby" => Same(t) \/ (~SoleRoom /\ fin[t].pc # "idle")
        /\ content[t].pc \in {"stale", "evicting"} => ~SoleRoom
        /\ content[t].pc = "evicting" => fin[t].pc # "idle"

OwnSession == \A t \in Tabs : OwnSessionOf(t)

LEMMA OwnSessionFrame ==
    ASSUME OwnSession, NEW u \in Tabs,
           session'[u] = session[u], content'[u] = content[u],
           fin'[u].pc = fin[u].pc \/ fin'[u].pc # "idle"
    PROVE  OwnSessionOf(u)'
  BY DEF OwnSession, OwnSessionOf, Same

LEMMA PageKeepsOwnSession ==
    ASSUME LobbyOutlastsFinalize, TypeOK, OwnSession, NEW t \in Tabs, Page(t) \/ MeetingEnded(t)
    PROVE  OwnSession'
  <1> USE DEF store, worker, ghosts
  <1> SUFFICES ASSUME NEW u \in Tabs PROVE OwnSessionOf(u)'
    BY DEF OwnSession
  <1>0. /\ OwnSessionOf(t)
        /\ content[t] \in [pc: ContentPCs, room: Rooms \cup {None}, mem: Session \cup {None}, heard: BOOLEAN]
    BY DEF OwnSession, TypeOK, Content
  <1>1. CASE u # t
    <2>1. session'[u] = session[u] /\ content'[u] = content[u] /\ fin'[u] = fin[u]
      BY <1>1 DEF Page, ReadPrevious, LeaveLobby, Join, SetPrivate, Capture, Attend, Wipe,
         WriteSession, EndMeeting, RelaySession, Reload, CloseTab, MeetingEnded, StartFinalize, TypeOK
    <2>2. QED
      BY <2>1, OwnSessionFrame
  <1>2. CASE u = t
    <2> SUFFICES OwnSessionOf(t)'
      BY <1>2
    <2>1. ASSUME NEW r \in Rooms, ReadPrevious(t, r) PROVE OwnSessionOf(t)'
      <3>1. session' = session /\ fin' = fin
        BY <2>1 DEF ReadPrevious
      <3>2. CASE session[t] # None /\ session[t].room # r
        <4>1. content'[t].pc = "stale"
          BY <2>1, <3>2, ReadPreviousOpens
        <4>2. session[t].room \in Rooms
          BY <3>2 DEF TypeOK, Session
        <4>3. ~SoleRoom
          BY <3>2, <4>2 DEF SoleRoom
        <4>4. QED
          BY <3>1, <4>1, <4>3 DEF OwnSessionOf
      <3>3. CASE ~(session[t] # None /\ session[t].room # r)
        <4>1. content'[t].pc = "lobby" /\ content'[t].mem = session[t]
          BY <2>1, <3>3, ReadPreviousOpens
        <4>2. QED
          BY <3>1, <4>1 DEF OwnSessionOf, Same
      <3>4. QED
        BY <3>2, <3>3
    <2>2. CASE LeaveLobby(t) \/ Reload(t) \/ CloseTab(t)
      <3>1. content'[t].pc \in {"idle", "closed"}
        BY <2>2 DEF LeaveLobby, Reload, CloseTab, NoPage, TypeOK
      <3>2. QED
        BY <3>1 DEF OwnSessionOf
    <2>3. ASSUME NEW private \in Privacies, NEW heard \in BOOLEAN, Join(t, private, heard)
          PROVE  OwnSessionOf(t)'
      <3>1. session' = session /\ fin[t].pc = "idle" /\ content[t].pc = "lobby"
        BY <2>3 DEF Join
      <3>2. session[t] # None => Same(t)
        BY <1>0, <3>1 DEF OwnSessionOf
      <3>3. content[t].mem # None => content'[t].mem = content[t].mem /\ content'[t].pc = "in"
        BY <1>0, <2>3 DEF Join, TypeOK
      <3>4. content'[t].pc = "in"
        BY <1>0, <2>3 DEF Join, TypeOK
      <3>5. QED
        BY <3>1, <3>2, <3>3, <3>4 DEF OwnSessionOf, Same
    <2>4. CASE \/ Capture(t) \/ Attend(t) \/ Wipe(t)
               \/ \E private \in Privacies : SetPrivate(t, private)
      <3>1. session' = session /\ content[t].pc = "in" /\ content[t].mem \in Session
        BY <2>4, MemType DEF Capture, Attend, Wipe, SetPrivate
      <3>2. /\ content'[t].pc = "in"
            /\ content'[t].mem # None
            /\ content'[t].mem.startedAt = content[t].mem.startedAt
        <4>1. PICK m \in Session : /\ content' = [content EXCEPT ![t] = [content[t] EXCEPT !.mem = m]]
                                   /\ m.startedAt = content[t].mem.startedAt
          <5>1. CASE Capture(t)
            <6>1. [content[t].mem EXCEPT !.words = @ + 1] \in Session
              BY <3>1 DEF Session
            <6>2. QED
              BY <3>1, <5>1, <6>1 DEF Capture, Session
          <5>2. CASE Attend(t)
            <6>1. [content[t].mem EXCEPT !.crowd = TRUE] \in Session
              BY <3>1 DEF Session
            <6>2. QED
              BY <3>1, <5>2, <6>1 DEF Attend, Session
          <5>3. CASE Wipe(t)
            <6>1. [content[t].mem EXCEPT !.words = 0] \in Session
              BY <3>1 DEF Session
            <6>2. QED
              BY <3>1, <5>3, <6>1 DEF Wipe, Session
          <5>4. ASSUME NEW private \in Privacies, SetPrivate(t, private)
                PROVE  \E m \in Session :
                          /\ content' = [content EXCEPT ![t] = [content[t] EXCEPT !.mem = m]]
                          /\ m.startedAt = content[t].mem.startedAt
            <6>1. [content[t].mem EXCEPT !.private = private] \in Session
              BY <3>1, SettingsAssumption DEF Session
            <6>2. QED
              BY <3>1, <5>4, <6>1 DEF SetPrivate, Session
          <5>5. QED
            BY <2>4, <5>1, <5>2, <5>3, <5>4
        <4>2. QED
          BY <1>0, <3>1, <4>1, NoneAssumption DEF TypeOK
      <3>3. QED
        BY <1>0, <3>1, <3>2 DEF OwnSessionOf, Same
    <2>5. CASE WriteSession(t) \/ EndMeeting(t) \/ RelaySession(t)
      <3>1. session'[t] = content[t].mem /\ content[t].mem # None
        BY <2>5 DEF WriteSession, EndMeeting, RelaySession, TypeOK, Content
      <3>2. content'[t].mem = content[t].mem /\ content'[t].pc \in {"in", "sealed", "relaying"}
        BY <1>0, <2>5 DEF WriteSession, EndMeeting, RelaySession, TypeOK
      <3>3. QED
        BY <3>1, <3>2 DEF OwnSessionOf, Same
    <2>6. CASE MeetingEnded(t)
      <3>1. session' = session
        BY <2>6 DEF MeetingEnded
      <3>2. CASE fin[t].pc = "idle"
        <4>1. fin'[t].pc = "session"
          BY <2>6, <3>2, StartBegins DEF MeetingEnded, TypeOK
        <4>2. /\ content'[t].mem = content[t].mem
              /\ \/ content[t].pc = "sealed" /\ content'[t].pc = "ended"
                 \/ content[t].pc = "stale" /\ content'[t].pc = "evicting"
                 \/ content'[t].pc = "relayed"
          BY <1>0, <2>6, <3>2 DEF MeetingEnded, TypeOK
        <4>3. QED
          BY <1>0, <3>1, <4>1, <4>2 DEF OwnSessionOf, Same
      <3>3. CASE fin[t].pc # "idle"
        <4>1. fin' = fin
          BY <2>6, <3>3 DEF MeetingEnded
        <4>2. content'[t].pc = "idle" \/ (content'[t].pc = "lobby" /\ content[t].pc = "stale")
          <5> DEFINE asked == [content[t] EXCEPT !.pc = CASE @ = "sealed" -> "ended"
                                                          [] @ = "stale"  -> "evicting"
                                                          [] OTHER        -> "relayed"]
          <5>1. content'[t] = Answer(asked)
            BY <2>6, <3>3 DEF MeetingEnded, TypeOK
          <5>2. asked.pc \in {"ended", "evicting", "relayed"}
                /\ (asked.pc = "evicting" => content[t].pc = "stale")
            BY <1>0, <2>6 DEF MeetingEnded
          <5>3. [asked EXCEPT !.pc = "lobby"].pc = "lobby"
            BY <1>0
          <5>4. QED
            BY <5>1, <5>2, <5>3 DEF Answer, NoPage
        <4>3. QED
          BY <1>0, <3>1, <3>3, <4>1, <4>2 DEF OwnSessionOf
      <3>4. QED
        BY <3>2, <3>3
    <2>7. QED
      BY <1>2, <2>1, <2>2, <2>3, <2>4, <2>5, <2>6 DEF Page
  <1>3. QED
    BY <1>1, <1>2

LEMMA WorkerKeepsOwnSession ==
    ASSUME EvictionSucceeds, TypeOK, Custody, Answers, OwnSession,
           \/ \E t \in Tabs : Finalization(t) \/ SaveStart(t) \/ Saving(t)
           \/ \E d \in dels : Deliver(d)
           \/ Recovery
           \/ Failures
           \/ \E i \in DOMAIN history : DeleteMeeting(i)
    PROVE  OwnSession'
  <1> USE DEF store, worker, ghosts
  <1> SUFFICES ASSUME NEW u \in Tabs PROVE OwnSessionOf(u)'
    BY DEF OwnSession
  <1>0. OwnSessionOf(u)
    BY DEF OwnSession
  <1>1. ASSUME NEW t \in Tabs, Finalization(t) PROVE OwnSessionOf(u)'
    <2>1. CASE FinRemove(t)
      BY <2>1, OwnSessionFrame DEF FinRemove, OwnSessionOf, TypeOK
    <2>2. CASE FinUntrack(t)
      <3>1. /\ session' = session /\ session[t] = None
            /\ fin' = [fin EXCEPT ![t] = NoFin]
            /\ content' = content \/ Reply(t, fin[t].who)
        BY <2>2, CustodyByTab DEF FinUntrack, CustodyOf
      <3>2. CASE u = t
        BY <3>1, <3>2 DEF OwnSessionOf
      <3>3. CASE u # t
        <4>1. content'[u] = content[u] /\ fin'[u] = fin[u]
          BY <3>1, <3>3 DEF Reply, TypeOK
        <4>2. QED
          BY <3>1, <4>1, OwnSessionFrame
      <3>4. QED
        BY <3>2, <3>3
    <2>3. CASE \/ FinReadSession(t) \/ FinReadWritten(t) \/ FinAppendFailure(t) \/ FinCommit(t)
               \/ FinMark(t)
      <3>1. UNCHANGED <<session, content>>
        BY <2>3 DEF FinReadSession, FinReadWritten, FinAppendFailure, FinCommit, FinMark
      <3>2. u # t => fin'[u] = fin[u]
        BY <2>3 DEF FinReadSession, FinReadWritten, FinAppendFailure, FinCommit, FinMark, TypeOK
      <3>3. fin'[t].pc # "idle"
        <4>1. fin[t] \in Fin
          BY DEF TypeOK
        <4>2. CASE FinReadWritten(t)
          <5>1. CASE Empty(fin[t].s) /\ ~fin[t].s.crowd
            BY <4>1, <4>2, <5>1 DEF FinReadWritten, TypeOK, Fin
          <5>2. CASE ~(Empty(fin[t].s) /\ ~fin[t].s.crowd)
            <6>1. PICK merge \in MergeModes :
                    fin' = [fin EXCEPT ![t].pc = IF Empty(fin[t].s) THEN "append" ELSE "commit",
                                       ![t].w = written[t],
                                       ![t].m = SessionToMeeting(fin[t].s, clock + 1, clock + 1),
                                       ![t].merge = merge]
              BY <4>2, <5>2 DEF FinReadWritten
            <6>2. QED
              BY <4>1, <6>1 DEF TypeOK, Fin
          <5>3. QED
            BY <5>1, <5>2
        <4>3. CASE FinReadSession(t) \/ FinAppendFailure(t) \/ FinCommit(t) \/ FinMark(t)
          BY <4>1, <4>3 DEF FinReadSession, FinAppendFailure, FinCommit, FinMark, TypeOK, Fin
        <4>4. QED
          BY <2>3, <4>2, <4>3
      <3>4. QED
        BY <3>1, <3>2, <3>3, OwnSessionFrame
    <2>4. QED
      BY <1>1, <2>1, <2>2, <2>3 DEF Finalization
  <1>2. ASSUME NEW d \in dels, Deliver(d) \/ DeliverFail(d) PROVE OwnSessionOf(u)'
    <2>1. UNCHANGED <<session, fin>> /\ (UNCHANGED content \/ Reply(d.tab, d.who))
      BY <1>2 DEF Deliver, DeliverFile, DeliverClear, DeliverFail
    <2>2. d.tab \in Tabs
      BY DEF TypeOK, Delivery
    <2>3. d.who = "page" => session[d.tab] = None
      BY <2>2 DEF Answers, AnswersOf, PageDels
    <2>4. content'[u] = content[u] \/ (u = d.tab /\ d.who = "page")
      BY <2>1, <2>2 DEF Reply, TypeOK
    <2>5. CASE content'[u] = content[u]
      BY <2>1, <2>5, OwnSessionFrame
    <2>6. CASE u = d.tab /\ d.who = "page"
      BY <2>1, <2>3, <2>6 DEF OwnSessionOf
    <2>7. QED
      BY <2>4, <2>5, <2>6
  <1>3. CASE \/ \E t \in Tabs : SaveStart(t) \/ Saving(t) \/ SaveFail(t)
             \/ Recovery /\ ~\E t \in Tabs : RecScan(t)
             \/ RecFail
             \/ \E i \in DOMAIN history : DeleteMeeting(i)
    <2>1. UNCHANGED <<session, content, fin>>
      BY <1>3 DEF SaveStart, Saving, SaveResolve, SaveReadWritten, SaveDownload, SaveRecord, SaveFail,
         Recovery, RecReadKeys, RecScanned, RecDeliver, RecListPending, RecNext, RecSave, RecClear,
         RecDone, RecFail, DeleteMeeting
    <2>2. QED
      BY <2>1, OwnSessionFrame
  <1>4. CASE \E t \in Tabs : RecScan(t)
    <2>1. PICK t \in Tabs : RecScan(t)
      BY <1>4
    <2>2. UNCHANGED <<session, content>>
      BY <2>1 DEF RecScan
    <2>3. fin'[u] = fin[u] \/ fin'[u].pc = "session"
      <3>1. [NoFin EXCEPT !.pc = "session", !.who = "recovery"].pc = "session"
        BY DEF NoFin
      <3>2. QED
        BY <2>1, <3>1 DEF RecScan, StartFinalize, TypeOK
    <2>4. QED
      BY <2>2, <2>3, OwnSessionFrame
  <1>5. CASE \E t \in Tabs : FinThrow(t)
    <2>1. PICK t \in Tabs : FinThrow(t)
      BY <1>5
    <2>2. SoleRoom
      BY <2>1 DEF FinThrow, EvictionSucceeds
    <2>3. session' = session /\ fin[t].pc # "idle" /\ Reply(t, fin[t].who)
      BY <2>1 DEF FinThrow
    <2>4. content'[u] = content[u] \/ content'[u].pc = "idle"
          \/ (content[u].pc = "evicting" /\ session[u] = None)
      BY <1>0, <2>2, <2>3 DEF Reply, Answer, NoPage, TypeOK, OwnSessionOf
    <2>5. QED
      BY <1>0, <2>2, <2>3, <2>4 DEF OwnSessionOf, Same
  <1>6. CASE Restart \/ UpdateAvailable \/ BrowserCrash
    <2>1. SoleRoom
      BY <1>6, BoundAssumption DEF Restart, UpdateAvailable, BrowserCrash, Reboot, EvictionSucceeds, TypeOK
    <2>2. session' = session
      BY <1>6 DEF Restart, UpdateAvailable, BrowserCrash
    <2>3. \/ content'[u] = content[u]
          \/ content'[u].pc \in {"idle", "closed"}
          \/ content[u].pc = "ended" /\ content'[u].mem = content[u].mem
          \/ content[u].pc = "evicting"
      <3>1. content[u] \in [pc: ContentPCs, room: Rooms \cup {None}, mem: Session \cup {None}, heard: BOOLEAN]
        BY DEF TypeOK, Content
      <3>2. QED
        BY <1>6, <3>1 DEF Restart, UpdateAvailable, BrowserCrash, Sever, NoPage
    <2>4. content'[u] = content[u] => OwnSessionOf(u)'
      BY <1>0, <2>1, <2>2 DEF OwnSessionOf, Same
    <2>5. content'[u].pc \in {"idle", "closed"} => OwnSessionOf(u)'
      BY DEF OwnSessionOf
    <2>6. content[u].pc = "ended" /\ content'[u].mem = content[u].mem => OwnSessionOf(u)'
      BY <1>0, <1>6, <2>1, <2>2 DEF OwnSessionOf, Same, Restart, UpdateAvailable, BrowserCrash,
         Sever, NoPage, TypeOK, Content
    <2>7. content[u].pc = "evicting" => OwnSessionOf(u)'
      BY <1>0, <2>1, <2>2 DEF OwnSessionOf
    <2>8. QED
      BY <2>3, <2>4, <2>5, <2>6, <2>7
  <1>7. QED
    BY <1>1, <1>2, <1>3, <1>4, <1>5, <1>6 DEF Failures

LEMMA OwnSessionStep ==
    ASSUME LobbyOutlastsFinalize, EvictionSucceeds, TypeOK, Custody, Answers, OwnSession, [Next]_vars
    PROVE  OwnSession'
  <1>1. CASE Next
    BY <1>1, PageKeepsOwnSession, WorkerKeepsOwnSession DEF Next
  <1>2. CASE UNCHANGED vars
    BY <1>2 DEF vars, store, worker, ghosts, OwnSession, OwnSessionOf, Same
  <1>3. QED
    BY <1>1, <1>2

LEMMA OwnSessionHolds ==
    ASSUME LobbyOutlastsFinalize, EvictionSucceeds
    PROVE  Spec => []OwnSession
  <1>1. Init => OwnSession
    BY DEF Init, OwnSession, OwnSessionOf
  <1>2. TypeOK /\ Custody /\ Answers /\ OwnSession /\ [Next]_vars => OwnSession'
    BY OwnSessionStep
  <1>3. QED
    BY <1>1, <1>2, TypeCorrect, CustodyHolds, AnswersHold, PTL DEF Spec

(* What a step leaves of a session key: the same session, or none. *)
LEMMA SessionIsReplacedByItself ==
    ASSUME TypeOK, OwnSession, [Next]_vars, NEW t \in Tabs, session[t] # None, session'[t] # None
    PROVE  session'[t].startedAt = session[t].startedAt
  <1> USE DEF store, worker, ghosts
  <1>1. CASE session' = session
    BY <1>1
  <1>2. CASE session' # session
    <2>1. PICK u \in Tabs : WriteSession(u) \/ EndMeeting(u) \/ RelaySession(u) \/ FinRemove(u)
      BY <1>2, SessionWriters
    <2>2. CASE u # t \/ FinRemove(u)
      BY <2>1, <2>2 DEF WriteSession, EndMeeting, RelaySession, FinRemove, TypeOK
    <2>3. CASE u = t /\ ~FinRemove(u)
      <3>1. session'[t] = content[t].mem /\ content[t].pc \in {"in", "lost"}
        BY <2>1, <2>3 DEF WriteSession, EndMeeting, RelaySession, TypeOK
      <3>2. QED
        BY <3>1 DEF OwnSession, OwnSessionOf, Same
    <2>4. QED
      BY <2>2, <2>3
  <1>3. QED
    BY <1>1, <1>2

(* No meeting's session overwrites another's: while the finalization asked for   *)
(* before the lobby does not fail, a tab's next meeting writes the key only     *)
(* after the last one's has been committed and removed, however pages reload,    *)
(* resume and end in between (meet.ts runMeeting).                            *)
THEOREM ReplacedOnlyWhenKeptHolds ==
    ASSUME LobbyOutlastsFinalize, EvictionSucceeds
    PROVE  Spec => ReplacedOnlyWhenKept
  <1>1. TypeOK /\ OwnSession /\ [Next]_vars =>
          [\A t \in Tabs :
             (/\ session[t] # None /\ ~Empty(session[t])
              /\ session'[t] # None /\ session'[t].startedAt # session[t].startedAt)
                => Kept(session[t], history', gone')]_vars
    BY SessionIsReplacedByItself
  <1>2. QED
    BY <1>1, TypeCorrect, OwnSessionHolds, PTL DEF Spec, ReplacedOnlyWhenKept

-------------------------------------------------------------------------------
(*                     Where a meeting of history was before                 *)

LEMMA AppendOrigin ==
    ASSUME NEW h \in Seq(Meeting), NEW m \in Meeting
    PROVE  LET next == AppendWithRetention(h, m, Retention)
           IN  \E off \in Nat : \A j \in DOMAIN next :
                   /\ j + off \in 1 .. Len(h) + 1
                   /\ j + off \in DOMAIN h => next[j] = h[j + off]
                   /\ j + off \notin DOMAIN h => next[j] = m
  <1> DEFINE next  == AppendWithRetention(h, m, Retention)
             all   == Append(h, m)
             first == IF Len(all) > Retention THEN Len(all) - Retention + 1 ELSE 1
  <1>1. Retention \in Nat \ {0} /\ Len(h) \in Nat /\ Len(all) = Len(h) + 1 /\ DOMAIN h = 1 .. Len(h)
    BY RetentionAssumption
  <1>2. all \in Seq(Meeting) /\ first \in 1 .. Len(all)
    BY <1>1
  <1>3. next = SubSeq(all, first, Len(all))
    BY DEF AppendWithRetention
  <1>4. \A k \in 1 .. Len(all) : all[k] = IF k = Len(h) + 1 THEN m ELSE h[k]
    BY <1>1
  <1>5. \A j \in DOMAIN next : j + (first - 1) \in 1 .. Len(all) /\ next[j] = all[j + (first - 1)]
    <2> HIDE DEF all, first, next
    <2>1. DOMAIN next = 1 .. Len(all) - first + 1 /\ Len(all) \in Nat
      BY <1>2, <1>3
    <2>2. \A j \in 1 .. Len(all) - first + 1 : next[j] = all[first + j - 1]
      BY <1>2, <1>3, <2>1
    <2>3. QED
      BY <1>2, <2>1, <2>2
  <1>6. first - 1 \in Nat
    BY <1>1
  <1> HIDE DEF all, first, next
  <1>7. \A j \in DOMAIN next :
          /\ j + (first - 1) \in 1 .. Len(h) + 1
          /\ j + (first - 1) \in DOMAIN h => next[j] = h[j + (first - 1)]
          /\ j + (first - 1) \notin DOMAIN h => next[j] = m
    BY <1>1, <1>4, <1>5
  <1>8. QED
    BY <1>6, <1>7 DEF next

LEMMA DeleteOrigin ==
    ASSUME NEW h \in Seq(Meeting), NEW i \in DOMAIN h
    PROVE  LET next == SubSeq(h, 1, i - 1) \o SubSeq(h, i + 1, Len(h))
           IN  \A j \in DOMAIN next : LET k == IF j < i THEN j ELSE j + 1
                                      IN  k \in DOMAIN h \ {i} /\ next[j] = h[k]
  <1> DEFINE a == SubSeq(h, 1, i - 1)
             b == SubSeq(h, i + 1, Len(h))
  <1>1. i \in 1 .. Len(h) /\ Len(h) \in Nat /\ DOMAIN h = 1 .. Len(h)
    OBVIOUS
  <1>2. /\ a \in Seq(Meeting) /\ Len(a) = i - 1 /\ \A j \in 1 .. i - 1 : a[j] = h[j]
        /\ b \in Seq(Meeting) /\ Len(b) = Len(h) - i /\ \A j \in 1 .. Len(h) - i : b[j] = h[j + i]
    <2>1. a \in Seq(Meeting) /\ Len(a) = i - 1 /\ \A j \in 1 .. i - 1 : a[j] = h[j]
      BY <1>1
    <2>2. b \in Seq(Meeting) /\ Len(b) = Len(h) - i
      BY <1>1
    <2>3. \A j \in 1 .. Len(h) - i : b[j] = h[j + i]
      BY <1>1
    <2>4. QED
      BY <2>1, <2>2, <2>3
  <1> HIDE DEF a, b
  <1>3. /\ DOMAIN (a \o b) = 1 .. Len(a) + Len(b)
        /\ \A j \in 1 .. Len(a) + Len(b) : (a \o b)[j] = IF j <= Len(a) THEN a[j] ELSE b[j - Len(a)]
    <2>1. a \in Seq(Meeting) /\ b \in Seq(Meeting)
      BY <1>2
    <2>2. QED
      BY <2>1
  <1>4. ASSUME NEW j \in DOMAIN (a \o b)
        PROVE  LET k == IF j < i THEN j ELSE j + 1
               IN  k \in DOMAIN h \ {i} /\ (a \o b)[j] = h[k]
    <2>1. j \in 1 .. Len(h) - 1
      BY <1>1, <1>2, <1>3, <1>4
    <2>2. CASE j < i
      BY <1>1, <1>2, <1>3, <2>1, <2>2
    <2>3. CASE ~(j < i)
      <3>1. j - Len(a) \in 1 .. Len(h) - i /\ (j - Len(a)) + i = j + 1
        BY <1>1, <1>2, <2>1, <2>3
      <3>2. (a \o b)[j] = b[j - Len(a)]
        BY <1>1, <1>2, <1>3, <2>1, <2>3
      <3>3. b[j - Len(a)] = h[j + 1]
        BY <1>2, <3>1
      <3>4. QED
        BY <1>1, <2>1, <2>3, <3>2, <3>3
    <2>4. QED
      BY <2>2, <2>3
  <1>5. QED
    BY <1>4 DEF a, b

(* The three ways history changes. *)
Appended(m) ==
    \E off \in Nat : \A j \in DOMAIN history' :
        /\ j + off \in 1 .. Len(history) + 1
        /\ j + off \in DOMAIN history => history'[j] = history[j + off]
        /\ j + off \notin DOMAIN history => history'[j] = m

MergedInto(i, m) ==
    /\ DOMAIN history' = DOMAIN history
    /\ history'[i] = MergeMeetings(history[i], m)
    /\ \A j \in DOMAIN history \ {i} : history'[j] = history[j]

Removed(i) ==
    \A j \in DOMAIN history' : LET k == IF j < i THEN j ELSE j + 1
                               IN  k \in DOMAIN history \ {i} /\ history'[j] = history[k]

LEMMA AppendedBy ==
    ASSUME TypeOK, NEW m \in Meeting, AppendToHistory(m)
    PROVE  Appended(m)
  <1> DEFINE next == AppendWithRetention(history, m, Retention)
  <1>1. history \in Seq(Meeting) /\ history' = next
    BY DEF AppendToHistory, TypeOK
  <1>2. \E off \in Nat : \A j \in DOMAIN next :
          /\ j + off \in 1 .. Len(history) + 1
          /\ j + off \in DOMAIN history => next[j] = history[j + off]
          /\ j + off \notin DOMAIN history => next[j] = m
    BY <1>1, AppendOrigin
  <1> HIDE DEF next
  <1>3. QED
    BY <1>1, <1>2 DEF Appended

LEMMA RemovedBy ==
    ASSUME TypeOK, NEW i \in DOMAIN history, DeleteMeeting(i)
    PROVE  Removed(i)
  <1>1. history \in Seq(Meeting)
    BY DEF TypeOK
  <1> DEFINE next == SubSeq(history, 1, i - 1) \o SubSeq(history, i + 1, Len(history))
  <1>2. history' = next
    BY DEF DeleteMeeting
  <1>5. \A j \in DOMAIN next : LET k == IF j < i THEN j ELSE j + 1
                               IN  k \in DOMAIN history \ {i} /\ next[j] = history[k]
    BY <1>1, DeleteOrigin
  <1> HIDE DEF next
  <1>3. \A j \in DOMAIN history' : LET k == IF j < i THEN j ELSE j + 1
                                   IN  k \in DOMAIN history \ {i} /\ history'[j] = history[k]
    BY <1>2, <1>5
  <1>4. QED
    BY <1>3 DEF Removed

(* The meeting a finalization is about to store, and what the commit does. *)
Building(t) == fin[t].pc \in {"append", "commit"}

LEMMA CommitEffect ==
    ASSUME TypeOK, NEW t \in Tabs, FinAppendFailure(t) \/ FinCommit(t)
    PROVE  /\ Building(t) /\ fin[t].m \in Meeting
           /\ fin'[t].pc = IF fin[t].pc = "append" THEN "remove" ELSE "mark"
           /\ fin'[t].s = fin[t].s
           /\ \A u \in Tabs \ {t} : fin'[u] = fin[u]
           /\ \/ /\ AppendToHistory(fin[t].m) /\ Appended(fin[t].m)
                 /\ fin'[t].m = fin[t].m
              \/ \E i \in DOMAIN history :
                    /\ fin[t].pc = "commit"
                    /\ MergedInto(i, fin[t].m)
                    /\ fin'[t].m = history'[i]
                    /\ UNCHANGED gone
           /\ UNCHANGED <<session, written, pending, activeTabs, disk, content, dels, saves, rec,
                          clock, starts, exported>>
  <1> DEFINE f == fin[t]
  <1>1. f \in Fin /\ f.pc \in {"append", "commit"} /\ f.m \in Meeting
    BY FinFields DEF FinAppendFailure, FinCommit, TypeOK
  <1>2. UNCHANGED <<session, written, pending, activeTabs, disk, content, dels, saves, rec,
                    clock, starts, exported>>
    BY DEF FinAppendFailure, FinCommit
  <1>3. \A u \in Tabs \ {t} : fin'[u] = fin[u]
    BY DEF FinAppendFailure, FinCommit, TypeOK
  <1>4. /\ fin'[t].pc = IF f.pc = "append" THEN "remove" ELSE "mark"
        /\ fin'[t].s = f.s
    BY <1>1 DEF FinAppendFailure, FinCommit, TypeOK, Fin
  <1>5. CASE AppendToHistory(f.m) /\ fin' = [fin EXCEPT ![t].pc = IF f.pc = "append" THEN "remove"
                                                                                   ELSE "mark"]
    <2>1. fin'[t].m = f.m
      BY <1>1, <1>5 DEF TypeOK, Fin
    <2>2. QED
      BY <1>1, <1>2, <1>3, <1>4, <1>5, <2>1, AppendedBy DEF Building
  <1>6. ASSUME NEW i \in DOMAIN history, f.pc = "commit",
               history' = [history EXCEPT ![i] = MergeMeetings(history[i], f.m)],
               fin' = [fin EXCEPT ![t].pc = "mark", ![t].m = MergeMeetings(history[i], f.m)],
               UNCHANGED gone
        PROVE  /\ MergedInto(i, f.m)
               /\ fin'[t].m = history'[i]
    <2>1. MergedInto(i, f.m)
      BY <1>6 DEF MergedInto, TypeOK
    <2>2. fin'[t].m = MergeMeetings(history[i], f.m)
      BY <1>1, <1>6 DEF TypeOK, Fin
    <2>3. QED
      BY <2>1, <2>2 DEF MergedInto
  <1>7. QED
    BY <1>1, <1>2, <1>3, <1>4, <1>5, <1>6 DEF FinAppendFailure, FinCommit, Building

(* What a page's step leaves of the worker's own state: at most a finalization   *)
(* begun, and callers that are no longer there.                               *)
PageLeavesWorker ==
    /\ UNCHANGED <<written, history, pending, disk, saves, rec, starts, exported, gone>>
    /\ clock' \in Nat /\ clock <= clock'
    /\ \A u \in Tabs : \/ fin'[u].pc = "session" /\ fin'[u].m = None
                       \/ /\ fin'[u].pc = fin[u].pc
                          /\ fin'[u].s = fin[u].s
                          /\ fin'[u].m = fin[u].m
    /\ \A d \in dels' : \E e \in dels : d.m = e.m /\ d.pc = e.pc

LEMMA DeafenLeaves ==
    ASSUME TypeOK, NEW t \in Tabs, Deafen(t)
    PROVE  \A d \in dels' : \E e \in dels : d.m = e.m /\ d.pc = e.pc
  <1>1. \A e \in dels : Unheard(e).m = e.m /\ Unheard(e).pc = e.pc
    BY DEF Unheard, TypeOK, Delivery
  <1>2. QED
    BY <1>1 DEF Deafen

LEMMA StartLeaves ==
    ASSUME TypeOK, NEW t \in Tabs, NEW who, StartFinalize(t, who)
    PROVE  /\ fin'[t].pc = "session" /\ fin'[t].m = None
           /\ \A u \in Tabs \ {t} : fin'[u] = fin[u]
  BY DEF StartFinalize, NoFin, TypeOK

LEMMA UnheardLeaves ==
    ASSUME TypeOK, NEW t \in Tabs, fin' = [fin EXCEPT ![t] = Unheard(@)]
    PROVE  \A u \in Tabs : /\ fin'[u].pc = fin[u].pc
                           /\ fin'[u].s = fin[u].s
                           /\ fin'[u].m = fin[u].m
  <1>1. fin[t] \in Fin
    BY DEF TypeOK
  <1>2. /\ Unheard(fin[t]).pc = fin[t].pc
        /\ Unheard(fin[t]).s = fin[t].s
        /\ Unheard(fin[t]).m = fin[t].m
    BY <1>1 DEF Unheard, Fin
  <1>3. QED
    BY <1>2 DEF TypeOK

LEMMA PageEffect ==
    ASSUME TypeOK, NEW t \in Tabs, Page(t) \/ MeetingEnded(t)
    PROVE  PageLeavesWorker
  <1> USE DEF store, worker, ghosts
  <1>1. clock \in Nat
    BY DEF TypeOK
  <1>2. ASSUME NEW r \in Rooms, ReadPrevious(t, r) PROVE PageLeavesWorker
    BY <1>1, <1>2 DEF ReadPrevious, PageLeavesWorker
  <1>3. ASSUME NEW private \in Privacies, NEW heard \in BOOLEAN, Join(t, private, heard)
        PROVE  PageLeavesWorker
    BY <1>1, <1>3 DEF Join, PageLeavesWorker
  <1>4. CASE LeaveLobby(t) \/ Capture(t) \/ Attend(t) \/ Wipe(t)
    BY <1>1, <1>4 DEF LeaveLobby, Capture, Attend, Wipe, PageLeavesWorker
  <1>5. ASSUME NEW private \in Privacies, SetPrivate(t, private) PROVE PageLeavesWorker
    BY <1>1, <1>5 DEF SetPrivate, PageLeavesWorker
  <1>6. CASE WriteSession(t) \/ EndMeeting(t) \/ RelaySession(t)
    BY <1>1, <1>6 DEF WriteSession, EndMeeting, RelaySession, PageLeavesWorker
  <1>7. CASE Reload(t)
    <2>1. \A d \in dels' : \E e \in dels : d.m = e.m /\ d.pc = e.pc
      BY <1>7, DeafenLeaves DEF Reload
    <2>2. \A u \in Tabs : fin'[u].pc = fin[u].pc /\ fin'[u].s = fin[u].s /\ fin'[u].m = fin[u].m
      BY <1>7, UnheardLeaves DEF Reload
    <2>3. QED
      BY <1>1, <1>7, <2>1, <2>2 DEF Reload, PageLeavesWorker
  <1>8. CASE CloseTab(t)
    <2>1. \A d \in dels' : \E e \in dels : d.m = e.m /\ d.pc = e.pc
      BY <1>8, DeafenLeaves DEF CloseTab
    <2>2. \A u \in Tabs : \/ fin'[u].pc = "session" /\ fin'[u].m = None
                          \/ /\ fin'[u].pc = fin[u].pc
                             /\ fin'[u].s = fin[u].s
                             /\ fin'[u].m = fin[u].m
      BY <1>8, UnheardLeaves, StartLeaves DEF CloseTab
    <2>3. QED
      BY <1>1, <1>8, <2>1, <2>2 DEF CloseTab, PageLeavesWorker
  <1>9. CASE MeetingEnded(t)
    <2>1. \A u \in Tabs : \/ fin'[u].pc = "session" /\ fin'[u].m = None
                          \/ /\ fin'[u].pc = fin[u].pc
                             /\ fin'[u].s = fin[u].s
                             /\ fin'[u].m = fin[u].m
      BY <1>9, StartLeaves DEF MeetingEnded
    <2>2. QED
      BY <1>1, <1>9, <2>1 DEF MeetingEnded, PageLeavesWorker
  <1>10. QED
    BY <1>2, <1>3, <1>4, <1>5, <1>6, <1>7, <1>8, <1>9 DEF Page

LEMMA VisitAt ==
    ASSUME NEW s \in Seq(Visit), NEW i \in DOMAIN s
    PROVE  s[i] \in Visit /\ s[i].startedAt \in Nat /\ s[i].words \in Nat
  <1>1. s[i] \in Visit
    OBVIOUS
  <1>2. QED
    BY <1>1 DEF Visit

LEMMA RowType ==
    ASSUME TypeOK, NEW j \in DOMAIN history
    PROVE  history[j] \in Meeting
  BY DEF TypeOK

LEMMA MeetingVisits ==
    ASSUME NEW m \in Meeting
    PROVE  m.visits \in Seq(Visit)
  BY DEF Meeting

(* What the end of a finalization, returning or throwing, leaves behind. *)
LEMMA FinIsReleased ==
    ASSUME TypeOK, NEW t \in Tabs, FinUntrack(t) \/ FinThrow(t)
    PROVE  /\ fin'[t].pc = "idle" /\ fin'[t].m = None
           /\ \A u \in Tabs \ {t} : fin'[u] = fin[u]
  <1>1. fin' = [fin EXCEPT ![t] = NoFin] /\ fin \in [Tabs -> Fin]
    BY DEF FinUntrack, FinThrow, TypeOK
  <1>2. fin'[t] = NoFin /\ \A u \in Tabs \ {t} : fin'[u] = fin[u]
    BY <1>1
  <1>3. QED
    BY <1>2 DEF NoFin

LEMMA UntrackEffect ==
    ASSUME TypeOK, NEW t \in Tabs, FinUntrack(t)
    PROVE  LET f == fin[t]
           IN  /\ \A d \in dels' \ dels : f.m # None /\ ~Failure(f.m) /\ d.m = f.m /\ d.pc = "download"
               /\ \A r \in rec'.results \ rec.results : f.m # None /\ ~Failure(f.m) /\ r.m = f.m
               /\ rec'.ids = rec.ids /\ rec'.id = rec.id /\ rec'.m = rec.m
               /\ rec' = rec \/ rec'.pc = "scan"
  <1> DEFINE f == fin[t]
             deliverable == f.m # None /\ ~Failure(f.m)
             sent == [tab |-> t, who |-> f.who, m |-> f.m, w |-> f.w, pc |-> "download"]
             result == [m |-> f.m, w |-> f.w]
  <1>1. rec \in Rec
    BY DEF TypeOK
  <1>2. sent.m = f.m /\ sent.pc = "download" /\ result.m = f.m
    OBVIOUS
  <1>3. \/ /\ rec' = [rec EXCEPT !.pc = "scan", !.results = IF deliverable THEN @ \cup {result} ELSE @]
           /\ dels' = dels
        \/ dels' = dels \cup {sent} /\ rec' = rec /\ deliverable
        \/ dels' = dels /\ rec' = rec
    BY DEF FinUntrack
  <1>4. ASSUME rec' = [rec EXCEPT !.pc = "scan", !.results = IF deliverable THEN @ \cup {result} ELSE @]
        PROVE  /\ rec'.ids = rec.ids /\ rec'.id = rec.id /\ rec'.m = rec.m /\ rec'.pc = "scan"
               /\ rec'.results = IF deliverable THEN rec.results \cup {result} ELSE rec.results
    BY <1>1, <1>4 DEF Rec
  <1> HIDE DEF sent, result
  <1>5. QED
    BY <1>2, <1>3, <1>4

LEMMA ThrowEffect ==
    ASSUME TypeOK, NEW t \in Tabs, FinThrow(t)
    PROVE  /\ dels' = dels
           /\ rec' = rec \/ (rec'.pc = "off" /\ rec'.ids = {} /\ rec'.results = {})
  <1>1. dels' = dels /\ rec' \in {rec, NoRec}
    BY DEF FinThrow
  <1>2. NoRec.pc = "off" /\ NoRec.ids = {} /\ NoRec.results = {}
    BY DEF NoRec
  <1>3. CASE rec' = NoRec
    BY <1>1, <1>2, <1>3
  <1>4. QED
    BY <1>1, <1>3

(* A step of the recovery between two of its tasks. *)
RecPauses == RecReadKeys \/ RecScanned \/ RecListPending \/ RecDone \/ RecFail

LEMMA PauseEffect ==
    ASSUME TypeOK, RecPauses
    PROVE  /\ rec'.pc \in {"scan", "deliver", "next", "off"}
           /\ rec'.results \subseteq rec.results
           /\ rec'.ids \subseteq rec.ids \cup pending
           /\ RecReadKeys \/ RecScanned \/ RecDone \/ RecFail => rec'.ids \subseteq rec.ids
  <1>1. rec \in Rec
    BY DEF TypeOK
  <1>2. CASE RecReadKeys
    BY <1>1, <1>2 DEF RecReadKeys, Rec
  <1>3. CASE RecScanned
    BY <1>1, <1>3 DEF RecScanned, Rec
  <1>4. CASE RecListPending
    <2>1. rec'.pc = "next" /\ rec'.results = rec.results /\ rec'.ids = pending
      BY <1>1, <1>4 DEF RecListPending, Rec
    <2>2. ~(RecReadKeys \/ RecScanned \/ RecDone \/ RecFail)
      BY <1>4 DEF RecListPending, RecReadKeys, RecScanned, RecDone, RecFail
    <2>3. QED
      BY <2>1, <2>2
  <1>5. CASE RecDone \/ RecFail
    <2>1. rec'.pc = "off" /\ rec'.results = {} /\ rec'.ids = {}
      BY <1>5 DEF RecDone, RecFail, NoRec
    <2>2. QED
      BY <2>1
  <1>6. QED
    BY <1>2, <1>3, <1>4, <1>5 DEF RecPauses

-------------------------------------------------------------------------------
(*                          Meetings have one number                        *)

(* The meeting a finalization has stored and still has to see on its way. *)
Holding(t) == fin[t].pc \in {"mark", "remove", "untrack"} /\ fin[t].m # None

(* A meeting of this number has been stored, or is being exported or cleared. *)
Used(id) ==
    \/ \E i \in DOMAIN history : history[i].id = id
    \/ id \in pending \cup rec.ids
    \/ rec.pc \in {"save", "clear"} /\ rec.id = id
    \/ \E d \in dels : d.m.id = id
    \/ \E r \in rec.results : r.m.id = id
    \/ \E t \in Tabs : Holding(t) /\ fin[t].m.id = id

(* A finalization builds its meeting under a number nothing has used, and no two  *)
(* meetings of history share one.                                            *)
Numbered ==
    /\ \A t \in Tabs : fin[t].pc \in {"idle", "session", "untrackOnly", "written"} => fin[t].m = None
    /\ \A id \in Nat : Used(id) => id <= clock
    /\ \A t \in Tabs : Building(t) =>
          /\ fin[t].m.id <= clock
          /\ ~Used(fin[t].m.id)
          /\ \A u \in Tabs \ {t} : Building(u) => fin[u].m.id # fin[t].m.id
    /\ \A i, j \in DOMAIN history : history[i].id = history[j].id => i = j

(* No step but a commit and FinReadWritten does more than this. *)
OnlyForgets ==
    /\ history' = history
    /\ clock <= clock'
    /\ \A t \in Tabs : /\ Building(t)' => Building(t) /\ fin'[t].m = fin[t].m
                       /\ fin'[t].pc \in {"idle", "session", "untrackOnly", "written"} => fin'[t].m = None
    /\ \A id \in Nat : Used(id)' => Used(id)

LEMMA NumbersForgotten ==
    ASSUME TypeOK, TypeOK', Numbered, OnlyForgets
    PROVE  Numbered'
  <1>1. clock \in Nat /\ clock' \in Nat
    BY DEF TypeOK
  <1>2. \A t \in Tabs : Building(t) => fin[t].m \in Meeting /\ fin[t].m.id \in Nat
    BY FinFields DEF TypeOK, Building, Meeting
  <1>3. \A id \in Nat : Used(id)' => id <= clock'
    BY <1>1 DEF Numbered, OnlyForgets
  <1>4. ASSUME NEW t \in Tabs, Building(t)'
        PROVE  /\ fin'[t].m.id <= clock'
               /\ ~Used(fin[t].m.id)'
               /\ \A u \in Tabs \ {t} : Building(u)' => fin'[u].m.id # fin'[t].m.id
    BY <1>1, <1>2, <1>4 DEF Numbered, OnlyForgets
  <1>5. QED
    BY <1>3, <1>4 DEF Numbered, OnlyForgets

LEMMA PageForgets ==
    ASSUME TypeOK, Numbered, PageLeavesWorker
    PROVE  OnlyForgets
  <1>1. \A t \in Tabs : Holding(t)' => Holding(t) /\ fin'[t].m = fin[t].m
    BY DEF PageLeavesWorker, Holding
  <1>2. \A id \in Nat : Used(id)' => Used(id)
    BY <1>1 DEF PageLeavesWorker, Used
  <1>3. QED
    BY <1>2 DEF PageLeavesWorker, OnlyForgets, Building, Numbered

LEMMA FinalizationForgets ==
    ASSUME TypeOK, Numbered, NEW t \in Tabs,
           FinReadSession(t) \/ FinMark(t) \/ FinRemove(t) \/ FinUntrack(t) \/ FinThrow(t)
    PROVE  OnlyForgets
  <1> USE DEF store, worker, ghosts
  <1>1. clock \in Nat /\ fin[t] \in Fin
    BY DEF TypeOK
  <1>2. CASE FinReadSession(t)
    <2>1. /\ fin'[t].pc \in {"untrackOnly", "written"} /\ fin'[t].m = fin[t].m
          /\ \A u \in Tabs \ {t} : fin'[u] = fin[u]
      BY <1>1, <1>2 DEF FinReadSession, TypeOK, Fin
    <2>2. \A u \in Tabs : /\ Holding(u)' => Holding(u) /\ fin'[u].m = fin[u].m
                          /\ Building(u)' => Building(u) /\ fin'[u].m = fin[u].m
      BY <2>1 DEF Holding, Building
    <2>3. UNCHANGED <<history, clock, pending, dels, rec>>
      BY <1>2 DEF FinReadSession
    <2>4. \A id \in Nat : Used(id)' => Used(id)
      BY <2>2, <2>3 DEF Used
    <2>5. fin'[t].m = None
      BY <1>2, <2>1 DEF FinReadSession, Numbered
    <2>6. QED
      BY <1>1, <2>1, <2>2, <2>3, <2>4, <2>5 DEF OnlyForgets, Numbered
  <1>3. CASE FinMark(t)
    <2>1. /\ fin'[t].pc = "remove" /\ fin'[t].m = fin[t].m
          /\ \A u \in Tabs \ {t} : fin'[u] = fin[u]
      BY <1>1, <1>3 DEF FinMark, TypeOK, Fin
    <2>2. \A u \in Tabs : /\ Holding(u)' => Holding(u) /\ fin'[u].m = fin[u].m
                          /\ Building(u)' => Building(u) /\ fin'[u].m = fin[u].m
      BY <1>3, <2>1 DEF Holding, Building, FinMark
    <2>3. Holding(t)
      BY <1>1, <1>3, NoneAssumption, FinFields DEF FinMark, Holding
    <2>4. QED
      BY <1>1, <1>3, <2>1, <2>2, <2>3 DEF FinMark, OnlyForgets, Used, Numbered
  <1>4. CASE FinRemove(t)
    <2>1. /\ fin'[t].pc = "untrack" /\ fin'[t].m = fin[t].m
          /\ \A u \in Tabs \ {t} : fin'[u] = fin[u]
      BY <1>1, <1>4 DEF FinRemove, TypeOK, Fin
    <2>2. \A u \in Tabs : /\ Holding(u)' => Holding(u) /\ fin'[u].m = fin[u].m
                          /\ Building(u)' => Building(u) /\ fin'[u].m = fin[u].m
      BY <1>4, <2>1 DEF Holding, Building, FinRemove
    <2>3. QED
      BY <1>1, <1>4, <2>1, <2>2 DEF FinRemove, OnlyForgets, Used, Numbered
  <1>5. CASE FinThrow(t)
    <2>1. /\ fin'[t].pc = "idle" /\ fin'[t].m = None
          /\ \A u \in Tabs \ {t} : fin'[u] = fin[u]
      BY <1>5 DEF FinThrow, TypeOK, NoFin
    <2>2. \A u \in Tabs : /\ Holding(u)' => Holding(u) /\ fin'[u].m = fin[u].m
                          /\ Building(u)' => Building(u) /\ fin'[u].m = fin[u].m
      BY <2>1 DEF Holding, Building
    <2>3. \/ rec' = rec
          \/ rec'.ids = {} /\ rec'.results = {} /\ rec'.pc = "off"
      BY <1>5 DEF FinThrow, NoRec
    <2>4. QED
      BY <1>1, <1>5, <2>1, <2>2, <2>3 DEF FinThrow, OnlyForgets, Used, Numbered
  <1>6. CASE FinUntrack(t)
    <2>1. /\ fin'[t].pc = "idle" /\ fin'[t].m = None
          /\ \A u \in Tabs \ {t} : fin'[u] = fin[u]
      BY <1>6, FinIsReleased
    <2>2. \A u \in Tabs : /\ Holding(u)' => Holding(u) /\ fin'[u].m = fin[u].m
                          /\ Building(u)' => Building(u) /\ fin'[u].m = fin[u].m
      BY <2>1 DEF Holding, Building
    <2>3. fin[t].m # None => Holding(t)
      BY <1>6 DEF FinUntrack, Holding, Numbered
    <2>4. /\ \A d \in dels' \ dels : fin[t].m # None /\ d.m = fin[t].m
          /\ \A r \in rec'.results \ rec.results : fin[t].m # None /\ r.m = fin[t].m
          /\ rec'.ids = rec.ids /\ rec'.id = rec.id
          /\ rec'.pc \in {"save", "clear"} => rec'.pc = rec.pc
      BY <1>6, UntrackEffect
    <2>5. \A id \in Nat : Used(id)' => Used(id)
      BY <1>6, <2>2, <2>3, <2>4 DEF FinUntrack, Used
    <2>6. QED
      BY <1>1, <1>6, <2>1, <2>2, <2>5 DEF FinUntrack, OnlyForgets, Numbered
  <1>7. QED
    BY <1>2, <1>3, <1>4, <1>5, <1>6

LEMMA BuildingTakesNumber ==
    ASSUME TypeOK, TypeOK', Numbered, NEW t \in Tabs, FinReadWritten(t)
    PROVE  Numbered'
  <1> USE DEF store, worker, ghosts
  <1> DEFINE m == SessionToMeeting(fin[t].s, clock + 1, clock + 1)
  <1>1. clock \in Nat /\ fin[t] \in Fin /\ fin[t].pc = "written" /\ fin[t].m = None
    BY DEF TypeOK, FinReadWritten, Numbered
  <1>2. \A u \in Tabs \ {t} : fin'[u] = fin[u]
    BY DEF FinReadWritten, TypeOK
  <1>3. \A u \in Tabs : Building(u) => fin[u].m.id \in Nat
    BY FinFields DEF TypeOK, Building, Meeting
  <1>4. CASE fin' = [fin EXCEPT ![t].pc = "remove", ![t].w = written[t]] /\ clock' = clock
    <2>1. fin'[t].pc = "remove" /\ fin'[t].m = None
      BY <1>1, <1>4 DEF TypeOK, Fin
    <2>2. \A u \in Tabs : /\ Holding(u)' => Holding(u) /\ fin'[u].m = fin[u].m
                          /\ Building(u)' => Building(u) /\ fin'[u].m = fin[u].m
      BY <1>2, <2>1 DEF Holding, Building
    <2>3. \A id \in Nat : Used(id)' => Used(id)
      BY <2>2 DEF FinReadWritten, Used
    <2>4. OnlyForgets
      <3>1. history' = history /\ clock' = clock
        BY <1>4 DEF FinReadWritten
      <3>2. \A u \in Tabs : fin'[u].pc \in {"idle", "session", "untrackOnly", "written"} => fin'[u].m = None
        BY <1>2, <2>1 DEF Numbered
      <3>3. QED
        BY <1>1, <2>2, <2>3, <3>1, <3>2 DEF OnlyForgets
    <2>5. QED
      BY <2>4, NumbersForgotten
  <1>5. ASSUME clock' = clock + 1, NEW merge \in MergeModes,
               fin' = [fin EXCEPT ![t].pc = IF Empty(fin[t].s) THEN "append" ELSE "commit",
                                  ![t].w = written[t], ![t].m = m, ![t].merge = merge]
        PROVE  Numbered'
    <2>1. fin'[t].pc \in {"append", "commit"} /\ fin'[t].m = m /\ m.id = clock + 1
      BY <1>1, <1>5 DEF TypeOK, Fin, SessionToMeeting
    <2>2. \A u \in Tabs : Holding(u)' => Holding(u) /\ fin'[u].m = fin[u].m
      BY <1>2, <2>1 DEF Holding
    <2>3. \A id \in Nat : Used(id)' => Used(id)
      BY <2>2 DEF FinReadWritten, Used
    <2>4. \A id \in Nat : Used(id)' => id <= clock
      BY <2>3 DEF Numbered
    <2>5. \A u \in Tabs \ {t} : Building(u)' => Building(u) /\ fin'[u].m = fin[u].m
      BY <1>2 DEF Building
    <2>6. ASSUME NEW u \in Tabs, Building(u)'
          PROVE  /\ fin'[u].m.id <= clock'
                 /\ ~Used(fin[u].m.id)'
                 /\ \A x \in Tabs \ {u} : Building(x)' => fin'[x].m.id # fin'[u].m.id
      <3>1. CASE u = t
        <4>1. fin'[t].m.id = clock' /\ clock' \in Nat
          BY <1>1, <1>5, <2>1
        <4>2. \A x \in Tabs \ {t} : Building(x)' => fin'[x].m.id <= clock /\ fin'[x].m.id \in Nat
          BY <1>3, <2>5 DEF Numbered
        <4>3. ~Used(clock)'
          <5>1. Used(clock)' => clock' <= clock
            BY <2>4, <4>1
          <5>2. QED
            BY <1>1, <1>5, <5>1
        <4>4. ~Used(fin[t].m.id)'
          BY <4>1, <4>3
        <4>5. ASSUME NEW x \in Tabs \ {t}, Building(x)' PROVE fin'[x].m.id # fin'[t].m.id
          <5> DEFINE n == fin'[x].m.id
          <5>1. n <= clock /\ n \in Nat
            BY <4>2, <4>5
          <5> HIDE DEF n
          <5>2. n # clock'
            BY <1>1, <1>5, <5>1
          <5>3. QED
            BY <4>1, <5>2 DEF n
        <4>6. fin'[t].m.id <= clock'
          BY <4>1
        <4>7. QED
          BY <3>1, <4>4, <4>5, <4>6
      <3>2. CASE u # t
        <4>1. Building(u) /\ fin'[u].m = fin[u].m /\ fin[u].m.id \in Nat
          BY <1>3, <2>5, <2>6, <3>2
        <4>2. fin[u].m.id <= clock /\ ~Used(fin[u].m.id)
          BY <4>1 DEF Numbered
        <4>3. \A x \in Tabs \ {u} : Building(x)' => fin'[x].m.id # fin[u].m.id
          BY <1>1, <2>1, <2>5, <4>1, <4>2 DEF Numbered
        <4>4. ~Used(fin[u].m.id)'
          BY <2>3, <4>1, <4>2
        <4>5. fin'[u].m.id <= clock'
          BY <1>1, <1>5, <4>1, <4>2
        <4>6. QED
          BY <4>1, <4>3, <4>4, <4>5
      <3>3. QED
        BY <3>1, <3>2
    <2>7. \A u \in Tabs : fin'[u].pc \in {"idle", "session", "untrackOnly", "written"} => fin'[u].m = None
      BY <1>2, <2>1 DEF Numbered
    <2>8. history' = history
      BY DEF FinReadWritten
    <2>9. \A id \in Nat : Used(id)' => id <= clock'
      BY <1>1, <1>5, <2>4
    <2>10. QED
      BY <2>6, <2>7, <2>8, <2>9 DEF Numbered
  <1>6. QED
    BY <1>4, <1>5 DEF FinReadWritten

LEMMA MergeKeepsNumber ==
    ASSUME NEW a \in Meeting, NEW b \in Meeting
    PROVE  MergeMeetings(a, b).id = a.id
  BY DEF MergeMeetings, Meeting

LEMMA CommitUsesNumber ==
    ASSUME TypeOK, TypeOK', Numbered, NEW t \in Tabs, FinAppendFailure(t) \/ FinCommit(t)
    PROVE  Numbered'
  <1> DEFINE m == fin[t].m
  <1>1. /\ Building(t) /\ m \in Meeting
        /\ fin'[t].pc \in {"remove", "mark"}
        /\ \A u \in Tabs \ {t} : fin'[u] = fin[u]
        /\ UNCHANGED <<pending, dels, rec, clock>>
    BY CommitEffect
  <1>2. clock \in Nat /\ m.id \in Nat /\ m.id <= clock /\ ~Used(m.id)
    BY <1>1 DEF TypeOK, Meeting, Numbered
  <1>3. \A u \in Tabs : /\ Building(u)' => u # t /\ Building(u) /\ fin'[u].m = fin[u].m
                        /\ u # t /\ Holding(u)' => Holding(u) /\ fin'[u].m = fin[u].m
    BY <1>1 DEF Building, Holding
  <1>4. \A u \in Tabs : fin'[u].pc \in {"idle", "session", "untrackOnly", "written"} => fin'[u].m = None
    BY <1>1 DEF Numbered
  <1>5. \A u \in Tabs : Building(u) => fin[u].m \in Meeting /\ fin[u].m.id \in Nat
    BY FinFields DEF TypeOK, Building, Meeting
  <1>6. CASE Appended(m) /\ fin'[t].m = m
    <2>1. \A j \in DOMAIN history' : \/ history'[j] = m
                                     \/ \E i \in DOMAIN history : history'[j] = history[i]
      BY <1>6 DEF Appended
    <2>2. \A id \in Nat : Used(id)' => Used(id) \/ id = m.id
      BY <1>1, <1>3, <1>6, <2>1 DEF Used
    <2>3. \A id \in Nat : Used(id)' => id <= clock'
      BY <1>1, <1>2, <2>2 DEF Numbered
    <2>4. ASSUME NEW u \in Tabs, Building(u)'
          PROVE  /\ fin'[u].m.id <= clock'
                 /\ ~Used(fin[u].m.id)'
                 /\ \A x \in Tabs \ {u} : Building(x)' => fin'[x].m.id # fin'[u].m.id
      <3>1. u # t /\ Building(u) /\ fin'[u].m = fin[u].m /\ fin[u].m.id \in Nat
        BY <1>3, <1>5, <2>4
      <3>2. fin[u].m.id # m.id /\ ~Used(fin[u].m.id) /\ fin[u].m.id <= clock
        BY <1>1, <3>1 DEF Numbered
      <3>3. ~Used(fin[u].m.id)'
        BY <2>2, <3>1, <3>2
      <3>4. \A x \in Tabs \ {u} : Building(x)' => fin'[x].m.id # fin'[u].m.id
        BY <1>3, <3>1 DEF Numbered
      <3>5. QED
        BY <1>1, <3>1, <3>2, <3>3, <3>4
    <2>5. ASSUME NEW i \in DOMAIN history', NEW j \in DOMAIN history', history'[i].id = history'[j].id
          PROVE  i = j
      <3>1. \A k \in DOMAIN history : history[k].id # m.id
        BY <1>2 DEF Used
      <3>2. PICK off \in Nat : \A k \in DOMAIN history' :
                /\ k + off \in 1 .. Len(history) + 1
                /\ k + off \in DOMAIN history => history'[k] = history[k + off]
                /\ k + off \notin DOMAIN history => history'[k] = m
        BY <1>6 DEF Appended
      <3>3. history \in Seq(Meeting) /\ history' \in Seq(Meeting)
        BY DEF TypeOK
      <3>4. i \in Nat /\ j \in Nat /\ Len(history) \in Nat /\ DOMAIN history = 1 .. Len(history)
        BY <3>3
      <3>5. i + off \in DOMAIN history \/ i + off = Len(history) + 1
        BY <3>2, <3>4
      <3>6. j + off \in DOMAIN history \/ j + off = Len(history) + 1
        BY <3>2, <3>4
      <3>7. i + off = j + off
        BY <2>5, <3>1, <3>2, <3>4, <3>5, <3>6 DEF Numbered
      <3>8. QED
        BY <3>4, <3>7
    <2>6. QED
      BY <1>4, <2>3, <2>4, <2>5 DEF Numbered
  <1>7. ASSUME NEW i \in DOMAIN history, MergedInto(i, m), fin'[t].m = history'[i]
        PROVE  Numbered'
    <2>1. history[i] \in Meeting
      BY DEF TypeOK
    <2>2. history'[i].id = history[i].id
      BY <1>1, <1>7, <2>1, MergeKeepsNumber DEF MergedInto
    <2>3. DOMAIN history' = DOMAIN history /\ \A j \in DOMAIN history : history'[j].id = history[j].id
      BY <1>7, <2>2 DEF MergedInto
    <2>4. \A id \in Nat : Used(id)' => Used(id)
      BY <1>1, <1>3, <1>7, <2>3 DEF Used
    <2>5. \A id \in Nat : Used(id)' => id <= clock'
      BY <1>1, <2>4 DEF Numbered
    <2>6. ASSUME NEW u \in Tabs, Building(u)'
          PROVE  /\ fin'[u].m.id <= clock'
                 /\ ~Used(fin[u].m.id)'
                 /\ \A x \in Tabs \ {u} : Building(x)' => fin'[x].m.id # fin'[u].m.id
      BY <1>1, <1>3, <1>5, <2>4, <2>6 DEF Numbered
    <2>7. \A x, y \in DOMAIN history' : history'[x].id = history'[y].id => x = y
      BY <2>3 DEF Numbered
    <2>8. QED
      BY <1>4, <2>5, <2>6, <2>7 DEF Numbered
  <1>8. QED
    BY <1>6, <1>7, CommitEffect

LEMMA OthersForget ==
    ASSUME TypeOK, Numbered,
           \/ \E d \in dels : Deliver(d) \/ DeliverFail(d)
           \/ \E t \in Tabs : SaveStart(t) \/ Saving(t) \/ SaveFail(t)
           \/ Recovery \/ RecFail
           \/ Restart \/ UpdateAvailable \/ BrowserCrash
           \/ UNCHANGED vars
    PROVE  OnlyForgets
  <1> USE DEF store, worker, ghosts
  <1>1. clock \in Nat /\ rec \in Rec
    BY DEF TypeOK
  <1>2. ASSUME fin' = fin, history' = history, clock' = clock, \A id \in Nat : Used(id)' => Used(id)
        PROVE  OnlyForgets
    BY <1>1, <1>2 DEF OnlyForgets, Building, Numbered
  <1>3. ASSUME NEW d \in dels, Deliver(d) \/ DeliverFail(d) PROVE OnlyForgets
    <2>1. [d EXCEPT !.pc = "clear"].m = d.m
      BY DEF TypeOK, Delivery
    <2>2. \A x \in dels' : \E y \in dels : x.m = y.m
      BY <1>3, <2>1 DEF Deliver, DeliverFile, DeliverClear, DeliverFail
    <2>3. /\ fin' = fin /\ history' = history /\ clock' = clock /\ rec' = rec /\ pending' \subseteq pending
      BY <1>3 DEF Deliver, DeliverFile, DeliverClear, DeliverFail
    <2>4. \A id \in Nat : Used(id)' => Used(id)
      BY <2>2, <2>3 DEF Used, Holding
    <2>5. QED
      BY <1>2, <2>3, <2>4
  <1>4. ASSUME NEW t \in Tabs, SaveStart(t) \/ Saving(t) \/ SaveFail(t) PROVE OnlyForgets
    <2>1. UNCHANGED <<fin, history, clock, rec, pending, dels>>
      BY <1>4 DEF SaveStart, Saving, SaveResolve, SaveReadWritten, SaveDownload, SaveRecord, SaveFail
    <2>2. QED
      BY <1>2, <2>1 DEF Used, Holding
  <1>5. ASSUME NEW t \in Tabs, RecScan(t) PROVE OnlyForgets
    <2>1. /\ rec'.ids = rec.ids /\ rec'.results = rec.results /\ rec'.pc \in {"scan", "await"}
          /\ UNCHANGED <<history, clock, pending, dels>>
      BY <1>1, <1>5 DEF RecScan, Rec
    <2>2. \A u \in Tabs : fin'[u] = fin[u] \/ (fin'[u].pc = "session" /\ fin'[u].m = None)
      BY <1>5, StartLeaves DEF RecScan
    <2>3. \A u \in Tabs : /\ Holding(u)' => Holding(u) /\ fin'[u].m = fin[u].m
                          /\ Building(u)' => Building(u) /\ fin'[u].m = fin[u].m
      BY <2>2 DEF Holding, Building
    <2>4. \A id \in Nat : Used(id)' => Used(id)
      BY <2>1, <2>3 DEF Used
    <2>5. QED
      BY <1>1, <2>1, <2>2, <2>3, <2>4 DEF OnlyForgets, Numbered
  <1>6. CASE RecReadKeys \/ RecScanned \/ RecDone \/ RecFail
    <2>1. /\ UNCHANGED <<fin, history, clock, pending, dels>>
          /\ rec'.ids \subseteq rec.ids /\ rec'.results \subseteq rec.results
          /\ rec'.pc \notin {"save", "clear"}
      BY <1>6, PauseEffect DEF RecPauses, RecReadKeys, RecScanned, RecDone, RecFail
    <2>2. \A id \in Nat : Used(id)' => Used(id)
      BY <2>1 DEF Used, Holding
    <2>3. QED
      BY <1>2, <2>1, <2>2
  <1>7. CASE RecDeliver
    <2>1. PICK r \in rec.results :
             rec' = [rec EXCEPT !.pc = "save", !.then = "deliver", !.results = @ \ {r},
                                !.id = r.m.id, !.m = r.m, !.w = r.w]
      BY <1>7 DEF RecDeliver
    <2>2. rec'.ids = rec.ids /\ rec'.results = rec.results \ {r} /\ rec'.id = r.m.id
      BY <1>1, <2>1 DEF Rec
    <2>3. UNCHANGED <<fin, history, clock, pending, dels>>
      BY <1>7 DEF RecDeliver
    <2>4. \A id \in Nat : Used(id)' => Used(id)
      BY <2>2, <2>3 DEF Used, Holding
    <2>5. QED
      BY <1>2, <2>3, <2>4
  <1>8. CASE RecListPending
    <2>1. /\ UNCHANGED <<fin, history, clock, pending, dels>>
          /\ rec'.ids = pending /\ rec'.results = rec.results /\ rec'.pc = "next"
      BY <1>1, <1>8 DEF RecListPending, Rec
    <2>2. \A id \in Nat : Used(id)' => Used(id)
      BY <2>1 DEF Used, Holding
    <2>3. QED
      BY <1>2, <2>1, <2>2
  <1>9. CASE RecNext
    <2>1. PICK id \in rec.ids :
            \/ \E i \in DOMAIN history :
                  rec' = [rec EXCEPT !.pc = "save", !.then = "next", !.ids = @ \ {id},
                                     !.id = id, !.m = history[i], !.w = None]
            \/ rec' = [rec EXCEPT !.pc = "clear", !.then = "next", !.ids = @ \ {id},
                                  !.id = id, !.m = None, !.w = None]
      BY <1>9 DEF RecNext
    <2>2. rec'.ids = rec.ids \ {id} /\ rec'.results = rec.results /\ rec'.id = id
      BY <1>1, <2>1 DEF Rec
    <2>3. UNCHANGED <<fin, history, clock, pending, dels>>
      BY <1>9 DEF RecNext
    <2>4. \A x \in Nat : Used(x)' => Used(x)
      BY <2>2, <2>3 DEF Used, Holding
    <2>5. QED
      BY <1>2, <2>3, <2>4
  <1>10. CASE RecSave \/ RecClear
    <2>1. /\ UNCHANGED <<fin, history, clock, dels>> /\ pending' \subseteq pending
          /\ rec'.ids = rec.ids /\ rec'.results = rec.results /\ rec'.id = rec.id
          /\ rec'.pc \in {"save", "clear"} => rec.pc \in {"save", "clear"}
      BY <1>1, <1>10 DEF RecSave, RecClear, Rec
    <2>2. \A id \in Nat : Used(id)' => Used(id)
      BY <2>1 DEF Used, Holding
    <2>3. QED
      BY <1>2, <2>1, <2>2
  <1>11. CASE Restart \/ UpdateAvailable \/ BrowserCrash
    <2>1. /\ UNCHANGED <<history, clock, pending>> /\ dels' = {}
          /\ rec'.ids = {} /\ rec'.results = {} /\ rec'.pc = "keys"
          /\ \A u \in Tabs : fin'[u].pc = "idle" /\ fin'[u].m = None
      BY <1>11 DEF Restart, UpdateAvailable, BrowserCrash, Reboot, NewRec, NoRec, NoFin
    <2>2. \A id \in Nat : Used(id)' => Used(id)
      BY <2>1 DEF Used, Holding
    <2>3. QED
      BY <1>1, <2>1, <2>2 DEF OnlyForgets, Building
  <1>12. CASE UNCHANGED vars
    <2>1. UNCHANGED <<fin, history, clock, rec, pending, dels>>
      BY <1>12 DEF vars
    <2>2. QED
      BY <1>2, <2>1 DEF Used, Holding
  <1>13. QED
    BY <1>3, <1>4, <1>5, <1>6, <1>7, <1>8, <1>9, <1>10, <1>11, <1>12 DEF Recovery

LEMMA DeletionForgets ==
    ASSUME TypeOK, TypeOK', Numbered, NEW i \in DOMAIN history, DeleteMeeting(i)
    PROVE  Numbered'
  <1> USE DEF store, worker, ghosts
  <1>1. Removed(i)
    BY RemovedBy
  <1>2. UNCHANGED <<pending, fin, dels, rec, clock>>
    BY DEF DeleteMeeting
  <1>3. history \in Seq(Meeting) /\ history' \in Seq(Meeting) /\ clock \in Nat
    BY DEF TypeOK
  <1>4. \A j \in DOMAIN history' : j \in Nat
    BY <1>3
  <1>5. \A id \in Nat : Used(id)' => Used(id)
    BY <1>1, <1>2 DEF Used, Holding, Removed
  <1>6. \A j, k \in DOMAIN history' : history'[j].id = history'[k].id => j = k
    <2> SUFFICES ASSUME NEW j \in DOMAIN history', NEW k \in DOMAIN history',
                        history'[j].id = history'[k].id
                 PROVE  j = k
      OBVIOUS
    <2> DEFINE at(x) == IF x < i THEN x ELSE x + 1
    <2>1. /\ at(j) \in DOMAIN history /\ history'[j] = history[at(j)]
          /\ at(k) \in DOMAIN history /\ history'[k] = history[at(k)]
          /\ at(j) # i /\ at(k) # i
      BY <1>1 DEF Removed
    <2>2. at(j) = at(k)
      BY <2>1 DEF Numbered
    <2>3. j \in Nat /\ k \in Nat /\ i \in Nat
      BY <1>3, <1>4
    <2>4. QED
      BY <2>2, <2>3
  <1>7. \A t \in Tabs : Building(t) => fin[t].m.id \in Nat
    BY FinFields DEF TypeOK, Building, Meeting
  <1>8. \A t \in Tabs : Building(t)' <=> Building(t)
    BY <1>2 DEF Building
  <1>9. QED
    BY <1>2, <1>3, <1>5, <1>6, <1>7, <1>8 DEF Numbered

LEMMA NumberedStep == TypeOK /\ TypeOK' /\ Numbered /\ [Next]_vars => Numbered'
  <1> SUFFICES ASSUME TypeOK, TypeOK', Numbered, [Next]_vars PROVE Numbered'
    OBVIOUS
  <1>1. ASSUME NEW t \in Tabs, Page(t) \/ MeetingEnded(t) PROVE Numbered'
    BY <1>1, PageEffect, PageForgets, NumbersForgotten
  <1>2. ASSUME NEW t \in Tabs, Finalization(t) \/ FinThrow(t) PROVE Numbered'
    BY <1>2, FinalizationForgets, BuildingTakesNumber, CommitUsesNumber, NumbersForgotten
       DEF Finalization
  <1>3. ASSUME NEW i \in DOMAIN history, DeleteMeeting(i) PROVE Numbered'
    BY <1>3, DeletionForgets
  <1>4. QED
    BY <1>1, <1>2, <1>3, OthersForget, NumbersForgotten DEF Next, Failures

LEMMA NumberedHolds == Spec => []Numbered
  <1>1. Init => Numbered
    BY DEF Init, Numbered, Used, Building, Holding, NoFin, NewRec, NoRec
  <1>2. QED
    BY <1>1, TypeCorrect, NumberedStep, PTL DEF Spec

-------------------------------------------------------------------------------
(*                            Marks and their files                         *)

(* What is about to clear a mark has the file, or found the meeting gone. *)
DelsClear == \A d \in dels : d.pc = "clear" => FinalBody(d.m) \in exported
RecClears ==
    /\ rec.pc = "save" => rec.id = rec.m.id
    /\ rec.pc = "clear" =>
          IF rec.m = None
          THEN \A i \in DOMAIN history : history[i].id # rec.id
          ELSE rec.m.id = rec.id /\ FinalBody(rec.m) \in exported
Clears == DelsClear /\ RecClears

LEMMA DelsClearFrame ==
    ASSUME DelsClear, exported \subseteq exported',
           \A d \in dels' : \/ d.pc # "clear" \/ FinalBody(d.m) \in exported'
                            \/ \E e \in dels : d.m = e.m /\ d.pc = e.pc
    PROVE  DelsClear'
  BY DEF DelsClear

LEMMA RecClearsFrame ==
    ASSUME RecClears, exported \subseteq exported', UNCHANGED <<rec, history>>
    PROVE  RecClears'
  BY DEF RecClears

LEMMA DeliveryKeepsClears ==
    ASSUME TypeOK, Clears, NEW d \in dels, Deliver(d) \/ DeliverFail(d)
    PROVE  Clears'
  <1> USE DEF store, worker, ghosts
  <1>1. CASE DeliverFile(d)
    <2>1. [d EXCEPT !.pc = "clear"].m = d.m
      BY DEF TypeOK, Delivery
    <2>2. exported' = exported \cup {FinalBody(d.m)} /\ UNCHANGED <<rec, history>>
      BY <1>1 DEF DeliverFile, Download
    <2>3. \A x \in dels' : x \in dels \/ x.m = d.m
      BY <1>1, <2>1 DEF DeliverFile
    <2>4. QED
      BY <2>2, <2>3, DelsClearFrame, RecClearsFrame DEF Clears
  <1>2. CASE DeliverClear(d) \/ DeliverFail(d)
    <2>1. UNCHANGED <<rec, history, exported>> /\ dels' \subseteq dels
      BY <1>2 DEF DeliverClear, DeliverFail
    <2>2. QED
      BY <2>1, DelsClearFrame, RecClearsFrame DEF Clears
  <1>3. QED
    BY <1>1, <1>2 DEF Deliver

LEMMA RecoveryKeepsClears ==
    ASSUME TypeOK, Clears, Recovery \/ RecFail
    PROVE  Clears'
  <1> USE DEF store, worker, ghosts
  <1>1. rec \in Rec
    BY DEF TypeOK
  <1>2. dels' = dels /\ history' = history
    BY DEF Recovery, RecReadKeys, RecScan, RecScanned, RecDeliver, RecListPending, RecNext,
           RecSave, RecClear, RecDone, RecFail
  <1>3. exported \subseteq exported'
    BY DEF Recovery, RecReadKeys, RecScan, RecScanned, RecDeliver, RecListPending, RecNext,
           RecSave, RecClear, RecDone, RecFail, Download
  <1>4. DelsClear'
    BY <1>2, <1>3, DelsClearFrame DEF Clears
  <1>5. CASE RecReadKeys \/ RecScanned \/ RecListPending \/ RecDone \/ RecFail
    <2>1. rec'.pc \notin {"save", "clear"}
      BY <1>5, PauseEffect DEF RecPauses, RecReadKeys, RecScanned, RecListPending, RecDone, RecFail
    <2>2. QED
      BY <1>4, <2>1 DEF Clears, RecClears
  <1>6. ASSUME NEW t \in Tabs, RecScan(t) PROVE Clears'
    <2>1. rec'.pc \in {"scan", "await"}
      BY <1>1, <1>6 DEF RecScan, Rec
    <2>2. QED
      BY <1>4, <2>1 DEF Clears, RecClears
  <1>7. CASE RecDeliver
    <2>1. PICK r \in rec.results :
             rec' = [rec EXCEPT !.pc = "save", !.then = "deliver", !.results = @ \ {r},
                                !.id = r.m.id, !.m = r.m, !.w = r.w]
      BY <1>7 DEF RecDeliver
    <2>2. rec'.pc = "save" /\ rec'.id = r.m.id /\ rec'.m = r.m
      BY <1>1, <2>1 DEF Rec
    <2>3. QED
      BY <1>4, <2>2 DEF Clears, RecClears
  <1>8. CASE RecNext
    <2>1. PICK id \in rec.ids :
            \/ \E i \in DOMAIN history :
                  /\ history[i].id = id
                  /\ rec' = [rec EXCEPT !.pc = "save", !.then = "next", !.ids = @ \ {id},
                                        !.id = id, !.m = history[i], !.w = None]
            \/ /\ \A i \in DOMAIN history : history[i].id # id
               /\ rec' = [rec EXCEPT !.pc = "clear", !.then = "next", !.ids = @ \ {id},
                                     !.id = id, !.m = None, !.w = None]
      BY <1>8 DEF RecNext
    <2>2. ASSUME NEW i \in DOMAIN history, history[i].id = id,
                 rec' = [rec EXCEPT !.pc = "save", !.then = "next", !.ids = @ \ {id},
                                    !.id = id, !.m = history[i], !.w = None]
          PROVE  RecClears'
      <3>1. rec'.pc = "save" /\ rec'.id = id /\ rec'.m = history[i]
        BY <1>1, <2>2 DEF Rec
      <3>2. QED
        BY <2>2, <3>1 DEF RecClears
    <2>3. ASSUME \A i \in DOMAIN history : history[i].id # id,
                 rec' = [rec EXCEPT !.pc = "clear", !.then = "next", !.ids = @ \ {id},
                                    !.id = id, !.m = None, !.w = None]
          PROVE  RecClears'
      <3>1. rec'.pc = "clear" /\ rec'.id = id /\ rec'.m = None
        BY <1>1, <2>3 DEF Rec
      <3>2. QED
        BY <1>2, <2>3, <3>1 DEF RecClears
    <2>4. QED
      BY <1>4, <2>1, <2>2, <2>3 DEF Clears
  <1>9. CASE RecSave
    <2>1. /\ rec'.pc = "clear" /\ rec'.m = rec.m /\ rec'.id = rec.id
          /\ rec.m # None
          /\ FinalBody(rec.m) \in exported'
      BY <1>1, <1>9, NoneAssumption DEF RecSave, Download, Rec
    <2>2. QED
      BY <1>4, <1>9, <2>1 DEF Clears, RecClears, RecSave
  <1>10. CASE RecClear
    <2>1. rec'.pc \in {"deliver", "next"}
      BY <1>1, <1>10 DEF RecClear, Rec
    <2>2. QED
      BY <1>4, <2>1 DEF Clears, RecClears
  <1>11. QED
    BY <1>5, <1>6, <1>7, <1>8, <1>9, <1>10 DEF Recovery

LEMMA FinalizationKeepsClears ==
    ASSUME TypeOK, Numbered, Clears, NEW t \in Tabs, Finalization(t) \/ FinThrow(t)
    PROVE  Clears'
  <1> USE DEF store, worker, ghosts
  <1>1. rec \in Rec
    BY DEF TypeOK
  <1>2. CASE FinReadSession(t) \/ FinReadWritten(t) \/ FinMark(t) \/ FinRemove(t)
    <2>1. UNCHANGED <<dels, rec, history, exported>>
      BY <1>2 DEF FinReadSession, FinReadWritten, FinMark, FinRemove
    <2>2. QED
      BY <2>1, DelsClearFrame, RecClearsFrame DEF Clears
  <1>3. CASE FinUntrack(t) \/ FinThrow(t)
    <2>1. UNCHANGED <<history, exported>> /\ \A d \in dels' : d \in dels \/ d.pc # "clear"
      BY <1>3, UntrackEffect, ThrowEffect DEF FinUntrack, FinThrow
    <2>2. rec' = rec \/ rec'.pc \notin {"save", "clear"}
      BY <1>3, UntrackEffect, ThrowEffect
    <2>3. DelsClear'
      BY <2>1, DelsClearFrame DEF Clears
    <2>4. RecClears'
      BY <2>1, <2>2 DEF Clears, RecClears
    <2>5. QED
      BY <2>3, <2>4 DEF Clears
  <1>4. CASE FinAppendFailure(t) \/ FinCommit(t)
    <2>1. /\ Building(t) /\ fin[t].m \in Meeting
          /\ UNCHANGED <<dels, rec, exported>>
          /\ \/ Appended(fin[t].m)
             \/ \E i \in DOMAIN history : MergedInto(i, fin[t].m)
      BY <1>4, CommitEffect
    <2>2. rec.pc = "clear" => fin[t].m.id # rec.id
      BY <2>1 DEF Numbered, Used
    <2>3. \A j \in DOMAIN history' : \/ history'[j].id = fin[t].m.id
                                     \/ \E i \in DOMAIN history : history'[j].id = history[i].id
      <3>1. CASE Appended(fin[t].m)
        BY <3>1 DEF Appended
      <3>2. ASSUME NEW i \in DOMAIN history, MergedInto(i, fin[t].m)
            PROVE  \A j \in DOMAIN history' : \E k \in DOMAIN history : history'[j].id = history[k].id
        <4>1. history[i] \in Meeting
          BY DEF TypeOK
        <4>2. QED
          BY <2>1, <3>2, <4>1, MergeKeepsNumber DEF MergedInto
      <3>3. QED
        BY <2>1, <3>1, <3>2
    <2>4. RecClears'
      BY <2>1, <2>2, <2>3 DEF Clears, RecClears
    <2>5. QED
      BY <2>1, <2>4, DelsClearFrame DEF Clears
  <1>5. QED
    BY <1>2, <1>3, <1>4 DEF Finalization

LEMMA ClearsStep == TypeOK /\ Numbered /\ Clears /\ [Next]_vars => Clears'
  <1> SUFFICES ASSUME TypeOK, Numbered, Clears, [Next]_vars PROVE Clears'
    OBVIOUS
  <1> USE DEF store, worker, ghosts
  <1>1. ASSUME NEW t \in Tabs, Page(t) \/ MeetingEnded(t) PROVE Clears'
    <2>1. PageLeavesWorker
      BY <1>1, PageEffect
    <2>2. QED
      BY <2>1, DelsClearFrame, RecClearsFrame DEF PageLeavesWorker, Clears
  <1>2. ASSUME NEW t \in Tabs, Finalization(t) \/ FinThrow(t) PROVE Clears'
    BY <1>2, FinalizationKeepsClears
  <1>3. ASSUME NEW t \in Tabs, SaveStart(t) \/ Saving(t) \/ SaveFail(t) PROVE Clears'
    <2>1. UNCHANGED <<dels, rec, history, exported>>
      BY <1>3 DEF SaveStart, Saving, SaveResolve, SaveReadWritten, SaveDownload, SaveRecord, SaveFail
    <2>2. QED
      BY <2>1, DelsClearFrame, RecClearsFrame DEF Clears
  <1>4. ASSUME NEW d \in dels, Deliver(d) \/ DeliverFail(d) PROVE Clears'
    BY <1>4, DeliveryKeepsClears
  <1>5. CASE Recovery \/ RecFail
    BY <1>5, RecoveryKeepsClears
  <1>6. CASE Restart \/ UpdateAvailable \/ BrowserCrash
    <2>1. dels' = {} /\ rec'.pc = "keys"
      BY <1>6 DEF Restart, UpdateAvailable, BrowserCrash, Reboot, NewRec, NoRec
    <2>2. QED
      BY <2>1 DEF Clears, DelsClear, RecClears
  <1>7. ASSUME NEW i \in DOMAIN history, DeleteMeeting(i) PROVE Clears'
    <2>1. UNCHANGED <<dels, rec, exported>> /\ Removed(i)
      BY <1>7, RemovedBy DEF DeleteMeeting
    <2>2. RecClears'
      BY <2>1 DEF Clears, RecClears, Removed
    <2>3. QED
      BY <2>1, <2>2, DelsClearFrame DEF Clears
  <1>8. CASE UNCHANGED vars
    BY <1>8, DelsClearFrame, RecClearsFrame DEF Clears, vars
  <1>9. QED
    BY <1>1, <1>2, <1>3, <1>4, <1>5, <1>6, <1>7, <1>8 DEF Next, Failures

LEMMA ClearsHold == Spec => []Clears
  <1>1. Init => Clears
    BY DEF Init, Clears, DelsClear, RecClears, NewRec, NoRec
  <1>2. QED
    BY <1>1, TypeCorrect, NumberedHolds, ClearsStep, PTL DEF Spec

(* The only two actions that clear a mark do it with the file in hand. *)
LEMMA MarkClearers ==
    ASSUME TypeOK, [Next]_vars, ~(pending \subseteq pending')
    PROVE  (\E d \in dels : DeliverClear(d)) \/ RecClear
  <1> USE DEF store, worker, ghosts
  <1>1. ASSUME NEW t \in Tabs, Page(t) \/ MeetingEnded(t) PROVE pending' = pending
    BY <1>1, PageEffect DEF PageLeavesWorker
  <1>2. ASSUME NEW t \in Tabs, Finalization(t) \/ FinThrow(t) PROVE pending \subseteq pending'
    BY <1>2 DEF Finalization, FinReadSession, FinReadWritten, FinAppendFailure, FinCommit, FinMark,
                FinRemove, FinUntrack, FinThrow
  <1>3. ASSUME NEW t \in Tabs, SaveStart(t) \/ Saving(t) \/ SaveFail(t) PROVE pending' = pending
    BY <1>3 DEF SaveStart, Saving, SaveResolve, SaveReadWritten, SaveDownload, SaveRecord, SaveFail
  <1>4. ASSUME NEW d \in dels, DeliverFile(d) \/ DeliverFail(d) PROVE pending' = pending
    BY <1>4 DEF DeliverFile, DeliverFail
  <1>5. ASSUME RecReadKeys \/ (\E t \in Tabs : RecScan(t)) \/ RecScanned \/ RecDeliver
               \/ RecListPending \/ RecNext \/ RecSave \/ RecDone \/ RecFail
        PROVE  pending' = pending
    BY <1>5 DEF RecReadKeys, RecScan, RecScanned, RecDeliver, RecListPending, RecNext, RecSave,
                RecDone, RecFail
  <1>6. ASSUME Restart \/ UpdateAvailable \/ BrowserCrash \/ (\E i \in DOMAIN history : DeleteMeeting(i))
               \/ UNCHANGED vars
        PROVE  pending' = pending
    BY <1>6 DEF Restart, UpdateAvailable, BrowserCrash, DeleteMeeting, vars
  <1>7. QED
    BY <1>1, <1>2, <1>3, <1>4, <1>5, <1>6 DEF Next, Failures, Recovery, Deliver

LEMMA ClearingStep ==
    ASSUME TypeOK, Clears, [Next]_vars, NEW id \in pending \ pending'
    PROVE  \/ \E b \in exported : b.id = id
           \/ \A i \in DOMAIN history : history[i].id # id
  <1> USE DEF store, worker, ghosts
  <1>1. ASSUME NEW d \in dels, DeliverClear(d)
        PROVE  \E b \in exported : b.id = id
    <2>1. d.m \in Meeting /\ id = d.m.id
      BY <1>1 DEF DeliverClear, TypeOK, Delivery
    <2>2. FinalBody(d.m) \in exported /\ FinalBody(d.m).id = d.m.id
      BY <1>1 DEF DeliverClear, Clears, DelsClear, FinalBody
    <2>3. QED
      BY <2>1, <2>2
  <1>2. ASSUME RecClear
        PROVE  \/ \E b \in exported : b.id = id
               \/ \A i \in DOMAIN history : history[i].id # id
    <2>1. id = rec.id /\ rec.pc = "clear"
      BY <1>2 DEF RecClear
    <2>2. FinalBody(rec.m).id = rec.m.id
      BY DEF FinalBody
    <2>3. QED
      BY <2>1, <2>2 DEF Clears, RecClears
  <1>3. QED
    BY <1>1, <1>2, MarkClearers

(* A pending-export mark is only cleared once a file of that meeting has been    *)
(* confirmed, or history no longer has the meeting, whatever fails, stops or is   *)
(* merged into the meeting between its commit and the clearing (index.ts         *)
(* deliver and recoverPendingExports, store.ts clearPendingExport).           *)
THEOREM ClearedOnlyWhenExportedHolds == Spec => ClearedOnlyWhenExported
  <1>1. TypeOK /\ Clears /\ [Next]_vars =>
          [\A id \in pending \ pending' :
             \/ \E b \in exported : b.id = id
             \/ \A i \in DOMAIN history : history[i].id # id]_vars
    BY ClearingStep
  <1>2. QED
    BY <1>1, TypeCorrect, ClearsHold, PTL DEF Spec, ClearedOnlyWhenExported

-------------------------------------------------------------------------------
(*                           No file without a word                         *)

(* Whatever is on its way to a file has a word in it. *)
HistoryWorded ==
    /\ \A i \in DOMAIN history : history[i].id \in pending \cup rec.ids => ~Failure(history[i])
    /\ \A t \in Tabs : fin[t].pc = "commit" => ~Failure(fin[t].m)
    /\ \A t \in Tabs : fin[t].pc = "mark" =>
          /\ ~Failure(fin[t].m)
          /\ \A i \in DOMAIN history : history[i].id = fin[t].m.id => ~Failure(history[i])
DelsWorded  == \A d \in dels : ~Failure(d.m)
RecWorded   == /\ \A r \in rec.results : ~Failure(r.m)
               /\ rec.pc = "save" => ~Failure(rec.m)
SavesWorded == \A t \in Tabs : /\ saves[t].pc = "resolve" => ~Empty(saves[t].s)
                               /\ saves[t].pc \in {"written", "download", "record"} => ~Failure(saves[t].m)
Worded == HistoryWorded /\ DelsWorded /\ RecWorded /\ SavesWorded

LEMMA WordedMerge ==
    ASSUME NEW a \in Meeting, NEW b \in Meeting, ~Failure(b)
    PROVE  ~Failure(MergeMeetings(a, b))
  <1>1. PICK k \in DOMAIN b.visits : b.visits[k].words # 0
    BY DEF Failure
  <1>2. b.visits[k].words \in Nat
    BY MeetingVisits, VisitAt
  <1>3. Holds(b, b.visits[k].startedAt, b.visits[k].words)
    BY <1>2 DEF Holds
  <1>4. Holds(MergeMeetings(a, b), b.visits[k].startedAt, b.visits[k].words)
    BY <1>3, MergeHolds
  <1>5. PICK j \in DOMAIN MergeMeetings(a, b).visits :
          MergeMeetings(a, b).visits[j].words >= b.visits[k].words
    BY <1>4 DEF Holds
  <1>6. MergeMeetings(a, b).visits[j].words # 0
    BY <1>1, <1>2, <1>5
  <1>7. QED
    BY <1>6 DEF Failure

LEMMA WordedBuild ==
    ASSUME NEW s \in Session, NEW id, NEW at, ~Empty(s)
    PROVE  ~Failure(SessionToMeeting(s, id, at))
  <1>1. SessionToMeeting(s, id, at).visits = <<[startedAt |-> s.startedAt, words |-> s.words]>>
    BY DEF SessionToMeeting
  <1>2. QED
    BY <1>1 DEF Failure, Empty

LEMMA WordedFrame ==
    ASSUME HistoryWorded, history' = history,
           pending' \cup rec'.ids \subseteq pending \cup rec.ids,
           \A t \in Tabs : fin'[t].pc \in {"commit", "mark"} => fin'[t].pc = fin[t].pc /\ fin'[t].m = fin[t].m
    PROVE  HistoryWorded'
  BY DEF HistoryWorded

LEMMA FinalizationKeepsWorded ==
    ASSUME TypeOK, Numbered, Worded, NEW t \in Tabs, Finalization(t) \/ FinThrow(t)
    PROVE  Worded'
  <1> USE DEF store, worker, ghosts
  <1>1. fin[t] \in Fin /\ rec \in Rec
    BY DEF TypeOK
  <1>2. saves' = saves
    BY DEF Finalization, FinReadSession, FinReadWritten, FinAppendFailure, FinCommit, FinMark,
           FinRemove, FinUntrack, FinThrow
  <1>3. SavesWorded'
    BY <1>2 DEF Worded, SavesWorded
  <1>4. CASE FinReadSession(t) \/ FinRemove(t)
    <2>1. UNCHANGED <<dels, rec, history, pending>>
      BY <1>4 DEF FinReadSession, FinRemove
    <2>2. /\ fin'[t].pc \notin {"commit", "mark"}
          /\ \A u \in Tabs \ {t} : fin'[u] = fin[u]
      BY <1>1, <1>4 DEF FinReadSession, FinRemove, TypeOK, Fin
    <2>3. HistoryWorded'
      BY <2>1, <2>2, WordedFrame DEF Worded
    <2>4. QED
      BY <1>3, <2>1, <2>3 DEF Worded, DelsWorded, RecWorded
  <1>5. CASE FinReadWritten(t)
    <2>1. UNCHANGED <<dels, rec, history, pending>> /\ \A u \in Tabs \ {t} : fin'[u] = fin[u]
      BY <1>5 DEF FinReadWritten, TypeOK
    <2>2. fin[t].s \in Session /\ clock \in Nat
      BY <1>1, <1>5, FinFields DEF FinReadWritten, TypeOK
    <2>3. fin'[t].pc # "mark" /\ (fin'[t].pc = "commit" => ~Failure(fin'[t].m))
      <3>1. CASE fin' = [fin EXCEPT ![t].pc = "remove", ![t].w = written[t]]
        BY <1>1, <3>1 DEF TypeOK, Fin
      <3>2. ASSUME NEW merge \in MergeModes,
                   fin' = [fin EXCEPT ![t].pc = IF Empty(fin[t].s) THEN "append" ELSE "commit",
                                      ![t].w = written[t],
                                      ![t].m = SessionToMeeting(fin[t].s, clock + 1, clock + 1),
                                      ![t].merge = merge]
            PROVE  fin'[t].pc # "mark" /\ (fin'[t].pc = "commit" => ~Failure(fin'[t].m))
        <4>1. /\ fin'[t].pc = IF Empty(fin[t].s) THEN "append" ELSE "commit"
              /\ fin'[t].m = SessionToMeeting(fin[t].s, clock + 1, clock + 1)
          BY <1>1, <3>2 DEF TypeOK, Fin
        <4>2. QED
          BY <2>2, <4>1, WordedBuild
      <3>3. QED
        BY <1>5, <3>1, <3>2 DEF FinReadWritten
    <2>4. HistoryWorded'
      BY <2>1, <2>3 DEF Worded, HistoryWorded
    <2>5. QED
      BY <1>3, <2>1, <2>4 DEF Worded, DelsWorded, RecWorded
  <1>6. CASE FinMark(t)
    <2>1. UNCHANGED <<dels, rec, history>> /\ pending' = pending \cup {fin[t].m.id} /\ fin[t].pc = "mark"
      BY <1>6 DEF FinMark
    <2>2. fin'[t].pc = "remove" /\ \A u \in Tabs \ {t} : fin'[u] = fin[u]
      BY <1>1, <1>6 DEF FinMark, TypeOK, Fin
    <2>3. HistoryWorded'
      BY <2>1, <2>2 DEF Worded, HistoryWorded
    <2>4. QED
      BY <1>3, <2>1, <2>3 DEF Worded, DelsWorded, RecWorded
  <1>7. CASE FinUntrack(t) \/ FinThrow(t)
    <2>1. UNCHANGED <<history, pending>>
      BY <1>7 DEF FinUntrack, FinThrow
    <2>2. fin'[t].pc = "idle" /\ \A u \in Tabs \ {t} : fin'[u] = fin[u]
      BY <1>7, FinIsReleased
    <2>3. /\ rec'.ids \subseteq rec.ids
          /\ rec'.pc = "save" => rec'.pc = rec.pc /\ rec'.m = rec.m
          /\ \A r \in rec'.results : r \in rec.results \/ ~Failure(r.m)
      BY <1>7, UntrackEffect, ThrowEffect
    <2>4. \A d \in dels' : d \in dels \/ ~Failure(d.m)
      BY <1>7, UntrackEffect, ThrowEffect
    <2>5. HistoryWorded'
      BY <2>1, <2>2, <2>3, WordedFrame DEF Worded
    <2>6. RecWorded'
      BY <2>3 DEF Worded, RecWorded
    <2>7. DelsWorded'
      BY <2>4 DEF Worded, DelsWorded
    <2>8. QED
      BY <1>3, <2>5, <2>6, <2>7 DEF Worded
  <1>8. CASE FinAppendFailure(t) \/ FinCommit(t)
    <2> DEFINE m == fin[t].m
    <2>1. /\ Building(t) /\ m \in Meeting
          /\ fin'[t].pc = IF fin[t].pc = "append" THEN "remove" ELSE "mark"
          /\ \A u \in Tabs \ {t} : fin'[u] = fin[u]
          /\ UNCHANGED <<dels, rec, pending>>
      BY <1>8, CommitEffect
    <2>2. ~Used(m.id)
      BY <2>1 DEF Numbered
    <2>3. fin[t].pc = "commit" => ~Failure(m)
      BY DEF Worded, HistoryWorded
    <2>4. \A u \in Tabs : fin[u].pc = "mark" => Holding(u)
      BY NoneAssumption, FinFields DEF TypeOK, Holding
    <2>5. CASE Appended(m) /\ fin'[t].m = m
      <3>1. \A j \in DOMAIN history' : \/ history'[j] = m
                                       \/ \E i \in DOMAIN history : history'[j] = history[i]
        BY <2>5 DEF Appended
      <3>2. m.id \notin pending \cup rec.ids
        BY <2>2 DEF Used
      <3>3. \A u \in Tabs : fin[u].pc = "mark" => fin[u].m.id # m.id
        BY <2>2, <2>4 DEF Used
      <3>4. \A i \in DOMAIN history : history[i].id # m.id
        BY <2>2 DEF Used
      <3>5. \A j \in DOMAIN history' : history'[j].id \in pending \cup rec.ids => ~Failure(history'[j])
        BY <3>1, <3>2 DEF Worded, HistoryWorded
      <3>6. ASSUME NEW u \in Tabs, fin'[u].pc = "mark"
            PROVE  /\ ~Failure(fin'[u].m)
                   /\ \A j \in DOMAIN history' : history'[j].id = fin'[u].m.id => ~Failure(history'[j])
        <4>1. CASE u = t
          BY <2>1, <2>3, <2>5, <3>1, <3>4, <3>6, <4>1 DEF Building
        <4>2. CASE u # t
          BY <2>1, <3>1, <3>3, <3>6, <4>2 DEF Worded, HistoryWorded
        <4>3. QED
          BY <4>1, <4>2
      <3>7. \A u \in Tabs : fin'[u].pc = "commit" => ~Failure(fin'[u].m)
        BY <2>1 DEF Worded, HistoryWorded
      <3>8. HistoryWorded'
        BY <2>1, <3>5, <3>6, <3>7 DEF HistoryWorded
      <3>9. QED
        BY <1>3, <2>1, <3>8 DEF Worded, DelsWorded, RecWorded
    <2>6. ASSUME NEW i \in DOMAIN history, fin[t].pc = "commit", MergedInto(i, m), fin'[t].m = history'[i]
          PROVE  Worded'
      <3>1. history[i] \in Meeting
        BY DEF TypeOK
      <3>2. ~Failure(history'[i]) /\ history'[i].id = history[i].id
        BY <2>1, <2>3, <2>6, <3>1, WordedMerge, MergeKeepsNumber DEF MergedInto
      <3>3. \A j \in DOMAIN history' : \/ j = i
                                       \/ j \in DOMAIN history /\ history'[j] = history[j]
        BY <2>6 DEF MergedInto
      <3>4. \A j \in DOMAIN history' : history'[j].id \in pending \cup rec.ids => ~Failure(history'[j])
        BY <3>2, <3>3 DEF Worded, HistoryWorded
      <3>5. \A j \in DOMAIN history : history[j].id = history[i].id => j = i
        BY DEF Numbered
      <3>6. ASSUME NEW u \in Tabs, fin'[u].pc = "mark"
            PROVE  /\ ~Failure(fin'[u].m)
                   /\ \A j \in DOMAIN history' : history'[j].id = fin'[u].m.id => ~Failure(history'[j])
        <4>1. CASE u = t
          BY <2>6, <3>2, <3>3, <3>5, <4>1
        <4>2. CASE u # t
          BY <2>1, <3>2, <3>3, <3>6, <4>2 DEF Worded, HistoryWorded
        <4>3. QED
          BY <4>1, <4>2
      <3>7. \A u \in Tabs : fin'[u].pc = "commit" => ~Failure(fin'[u].m)
        BY <2>1 DEF Worded, HistoryWorded
      <3>8. HistoryWorded'
        BY <2>1, <3>4, <3>6, <3>7 DEF HistoryWorded
      <3>9. QED
        BY <1>3, <2>1, <3>8 DEF Worded, DelsWorded, RecWorded
    <2>7. QED
      BY <1>8, <2>5, <2>6, CommitEffect
  <1>9. QED
    BY <1>4, <1>5, <1>6, <1>7, <1>8 DEF Finalization

LEMMA RecoveryKeepsWorded ==
    ASSUME TypeOK, Numbered, Worded, Recovery \/ RecFail
    PROVE  Worded'
  <1> USE DEF store, worker, ghosts
  <1>1. rec \in Rec
    BY DEF TypeOK
  <1>2. UNCHANGED <<dels, history, saves>> /\ pending' \subseteq pending
    BY DEF Recovery, RecReadKeys, RecScan, RecScanned, RecDeliver, RecListPending, RecNext,
           RecSave, RecClear, RecDone, RecFail
  <1>3. DelsWorded' /\ SavesWorded'
    BY <1>2 DEF Worded, DelsWorded, SavesWorded
  <1>4. ASSUME fin' = fin, rec'.ids \subseteq rec.ids \cup pending, rec'.results \subseteq rec.results,
               rec'.pc = "save" => ~Failure(rec'.m)
        PROVE  Worded'
    <2>1. HistoryWorded'
      BY <1>2, <1>4, WordedFrame DEF Worded
    <2>2. RecWorded'
      BY <1>4 DEF Worded, RecWorded
    <2>3. QED
      BY <1>3, <2>1, <2>2 DEF Worded
  <1>5. CASE RecReadKeys \/ RecScanned \/ RecListPending \/ RecDone \/ RecFail
    <2>1. /\ fin' = fin /\ rec'.pc # "save"
          /\ rec'.ids \subseteq rec.ids \cup pending /\ rec'.results \subseteq rec.results
      BY <1>5, PauseEffect DEF RecPauses, RecReadKeys, RecScanned, RecListPending, RecDone, RecFail
    <2>2. QED
      BY <1>4, <2>1
  <1>6. ASSUME NEW t \in Tabs, RecScan(t) PROVE Worded'
    <2>1. rec'.pc # "save" /\ rec'.ids = rec.ids /\ rec'.results = rec.results
      BY <1>1, <1>6 DEF RecScan, Rec
    <2>2. \A u \in Tabs : fin'[u] = fin[u] \/ fin'[u].pc = "session"
      BY <1>6, StartLeaves DEF RecScan
    <2>3. HistoryWorded'
      BY <1>2, <2>1, <2>2, WordedFrame DEF Worded
    <2>4. QED
      BY <1>3, <2>1, <2>3 DEF Worded, RecWorded
  <1>7. CASE RecDeliver
    <2>1. PICK r \in rec.results :
             rec' = [rec EXCEPT !.pc = "save", !.then = "deliver", !.results = @ \ {r},
                                !.id = r.m.id, !.m = r.m, !.w = r.w]
      BY <1>7 DEF RecDeliver
    <2>2. /\ rec'.ids = rec.ids /\ rec'.m = r.m
          /\ rec'.results = rec.results \ {r}
      BY <1>1, <2>1 DEF Rec
    <2>3. ~Failure(r.m) /\ fin' = fin
      BY <1>7 DEF RecDeliver, Worded, RecWorded
    <2>4. QED
      BY <1>4, <2>2, <2>3
  <1>8. CASE RecNext
    <2>1. PICK id \in rec.ids :
            \/ \E i \in DOMAIN history :
                  /\ history[i].id = id
                  /\ rec' = [rec EXCEPT !.pc = "save", !.then = "next", !.ids = @ \ {id},
                                        !.id = id, !.m = history[i], !.w = None]
            \/ rec' = [rec EXCEPT !.pc = "clear", !.then = "next", !.ids = @ \ {id},
                                  !.id = id, !.m = None, !.w = None]
      BY <1>8 DEF RecNext
    <2>2. fin' = fin
      BY <1>8 DEF RecNext
    <2>3. /\ rec'.ids = rec.ids \ {id} /\ rec'.results = rec.results
          /\ rec'.pc = "save" => \E i \in DOMAIN history : history[i].id = id /\ rec'.m = history[i]
      BY <1>1, <2>1 DEF Rec
    <2>4. rec'.pc = "save" => ~Failure(rec'.m)
      BY <2>3 DEF Worded, HistoryWorded
    <2>5. QED
      BY <1>4, <2>2, <2>3, <2>4
  <1>9. CASE RecSave \/ RecClear
    <2>1. /\ fin' = fin /\ rec'.pc # "save" /\ rec'.ids = rec.ids /\ rec'.results = rec.results
      BY <1>1, <1>9 DEF RecSave, RecClear, Rec
    <2>2. QED
      BY <1>4, <2>1
  <1>10. QED
    BY <1>5, <1>6, <1>7, <1>8, <1>9 DEF Recovery

LEMMA SavingKeepsWorded ==
    ASSUME TypeOK, Worded, NEW t \in Tabs, SaveStart(t) \/ Saving(t) \/ SaveFail(t)
    PROVE  Worded'
  <1> USE DEF store, worker, ghosts
  <1>1. UNCHANGED <<fin, rec, dels, history, pending>>
    BY DEF SaveStart, Saving, SaveResolve, SaveReadWritten, SaveDownload, SaveRecord, SaveFail
  <1>2. HistoryWorded' /\ DelsWorded' /\ RecWorded'
    BY <1>1, WordedFrame DEF Worded, DelsWorded, RecWorded
  <1>3. saves[t] \in Save
    BY DEF TypeOK
  <1>4. \A u \in Tabs \ {t} : saves'[u] = saves[u]
    BY DEF SaveStart, Saving, SaveResolve, SaveReadWritten, SaveDownload, SaveRecord, SaveFail, TypeOK
  <1>5. /\ saves'[t].pc = "resolve" => ~Empty(saves'[t].s)
        /\ saves'[t].pc \in {"written", "download", "record"} => ~Failure(saves'[t].m)
    <2>1. CASE SaveStart(t)
      <3>1. saves'[t].pc = "resolve" /\ saves'[t].s = session[t]
        BY <2>1 DEF SaveStart, NoSave, TypeOK
      <3>2. QED
        BY <2>1, <3>1 DEF SaveStart
    <2>2. CASE SaveResolve(t)
      <3> DEFINE partial == SessionToMeeting(saves[t].s, 0, clock)
      <3>1. saves[t].s \in Session /\ ~Empty(saves[t].s) /\ clock \in Nat
        BY <1>3, <2>2 DEF SaveResolve, Save, Worded, SavesWorded, TypeOK
      <3>2. partial \in Meeting /\ ~Failure(partial)
        BY <3>1, BuildType, WordedBuild
      <3>3. \A i \in DOMAIN history : ~Failure(MergeMeetings(history[i], partial))
        BY <3>2, WordedMerge DEF TypeOK
      <3>4. saves'[t].pc = "written" /\ ~Failure(saves'[t].m)
        <4> HIDE DEF partial
        <4>1. \/ \E i \in DOMAIN history :
                    saves' = [saves EXCEPT ![t].pc = "written",
                                           ![t].m = MergeMeetings(history[i], partial)]
              \/ saves' = [saves EXCEPT ![t].pc = "written", ![t].m = partial]
          BY <2>2 DEF SaveResolve, partial
        <4>2. QED
          BY <1>3, <3>2, <3>3, <4>1 DEF TypeOK, Save
      <3>5. QED
        BY <3>4
    <2>3. CASE SaveReadWritten(t) \/ SaveDownload(t)
      <3>1. /\ saves[t].pc \in {"written", "download"} /\ saves'[t].pc \in {"download", "record"}
            /\ saves'[t].m = saves[t].m
        BY <1>3, <2>3 DEF SaveReadWritten, SaveDownload, TypeOK, Save
      <3>2. QED
        BY <3>1 DEF Worded, SavesWorded
    <2>4. CASE SaveRecord(t) \/ SaveFail(t)
      <3>1. saves'[t].pc = "idle"
        BY <2>4 DEF SaveRecord, SaveFail, NoSave, TypeOK
      <3>2. QED
        BY <3>1
    <2>5. QED
      BY <2>1, <2>2, <2>3, <2>4 DEF Saving
  <1>6. SavesWorded'
    BY <1>4, <1>5 DEF Worded, SavesWorded
  <1>7. QED
    BY <1>2, <1>6 DEF Worded

LEMMA WordedStep == TypeOK /\ Numbered /\ Worded /\ [Next]_vars => Worded'
  <1> SUFFICES ASSUME TypeOK, Numbered, Worded, [Next]_vars PROVE Worded'
    OBVIOUS
  <1> USE DEF store, worker, ghosts
  <1>1. ASSUME NEW t \in Tabs, Page(t) \/ MeetingEnded(t) PROVE Worded'
    <2>1. PageLeavesWorker
      BY <1>1, PageEffect
    <2>2. HistoryWorded'
      BY <2>1, WordedFrame DEF PageLeavesWorker, Worded
    <2>3. QED
      BY <2>1, <2>2 DEF PageLeavesWorker, Worded, DelsWorded, RecWorded, SavesWorded
  <1>2. ASSUME NEW t \in Tabs, Finalization(t) \/ FinThrow(t) PROVE Worded'
    BY <1>2, FinalizationKeepsWorded
  <1>3. ASSUME NEW t \in Tabs, SaveStart(t) \/ Saving(t) \/ SaveFail(t) PROVE Worded'
    BY <1>3, SavingKeepsWorded
  <1>4. ASSUME NEW d \in dels, Deliver(d) \/ DeliverFail(d) PROVE Worded'
    <2>1. [d EXCEPT !.pc = "clear"].m = d.m
      BY DEF TypeOK, Delivery
    <2>2. /\ UNCHANGED <<fin, rec, saves, history>> /\ pending' \subseteq pending
          /\ \A x \in dels' : x \in dels \/ x.m = d.m
      BY <1>4, <2>1 DEF Deliver, DeliverFile, DeliverClear, DeliverFail
    <2>3. HistoryWorded'
      BY <2>2, WordedFrame DEF Worded
    <2>4. QED
      BY <2>2, <2>3 DEF Worded, DelsWorded, RecWorded, SavesWorded
  <1>5. CASE Recovery \/ RecFail
    BY <1>5, RecoveryKeepsWorded
  <1>6. CASE Restart \/ UpdateAvailable \/ BrowserCrash
    <2>1. /\ UNCHANGED <<history, pending>> /\ dels' = {}
          /\ rec'.pc = "keys" /\ rec'.ids = {} /\ rec'.results = {}
          /\ \A t \in Tabs : fin'[t].pc = "idle" /\ saves'[t].pc = "idle"
      BY <1>6 DEF Restart, UpdateAvailable, BrowserCrash, Reboot, NewRec, NoRec, NoFin, NoSave
    <2>2. HistoryWorded'
      BY <2>1, WordedFrame DEF Worded
    <2>3. QED
      BY <2>1, <2>2 DEF Worded, DelsWorded, RecWorded, SavesWorded
  <1>7. ASSUME NEW i \in DOMAIN history, DeleteMeeting(i) PROVE Worded'
    <2>1. UNCHANGED <<dels, rec, fin, saves, pending>> /\ Removed(i)
      BY <1>7, RemovedBy DEF DeleteMeeting
    <2>2. \A j \in DOMAIN history' : \E k \in DOMAIN history : history'[j] = history[k]
      BY <2>1 DEF Removed
    <2>3. HistoryWorded'
      BY <2>1, <2>2 DEF Worded, HistoryWorded
    <2>4. QED
      BY <2>1, <2>3 DEF Worded, DelsWorded, RecWorded, SavesWorded
  <1>8. CASE UNCHANGED vars
    BY <1>8 DEF vars, Worded, HistoryWorded, DelsWorded, RecWorded, SavesWorded
  <1>9. QED
    BY <1>1, <1>2, <1>3, <1>4, <1>5, <1>6, <1>7, <1>8 DEF Next, Failures

LEMMA WordedHolds == Spec => []Worded
  <1>1. Init => Worded
    BY DEF Init, Worded, HistoryWorded, DelsWorded, RecWorded, SavesWorded, NewRec, NoRec, NoFin, NoSave
  <1>2. QED
    BY <1>1, TypeCorrect, NumberedHolds, WordedStep, PTL DEF Spec

HasWord(b) == \E i \in DOMAIN b.visits : b.visits[i].words > 0

LEMMA WordIn ==
    ASSUME NEW m \in Meeting, ~Failure(m)
    PROVE  HasWord(FinalBody(m)) /\ HasWord(PartialBody(m))
  <1>1. PICK i \in DOMAIN m.visits : m.visits[i].words # 0
    BY DEF Failure
  <1>2. m.visits[i].words > 0
    <2>1. m.visits[i].words \in Nat
      BY MeetingVisits, VisitAt
    <2>2. QED
      BY <1>1, <2>1
  <1>3. QED
    BY <1>2 DEF HasWord, FinalBody, PartialBody

LEMMA PutHasWord ==
    ASSUME NEW d, DiskOK(d), \A p \in DOMAIN d : \A k \in DOMAIN d[p] : HasWord(d[p][k]),
           NEW q \in Path, NEW over, NEW body \in Body, HasWord(body)
    PROVE  \A p \in DOMAIN Put(d, q, over, body) : \A k \in DOMAIN Put(d, q, over, body)[p] :
              HasWord(Put(d, q, over, body)[p][k])
  <1> DEFINE files == FilesAt(d, q)
  <1>1. files \in Seq(Body) /\ \A k \in DOMAIN files : HasWord(files[k])
    BY DEF FilesAt, DiskOK
  <1>2. \A k \in DOMAIN Append(files, body) : HasWord(Append(files, body)[k])
    <2> HIDE DEF files
    <2>1. \A k \in DOMAIN Append(files, body) :
             \/ Append(files, body)[k] = body
             \/ k \in DOMAIN files /\ Append(files, body)[k] = files[k]
      BY <1>1
    <2>2. QED
      BY <1>1, <2>1
  <1>3. \A k \in DOMAIN [files EXCEPT ![1] = body] : HasWord([files EXCEPT ![1] = body][k])
    BY <1>1
  <1>4. QED
    BY <1>2, <1>3 DEF Put

(* No file without a word in it is ever written: neither a meeting that captured   *)
(* nothing, nor a save asked for before anything was, nor a failure another       *)
(* finalization left in history reaches a download (isCaptureFailure in index.ts  *)
(* and sessions.ts), whatever stops, fails or is merged in between.            *)
THEOREM NoEmptyFileHolds == Spec => []NoEmptyFile
  <1>1. Init => NoEmptyFile
    BY DEF Init, NoEmptyFile
  <1>2. TypeOK /\ Worded /\ NoEmptyFile /\ [Next]_vars => NoEmptyFile'
    <2> SUFFICES ASSUME TypeOK, Worded, NoEmptyFile, [Next]_vars PROVE NoEmptyFile'
      OBVIOUS
    <2> USE DEF store, worker, ghosts
    <2>1. DiskOK(disk) /\ \A p \in DOMAIN disk : \A k \in DOMAIN disk[p] : HasWord(disk[p][k])
      BY DEF TypeOK, DiskOK, NoEmptyFile, HasWord
    <2>2. ASSUME NEW m \in Meeting, ~Failure(m), NEW w, Download(m, w) PROVE NoEmptyFile'
      <3>1. disk' = Put(disk, PathOf(m), Overwrites(m, w), FinalBody(m))
        BY <2>2 DEF Download
      <3>2. PathOf(m) \in Path /\ FinalBody(m) \in Body /\ HasWord(FinalBody(m))
        BY <2>2, PathType, BodyType, WordIn
      <3>3. \A p \in DOMAIN disk' : \A k \in DOMAIN disk'[p] : HasWord(disk'[p][k])
        BY <2>1, <3>1, <3>2, PutHasWord
      <3>4. QED
        BY <3>3 DEF NoEmptyFile, HasWord
    <2>3. ASSUME NEW d \in dels, DeliverFile(d) PROVE NoEmptyFile'
      BY <2>2, <2>3 DEF DeliverFile, Worded, DelsWorded, TypeOK, Delivery
    <2>4. CASE RecSave
      <3>1. rec.m \in Meeting /\ ~Failure(rec.m)
        BY <2>4, NoneAssumption DEF RecSave, Worded, RecWorded, TypeOK, Rec
      <3>2. QED
        BY <2>2, <2>4, <3>1 DEF RecSave
    <2>5. ASSUME NEW t \in Tabs, SaveDownload(t) PROVE NoEmptyFile'
      <3> DEFINE m == saves[t].m
      <3>1. m \in Meeting /\ ~Failure(m)
        BY <2>5, NoneAssumption DEF SaveDownload, Worded, SavesWorded, TypeOK, Save
      <3>2. PathOf(m) \in Path /\ PartialBody(m) \in Body /\ HasWord(PartialBody(m))
        BY <3>1, PathType, BodyType, WordIn
      <3>3. disk' = Put(disk, PathOf(m), Overwrites(m, saves[t].w), PartialBody(m))
        BY <2>5 DEF SaveDownload
      <3> HIDE DEF m
      <3>4. \A p \in DOMAIN disk' : \A k \in DOMAIN disk'[p] : HasWord(disk'[p][k])
        BY <2>1, <3>2, <3>3, PutHasWord
      <3>5. QED
        BY <3>4 DEF NoEmptyFile, HasWord
    <2>6. ASSUME disk' = disk PROVE NoEmptyFile'
      BY <2>6 DEF NoEmptyFile
    <2>7. ASSUME NEW t \in Tabs, Page(t) \/ MeetingEnded(t) PROVE disk' = disk
      BY <2>7, PageEffect DEF PageLeavesWorker
    <2>8. ASSUME NEW t \in Tabs, Finalization(t) \/ FinThrow(t) PROVE disk' = disk
      BY <2>8 DEF Finalization, FinReadSession, FinReadWritten, FinAppendFailure, FinCommit, FinMark,
                  FinRemove, FinUntrack, FinThrow
    <2>9. ASSUME NEW t \in Tabs, SaveStart(t) \/ SaveResolve(t) \/ SaveReadWritten(t) \/ SaveRecord(t)
                                 \/ SaveFail(t)
          PROVE  disk' = disk
      BY <2>9 DEF SaveStart, SaveResolve, SaveReadWritten, SaveRecord, SaveFail
    <2>10. ASSUME NEW d \in dels, DeliverClear(d) \/ DeliverFail(d) PROVE disk' = disk
      BY <2>10 DEF DeliverClear, DeliverFail
    <2>11. ASSUME RecReadKeys \/ (\E t \in Tabs : RecScan(t)) \/ RecScanned \/ RecDeliver
                  \/ RecListPending \/ RecNext \/ RecClear \/ RecDone \/ RecFail
           PROVE  disk' = disk
      BY <2>11 DEF RecReadKeys, RecScan, RecScanned, RecDeliver, RecListPending, RecNext, RecClear,
                   RecDone, RecFail
    <2>12. ASSUME \/ Restart \/ UpdateAvailable \/ BrowserCrash
                  \/ \E i \in DOMAIN history : DeleteMeeting(i)
                  \/ UNCHANGED vars
           PROVE  disk' = disk
      BY <2>12 DEF Restart, UpdateAvailable, BrowserCrash, DeleteMeeting, vars
    <2>13. QED
      BY <2>3, <2>4, <2>5, <2>6, <2>7, <2>8, <2>9, <2>10, <2>11, <2>12
         DEF Next, Failures, Recovery, Deliver, Saving
  <1>3. QED
    BY <1>1, <1>2, TypeCorrect, WordedHolds, PTL DEF Spec

-------------------------------------------------------------------------------
(*                        What any step does to a tab                       *)

LEMMA ClockMoves ==
    ASSUME TypeOK, [Next]_vars
    PROVE  clock' \in Nat /\ clock <= clock'
  <1> USE DEF store, worker, ghosts
  <1>1. clock \in Nat
    BY DEF TypeOK
  <1>2. \A t \in Tabs : Page(t) \/ MeetingEnded(t) => clock' \in Nat /\ clock <= clock'
    BY PageEffect DEF PageLeavesWorker
  <1>3. \A t \in Tabs : FinReadWritten(t) => clock' \in Nat /\ clock <= clock'
    BY <1>1 DEF FinReadWritten
  <1>4. \A t \in Tabs : FinReadSession(t) \/ FinAppendFailure(t) \/ FinCommit(t) \/ FinMark(t)
                        \/ FinRemove(t) \/ FinUntrack(t) \/ FinThrow(t) => clock' = clock
    BY DEF FinReadSession, FinAppendFailure, FinCommit, FinMark, FinRemove, FinUntrack, FinThrow
  <1>5. \A t \in Tabs : SaveStart(t) \/ Saving(t) \/ SaveFail(t) => clock' = clock
    BY DEF SaveStart, Saving, SaveResolve, SaveReadWritten, SaveDownload, SaveRecord, SaveFail
  <1>6. \A d \in dels : Deliver(d) \/ DeliverFail(d) => clock' = clock
    BY DEF Deliver, DeliverFile, DeliverClear, DeliverFail
  <1>7. Recovery \/ RecFail => clock' = clock
    BY DEF Recovery, RecReadKeys, RecScan, RecScanned, RecDeliver, RecListPending, RecNext,
           RecSave, RecClear, RecDone, RecFail
  <1>8. Restart \/ UpdateAvailable \/ BrowserCrash => clock' = clock
    BY DEF Restart, UpdateAvailable, BrowserCrash
  <1>9. \A i \in DOMAIN history : DeleteMeeting(i) => clock' = clock
    BY DEF DeleteMeeting
  <1>10. UNCHANGED vars => clock' = clock
    BY DEF vars
  <1>11. QED
    BY <1>1, <1>2, <1>3, <1>4, <1>5, <1>6, <1>7, <1>8, <1>9, <1>10 DEF Next, Failures, Finalization

LEMMA HistoryWriters ==
    ASSUME TypeOK, [Next]_vars
    PROVE  \/ \E t \in Tabs : FinAppendFailure(t) \/ FinCommit(t)
           \/ \E i \in DOMAIN history : DeleteMeeting(i)
           \/ UNCHANGED <<history, gone>>
  <1> USE DEF store, worker, ghosts
  <1>1. \A t \in Tabs : Page(t) \/ MeetingEnded(t) => UNCHANGED <<history, gone>>
    BY PageEffect DEF PageLeavesWorker
  <1>2. \A t \in Tabs : FinReadSession(t) \/ FinReadWritten(t) \/ FinMark(t) \/ FinRemove(t)
                        \/ FinUntrack(t) \/ FinThrow(t) => UNCHANGED <<history, gone>>
    BY DEF FinReadSession, FinReadWritten, FinMark, FinRemove, FinUntrack, FinThrow
  <1>3. \A t \in Tabs : SaveStart(t) \/ Saving(t) \/ SaveFail(t) => UNCHANGED <<history, gone>>
    BY DEF SaveStart, Saving, SaveResolve, SaveReadWritten, SaveDownload, SaveRecord, SaveFail
  <1>4. \A d \in dels : Deliver(d) \/ DeliverFail(d) => UNCHANGED <<history, gone>>
    BY DEF Deliver, DeliverFile, DeliverClear, DeliverFail
  <1>5. Recovery \/ RecFail => UNCHANGED <<history, gone>>
    BY DEF Recovery, RecReadKeys, RecScan, RecScanned, RecDeliver, RecListPending, RecNext,
           RecSave, RecClear, RecDone, RecFail
  <1>6. Restart \/ UpdateAvailable \/ BrowserCrash => UNCHANGED <<history, gone>>
    BY DEF Restart, UpdateAvailable, BrowserCrash
  <1>7. UNCHANGED vars => UNCHANGED <<history, gone>>
    BY DEF vars
  <1>8. QED
    BY <1>1, <1>2, <1>3, <1>4, <1>5, <1>6, <1>7 DEF Next, Failures, Finalization

(* What a step can do to the finalization of tab u. *)
FinMoves(u) ==
    \/ fin'[u].pc = fin[u].pc /\ fin'[u].s = fin[u].s /\ fin'[u].m = fin[u].m
    \/ fin[u].pc = "idle" /\ fin'[u].pc = "session" /\ fin'[u].m = None
    \/ Finalization(u)
    \/ FinThrow(u)
    \/ Reboot

LEMMA FinMovesAtEveryStep ==
    ASSUME TypeOK, [Next]_vars, NEW u \in Tabs
    PROVE  FinMoves(u)
  <1> USE DEF store, worker, ghosts
  <1>1. ASSUME fin' = fin PROVE FinMoves(u)
    BY <1>1 DEF FinMoves
  <1>2. ASSUME NEW t \in Tabs, NEW who, fin[t].pc = "idle", StartFinalize(t, who) PROVE FinMoves(u)
    BY <1>2, StartLeaves DEF FinMoves
  <1>3. ASSUME NEW t \in Tabs, fin' = [fin EXCEPT ![t] = Unheard(@)] PROVE FinMoves(u)
    BY <1>3, UnheardLeaves DEF FinMoves
  <1>4. ASSUME NEW t \in Tabs, Page(t) \/ MeetingEnded(t) PROVE FinMoves(u)
    <2>1. CASE Reload(t) \/ CloseTab(t) \/ MeetingEnded(t)
      BY <1>1, <1>2, <1>3, <2>1 DEF Reload, CloseTab, MeetingEnded
    <2>2. CASE ~(Reload(t) \/ CloseTab(t) \/ MeetingEnded(t))
      <3>1. fin' = fin
        BY <1>4, <2>2 DEF Page, ReadPrevious, LeaveLobby, Join, Capture, Attend, SetPrivate, Wipe,
                          WriteSession, EndMeeting, RelaySession
      <3>2. QED
        BY <1>1, <3>1
    <2>3. QED
      BY <2>1, <2>2
  <1>5. ASSUME NEW t \in Tabs, t # u, Finalization(t) \/ FinThrow(t) PROVE FinMoves(u)
    <2>1. fin'[u] = fin[u]
      BY <1>5 DEF Finalization, FinReadSession, FinReadWritten, FinAppendFailure, FinCommit,
                  FinMark, FinRemove, FinUntrack, FinThrow, TypeOK
    <2>2. QED
      BY <2>1 DEF FinMoves
  <1>6. ASSUME Finalization(u) \/ FinThrow(u) PROVE FinMoves(u)
    BY <1>6 DEF FinMoves
  <1>7. ASSUME NEW t \in Tabs, SaveStart(t) \/ Saving(t) \/ SaveFail(t) PROVE FinMoves(u)
    BY <1>1, <1>7 DEF SaveStart, Saving, SaveResolve, SaveReadWritten, SaveDownload, SaveRecord,
                      SaveFail
  <1>8. ASSUME NEW d \in dels, Deliver(d) \/ DeliverFail(d) PROVE FinMoves(u)
    BY <1>1, <1>8 DEF Deliver, DeliverFile, DeliverClear, DeliverFail
  <1>9. ASSUME NEW t \in Tabs, RecScan(t) PROVE FinMoves(u)
    BY <1>1, <1>2, <1>9 DEF RecScan
  <1>10. CASE RecReadKeys \/ RecScanned \/ RecDeliver \/ RecListPending \/ RecNext \/ RecSave
              \/ RecClear \/ RecDone \/ RecFail
    BY <1>1, <1>10 DEF RecReadKeys, RecScanned, RecDeliver, RecListPending, RecNext, RecSave,
                       RecClear, RecDone, RecFail
  <1>11. CASE Restart \/ UpdateAvailable \/ BrowserCrash
    BY <1>11 DEF Restart, UpdateAvailable, BrowserCrash, FinMoves
  <1>12. ASSUME NEW i \in DOMAIN history, DeleteMeeting(i) PROVE FinMoves(u)
    BY <1>1, <1>12 DEF DeleteMeeting
  <1>13. CASE UNCHANGED vars
    BY <1>1, <1>13 DEF vars
  <1>14. QED
    BY <1>4, <1>5, <1>6, <1>7, <1>8, <1>9, <1>10, <1>11, <1>12, <1>13 DEF Next, Failures, Recovery

(* What a step can do to the two copies of a tab's session, the stored one and   *)
(* the page's: copy one to the other, drop one, let the page's grow, or begin    *)
(* a new one at an instant of its own.                                       *)
Grew(u) ==
    LET old == content[u].mem
        new == content'[u].mem
    IN  /\ old # None /\ new # None
        /\ new.startedAt = old.startedAt
        /\ WipesEnabled \/ old.words <= new.words

Begun(u) ==
    /\ content'[u].mem # None
    /\ content'[u].mem.startedAt = clock' /\ clock' = clock + 1
    /\ \A x \in Tabs \ {u} : content'[x] = content[x]
    /\ session' = session

CopiesMove(u) ==
    \/ /\ session'[u] = content[u].mem
       /\ content'[u].mem = content[u].mem
    \/ /\ session'[u] \in {session[u], None}
       /\ content'[u].mem \in {content[u].mem, session[u], None} \/ Grew(u)
    \/ Begun(u)

LEMMA AnswerLeavesMem ==
    ASSUME NEW c \in Content
    PROVE  Answer(c).mem \in {c.mem, None} /\ Sever(c).mem \in {c.mem, None}
  <1>1. c \in [pc: ContentPCs, room: Rooms \cup {None}, mem: Session \cup {None}, heard: BOOLEAN]
    BY DEF Content
  <1>2. Answer(c).mem \in {c.mem, None}
    BY <1>1 DEF Answer, NoPage
  <1>3. \A pc \in {"lost", "lobby"} : [c EXCEPT !.pc = pc].mem = c.mem
    BY <1>1
  <1>4. Sever(c) \in {[c EXCEPT !.pc = "lost"], [c EXCEPT !.pc = "lobby"], NoPage("idle"), c}
    BY DEF Sever
  <1>5. NoPage("idle").mem = None
    BY DEF NoPage
  <1>6. \A x \in {[c EXCEPT !.pc = "lost"], [c EXCEPT !.pc = "lobby"], NoPage("idle"), c} :
           x.mem \in {c.mem, None}
    BY <1>3, <1>5
  <1>7. QED
    BY <1>2, <1>4, <1>6

LEMMA ReplyLeavesMem ==
    ASSUME TypeOK, NEW t \in Tabs, NEW who, Reply(t, who), NEW u \in Tabs
    PROVE  content'[u].mem \in {content[u].mem, None}
  <1>1. content'[u] \in {content[u], Answer(content[u])}
    BY DEF Reply, TypeOK
  <1>2. QED
    BY <1>1, AnswerLeavesMem DEF TypeOK

LEMMA CopiesMoveAtEveryStep ==
    ASSUME TypeOK, [Next]_vars, NEW u \in Tabs
    PROVE  CopiesMove(u)
  <1> USE DEF store, worker, ghosts
  <1>1. /\ content[u] \in [pc: ContentPCs, room: Rooms \cup {None}, mem: Session \cup {None}, heard: BOOLEAN]
        /\ clock \in Nat
    BY DEF TypeOK, Content
  <1>2. ASSUME session' = session, content'[u].mem \in {content[u].mem, session[u], None}
        PROVE  CopiesMove(u)
    BY <1>2 DEF CopiesMove
  <1>3. ASSUME NEW t \in Tabs, Page(t) \/ MeetingEnded(t) PROVE CopiesMove(u)
    <2>1. ASSUME t # u, session'[u] = session[u], content'[u] = content[u] PROVE CopiesMove(u)
      BY <2>1 DEF CopiesMove
    <2>2. ASSUME NEW r \in Rooms, ReadPrevious(t, r) PROVE CopiesMove(u)
      <3>1. session' = session /\ content'[u].mem \in {content[u].mem, session[u], None}
        BY <2>2, ReadPreviousOpens DEF ReadPrevious
      <3>2. QED
        BY <1>2, <3>1
    <2>3. CASE LeaveLobby(t)
      <3>1. session' = session /\ content'[u].mem \in {content[u].mem, None}
        BY <2>3 DEF LeaveLobby, TypeOK, NoPage
      <3>2. QED
        BY <1>2, <3>1
    <2>4. ASSUME NEW private \in Privacies, NEW heard \in BOOLEAN, Join(t, private, heard)
          PROVE  CopiesMove(u)
      <3>1. CASE u # t
        BY <2>1, <2>4, <3>1 DEF Join, TypeOK
      <3>2. CASE /\ u = t /\ content[t].mem # None
                 /\ content' = [content EXCEPT ![t].pc = "in", ![t].heard = heard]
        <4>1. content'[u].mem = content[u].mem
          BY <1>1, <3>2 DEF TypeOK
        <4>2. QED
          BY <1>2, <2>4, <4>1 DEF Join
      <3>3. CASE u = t /\ content[t].mem = None /\ clock' = clock + 1
                 /\ content' = [content EXCEPT ![t].pc = "in", ![t].heard = heard,
                       ![t].mem = [room |-> content[t].room, private |-> private,
                                   startedAt |-> clock + 1, words |-> 0, crowd |-> FALSE]]
        <4>1. /\ content'[u].mem = [room |-> content[t].room, private |-> private,
                                    startedAt |-> clock + 1, words |-> 0, crowd |-> FALSE]
              /\ \A x \in Tabs \ {u} : content'[x] = content[x]
          BY <1>1, <3>3 DEF TypeOK
        <4>2. session' = session
          BY <2>4 DEF Join
        <4>3. content'[u].mem # None
          <5>1. content[t].room \in Rooms
            BY <2>4, NoneAssumption DEF Join, TypeOK, Content
          <5>2. content'[u].mem \in Session
            BY <1>1, <2>4, <4>1, <5>1, SettingsAssumption DEF Session
          <5>3. QED
            BY <5>2, NoneAssumption
        <4>4. content'[u].mem.startedAt = clock'
          BY <3>3, <4>1
        <4>5. QED
          BY <3>3, <4>1, <4>2, <4>3, <4>4 DEF CopiesMove, Begun
      <3>4. QED
        BY <2>4, <3>1, <3>2, <3>3 DEF Join
    <2>5. CASE Capture(t) \/ Attend(t) \/ (\E private \in Privacies : SetPrivate(t, private)) \/ Wipe(t)
      <3>1. CASE u # t
        BY <2>1, <2>5, <3>1 DEF Capture, Attend, SetPrivate, Wipe, TypeOK
      <3>2. CASE u = t
        <4>1. content[u].mem \in Session /\ content[u].mem # None /\ session' = session
          BY <2>5, <3>2, MemType, NoneAssumption DEF Capture, Attend, SetPrivate, Wipe
        <4>2. /\ content'[u].mem \in Session
              /\ content'[u].mem.startedAt = content[u].mem.startedAt
              /\ WipesEnabled \/ content[u].mem.words <= content'[u].mem.words
          <5>1. content' \in [Tabs -> Content] /\ content'[u].pc = "in"
            <6>1. TypeOK'
              BY <1>3, PageKeepsType
            <6>2. content'[u].pc = "in"
              BY <1>1, <2>5, <3>2 DEF Capture, Attend, SetPrivate, Wipe, TypeOK
            <6>3. QED
              BY <6>1, <6>2 DEF TypeOK
          <5>2. content'[u].mem \in Session
            BY <5>1, NoneAssumption DEF Content
          <5>3. CASE Capture(t)
            <6>1. content'[u].mem = [content[u].mem EXCEPT !.words = @ + 1]
              BY <1>1, <3>2, <5>3 DEF Capture, TypeOK
            <6>2. QED
              BY <4>1, <5>2, <6>1 DEF Session
          <5>4. CASE Attend(t)
            <6>1. content'[u].mem = [content[u].mem EXCEPT !.crowd = TRUE]
              BY <1>1, <3>2, <5>4 DEF Attend, TypeOK
            <6>2. QED
              BY <4>1, <5>2, <6>1 DEF Session
          <5>5. ASSUME NEW private \in Privacies, SetPrivate(t, private)
                PROVE  /\ content'[u].mem.startedAt = content[u].mem.startedAt
                       /\ content[u].mem.words <= content'[u].mem.words
            <6>1. content'[u].mem = [content[u].mem EXCEPT !.private = private]
              BY <1>1, <3>2, <5>5 DEF SetPrivate, TypeOK
            <6>2. QED
              BY <4>1, <5>2, <6>1 DEF Session
          <5>6. CASE Wipe(t)
            <6>1. content'[u].mem = [content[u].mem EXCEPT !.words = 0]
              BY <1>1, <3>2, <5>6 DEF Wipe, TypeOK
            <6>2. QED
              BY <4>1, <5>2, <5>6, <6>1 DEF Session, Wipe
          <5>7. QED
            BY <2>5, <5>2, <5>3, <5>4, <5>5, <5>6
        <4>3. Grew(u)
          BY <4>1, <4>2, NoneAssumption DEF Grew
        <4>4. QED
          BY <4>1, <4>3 DEF CopiesMove
      <3>3. QED
        BY <3>1, <3>2
    <2>6. CASE WriteSession(t) \/ EndMeeting(t) \/ RelaySession(t)
      <3>1. CASE u # t
        BY <2>1, <2>6, <3>1 DEF WriteSession, EndMeeting, RelaySession, TypeOK
      <3>2. CASE u = t
        <4>1. session'[u] = content[u].mem /\ content'[u].mem = content[u].mem
          BY <1>1, <2>6, <3>2 DEF WriteSession, EndMeeting, RelaySession, TypeOK
        <4>2. QED
          BY <4>1 DEF CopiesMove
      <3>3. QED
        BY <3>1, <3>2
    <2>7. CASE Reload(t) \/ CloseTab(t)
      <3>1. session' = session /\ content'[u].mem \in {content[u].mem, None}
        BY <2>7 DEF Reload, CloseTab, TypeOK, NoPage
      <3>2. QED
        BY <1>2, <3>1
    <2>8. CASE MeetingEnded(t)
      <3> DEFINE asked == [content[t] EXCEPT !.pc = CASE @ = "sealed" -> "ended" [] @ = "stale" -> "evicting"
                                                       [] OTHER        -> "relayed"]
      <3>1. session' = session /\ content'[u] \in {content[u]} \cup (IF u = t THEN {asked, Answer(asked)} ELSE {})
        BY <2>8 DEF MeetingEnded, TypeOK
      <3>2. u = t => asked.mem = content[u].mem /\ Answer(asked).mem \in {asked.mem, None}
        BY <1>1 DEF Answer, NoPage
      <3> HIDE DEF asked
      <3>3. QED
        BY <1>2, <3>1, <3>2
    <2>9. QED
      BY <1>3, <2>2, <2>3, <2>4, <2>5, <2>6, <2>7, <2>8 DEF Page
  <1>4. ASSUME NEW t \in Tabs, FinReadSession(t) \/ FinReadWritten(t) \/ FinAppendFailure(t)
                               \/ FinCommit(t) \/ FinMark(t)
        PROVE  CopiesMove(u)
    BY <1>2, <1>4 DEF FinReadSession, FinReadWritten, FinAppendFailure, FinCommit, FinMark
  <1>5. ASSUME NEW t \in Tabs, FinRemove(t) PROVE CopiesMove(u)
    <2>1. content' = content /\ session'[u] \in {session[u], None}
      BY <1>5 DEF FinRemove, TypeOK
    <2>2. QED
      BY <2>1 DEF CopiesMove
  <1>6. ASSUME NEW t \in Tabs, FinUntrack(t) \/ FinThrow(t) PROVE CopiesMove(u)
    <2>1. session' = session /\ (content' = content \/ \E who : Reply(t, who))
      BY <1>6 DEF FinUntrack, FinThrow
    <2>2. QED
      BY <1>2, <2>1, ReplyLeavesMem
  <1>7. ASSUME NEW d \in dels, Deliver(d) \/ DeliverFail(d) PROVE CopiesMove(u)
    <2>1. session' = session /\ (content' = content \/ Reply(d.tab, d.who)) /\ d.tab \in Tabs
      BY <1>7 DEF Deliver, DeliverFile, DeliverClear, DeliverFail, TypeOK, Delivery
    <2>2. QED
      BY <1>2, <2>1, ReplyLeavesMem
  <1>8. ASSUME NEW t \in Tabs, SaveStart(t) \/ Saving(t) \/ SaveFail(t) PROVE CopiesMove(u)
    BY <1>2, <1>8 DEF SaveStart, Saving, SaveResolve, SaveReadWritten, SaveDownload, SaveRecord,
                      SaveFail
  <1>9. CASE Recovery \/ RecFail
    BY <1>2, <1>9 DEF Recovery, RecReadKeys, RecScan, RecScanned, RecDeliver, RecListPending, RecNext,
           RecSave, RecClear, RecDone, RecFail
  <1>10. CASE Restart \/ UpdateAvailable \/ BrowserCrash
    <2>1. session' = session /\ content'[u] \in {Sever(content[u]), NoPage("closed")}
      BY <1>10 DEF Restart, UpdateAvailable, BrowserCrash
    <2>2. content'[u].mem \in {content[u].mem, None}
      BY <2>1, AnswerLeavesMem DEF TypeOK, NoPage
    <2>3. QED
      BY <1>2, <2>1, <2>2
  <1>11. ASSUME NEW i \in DOMAIN history, DeleteMeeting(i) PROVE CopiesMove(u)
    BY <1>2, <1>11 DEF DeleteMeeting
  <1>12. CASE UNCHANGED vars
    BY <1>2, <1>12 DEF vars
  <1>13. QED
    BY <1>3, <1>4, <1>5, <1>6, <1>7, <1>8, <1>9, <1>10, <1>11, <1>12 DEF Next, Failures, Finalization

-------------------------------------------------------------------------------
(*                          Visits have one tab                             *)

(* The meeting a finalization has built is the one visit of the session it read. *)
Built ==
    \A t \in Tabs : Building(t) =>
        /\ fin[t].s \in Session
        /\ fin[t].m.visits = <<[startedAt |-> fin[t].s.startedAt, words |-> fin[t].s.words]>>
        /\ fin[t].pc = "append" => Empty(fin[t].s)

LEMMA BuiltStep == TypeOK /\ Built /\ [Next]_vars => Built'
  <1> SUFFICES ASSUME TypeOK, Built, [Next]_vars, NEW u \in Tabs, Building(u)'
               PROVE  /\ fin'[u].s \in Session
                      /\ fin'[u].m.visits = <<[startedAt |-> fin'[u].s.startedAt, words |-> fin'[u].s.words]>>
                      /\ fin'[u].pc = "append" => Empty(fin'[u].s)
    BY DEF Built
  <1>1. fin[u] \in Fin
    BY DEF TypeOK
  <1>2. FinMoves(u)
    BY FinMovesAtEveryStep
  <1>3. CASE fin'[u].pc = fin[u].pc /\ fin'[u].s = fin[u].s /\ fin'[u].m = fin[u].m
    BY <1>3 DEF Built, Building
  <1>4. CASE FinReadWritten(u)
    <2>1. fin[u].s \in Session
      BY <1>1, <1>4, FinFields DEF FinReadWritten
    <2>2. PICK merge \in MergeModes :
            fin' = [fin EXCEPT ![u].pc = IF Empty(fin[u].s) THEN "append" ELSE "commit",
                               ![u].w = written[u],
                               ![u].m = SessionToMeeting(fin[u].s, clock + 1, clock + 1),
                               ![u].merge = merge]
      <3>1. fin' # [fin EXCEPT ![u].pc = "remove", ![u].w = written[u]]
        BY <1>1 DEF Building, TypeOK, Fin
      <3>2. QED
        BY <1>4, <3>1 DEF FinReadWritten
    <2>3. /\ fin'[u].pc = IF Empty(fin[u].s) THEN "append" ELSE "commit"
          /\ fin'[u].m = SessionToMeeting(fin[u].s, clock + 1, clock + 1)
          /\ fin'[u].s = fin[u].s
      BY <1>1, <2>2 DEF TypeOK, Fin
    <2>4. QED
      BY <2>1, <2>3 DEF SessionToMeeting
  <1>5. CASE FinReadSession(u) \/ FinMark(u) \/ FinRemove(u)
    BY <1>1, <1>5 DEF FinReadSession, FinMark, FinRemove, Building, TypeOK, Fin
  <1>6. CASE FinAppendFailure(u) \/ FinCommit(u)
    BY <1>6, CommitEffect DEF Building
  <1>7. CASE FinUntrack(u) \/ FinThrow(u) \/ Reboot
    <2>1. Reboot => fin'[u].pc = "idle"
      BY DEF Reboot, NoFin
    <2>2. QED
      BY <1>7, <2>1, FinIsReleased DEF Building
  <1>8. CASE fin'[u].pc = "session"
    BY <1>8 DEF Building
  <1>9. QED
    BY <1>2, <1>3, <1>4, <1>5, <1>6, <1>7, <1>8 DEF FinMoves, Finalization

LEMMA BuiltHolds == Spec => []Built
  <1>1. Init => Built
    BY DEF Init, Built, Building, NoFin
  <1>2. QED
    BY <1>1, TypeCorrect, BuiltStep, PTL DEF Spec

(* The visit begun at v is in history; tab t keeps a copy of its session. *)
Visited(v) == \E i \in DOMAIN history : v \in VisitsOf(history[i])

Owns(t, v) ==
    \/ session[t] # None /\ session[t].startedAt = v
    \/ content[t].mem # None /\ content[t].mem.startedAt = v

Commits(t) == FinAppendFailure(t) \/ FinCommit(t)

LEMMA ConcatFrom ==
    ASSUME NEW S, NEW a \in Seq(S), NEW b \in Seq(S)
    PROVE  \A i \in DOMAIN (a \o b) :
              \/ i \in DOMAIN a /\ (a \o b)[i] = a[i]
              \/ i - Len(a) \in DOMAIN b /\ (a \o b)[i] = b[i - Len(a)]
  OBVIOUS

LEMMA MergeVisits ==
    ASSUME NEW a \in Meeting, NEW b \in Meeting
    PROVE  VisitsOf(MergeMeetings(a, b)) \subseteq VisitsOf(a) \cup VisitsOf(b)
  <1> DEFINE c == a.visits \o b.visits
  <1>1. a.visits \in Seq(Visit) /\ b.visits \in Seq(Visit)
    BY DEF Meeting
  <1>2. MergeMeetings(a, b).visits = c
    BY DEF MergeMeetings, Meeting
  <1>3. \A i \in DOMAIN c : \/ i \in DOMAIN a.visits /\ c[i] = a.visits[i]
                            \/ i - Len(a.visits) \in DOMAIN b.visits /\ c[i] = b.visits[i - Len(a.visits)]
    BY <1>1, ConcatFrom
  <1> HIDE DEF c
  <1>4. QED
    BY <1>2, <1>3 DEF VisitsOf

LEMMA VisitedBy ==
    ASSUME TypeOK, Built, [Next]_vars, NEW v, Visited(v)'
    PROVE  \/ Visited(v)
           \/ \E t \in Tabs : Commits(t) /\ v = fin[t].s.startedAt
  <1>1. ASSUME NEW t \in Tabs, Commits(t)
        PROVE  Visited(v) \/ v = fin[t].s.startedAt
    <2>1. /\ Building(t) /\ fin[t].m \in Meeting
          /\ \/ Appended(fin[t].m)
             \/ \E i \in DOMAIN history : MergedInto(i, fin[t].m)
      BY <1>1, CommitEffect DEF Commits
    <2>2. fin[t].m.visits = <<[startedAt |-> fin[t].s.startedAt, words |-> fin[t].s.words]>>
      BY <2>1 DEF Built
    <2>3. VisitsOf(fin[t].m) = {fin[t].s.startedAt}
      BY <2>2 DEF VisitsOf
    <2>4. PICK j \in DOMAIN history' : v \in VisitsOf(history'[j])
      BY DEF Visited
    <2>5. CASE Appended(fin[t].m)
      BY <2>3, <2>4, <2>5 DEF Appended, Visited
    <2>6. ASSUME NEW i \in DOMAIN history, MergedInto(i, fin[t].m)
          PROVE  Visited(v) \/ v = fin[t].s.startedAt
      <3>1. history[i] \in Meeting
        BY DEF TypeOK
      <3>2. VisitsOf(history'[i]) \subseteq VisitsOf(history[i]) \cup {fin[t].s.startedAt}
        BY <2>1, <2>3, <2>6, <3>1, MergeVisits DEF MergedInto
      <3>3. QED
        BY <2>4, <2>6, <3>2 DEF MergedInto, Visited
    <2>7. QED
      BY <2>1, <2>5, <2>6
  <1>2. ASSUME NEW i \in DOMAIN history, DeleteMeeting(i) PROVE Visited(v)
    BY <1>2, RemovedBy DEF Removed, Visited
  <1>3. CASE UNCHANGED <<history, gone>>
    BY <1>3 DEF Visited
  <1>4. QED
    BY <1>1, <1>2, <1>3, HistoryWriters DEF Commits

(* Every instant a visit began at has passed, and only one tab keeps a copy of its *)
(* session.                                                                  *)
Dated ==
    /\ \A t \in Tabs : \A v \in Nat : Owns(t, v) => v <= clock
    /\ \A t, u \in Tabs : \A v \in Nat : Owns(t, v) /\ Owns(u, v) => t = u
    /\ \A v \in Nat : Visited(v) => v <= clock

(* What a step makes of the copies of tab u. *)
LEMMA OwnedBy ==
    ASSUME TypeOK, [Next]_vars, NEW u \in Tabs, NEW v, Owns(u, v)'
    PROVE  Owns(u, v) \/ (Begun(u) /\ v = clock')
  BY CopiesMoveAtEveryStep DEF CopiesMove, Owns, Begun, Grew

LEMMA DatedStep ==
    TypeOK /\ Custody /\ Built /\ Dated /\ [Next]_vars => Dated'
  <1> SUFFICES ASSUME TypeOK, Custody, Built, Dated, [Next]_vars PROVE Dated'
    OBVIOUS
  <1>1. clock \in Nat /\ clock' \in Nat /\ clock <= clock'
    BY ClockMoves DEF TypeOK
  <1>2. \A t \in Tabs : \A v \in Nat : Owns(t, v)' => v <= clock'
    BY <1>1, OwnedBy DEF Dated
  <1>3. ASSUME NEW t \in Tabs, NEW u \in Tabs, NEW v \in Nat, Owns(t, v)', Owns(u, v)', t # u
        PROVE  FALSE
    <2>1. ASSUME NEW x \in Tabs, NEW y \in Tabs, x # y, Begun(x), v = clock', Owns(y, v)'
          PROVE  FALSE
      <3>1. Owns(y, v)
        BY <2>1 DEF Begun, Owns
      <3>2. QED
        BY <1>1, <2>1, <3>1 DEF Dated, Begun
    <2>2. QED
      BY <1>3, <2>1, OwnedBy DEF Dated
  <1>4. ASSUME NEW v \in Nat, Visited(v)' PROVE v <= clock'
    <2>1. CASE Visited(v)
      BY <1>1, <2>1 DEF Dated
    <2>2. ASSUME NEW t \in Tabs, Commits(t), v = fin[t].s.startedAt PROVE v <= clock'
      <3>1. Building(t)
        BY <2>2, CommitEffect DEF Commits
      <3>2. session[t] # None /\ session[t] = fin[t].s
        BY <3>1 DEF Building, Custody, FinalizeOwnsSession
      <3>3. Owns(t, v)
        BY <2>2, <3>2 DEF Owns
      <3>4. QED
        BY <1>1, <3>3 DEF Dated
    <2>3. QED
      BY <1>4, <2>1, <2>2, VisitedBy
  <1>5. QED
    BY <1>2, <1>3, <1>4 DEF Dated

LEMMA DatedHolds ==
    ASSUME LobbyOutlastsFinalize
    PROVE  Spec => []Dated
  <1>1. Init => Dated
    BY DEF Init, Dated, Owns, Visited, NoPage
  <1>2. QED
    BY <1>1, TypeCorrect, CustodyHolds, BuiltHolds, DatedStep, PTL DEF Spec

-------------------------------------------------------------------------------
(*                       No visit is committed twice                        *)

(* What hands a session to a second finalization: one that failed, or a page or   *)
(* a worker that does not wait for the first.                                *)
FinalizedOnce == ~StorageMayFail /\ ~ReloadsAfterLeave /\ MaxStarts = 0

(* A page does nothing to its session while a finalization of its tab runs. *)
AwaitedOf(t) ==
    /\ content[t].pc \in {"idle", "stale", "lobby", "in", "sealed"} => fin[t].pc = "idle"
    /\ content[t].pc \notin {"lost", "relaying", "relayed"}
    /\ content[t].pc \in {"stale", "evicting"} => content[t].mem = None

Awaited == \A t \in Tabs : AwaitedOf(t)

LEMMA ReplyAwaited ==
    ASSUME TypeOK, Answers, Awaited, NEW t \in Tabs, NEW who, Reply(t, who),
           who = "page" => content[t].pc \in Waiting,
           fin'[t].pc = "idle"
    PROVE  AwaitedOf(t)'
  <1>1. content[t] \in [pc: ContentPCs, room: Rooms \cup {None}, mem: Session \cup {None}, heard: BOOLEAN]
    BY DEF TypeOK, Content
  <1>2. CASE who # "page"
    BY <1>2 DEF Reply, Awaited, AwaitedOf
  <1>3. CASE who = "page" /\ content[t].pc = "evicting"
    <2>1. content'[t] = [content[t] EXCEPT !.pc = "lobby"]
      BY <1>3 DEF Reply, Answer, TypeOK
    <2>2. content'[t].pc = "lobby"
      BY <1>1, <2>1
    <2>3. QED
      BY <2>2 DEF AwaitedOf
  <1>4. CASE who = "page" /\ content[t].pc # "evicting"
    <2>1. content'[t] = NoPage("idle")
      BY <1>4 DEF Reply, Answer, TypeOK
    <2>2. QED
      BY <2>1 DEF AwaitedOf, NoPage
  <1>5. QED
    BY <1>2, <1>3, <1>4

LEMMA AwaitedStep ==
    ASSUME FinalizedOnce, TypeOK, Answers, Awaited, [Next]_vars
    PROVE  Awaited'
  <1> USE DEF store, worker, ghosts
  <1> SUFFICES ASSUME NEW u \in Tabs PROVE AwaitedOf(u)'
    BY DEF Awaited
  <1>0. /\ AwaitedOf(u) /\ AnswersOf(u) /\ starts \in Nat
        /\ content[u] \in [pc: ContentPCs, room: Rooms \cup {None}, mem: Session \cup {None}, heard: BOOLEAN]
        /\ fin[u] \in Fin
    BY DEF Awaited, Answers, TypeOK, Content
  <1>1. ASSUME content'[u] = content[u], fin'[u] = fin[u] PROVE AwaitedOf(u)'
    BY <1>0, <1>1 DEF AwaitedOf
  <1>2. ASSUME NEW t \in Tabs, Page(t) \/ MeetingEnded(t) PROVE AwaitedOf(u)'
    <2>1. CASE t # u
      BY <1>1, <1>2, <2>1 DEF Page, ReadPrevious, LeaveLobby, Join, Capture, Attend, SetPrivate, Wipe,
                              WriteSession, EndMeeting, RelaySession, Reload, CloseTab, MeetingEnded,
                              StartFinalize, TypeOK
    <2>2. ASSUME NEW r \in Rooms, ReadPrevious(u, r) PROVE AwaitedOf(u)'
      <3>1. /\ fin'[u] = fin[u] /\ content[u].pc = "idle"
            /\ content'[u].pc \in {"stale", "lobby"}
            /\ content'[u].pc = "stale" => content'[u].mem = None
        BY <2>2, ReadPreviousOpens DEF ReadPrevious
      <3>2. QED
        BY <1>0, <3>1 DEF AwaitedOf
    <2>3. CASE LeaveLobby(u)
      <3>1. fin'[u] = fin[u] /\ content[u].pc = "lobby" /\ content'[u].pc = "idle"
        BY <2>3 DEF LeaveLobby, NoPage, TypeOK
      <3>2. QED
        BY <1>0, <3>1 DEF AwaitedOf
    <2>4. ASSUME NEW private \in Privacies, NEW heard \in BOOLEAN, Join(u, private, heard)
          PROVE  AwaitedOf(u)'
      <3>1. fin'[u] = fin[u] /\ content[u].pc = "lobby"
        BY <2>4 DEF Join
      <3>2. content'[u].pc = "in"
        <4>1. CASE content' = [content EXCEPT ![u].pc = "in", ![u].heard = heard]
          BY <1>0, <4>1 DEF TypeOK
        <4>2. CASE content' = [content EXCEPT ![u].pc = "in", ![u].heard = heard,
                     ![u].mem = [room |-> content[u].room, private |-> private,
                                 startedAt |-> clock + 1, words |-> 0, crowd |-> FALSE]]
          BY <1>0, <4>2 DEF TypeOK
        <4>3. QED
          BY <2>4, <4>1, <4>2 DEF Join
      <3>3. QED
        BY <1>0, <3>1, <3>2 DEF AwaitedOf
    <2>5. CASE Capture(u) \/ Attend(u) \/ (\E private \in Privacies : SetPrivate(u, private))
               \/ Wipe(u) \/ WriteSession(u)
      <3>1. fin'[u] = fin[u] /\ content[u].pc = "in"
        BY <2>5 DEF Capture, Attend, SetPrivate, Wipe, WriteSession
      <3>2. content'[u].pc = "in"
        BY <1>0, <2>5 DEF Capture, Attend, SetPrivate, Wipe, WriteSession, TypeOK
      <3>3. QED
        BY <1>0, <3>1, <3>2 DEF AwaitedOf
    <2>6. CASE EndMeeting(u)
      <3>1. fin'[u] = fin[u] /\ content[u].pc = "in" /\ content'[u].pc = "sealed"
        BY <1>0, <2>6 DEF EndMeeting, TypeOK
      <3>2. QED
        BY <1>0, <3>1 DEF AwaitedOf
    <2>7. CASE RelaySession(u)
      BY <1>0, <2>7 DEF RelaySession, AwaitedOf
    <2>8. CASE Reload(u)
      <3>1. content[u].pc \in {"stale", "lobby", "in", "sealed"}
        BY <1>0, <2>8 DEF Reload, AwaitedOf, ContentPCs, FinalizedOnce
      <3>2. fin[u].pc = "idle" /\ content'[u] = NoPage("idle")
        BY <1>0, <2>8, <3>1 DEF Reload, AwaitedOf, TypeOK
      <3>3. fin'[u].pc = "idle"
        BY <2>8, <3>2, UnheardLeaves DEF Reload
      <3>4. QED
        BY <3>2, <3>3 DEF AwaitedOf, NoPage
    <2>9. CASE CloseTab(u)
      <3>1. content'[u] = NoPage("closed")
        BY <2>9 DEF CloseTab, TypeOK
      <3>2. QED
        BY <3>1 DEF AwaitedOf, NoPage
    <2>10. CASE MeetingEnded(u)
      <3> DEFINE asked == [content[u] EXCEPT !.pc =
                             CASE @ = "sealed" -> "ended" [] @ = "stale" -> "evicting"
                               [] OTHER        -> "relayed"]
      <3>1. content[u].pc \in {"sealed", "stale"}
        BY <1>0, <2>10 DEF MeetingEnded, AwaitedOf
      <3>2. content'[u] = asked
        BY <1>0, <2>10, <3>1 DEF MeetingEnded, AwaitedOf, TypeOK
      <3>3. content'[u].pc \in {"ended", "evicting"} /\ content'[u].mem = content[u].mem
        BY <1>0, <3>1, <3>2
      <3>4. content'[u].pc = "evicting" => content[u].pc = "stale"
        BY <1>0, <3>1, <3>2
      <3>5. QED
        BY <1>0, <3>3, <3>4 DEF AwaitedOf
    <2>11. QED
      BY <1>2, <2>1, <2>2, <2>3, <2>4, <2>5, <2>6, <2>7, <2>8, <2>9, <2>10 DEF Page
  <1>3. ASSUME NEW t \in Tabs, Finalization(t) \/ FinThrow(t) PROVE AwaitedOf(u)'
    <2>1. CASE t # u
      <3>1. fin'[u] = fin[u] /\ content'[u] = content[u]
        BY <1>3, <2>1 DEF Finalization, FinReadSession, FinReadWritten, FinAppendFailure, FinCommit,
                          FinMark, FinRemove, FinUntrack, FinThrow, Reply, TypeOK
      <3>2. QED
        BY <1>1, <3>1
    <2>2. CASE t = u /\ ~FinUntrack(u)
      <3>1. ~FinThrow(u)
        BY DEF FinThrow, FinalizedOnce
      <3>2. content' = content /\ fin[u].pc # "idle"
        BY <1>3, <2>2, <3>1 DEF Finalization, FinReadSession, FinReadWritten, FinAppendFailure,
                                FinCommit, FinMark, FinRemove
      <3>3. QED
        BY <1>0, <3>2 DEF AwaitedOf
    <2>3. CASE t = u /\ FinUntrack(u)
      <3>1. fin'[u].pc = "idle" /\ fin[u].pc # "idle"
        BY <2>3 DEF FinUntrack, TypeOK, NoFin
      <3>2. content' = content \/ Reply(u, fin[u].who)
        BY <2>3 DEF FinUntrack
      <3>3. fin[u].who = "page" => content[u].pc \in Waiting
        BY <1>0, <3>1 DEF AnswersOf
      <3>4. QED
        BY <1>0, <3>1, <3>2, <3>3, ReplyAwaited DEF AwaitedOf
    <2>4. QED
      BY <1>3, <2>1, <2>2, <2>3
  <1>4. ASSUME NEW d \in dels, Deliver(d) \/ DeliverFail(d) PROVE AwaitedOf(u)'
    <2>1. fin' = fin /\ (content' = content \/ Reply(d.tab, d.who)) /\ d.tab \in Tabs
      BY <1>4 DEF Deliver, DeliverFile, DeliverClear, DeliverFail, TypeOK, Delivery
    <2>2. CASE content' = content \/ d.tab # u \/ d.who # "page"
      BY <1>1, <2>1, <2>2 DEF Reply, TypeOK
    <2>3. CASE Reply(d.tab, d.who) /\ d.tab = u /\ d.who = "page"
      <3>1. d \in PageDels(u)
        BY <2>3 DEF PageDels
      <3>2. content[u].pc \in Waiting /\ fin[u].pc = "idle"
        BY <1>0, <3>1 DEF AnswersOf
      <3>3. QED
        BY <2>1, <2>3, <3>2, ReplyAwaited
    <2>4. QED
      BY <2>1, <2>2, <2>3
  <1>5. ASSUME NEW t \in Tabs, SaveStart(t) \/ Saving(t) \/ SaveFail(t) PROVE AwaitedOf(u)'
    BY <1>1, <1>5 DEF SaveStart, Saving, SaveResolve, SaveReadWritten, SaveDownload, SaveRecord,
                      SaveFail
  <1>6. ASSUME NEW t \in Tabs, RecScan(t) PROVE AwaitedOf(u)'
    <2>1. content' = content /\ (fin'[u] = fin[u] \/ content[u].pc = "closed")
      BY <1>6, StartLeaves DEF RecScan
    <2>2. QED
      BY <1>0, <2>1 DEF AwaitedOf
  <1>7. CASE RecReadKeys \/ RecScanned \/ RecDeliver \/ RecListPending \/ RecNext \/ RecSave
             \/ RecClear \/ RecDone \/ RecFail
    BY <1>1, <1>7 DEF RecReadKeys, RecScanned, RecDeliver, RecListPending, RecNext, RecSave,
                      RecClear, RecDone, RecFail
  <1>8. CASE Restart \/ UpdateAvailable \/ BrowserCrash
    BY <1>0, <1>8 DEF Restart, UpdateAvailable, BrowserCrash, Reboot, FinalizedOnce
  <1>9. ASSUME NEW i \in DOMAIN history, DeleteMeeting(i) PROVE AwaitedOf(u)'
    BY <1>1, <1>9 DEF DeleteMeeting
  <1>10. CASE UNCHANGED vars
    BY <1>1, <1>10 DEF vars
  <1>11. QED
    BY <1>2, <1>3, <1>4, <1>5, <1>6, <1>7, <1>8, <1>9, <1>10 DEF Next, Failures, Recovery

LEMMA AwaitedHolds ==
    ASSUME FinalizedOnce
    PROVE  Spec => []Awaited
  <1>1. Init => Awaited
    BY DEF Init, Awaited, AwaitedOf, NoPage, NoFin
  <1>2. TypeOK /\ Answers /\ Awaited /\ [Next]_vars => Awaited'
    BY AwaitedStep
  <1>3. QED
    BY <1>1, <1>2, TypeCorrect, AnswersHold, PTL DEF Spec

(* A page comes to the lobby or a call only from where its session is its own. *)
OwnBefore(u) ==
    \/ content[u].pc \in {"lobby", "in", "sealed"}
    \/ content[u].pc = "idle" /\ content'[u].mem = session[u]

LEMMA PagesMove ==
    ASSUME FinalizedOnce, TypeOK, Awaited, [Next]_vars, NEW u \in Tabs,
           content'[u].pc \in {"lobby", "in", "sealed"}, content'[u].mem # None
    PROVE  OwnBefore(u)
  <1> USE DEF store, worker, ghosts
  <1>0. /\ AwaitedOf(u) /\ starts \in Nat
        /\ content[u] \in [pc: ContentPCs, room: Rooms \cup {None}, mem: Session \cup {None}, heard: BOOLEAN]
    BY DEF Awaited, TypeOK, Content
  <1>1. ASSUME content'[u].pc = content[u].pc PROVE OwnBefore(u)
    BY <1>1 DEF OwnBefore
  <1>2. ASSUME NEW who, Reply(u, who) PROVE OwnBefore(u)
    <2>1. content'[u] = content[u] \/ content'[u] = Answer(content[u])
      BY <1>2 DEF Reply, TypeOK
    <2>2. content'[u] = Answer(content[u]) => content[u].pc # "evicting"
      BY <1>0 DEF Answer, AwaitedOf
    <2>3. content'[u] = content[u]
      BY <2>1, <2>2 DEF Answer, NoPage
    <2>4. QED
      BY <1>1, <2>3
  <1>3. ASSUME NEW t \in Tabs, Page(t) \/ MeetingEnded(t)
        PROVE  OwnBefore(u)
    <2>1. CASE t # u
      <3>1. content'[u] = content[u]
        BY <1>3, <2>1 DEF Page, ReadPrevious, LeaveLobby, Join, Capture, Attend, SetPrivate, Wipe,
                          WriteSession, EndMeeting, RelaySession, Reload, CloseTab, MeetingEnded, TypeOK
      <3>2. QED
        BY <1>1, <3>1
    <2>2. CASE t = u /\ (\E r \in Rooms : ReadPrevious(u, r))
      BY <2>2, ReadPreviousOpens DEF ReadPrevious, OwnBefore
    <2>3. CASE t = u /\ (\/ LeaveLobby(u) \/ (\E private \in Privacies : SetPrivate(u, private))
                         \/ (\E private \in Privacies, heard \in BOOLEAN : Join(u, private, heard))
                         \/ Capture(u) \/ Attend(u) \/ Wipe(u) \/ WriteSession(u) \/ EndMeeting(u))
      BY <2>3 DEF LeaveLobby, Join, SetPrivate, Capture, Attend, Wipe, WriteSession, EndMeeting,
                     OwnBefore
    <2>4. CASE t = u /\ RelaySession(u)
      BY <1>0, <2>4 DEF RelaySession, AwaitedOf
    <2>5. CASE t = u /\ (Reload(u) \/ CloseTab(u))
      BY <2>5 DEF Reload, CloseTab, NoPage, TypeOK
    <2>6. CASE t = u /\ MeetingEnded(u)
      <3>1. content[u].pc = "stale" => content'[u].mem = None
        <4> DEFINE asked == [content[u] EXCEPT !.pc =
                               CASE @ = "sealed" -> "ended" [] @ = "stale" -> "evicting"
                                 [] OTHER        -> "relayed"]
        <4>1. content'[u] \in {asked, Answer(asked)}
          BY <2>6 DEF MeetingEnded, TypeOK
        <4>2. asked.mem = content[u].mem /\ Answer(asked).mem \in {asked.mem, None}
          BY <1>0 DEF Answer, NoPage
        <4> HIDE DEF asked
        <4>3. QED
          BY <1>0, <4>1, <4>2 DEF AwaitedOf
      <3>2. QED
        BY <1>0, <2>6, <3>1 DEF MeetingEnded, AwaitedOf, OwnBefore
    <2>7. QED
      BY <1>3, <2>1, <2>2, <2>3, <2>4, <2>5, <2>6 DEF Page
  <1>4. ASSUME NEW t \in Tabs, Finalization(t) \/ FinThrow(t)
        PROVE  OwnBefore(u)
    <2>1. content' = content \/ \E who : Reply(t, who)
      BY <1>4 DEF Finalization, FinReadSession, FinReadWritten, FinAppendFailure, FinCommit,
                  FinMark, FinRemove, FinUntrack, FinThrow
    <2>2. CASE t = u
      BY <1>1, <1>2, <2>1, <2>2
    <2>3. CASE t # u
      BY <1>1, <2>1, <2>3 DEF Reply, TypeOK
    <2>4. QED
      BY <2>2, <2>3
  <1>5. ASSUME NEW d \in dels, Deliver(d) \/ DeliverFail(d)
        PROVE  OwnBefore(u)
    <2>1. d.tab \in Tabs /\ (content' = content \/ Reply(d.tab, d.who))
      BY <1>5 DEF Deliver, DeliverFile, DeliverClear, DeliverFail, TypeOK, Delivery
    <2>2. CASE d.tab = u
      BY <1>1, <1>2, <2>1, <2>2
    <2>3. CASE d.tab # u
      BY <1>1, <2>1, <2>3 DEF Reply, TypeOK
    <2>4. QED
      BY <2>2, <2>3
  <1>6. ASSUME NEW t \in Tabs, SaveStart(t) \/ Saving(t) \/ SaveFail(t) PROVE content' = content
    BY <1>6 DEF SaveStart, Saving, SaveResolve, SaveReadWritten, SaveDownload, SaveRecord, SaveFail
  <1>7. ASSUME Recovery \/ RecFail PROVE content' = content
    BY <1>7 DEF Recovery, RecReadKeys, RecScan, RecScanned, RecDeliver, RecListPending, RecNext,
                RecSave, RecClear, RecDone, RecFail
  <1>8. ~(Restart \/ UpdateAvailable \/ BrowserCrash)
    BY <1>0 DEF Restart, UpdateAvailable, BrowserCrash, Reboot, FinalizedOnce
  <1>9. ASSUME NEW i \in DOMAIN history, DeleteMeeting(i) PROVE content' = content
    BY <1>9 DEF DeleteMeeting
  <1>10. CASE UNCHANGED vars
    BY <1>1, <1>10 DEF vars
  <1>11. QED
    BY <1>1, <1>3, <1>4, <1>5, <1>6, <1>7, <1>8, <1>9, <1>10 DEF Next, Failures

(* A session reaches history only by the finalization of its tab, and from then   *)
(* on is nobody's.                                                           *)
UncommittedOf(t) ==
    /\ session[t] # None /\ fin[t].pc \notin {"mark", "remove"} => ~Visited(session[t].startedAt)
    /\ content[t].pc \in {"lobby", "in", "sealed"} /\ content[t].mem # None
          => ~Visited(content[t].mem.startedAt)

Uncommitted == \A t \in Tabs : UncommittedOf(t)

LEMMA CommittedByItsTab ==
    ASSUME TypeOK, Custody, Built, Dated, [Next]_vars,
           NEW u \in Tabs, NEW v \in Nat, Owns(u, v) \/ (Begun(u) /\ v = clock'),
           ~Visited(v) \/ (Begun(u) /\ v = clock'), Visited(v)'
    PROVE  Commits(u)
  <1>1. clock \in Nat
    BY DEF TypeOK
  <1>2. \A t \in Tabs : Commits(t) => Owns(t, fin[t].s.startedAt) /\ fin[t].s.startedAt \in Nat
    <2>1. \A t \in Tabs : Commits(t) => Building(t)
      BY CommitEffect DEF Commits
    <2>2. QED
      BY <2>1 DEF Building, Custody, FinalizeOwnsSession, Built, Owns, Session
  <1>3. CASE Begun(u) /\ v = clock'
    <2>1. v = clock + 1
      BY <1>3 DEF Begun
    <2>2. ~Visited(v)
      BY <1>1, <2>1 DEF Dated
    <2>3. PICK t \in Tabs : Commits(t) /\ v = fin[t].s.startedAt
      BY <2>2, VisitedBy
    <2>4. v <= clock
      BY <1>2, <2>3 DEF Dated
    <2>5. QED
      BY <1>1, <2>1, <2>4
  <1>4. CASE Owns(u, v) /\ ~Visited(v)
    <2>1. PICK t \in Tabs : Commits(t) /\ v = fin[t].s.startedAt
      BY <1>4, VisitedBy
    <2>2. t = u
      BY <1>2, <1>4, <2>1 DEF Dated
    <2>3. QED
      BY <2>1, <2>2
  <1>5. QED
    BY <1>3, <1>4

LEMMA UncommittedStep ==
    ASSUME FinalizedOnce, TypeOK, Custody, Built, Dated, Awaited, Uncommitted, [Next]_vars
    PROVE  Uncommitted'
  <1> USE DEF store, worker, ghosts
  <1> SUFFICES ASSUME NEW u \in Tabs PROVE UncommittedOf(u)'
    BY DEF Uncommitted
  <1>0. /\ UncommittedOf(u) /\ AwaitedOf(u) /\ starts \in Nat
        /\ content[u] \in [pc: ContentPCs, room: Rooms \cup {None}, mem: Session \cup {None}, heard: BOOLEAN]
        /\ session[u] \in Session \cup {None}
    BY DEF Uncommitted, Awaited, TypeOK, Content
  <1>1. /\ session[u] # None => session[u].startedAt \in Nat
        /\ content[u].mem # None => content[u].mem.startedAt \in Nat
    BY <1>0 DEF Session
  <1>2. Commits(u) => /\ fin[u].pc \in {"append", "commit"} /\ fin'[u].pc \in {"mark", "remove"}
                      /\ content' = content
    <2>1. Commits(u) => Building(u) /\ fin'[u].pc \in {"mark", "remove"} /\ content' = content
      BY CommitEffect DEF Commits
    <2>2. QED
      BY <2>1 DEF Building
  <1>3. ASSUME session'[u] # None, fin'[u].pc \notin {"mark", "remove"}
        PROVE  ~Visited(session[u].startedAt)'
    <2>1. CASE session'[u] = session[u]
      <3>1. fin[u].pc \notin {"mark", "remove"}
        <4> SUFFICES ASSUME fin[u].pc \in {"mark", "remove"} PROVE FALSE
          OBVIOUS
        <4>1. FinMoves(u)
          BY FinMovesAtEveryStep
        <4>2. ~FinThrow(u) /\ ~Reboot
          BY <1>0 DEF FinThrow, Reboot, FinalizedOnce
        <4>3. FinMark(u) \/ FinRemove(u)
          BY <1>3, <4>1, <4>2 DEF FinMoves, Finalization, FinReadSession, FinReadWritten,
                                  FinAppendFailure, FinCommit, FinUntrack
        <4>4. FinMark(u) => fin'[u].pc = "remove"
          BY FinFields DEF FinMark, TypeOK, Fin
        <4>5. FinRemove(u) => session'[u] = None
          BY DEF FinRemove, TypeOK
        <4>6. QED
          BY <1>3, <4>3, <4>4, <4>5
      <3>2. ~Visited(session[u].startedAt) /\ Owns(u, session[u].startedAt)
        BY <1>0, <1>3, <2>1, <3>1 DEF UncommittedOf, Owns
      <3>3. ASSUME Visited(session[u].startedAt)' PROVE FALSE
        <4> DEFINE v == session[u].startedAt
        <4>1. Visited(v)'
          BY <2>1, <3>3 DEF Visited
        <4> HIDE DEF v
        <4>2. Commits(u)
          BY <1>1, <1>3, <2>1, <3>2, <4>1, CommittedByItsTab DEF v
        <4>3. QED
          BY <1>2, <1>3, <4>2
      <3>4. QED
        BY <3>3
    <2>2. CASE session'[u] # session[u]
      <3>1. PICK t \in Tabs : WriteSession(t) \/ EndMeeting(t) \/ RelaySession(t) \/ FinRemove(t)
        BY <2>2, SessionWriters
      <3>2. t = u /\ ~FinRemove(t)
        BY <1>3, <2>2, <3>1 DEF WriteSession, EndMeeting, RelaySession, FinRemove, TypeOK
      <3>3. session'[u] = content[u].mem /\ content[u].pc = "in"
        BY <1>0, <3>1, <3>2 DEF WriteSession, EndMeeting, RelaySession, AwaitedOf, TypeOK
      <3>4. UNCHANGED <<history, gone>>
        BY <3>1, <3>2 DEF WriteSession, EndMeeting, RelaySession
      <3>5. QED
        BY <1>0, <1>3, <3>3, <3>4 DEF UncommittedOf, Visited
    <2>3. QED
      BY <2>1, <2>2
  <1>4. ASSUME content'[u].pc \in {"lobby", "in", "sealed"}, content'[u].mem # None,
               NEW v, v = content'[u].mem.startedAt, Visited(v)'
        PROVE  FALSE
    <2>1. OwnBefore(u)
      BY <1>4, PagesMove
    <2>2. fin[u].pc = "idle"
      BY <1>0, <2>1 DEF AwaitedOf, OwnBefore
    <2>3. v \in Nat /\ (Owns(u, v) \/ (Begun(u) /\ v = clock'))
      <3>1. content'[u] \in Content
        <4>1. TypeOK'
          BY NextKeepsType
        <4>2. QED
          BY <4>1 DEF TypeOK
      <3>2. v \in Nat
        BY <1>4, <3>1 DEF Content, Session
      <3>3. Owns(u, v)'
        BY <1>4 DEF Owns
      <3>4. QED
        BY <3>2, <3>3, OwnedBy
    <2>4. ~Visited(v) \/ (Begun(u) /\ v = clock')
      <3>1. CopiesMove(u)
        BY CopiesMoveAtEveryStep
      <3>2. CASE content'[u].mem = session[u]
        BY <1>0, <1>4, <2>2, <3>2 DEF UncommittedOf
      <3>3. CASE content[u].pc \in {"lobby", "in", "sealed"} /\ content[u].mem # None
                 /\ v = content[u].mem.startedAt
        BY <1>0, <3>3 DEF UncommittedOf
      <3>4. QED
        BY <1>4, <2>1, <3>1, <3>2, <3>3 DEF CopiesMove, Grew, Begun, OwnBefore
    <2>5. Commits(u)
      BY <1>4, <2>3, <2>4, CommittedByItsTab
    <2>6. QED
      BY <1>2, <2>2, <2>5
  <1>5. QED
    BY <1>3, <1>4 DEF UncommittedOf

LEMMA OnceByAppend ==
    ASSUME TypeOK, TypeOK', CommittedOnce, NEW m \in Meeting, NEW x \in Visit, m.visits = <<x>>,
           ~Visited(x.startedAt), Appended(m)
    PROVE  CommittedOnce'
  <1>1. PICK off \in Nat : \A j \in DOMAIN history' :
            /\ j + off \in 1 .. Len(history) + 1
            /\ j + off \in DOMAIN history => history'[j] = history[j + off]
            /\ j + off \notin DOMAIN history => history'[j] = m
    BY DEF Appended
  <1>2. /\ DOMAIN history = 1 .. Len(history) /\ Len(history) \in Nat
        /\ \A j \in DOMAIN history' : j \in Nat
    BY DEF TypeOK
  <1>3. DOMAIN m.visits = {1} /\ m.visits[1] = x
    OBVIOUS
  <1>4. \A i \in DOMAIN history : \A k \in DOMAIN history[i].visits :
          history[i].visits[k].startedAt # x.startedAt
    BY DEF Visited, VisitsOf
  <1>5. \A j \in DOMAIN history' : j + off \notin DOMAIN history => j + off = Len(history) + 1
    BY <1>1, <1>2
  <1> SUFFICES ASSUME NEW i \in DOMAIN history', NEW j \in DOMAIN history',
                      NEW k \in DOMAIN history'[i].visits, NEW l \in DOMAIN history'[j].visits,
                      history'[i].visits[k].startedAt = history'[j].visits[l].startedAt
               PROVE  i = j /\ k = l
    BY DEF CommittedOnce
  <1>6. CASE i + off \in DOMAIN history /\ j + off \in DOMAIN history
    <2>1. history'[i] = history[i + off] /\ history'[j] = history[j + off]
      BY <1>1, <1>6
    <2>2. i + off = j + off /\ k = l
      BY <1>6, <2>1 DEF CommittedOnce
    <2>3. QED
      BY <1>2, <2>2
  <1>7. CASE i + off \notin DOMAIN history /\ j + off \notin DOMAIN history
    <2>1. i + off = j + off
      BY <1>5, <1>7
    <2>2. QED
      BY <1>1, <1>2, <1>3, <1>7, <2>1
  <1>8. CASE ~(i + off \in DOMAIN history <=> j + off \in DOMAIN history)
    BY <1>1, <1>3, <1>4, <1>8
  <1>9. QED
    BY <1>6, <1>7, <1>8

LEMMA OnceByMerge ==
    ASSUME TypeOK, CommittedOnce, NEW m \in Meeting, NEW x \in Visit, m.visits = <<x>>,
           ~Visited(x.startedAt), NEW n \in DOMAIN history, MergedInto(n, m)
    PROVE  CommittedOnce'
  <1> DEFINE old == history[n].visits
  <1>1. old \in Seq(Visit) /\ history[n] \in Meeting
    BY RowType, MeetingVisits
  <1>2. DOMAIN history' = DOMAIN history /\ \A j \in DOMAIN history \ {n} : history'[j] = history[j]
    BY DEF MergedInto
  <1>3. history'[n].visits = old \o <<x>>
    BY <1>1 DEF MergedInto, MergeMeetings, Meeting
  <1> HIDE DEF old
  <1>4. \A k \in DOMAIN history'[n].visits :
          \/ k \in DOMAIN old /\ history'[n].visits[k] = old[k]
          \/ k = Len(old) + 1 /\ k \notin DOMAIN old /\ history'[n].visits[k] = x
    BY <1>1, <1>3
  <1>5. \A i \in DOMAIN history : \A k \in DOMAIN history[i].visits :
          history[i].visits[k].startedAt # x.startedAt
    BY DEF Visited, VisitsOf
  <1> SUFFICES ASSUME NEW i \in DOMAIN history, NEW j \in DOMAIN history,
                      NEW k \in DOMAIN history'[i].visits, NEW l \in DOMAIN history'[j].visits,
                      history'[i].visits[k].startedAt = history'[j].visits[l].startedAt
               PROVE  i = j /\ k = l
    BY <1>2 DEF CommittedOnce
  <1>6. \A a \in DOMAIN history : \A b \in DOMAIN history'[a].visits :
          \/ b \in DOMAIN history[a].visits /\ history'[a].visits[b] = history[a].visits[b]
          \/ a = n /\ b = Len(old) + 1 /\ history'[a].visits[b] = x
    BY <1>2, <1>4 DEF old
  <1>7. CASE k \in DOMAIN history[i].visits /\ history'[i].visits[k] = history[i].visits[k]
    BY <1>5, <1>6, <1>7 DEF CommittedOnce
  <1>8. CASE i = n /\ k = Len(old) + 1 /\ history'[i].visits[k] = x
    BY <1>5, <1>6, <1>8
  <1>9. QED
    BY <1>6, <1>7, <1>8

LEMMA OnceByRemoval ==
    ASSUME TypeOK, TypeOK', CommittedOnce, NEW n \in DOMAIN history, Removed(n)
    PROVE  CommittedOnce'
  <1> SUFFICES ASSUME NEW i \in DOMAIN history', NEW j \in DOMAIN history',
                      NEW k \in DOMAIN history'[i].visits, NEW l \in DOMAIN history'[j].visits,
                      history'[i].visits[k].startedAt = history'[j].visits[l].startedAt
               PROVE  i = j /\ k = l
    BY DEF CommittedOnce
  <1> DEFINE at(y) == IF y < n THEN y ELSE y + 1
  <1>1. /\ at(i) \in DOMAIN history /\ history'[i] = history[at(i)]
        /\ at(j) \in DOMAIN history /\ history'[j] = history[at(j)]
    BY DEF Removed
  <1>2. at(i) = at(j) /\ k = l
    BY <1>1 DEF CommittedOnce
  <1>3. i \in Nat /\ j \in Nat /\ n \in Nat
    BY DEF TypeOK
  <1>4. QED
    BY <1>2, <1>3

LEMMA CommittedOnceStep ==
    ASSUME TypeOK, TypeOK', Custody, Built, Uncommitted, CommittedOnce, [Next]_vars
    PROVE  CommittedOnce'
  <1>1. ASSUME NEW t \in Tabs, Commits(t) PROVE CommittedOnce'
    <2> DEFINE s == fin[t].s
               x == [startedAt |-> s.startedAt, words |-> s.words]
    <2>1. /\ Building(t) /\ fin[t].m \in Meeting
          /\ \/ Appended(fin[t].m)
             \/ \E i \in DOMAIN history : MergedInto(i, fin[t].m)
      BY <1>1, CommitEffect DEF Commits
    <2>2. s \in Session /\ fin[t].m.visits = <<x>>
      BY <2>1 DEF Built
    <2>3. x \in Visit /\ x.startedAt = s.startedAt
      BY <2>2 DEF Session, Visit
    <2>4. session[t] # None /\ session[t] = s /\ fin[t].pc \notin {"mark", "remove"}
      BY <2>1 DEF Building, Custody, FinalizeOwnsSession
    <2>5. ~Visited(x.startedAt)
      BY <2>3, <2>4 DEF Uncommitted, UncommittedOf
    <2> HIDE DEF x, s
    <2>6. QED
      BY <2>1, <2>2, <2>3, <2>5, OnceByAppend, OnceByMerge
  <1>2. ASSUME NEW i \in DOMAIN history, DeleteMeeting(i) PROVE CommittedOnce'
    BY <1>2, RemovedBy, OnceByRemoval
  <1>3. CASE UNCHANGED <<history, gone>>
    BY <1>3 DEF CommittedOnce
  <1>4. QED
    BY <1>1, <1>2, <1>3, HistoryWriters DEF Commits

(* While no finalization fails and none is asked for again by a page or a worker   *)
(* that did not wait for the first, no visit reaches history twice: whatever the  *)
(* tabs, rooms, closings, merges and deletions, every session is committed by     *)
(* one finalization, of its own tab (sessions.ts "finalizing").                *)
THEOREM CommittedOnceHolds ==
    ASSUME LobbyOutlastsFinalize, FinalizedOnce
    PROVE  Spec => []CommittedOnce
  <1>1. Init => Uncommitted /\ CommittedOnce
    BY DEF Init, Uncommitted, UncommittedOf, CommittedOnce, NoPage
  <1>2. TypeOK /\ TypeOK' /\ Custody /\ Built /\ Dated /\ Awaited /\ Uncommitted /\ CommittedOnce
          /\ [Next]_vars => Uncommitted' /\ CommittedOnce'
    BY UncommittedStep, CommittedOnceStep
  <1>3. QED
    BY <1>1, <1>2, TypeCorrect, CustodyHolds, BuiltHolds, DatedHolds, AwaitedHolds, PTL DEF Spec

-------------------------------------------------------------------------------
(*                    What says a meeting must be exported                  *)

(* Every meeting of history has a visit. *)
Rowed == \A i \in DOMAIN history : Len(history[i].visits) > 0

(* A meeting on its way from a commit to its file and the clearing of its mark. *)
Outgoing(x) ==
    \/ \E d \in dels : d.m = x
    \/ \E r \in rec.results : r.m = x
    \/ rec.pc \in {"save", "clear"} /\ rec.m = x
    \/ \E t \in Tabs : Holding(t) /\ fin[t].m = x

(* What is exported is what history has, unless a later visit was merged into it. *)
Copied ==
    \A x \in Meeting : Outgoing(x) =>
        \A i \in DOMAIN history : history[i].id = x.id =>
            Merged(history[i]) \/ history[i].visits = x.visits

LEMMA OutgoingIsUsed ==
    ASSUME TypeOK, Clears, NEW x \in Meeting, Outgoing(x)
    PROVE  Used(x.id)
  BY NoneAssumption DEF Outgoing, Used, Clears, RecClears

(* A finalization that does not commit gets no meeting into its hands. *)
LEMMA HoldingBefore ==
    ASSUME TypeOK, Numbered, NEW t \in Tabs, Finalization(t) \/ FinThrow(t), ~Commits(t)
    PROVE  Holding(t)' => Holding(t) /\ fin'[t].m = fin[t].m
  <1>0. fin[t] \in Fin
    BY DEF TypeOK
  <1>1. CASE FinReadSession(t) \/ FinRemove(t) \/ FinMark(t)
    <2>1. /\ fin'[t].pc \in {"untrackOnly", "written", "untrack", "remove"} /\ fin'[t].m = fin[t].m
          /\ fin[t].pc = "session" => fin'[t].pc \in {"untrackOnly", "written"}
      BY <1>0, <1>1 DEF FinReadSession, FinRemove, FinMark, TypeOK, Fin
    <2>2. fin[t].pc \in {"session", "mark", "remove"}
      BY <1>1 DEF FinReadSession, FinRemove, FinMark
    <2>3. QED
      BY <2>1, <2>2 DEF Holding
  <1>2. CASE FinReadWritten(t)
    <2>1. fin[t].m = None /\ fin[t].pc = "written"
      BY <1>2 DEF FinReadWritten, Numbered
    <2>2. CASE fin' = [fin EXCEPT ![t].pc = "remove", ![t].w = written[t]]
      <3>1. fin'[t].m = None
        BY <1>0, <2>1, <2>2 DEF TypeOK, Fin
      <3>2. QED
        BY <3>1 DEF Holding
    <2>3. ASSUME NEW merge \in MergeModes,
                 fin' = [fin EXCEPT ![t].pc = IF Empty(fin[t].s) THEN "append" ELSE "commit",
                                    ![t].w = written[t],
                                    ![t].m = SessionToMeeting(fin[t].s, clock + 1, clock + 1),
                                    ![t].merge = merge]
          PROVE  ~Holding(t)'
      <3>1. fin'[t].pc \in {"append", "commit"}
        BY <1>0, <2>3 DEF TypeOK, Fin
      <3>2. QED
        BY <3>1 DEF Holding
    <2>4. QED
      BY <1>2, <2>2, <2>3 DEF FinReadWritten
  <1>3. CASE FinUntrack(t) \/ FinThrow(t)
    <2>1. fin'[t].pc = "idle"
      BY <1>3, FinIsReleased
    <2>2. QED
      BY <2>1 DEF Holding
  <1>4. QED
    BY <1>1, <1>2, <1>3 DEF Finalization, Commits

LEMMA FinalizationSends ==
    ASSUME TypeOK, Numbered, NEW t \in Tabs, Finalization(t) \/ FinThrow(t), ~Commits(t),
           NEW x \in Meeting, Outgoing(x)'
    PROVE  Outgoing(x)
  <1> USE DEF store, worker, ghosts
  <1>1. fin[t] \in Fin /\ rec \in Rec
    BY DEF TypeOK
  <1>2. \A u \in Tabs \ {t} : Holding(u)' => Holding(u) /\ fin'[u].m = fin[u].m
    BY DEF Finalization, FinReadSession, FinReadWritten, FinMark, FinRemove, FinUntrack, FinThrow,
           FinAppendFailure, FinCommit, Holding, TypeOK
  <1>3. Holding(t)' => Holding(t) /\ fin'[t].m = fin[t].m
    BY HoldingBefore
  <1>4. CASE ~FinUntrack(t) /\ ~FinThrow(t)
    <2>1. UNCHANGED <<dels, rec>>
      BY <1>4 DEF Finalization, FinReadSession, FinReadWritten, FinMark, FinRemove,
                  FinAppendFailure, FinCommit
    <2>2. QED
      BY <1>2, <1>3, <2>1 DEF Outgoing
  <1>5. CASE FinUntrack(t) \/ FinThrow(t)
    <2>1. fin[t].m # None /\ FinUntrack(t) => Holding(t)
      BY DEF FinUntrack, Holding, Numbered
    <2>2. /\ \A d \in dels' \ dels : FinUntrack(t) /\ fin[t].m # None /\ d.m = fin[t].m
          /\ \A r \in rec'.results \ rec.results : FinUntrack(t) /\ fin[t].m # None /\ r.m = fin[t].m
          /\ rec'.pc \in {"save", "clear"} => rec'.pc = rec.pc /\ rec'.m = rec.m
      BY <1>5, UntrackEffect, ThrowEffect
    <2>3. QED
      BY <1>2, <1>3, <2>1, <2>2 DEF Outgoing
  <1>6. QED
    BY <1>4, <1>5

LEMMA OthersSend ==
    ASSUME TypeOK, [Next]_vars, \A t \in Tabs : ~Finalization(t) /\ ~FinThrow(t),
           NEW x \in Meeting, Outgoing(x)'
    PROVE  \/ Outgoing(x)
           \/ \E i \in DOMAIN history : x = history[i] /\ history' = history
  <1> USE DEF store, worker, ghosts
  <1>1. rec \in Rec
    BY DEF TypeOK
  <1>2. \A u \in Tabs : Holding(u)' => Holding(u) /\ fin'[u].m = fin[u].m
    <2> SUFFICES ASSUME NEW u \in Tabs, Holding(u)' PROVE Holding(u) /\ fin'[u].m = fin[u].m
      OBVIOUS
    <2>1. FinMoves(u)
      BY FinMovesAtEveryStep
    <2>2. Reboot => fin'[u].pc = "idle"
      BY DEF Reboot, NoFin
    <2>3. QED
      BY <2>1, <2>2 DEF FinMoves, Holding
  <1>3. ASSUME \A d \in dels' : \E e \in dels : d.m = e.m,
               rec'.results \subseteq rec.results,
               rec'.pc \in {"save", "clear"} => rec.pc \in {"save", "clear"} /\ rec'.m = rec.m
        PROVE  Outgoing(x)
    BY <1>2, <1>3 DEF Outgoing
  <1>4. ASSUME NEW t \in Tabs, Page(t) \/ MeetingEnded(t) PROVE Outgoing(x)
    <2>1. PageLeavesWorker
      BY <1>4, PageEffect
    <2>2. QED
      BY <1>3, <2>1 DEF PageLeavesWorker
  <1>5. ASSUME NEW t \in Tabs, SaveStart(t) \/ Saving(t) \/ SaveFail(t) PROVE Outgoing(x)
    BY <1>3, <1>5 DEF SaveStart, Saving, SaveResolve, SaveReadWritten, SaveDownload, SaveRecord,
                      SaveFail
  <1>6. ASSUME NEW d \in dels, Deliver(d) \/ DeliverFail(d) PROVE Outgoing(x)
    <2>1. [d EXCEPT !.pc = "clear"].m = d.m
      BY DEF TypeOK, Delivery
    <2>2. rec' = rec /\ \A y \in dels' : y \in dels \/ y.m = d.m
      BY <1>6, <2>1 DEF Deliver, DeliverFile, DeliverClear, DeliverFail
    <2>3. QED
      BY <1>3, <2>2
  <1>7. CASE RecReadKeys \/ RecScanned \/ RecListPending \/ RecDone \/ RecFail
    <2>1. dels' = dels /\ rec'.results \subseteq rec.results /\ rec'.pc \notin {"save", "clear"}
      BY <1>7, PauseEffect DEF RecPauses, RecReadKeys, RecScanned, RecListPending, RecDone, RecFail
    <2>2. QED
      BY <1>3, <2>1
  <1>8. ASSUME NEW t \in Tabs, RecScan(t) PROVE Outgoing(x)
    <2>1. dels' = dels /\ rec'.results = rec.results /\ rec'.pc \in {"scan", "await"}
      BY <1>1, <1>8 DEF RecScan, Rec
    <2>2. QED
      BY <1>3, <2>1
  <1>9. CASE RecDeliver
    <2>1. PICK r \in rec.results :
             rec' = [rec EXCEPT !.pc = "save", !.then = "deliver", !.results = @ \ {r},
                                !.id = r.m.id, !.m = r.m, !.w = r.w]
      BY <1>9 DEF RecDeliver
    <2>2. rec'.results = rec.results \ {r} /\ rec'.m = r.m
      BY <1>1, <2>1 DEF Rec
    <2>3. dels' = dels
      BY <1>9 DEF RecDeliver
    <2>4. QED
      BY <1>2, <2>2, <2>3 DEF Outgoing
  <1>10. CASE RecNext
    <2>1. PICK id \in rec.ids :
            \/ \E i \in DOMAIN history :
                  rec' = [rec EXCEPT !.pc = "save", !.then = "next", !.ids = @ \ {id},
                                     !.id = id, !.m = history[i], !.w = None]
            \/ rec' = [rec EXCEPT !.pc = "clear", !.then = "next", !.ids = @ \ {id},
                                  !.id = id, !.m = None, !.w = None]
      BY <1>10 DEF RecNext
    <2>2. /\ rec'.results = rec.results
          /\ rec'.m = None \/ \E i \in DOMAIN history : rec'.m = history[i]
      BY <1>1, <2>1 DEF Rec
    <2>3. dels' = dels /\ history' = history
      BY <1>10 DEF RecNext
    <2>4. QED
      BY <1>2, <2>2, <2>3, NoneAssumption DEF Outgoing
  <1>11. CASE RecSave \/ RecClear
    <2>1. /\ dels' = dels /\ rec'.results = rec.results /\ rec'.m = rec.m
          /\ rec.pc \in {"save", "clear"}
      BY <1>1, <1>11 DEF RecSave, RecClear, Rec
    <2>2. QED
      BY <1>3, <2>1
  <1>12. CASE Restart \/ UpdateAvailable \/ BrowserCrash
    <2>1. dels' = {} /\ rec'.results = {} /\ rec'.pc = "keys"
      BY <1>12 DEF Restart, UpdateAvailable, BrowserCrash, Reboot, NewRec, NoRec
    <2>2. QED
      BY <1>3, <2>1
  <1>13. ASSUME NEW i \in DOMAIN history, DeleteMeeting(i) PROVE Outgoing(x)
    BY <1>3, <1>13 DEF DeleteMeeting
  <1>14. CASE UNCHANGED vars
    BY <1>3, <1>14 DEF vars
  <1>15. QED
    BY <1>4, <1>5, <1>6, <1>7, <1>8, <1>9, <1>10, <1>11, <1>12, <1>13, <1>14
       DEF Next, Failures, Recovery

LEMMA MergeLength ==
    ASSUME NEW a \in Meeting, NEW b \in Meeting, Len(a.visits) > 0, Len(b.visits) > 0
    PROVE  Merged(MergeMeetings(a, b))
  <1>1. a.visits \in Seq(Visit) /\ b.visits \in Seq(Visit)
    BY DEF Meeting
  <1>2. MergeMeetings(a, b).visits = a.visits \o b.visits
    BY DEF MergeMeetings, Meeting
  <1>3. Len(a.visits \o b.visits) = Len(a.visits) + Len(b.visits)
    BY <1>1
  <1>4. Len(a.visits) \in Nat /\ Len(b.visits) \in Nat
    BY <1>1
  <1>5. \A x, y \in Nat : x > 0 /\ y > 0 => x + y > 1
    OBVIOUS
  <1>6. QED
    BY <1>2, <1>3, <1>4, <1>5, Zenon DEF Merged

(* What a commit does to history: one row more, or one merged further. *)
LEMMA CommitRows ==
    ASSUME TypeOK, Built, NEW t \in Tabs, Commits(t)
    PROVE  LET m == fin[t].m
           IN  /\ m \in Meeting /\ Len(m.visits) = 1
               /\ Holds(m, fin[t].s.startedAt, fin[t].s.words)
               /\ \/ Appended(m) /\ AppendToHistory(m) /\ fin'[t].m = m
                  \/ \E i \in DOMAIN history : MergedInto(i, m) /\ fin'[t].m = history'[i] /\ UNCHANGED gone
  <1> DEFINE x == [startedAt |-> fin[t].s.startedAt, words |-> fin[t].s.words]
  <1>1. /\ Building(t) /\ fin[t].m \in Meeting
        /\ \/ Appended(fin[t].m) /\ AppendToHistory(fin[t].m) /\ fin'[t].m = fin[t].m
           \/ \E i \in DOMAIN history : MergedInto(i, fin[t].m) /\ fin'[t].m = history'[i] /\ UNCHANGED gone
    BY CommitEffect DEF Commits
  <1>2. fin[t].m.visits = <<x>> /\ fin[t].s \in Session
    BY <1>1 DEF Built
  <1>3. x.startedAt = fin[t].s.startedAt /\ x.words = fin[t].s.words /\ fin[t].s.words \in Nat
    BY <1>2 DEF Session
  <1> HIDE DEF x
  <1>4. Len(<<x>>) = 1 /\ DOMAIN <<x>> = {1} /\ <<x>>[1] = x
    OBVIOUS
  <1>5. QED
    BY <1>1, <1>2, <1>3, <1>4 DEF Holds

LEMMA RowedStep == TypeOK /\ Built /\ Rowed /\ [Next]_vars => Rowed'
  <1> SUFFICES ASSUME TypeOK, Built, Rowed, [Next]_vars PROVE Rowed'
    OBVIOUS
  <1>1. ASSUME NEW t \in Tabs, Commits(t) PROVE Rowed'
    <2> DEFINE m == fin[t].m
    <2>1. m \in Meeting /\ Len(m.visits) = 1
      BY <1>1, CommitRows
    <2>2. CASE Appended(m)
      <3>1. \A j \in DOMAIN history' : history'[j] = m \/ \E i \in DOMAIN history : history'[j] = history[i]
        BY <2>2 DEF Appended
      <3>2. Len(m.visits) > 0
        BY <2>1
      <3> HIDE DEF m
      <3>3. QED
        BY <3>1, <3>2 DEF Rowed
    <2>3. ASSUME NEW i \in DOMAIN history, MergedInto(i, m) PROVE Rowed'
      <3>1. history[i] \in Meeting /\ Len(history[i].visits) > 0
        BY DEF TypeOK, Rowed
      <3>2. Merged(history'[i])
        <4>1. Len(m.visits) > 0 /\ history'[i] = MergeMeetings(history[i], m)
          BY <2>1, <2>3 DEF MergedInto
        <4> HIDE DEF m
        <4>2. Merged(MergeMeetings(history[i], m))
          BY <2>1, <3>1, <4>1, MergeLength
        <4>3. QED
          BY <4>1, <4>2
      <3>3. history'[i].visits \in Seq(Visit)
        BY <2>1, <2>3, <3>1, MergeType DEF MergedInto, Meeting
      <3>4. Len(history'[i].visits) > 0
        BY <3>2, <3>3 DEF Merged
      <3>5. QED
        BY <2>3, <3>4 DEF MergedInto, Rowed
    <2>4. QED
      BY <1>1, <2>2, <2>3, CommitRows
  <1>2. ASSUME NEW i \in DOMAIN history, DeleteMeeting(i) PROVE Rowed'
    BY <1>2, RemovedBy DEF Removed, Rowed
  <1>3. CASE UNCHANGED <<history, gone>>
    BY <1>3 DEF Rowed
  <1>4. QED
    BY <1>1, <1>2, <1>3, HistoryWriters DEF Commits

LEMMA CommitSends ==
    ASSUME TypeOK, NEW t \in Tabs, Commits(t), NEW x \in Meeting, Outgoing(x)'
    PROVE  Outgoing(x) \/ x = fin'[t].m
  <1>1. /\ \A u \in Tabs \ {t} : fin'[u] = fin[u]
        /\ UNCHANGED <<dels, rec>>
    BY CommitEffect DEF Commits
  <1>2. \A u \in Tabs \ {t} : Holding(u)' => Holding(u) /\ fin'[u].m = fin[u].m
    BY <1>1 DEF Holding
  <1>3. QED
    BY <1>1, <1>2 DEF Outgoing

LEMMA CopiedStep ==
    TypeOK /\ Numbered /\ Clears /\ Built /\ Rowed /\ Copied /\ [Next]_vars => Copied'
  <1> SUFFICES ASSUME TypeOK, Numbered, Clears, Built, Rowed, Copied, [Next]_vars,
                      NEW x \in Meeting, Outgoing(x)', NEW j \in DOMAIN history', history'[j].id = x.id
               PROVE  Merged(history'[j]) \/ history'[j].visits = x.visits
    BY DEF Copied
  <1>1. ASSUME NEW t \in Tabs, Commits(t)
        PROVE  Merged(history'[j]) \/ history'[j].visits = x.visits
    <2> DEFINE m == fin[t].m
    <2>1. m \in Meeting /\ Len(m.visits) = 1
      BY <1>1, CommitRows
    <2>2. Outgoing(x) \/ x = fin'[t].m
      BY <1>1, CommitSends
    <2>3. Building(t)
      BY <1>1, CommitEffect DEF Commits
    <2>4. ~Used(m.id)
      BY <2>3 DEF Numbered
    <2>5. Outgoing(x) => x.id # m.id
      BY <2>4, OutgoingIsUsed
    <2>6. CASE Appended(m) /\ fin'[t].m = m
      <3>1. history'[j] = m \/ \E i \in DOMAIN history : history'[j] = history[i]
        BY <2>6 DEF Appended
      <3>2. CASE history'[j] = m
        BY <2>2, <2>5, <2>6, <3>2
      <3>3. ASSUME NEW i \in DOMAIN history, history'[j] = history[i]
            PROVE  Merged(history'[j]) \/ history'[j].visits = x.visits
        <4>1. history[i].id # m.id
          BY <2>4 DEF Used
        <4>2. Outgoing(x)
          BY <2>2, <2>6, <3>3, <4>1
        <4>3. QED
          BY <3>3, <4>2 DEF Copied
      <3>4. QED
        BY <3>1, <3>2, <3>3
    <2>7. ASSUME NEW i \in DOMAIN history, MergedInto(i, m), fin'[t].m = history'[i]
          PROVE  Merged(history'[j]) \/ history'[j].visits = x.visits
      <3>1. history[i] \in Meeting /\ Len(history[i].visits) > 0
        BY DEF TypeOK, Rowed
      <3>2. Merged(history'[i]) /\ history'[i].id = history[i].id
        <4>1. Len(m.visits) > 0 /\ history'[i] = MergeMeetings(history[i], m)
          BY <2>1, <2>7 DEF MergedInto
        <4> HIDE DEF m
        <4>2. Merged(MergeMeetings(history[i], m)) /\ MergeMeetings(history[i], m).id = history[i].id
          BY <2>1, <3>1, <4>1, MergeLength, MergeKeepsNumber
        <4>3. QED
          BY <4>1, <4>2
      <3>3. CASE j = i
        BY <3>2, <3>3
      <3>4. CASE j # i
        <4>1. j \in DOMAIN history /\ history'[j] = history[j]
          BY <2>7, <3>4 DEF MergedInto
        <4>2. x # history'[i]
          BY <3>2, <3>4, <4>1 DEF Numbered
        <4>3. QED
          BY <2>2, <2>7, <4>1, <4>2 DEF Copied
      <3>5. QED
        BY <3>3, <3>4
    <2>8. QED
      BY <1>1, <2>6, <2>7, CommitRows
  <1>2. CASE \A t \in Tabs : ~Commits(t)
    <2>1. \/ Outgoing(x)
          \/ \E i \in DOMAIN history : x = history[i] /\ history' = history
      BY <1>2, FinalizationSends, OthersSend
    <2>2. ASSUME NEW i \in DOMAIN history, x = history[i], history' = history
          PROVE  history'[j].visits = x.visits
      <3>1. j = i
        BY <2>2 DEF Numbered
      <3>2. QED
        BY <2>2, <3>1
    <2>3. CASE Outgoing(x)
      <3>1. \E i \in DOMAIN history : history'[j] = history[i]
        <4>1. ASSUME NEW i \in DOMAIN history, DeleteMeeting(i)
              PROVE  \E k \in DOMAIN history : history'[j] = history[k]
          BY <4>1, RemovedBy DEF Removed
        <4>2. QED
          BY <1>2, <4>1, HistoryWriters DEF Commits
      <3>2. QED
        BY <2>3, <3>1 DEF Copied
    <2>4. QED
      BY <2>1, <2>2, <2>3
  <1>3. QED
    BY <1>1, <1>2

LEMMA CopiedHolds == Spec => [](Rowed /\ Copied)
  <1>1. Init => Rowed /\ Copied
    BY DEF Init, Rowed, Copied
  <1>2. QED
    BY <1>1, TypeCorrect, NumberedHolds, ClearsHold, BuiltHolds, RowedStep, CopiedStep, PTL DEF Spec

(* What row j of history becomes: a row of the same meeting that holds as much, or *)
(* visits known to be gone.                                                  *)
Outlives(k, j) ==
    /\ history'[k].id = history[j].id
    /\ Merged(history[j]) => Merged(history'[k])
    /\ VisitsOf(history[j]) \subseteq VisitsOf(history'[k])
    /\ \A v, n : Holds(history[j], v, n) => Holds(history'[k], v, n)

LEMMA MergeOutlives ==
    ASSUME TypeOK, Rowed, NEW m \in Meeting, Len(m.visits) = 1, NEW i \in DOMAIN history,
           MergedInto(i, m)
    PROVE  Outlives(i, i)
  <1>1. history[i] \in Meeting /\ Len(history[i].visits) > 0
    BY DEF TypeOK, Rowed
  <1>2. history'[i] = MergeMeetings(history[i], m)
    BY DEF MergedInto
  <1>3. history'[i].id = history[i].id /\ Merged(history'[i])
    <2>1. Len(m.visits) > 0
      OBVIOUS
    <2>2. Merged(MergeMeetings(history[i], m)) /\ MergeMeetings(history[i], m).id = history[i].id
      BY <1>1, <2>1, MergeKeepsNumber, MergeLength
    <2>3. QED
      BY <1>2, <2>2
  <1>4. \A v, n : Holds(history[i], v, n) => Holds(history'[i], v, n)
    BY <1>1, <1>2, MergeHolds
  <1>5. ASSUME NEW v \in VisitsOf(history[i]) PROVE v \in VisitsOf(history'[i])
    <2>1. PICK k \in DOMAIN history[i].visits : history[i].visits[k].startedAt = v
      BY DEF VisitsOf
    <2>2. history[i].visits[k].words \in Nat
      BY <1>1, MeetingVisits, VisitAt
    <2>3. Holds(history[i], v, history[i].visits[k].words)
      BY <2>1, <2>2 DEF Holds
    <2>4. QED
      BY <1>4, <2>3, HoldsVisit
  <1>6. QED
    BY <1>3, <1>4, <1>5 DEF Outlives

LEMMA RowStays ==
    ASSUME TypeOK, Built, Rowed, [Next]_vars, NEW j \in DOMAIN history
    PROVE  VisitsOf(history[j]) \subseteq gone' \/ \E k \in DOMAIN history' : Outlives(k, j)
  <1>1. ASSUME NEW k \in DOMAIN history', history'[k] = history[j] PROVE Outlives(k, j)
    BY <1>1 DEF Outlives
  <1>2. ASSUME NEW t \in Tabs, Commits(t)
        PROVE  VisitsOf(history[j]) \subseteq gone' \/ \E k \in DOMAIN history' : Outlives(k, j)
    <2> DEFINE m == fin[t].m
    <2>1. m \in Meeting /\ Len(m.visits) = 1
      BY <1>2, CommitRows
    <2>2. CASE AppendToHistory(m)
      <3>1. history \in Seq(Meeting) /\ history' = AppendWithRetention(history, m, Retention)
        BY <2>2 DEF TypeOK, AppendToHistory
      <3>2. CASE j + Retention <= Len(history) + 1
        BY <2>2, <3>2 DEF AppendToHistory
      <3>3. CASE \E k \in DOMAIN history' : history'[k] = history[j]
        BY <1>1, <3>3
      <3>4. QED
        BY <2>1, <3>1, <3>2, <3>3, RetentionKeeps
    <2>3. ASSUME NEW i \in DOMAIN history, MergedInto(i, m)
          PROVE  \E k \in DOMAIN history' : Outlives(k, j)
      <3>1. CASE j = i
        BY <2>1, <2>3, <3>1, MergeOutlives DEF MergedInto
      <3>2. CASE j # i
        BY <1>1, <2>3, <3>2 DEF MergedInto
      <3>3. QED
        BY <3>1, <3>2
    <2>4. QED
      BY <1>2, <2>2, <2>3, CommitRows
  <1>3. ASSUME NEW i \in DOMAIN history, DeleteMeeting(i)
        PROVE  VisitsOf(history[j]) \subseteq gone' \/ \E k \in DOMAIN history' : Outlives(k, j)
    <2>1. CASE j = i
      BY <1>3, <2>1 DEF DeleteMeeting
    <2>2. CASE j # i
      BY <1>1, <1>3, <2>2, OthersOutliveDelete
    <2>3. QED
      BY <2>1, <2>2
  <1>4. CASE UNCHANGED <<history, gone>>
    BY <1>1, <1>4
  <1>5. QED
    BY <1>2, <1>3, <1>4, HistoryWriters DEF Commits

LEMMA GoneGrows ==
    ASSUME TypeOK, [Next]_vars
    PROVE  gone \subseteq gone'
  <1>1. ASSUME NEW t \in Tabs, FinAppendFailure(t) \/ FinCommit(t) PROVE gone \subseteq gone'
    BY <1>1 DEF FinAppendFailure, FinCommit, AppendToHistory
  <1>2. QED
    BY <1>1, HistoryWriters DEF DeleteMeeting

LEMMA ExportedGrows ==
    ASSUME TypeOK, [Next]_vars
    PROVE  exported \subseteq exported'
  <1> USE DEF store, worker, ghosts
  <1>1. ASSUME NEW t \in Tabs, Page(t) \/ MeetingEnded(t) PROVE exported' = exported
    BY <1>1, PageEffect DEF PageLeavesWorker
  <1>2. ASSUME NEW t \in Tabs, Finalization(t) \/ FinThrow(t) PROVE exported' = exported
    BY <1>2 DEF Finalization, FinReadSession, FinReadWritten, FinAppendFailure, FinCommit, FinMark,
                FinRemove, FinUntrack, FinThrow
  <1>3. ASSUME NEW t \in Tabs, SaveStart(t) \/ Saving(t) \/ SaveFail(t) PROVE exported' = exported
    BY <1>3 DEF SaveStart, Saving, SaveResolve, SaveReadWritten, SaveDownload, SaveRecord, SaveFail
  <1>4. ASSUME NEW d \in dels, Deliver(d) \/ DeliverFail(d) PROVE exported \subseteq exported'
    BY <1>4 DEF Deliver, DeliverFile, DeliverClear, DeliverFail, Download
  <1>5. ASSUME Recovery \/ RecFail PROVE exported \subseteq exported'
    BY <1>5 DEF Recovery, RecReadKeys, RecScan, RecScanned, RecDeliver, RecListPending, RecNext,
                RecSave, RecClear, RecDone, RecFail, Download
  <1>6. ASSUME Restart \/ UpdateAvailable \/ BrowserCrash \/ (\E i \in DOMAIN history : DeleteMeeting(i))
               \/ UNCHANGED vars
        PROVE  exported' = exported
    BY <1>6 DEF Restart, UpdateAvailable, BrowserCrash, DeleteMeeting, vars
  <1>7. QED
    BY <1>1, <1>2, <1>3, <1>4, <1>5, <1>6 DEF Next, Failures

(* What clears a mark has the file of the meeting as history has it, unless a later  *)
(* visit was merged into it.                                                 *)
LEMMA PendingCleared ==
    ASSUME TypeOK, Clears, Copied, [Next]_vars, NEW id \in pending \ pending',
           NEW j \in DOMAIN history, history[j].id = id
    PROVE  /\ UNCHANGED <<history, gone>>
           /\ \/ Merged(history[j])
              \/ \E b \in exported : b.visits = history[j].visits
  <1> USE DEF store, worker, ghosts
  <1>1. ASSUME NEW x \in Meeting, Outgoing(x), x.id = id, FinalBody(x) \in exported
        PROVE  Merged(history[j]) \/ \E b \in exported : b.visits = history[j].visits
    <2>1. FinalBody(x).visits = x.visits
      BY DEF FinalBody
    <2>2. QED
      BY <1>1, <2>1 DEF Copied
  <1>2. ASSUME NEW d \in dels, DeliverClear(d)
        PROVE  Merged(history[j]) \/ \E b \in exported : b.visits = history[j].visits
    <2>1. d.m \in Meeting /\ d.m.id = id /\ Outgoing(d.m)
      BY <1>2 DEF DeliverClear, TypeOK, Delivery, Outgoing
    <2>2. FinalBody(d.m) \in exported
      BY <1>2 DEF DeliverClear, Clears, DelsClear
    <2>3. QED
      BY <1>1, <2>1, <2>2
  <1>3. ASSUME RecClear
        PROVE  Merged(history[j]) \/ \E b \in exported : b.visits = history[j].visits
    <2>1. rec.id = id /\ rec.pc = "clear" /\ rec.m \in Meeting \cup {None}
      BY <1>3 DEF RecClear, TypeOK, Rec
    <2>2. rec.m # None /\ rec.m.id = id /\ FinalBody(rec.m) \in exported
      BY <2>1 DEF Clears, RecClears
    <2>3. Outgoing(rec.m)
      BY <2>1 DEF Outgoing
    <2>4. QED
      BY <1>1, <2>1, <2>2, <2>3
  <1>4. (\E d \in dels : DeliverClear(d)) \/ RecClear
    BY MarkClearers
  <1>5. UNCHANGED <<history, gone>>
    BY <1>4 DEF DeliverClear, RecClear
  <1>6. QED
    BY <1>2, <1>3, <1>4, <1>5

(* n words of the visit begun at v have been exported, or a mark says they must be,  *)
(* or that question is a merged meeting's, or the user's own doing.             *)
Traced(v, n) ==
    \/ n = 0
    \/ v \in gone
    \/ \E j \in DOMAIN history : Merged(history[j]) /\ v \in VisitsOf(history[j])
    \/ \E b \in exported : Holds(b, v, n)
    \/ \E j \in DOMAIN history : history[j].id \in pending /\ Holds(history[j], v, n)

LEMMA HoldsLess ==
    ASSUME NEW x, NEW v, NEW n \in Nat, NEW k \in Nat, k <= n,
           x.visits \in Seq(Visit), Holds(x, v, n)
    PROVE  Holds(x, v, k)
  <1>1. PICK i \in DOMAIN x.visits : x.visits[i].startedAt = v /\ x.visits[i].words >= n
    BY DEF Holds
  <1>2. x.visits[i].words \in Nat
    BY VisitAt
  <1>3. QED
    BY <1>1, <1>2 DEF Holds

LEMMA TracedLess ==
    ASSUME TypeOK, NEW v, NEW n \in Nat, NEW k \in Nat, k <= n, Traced(v, n)
    PROVE  Traced(v, k)
  <1>1. ASSUME NEW b \in exported PROVE b.visits \in Seq(Visit)
    <2>1. b \in Body
      BY DEF TypeOK
    <2>2. QED
      BY <2>1 DEF Body
  <1>2. ASSUME NEW j \in DOMAIN history PROVE history[j].visits \in Seq(Visit)
    BY RowType, MeetingVisits
  <1>3. QED
    BY <1>1, <1>2, HoldsLess DEF Traced

LEMMA TracedStays ==
    ASSUME TypeOK, Clears, Built, Rowed, Copied, [Next]_vars, NEW v, NEW n, Traced(v, n)
    PROVE  Traced(v, n)'
  <1>1. gone \subseteq gone' /\ exported \subseteq exported'
    BY GoneGrows, ExportedGrows
  <1>2. CASE n = 0 \/ v \in gone \/ \E b \in exported : Holds(b, v, n)
    BY <1>1, <1>2 DEF Traced
  <1>3. ASSUME NEW j \in DOMAIN history, Merged(history[j]), v \in VisitsOf(history[j])
        PROVE  Traced(v, n)'
    BY <1>3, RowStays DEF Outlives, Traced
  <1>4. ASSUME NEW j \in DOMAIN history, history[j].id \in pending, Holds(history[j], v, n)
        PROVE  Traced(v, n)'
    <2>1. v \in VisitsOf(history[j])
      BY <1>4, HoldsVisit
    <2>2. CASE history[j].id \in pending'
      BY <1>4, <2>1, <2>2, RowStays DEF Outlives, Traced
    <2>3. CASE history[j].id \notin pending'
      <3>1. Merged(history[j]) \/ \E b \in exported : b.visits = history[j].visits
        BY <1>4, <2>3, PendingCleared
      <3>2. ASSUME NEW b \in exported, b.visits = history[j].visits PROVE Holds(b, v, n)
        BY <1>4, <3>2 DEF Holds
      <3>3. QED
        BY <1>1, <1>3, <2>1, <3>1, <3>2 DEF Traced
    <2>4. QED
      BY <2>2, <2>3
  <1>5. QED
    BY <1>2, <1>3, <1>4 DEF Traced

-------------------------------------------------------------------------------
(*                 History has no more than the session has                 *)

InHistory(y) == \E i \in DOMAIN history : \E k \in DOMAIN history[i].visits : history[i].visits[k] = y

(* The visit a commit stores. *)
VisitOf(s) == [startedAt |-> s.startedAt, words |-> s.words]

LEMMA MergeVisitsAt ==
    ASSUME NEW a \in Meeting, NEW b \in Meeting, NEW k \in DOMAIN MergeMeetings(a, b).visits
    PROVE  LET y == MergeMeetings(a, b).visits[k]
           IN  \/ \E i \in DOMAIN a.visits : a.visits[i] = y
               \/ \E i \in DOMAIN b.visits : b.visits[i] = y
  <1> DEFINE c == a.visits \o b.visits
  <1>1. a.visits \in Seq(Visit) /\ b.visits \in Seq(Visit)
    BY DEF Meeting
  <1>2. MergeMeetings(a, b).visits = c
    BY DEF MergeMeetings, Meeting
  <1>3. \A i \in DOMAIN c : \/ i \in DOMAIN a.visits /\ c[i] = a.visits[i]
                            \/ i - Len(a.visits) \in DOMAIN b.visits /\ c[i] = b.visits[i - Len(a.visits)]
    BY <1>1, ConcatFrom
  <1> HIDE DEF c
  <1>4. QED
    BY <1>2, <1>3

LEMMA RowVisits ==
    ASSUME TypeOK, NEW y, InHistory(y)
    PROVE  y \in Visit /\ Visited(y.startedAt)
  <1>1. PICK i \in DOMAIN history : \E k \in DOMAIN history[i].visits : history[i].visits[k] = y
    BY DEF InHistory
  <1>2. history[i].visits \in Seq(Visit)
    BY RowType, MeetingVisits
  <1>3. QED
    BY <1>1, <1>2, VisitAt DEF Visited, VisitsOf

LEMMA VisitStoredBy ==
    ASSUME TypeOK, Built, [Next]_vars, NEW y, InHistory(y)'
    PROVE  \/ InHistory(y)
           \/ \E t \in Tabs : Commits(t) /\ y = VisitOf(fin[t].s)
  <1>1. ASSUME NEW t \in Tabs, Commits(t)
        PROVE  InHistory(y) \/ y = VisitOf(fin[t].s)
    <2>1. /\ Building(t) /\ fin[t].m \in Meeting
          /\ \/ Appended(fin[t].m)
             \/ \E i \in DOMAIN history : MergedInto(i, fin[t].m)
      BY <1>1, CommitEffect DEF Commits
    <2>2. fin[t].m.visits = <<VisitOf(fin[t].s)>>
      BY <2>1 DEF Built, VisitOf
    <2>3. \A k \in DOMAIN fin[t].m.visits : fin[t].m.visits[k] = VisitOf(fin[t].s)
      BY <2>2
    <2>4. PICK j \in DOMAIN history' : \E k \in DOMAIN history'[j].visits : history'[j].visits[k] = y
      BY DEF InHistory
    <2>5. CASE Appended(fin[t].m)
      BY <2>3, <2>4, <2>5 DEF Appended, InHistory
    <2>6. ASSUME NEW i \in DOMAIN history, MergedInto(i, fin[t].m)
          PROVE  InHistory(y) \/ y = VisitOf(fin[t].s)
      <3>1. history[i] \in Meeting
        BY DEF TypeOK
      <3>2. CASE j = i
        <4>1. \E k \in DOMAIN MergeMeetings(history[i], fin[t].m).visits :
                 MergeMeetings(history[i], fin[t].m).visits[k] = y
          BY <2>4, <2>6, <3>2 DEF MergedInto
        <4>2. QED
          BY <2>1, <2>3, <3>1, <4>1, MergeVisitsAt DEF InHistory
      <3>3. CASE j # i
        BY <2>4, <2>6, <3>3 DEF MergedInto, InHistory
      <3>4. QED
        BY <3>2, <3>3
    <2>7. QED
      BY <2>1, <2>5, <2>6
  <1>2. ASSUME NEW i \in DOMAIN history, DeleteMeeting(i) PROVE InHistory(y)
    BY <1>2, RemovedBy DEF Removed, InHistory
  <1>3. CASE UNCHANGED <<history, gone>>
    BY <1>3 DEF InHistory
  <1>4. QED
    BY <1>1, <1>2, <1>3, HistoryWriters DEF Commits

(* What history has of a visit, its session still has: the stored copy, and the      *)
(* page's, which is the later of the two.                                     *)
AtMost(x) == \A y \in Visit : InHistory(y) /\ y.startedAt = x.startedAt => y.words <= x.words

GrownOf(t) ==
    /\ session[t] # None => AtMost(session[t])
    /\ content[t].mem # None => AtMost(content[t].mem)
    /\ session[t] # None /\ content[t].mem # None /\ session[t].startedAt = content[t].mem.startedAt
          => session[t].words <= content[t].mem.words

Grown == \A t \in Tabs : GrownOf(t)

(* A copy of a session that owns its visit, kept or grown, stays ahead of history. *)
LEMMA StaysAhead ==
    ASSUME TypeOK, TypeOK', Custody, Built, Dated, Grown, [Next]_vars,
           NEW u \in Tabs, NEW x \in Session, NEW z \in Session,
           x = session[u] \/ x = content[u].mem,
           z.startedAt = x.startedAt, x.words <= z.words,
           session[u] # None /\ session[u].startedAt = x.startedAt => session[u].words <= z.words
    PROVE  \A y \in Visit : InHistory(y)' /\ y.startedAt = z.startedAt => y.words <= z.words
  <1> SUFFICES ASSUME NEW y \in Visit, InHistory(y)', y.startedAt = z.startedAt
               PROVE  y.words <= z.words
    OBVIOUS
  <1>1. /\ x.words \in Nat /\ z.words \in Nat /\ y.words \in Nat
        /\ x.startedAt \in Nat /\ x # None
    BY NoneAssumption DEF Session, Visit
  <1>2. CASE InHistory(y)
    <2>1. y.words <= x.words
      BY <1>1, <1>2 DEF Grown, GrownOf, AtMost
    <2>2. QED
      BY <1>1, <2>1
  <1>3. ASSUME NEW t \in Tabs, Commits(t), y = VisitOf(fin[t].s)
        PROVE  y.words <= z.words
    <2>1. Building(t)
      BY <1>3, CommitEffect DEF Commits
    <2>2. session[t] # None /\ session[t] = fin[t].s
      BY <2>1 DEF Building, Custody, FinalizeOwnsSession
    <2>3. y.startedAt = session[t].startedAt /\ y.words = session[t].words
      BY <1>3, <2>2 DEF VisitOf
    <2>4. Owns(t, x.startedAt) /\ Owns(u, x.startedAt)
      BY <1>1, <2>2, <2>3 DEF Owns
    <2>5. t = u
      BY <1>1, <2>4 DEF Dated
    <2>6. QED
      BY <2>2, <2>3, <2>5
  <1>4. QED
    BY <1>2, <1>3, VisitStoredBy

(* A session begun at this step is not in history. *)
LEMMA BegunIsNew ==
    ASSUME TypeOK, Custody, Built, Dated, [Next]_vars,
           NEW u \in Tabs, Begun(u), NEW y \in Visit, InHistory(y)'
    PROVE  y.startedAt < clock'
  <1>1. clock \in Nat /\ clock' = clock + 1 /\ y.startedAt \in Nat
    BY DEF TypeOK, Begun, Visit
  <1>2. CASE InHistory(y)
    <2>1. Visited(y.startedAt)
      BY <1>2, RowVisits
    <2>2. QED
      BY <1>1, <2>1 DEF Dated
  <1>3. ASSUME NEW t \in Tabs, Commits(t), y = VisitOf(fin[t].s)
        PROVE  y.startedAt < clock'
    <2>1. Building(t)
      BY <1>3, CommitEffect DEF Commits
    <2>2. session[t] # None /\ session[t] = fin[t].s
      BY <2>1 DEF Building, Custody, FinalizeOwnsSession
    <2>3. Owns(t, y.startedAt)
      BY <1>3, <2>2 DEF Owns, VisitOf
    <2>4. QED
      BY <1>1, <2>3 DEF Dated
  <1>4. QED
    BY <1>2, <1>3, VisitStoredBy

LEMMA GrownStep ==
    ASSUME ~WipesEnabled, TypeOK, TypeOK', Custody, Built, Dated, Grown, [Next]_vars
    PROVE  Grown'
  <1> SUFFICES ASSUME NEW u \in Tabs PROVE GrownOf(u)'
    BY DEF Grown
  <1> DEFINE Ahead(z) == \A y \in Visit : InHistory(y)' /\ y.startedAt = z.startedAt => y.words <= z.words
             s == session[u]
             c == content[u].mem
             s1 == session'[u]
             c1 == content'[u].mem
  <1>1. /\ s \in Session \cup {None} /\ s1 \in Session \cup {None}
        /\ c \in Session \cup {None} /\ c1 \in Session \cup {None}
    BY DEF TypeOK, Content
  <1>2. GrownOf(u)
    BY DEF Grown
  <1>3. /\ \A x \in Session : x.words \in Nat /\ x.startedAt \in Nat
        /\ None \notin Session
    BY NoneAssumption DEF Session
  <1>4. s # None => Ahead(s)
    BY <1>1, <1>3, StaysAhead
  <1>5. c # None => Ahead(c)
    BY <1>1, <1>2, <1>3, StaysAhead DEF GrownOf
  <1>6. ASSUME s1 # None => Ahead(s1), c1 # None => Ahead(c1),
               s1 # None /\ c1 # None /\ s1.startedAt = c1.startedAt => s1.words <= c1.words
        PROVE  GrownOf(u)'
    BY <1>6 DEF GrownOf, AtMost
  <1> HIDE DEF Ahead
  <1>7. CASE s1 = c /\ c1 = c
    BY <1>1, <1>3, <1>5, <1>6, <1>7
  <1>8. CASE s1 \in {s, None} /\ c1 \in {c, s, None}
    BY <1>1, <1>2, <1>3, <1>4, <1>5, <1>6, <1>8 DEF GrownOf
  <1>9. CASE s1 \in {s, None} /\ Grew(u)
    <2>1. /\ c # None /\ c1 # None /\ c1.startedAt = c.startedAt /\ c.words <= c1.words
      BY <1>9 DEF Grew
    <2>2. s # None /\ s.startedAt = c1.startedAt => s.words <= c1.words
      BY <1>1, <1>2, <1>3, <2>1 DEF GrownOf
    <2>3. Ahead(c1)
      BY <1>1, <1>3, <2>1, <2>2, StaysAhead DEF Ahead
    <2>4. QED
      BY <1>4, <1>6, <1>9, <2>2, <2>3
  <1>10. CASE Begun(u)
    <2>1. s1 = s /\ c1 # None /\ c1.startedAt = clock' /\ clock' = clock + 1
      BY <1>10 DEF Begun
    <2>2. clock \in Nat
      BY DEF TypeOK
    <2>3. Ahead(c1)
      <3> SUFFICES ASSUME NEW y \in Visit, InHistory(y)', y.startedAt = c1.startedAt PROVE FALSE
        BY DEF Ahead
      <3>1. y.startedAt < clock'
        BY <1>10, BegunIsNew
      <3>2. QED
        BY <2>1, <2>2, <3>1
    <2>4. s # None => s.startedAt # c1.startedAt
      <3>1. s # None => Owns(u, s.startedAt) /\ s.startedAt \in Nat
        BY <1>1, <1>3 DEF Owns
      <3>2. s # None => s.startedAt <= clock
        BY <3>1 DEF Dated
      <3>3. QED
        BY <2>1, <2>2, <3>1, <3>2
    <2>5. QED
      BY <1>4, <1>6, <2>1, <2>3, <2>4
  <1>11. QED
    BY <1>7, <1>8, <1>9, <1>10, CopiesMoveAtEveryStep DEF CopiesMove

LEMMA GrownHolds ==
    ASSUME LobbyOutlastsFinalize, ~WipesEnabled
    PROVE  Spec => []Grown
  <1>1. Init => Grown
    BY DEF Init, Grown, GrownOf, NoPage
  <1>2. TypeOK /\ TypeOK' /\ Custody /\ Built /\ Dated /\ Grown /\ [Next]_vars => Grown'
    BY GrownStep
  <1>3. QED
    BY <1>1, <1>2, TypeCorrect, CustodyHolds, BuiltHolds, DatedHolds, PTL DEF Spec

-------------------------------------------------------------------------------
(*                          The trail of an export                          *)

(* What is in history has been exported, or something in storage still says it must  *)
(* be: a mark, or the session itself.                                         *)
RowsTraced ==
    \A y \in Visit : InHistory(y) =>
        \/ Traced(y.startedAt, y.words)
        \/ \E t \in Tabs : session[t] # None /\ session[t].startedAt = y.startedAt

(* A finalization about to mark its meeting knows it by its number; once it is about *)
(* to remove the session, the mark is there.                                   *)
MarkKnowsOf(t) ==
    fin[t].pc = "mark" =>
        \/ fin[t].s.startedAt \in gone
        \/ \E j \in DOMAIN history : /\ history[j].id = fin[t].m.id
                                      /\ Holds(history[j], fin[t].s.startedAt, fin[t].s.words)

RemoveTracedOf(t) == fin[t].pc = "remove" => Traced(fin[t].s.startedAt, fin[t].s.words)

Trail ==
    /\ RowsTraced
    /\ \A t \in Tabs : MarkKnowsOf(t) /\ RemoveTracedOf(t)

LEMMA MarkStays ==
    ASSUME TypeOK, Built, Rowed, [Next]_vars, NEW t \in Tabs, MarkKnowsOf(t), fin[t].pc = "mark",
           fin'[t].s = fin[t].s, fin'[t].m = fin[t].m
    PROVE  MarkKnowsOf(t)'
  <1> DEFINE v == fin[t].s.startedAt
  <1>1. CASE v \in gone
    BY <1>1, GoneGrows DEF MarkKnowsOf
  <1>2. ASSUME NEW j \in DOMAIN history, history[j].id = fin[t].m.id, Holds(history[j], v, fin[t].s.words)
        PROVE  MarkKnowsOf(t)'
    <2>1. v \in VisitsOf(history[j])
      BY <1>2, HoldsVisit
    <2>2. CASE VisitsOf(history[j]) \subseteq gone'
      BY <2>1, <2>2 DEF MarkKnowsOf
    <2>3. ASSUME NEW k \in DOMAIN history', Outlives(k, j) PROVE MarkKnowsOf(t)'
      <3>1. history'[k].id = fin[t].m.id /\ Holds(history'[k], v, fin[t].s.words)
        BY <1>2, <2>3 DEF Outlives
      <3>2. QED
        BY <3>1 DEF MarkKnowsOf
    <2>4. QED
      BY <2>2, <2>3, RowStays
  <1>3. QED
    BY <1>1, <1>2 DEF MarkKnowsOf

LEMMA CommitMarks ==
    ASSUME TypeOK, Custody, Built, Rowed, NEW t \in Tabs, Commits(t)
    PROVE  MarkKnowsOf(t)' /\ RemoveTracedOf(t)'
  <1> DEFINE m == fin[t].m
             v == fin[t].s.startedAt
             n == fin[t].s.words
  <1>1. /\ Building(t) /\ m \in Meeting
        /\ fin'[t].pc = IF fin[t].pc = "append" THEN "remove" ELSE "mark"
        /\ fin'[t].s = fin[t].s
    BY CommitEffect DEF Commits
  <1>2. /\ Holds(m, v, n)
        /\ \/ AppendToHistory(m) /\ fin'[t].m = m
           \/ \E i \in DOMAIN history : MergedInto(i, m) /\ fin'[t].m = history'[i]
    BY CommitRows
  <1>3. RemoveTracedOf(t)'
    <2>1. fin[t].pc = "append" => n = 0
      BY <1>1 DEF Built, Empty
    <2>2. QED
      BY <1>1, <2>1 DEF RemoveTracedOf, Traced
  <1>4. CASE AppendToHistory(m) /\ fin'[t].m = m
    <2>1. history \in Seq(Meeting) /\ history' = AppendWithRetention(history, m, Retention)
      BY <1>4 DEF TypeOK, AppendToHistory
    <2>2. \E j \in DOMAIN history' : history'[j] = m
      BY <1>1, <2>1, RetentionKeeps
    <2>3. QED
      BY <1>1, <1>2, <1>3, <1>4, <2>2 DEF MarkKnowsOf
  <1>5. ASSUME NEW i \in DOMAIN history, MergedInto(i, m), fin'[t].m = history'[i]
        PROVE  MarkKnowsOf(t)'
    <2>1. history[i] \in Meeting /\ i \in DOMAIN history' /\ history'[i] = MergeMeetings(history[i], m)
      BY <1>5, RowType DEF MergedInto
    <2>2. Holds(history'[i], v, n)
      BY <1>1, <1>2, <2>1, MergeHolds
    <2>3. QED
      BY <1>1, <1>5, <2>1, <2>2 DEF MarkKnowsOf
  <1>6. QED
    BY <1>2, <1>3, <1>4, <1>5

LEMMA FinTrailStep ==
    ASSUME TypeOK, Custody, Clears, Built, Rowed, Copied, Trail, [Next]_vars, NEW t \in Tabs
    PROVE  MarkKnowsOf(t)' /\ RemoveTracedOf(t)'
  <1> USE DEF store, worker, ghosts
  <1>0. fin[t] \in Fin /\ MarkKnowsOf(t) /\ RemoveTracedOf(t)
    BY DEF TypeOK, Trail
  <1>1. ASSUME fin'[t].pc \notin {"mark", "remove"} PROVE MarkKnowsOf(t)' /\ RemoveTracedOf(t)'
    BY <1>1 DEF MarkKnowsOf, RemoveTracedOf
  <1>2. CASE fin'[t].pc = fin[t].pc /\ fin'[t].s = fin[t].s /\ fin'[t].m = fin[t].m
    <2>1. CASE fin[t].pc = "mark"
      BY <1>0, <1>2, <2>1, MarkStays DEF RemoveTracedOf
    <2>2. CASE fin[t].pc = "remove"
      <3>1. Traced(fin[t].s.startedAt, fin[t].s.words)
        BY <1>0, <2>2 DEF RemoveTracedOf
      <3> DEFINE v == fin[t].s.startedAt
                 n == fin[t].s.words
      <3>2. v = fin'[t].s.startedAt /\ n = fin'[t].s.words
        BY <1>2
      <3>3. \A x, k : Traced(x, k) => Traced(x, k)'
        BY TracedStays
      <3>4. QED
        BY <1>2, <2>2, <3>1, <3>2, <3>3 DEF RemoveTracedOf, MarkKnowsOf, Traced
    <2>3. QED
      BY <1>1, <1>2, <2>1, <2>2
  <1>3. CASE Commits(t)
    BY <1>3, CommitMarks
  <1>4. CASE FinReadSession(t)
    <2>1. fin'[t].pc \in {"untrackOnly", "written"}
      BY <1>0, <1>4, FinFields DEF FinReadSession, TypeOK, Fin
    <2>2. QED
      BY <1>1, <2>1
  <1>5. CASE FinReadWritten(t)
    <2>1. CASE fin' = [fin EXCEPT ![t].pc = "remove", ![t].w = written[t]] /\ Empty(fin[t].s)
      <3>1. fin'[t].pc = "remove" /\ fin'[t].s = fin[t].s
        BY <1>0, <2>1 DEF TypeOK, Fin
      <3>2. fin[t].s.words = 0
        BY <2>1 DEF Empty
      <3>3. QED
        BY <3>1, <3>2 DEF MarkKnowsOf, RemoveTracedOf, Traced
    <2>2. ASSUME NEW merge \in MergeModes,
                 fin' = [fin EXCEPT ![t].pc = IF Empty(fin[t].s) THEN "append" ELSE "commit",
                                    ![t].w = written[t],
                                    ![t].m = SessionToMeeting(fin[t].s, clock + 1, clock + 1),
                                    ![t].merge = merge]
          PROVE  MarkKnowsOf(t)' /\ RemoveTracedOf(t)'
      <3>1. fin'[t].pc \in {"append", "commit"}
        BY <1>0, <2>2 DEF TypeOK, Fin
      <3>2. QED
        BY <1>1, <3>1
    <2>3. QED
      BY <1>5, <2>1, <2>2 DEF FinReadWritten
  <1>6. CASE FinMark(t)
    <2>1. /\ fin[t].pc = "mark" /\ fin'[t].pc = "remove" /\ fin'[t].s = fin[t].s
          /\ UNCHANGED <<history, gone>>
          /\ fin[t].m.id \in pending'
      BY <1>0, <1>6 DEF FinMark, TypeOK, Fin
    <2>2. QED
      BY <1>0, <2>1 DEF MarkKnowsOf, RemoveTracedOf, Traced
  <1>7. CASE FinRemove(t)
    <2>1. fin'[t].pc = "untrack"
      BY <1>0, <1>7 DEF FinRemove, TypeOK, Fin
    <2>2. QED
      BY <1>1, <2>1
  <1>8. CASE FinUntrack(t) \/ FinThrow(t)
    BY <1>1, <1>8, FinIsReleased
  <1>9. CASE Reboot
    <2>1. fin'[t].pc = "idle"
      BY <1>9 DEF Reboot, NoFin
    <2>2. QED
      BY <1>1, <2>1
  <1>10. CASE fin'[t].pc = "session"
    BY <1>1, <1>10
  <1>11. FinMoves(t)
    BY FinMovesAtEveryStep
  <1>12. QED
    BY <1>2, <1>3, <1>4, <1>5, <1>6, <1>7, <1>8, <1>9, <1>10, <1>11 DEF FinMoves, Finalization, Commits

LEMMA SessionGoes ==
    ASSUME TypeOK, OwnSession, [Next]_vars, NEW t \in Tabs, session[t] # None, ~FinRemove(t)
    PROVE  session'[t] # None /\ session'[t].startedAt = session[t].startedAt
  <1>1. session'[t] # None
    <2>1. CASE session' = session
      BY <2>1
    <2>2. ASSUME NEW u \in Tabs, WriteSession(u) \/ EndMeeting(u) \/ RelaySession(u) \/ FinRemove(u)
          PROVE  session'[t] # None
      <3>1. content[u].pc \in {"in", "lost"} => content[u].mem # None
        BY DEF TypeOK, Content
      <3>2. QED
        BY <2>2, <3>1 DEF WriteSession, EndMeeting, RelaySession, FinRemove, TypeOK
    <2>3. QED
      BY <2>1, <2>2, SessionWriters
  <1>2. QED
    BY <1>1, SessionIsReplacedByItself

LEMMA RowsTracedStep ==
    ASSUME TypeOK, Custody, Clears, Built, Rowed, Copied, OwnSession, Grown, Trail, [Next]_vars
    PROVE  RowsTraced'
  <1> SUFFICES ASSUME NEW y \in Visit, InHistory(y)'
               PROVE  \/ Traced(y.startedAt, y.words)'
                      \/ \E t \in Tabs : session'[t] # None /\ session'[t].startedAt = y.startedAt
    BY DEF RowsTraced
  <1> DEFINE v == y.startedAt
             n == y.words
  <1>1. v \in Nat /\ n \in Nat
    BY DEF Visit
  <1>2. Traced(v, n) => Traced(v, n)'
    BY TracedStays
  <1>3. ASSUME NEW t \in Tabs, session[t] # None, session[t].startedAt = v, InHistory(y)
        PROVE  \/ Traced(v, n)'
               \/ \E u \in Tabs : session'[u] # None /\ session'[u].startedAt = v
    <2>1. CASE FinRemove(t)
      <3>1. fin[t].pc = "remove" /\ session[t] \in Session
        BY <1>3, <2>1 DEF FinRemove, TypeOK
      <3>2. session[t] = fin[t].s
        BY <3>1 DEF Custody, FinalizeOwnsSession
      <3>3. Traced(v, session[t].words)
        BY <1>3, <3>1, <3>2 DEF Trail, RemoveTracedOf
      <3>4. n <= session[t].words /\ session[t].words \in Nat
        BY <1>3, <3>1 DEF Grown, GrownOf, AtMost, Session
      <3>5. Traced(v, n)
        BY <1>1, <3>3, <3>4, TracedLess
      <3>6. QED
        BY <1>2, <3>5
    <2>2. CASE ~FinRemove(t)
      BY <1>3, <2>2, SessionGoes
    <2>3. QED
      BY <2>1, <2>2
  <1>4. ASSUME NEW t \in Tabs, Commits(t), y = VisitOf(fin[t].s)
        PROVE  \E u \in Tabs : session'[u] # None /\ session'[u].startedAt = v
    <2>1. Building(t) /\ session' = session
      BY <1>4, CommitEffect DEF Commits
    <2>2. session[t] # None /\ session[t] = fin[t].s
      BY <2>1 DEF Building, Custody, FinalizeOwnsSession
    <2>3. QED
      BY <1>4, <2>1, <2>2 DEF VisitOf
  <1>5. CASE InHistory(y)
    BY <1>2, <1>3, <1>5 DEF Trail, RowsTraced
  <1>6. QED
    BY <1>4, <1>5, VisitStoredBy

LEMMA TrailStep ==
    ASSUME TypeOK, Custody, Clears, Built, Rowed, Copied, OwnSession, Grown, Trail, [Next]_vars
    PROVE  Trail'
  <1>1. RowsTraced'
    BY RowsTracedStep
  <1>2. \A t \in Tabs : MarkKnowsOf(t)' /\ RemoveTracedOf(t)'
    BY FinTrailStep
  <1>3. QED
    BY <1>1, <1>2 DEF Trail

LEMMA TrailHolds ==
    ASSUME LobbyOutlastsFinalize, ~WipesEnabled, EvictionSucceeds
    PROVE  Spec => []Trail
  <1>1. Init => Trail
    BY DEF Init, Trail, RowsTraced, InHistory, MarkKnowsOf, RemoveTracedOf, NoFin
  <1>2. (/\ TypeOK /\ Custody /\ Clears /\ Built /\ Rowed /\ Copied /\ OwnSession /\ Grown
         /\ Trail /\ [Next]_vars) => Trail'
    BY TrailStep
  <1>3. QED
    BY <1>1, <1>2, TypeCorrect, CustodyHolds, ClearsHold, BuiltHolds, CopiedHolds, OwnSessionHolds,
       GrownHolds, PTL DEF Spec

LEMMA TrailSuffices == TypeOK /\ Trail => UnmergedExportTrail
  <1> SUFFICES ASSUME TypeOK, Trail, NEW i \in DOMAIN history,
                      ~\E j \in DOMAIN history :
                          Merged(history[j]) /\ VisitsOf(history[i]) \cap VisitsOf(history[j]) # {}
               PROVE  ExportRemembered(i)
    BY DEF UnmergedExportTrail
  <1> SUFFICES ASSUME NEW k \in DOMAIN history[i].visits
               PROVE  LET v == history[i].visits[k]
                          Has(m) == Holds(m, v.startedAt, v.words)
                      IN  \/ v.words = 0
                          \/ v.startedAt \in gone
                          \/ \E b \in exported : Has(b)
                          \/ \E j \in DOMAIN history : history[j].id \in pending /\ Has(history[j])
                          \/ \E t \in Tabs : session[t] # None /\ session[t].startedAt = v.startedAt
    BY DEF ExportRemembered
  <1> DEFINE v == history[i].visits[k]
  <1>1. InHistory(v)
    BY DEF InHistory
  <1>2. v \in Visit /\ v.startedAt \in VisitsOf(history[i])
    BY <1>1, RowVisits DEF VisitsOf
  <1>3. \/ Traced(v.startedAt, v.words)
        \/ \E t \in Tabs : session[t] # None /\ session[t].startedAt = v.startedAt
    BY <1>1, <1>2 DEF Trail, RowsTraced
  <1>4. ~\E j \in DOMAIN history : Merged(history[j]) /\ v.startedAt \in VisitsOf(history[j])
    BY <1>2
  <1> HIDE DEF v
  <1>5. QED
    BY <1>3, <1>4 DEF Traced, v

(* Stopping the worker at any point, failing downloads, closing tabs and deleting    *)
(* meetings cannot skip the export of a committed meeting: until its words are in a  *)
(* confirmed file, a mark in storage or the session itself says they must be, unless *)
(* a merged meeting holds the visit too (store.ts PENDING_EXPORTS_KEY, sessions.ts   *)
(* commit, mark, remove).                                                     *)
THEOREM UnmergedExportTrailHolds ==
    ASSUME LobbyOutlastsFinalize, ~WipesEnabled, EvictionSucceeds
    PROVE  Spec => []UnmergedExportTrail
  <1>1. TypeOK /\ Trail => UnmergedExportTrail
    BY TrailSuffices
  <1>2. QED
    BY <1>1, TypeCorrect, TrailHolds, PTL

===============================================================================
