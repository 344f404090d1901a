--------------------------- MODULE BackgroundProofs ---------------------------
(***************************************************************************)
(* The worker never reaches a state its code does not expect, and no captured *)
(* word is dropped between a session key and history, for every value of the *)
(* constants under which joining a call takes longer than a finalization of  *)
(* the same tab (LobbyOutlastsFinalize).                                     *)
(***************************************************************************)
EXTENDS Background, TLAPS

-------------------------------------------------------------------------------
(*                            Types are kept                               *)

LEMMA BuildType ==
    ASSUME NEW s \in Session, NEW id \in Nat, NEW at \in Nat
    PROVE  SessionToMeeting(s, id, at) \in Meeting
  BY DEF SessionToMeeting, Session, Meeting, Visit

LEMMA MergeType ==
    ASSUME NEW target \in Meeting, NEW incoming \in Meeting
    PROVE  MergeMeetings(target, incoming) \in Meeting
  <1>1. target.visits \o incoming.visits \in Seq(Visit)
    BY DEF Meeting
  <1>2. QED
    BY <1>1 DEF MergeMeetings, Meeting

LEMMA RetentionType ==
    ASSUME NEW h \in Seq(Meeting), NEW m \in Meeting
    PROVE  AppendWithRetention(h, m, Retention) \in Seq(Meeting)
  BY RetentionAssumption DEF AppendWithRetention

LEMMA VisitsType ==
    ASSUME NEW m \in Meeting
    PROVE  VisitsOf(m) \subseteq Nat
  <1>1. \A i \in DOMAIN m.visits : m.visits[i] \in Visit
    BY DEF Meeting
  <1>2. QED
    BY <1>1 DEF VisitsOf, Visit

LEMMA PathType ==
    ASSUME NEW m \in Meeting
    PROVE  PathOf(m) \in Path
  BY MinuteAssumption DEF PathOf, Meeting, Path

DiskOK(d) == \A p \in DOMAIN d : p \in Path /\ d[p] \in Seq(Body)

LEMMA PutType ==
    ASSUME NEW d, DiskOK(d), NEW p \in Path, NEW over, NEW body \in Body
    PROVE  DiskOK(Put(d, p, over, body))
  <1>1. FilesAt(d, p) \in Seq(Body)
    BY DEF FilesAt, DiskOK
  <1>2. Append(FilesAt(d, p), body) \in Seq(Body)
    BY <1>1
  <1>3. FilesAt(d, p) # << >> => [FilesAt(d, p) EXCEPT ![1] = body] \in Seq(Body)
    BY <1>1
  <1>4. QED
    BY <1>2, <1>3 DEF DiskOK, Put

LEMMA BodyType ==
    ASSUME NEW m \in Meeting
    PROVE  FinalBody(m) \in Body /\ PartialBody(m) \in Body
  BY DEF FinalBody, PartialBody, Meeting, Body

-------------------------------------------------------------------------------
(*                             Type correctness                             *)

LEMMA InitType == Init => TypeOK
  <1>1. NoPage("idle") \in Content
    BY DEF Content, ContentPCs, NoPage
  <1>2. NoFin \in Fin
    BY DEF Fin, FinPCs, Callers, NoFin
  <1>3. NoSave \in Save /\ NewRec \in Rec
    BY DEF Save, SavePCs, NoSave, Rec, RecPCs, NewRec, NoRec
  <1>4. QED
    BY <1>1, <1>2, <1>3 DEF Init, TypeOK

LEMMA AnswerType ==
    ASSUME NEW c \in Content
    PROVE  Answer(c) \in Content /\ Sever(c) \in Content
  <1>1. NoPage("idle") \in Content
    BY DEF NoPage, Content, ContentPCs
  <1>2. c.pc = "ended" => [c EXCEPT !.pc = "lost"] \in Content
    BY DEF Content, ContentPCs
  <1>3. c.pc = "evicting" => [c EXCEPT !.pc = "lobby"] \in Content
    BY DEF Content, ContentPCs
  <1>4. QED
    BY <1>1, <1>2, <1>3 DEF Answer, Sever

LEMMA ReplyType ==
    ASSUME TypeOK, NEW t \in Tabs, NEW who, Reply(t, who)
    PROVE  content' \in [Tabs -> Content]
  BY AnswerType DEF Reply, TypeOK

LEMMA UnheardType ==
    /\ \A f \in Fin : Unheard(f) \in Fin
    /\ \A d \in Delivery : Unheard(d) \in Delivery
  BY DEF Unheard, Fin, Delivery, Callers

LEMMA DeafenType ==
    ASSUME TypeOK, NEW t \in Tabs, Deafen(t)
    PROVE  dels' \subseteq Delivery
  BY UnheardType DEF Deafen, TypeOK

LEMMA StartType ==
    ASSUME TypeOK, NEW t \in Tabs, NEW who \in Callers, StartFinalize(t, who)
    PROVE  fin' \in [Tabs -> Fin]
  BY DEF StartFinalize, NoFin, Fin, FinPCs, TypeOK

(* A recording page's object stays one whatever is recorded in it. *)
LEMMA RecordType ==
    ASSUME TypeOK, NEW t \in Tabs, content[t].pc = "in", NEW m \in Session,
           content' = [content EXCEPT ![t] = [content[t] EXCEPT !.mem = m]],
           UNCHANGED <<store, disk, worker, clock, starts, ghosts>>
    PROVE  TypeOK'
  <1>1. content' \in [Tabs -> Content]
    BY NoneAssumption DEF TypeOK, Content
  <1>2. QED
    BY <1>1 DEF TypeOK, store, worker, ghosts

LEMMA MemType ==
    ASSUME TypeOK, NEW t \in Tabs, content[t].pc = "in"
    PROVE  content[t].mem \in Session
  BY DEF TypeOK, Content

LEMMA PageKeepsType ==
    ASSUME TypeOK, NEW t \in Tabs, Page(t) \/ MeetingEnded(t)
    PROVE  TypeOK'
  <1> USE DEF store, worker, ghosts
  <1>1. ASSUME NEW r \in Rooms, ReadPrevious(t, r) PROVE TypeOK'
    <2>1. content' \in [Tabs -> Content]
      BY <1>1, NoneAssumption DEF ReadPrevious, NoPage, TypeOK, Content, ContentPCs
    <2>2. QED
      BY <1>1, <2>1 DEF ReadPrevious, TypeOK
  <1>2. CASE LeaveLobby(t)
    <2>1. NoPage("idle") \in Content
      BY DEF Content, ContentPCs, NoPage
    <2>2. QED
      BY <1>2, <2>1 DEF LeaveLobby, TypeOK
  <1>3. ASSUME NEW private \in Privacies, NEW heard \in BOOLEAN, Join(t, private, heard)
        PROVE  TypeOK'
    <2>0. activeTabs' \subseteq Tabs
      BY <1>3 DEF Join, Track, TypeOK
    <2> DEFINE new == [room |-> content[t].room, private |-> private,
                       startedAt |-> clock + 1, words |-> 0, crowd |-> FALSE]
    <2>1. CASE content[t].mem = None
      <3>1. new \in Session
        BY <1>3, SettingsAssumption DEF Join, TypeOK, Content, Session
      <3>2. [content[t] EXCEPT !.pc = "in", !.heard = heard, !.mem = new] \in Content
        <4>1. content[t] \in Content
          BY DEF TypeOK
        <4>2. QED
          BY <3>1, <4>1, NoneAssumption DEF Content, ContentPCs
      <3>3. content' = [content EXCEPT ![t] = [content[t] EXCEPT !.pc = "in", !.heard = heard,
                                                                    !.mem = new]]
        BY <1>3, <2>1 DEF Join, TypeOK, Content
      <3>4. QED
        BY <1>3, <2>0, <3>2, <3>3 DEF Join, TypeOK
    <2>2. CASE content[t].mem # None
      <3>1. [content[t] EXCEPT !.pc = "in", !.heard = heard] \in Content
        <4>1. content[t] \in Content
          BY DEF TypeOK
        <4>2. QED
          BY <4>1, <2>2 DEF Content, ContentPCs
      <3>2. content' \in [Tabs -> Content]
        BY <1>3, <2>2, <3>1 DEF Join, TypeOK
      <3>3. QED
        BY <1>3, <2>0, <3>2 DEF Join, TypeOK
    <2>3. QED
      BY <2>1, <2>2
  <1>4. CASE Capture(t)
    <2>1. [content[t].mem EXCEPT !.words = @ + 1] \in Session
      BY <1>4, MemType DEF Capture, Session
    <2>2. QED
      BY <1>4, <2>1, RecordType DEF Capture
  <1>5. CASE Attend(t)
    <2>1. [content[t].mem EXCEPT !.crowd = TRUE] \in Session
      BY <1>5, MemType DEF Attend, Session
    <2>2. QED
      BY <1>5, <2>1, RecordType DEF Attend
  <1>6. ASSUME NEW private \in Privacies, SetPrivate(t, private) PROVE TypeOK'
    <2>1. [content[t].mem EXCEPT !.private = private] \in Session
      BY <1>6, MemType, SettingsAssumption DEF SetPrivate, Session
    <2>2. QED
      BY <1>6, <2>1, RecordType DEF SetPrivate
  <1>7. CASE Wipe(t)
    <2>1. [content[t].mem EXCEPT !.words = 0] \in Session
      BY <1>7, MemType DEF Wipe, Session
    <2>2. QED
      BY <1>7, <2>1, RecordType DEF Wipe
  <1>8. CASE WriteSession(t)
    BY <1>8 DEF WriteSession, TypeOK, Content
  <1>9. CASE EndMeeting(t)
    BY <1>9 DEF EndMeeting, TypeOK, Content, ContentPCs
  <1>10. CASE RelaySession(t)
    BY <1>10 DEF RelaySession, TypeOK, Content, ContentPCs
  <1>11. CASE Reload(t)
    <2>1. dels' \subseteq Delivery
      BY <1>11, DeafenType DEF Reload
    <2>2. fin' \in [Tabs -> Fin]
      BY <1>11, UnheardType DEF Reload, TypeOK
    <2>3. content' \in [Tabs -> Content]
      BY <1>11 DEF Reload, TypeOK, NoPage, Content, ContentPCs
    <2>4. QED
      BY <1>11, <2>1, <2>2, <2>3 DEF Reload, TypeOK
  <1>12. CASE CloseTab(t)
    <2>1. dels' \subseteq Delivery
      BY <1>12, DeafenType DEF CloseTab
    <2>2. fin' \in [Tabs -> Fin]
      BY <1>12, UnheardType, StartType DEF CloseTab, TypeOK, Callers
    <2>3. content' \in [Tabs -> Content]
      BY <1>12 DEF CloseTab, TypeOK, NoPage, Content, ContentPCs
    <2>4. QED
      BY <1>12, <2>1, <2>2, <2>3 DEF CloseTab, TypeOK
  <1>13. CASE MeetingEnded(t)
    <2>1. fin' \in [Tabs -> Fin]
      BY <1>13, StartType DEF MeetingEnded, TypeOK, Callers
    <2>2. content' \in [Tabs -> Content]
      <3> DEFINE asked == [content[t] EXCEPT !.pc = CASE @ = "sealed" -> "ended"
                                                      [] @ = "stale"  -> "evicting"
                                                      [] OTHER        -> "relayed"]
      <3>1. asked \in Content
        BY <1>13 DEF MeetingEnded, TypeOK, Content, ContentPCs
      <3>2. content' \in {[content EXCEPT ![t] = asked], [content EXCEPT ![t] = Answer(asked)]}
        BY <1>13 DEF MeetingEnded
      <3>3. QED
        BY <3>1, <3>2, AnswerType DEF TypeOK
    <2>3. QED
      BY <1>13, <2>1, <2>2 DEF MeetingEnded, TypeOK
  <1>14. QED
    BY <1>1, <1>2, <1>3, <1>4, <1>5, <1>6, <1>7, <1>8, <1>9, <1>10, <1>11, <1>12, <1>13 DEF Page

LEMMA AppendType ==
    ASSUME TypeOK, NEW m \in Meeting, AppendToHistory(m)
    PROVE  history' \in Seq(Meeting) /\ gone' \subseteq Nat
  <1>1. \A i \in DOMAIN history : VisitsOf(history[i]) \subseteq Nat
    BY VisitsType DEF TypeOK
  <1>2. QED
    BY <1>1, RetentionType DEF AppendToHistory, TypeOK

(* What a finalization in a given phase holds. *)
LEMMA FinFields ==
    ASSUME NEW f \in Fin
    PROVE  /\ f = [pc |-> f.pc, who |-> f.who, s |-> f.s, m |-> f.m, w |-> f.w, merge |-> f.merge]
           /\ f.pc = "written" => f.s \in Session
           /\ f.pc \in {"append", "commit", "mark"} => f.m \in Meeting
           /\ f.m \in Meeting \cup {None}
           /\ f.w \in Path \cup {None}
           /\ f.who \in Callers
  BY DEF Fin

LEMMA FinStepType ==
    ASSUME NEW f \in Fin
    PROVE  /\ \A pc \in {"remove", "untrack", "untrackOnly", "idle"} : [f EXCEPT !.pc = pc] \in Fin
           /\ f.m # None => [f EXCEPT !.pc = "mark"] \in Fin
           /\ \A s \in Session : [f EXCEPT !.pc = "written", !.s = s] \in Fin
           /\ [f EXCEPT !.pc = "untrackOnly", !.s = None] \in Fin
           /\ \A w \in Path \cup {None} : [f EXCEPT !.pc = "remove", !.w = w] \in Fin
           /\ \A m \in Meeting : [f EXCEPT !.pc = "mark", !.m = m] \in Fin
           /\ \A pc \in {"append", "commit"}, w \in Path \cup {None}, m \in Meeting, b \in BOOLEAN :
                [f EXCEPT !.pc = pc, !.w = w, !.m = m, !.merge = b] \in Fin
  <1>1. /\ \A pc \in {"remove", "untrack", "untrackOnly", "idle"} : [f EXCEPT !.pc = pc] \in Fin
        /\ f.m # None => [f EXCEPT !.pc = "mark"] \in Fin
    BY DEF Fin, FinPCs
  <1>2. /\ \A s \in Session : [f EXCEPT !.pc = "written", !.s = s] \in Fin
        /\ [f EXCEPT !.pc = "untrackOnly", !.s = None] \in Fin
    BY NoneAssumption DEF Fin, FinPCs
  <1>3. \A w \in Path \cup {None} : [f EXCEPT !.pc = "remove", !.w = w] \in Fin
    BY DEF Fin, FinPCs
  <1>4. \A m \in Meeting : [f EXCEPT !.pc = "mark", !.m = m] \in Fin
    BY NoneAssumption DEF Fin, FinPCs
  <1>5. \A pc \in {"append", "commit"}, w \in Path \cup {None}, m \in Meeting, b \in BOOLEAN :
          [f EXCEPT !.pc = pc, !.w = w, !.m = m, !.merge = b] \in Fin
    <2> SUFFICES ASSUME NEW pc \in {"append", "commit"}, NEW w \in Path \cup {None},
                        NEW m \in Meeting, NEW b \in BOOLEAN
                 PROVE  [f EXCEPT !.pc = pc, !.w = w, !.m = m, !.merge = b] \in Fin
      OBVIOUS
    <2>1. m # None
      BY NoneAssumption
    <2>2. QED
      BY <2>1 DEF Fin, FinPCs
  <1>6. QED
    BY <1>1, <1>2, <1>3, <1>4, <1>5

LEMMA NoFinType == NoFin \in Fin
  BY DEF NoFin, Fin, FinPCs, Callers

LEMMA FinalizationKeepsType ==
    ASSUME TypeOK, NEW t \in Tabs, Finalization(t)
    PROVE  TypeOK'
  <1> USE DEF store, worker, ghosts
  <1> DEFINE f == fin[t]
  <1>0. f \in Fin
    BY DEF TypeOK
  <1>1. CASE FinReadSession(t)
    <2>1. [f EXCEPT !.pc = IF session[t] = None THEN "untrackOnly" ELSE "written",
                    !.s  = session[t]] \in Fin
      BY <1>0, FinStepType DEF TypeOK
    <2>2. fin' \in [Tabs -> Fin]
      BY <1>1, <2>1 DEF FinReadSession, TypeOK
    <2>3. QED
      BY <1>1, <2>2 DEF FinReadSession, TypeOK
  <1>2. CASE FinReadWritten(t)
    <2> DEFINE m == SessionToMeeting(f.s, clock + 1, clock + 1)
    <2>1. f.s \in Session
      BY <1>0, <1>2, FinFields DEF FinReadWritten
    <2>2. m \in Meeting /\ clock' \in Nat
      <3>1. clock \in Nat
        BY DEF TypeOK
      <3>2. clock' = clock \/ clock' = clock + 1
        BY <1>2 DEF FinReadWritten
      <3>3. m \in Meeting
        BY <2>1, <3>1, BuildType
      <3>4. QED
        BY <3>1, <3>2, <3>3
    <2>3. \A merge \in MergeModes, pc \in {"append", "commit"} :
            [f EXCEPT !.pc = pc, !.w = written[t], !.m = m, !.merge = merge] \in Fin
      BY <1>0, <2>2, FinStepType, SettingsAssumption DEF TypeOK
    <2>4. [f EXCEPT !.pc = "remove", !.w = written[t]] \in Fin
      BY <1>0, FinStepType DEF TypeOK
    <2>5. fin' \in [Tabs -> Fin]
      <3>1. PICK g \in Fin : fin' = [fin EXCEPT ![t] = g]
        <4>1. CASE Empty(f.s) /\ ~f.s.crowd
          BY <1>2, <2>4, <4>1 DEF FinReadWritten
        <4>2. CASE ~(Empty(f.s) /\ ~f.s.crowd)
          <5>1. PICK merge \in MergeModes :
                  fin' = [fin EXCEPT ![t].pc = IF Empty(f.s) THEN "append" ELSE "commit",
                                     ![t].w = written[t], ![t].m = m, ![t].merge = merge]
            BY <1>2, <4>2 DEF FinReadWritten
          <5>2. fin' = [fin EXCEPT ![t] =
                  [f EXCEPT !.pc = IF Empty(f.s) THEN "append" ELSE "commit",
                            !.w = written[t], !.m = m, !.merge = merge]]
            BY <5>1
          <5>3. QED
            BY <2>3, <5>2
        <4>3. QED
          BY <4>1, <4>2
      <3>2. QED
        BY <3>1 DEF TypeOK
    <2>6. QED
      BY <1>2, <2>2, <2>5 DEF FinReadWritten, TypeOK
  <1>3. CASE FinAppendFailure(t)
    <2>1. f.m \in Meeting
      BY <1>0, <1>3, FinFields DEF FinAppendFailure
    <2>2. history' \in Seq(Meeting) /\ gone' \subseteq Nat
      BY <1>3, <2>1, AppendType DEF FinAppendFailure
    <2>3. fin' \in [Tabs -> Fin]
      BY <1>0, <1>3, FinStepType DEF FinAppendFailure, TypeOK
    <2>4. QED
      BY <1>3, <2>2, <2>3 DEF FinAppendFailure, TypeOK
  <1>4. CASE FinCommit(t)
    <2>1. f.m \in Meeting
      BY <1>0, <1>4, FinFields DEF FinCommit
    <2>2. ASSUME NEW i \in DOMAIN history,
                 history' = [history EXCEPT ![i] = MergeMeetings(history[i], f.m)],
                 fin' = [fin EXCEPT ![t].pc = "mark", ![t].m = MergeMeetings(history[i], f.m)],
                 UNCHANGED gone
          PROVE  TypeOK'
      <3>1. MergeMeetings(history[i], f.m) \in Meeting
        BY <2>1, MergeType DEF TypeOK
      <3>2. history' \in Seq(Meeting)
        BY <2>2, <3>1 DEF TypeOK
      <3>3. [f EXCEPT !.pc = "mark", !.m = MergeMeetings(history[i], f.m)] \in Fin
        BY <1>0, <3>1, FinStepType
      <3>4. fin' \in [Tabs -> Fin]
        BY <2>2, <3>3 DEF TypeOK
      <3>5. QED
        BY <1>4, <2>2, <3>2, <3>4 DEF FinCommit, TypeOK
    <2>3. ASSUME AppendToHistory(f.m), fin' = [fin EXCEPT ![t].pc = "mark"]
          PROVE  TypeOK'
      <3>1. history' \in Seq(Meeting) /\ gone' \subseteq Nat
        BY <2>1, <2>3, AppendType
      <3>2. [f EXCEPT !.pc = "mark"] \in Fin
        BY <1>0, <2>1, NoneAssumption, FinStepType
      <3>3. fin' \in [Tabs -> Fin]
        BY <2>3, <3>2 DEF TypeOK
      <3>4. QED
        BY <1>4, <3>1, <3>3 DEF FinCommit, TypeOK
    <2>4. QED
      BY <1>4, <2>2, <2>3 DEF FinCommit
  <1>5. CASE FinMark(t)
    <2>1. f.m.id \in Nat
      BY <1>0, <1>5, FinFields DEF FinMark, Meeting
    <2>2. fin' \in [Tabs -> Fin]
      BY <1>0, <1>5, FinStepType DEF FinMark, TypeOK
    <2>3. QED
      BY <1>5, <2>1, <2>2 DEF FinMark, TypeOK
  <1>6. CASE FinRemove(t)
    <2>1. fin' \in [Tabs -> Fin]
      BY <1>0, <1>6, FinStepType DEF FinRemove, TypeOK
    <2>2. QED
      BY <1>6, <2>1 DEF FinRemove, TypeOK
  <1>7. CASE FinUntrack(t)
    <2>1. fin' \in [Tabs -> Fin]
      BY <1>7, NoFinType DEF FinUntrack, TypeOK
    <2>2. f.m # None => f.m \in Meeting
      BY <1>0, FinFields
    <2>3. rec' \in Rec
      <3>1. f.m # None => [m |-> f.m, w |-> f.w] \in Result
        BY <1>0, <2>2, FinFields DEF Result
      <3>2. rec \in Rec
        BY DEF TypeOK
      <3>3. \/ rec' = rec
            \/ rec' = [rec EXCEPT !.pc = "scan", !.results = @]
            \/ f.m # None /\ rec' = [rec EXCEPT !.pc = "scan",
                                                !.results = @ \cup {[m |-> f.m, w |-> f.w]}]
        BY <1>7 DEF FinUntrack
      <3>4. \A r \in SUBSET Result : [rec EXCEPT !.pc = "scan", !.results = r] \in Rec
        BY <3>2 DEF Rec, RecPCs
      <3>5. rec.results \in SUBSET Result
        BY <3>2 DEF Rec
      <3>6. QED
        BY <3>1, <3>2, <3>3, <3>4, <3>5
    <2>4. dels' \subseteq Delivery
      <3>1. f.m # None => [tab |-> t, who |-> f.who, m |-> f.m, w |-> f.w, pc |-> "download"]
                             \in Delivery
        BY <1>0, <2>2, FinFields DEF Delivery
      <3>2. QED
        BY <1>7, <3>1 DEF FinUntrack, TypeOK
    <2>5. content' \in [Tabs -> Content]
      BY <1>7, ReplyType DEF FinUntrack, TypeOK
    <2>6. QED
      BY <1>7, <2>1, <2>3, <2>4, <2>5 DEF FinUntrack, TypeOK
  <1>8. QED
    BY <1>1, <1>2, <1>3, <1>4, <1>5, <1>6, <1>7 DEF Finalization

LEMMA DownloadType ==
    ASSUME TypeOK, NEW m \in Meeting, NEW w, Download(m, w)
    PROVE  DiskOK(disk') /\ exported' \subseteq Body
  BY PathType, BodyType, PutType DEF Download, TypeOK, DiskOK

LEMMA DeliveryKeepsType ==
    ASSUME TypeOK, NEW d \in dels, Deliver(d) \/ DeliverFail(d)
    PROVE  TypeOK'
  <1> USE DEF store, worker, ghosts
  <1>1. d \in Delivery
    BY DEF TypeOK
  <1>2. CASE DeliverFile(d)
    <2>1. DiskOK(disk') /\ exported' \subseteq Body
      BY <1>1, <1>2, DownloadType DEF DeliverFile, Delivery
    <2>2. dels' \subseteq Delivery
      BY <1>1, <1>2 DEF DeliverFile, TypeOK, Delivery
    <2>3. QED
      BY <1>2, <2>1, <2>2 DEF DeliverFile, TypeOK, DiskOK
  <1>3. CASE DeliverClear(d)
    BY <1>1, <1>3, ReplyType DEF DeliverClear, TypeOK, Delivery
  <1>4. CASE DeliverFail(d)
    BY <1>1, <1>4, ReplyType DEF DeliverFail, TypeOK, Delivery
  <1>5. QED
    BY <1>2, <1>3, <1>4 DEF Deliver

LEMMA SavingKeepsType ==
    ASSUME TypeOK, NEW t \in Tabs, SaveStart(t) \/ Saving(t) \/ SaveFail(t)
    PROVE  TypeOK'
  <1> USE DEF store, worker, ghosts
  <1>1. CASE SaveStart(t)
    BY <1>1 DEF SaveStart, TypeOK, NoSave, Save, SavePCs
  <1>2. CASE SaveResolve(t)
    <2> DEFINE partial == SessionToMeeting(saves[t].s, 0, clock)
    <2>1. partial \in Meeting
      BY <1>2, BuildType DEF SaveResolve, TypeOK, Save
    <2>2. \A i \in DOMAIN history : MergeMeetings(history[i], partial) \in Meeting
      BY <2>1, MergeType DEF TypeOK
    <2>3. PICK m \in Meeting : saves' = [saves EXCEPT ![t].pc = "written", ![t].m = m]
      BY <1>2, <2>1, <2>2 DEF SaveResolve
    <2>4. saves' \in [Tabs -> Save]
      <3>1. [saves[t] EXCEPT !.pc = "written", !.m = m] \in Save
        BY NoneAssumption DEF TypeOK, Save, SavePCs
      <3>2. QED
        BY <2>3, <3>1 DEF TypeOK
    <2>5. QED
      BY <1>2, <2>4 DEF SaveResolve, TypeOK
  <1>3. CASE SaveReadWritten(t)
    <2>1. [saves[t] EXCEPT !.pc = "download", !.w = written[t]] \in Save
      BY <1>3 DEF SaveReadWritten, TypeOK, Save, SavePCs
    <2>2. QED
      BY <1>3, <2>1 DEF SaveReadWritten, TypeOK
  <1>4. CASE SaveDownload(t)
    <2>1. saves[t].m \in Meeting
      BY <1>4 DEF SaveDownload, TypeOK, Save
    <2>2. DiskOK(disk')
      BY <1>4, <2>1, PathType, BodyType, PutType DEF SaveDownload, TypeOK, DiskOK
    <2>3. saves' \in [Tabs -> Save]
      BY <1>4 DEF SaveDownload, TypeOK, Save, SavePCs
    <2>4. QED
      BY <1>4, <2>2, <2>3 DEF SaveDownload, TypeOK, DiskOK
  <1>5. CASE SaveRecord(t)
    <2>1. saves[t].m \in Meeting
      BY <1>5 DEF SaveRecord, TypeOK, Save
    <2>2. PathOf(saves[t].m) \in Path
      BY <2>1, PathType
    <2>3. saves' \in [Tabs -> Save]
      BY <1>5 DEF SaveRecord, TypeOK, NoSave, Save, SavePCs
    <2>4. QED
      BY <1>5, <2>2, <2>3 DEF SaveRecord, TypeOK
  <1>6. CASE SaveFail(t)
    BY <1>6 DEF SaveFail, TypeOK, NoSave, Save, SavePCs
  <1>7. QED
    BY <1>1, <1>2, <1>3, <1>4, <1>5, <1>6 DEF Saving

LEMMA RecStepType ==
    ASSUME NEW r \in Rec
    PROVE  /\ \A pc \in RecPCs \ {"save"} : [r EXCEPT !.pc = pc] \in Rec
           /\ [r EXCEPT !.pc = r.then] \in Rec
           /\ \A todo \in SUBSET Tabs, pc \in {"scan", "await"} :
                [r EXCEPT !.pc = pc, !.todo = todo] \in Rec
           /\ \A todo \in SUBSET Tabs : [r EXCEPT !.todo = todo] \in Rec
           /\ \A ids \in SUBSET Nat : [r EXCEPT !.pc = "next", !.ids = ids] \in Rec
           /\ \A x \in Result, results \in SUBSET Result :
                [r EXCEPT !.pc = "save", !.then = "deliver", !.results = results,
                          !.id = x.m.id, !.m = x.m, !.w = x.w] \in Rec
           /\ \A m \in Meeting, ids \in SUBSET Nat, id \in Nat :
                [r EXCEPT !.pc = "save", !.then = "next", !.ids = ids,
                          !.id = id, !.m = m, !.w = None] \in Rec
           /\ \A ids \in SUBSET Nat, id \in Nat :
                [r EXCEPT !.pc = "clear", !.then = "next", !.ids = ids,
                          !.id = id, !.m = None, !.w = None] \in Rec
  <1>1. \A pc \in RecPCs \ {"save"} : [r EXCEPT !.pc = pc] \in Rec
    BY DEF Rec, RecPCs
  <1>2. [r EXCEPT !.pc = r.then] \in Rec
    BY DEF Rec, RecPCs
  <1>3. \A todo \in SUBSET Tabs, pc \in {"scan", "await"} :
          [r EXCEPT !.pc = pc, !.todo = todo] \in Rec
    BY DEF Rec, RecPCs
  <1>4. \A todo \in SUBSET Tabs : [r EXCEPT !.todo = todo] \in Rec
    BY DEF Rec, RecPCs
  <1>5. \A ids \in SUBSET Nat : [r EXCEPT !.pc = "next", !.ids = ids] \in Rec
    BY DEF Rec, RecPCs
  <1>6. \A x \in Result, results \in SUBSET Result :
          [r EXCEPT !.pc = "save", !.then = "deliver", !.results = results,
                    !.id = x.m.id, !.m = x.m, !.w = x.w] \in Rec
    BY NoneAssumption DEF Rec, RecPCs, Result, Meeting
  <1>7. \A m \in Meeting, ids \in SUBSET Nat, id \in Nat :
          [r EXCEPT !.pc = "save", !.then = "next", !.ids = ids,
                    !.id = id, !.m = m, !.w = None] \in Rec
    BY NoneAssumption DEF Rec, RecPCs
  <1>8. \A ids \in SUBSET Nat, id \in Nat :
          [r EXCEPT !.pc = "clear", !.then = "next", !.ids = ids,
                    !.id = id, !.m = None, !.w = None] \in Rec
    BY DEF Rec, RecPCs
  <1>9. QED
    BY <1>1, <1>2, <1>3, <1>4, <1>5, <1>6, <1>7, <1>8

LEMMA NoRecType == NoRec \in Rec /\ NewRec \in Rec
  BY DEF NoRec, NewRec, Rec, RecPCs

LEMMA RecoveryKeepsType ==
    ASSUME TypeOK, Recovery \/ RecFail
    PROVE  TypeOK'
  <1> USE DEF store, worker, ghosts
  <1>0. rec \in Rec /\ rec.todo \subseteq Tabs /\ rec.ids \subseteq Nat /\ rec.results \subseteq Result
    BY DEF TypeOK, Rec
  <1>1. CASE RecReadKeys
    <2>1. [rec EXCEPT !.pc = "scan", !.todo = {t \in Tabs : session[t] # None}] \in Rec
      BY <1>0, RecStepType
    <2>2. QED
      BY <1>1, <2>1 DEF RecReadKeys, TypeOK
  <1>2. ASSUME NEW t \in Tabs, RecScan(t) PROVE TypeOK'
    <2>1. rec' \in Rec
      <3>1. \A pc \in {"scan", "await"} : [rec EXCEPT !.pc = pc, !.todo = @ \ {t}] \in Rec
        BY <1>0, RecStepType
      <3>2. [rec EXCEPT !.todo = @ \ {t}] \in Rec
        BY <1>0, RecStepType
      <3>3. QED
        BY <1>2, <3>1, <3>2 DEF RecScan
    <2>2. fin' \in [Tabs -> Fin]
      BY <1>2, StartType DEF RecScan, TypeOK, Callers
    <2>3. QED
      BY <1>2, <2>1, <2>2 DEF RecScan, TypeOK
  <1>3. CASE RecScanned
    <2>1. [rec EXCEPT !.pc = "deliver"] \in Rec
      BY <1>0, RecStepType DEF RecPCs
    <2>2. QED
      BY <1>3, <2>1 DEF RecScanned, TypeOK
  <1>4. CASE RecDeliver
    <2>1. PICK r \in rec.results :
            rec' = [rec EXCEPT !.pc = "save", !.then = "deliver", !.results = @ \ {r},
                               !.id = r.m.id, !.m = r.m, !.w = r.w]
      BY <1>4 DEF RecDeliver
    <2>2. rec' \in Rec
      BY <1>0, <2>1, RecStepType
    <2>3. QED
      BY <1>4, <2>2 DEF RecDeliver, TypeOK
  <1>5. CASE RecListPending
    <2>1. [rec EXCEPT !.pc = "next", !.ids = pending] \in Rec
      BY <1>0, RecStepType DEF TypeOK
    <2>2. QED
      BY <1>5, <2>1 DEF RecListPending, TypeOK
  <1>6. CASE RecNext
    <2>1. PICK id \in rec.ids :
            \/ \E i \in DOMAIN history :
                 /\ history[i].id = id
                 /\ rec' = [rec EXCEPT !.pc = "save", !.then = "next", !.ids = @ \ {id},
                                       !.id = id, !.m = history[i], !.w = None]
            \/ rec' = [rec EXCEPT !.pc = "clear", !.then = "next", !.ids = @ \ {id},
                                  !.id = id, !.m = None, !.w = None]
      BY <1>6 DEF RecNext
    <2>2. id \in Nat /\ rec.ids \ {id} \in SUBSET Nat
      BY <1>0
    <2>3. \A i \in DOMAIN history : history[i] \in Meeting
      BY DEF TypeOK
    <2>4. \A m \in Meeting : [rec EXCEPT !.pc = "save", !.then = "next", !.ids = @ \ {id},
                                         !.id = id, !.m = m, !.w = None] \in Rec
      BY <1>0, <2>2, RecStepType
    <2>5. [rec EXCEPT !.pc = "clear", !.then = "next", !.ids = @ \ {id},
                      !.id = id, !.m = None, !.w = None] \in Rec
      BY <1>0, <2>2, RecStepType
    <2>6. rec' \in Rec
      <3>1. ASSUME NEW i \in DOMAIN history,
                   rec' = [rec EXCEPT !.pc = "save", !.then = "next", !.ids = @ \ {id},
                                      !.id = id, !.m = history[i], !.w = None]
            PROVE  rec' \in Rec
        <4>1. history[i] \in Meeting
          BY <2>3
        <4>2. QED
          BY <3>1, <4>1, <2>4
      <3>2. QED
        BY <2>1, <2>5, <3>1
    <2>7. QED
      BY <1>6, <2>6 DEF RecNext, TypeOK
  <1>7. CASE RecSave
    <2>1. rec.m \in Meeting
      BY <1>0, <1>7 DEF RecSave, Rec
    <2>2. DiskOK(disk') /\ exported' \subseteq Body
      BY <1>7, <2>1, DownloadType DEF RecSave
    <2>3. rec' \in Rec
      BY <1>0, <1>7, RecStepType DEF RecSave, RecPCs
    <2>4. QED
      BY <1>7, <2>2, <2>3 DEF RecSave, TypeOK, DiskOK
  <1>8. CASE RecClear
    <2>1. rec' \in Rec
      BY <1>0, <1>8, RecStepType DEF RecClear
    <2>2. QED
      BY <1>8, <2>1 DEF RecClear, TypeOK
  <1>9. CASE RecDone
    BY <1>9, NoRecType DEF RecDone, TypeOK
  <1>10. CASE RecFail
    BY <1>10, NoRecType DEF RecFail, TypeOK
  <1>11. QED
    BY <1>1, <1>2, <1>3, <1>4, <1>5, <1>6, <1>7, <1>8, <1>9, <1>10 DEF Recovery

LEMMA RebootType ==
    ASSUME TypeOK, Reboot
    PROVE  /\ fin' \in [Tabs -> Fin]
           /\ dels' \subseteq Delivery
           /\ saves' \in [Tabs -> Save]
           /\ rec' \in Rec
           /\ starts' \in Nat
  <1>1. NoSave \in Save
    BY DEF NoSave, Save, SavePCs
  <1>2. QED
    BY <1>1, NoFinType, NoRecType DEF Reboot, TypeOK

LEMMA FailuresKeepType ==
    ASSUME TypeOK, Failures
    PROVE  TypeOK'
  <1> USE DEF store, worker, ghosts
  <1>1. ASSUME NEW t \in Tabs, FinThrow(t) PROVE TypeOK'
    <2>1. fin' \in [Tabs -> Fin] /\ rec' \in Rec
      BY <1>1, NoFinType, NoRecType DEF FinThrow, TypeOK
    <2>2. content' \in [Tabs -> Content]
      BY <1>1, ReplyType DEF FinThrow
    <2>3. QED
      BY <1>1, <2>1, <2>2 DEF FinThrow, TypeOK
  <1>2. CASE Restart \/ UpdateAvailable
    <2>1. content' \in [Tabs -> Content]
      BY <1>2, AnswerType DEF Restart, UpdateAvailable, TypeOK
    <2>2. QED
      BY <1>2, <2>1, RebootType DEF Restart, UpdateAvailable, TypeOK
  <1>3. CASE BrowserCrash
    <2>1. NoPage("closed") \in Content
      BY DEF NoPage, Content, ContentPCs
    <2>2. QED
      BY <1>3, <2>1, RebootType DEF BrowserCrash, TypeOK
  <1>4. QED
    BY <1>1, <1>2, <1>3, SavingKeepsType, DeliveryKeepsType, RecoveryKeepsType DEF Failures

LEMMA DeleteKeepsType ==
    ASSUME TypeOK, NEW i \in DOMAIN history, DeleteMeeting(i)
    PROVE  TypeOK'
  <1> USE DEF store, worker, ghosts
  <1>1. history' \in Seq(Meeting)
    BY DEF DeleteMeeting, TypeOK
  <1>2. VisitsOf(history[i]) \subseteq Nat
    BY VisitsType DEF TypeOK
  <1>3. QED
    BY <1>1, <1>2 DEF DeleteMeeting, TypeOK

LEMMA NextKeepsType == TypeOK /\ [Next]_vars => TypeOK'
  <1> SUFFICES ASSUME TypeOK, [Next]_vars PROVE TypeOK'
    OBVIOUS
  <1>1. CASE Next
    BY <1>1, PageKeepsType, FinalizationKeepsType, SavingKeepsType, DeliveryKeepsType,
       RecoveryKeepsType, FailuresKeepType, DeleteKeepsType DEF Next
  <1>2. CASE UNCHANGED vars
    BY <1>2 DEF vars, store, worker, ghosts, TypeOK
  <1>3. QED
    BY <1>1, <1>2

(* Whatever the pages, the worker, the browser and the user do, in whatever     *)
(* order, the shared state keeps its shape and no step of a task finds missing  *)
(* what an earlier step of it was to leave.                                   *)
THEOREM TypeCorrect == Spec => []TypeOK
  BY InitType, NextKeepsType, PTL DEF Spec

-------------------------------------------------------------------------------
(*                          History never forgets                           *)

LEMMA HoldsVisit ==
    ASSUME NEW m, NEW v, NEW n, Holds(m, v, n)
    PROVE  v \in VisitsOf(m)
  BY DEF Holds, VisitsOf

LEMMA ConcatAt ==
    ASSUME NEW S, NEW a \in Seq(S), NEW b \in Seq(S)
    PROVE  /\ \A i \in DOMAIN a : i \in DOMAIN (a \o b) /\ (a \o b)[i] = a[i]
           /\ \A i \in DOMAIN b : Len(a) + i \in DOMAIN (a \o b) /\ (a \o b)[Len(a) + i] = b[i]
  <1>1. /\ DOMAIN a = 1 .. Len(a) /\ DOMAIN b = 1 .. Len(b)
        /\ DOMAIN (a \o b) = 1 .. Len(a) + Len(b)
        /\ Len(a) \in Nat /\ Len(b) \in Nat
    OBVIOUS
  <1>2. \A i \in 1 .. Len(a) + Len(b) :
          (a \o b)[i] = IF i <= Len(a) THEN a[i] ELSE b[i - Len(a)]
    OBVIOUS
  <1>3. QED
    BY <1>1, <1>2

LEMMA SubSeqAt ==
    ASSUME NEW S, NEW s \in Seq(S), NEW first \in 1 .. Len(s) + 1, NEW i \in first .. Len(s)
    PROVE  LET sub == SubSeq(s, first, Len(s))
           IN  i - first + 1 \in DOMAIN sub /\ sub[i - first + 1] = s[i]
  OBVIOUS

LEMMA MergeHolds ==
    ASSUME NEW target \in Meeting, NEW incoming \in Meeting, NEW v, NEW n,
           Holds(target, v, n) \/ Holds(incoming, v, n)
    PROVE  Holds(MergeMeetings(target, incoming), v, n)
  <1> DEFINE a == target.visits
             b == incoming.visits
             c == a \o b
  <1>1. a \in Seq(Visit) /\ b \in Seq(Visit)
    BY DEF Meeting
  <1>2. MergeMeetings(target, incoming).visits = c
    BY DEF MergeMeetings, Meeting
  <1>3. \A i \in DOMAIN a : i \in DOMAIN c /\ c[i] = a[i]
    <2> HIDE DEF a, b
    <2>1. QED
      BY <1>1, ConcatAt
  <1>4. \A i \in DOMAIN b : Len(a) + i \in DOMAIN c /\ c[Len(a) + i] = b[i]
    <2> HIDE DEF a, b
    <2>1. QED
      BY <1>1, ConcatAt
  <1> HIDE DEF c
  <1>5. QED
    BY <1>2, <1>3, <1>4 DEF Holds

LEMMA RetentionKeeps ==
    ASSUME NEW h \in Seq(Meeting), NEW m \in Meeting
    PROVE  LET next == AppendWithRetention(h, m, Retention)
           IN  /\ \A i \in DOMAIN h : \/ i + Retention <= Len(h) + 1
                                      \/ \E j \in DOMAIN next : next[j] = h[i]
               /\ \E j \in DOMAIN next : next[j] = m
  <1> DEFINE next  == AppendWithRetention(h, m, Retention)
             all   == Append(h, m)
             first == IF Len(all) > Retention THEN Len(all) - Retention + 1 ELSE 1
  <1>1. Retention \in Nat \ {0} /\ Len(h) \in Nat /\ Len(all) = Len(h) + 1
    BY RetentionAssumption
  <1>2. all \in Seq(Meeting) /\ first \in 1 .. Len(all)
    BY <1>1
  <1>3. next = SubSeq(all, first, Len(all))
    BY DEF AppendWithRetention
  <1>4. \A i \in first .. Len(all) : i - first + 1 \in DOMAIN next /\ next[i - first + 1] = all[i]
    <2> HIDE DEF all, first, next
    <2>1. QED
      BY <1>2, <1>3
  <1>5. \A i \in DOMAIN h : i \in 1 .. Len(h) /\ all[i] = h[i]
    OBVIOUS
  <1>6. all[Len(all)] = m
    OBVIOUS
  <1>7. ASSUME NEW i \in DOMAIN h, ~(i + Retention <= Len(h) + 1)
        PROVE  \E j \in DOMAIN next : next[j] = h[i]
    <2>1. i \in first .. Len(all)
      BY <1>1, <1>5, <1>7
    <2> HIDE DEF all, first, next
    <2>2. QED
      BY <1>4, <1>5, <2>1
  <1>8. Len(all) \in first .. Len(all)
    BY <1>1, <1>2
  <1> HIDE DEF all, first, next
  <1>9. \E j \in DOMAIN next : next[j] = m
    BY <1>4, <1>6, <1>8
  <1>10. QED
    BY <1>7, <1>9 DEF next

LEMMA KeptByAppend ==
    ASSUME TypeOK, NEW m \in Meeting, AppendToHistory(m), NEW x \in Session,
           Kept(x, history, gone) \/ Holds(m, x.startedAt, x.words)
    PROVE  Kept(x, history', gone')
  <1>1. history \in Seq(Meeting)
    BY DEF TypeOK
  <1>2. history' = AppendWithRetention(history, m, Retention)
    BY DEF AppendToHistory
  <1>3. CASE Holds(m, x.startedAt, x.words)
    BY <1>1, <1>2, <1>3, RetentionKeeps DEF Kept
  <1>4. CASE x.startedAt \in gone
    BY <1>4 DEF AppendToHistory, Kept
  <1>5. ASSUME NEW i \in DOMAIN history, Holds(history[i], x.startedAt, x.words)
        PROVE  Kept(x, history', gone')
    <2>1. CASE i + Retention <= Len(history) + 1
      <3>1. x.startedAt \in VisitsOf(history[i])
        BY <1>5, HoldsVisit
      <3>2. VisitsOf(history[i]) \subseteq gone'
        BY <2>1 DEF AppendToHistory
      <3>3. QED
        BY <3>1, <3>2 DEF Kept
    <2>2. CASE \E j \in DOMAIN history' : history'[j] = history[i]
      BY <1>5, <2>2 DEF Kept
    <2>3. QED
      BY <1>1, <1>2, <2>1, <2>2, RetentionKeeps
  <1>6. QED
    BY <1>3, <1>4, <1>5 DEF Kept

LEMMA KeptByMerge ==
    ASSUME TypeOK, NEW m \in Meeting, NEW i \in DOMAIN history,
           history' = [history EXCEPT ![i] = MergeMeetings(history[i], m)], UNCHANGED gone,
           NEW x, Kept(x, history, gone) \/ Holds(m, x.startedAt, x.words)
    PROVE  Kept(x, history', gone')
  <1>1. history[i] \in Meeting /\ DOMAIN history' = DOMAIN history
    BY DEF TypeOK
  <1>2. \A j \in DOMAIN history : j # i => history'[j] = history[j]
    OBVIOUS
  <1>3. history'[i] = MergeMeetings(history[i], m)
    OBVIOUS
  <1>4. QED
    BY <1>1, <1>2, <1>3, MergeHolds DEF Kept

(* Deleting a meeting leaves the others. *)
LEMMA OthersOutliveDelete ==
    ASSUME TypeOK, NEW i \in DOMAIN history, DeleteMeeting(i), NEW j \in DOMAIN history, j # i
    PROVE  \E k \in DOMAIN history' : history'[k] = history[j]
  <1> DEFINE a == SubSeq(history, 1, i - 1)
             b == SubSeq(history, i + 1, Len(history))
  <1>1. history \in Seq(Meeting) /\ i \in 1 .. Len(history) /\ j \in 1 .. Len(history)
    BY DEF TypeOK
  <1>2. /\ a \in Seq(Meeting) /\ Len(a) = i - 1
        /\ b \in Seq(Meeting) /\ Len(b) = Len(history) - i
    BY <1>1
  <1>3. history' = a \o b
    BY DEF DeleteMeeting
  <1>4. CASE j < i
    <2>1. j \in DOMAIN a /\ a[j] = history[j]
      BY <1>1, <1>2, <1>4
    <2> HIDE DEF a, b
    <2>2. j \in DOMAIN history' /\ history'[j] = a[j]
      BY <1>2, <1>3, <2>1, ConcatAt
    <2>3. QED
      BY <2>1, <2>2
  <1>5. CASE j > i
    <2>1. j - i \in DOMAIN b /\ b[j - i] = history[j]
      BY <1>1, <1>5, SubSeqAt, SMTT(30)
    <2> HIDE DEF a, b
    <2>2. j - 1 \in DOMAIN history' /\ history'[j - 1] = b[j - i]
      <3>1. Len(a) + (j - i) = j - 1
        BY <1>1, <1>2
      <3>2. QED
        BY <1>2, <1>3, <2>1, <3>1, ConcatAt, SMTT(30)
    <2>3. QED
      BY <2>1, <2>2
  <1>6. QED
    BY <1>1, <1>4, <1>5

LEMMA KeptByDelete ==
    ASSUME TypeOK, NEW i \in DOMAIN history, DeleteMeeting(i), NEW x, Kept(x, history, gone)
    PROVE  Kept(x, history', gone')
  <1>1. gone' = gone \cup VisitsOf(history[i])
    BY DEF DeleteMeeting
  <1>2. QED
    BY <1>1, OthersOutliveDelete, HoldsVisit DEF Kept

-------------------------------------------------------------------------------
(*                     The custody of one tab's session                     *)

CustodyOf(t) ==
    LET c == content[t]
        f == fin[t]
    IN  /\ c.pc \in {"in", "sealed", "lost"} => f.pc = "idle"
        /\ f.pc \in {"written", "append", "commit", "mark", "remove"}
              => session[t] # None /\ session[t] = f.s
        /\ f.pc \in {"untrack", "untrackOnly"} => session[t] = None
        /\ f.pc \in {"append", "commit"} => Holds(f.m, f.s.startedAt, f.s.words)
        /\ f.pc \in {"mark", "remove"} => Empty(f.s) \/ Kept(f.s, history, gone)

LEMMA CustodyByTab == Custody <=> \A t \in Tabs : CustodyOf(t)
  BY DEF Custody, FinalizeOwnsSession, WordsChangeHands, CustodyOf

(* What history kept it keeps. *)
Remembers == \A x \in Session : Kept(x, history, gone) => Kept(x, history', gone')

LEMMA SameHistory == UNCHANGED <<history, gone>> => Remembers
  BY DEF Remembers, Kept

(* A step that leaves a tab's session alone, and only ever ends or begins what  *)
(* the tab's page and finalization are doing.                                 *)
LEMMA Frame ==
    ASSUME TypeOK, Custody, NEW u \in Tabs, Remembers,
           session'[u] = session[u],
           \/ content'[u] = content[u]
           \/ content'[u].pc \notin {"in", "sealed", "ended", "lost"}
           \/ content'[u].pc = "lost" /\ fin'[u].pc = "idle",
           \/ fin'[u].pc = "idle"
           \/ fin'[u].pc = "session" /\ content'[u].pc \notin {"in", "sealed", "lost"}
           \/ fin'[u].pc = fin[u].pc /\ fin'[u].s = fin[u].s /\ fin'[u].m = fin[u].m
    PROVE  CustodyOf(u)'
  <1>1. CustodyOf(u)
    BY CustodyByTab
  <1>2. session[u] # None => session[u] \in Session
    BY DEF TypeOK
  <1>3. fin[u].pc \in {"mark", "remove"} => fin[u].s \in Session
    BY <1>1, <1>2 DEF CustodyOf
  <1>4. fin'[u].pc \in {"mark", "remove"} => Empty(fin'[u].s) \/ Kept(fin'[u].s, history', gone')
    BY <1>1, <1>3 DEF CustodyOf, Remembers, Empty
  <1>5. fin'[u].pc \in {"append", "commit"}
          => Holds(fin'[u].m, fin'[u].s.startedAt, fin'[u].s.words)
    BY <1>1 DEF CustodyOf
  <1>6. QED
    BY <1>1, <1>4, <1>5 DEF CustodyOf

LEMMA InitCustody == Init => Custody
  BY DEF Init, Custody, FinalizeOwnsSession, WordsChangeHands, NoPage, NoFin

LEMMA StartBegins ==
    ASSUME NEW t \in Tabs, NEW who, fin \in [Tabs -> Fin], StartFinalize(t, who)
    PROVE  fin'[t].pc = "session"
  <1>1. fin'[t] = [NoFin EXCEPT !.pc = "session", !.who = who]
    BY DEF StartFinalize
  <1>2. QED
    BY <1>1 DEF NoFin

(* What a page that is entered holds. *)
LEMMA ReadPreviousOpens ==
    ASSUME TypeOK, NEW t \in Tabs, NEW r \in Rooms, ReadPrevious(t, r)
    PROVE  /\ content'[t].pc \in {"stale", "lobby"}
           /\ IF session[t] # None /\ session[t].room # r
              THEN content'[t].pc = "stale" /\ content'[t].mem = None
              ELSE content'[t].pc = "lobby" /\ content'[t].mem = session[t]
           /\ \A u \in Tabs \ {t} : content'[u] = content[u]
  <1> DEFINE stale == [NoPage("stale") EXCEPT !.room = r]
             opened == [NoPage("lobby") EXCEPT !.room = r, !.mem = session[t]]
  <1>1. content' = [content EXCEPT ![t] = IF session[t] # None /\ session[t].room # r
                                          THEN stale ELSE opened]
    BY DEF ReadPrevious
  <1>2. stale.pc = "stale" /\ stale.mem = None /\ opened.pc = "lobby" /\ opened.mem = session[t]
    BY DEF NoPage
  <1> HIDE DEF stale, opened
  <1>3. QED
    BY <1>1, <1>2 DEF TypeOK

LEMMA PageKeepsCustody ==
    ASSUME LobbyOutlastsFinalize, TypeOK, Custody, NEW t \in Tabs, Page(t) \/ MeetingEnded(t)
    PROVE  Custody'
  <1> USE DEF store, worker, ghosts
  <1> SUFFICES ASSUME NEW u \in Tabs PROVE CustodyOf(u)'
    BY DEF Custody, FinalizeOwnsSession, WordsChangeHands, CustodyOf
  <1>0. CustodyOf(u) /\ CustodyOf(t)
    BY CustodyByTab
  <1>1. Remembers
    BY SameHistory DEF Page, ReadPrevious, LeaveLobby, Join, Capture, Attend, SetPrivate, Wipe,
       WriteSession, EndMeeting, RelaySession, Reload, CloseTab, MeetingEnded
  <1>2. CASE \E r \in Rooms : ReadPrevious(t, r)
    <2>1. PICK r \in Rooms : ReadPrevious(t, r)
      BY <1>2
    <2>2. content'[t].pc \in {"stale", "lobby"} /\ \A v \in Tabs \ {t} : content'[v] = content[v]
      BY <2>1, ReadPreviousOpens
    <2>3. UNCHANGED <<session, fin>>
      BY <2>1 DEF ReadPrevious
    <2>4. QED
      BY <1>1, <2>2, <2>3, Frame
  <1>3. CASE LeaveLobby(t)
    BY <1>1, <1>3, Frame DEF LeaveLobby, TypeOK, NoPage
  <1>4. CASE \E private \in Privacies, heard \in BOOLEAN : Join(t, private, heard)
    <2>1. CASE u = t
      BY <1>4, <2>1 DEF Join, CustodyOf, TypeOK, Content
    <2>2. CASE u # t
      BY <1>1, <1>4, <2>2, Frame DEF Join, TypeOK
    <2>3. QED
      BY <2>1, <2>2
  <1>5. CASE \/ Capture(t) \/ Attend(t) \/ Wipe(t)
            \/ \E private \in Privacies : SetPrivate(t, private)
    <2>1. CASE u = t
      BY <1>0, <1>5, <2>1 DEF Capture, Attend, Wipe, SetPrivate, CustodyOf, TypeOK, Content
    <2>2. CASE u # t
      BY <1>1, <1>5, <2>2, Frame DEF Capture, Attend, Wipe, SetPrivate, TypeOK
    <2>3. QED
      BY <2>1, <2>2
  <1>6. CASE WriteSession(t)
    <2>1. CASE u = t
      BY <1>0, <1>6, <2>1 DEF WriteSession, CustodyOf, TypeOK
    <2>2. CASE u # t
      BY <1>1, <1>6, <2>2, Frame DEF WriteSession, TypeOK
    <2>3. QED
      BY <2>1, <2>2
  <1>7. CASE EndMeeting(t)
    <2>1. CASE u = t
      BY <1>0, <1>7, <2>1 DEF EndMeeting, CustodyOf, TypeOK, Content
    <2>2. CASE u # t
      BY <1>1, <1>7, <2>2, Frame DEF EndMeeting, TypeOK
    <2>3. QED
      BY <2>1, <2>2
  <1>8. CASE RelaySession(t)
    <2>1. CASE u = t
      BY <1>0, <1>8, <2>1 DEF RelaySession, CustodyOf, TypeOK, Content
    <2>2. CASE u # t
      BY <1>1, <1>8, <2>2, Frame DEF RelaySession, TypeOK
    <2>3. QED
      BY <2>1, <2>2
  <1>9. CASE Reload(t)
    BY <1>1, <1>9, Frame DEF Reload, Unheard, NoPage, TypeOK, Fin
  <1>10. CASE CloseTab(t)
    <2>1. /\ content'[t].pc = "closed"
          /\ \A v \in Tabs \ {t} : content'[v] = content[v] /\ fin'[v] = fin[v]
      BY <1>10 DEF CloseTab, StartFinalize, NoPage, TypeOK
    <2>2. CASE fin[t].pc = "idle"
      <3>1. fin'[t].pc = "session"
        BY <1>10, <2>2, StartBegins DEF CloseTab, TypeOK
      <3>2. QED
        BY <1>1, <1>10, <2>1, <3>1, Frame DEF CloseTab
    <2>3. CASE fin[t].pc # "idle"
      <3>1. /\ fin'[t].pc = fin[t].pc /\ fin'[t].s = fin[t].s /\ fin'[t].m = fin[t].m
        BY <1>10, <2>3 DEF CloseTab, Unheard, TypeOK, Fin
      <3>2. QED
        BY <1>1, <1>10, <2>1, <3>1, Frame DEF CloseTab
    <2>4. QED
      BY <2>2, <2>3
  <1>11. CASE MeetingEnded(t)
    <2>1. CASE u = t
      <3> DEFINE asked == [content[t] EXCEPT !.pc = CASE @ = "sealed" -> "ended"
                                                      [] @ = "stale"  -> "evicting"
                                                      [] OTHER        -> "relayed"]
      <3>1. content[t] \in [pc: ContentPCs, room: Rooms \cup {None}, mem: Session \cup {None}, heard: BOOLEAN]
        BY DEF TypeOK, Content
      <3>2. content'[t] = IF fin[t].pc = "idle" THEN asked ELSE Answer(asked)
        BY <1>11 DEF MeetingEnded, TypeOK
      <3>3. fin'[t].pc = "session" \/ fin' = fin
        BY <1>11, StartBegins DEF MeetingEnded, TypeOK
      <3>4. CASE content[t].pc = "sealed"
        <4>1. fin[t].pc = "idle"
          BY <1>0, <3>4 DEF CustodyOf
        <4>2. fin'[t].pc = "session"
          BY <1>11, <4>1, StartBegins DEF MeetingEnded, TypeOK
        <4>3. content'[t].pc = "ended"
          BY <3>1, <3>2, <3>4, <4>1
        <4>4. QED
          BY <1>11, <2>1, <4>1, <4>2, <4>3 DEF MeetingEnded, CustodyOf
      <3>5. CASE content[t].pc \in {"stale", "relaying"}
        <4>1. asked.pc \in {"evicting", "relayed"}
          BY <3>1, <3>5
        <4>2. [asked EXCEPT !.pc = "lobby"].pc = "lobby"
          BY <3>1
        <4>3. Answer(asked).pc \in {"lobby", "idle"}
          BY <4>2 DEF Answer, NoPage
        <4>4. content'[t].pc \in {"evicting", "relayed", "lobby", "idle"}
          BY <3>2, <4>1, <4>3
        <4>5. QED
          BY <1>1, <1>11, <2>1, <3>3, <4>4, Frame DEF MeetingEnded
      <3>6. QED
        BY <1>11, <3>4, <3>5 DEF MeetingEnded
    <2>2. CASE u # t
      BY <1>1, <1>11, <2>2, Frame DEF MeetingEnded, StartFinalize, TypeOK
    <2>3. QED
      BY <2>1, <2>2
  <1>12. QED
    BY <1>2, <1>3, <1>4, <1>5, <1>6, <1>7, <1>8, <1>9, <1>10, <1>11 DEF Page

LEMMA ReplyFrame ==
    ASSUME TypeOK, NEW t \in Tabs, NEW who, Reply(t, who), NEW u \in Tabs
    PROVE  content'[u] = content[u] \/ content'[u].pc \in {"idle", "lobby"}
  <1>1. Answer(content[t]).pc \in {"idle", "lobby"}
    BY DEF Answer, NoPage, TypeOK, Content
  <1>2. QED
    BY <1>1 DEF Reply, TypeOK

LEMMA FinalizationKeepsCustody ==
    ASSUME TypeOK, Custody, NEW t \in Tabs, Finalization(t)
    PROVE  Custody'
  <1> USE DEF store, worker, ghosts
  <1> SUFFICES ASSUME NEW u \in Tabs PROVE CustodyOf(u)'
    BY DEF Custody, FinalizeOwnsSession, WordsChangeHands, CustodyOf
  <1> DEFINE f == fin[t]
  <1>0. CustodyOf(u) /\ CustodyOf(t) /\ f \in Fin /\ f' = fin'[t]
    BY CustodyByTab DEF TypeOK
  <1>1. CASE FinReadSession(t)
    <2>1. CASE u = t
      <3>1. f' = [f EXCEPT !.pc = IF session[t] = None THEN "untrackOnly" ELSE "written",
                           !.s  = session[t]]
        BY <1>0, <1>1 DEF FinReadSession, TypeOK
      <3>2. f'.pc = (IF session[t] = None THEN "untrackOnly" ELSE "written") /\ f'.s = session[t]
        BY <1>0, <3>1 DEF Fin
      <3>3. QED
        BY <1>0, <1>1, <2>1, <3>2 DEF FinReadSession, CustodyOf
    <2>2. CASE u # t
      BY <1>1, <2>2, SameHistory, Frame DEF FinReadSession, TypeOK
    <2>3. QED
      BY <2>1, <2>2
  <1>2. CASE FinReadWritten(t)
    <2> DEFINE m == SessionToMeeting(f.s, clock + 1, clock + 1)
    <2>1. CASE u = t
      <3>1. f.s \in Session
        BY <1>0, <1>2, FinFields DEF FinReadWritten
      <3>2. Holds(m, f.s.startedAt, f.s.words)
        <4>1. 1 \in DOMAIN m.visits /\ m.visits[1] = [startedAt |-> f.s.startedAt, words |-> f.s.words]
          BY DEF SessionToMeeting
        <4>2. f.s.words >= f.s.words
          BY <3>1 DEF Session
        <4>3. QED
          BY <4>1, <4>2 DEF Holds
      <3>3. \/ Empty(f.s) /\ f'.pc = "remove" /\ f'.s = f.s
            \/ f'.pc \in {"append", "commit"} /\ f'.s = f.s /\ f'.m = m
        <4>1. CASE Empty(f.s) /\ ~f.s.crowd
          BY <1>0, <1>2, <4>1 DEF FinReadWritten, TypeOK, Fin
        <4>2. CASE ~(Empty(f.s) /\ ~f.s.crowd)
          <5>1. PICK merge \in MergeModes :
                  fin' = [fin EXCEPT ![t].pc = IF Empty(f.s) THEN "append" ELSE "commit",
                                     ![t].w = written[t], ![t].m = m, ![t].merge = merge]
            BY <1>2, <4>2 DEF FinReadWritten
          <5>2. QED
            BY <1>0, <5>1 DEF TypeOK, Fin
        <4>3. QED
          BY <4>1, <4>2
      <3>4. QED
        BY <1>0, <1>2, <2>1, <3>2, <3>3 DEF FinReadWritten, CustodyOf
    <2>2. CASE u # t
      <3>1. fin'[u] = fin[u]
        BY <1>2, <2>2 DEF FinReadWritten, TypeOK
      <3>2. QED
        BY <1>2, <3>1, SameHistory, Frame DEF FinReadWritten
    <2>3. QED
      BY <2>1, <2>2
  <1>3. CASE FinAppendFailure(t) \/ FinCommit(t)
    <2>1. f.m \in Meeting /\ f.s \in Session
      BY <1>0, <1>3, FinFields DEF FinAppendFailure, FinCommit, CustodyOf, TypeOK
    <2>2. Remembers /\ Kept(f.s, history', gone')
      <3>1. Holds(f.m, f.s.startedAt, f.s.words)
        BY <1>0, <1>3 DEF FinAppendFailure, FinCommit, CustodyOf
      <3>2. CASE AppendToHistory(f.m)
        BY <2>1, <3>1, <3>2, KeptByAppend DEF Remembers
      <3>3. CASE \E i \in DOMAIN history :
                    /\ history' = [history EXCEPT ![i] = MergeMeetings(history[i], f.m)]
                    /\ UNCHANGED gone
        BY <2>1, <3>1, <3>3, KeptByMerge DEF Remembers
      <3>4. QED
        BY <1>3, <3>2, <3>3 DEF FinAppendFailure, FinCommit
    <2>3. f'.pc \in {"mark", "remove"} /\ f'.s = f.s
      BY <1>0, <1>3 DEF FinAppendFailure, FinCommit, TypeOK, Fin
    <2>4. CASE u = t
      BY <1>0, <1>3, <2>2, <2>3, <2>4 DEF FinAppendFailure, FinCommit, CustodyOf
    <2>5. CASE u # t
      <3>1. fin'[u] = fin[u]
        BY <1>3, <2>5 DEF FinAppendFailure, FinCommit, TypeOK
      <3>2. QED
        BY <1>3, <2>2, <3>1, Frame DEF FinAppendFailure, FinCommit
    <2>6. QED
      BY <2>4, <2>5
  <1>4. CASE FinMark(t)
    <2>1. CASE u = t
      <3>1. f'.pc = "remove" /\ f'.s = f.s
        BY <1>0, <1>4 DEF FinMark, TypeOK, Fin
      <3>2. QED
        BY <1>0, <1>4, <2>1, <3>1 DEF FinMark, CustodyOf
    <2>2. CASE u # t
      BY <1>4, <2>2, SameHistory, Frame DEF FinMark, TypeOK
    <2>3. QED
      BY <2>1, <2>2
  <1>5. CASE FinRemove(t)
    <2>1. CASE u = t
      <3>1. f'.pc = "untrack" /\ session'[t] = None
        BY <1>0, <1>5 DEF FinRemove, TypeOK, Fin
      <3>2. QED
        BY <1>0, <1>5, <2>1, <3>1 DEF FinRemove, CustodyOf
    <2>2. CASE u # t
      BY <1>5, <2>2, SameHistory, Frame DEF FinRemove, TypeOK
    <2>3. QED
      BY <2>1, <2>2
  <1>6. CASE FinUntrack(t)
    <2>1. /\ session' = session /\ history' = history /\ gone' = gone
          /\ fin' = [fin EXCEPT ![t] = NoFin]
          /\ content' = content \/ Reply(t, f.who)
      BY <1>6 DEF FinUntrack
    <2>2. content'[u] = content[u] \/ content'[u].pc \in {"idle", "lobby"}
      BY <2>1, ReplyFrame
    <2>3. CASE u = t
      <3>1. fin'[t].pc = "idle"
        BY <2>1 DEF NoFin, TypeOK
      <3>2. session[t] = None /\ content[t].pc \notin {"in", "sealed", "lost"}
        BY <1>0, <1>6 DEF FinUntrack, CustodyOf
      <3>3. QED
        BY <2>1, <2>2, <2>3, <3>1, <3>2 DEF CustodyOf
    <2>4. CASE u # t
      <3>1. fin'[u] = fin[u]
        BY <2>1, <2>4 DEF TypeOK
      <3>2. QED
        BY <2>1, <2>2, <2>4, <3>1, SameHistory, Frame
    <2>5. QED
      BY <2>3, <2>4
  <1>7. QED
    BY <1>1, <1>2, <1>3, <1>4, <1>5, <1>6 DEF Finalization

LEMMA BackgroundKeepsCustody ==
    ASSUME TypeOK, Custody,
           \/ \E t \in Tabs : SaveStart(t) \/ Saving(t)
           \/ \E d \in dels : Deliver(d)
           \/ Recovery
           \/ Failures
           \/ \E i \in DOMAIN history : DeleteMeeting(i)
    PROVE  Custody'
  <1> USE DEF store, worker, ghosts
  <1> SUFFICES ASSUME NEW u \in Tabs PROVE CustodyOf(u)'
    BY DEF Custody, FinalizeOwnsSession, WordsChangeHands, CustodyOf
  <1>1. CASE \E t \in Tabs : SaveStart(t) \/ Saving(t) \/ SaveFail(t)
    BY <1>1, SameHistory, Frame DEF SaveStart, Saving, SaveResolve, SaveReadWritten, SaveDownload,
       SaveRecord, SaveFail
  <1>2. CASE \E d \in dels : Deliver(d) \/ DeliverFail(d)
    <2>1. PICK d \in dels : Deliver(d) \/ DeliverFail(d)
      BY <1>2
    <2>2. d.tab \in Tabs
      BY DEF TypeOK, Delivery
    <2>3. /\ UNCHANGED <<session, fin, history, gone>>
          /\ content' = content \/ Reply(d.tab, d.who)
      BY <2>1 DEF Deliver, DeliverFile, DeliverClear, DeliverFail
    <2>4. content'[u] = content[u] \/ content'[u].pc \in {"idle", "lobby"}
      BY <2>2, <2>3, ReplyFrame
    <2>5. QED
      BY <2>3, <2>4, SameHistory, Frame
  <1>3. CASE \E t \in Tabs : RecScan(t)
    <2>1. PICK t \in Tabs : RecScan(t)
      BY <1>3
    <2>2. /\ UNCHANGED <<session, content, history, gone>>
          /\ \/ fin' = fin
             \/ content[t].pc = "closed" /\ fin' = [fin EXCEPT ![t] = [NoFin EXCEPT !.pc = "session",
                                                                             !.who = "recovery"]]
      BY <2>1 DEF RecScan, StartFinalize
    <2>3. fin'[u] = fin[u] \/ (fin'[u].pc = "session" /\ content'[u].pc = "closed")
      <3>1. [NoFin EXCEPT !.pc = "session", !.who = "recovery"].pc = "session"
        BY DEF NoFin
      <3>2. u # t => fin'[u] = fin[u]
        BY <2>2 DEF TypeOK
      <3>3. QED
        BY <2>2, <3>1, <3>2 DEF TypeOK
    <2>4. QED
      BY <2>2, <2>3, SameHistory, Frame
  <1>4. CASE (Recovery /\ ~\E t \in Tabs : RecScan(t)) \/ RecFail
    BY <1>4, SameHistory, Frame DEF Recovery, RecReadKeys, RecScanned, RecDeliver, RecListPending,
       RecNext, RecSave, RecClear, RecDone, RecFail
  <1>5. CASE \E t \in Tabs : FinThrow(t)
    <2>1. PICK t \in Tabs : FinThrow(t)
      BY <1>5
    <2>2. content'[u] = content[u] \/ content'[u].pc \in {"idle", "lobby"}
      BY <2>1, ReplyFrame DEF FinThrow
    <2>3. fin'[u].pc = "idle" \/ fin'[u] = fin[u]
      BY <2>1 DEF FinThrow, NoFin, TypeOK
    <2>4. UNCHANGED <<session, history, gone>>
      BY <2>1 DEF FinThrow
    <2>5. QED
      BY <2>2, <2>3, <2>4, SameHistory, Frame
  <1>6. CASE Restart \/ UpdateAvailable \/ BrowserCrash
    <2>1. UNCHANGED <<session, history, gone>> /\ fin'[u].pc = "idle"
      BY <1>6 DEF Restart, UpdateAvailable, BrowserCrash, Reboot, NoFin
    <2>2. \/ content'[u] = content[u]
          \/ content'[u].pc \in {"lost", "lobby", "idle", "closed"}
      <3>1. Sever(content[u]) = content[u] \/ Sever(content[u]).pc \in {"lost", "lobby", "idle"}
        BY DEF Sever, NoPage, TypeOK, Content
      <3>2. QED
        BY <1>6, <3>1 DEF Restart, UpdateAvailable, BrowserCrash, NoPage
    <2>3. QED
      BY <2>1, <2>2, SameHistory, Frame
  <1>7. CASE \E i \in DOMAIN history : DeleteMeeting(i)
    <2>1. Remembers
      BY <1>7, KeptByDelete DEF Remembers
    <2>2. QED
      BY <1>7, <2>1, Frame DEF DeleteMeeting
  <1>8. QED
    BY <1>1, <1>2, <1>3, <1>4, <1>5, <1>6, <1>7 DEF Failures

LEMMA NextKeepsCustody ==
    ASSUME LobbyOutlastsFinalize, TypeOK, Custody, [Next]_vars
    PROVE  Custody'
  <1>1. CASE Next
    BY <1>1, PageKeepsCustody, FinalizationKeepsCustody, BackgroundKeepsCustody DEF Next
  <1>2. CASE UNCHANGED vars
    BY <1>2 DEF vars, store, worker, ghosts, Custody, FinalizeOwnsSession,
       WordsChangeHands, Kept
  <1>3. QED
    BY <1>1, <1>2

(* As long as joining outlasts a finalization of the same tab, a finalization    *)
(* is never overtaken: the session it read stays the stored one, and its words   *)
(* pass from the session through its hands into history (sessions.ts            *)
(* finalizeSession against meet.ts endMeeting).                                 *)
THEOREM CustodyHolds ==
    ASSUME LobbyOutlastsFinalize
    PROVE  Spec => []Custody
  <1>1. TypeOK /\ Custody /\ [Next]_vars => Custody'
    BY NextKeepsCustody
  <1>2. QED
    BY <1>1, InitCustody, TypeCorrect, PTL DEF Spec

(* A tab the update guard must see: told of the meeting, and its session not in *)
(* history yet.                                                              *)
Seen(t) ==
    /\ content[t].heard
    /\ \/ content[t].pc \in {"in", "sealed"}
       \/ content[t].pc = "ended" /\ session[t] # None

(* No step of a page untracks a tab, and none but Join, told or not, begins to    *)
(* record.                                                                   *)
LEMMA PageSeen ==
    ASSUME TypeOK, NEW t \in Tabs, Page(t) \/ MeetingEnded(t), NEW u \in Tabs, Seen(u)'
    PROVE  activeTabs \subseteq activeTabs' /\ (Seen(u) \/ u \in activeTabs')
  <1> USE DEF store, worker, ghosts
  <1>2. CASE \E r \in Rooms : ReadPrevious(t, r)
    BY <1>2, ReadPreviousOpens DEF ReadPrevious, Seen
  <1>3. CASE LeaveLobby(t) \/ Reload(t) \/ CloseTab(t)
    <2>1. /\ UNCHANGED <<session, activeTabs>>
          /\ \E pc \in {"idle", "closed"} : content' = [content EXCEPT ![t] = NoPage(pc)]
      BY <1>3 DEF LeaveLobby, Reload, CloseTab
    <2>2. /\ content'[t].pc \in {"idle", "closed"}
          /\ u # t => content'[u] = content[u]
      BY <2>1 DEF NoPage, TypeOK
    <2>3. QED
      BY <2>1, <2>2 DEF Seen
  <1>4. CASE \E private \in Privacies, heard \in BOOLEAN : Join(t, private, heard)
    <2>1. PICK private \in Privacies, heard \in BOOLEAN : Join(t, private, heard)
      BY <1>4
    <2>2. content'[t].heard = heard /\ (u # t => content'[u] = content[u])
      BY <2>1 DEF Join, TypeOK, Content
    <2>3. QED
      BY <2>1, <2>2 DEF Join, Track, Seen
  <1>5. CASE Capture(t) \/ Attend(t) \/ Wipe(t) \/ \E private \in Privacies : SetPrivate(t, private)
    <2>1. /\ UNCHANGED <<session, activeTabs>>
          /\ content[t].pc = "in"
          /\ \E m : content' = [content EXCEPT ![t] = [content[t] EXCEPT !.mem = m]]
      BY <1>5 DEF Capture, Attend, Wipe, SetPrivate
    <2>2. content'[t].heard = content[t].heard
      BY <2>1 DEF TypeOK, Content
    <2>3. u # t => content'[u] = content[u]
      BY <2>1
    <2>4. QED
      BY <2>1, <2>2, <2>3 DEF Seen
  <1>6. CASE WriteSession(t)
    BY <1>6 DEF WriteSession, Seen, TypeOK
  <1>7. CASE EndMeeting(t) \/ RelaySession(t)
    <2>1. /\ UNCHANGED activeTabs
          /\ content[t] \in Content
          /\ content[t].pc \in {"in", "lost"}
          /\ \E pc \in {"sealed", "relaying"} :
                 /\ content' = [content EXCEPT ![t].pc = pc]
                 /\ pc = "sealed" => content[t].pc = "in"
      BY <1>7 DEF EndMeeting, RelaySession, TypeOK
    <2>2. /\ content'[t].heard = content[t].heard
          /\ content'[t].pc \in {"sealed", "relaying"}
          /\ content'[t].pc = "sealed" => content[t].pc = "in"
      BY <2>1 DEF TypeOK, Content
    <2>3. u # t => content'[u] = content[u] /\ session'[u] = session[u]
      BY <1>7, <2>1 DEF EndMeeting, RelaySession, TypeOK
    <2>4. QED
      BY <2>1, <2>2, <2>3 DEF Seen
  <1>8. CASE MeetingEnded(t)
    <2> DEFINE asked == [content[t] EXCEPT !.pc = CASE @ = "sealed" -> "ended"
                                                    [] @ = "stale"  -> "evicting"
                                                    [] OTHER        -> "relayed"]
    <2>1. content[t] \in [pc: ContentPCs, room: Rooms \cup {None}, mem: Session \cup {None}, heard: BOOLEAN]
      BY DEF TypeOK, Content
    <2>2. content'[t] = asked \/ content'[t] = Answer(asked)
      BY <1>8 DEF MeetingEnded, TypeOK
    <2>3. /\ content[t].pc = "sealed" => asked.pc = "ended"
          /\ content[t].pc # "sealed" => asked.pc \in {"evicting", "relayed"}
          /\ asked.heard = content[t].heard
      BY <2>1
    <2>4. [asked EXCEPT !.pc = "lobby"].pc = "lobby"
      BY <2>1
    <2>5. Answer(asked).pc \in {"lobby", "idle"}
      BY <2>4 DEF Answer, NoPage
    <2>6. UNCHANGED <<session, activeTabs>> /\ (u # t => content'[u] = content[u])
      BY <1>8 DEF MeetingEnded, TypeOK
    <2>7. u = t => /\ content'[u].pc \notin {"in", "sealed"}
                   /\ content'[u].pc = "ended" => Seen(u)
      BY <2>2, <2>3, <2>5, <2>6 DEF Seen
    <2>8. QED
      BY <2>6, <2>7 DEF Seen
  <1>9. QED
    BY <1>2, <1>3, <1>4, <1>5, <1>6, <1>7, <1>8 DEF Page

(* Of the worker's steps only the last of a finalization untracks a tab, once its *)
(* session is gone.                                                          *)
LEMMA UntrackedLast ==
    ASSUME TypeOK, Custody, NEW t \in Tabs, Finalization(t), NEW u \in Tabs, Seen(u)'
    PROVE  Seen(u) /\ (u \in activeTabs => u \in activeTabs')
  <1> USE DEF store, worker, ghosts
  <1>1. CASE ~FinUntrack(t)
    BY <1>1 DEF Finalization, FinReadSession, FinReadWritten, FinAppendFailure, FinCommit, FinMark,
       FinRemove, Seen, TypeOK
  <1>2. CASE FinUntrack(t)
    <2>1. content'[u] = content[u] \/ content'[u].pc \in {"idle", "lobby"}
      BY <1>2, ReplyFrame DEF FinUntrack
    <2>2. session[t] = None /\ content[t].pc \notin {"in", "sealed"}
      BY <1>2, CustodyByTab DEF FinUntrack, CustodyOf
    <2>3. QED
      BY <1>2, <2>1, <2>2 DEF FinUntrack, Seen
  <1>3. QED
    BY <1>1, <1>2

LEMMA OthersLeaveTracking ==
    ASSUME TypeOK,
           \/ \E t \in Tabs : SaveStart(t) \/ Saving(t)
           \/ \E d \in dels : Deliver(d)
           \/ Recovery
           \/ Failures
           \/ \E i \in DOMAIN history : DeleteMeeting(i)
           \/ UNCHANGED vars,
           NEW u \in Tabs, Seen(u)'
    PROVE  Seen(u) /\ UNCHANGED activeTabs
  <1> USE DEF store, worker, ghosts
  <1>1. CASE \/ \E t \in Tabs : SaveStart(t) \/ Saving(t) \/ SaveFail(t)
            \/ Recovery \/ RecFail \/ (\E i \in DOMAIN history : DeleteMeeting(i)) \/ UNCHANGED vars
    BY <1>1 DEF SaveStart, Saving, SaveResolve, SaveReadWritten, SaveDownload, SaveRecord, SaveFail,
       Recovery, RecReadKeys, RecScan, RecScanned, RecDeliver, RecListPending, RecNext, RecSave,
       RecClear, RecDone, RecFail, DeleteMeeting, vars, Seen
  <1>2. CASE \E d \in dels : Deliver(d) \/ DeliverFail(d)
    <2>1. PICK d \in dels : Deliver(d) \/ DeliverFail(d)
      BY <1>2
    <2>2. d.tab \in Tabs
      BY DEF TypeOK, Delivery
    <2>3. /\ UNCHANGED <<session, activeTabs>>
          /\ content' = content \/ Reply(d.tab, d.who)
      BY <2>1 DEF Deliver, DeliverFile, DeliverClear, DeliverFail
    <2>4. content'[u] = content[u] \/ content'[u].pc \in {"idle", "lobby"}
      BY <2>2, <2>3, ReplyFrame
    <2>5. QED
      BY <2>3, <2>4 DEF Seen
  <1>3. CASE \E t \in Tabs : FinThrow(t)
    <2>1. content'[u] = content[u] \/ content'[u].pc \in {"idle", "lobby"}
      BY <1>3, ReplyFrame DEF FinThrow
    <2>2. QED
      BY <1>3, <2>1 DEF FinThrow, Seen
  <1>4. CASE Restart \/ UpdateAvailable \/ BrowserCrash
    <2>1. Sever(content[u]) = content[u] \/ Sever(content[u]).pc \in {"lost", "lobby", "idle"}
      BY DEF Sever, NoPage, TypeOK, Content
    <2>2. QED
      BY <1>4, <2>1 DEF Restart, UpdateAvailable, BrowserCrash, NoPage, Seen
  <1>5. QED
    BY <1>1, <1>2, <1>3, <1>4 DEF Failures

LEMMA TrackedStep ==
    ASSUME TypeOK, Custody, Tracked, [Next]_vars
    PROVE  Tracked'
  <1> SUFFICES ASSUME NEW u \in Tabs, Seen(u)' PROVE u \in activeTabs'
    BY DEF Tracked, Seen
  <1>1. Seen(u) => u \in activeTabs
    BY DEF Tracked, Seen
  <1>2. CASE \E t \in Tabs : Page(t) \/ MeetingEnded(t)
    BY <1>1, <1>2, PageSeen
  <1>3. CASE \E t \in Tabs : Finalization(t)
    BY <1>1, <1>3, UntrackedLast
  <1>4. CASE ~\E t \in Tabs : Page(t) \/ MeetingEnded(t) \/ Finalization(t)
    BY <1>1, <1>4, OthersLeaveTracking DEF Next
  <1>5. QED
    BY <1>2, <1>3, <1>4

(* The guard in onUpdateAvailable sees every tab whose meetingStarted was carried *)
(* out, until the session is in history: nothing else untracks it.             *)
THEOREM TrackedHolds ==
    ASSUME LobbyOutlastsFinalize
    PROVE  Spec => []Tracked
  <1>1. Init => Tracked
    BY DEF Init, Tracked, NoPage
  <1>2. TypeOK /\ Custody /\ Tracked /\ [Next]_vars => Tracked'
    BY TrackedStep
  <1>3. QED
    BY <1>1, <1>2, CustodyHolds, TypeCorrect, PTL DEF Spec

(* Only four steps of the system write a session key. *)
LEMMA SessionWriters ==
    ASSUME [Next]_vars, session' # session
    PROVE  \E t \in Tabs : WriteSession(t) \/ EndMeeting(t) \/ RelaySession(t) \/ FinRemove(t)
  <1> USE DEF store, worker, ghosts
  <1>1. \A t \in Tabs : Page(t) \/ MeetingEnded(t) =>
          UNCHANGED session \/ WriteSession(t) \/ EndMeeting(t) \/ RelaySession(t)
    <2> SUFFICES ASSUME NEW t \in Tabs, Page(t) \/ MeetingEnded(t), ~WriteSession(t),
                        ~EndMeeting(t), ~RelaySession(t)
                 PROVE  UNCHANGED session
      OBVIOUS
    <2>1. CASE Reload(t) \/ CloseTab(t) \/ MeetingEnded(t) \/ LeaveLobby(t)
      BY <2>1 DEF Reload, CloseTab, MeetingEnded, LeaveLobby
    <2>2. CASE ~(Reload(t) \/ CloseTab(t) \/ MeetingEnded(t) \/ LeaveLobby(t))
      BY <2>2 DEF Page, ReadPrevious, Join, Capture, Attend, SetPrivate, Wipe
    <2>3. QED
      BY <2>1, <2>2
  <1>2. \A t \in Tabs : Finalization(t) => UNCHANGED session \/ FinRemove(t)
    BY DEF Finalization, FinReadSession, FinReadWritten, FinAppendFailure, FinCommit, FinMark,
       FinUntrack
  <1>3. \A t \in Tabs : SaveStart(t) \/ Saving(t) => UNCHANGED session
    BY DEF SaveStart, Saving, SaveResolve, SaveReadWritten, SaveDownload, SaveRecord
  <1>4. \A d \in dels : Deliver(d) => UNCHANGED session
    BY DEF Deliver, DeliverFile, DeliverClear
  <1>5. Recovery => UNCHANGED session
    BY DEF Recovery, RecReadKeys, RecScan, RecScanned, RecDeliver, RecListPending, RecNext,
       RecSave, RecClear, RecDone
  <1>6. Failures => UNCHANGED session
    BY DEF Failures, FinThrow, SaveFail, DeliverFail, RecFail, Restart, UpdateAvailable,
       BrowserCrash
  <1>7. \A i \in DOMAIN history : DeleteMeeting(i) => UNCHANGED session
    BY DEF DeleteMeeting
  <1>8. ~UNCHANGED vars
    BY DEF vars
  <1>9. QED
    BY <1>1, <1>2, <1>3, <1>4, <1>5, <1>6, <1>7, <1>8 DEF Next

LEMMA RemovalStep ==
    ASSUME TypeOK, Custody, [Next]_vars, NEW t \in Tabs,
           session[t] # None, ~Empty(session[t]), session'[t] = None
    PROVE  Kept(session[t], history', gone')
  <1> USE DEF store, worker, ghosts
  <1>1. PICK u \in Tabs : \/ WriteSession(u) \/ EndMeeting(u) \/ RelaySession(u) \/ FinRemove(u)
    BY SessionWriters
  <1>2. CASE WriteSession(u) \/ EndMeeting(u) \/ RelaySession(u)
    BY <1>2 DEF WriteSession, EndMeeting, RelaySession, TypeOK, Content
  <1>3. CASE FinRemove(u)
    <2>1. u = t /\ fin[t].pc = "remove"
      BY <1>3 DEF FinRemove, TypeOK
    <2>2. Kept(session[t], history, gone)
      BY <2>1, CustodyByTab DEF CustodyOf
    <2>3. QED
      BY <1>3, <2>2 DEF FinRemove, Kept
  <1>4. QED
    BY <1>1, <1>2, <1>3

(* No captured word is lost between a session key and history, whatever stops   *)
(* or fails in between: the key only goes once history holds all of it.        *)
THEOREM RemovedOnlyWhenKeptHolds ==
    ASSUME LobbyOutlastsFinalize
    PROVE  Spec => RemovedOnlyWhenKept
  <1>1. TypeOK /\ Custody /\ [Next]_vars =>
          [\A t \in Tabs :
             session[t] # None /\ ~Empty(session[t]) /\ session'[t] = None
                => Kept(session[t], history', gone')]_vars
    BY RemovalStep
  <1>2. QED
    BY <1>1, TypeCorrect, CustodyHolds, PTL DEF Spec, RemovedOnlyWhenKept
===============================================================================
