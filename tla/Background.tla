------------------------------ MODULE Background ------------------------------
(***************************************************************************)
(* The service worker (background/index.ts, sessions.ts, store.ts,           *)
(* export.ts) against the storage it shares with the content scripts.        *)
(*                                                                         *)
(* chrome.storage and the Downloads folder survive everything; what the      *)
(* worker holds in memory does not, and Chrome stops the worker whenever it   *)
(* likes.  Each action is the code between two awaits.  A critical section    *)
(* of the store's promise queue is one action: nothing else writes those     *)
(* keys, and a stop inside one leaves either its write or nothing.           *)
(***************************************************************************)
EXTENDS Meetings, FiniteSets

CONSTANTS
    Tabs,                   \* browser tabs a meeting page is open in
    Retention,              \* settings.retentionLimit
    MergeModes,             \* values settings.mergeRejoins takes when it is read
    Privacies,              \* values the in-meeting privacy switch can be given
    WorkerMayDieBusy,       \* the worker can stop in the middle of a task
    StorageMayFail,         \* a storage write of a finalization can reject
    DownloadsMayFail,       \* the download of a finished meeting can reject
    SavesMayFail,           \* the download of a mid-meeting save can reject
    SavesEnabled,           \* mid-meeting saves happen
    SavesMayOutlastMeeting, \* a save can still be under way when its meeting ends
    WipesEnabled,           \* the recorder may wipe the current meeting
    DeletesEnabled,         \* the user may delete a meeting from history
    ReloadsAfterLeave,      \* the page can reload while its finalize is unanswered
    LobbyOutlastsFinalize,  \* joining takes longer than a finalize of the same tab
    LastInstant,            \* bound: no join once this instant is reached
    MaxWords,               \* bound: words captured in one visit
    MaxStarts               \* bound: restarts of the worker

ASSUME RetentionAssumption == Retention \in Nat \ {0}
ASSUME SettingsAssumption  == MergeModes \subseteq BOOLEAN /\ Privacies \subseteq BOOLEAN
ASSUME FlagAssumption ==
    /\ {WorkerMayDieBusy, StorageMayFail, DownloadsMayFail, SavesEnabled} \subseteq BOOLEAN
    /\ {SavesMayFail, SavesMayOutlastMeeting, WipesEnabled, DeletesEnabled} \subseteq BOOLEAN
    /\ {ReloadsAfterLeave, LobbyOutlastsFinalize} \subseteq BOOLEAN
ASSUME BoundAssumption == LastInstant \in Nat /\ MaxWords \in Nat /\ MaxStarts \in Nat

VARIABLES
    (* chrome.storage.local *)
    session,    \* [Tabs -> Session or None]: session_<tabId>
    written,    \* [Tabs -> Path or None]: snapshot_<tabId>
    history,    \* sequence of Meeting: "meetings", oldest first
    pending,    \* set of ids: "pendingExports"
    activeTabs, \* set of tabs: "activeSessionTabs"
    (* the Downloads folder *)
    disk,
    (* the content script of each tab *)
    content,
    (* the memory of the service worker *)
    fin,        \* the finalization running for each tab ("finalizing" is its domain)
    dels,       \* deliveries under way
    saves,      \* the mid-meeting save running for each tab
    rec,        \* the start-up recovery
    (* time, and what the run has seen *)
    clock,      \* the last instant used as a startedAt or an endedAt
    starts,     \* restarts so far
    exported,   \* final files confirmed written, whatever became of them
    gone        \* visits that retention or the user removed from history

store   == <<session, written, history, pending, activeTabs>>
worker  == <<fin, dels, saves, rec>>
ghosts  == <<exported, gone>>
vars    == <<store, disk, content, worker, clock, starts, ghosts>>

-------------------------------------------------------------------------------
(* Content scripts, as far as the background can tell them apart.  "mem" is   *)
(* the session object the script holds; "room" is the page it is on; "heard"  *)
(* is a history: its meetingStarted was carried out.                         *)
(*   idle      no meeting            stale     about to finalize another room's session *)
(*   lobby     waiting to join       evicting  waiting for that finalize      *)
(*   in        recording             sealed    final write done, writer closed *)
(*   ended     meetingEnded sent     lost      the answer's channel closed    *)
(*   relaying  relayed its snapshot  relayed   relayed finalize unanswered    *)
(*   closed    the tab is gone                                               *)
ContentPCs == {"idle", "stale", "evicting", "lobby", "in", "sealed", "ended",
               "lost", "relaying", "relayed", "closed"}
Content ==
    {c \in [pc: ContentPCs, room: Rooms \cup {None}, mem: Session \cup {None}, heard: BOOLEAN] :
        /\ c.pc \in {"stale", "evicting", "lobby"} => c.room # None
        /\ c.pc \in {"in", "sealed", "ended", "lost"} => c.mem # None}

NoPage(pc) == [pc |-> pc, room |-> None, mem |-> None, heard |-> FALSE]

FinPCs == {"idle", "session", "untrackOnly", "written", "append", "commit",
           "mark", "remove", "untrack"}
Callers == {"page", "recovery", "nobody"}
Fin ==
    {f \in [pc: FinPCs, who: Callers, s: Session \cup {None}, m: Meeting \cup {None},
            w: Path \cup {None}, merge: BOOLEAN] :
        /\ f.pc = "written" => f.s # None
        /\ f.pc \in {"append", "commit", "mark"} => f.m # None}
NoFin == [pc |-> "idle", who |-> "nobody", s |-> None, m |-> None, w |-> None, merge |-> FALSE]

Delivery == [tab: Tabs, who: Callers, m: Meeting, w: Path \cup {None}, pc: {"download", "clear"}]

SavePCs == {"idle", "resolve", "written", "download", "record"}
Save ==
    {s \in [pc: SavePCs, s: Session \cup {None}, m: Meeting \cup {None}, w: Path \cup {None}] :
        /\ s.pc = "resolve" => s.s # None
        /\ s.pc \in {"written", "download", "record"} => s.m # None}
NoSave == [pc |-> "idle", s |-> None, m |-> None, w |-> None]

RecPCs == {"off", "keys", "scan", "await", "deliver", "export", "next", "save", "clear"}
Result == [m: Meeting, w: Path \cup {None}]
Rec ==
    {r \in [pc: RecPCs, then: {"deliver", "next"}, todo: SUBSET Tabs, results: SUBSET Result,
            ids: SUBSET Nat, id: Nat, m: Meeting \cup {None}, w: Path \cup {None}] :
        r.pc = "save" => r.m # None}
NoRec  == [pc |-> "off", then |-> "deliver", todo |-> {}, results |-> {},
           ids |-> {}, id |-> 0, m |-> None, w |-> None]
NewRec == [NoRec EXCEPT !.pc = "keys"]

Init ==
    /\ session = [t \in Tabs |-> None]
    /\ written = [t \in Tabs |-> None]
    /\ history = << >>
    /\ pending = {}
    /\ activeTabs = {}
    /\ disk = << >>
    /\ content = [t \in Tabs |-> NoPage("idle")]
    /\ fin = [t \in Tabs |-> NoFin]
    /\ dels = {}
    /\ saves = [t \in Tabs |-> NoSave]
    /\ rec = NewRec
    /\ clock = 0
    /\ starts = 0
    /\ exported = {}
    /\ gone = {}

-------------------------------------------------------------------------------
(*                              Content scripts                             *)

(* runMeeting reads the key before it waits to join: another room's session  *)
(* is to be finalized first, this room's is what a join would resume.        *)
ReadPreviousOnly(t, r) ==   \* deviation: another room's session is not finalized
    /\ content[t].pc = "idle"
    /\ content' = [content EXCEPT ![t] = [NoPage("lobby") EXCEPT !.room = r,
          !.mem = IF session[t] # None /\ session[t].room = r THEN session[t] ELSE None]]
    /\ UNCHANGED <<store, disk, worker, clock, starts, ghosts>>

ReadPrevious(t, r) ==
    /\ content[t].pc = "idle"
    /\ content' = [content EXCEPT ![t] =
         IF session[t] # None /\ session[t].room # r
         THEN [NoPage("stale") EXCEPT !.room = r]
         ELSE [NoPage("lobby") EXCEPT !.room = r, !.mem = session[t]]]
    /\ UNCHANGED <<store, disk, worker, clock, starts, ghosts>>

LeaveLobby(t) ==
    /\ content[t].pc = "lobby"
    /\ content' = [content EXCEPT ![t] = NoPage("idle")]
    /\ UNCHANGED <<store, disk, worker, clock, starts, ghosts>>

(* trackTab, for meetingStarted.  The storage call can reject, the worker stop *)
(* in it, or an earlier update have orphaned the script that asks.           *)
Track(t, heard) ==
    \/ heard /\ activeTabs' = activeTabs \cup {t}
    \/ ~heard /\ (StorageMayFail \/ WorkerMayDieBusy \/ starts > 0) /\ UNCHANGED activeTabs

(* Joined: meetingStarted has the tab tracked, and the page goes on whatever  *)
(* the answer; then the session object is built, resumed or new.  The first   *)
(* write of it is a step of its own (WriteSession).                          *)
Join(t, private, heard) ==
    /\ content[t].pc = "lobby"
    /\ clock < LastInstant
    /\ LobbyOutlastsFinalize => fin[t].pc = "idle"
    /\ Track(t, heard)
    /\ \/ /\ content[t].mem # None
          /\ content' = [content EXCEPT ![t].pc = "in", ![t].heard = heard]
          /\ UNCHANGED clock
       \/ /\ content[t].mem = None
          /\ clock' = clock + 1
          /\ content' = [content EXCEPT ![t].pc = "in", ![t].heard = heard,
                ![t].mem = [room |-> content[t].room, private |-> private,
                            startedAt |-> clock + 1, words |-> 0, crowd |-> FALSE]]
    /\ UNCHANGED <<session, written, history, pending, disk, worker, starts, ghosts>>

Capture(t) ==
    /\ content[t].pc = "in"
    /\ content[t].mem.words < MaxWords
    /\ content' = [content EXCEPT ![t].mem.words = @ + 1]
    /\ UNCHANGED <<store, disk, worker, clock, starts, ghosts>>

(* A second attendee is seen. *)
Attend(t) ==
    /\ content[t].pc = "in"
    /\ content' = [content EXCEPT ![t].mem.crowd = TRUE]
    /\ UNCHANGED <<store, disk, worker, clock, starts, ghosts>>

SetPrivate(t, private) ==
    /\ content[t].pc = "in"
    /\ content' = [content EXCEPT ![t].mem.private = private]
    /\ UNCHANGED <<store, disk, worker, clock, starts, ghosts>>

Wipe(t) ==
    /\ WipesEnabled
    /\ content[t].pc = "in"
    /\ content' = [content EXCEPT ![t].mem.words = 0]
    /\ UNCHANGED <<store, disk, worker, clock, starts, ghosts>>

WriteSessionLate(t) ==   \* deviation: the writer is not closed when the meeting ends
    /\ content[t].pc \in {"in", "sealed", "ended"}
    /\ session' = [session EXCEPT ![t] = content[t].mem]
    /\ UNCHANGED <<written, history, pending, activeTabs, disk, content, worker, clock, starts,
                   ghosts>>

(* The debounced writer lands the object as it stands. *)
WriteSession(t) ==
    /\ content[t].pc = "in"
    /\ session' = [session EXCEPT ![t] = content[t].mem]
    /\ UNCHANGED <<written, history, pending, activeTabs, disk, content, worker, clock, starts,
                   ghosts>>

(* endMeeting up to writer.close(): the last snapshot is in storage and      *)
(* nothing this script does will write the key again.                        *)
EndMeeting(t) ==
    /\ content[t].pc = "in"
    /\ SavesMayOutlastMeeting \/ saves[t].pc = "idle"
    /\ session' = [session EXCEPT ![t] = content[t].mem]
    /\ content' = [content EXCEPT ![t].pc = "sealed"]
    /\ UNCHANGED <<written, history, pending, activeTabs, disk, worker, clock, starts, ghosts>>

(* The finalize's channel closed: the session goes over the relay instead,   *)
(* which writes the key before it finalizes.                                 *)
RelaySession(t) ==
    /\ content[t].pc = "lost"
    /\ session' = [session EXCEPT ![t] = content[t].mem]
    /\ content' = [content EXCEPT ![t].pc = "relaying"]
    /\ UNCHANGED <<written, history, pending, activeTabs, disk, worker, clock, starts, ghosts>>

(* What the page does with the answer it was waiting for. *)
Answer(c) == IF c.pc = "evicting" THEN [c EXCEPT !.pc = "lobby"] ELSE NoPage("idle")

Reply(t, who) ==
    content' = IF who = "page" THEN [content EXCEPT ![t] = Answer(@)] ELSE content

SeverUnseen(c) == c   \* deviation: a closed channel goes unnoticed

(* What it does when the channel closes under it. *)
Sever(c) ==
    CASE c.pc = "ended"                   -> [c EXCEPT !.pc = "lost"]
      [] c.pc = "evicting"                -> [c EXCEPT !.pc = "lobby"]
      [] c.pc \in {"relaying", "relayed"} -> NoPage("idle")
      [] OTHER                            -> c

(* A page that is torn down no longer hears any answer. *)
Unheard(x) == [x EXCEPT !.who = IF @ = "page" THEN "nobody" ELSE @]

Deafen(t) == dels' = {IF d.tab = t THEN Unheard(d) ELSE d : d \in dels}

(* A reload: the script dies, a new one starts on the same tab. *)
Reload(t) ==
    /\ content[t].pc \notin {"idle", "closed"}
    /\ content[t].pc \in {"ended", "evicting", "lost", "relaying", "relayed"} => ReloadsAfterLeave
    /\ SavesMayOutlastMeeting \/ saves[t].pc = "idle"
    /\ content' = [content EXCEPT ![t] = NoPage("idle")]
    /\ fin' = [fin EXCEPT ![t] = Unheard(@)]
    /\ Deafen(t)
    /\ UNCHANGED <<store, disk, saves, rec, clock, starts, ghosts>>

-------------------------------------------------------------------------------
(*                        Finalization (sessions.ts)                        *)

StartFinalize(t, who) ==
    fin' = [fin EXCEPT ![t] = [NoFin EXCEPT !.pc = "session", !.who = who]]

(* meetingEnded (or a final relay) reaches the worker.  A tab already being   *)
(* finalized answers at once, with nothing.                                  *)
MeetingEnded(t) ==
    /\ content[t].pc \in {"sealed", "stale", "relaying"}
    /\ LET asked == [content[t] EXCEPT !.pc =
                       CASE @ = "sealed" -> "ended" [] @ = "stale" -> "evicting"
                         [] OTHER        -> "relayed"]
       IN  IF fin[t].pc = "idle"
           THEN /\ StartFinalize(t, "page")
                /\ content' = [content EXCEPT ![t] = asked]
           ELSE /\ content' = [content EXCEPT ![t] = Answer(asked)]
                /\ UNCHANGED fin
    /\ UNCHANGED <<store, disk, dels, saves, rec, clock, starts, ghosts>>

CloseTabAgain(t) ==   \* deviation: a finalize already running is not a reason to wait
    /\ content[t].pc # "closed"
    /\ content' = [content EXCEPT ![t] = NoPage("closed")]
    /\ StartFinalize(t, "nobody")
    /\ Deafen(t)
    /\ UNCHANGED <<store, disk, saves, rec, clock, starts, ghosts>>

(* tabs.onRemoved *)
CloseTab(t) ==
    /\ content[t].pc # "closed"
    /\ SavesMayOutlastMeeting \/ saves[t].pc = "idle"
    /\ content' = [content EXCEPT ![t] = NoPage("closed")]
    /\ IF fin[t].pc = "idle" THEN StartFinalize(t, "nobody")
                             ELSE fin' = [fin EXCEPT ![t] = Unheard(@)]
    /\ Deafen(t)
    /\ UNCHANGED <<store, disk, saves, rec, clock, starts, ghosts>>

FinReadSession(t) ==
    /\ fin[t].pc = "session"
    /\ fin' = [fin EXCEPT ![t].pc = IF session[t] = None THEN "untrackOnly" ELSE "written",
                          ![t].s  = session[t]]
    /\ UNCHANGED <<store, disk, content, dels, saves, rec, clock, starts, ghosts>>

(* Reads what a save already wrote, then the settings, and decides: nothing   *)
(* happened, a capture failure, or a meeting.                                *)
FinReadWritten(t) ==
    /\ fin[t].pc = "written"
    /\ LET s == fin[t].s
           m == SessionToMeeting(s, clock + 1, clock + 1)
       IN  IF Empty(s) /\ ~s.crowd
           THEN /\ fin' = [fin EXCEPT ![t].pc = "remove", ![t].w = written[t]]
                /\ UNCHANGED clock
           ELSE /\ clock' = clock + 1
                /\ \E merge \in MergeModes :
                     fin' = [fin EXCEPT ![t].pc = IF Empty(s) THEN "append" ELSE "commit",
                                        ![t].w = written[t], ![t].m = m, ![t].merge = merge]
    /\ UNCHANGED <<store, disk, content, dels, saves, rec, starts, ghosts>>

VisitsOf(m) == {m.visits[i].startedAt : i \in DOMAIN m.visits}

(* addMeeting, and the appending half of commitFinalizedMeeting. *)
AppendToHistory(m) ==
    /\ history' = AppendWithRetention(history, m, Retention)
    /\ gone' = gone \cup UNION {VisitsOf(history[i]) :
                  i \in {j \in DOMAIN history : j + Retention <= Len(history) + 1}}

FinAppendFailure(t) ==
    /\ fin[t].pc = "append"
    /\ AppendToHistory(fin[t].m)
    /\ fin' = [fin EXCEPT ![t].pc = "remove"]
    /\ UNCHANGED <<session, written, pending, activeTabs, disk, content, dels, saves, rec,
                   clock, starts, exported>>

FinCommit(t) ==
    /\ fin[t].pc = "commit"
    /\ \/ /\ fin[t].merge
          /\ \E i \in DOMAIN history :
               /\ NewestTarget(history, fin[t].m, i)
               /\ LET stored == MergeMeetings(history[i], fin[t].m)
                  IN  /\ history' = [history EXCEPT ![i] = stored]
                      /\ fin' = [fin EXCEPT ![t].pc = "mark", ![t].m = stored]
          /\ UNCHANGED gone
       \/ /\ ~(fin[t].merge /\ Mergeable(history, fin[t].m))
          /\ AppendToHistory(fin[t].m)
          /\ fin' = [fin EXCEPT ![t].pc = "mark"]
    /\ UNCHANGED <<session, written, pending, activeTabs, disk, content, dels, saves, rec,
                   clock, starts, exported>>

FinMarkUntracking(t) ==   \* deviation: untracked before the session key is gone
    /\ fin[t].pc = "mark"
    /\ pending' = pending \cup {fin[t].m.id}
    /\ activeTabs' = activeTabs \ {t}
    /\ fin' = [fin EXCEPT ![t].pc = "remove"]
    /\ UNCHANGED <<session, written, history, disk, content, dels, saves, rec,
                   clock, starts, ghosts>>

FinMarkNothing(t) ==   \* deviation: nothing is marked
    /\ fin[t].pc = "mark"
    /\ fin' = [fin EXCEPT ![t].pc = "remove"]
    /\ UNCHANGED <<store, disk, content, dels, saves, rec, clock, starts, ghosts>>

(* addPendingExport, before the session key goes. *)
FinMark(t) ==
    /\ fin[t].pc = "mark"
    /\ pending' = pending \cup {fin[t].m.id}
    /\ fin' = [fin EXCEPT ![t].pc = "remove"]
    /\ UNCHANGED <<session, written, history, activeTabs, disk, content, dels, saves, rec,
                   clock, starts, ghosts>>

FinRemoveSession(t) ==   \* deviation: the record of what a save wrote is left behind
    /\ fin[t].pc = "remove"
    /\ session' = [session EXCEPT ![t] = None]
    /\ fin' = [fin EXCEPT ![t].pc = "untrack"]
    /\ UNCHANGED <<written, history, pending, activeTabs, disk, content, dels, saves, rec,
                   clock, starts, ghosts>>

FinRemove(t) ==
    /\ fin[t].pc = "remove"
    /\ session' = [session EXCEPT ![t] = None]
    /\ written' = [written EXCEPT ![t] = None]
    /\ fin' = [fin EXCEPT ![t].pc = "untrack"]
    /\ UNCHANGED <<history, pending, activeTabs, disk, content, dels, saves, rec,
                   clock, starts, ghosts>>

(* untrackTab, the return, and what the caller does with the result: the      *)
(* recovery collects it, anyone else delivers a meeting that has a transcript. *)
FinUntrack(t) ==
    /\ fin[t].pc \in {"untrack", "untrackOnly"}
    /\ activeTabs' = activeTabs \ {t}
    /\ fin' = [fin EXCEPT ![t] = NoFin]
    /\ LET f == fin[t]
           deliverable == f.m # None /\ ~Failure(f.m)
       IN  CASE f.who = "recovery" ->
                  /\ rec' = [rec EXCEPT !.pc = "scan",
                       !.results = IF deliverable THEN @ \cup {[m |-> f.m, w |-> f.w]} ELSE @]
                  /\ UNCHANGED <<dels, content>>
             [] f.who # "recovery" /\ deliverable ->
                  /\ dels' = dels \cup {[tab |-> t, who |-> f.who, m |-> f.m, w |-> f.w,
                                         pc |-> "download"]}
                  /\ UNCHANGED <<rec, content>>
             [] f.who # "recovery" /\ ~deliverable ->
                  /\ Reply(t, f.who)
                  /\ UNCHANGED <<rec, dels>>
    /\ UNCHANGED <<session, written, history, pending, disk, saves, clock, starts, ghosts>>

(* A storage call of the finalization rejects: the tab stays tracked, the     *)
(* session stays where it is, and the start-up recovery gives up altogether.  *)
FinThrow(t) ==
    /\ StorageMayFail
    /\ fin[t].pc # "idle"
    /\ fin' = [fin EXCEPT ![t] = NoFin]
    /\ Reply(t, fin[t].who)
    /\ rec' = IF fin[t].who = "recovery" THEN NoRec ELSE rec
    /\ UNCHANGED <<store, disk, dels, saves, clock, starts, ghosts>>

-------------------------------------------------------------------------------
(*                      Delivery (index.ts, export.ts)                      *)

DownloadBeside(m, w) ==   \* deviation: what a save already wrote is ignored
    /\ disk' = Put(disk, PathOf(m), Overwrites(m, None), FinalBody(m))
    /\ exported' = exported \cup {FinalBody(m)}

(* downloadMeeting *)
Download(m, w) ==
    /\ disk' = Put(disk, PathOf(m), Overwrites(m, w), FinalBody(m))
    /\ exported' = exported \cup {FinalBody(m)}

DeliverFile(d) ==
    /\ d.pc = "download"
    /\ Download(d.m, d.w)
    /\ dels' = (dels \ {d}) \cup {[d EXCEPT !.pc = "clear"]}
    /\ UNCHANGED <<store, content, fin, saves, rec, clock, starts, gone>>

DeliverClear(d) ==
    /\ d.pc = "clear"
    /\ pending' = pending \ {d.m.id}
    /\ dels' = dels \ {d}
    /\ Reply(d.tab, d.who)
    /\ UNCHANGED <<session, written, history, activeTabs, disk, fin, saves, rec, clock, starts,
                   ghosts>>

DeliverFailCleared(d) ==   \* deviation: the mark is cleared whatever became of the file
    /\ DownloadsMayFail
    /\ d.pc = "download"
    /\ pending' = pending \ {d.m.id}
    /\ dels' = dels \ {d}
    /\ Reply(d.tab, d.who)
    /\ UNCHANGED <<session, written, history, activeTabs, disk, fin, saves, rec, clock, starts,
                   ghosts>>

(* The download rejects, or the clearing of the mark: it stays for the next    *)
(* start.                                                                    *)
DeliverFail(d) ==
    /\ \/ DownloadsMayFail /\ d.pc = "download"
       \/ StorageMayFail /\ d.pc = "clear"
    /\ dels' = dels \ {d}
    /\ Reply(d.tab, d.who)
    /\ UNCHANGED <<store, disk, fin, saves, rec, clock, starts, ghosts>>

-------------------------------------------------------------------------------
(*                    Mid-meeting save (index.ts snapshotNow)               *)

SaveStart(t) ==
    /\ SavesEnabled
    /\ content[t].pc = "in"
    /\ saves[t].pc = "idle"
    /\ session[t] # None
    /\ ~Empty(session[t])
    /\ saves' = [saves EXCEPT ![t] = [NoSave EXCEPT !.pc = "resolve", !.s = session[t]]]
    /\ UNCHANGED <<store, disk, content, fin, dels, rec, clock, starts, ghosts>>

(* resolveSnapshot: folded into the visit a finalize would fold into now. *)
SaveResolve(t) ==
    /\ saves[t].pc = "resolve"
    /\ LET partial == SessionToMeeting(saves[t].s, 0, clock)
       IN  \/ /\ TRUE \in MergeModes
              /\ \E i \in DOMAIN history :
                   /\ NewestTarget(history, partial, i)
                   /\ saves' = [saves EXCEPT ![t].pc = "written",
                                             ![t].m = MergeMeetings(history[i], partial)]
           \/ /\ FALSE \in MergeModes \/ ~Mergeable(history, partial)
              /\ saves' = [saves EXCEPT ![t].pc = "written", ![t].m = partial]
    /\ UNCHANGED <<store, disk, content, fin, dels, rec, clock, starts, ghosts>>

SaveReadWritten(t) ==
    /\ saves[t].pc = "written"
    /\ saves' = [saves EXCEPT ![t].pc = "download", ![t].w = written[t]]
    /\ UNCHANGED <<store, disk, content, fin, dels, rec, clock, starts, ghosts>>

(* downloadSnapshot *)
SaveDownload(t) ==
    /\ saves[t].pc = "download"
    /\ LET m == saves[t].m
       IN  disk' = Put(disk, PathOf(m), Overwrites(m, saves[t].w), PartialBody(m))
    /\ saves' = [saves EXCEPT ![t].pc = "record"]
    /\ UNCHANGED <<store, content, fin, dels, rec, clock, starts, ghosts>>

SaveFail(t) ==
    /\ SavesMayFail
    /\ saves[t].pc = "download"
    /\ saves' = [saves EXCEPT ![t] = NoSave]
    /\ UNCHANGED <<store, disk, content, fin, dels, rec, clock, starts, ghosts>>

SaveRecordMeeting(t) ==   \* deviation: the meeting is recorded, not its path
    /\ saves[t].pc = "record"
    /\ written' = [written EXCEPT ![t] = saves[t].m]
    /\ saves' = [saves EXCEPT ![t] = NoSave]
    /\ UNCHANGED <<session, history, pending, activeTabs, disk, content, fin, dels, rec,
                   clock, starts, ghosts>>

SaveRecord(t) ==
    /\ saves[t].pc = "record"
    /\ written' = [written EXCEPT ![t] = PathOf(saves[t].m)]
    /\ saves' = [saves EXCEPT ![t] = NoSave]
    /\ UNCHANGED <<session, history, pending, activeTabs, disk, content, fin, dels, rec,
                   clock, starts, ghosts>>

-------------------------------------------------------------------------------
(*                   Start-up recovery (sessions.ts, index.ts)              *)

RecReadKeys ==
    /\ rec.pc = "keys"
    /\ rec' = [rec EXCEPT !.pc = "scan", !.todo = {t \in Tabs : session[t] # None}]
    /\ UNCHANGED <<store, disk, content, fin, dels, saves, clock, starts, ghosts>>

RecScanUntracked(t) ==   \* deviation: a tracked tab is taken for a live one
    /\ rec.pc = "scan"
    /\ t \in rec.todo
    /\ IF content[t].pc = "closed" /\ fin[t].pc = "idle" /\ t \notin activeTabs
       THEN /\ StartFinalize(t, "recovery")
            /\ rec' = [rec EXCEPT !.pc = "await", !.todo = @ \ {t}]
       ELSE /\ rec' = [rec EXCEPT !.todo = @ \ {t}]
            /\ UNCHANGED fin
    /\ UNCHANGED <<store, disk, content, dels, saves, clock, starts, ghosts>>

(* One stored session: finalized if its tab is confirmably gone and nobody    *)
(* else is finalizing it.                                                    *)
RecScan(t) ==
    /\ rec.pc = "scan"
    /\ t \in rec.todo
    /\ IF content[t].pc = "closed" /\ fin[t].pc = "idle"
       THEN /\ StartFinalize(t, "recovery")
            /\ rec' = [rec EXCEPT !.pc = "await", !.todo = @ \ {t}]
       ELSE /\ rec' = [rec EXCEPT !.todo = @ \ {t}]
            /\ UNCHANGED fin
    /\ UNCHANGED <<store, disk, content, dels, saves, clock, starts, ghosts>>

RecScanned ==
    /\ rec.pc = "scan"
    /\ rec.todo = {}
    /\ rec' = [rec EXCEPT !.pc = "deliver"]
    /\ UNCHANGED <<store, disk, content, fin, dels, saves, clock, starts, ghosts>>

(* The collected results are delivered one after the other ... *)
RecDeliver ==
    /\ rec.pc = "deliver"
    /\ \E r \in rec.results :
         rec' = [rec EXCEPT !.pc = "save", !.then = "deliver", !.results = @ \ {r},
                            !.id = r.m.id, !.m = r.m, !.w = r.w]
    /\ UNCHANGED <<store, disk, content, fin, dels, saves, clock, starts, ghosts>>

RecListNothing ==   \* deviation: the recovery stops after the orphans
    /\ rec.pc = "deliver"
    /\ rec.results = {}
    /\ rec' = [rec EXCEPT !.pc = "next"]
    /\ UNCHANGED <<store, disk, content, fin, dels, saves, clock, starts, ghosts>>

(* ... and then everything still marked pending is exported again. *)
RecListPending ==
    /\ rec.pc = "deliver"
    /\ rec.results = {}
    /\ rec' = [rec EXCEPT !.pc = "next", !.ids = pending]
    /\ UNCHANGED <<store, disk, content, fin, dels, saves, clock, starts, ghosts>>

(* getMeeting: an id history no longer has goes straight to being cleared. *)
RecNext ==
    /\ rec.pc = "next"
    /\ \E id \in rec.ids :
         \/ \E i \in DOMAIN history :
              /\ history[i].id = id
              /\ rec' = [rec EXCEPT !.pc = "save", !.then = "next", !.ids = @ \ {id},
                                    !.id = id, !.m = history[i], !.w = None]
         \/ /\ \A i \in DOMAIN history : history[i].id # id
            /\ rec' = [rec EXCEPT !.pc = "clear", !.then = "next", !.ids = @ \ {id},
                                  !.id = id, !.m = None, !.w = None]
    /\ UNCHANGED <<store, disk, content, fin, dels, saves, clock, starts, ghosts>>

RecSave ==
    /\ rec.pc = "save"
    /\ Download(rec.m, rec.w)
    /\ rec' = [rec EXCEPT !.pc = "clear"]
    /\ UNCHANGED <<store, content, fin, dels, saves, clock, starts, gone>>

(* One rejected download or storage call ends the whole recovery. *)
RecFail ==
    /\ \/ DownloadsMayFail /\ rec.pc = "save"
       \/ StorageMayFail /\ rec.pc \in {"keys", "next", "clear"}
    /\ rec' = NoRec
    /\ UNCHANGED <<store, disk, content, fin, dels, saves, clock, starts, ghosts>>

RecClear ==
    /\ rec.pc = "clear"
    /\ pending' = pending \ {rec.id}
    /\ rec' = [rec EXCEPT !.pc = rec.then]
    /\ UNCHANGED <<session, written, history, activeTabs, disk, content, fin, dels, saves,
                   clock, starts, ghosts>>

RecDone ==
    /\ rec.pc = "next"
    /\ rec.ids = {}
    /\ rec' = NoRec
    /\ UNCHANGED <<store, disk, content, fin, dels, saves, clock, starts, ghosts>>

-------------------------------------------------------------------------------
(*                     The worker's life, and the user                      *)

Quiet ==
    /\ \A t \in Tabs : fin[t].pc = "idle" /\ saves[t].pc = "idle"
    /\ dels = {}
    /\ rec.pc = "off"

Reboot ==
    /\ starts < MaxStarts
    /\ starts' = starts + 1
    /\ fin' = [t \in Tabs |-> NoFin]
    /\ dels' = {}
    /\ saves' = [t \in Tabs |-> NoSave]
    /\ rec' = NewRec

(* The worker is stopped and started again by the next event; asleep, it had  *)
(* nothing under way.                                                        *)
Restart ==
    /\ WorkerMayDieBusy \/ Quiet
    /\ Reboot
    /\ content' = [t \in Tabs |-> Sever(content[t])]
    /\ UNCHANGED <<store, disk, clock, ghosts>>

(* onUpdateAvailable: reload at once unless a tab is recording. *)
UpdateAvailable ==
    /\ activeTabs = {}
    /\ Reboot
    /\ content' = [t \in Tabs |-> Sever(content[t])]
    /\ UNCHANGED <<store, disk, clock, ghosts>>

BrowserCrash ==
    /\ WorkerMayDieBusy
    /\ Reboot
    /\ content' = [t \in Tabs |-> NoPage("closed")]
    /\ UNCHANGED <<store, disk, clock, ghosts>>

DeleteMeeting(i) ==
    /\ DeletesEnabled
    /\ history' = SubSeq(history, 1, i - 1) \o SubSeq(history, i + 1, Len(history))
    /\ gone' = gone \cup VisitsOf(history[i])
    /\ UNCHANGED <<session, written, pending, activeTabs, disk, content, worker, clock,
                   starts, exported>>

Page(t) ==
    \/ \E r \in Rooms : ReadPrevious(t, r)
    \/ LeaveLobby(t)
    \/ \E private \in Privacies, heard \in BOOLEAN : Join(t, private, heard)
    \/ Capture(t)
    \/ Attend(t)
    \/ \E private \in Privacies : SetPrivate(t, private)
    \/ Wipe(t)
    \/ WriteSession(t)
    \/ EndMeeting(t)
    \/ RelaySession(t)
    \/ Reload(t)
    \/ CloseTab(t)

Finalization(t) ==
    \/ FinReadSession(t)
    \/ FinReadWritten(t)
    \/ FinAppendFailure(t)
    \/ FinCommit(t)
    \/ FinMark(t)
    \/ FinRemove(t)
    \/ FinUntrack(t)

Deliver(d) == DeliverFile(d) \/ DeliverClear(d)

Saving(t) ==
    \/ SaveResolve(t)
    \/ SaveReadWritten(t)
    \/ SaveDownload(t)
    \/ SaveRecord(t)

Recovery ==
    \/ RecReadKeys
    \/ \E t \in Tabs : RecScan(t)
    \/ RecScanned
    \/ RecDeliver
    \/ RecListPending
    \/ RecNext
    \/ RecSave
    \/ RecClear
    \/ RecDone

Failures ==
    \/ \E t \in Tabs : FinThrow(t) \/ SaveFail(t)
    \/ \E d \in dels : DeliverFail(d)
    \/ RecFail
    \/ Restart
    \/ UpdateAvailable
    \/ BrowserCrash

Next ==
    \/ \E t \in Tabs : Page(t) \/ MeetingEnded(t) \/ Finalization(t) \/ SaveStart(t) \/ Saving(t)
    \/ \E d \in dels : Deliver(d)
    \/ Recovery
    \/ Failures
    \/ \E i \in DOMAIN history : DeleteMeeting(i)

Spec == Init /\ [][Next]_vars

(* The worker carries on with whatever it has begun; pages and users need not. *)
Fairness ==
    /\ \A t \in Tabs : WF_vars(Finalization(t)) /\ WF_vars(MeetingEnded(t))
    /\ WF_vars(\E d \in dels : Deliver(d))
    /\ WF_vars(Recovery)

FairSpec == Spec /\ Fairness

-------------------------------------------------------------------------------

(* Every variable keeps its shape, and every page and unit of background work   *)
(* is in a phase the code has, with what that phase is about to use.            *)
TypeOK ==
    /\ session \in [Tabs -> Session \cup {None}]
    /\ written \in [Tabs -> Path \cup {None}]
    /\ history \in Seq(Meeting)
    /\ pending \subseteq Nat
    /\ activeTabs \subseteq Tabs
    /\ \A p \in DOMAIN disk : p \in Path /\ disk[p] \in Seq(Body)
    /\ content \in [Tabs -> Content]
    /\ fin \in [Tabs -> Fin]
    /\ dels \subseteq Delivery
    /\ saves \in [Tabs -> Save]
    /\ rec \in Rec
    /\ clock \in Nat
    /\ starts \in Nat
    /\ exported \subseteq Body
    /\ gone \subseteq Nat

-------------------------------------------------------------------------------
(*                                Properties                                *)

(* History holds all of what session x captured, or held it until retention   *)
(* or the user removed it.                                                   *)
Kept(x, h, g) == x.startedAt \in g \/ \E i \in DOMAIN h : Holds(h[i], x.startedAt, x.words)

(* A session key holding captured words is only ever removed once history     *)
(* holds those words (sessions.ts: commit, mark, then remove), whatever stops *)
(* or fails in between.                                                      *)
RemovedOnlyWhenKept ==
    [][\A t \in Tabs :
         session[t] # None /\ ~Empty(session[t]) /\ session'[t] = None
            => Kept(session[t], history', gone')]_vars

(* One meeting's session never overwrites another's before history holds it    *)
(* (meet.ts finalizes a different room's session before it joins).            *)
ReplacedOnlyWhenKept ==
    [][\A t \in Tabs :
         (/\ session[t] # None /\ ~Empty(session[t])
          /\ session'[t] # None /\ session'[t].startedAt # session[t].startedAt)
            => Kept(session[t], history', gone')]_vars

(* The update guard (index.ts onUpdateAvailable) sees every tab that is        *)
(* recording and once told it so, or that has stopped and whose session is not  *)
(* yet in history: no finalization of an earlier meeting, of a stale session or  *)
(* by the recovery untracks it meanwhile.  A tab whose meetingStarted failed     *)
(* records untracked (meet.ts ignores the answer).                            *)
Tracked ==
    \A t \in Tabs :
        content[t].heard /\ (\/ content[t].pc \in {"in", "sealed"}
                             \/ content[t].pc = "ended" /\ session[t] # None)
            => t \in activeTabs

(* While a finalization is under way its session is its own: what it read is    *)
(* what is stored until it removes it, and no page is left that would write     *)
(* the key again (meet.ts closes the writer before it sends meetingEnded).     *)
FinalizeOwnsSession ==
    \A t \in Tabs :
        /\ content[t].pc \in {"in", "sealed", "lost"} => fin[t].pc = "idle"
        /\ fin[t].pc \in {"written", "append", "commit", "mark", "remove"}
              => session[t] # None /\ session[t] = fin[t].s
        /\ fin[t].pc \in {"untrack", "untrackOnly"} => session[t] = None

(* From the moment a finalization has its meeting, the words are in its hands,  *)
(* and from the commit on in history's.                                       *)
WordsChangeHands ==
    \A t \in Tabs :
        LET f == fin[t]
        IN  /\ f.pc \in {"append", "commit"} => Holds(f.m, f.s.startedAt, f.s.words)
            /\ f.pc \in {"mark", "remove"} => Empty(f.s) \/ Kept(f.s, history, gone)

(* Whoever finalizes, the words are in somebody's hands on their way from the   *)
(* session key to history: the inductive form of RemovedOnlyWhenKept.           *)
Custody == FinalizeOwnsSession /\ WordsChangeHands

(* No visit reaches history twice, neither as two meetings nor as two visits   *)
(* of one: a finalize runs exactly once per session.                          *)
CommittedOnce ==
    \A i, j \in DOMAIN history :
        \A k \in DOMAIN history[i].visits, l \in DOMAIN history[j].visits :
            history[i].visits[k].startedAt = history[j].visits[l].startedAt
                => i = j /\ k = l

(* A pending-export mark is only cleared once a file of that meeting has been  *)
(* confirmed, or history no longer has the meeting (store.ts, index.ts).      *)
ClearedOnlyWhenExported ==
    [][\A id \in pending \ pending' :
         \/ \E b \in exported : b.id = id
         \/ \A i \in DOMAIN history : history[i].id # id]_vars

(* The words of meeting i have been exported, or something that survives the    *)
(* worker still says they must be: a pending mark, or the session key itself.  *)
ExportRemembered(i) ==
    \A k \in DOMAIN history[i].visits :
        LET v == history[i].visits[k]
            Has(m) == Holds(m, v.startedAt, v.words)
        IN  \/ v.words = 0
            \/ v.startedAt \in gone
            \/ \E b \in exported : Has(b)
            \/ \E j \in DOMAIN history : history[j].id \in pending /\ Has(history[j])
            \/ \E t \in Tabs : session[t] # None /\ session[t].startedAt = v.startedAt

(* Stopping the worker between a commit and its download cannot skip the        *)
(* export of any committed meeting (store.ts PENDING_EXPORTS_KEY).             *)
ExportTrail == \A i \in DOMAIN history : ExportRemembered(i)

(* The same of the meetings whose visit no merged meeting holds, not even a      *)
(* finalization that was done over.                                          *)
UnmergedExportTrail ==
    \A i \in DOMAIN history :
        \/ \E j \in DOMAIN history :
             Merged(history[j]) /\ VisitsOf(history[i]) \cap VisitsOf(history[j]) # {}
        \/ ExportRemembered(i)

(* No file without a word in it is ever written. *)
NoEmptyFile ==
    \A p \in DOMAIN disk : \A k \in DOMAIN disk[p] :
        \E i \in DOMAIN disk[p][k].visits : disk[p][k].visits[i].words > 0

(* Once the start-up recovery is over, a file only ever grows: rewriting it     *)
(* never loses what it held (snapshot.ts and export.ts fold both the save and   *)
(* the final file into the same earlier visits).                             *)
OnlyGrows ==
    [][rec.pc = "off" =>
         \A p \in DOMAIN disk : \A k \in DOMAIN disk[p] : Covers(disk'[p][k], disk[p][k])]_vars

(* A partial file belongs to a meeting still being recorded, or the complete   *)
(* transcript that replaces it is on its way.                                *)
PartialIsReplaced ==
    \A p \in DOMAIN disk : \A k \in DOMAIN disk[p] :
        LET f == disk[p][k]
            v == f.visits[Len(f.visits)].startedAt
        IN  \/ f.final
            \/ \E t \in Tabs : session[t] # None /\ session[t].startedAt = v
            \/ \E t \in Tabs : fin[t].m # None /\ Holds(fin[t].m, v, 0)
            \/ \E d \in dels : d.pc = "download" /\ Holds(d.m, v, 0)

(* The record of what a save wrote goes with the session it was for, so the     *)
(* next meeting in the tab does not take over its file.                        *)
RecordDiesWithSession == \A t \in Tabs : written[t] # None => session[t] # None

(* Pending exports never pile up for good: what one life of the worker leaves   *)
(* behind, the start-up recovery of the next one downloads.                    *)
PendingIsSettled == []<>(pending = {})

(* The session of a tab that is gone is finalized, by onRemoved or by the      *)
(* start-up recovery.                                                        *)
OrphanIsFinalized ==
    \A t \in Tabs :
        (content[t].pc = "closed" /\ session[t] # None) ~> session[t] = None

(* A page that ended its meeting is answered, or told that nobody will: its     *)
(* watch loop never hangs, so the tab goes on recording later meetings.        *)
EndIsAnswered == \A t \in Tabs : content[t].pc = "ended" ~> content[t].pc # "ended"
===============================================================================
