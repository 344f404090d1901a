# A TLA+ model of Platica Notes

Platica Notes is a browser extension that transcribes Google Meet calls into Markdown
files. It has no server: one content script per Meet tab captures a meeting into a
*session* kept in `chrome.storage.local`, and a service worker turns the session into a
stored *meeting* and a file in Downloads. Chrome stops the worker whenever it is idle,
kills the content script's `chrome.*` handle when the extension updates, and gives no
notice of either. The promise that has to survive all of that is simple to state: **what was
captured is kept, once, in one file that only grows.** This directory states that promise
precisely, model-checks it, and proves its core.

Paths below are relative to the repository (`src/content/...` is the extension's source
directory `src/`).

## 1. Inventory

| component | state it keeps | operations | talks to |
|---|---|---|---|
| Service-worker entry, `background/index.ts` | nothing that outlives it | the message handlers, `onRemoved`, `onUpdateAvailable`, start-up recovery, `deliver`, `snapshotNow` | everything below |
| Finalization, `background/sessions.ts` | `finalizing` (in memory), the tracked tabs and the session keys (storage) | `trackTab`, `untrackTab`, `finalizeSession`, `recoverOrphans` | store |
| Store, `background/store.ts` | `meetings`, `pendingExports` | add, commit with merge, delete, add and clear a mark; one promise queue | `chrome.storage` |
| Merge and snapshot, `merge.ts`, `snapshot.ts` | none | `shouldMerge`, `mergeMeetings`, `isCaptureFailure`, `resolveSnapshot` | |
| Export, `background/export.ts`, `format.ts` | the Downloads folder | `downloadMeeting`, `downloadSnapshot` and the logs | `filename-guard.ts` |
| Session writer, `content/core/persistence.ts` | timer, pending request, promise chain, transport in use | `requestWrite`, `writeNow`, `close`, failover, `seal` | storage, or the page and the worker |
| Meet adapter, `content/platforms/meet.ts`, `meet-lifecycle.ts` | the live session object, presence, capture health, the end-of-meeting watch | join, capture, wipe, save, end, hand over the relay | the writer, the RTC script, the worker |
| RTC capture, `content/meet-rtc/*` | subscriptions, the captions channel and its watchdog, decode queues, per-device caption state | intercept channels, decode, emit captions, chat, roster | the adapter, by `postMessage` |
| Chat deduplication, timeline, `core/collector.ts`, `shared/transcript.ts` | known texts, key aliases | fold a message, build the timeline | the adapter |
| Settings, `shared/storage.ts` | the settings object | load, save a patch | pages, worker |
| Pages and in-meeting UI | views | delete a meeting, download again, save now | the worker |

The components meet in three places. **`chrome.storage.local`** is shared by all: the content
script writes `session_<tab>`, the worker reads and removes it, and nothing locks it.
**Messages** (`meetingStarted`, `meetingEnded`, `snapshotMeeting`, the relayed
`relaySnapshot` and `relayFinalize`) each may find the worker gone, or be cut off by its
stopping. **Browser events** (`onRemoved`, `onUpdateAvailable`, start-up) come at any
time, also in the middle of another handler at an `await`.

What is hard here, and hardly reached by the repository's unit tests:

* *crash and restart*: a stop between any two awaits of finalize, delivery or recovery;
* *interleaving*: `onRemoved`, `meetingEnded` and the start-up scan after the same session; a
  save next to a finalize; a recovery next to a rejoin;
* *ordering*: two transports for one key, a debounce timer against a final write, captions
  decoded asynchronously on several channels;
* *partial failure*: a storage call or a download that rejects half-way;
* *stale state*: a session read before the wait in the lobby and resumed after it; the
  tracked tabs read by the update guard;
* *liveness*: the page waits for an answer, the writer for a lost acknowledgement.

`PROJECT.json` lists each of these as a hazard at its line, with the properties that cover it.

Per component, correctness means: **finalization** - no captured word leaves the session key
before history has it, nothing is committed twice while the worker lives, the guard sees every tab it heard of that
still matters; **store** - marks are cleared only for what was exported, and are settled in the
end; **merge and export** - a rejoin or a save replaces a file only by one that holds more;
**session writer** - an older snapshot never lands over a newer one, none is forgotten, nobody
waits for ever, the user knows when it stops; **capture** - a subscribed session has a
captions channel or a watchdog about to open one, in the language in force, and the adapter is told
the truth about both; **wire** - what Meet packed is dispatched, whole, once and in order, and
nothing else is; **feed** - a caption shows every word of its newest revision, however often it is
interrupted, and a chat message shows once over three transports; **watch loop** - a recording
follows the call: not started by a left-over icon, not cut short by a reconnect, not kept
waiting by the previous meeting; **presence and health** - markers, participants and the standing
notice say what is so; **filename guard** - a download gets its own name.

## 2. Modules

| module | models |
|---|---|
| `Meetings` | the pure part: sessions, meetings, visits, when a rejoin folds into an earlier visit, retention, file paths, uniquify and overwrite |
| `Background` | the service worker against storage, Downloads and the content scripts of several tabs |
| `MCBackground` | the symmetry of the tabs, for TLC |
| `BackgroundProofs` | type correctness of `Background`, and the custody of captured words |
| `HistoryProofs` | what becomes of a meeting from its session to its file: no session overwritten, committed twice or forgotten, no mark cleared early, no empty file |
| `FileProofs` | what becomes of the files: no write takes anything away from one, and a partial one is replaced |
| `LatestSnapshot` | the abstract register a session writer implements |
| `SessionWriter` | `persistence.ts`, its two transports and the adapter around it |
| `SessionWriterProofs` | its invariant, its safety properties, and that it implements `LatestSnapshot` |
| `CaptionsChannel` | the capture script against Meet's peer connections: adoption, subscriptions, the captions watchdog, language changes, what the adapter is told |
| `CaptureProofs` | its type correctness and its four invariants |
| `CaptionFeed` | caption frames through the decode queues, sniffing, and the captions of the feed |
| `ChatFeed` | chat over three transports into `ChatLog` |
| `RtcFeed`, `MCRtcFeed` | the two composed with pause, wipe and time; values for TLC |
| `MeetLoop` | the watch loop of a tab: lobby, end detection, tail, finalize, re-arming |
| `Presence` | roster, attendees, join and leave markers, participants |
| `CaptureHealth` | the watchdog of a meeting that captures nothing |
| `MeetAdapter`, `MCMeetAdapter` | the three composed: a meeting, its roster and its capture; values for TLC |
| `AdapterProofs` | the safety of the loop, of the notice, of the participants and of the markers |
| `WireDecoding` | the decoders and encoders of `proto.ts` and `identity.ts` |
| `WireReader` | the consumers of `main.ts` over them, with what Meet packs |
| `FilenameGuard` | the queue of names against Chrome's filename rounds |
| `FeedProofs` | the safety of the captions, their words, and the chat |
| `MCParts` | `WireReader` and `FilenameGuard` in one run |
| `PartsProofs` | that a frame is read as it was packed, with the lemmas about the decoders; the safety of the guard |

### Background

An action is the code between two awaits. The program counters name what the next piece of
code will do:

* `fin[t]` is the call of `finalizeSession(t)` under way; a tab whose counter is not `idle` is in
  the `finalizing` set. `session` reads the key, `written` reads the record of a save and the settings
  and decides, `append`, `commit` and `mark` are the store's critical sections, `remove` the
  removal of both keys, `untrack` the end. `who` is the caller, which decides what
  becomes of the result: a page waits for an answer, the recovery collects, nobody delivers.
* `dels` are the deliveries: `download`, then `clear` the pending mark.
* `saves[t]` is `snapshotNow`, `rec` the start-up recovery (orphans first, one after the other;
  their deliveries; then every mark).
* `content[t]` is the page, as far as the background can tell: `ReadPrevious` before the lobby,
  `Join`, captures, `WriteSession`, `EndMeeting` (up to `writer.close()`), `MeetingEnded`, and
  `RelaySession` when the answer's channel closed. `Join` sends `meetingStarted` and records whatever
  becomes of it: `heard` says whether the tab was tracked (`Track`). A storage call that rejects, a
  worker that stops in the middle and an update that took the script's context each leave it unheard.

`Restart`, `UpdateAvailable` and `BrowserCrash` lose all of `worker`; storage and Downloads stay.
Two ghosts observe: `exported` (bodies of finished files confirmed written) and `gone`
(visits which retention or the user removed).

Data is abstracted to what the properties tell apart. Words are counted per visit; a
visit is named by its start; the participants are a flag "at least two". Instants are the
values of a logical clock: two events are never at one instant, and `Minute` and
`MergeGap` say how many instants share a minute stamp or are within the merge gap.

### SessionWriter

A snapshot is the version of the session it was taken at. `chain` holds the links of the promise
chain not begun and `link` the one that has, with the transport it uses; a link takes its
snapshot when it begins, as `attempt(this.getSnapshot())` does. `Failover` keeps the link:
the same snapshot goes out over the relay inside the awaited promise. `wire` holds relayed
messages, first in first out, one of which may be answered late - after the page's timeout
has already settled the link. `Orphaned` is the update that severs `chrome.*`, `RelayGone` the
removal of the extension.

### CaptionsChannel

The environment opens and closes channels, fails connections, refuses sends and pushes languages;
`Timers` are the script's own: `trySubscribe`, `watchCaptionsChannel` and `resubscribeForCaptions`.
A media-session is an entry of `sessions` with its channel, so an entry can be pruned from
the list (`listed`) before its close event comes (`closing`). A captions channel has no state
besides its label, so the channels of a connection are counted: `live`, or `gone` with a
watchdog that has yet to notice. `sendSubscribe`, `resubscribeAll` and `resubscribeForCaptions`
share one body, `Subscribe`, which lets any of their sends throw, the subscribe itself or
an ack behind it, as the `try` blocks separate them. `asked` is what Meet was last asked for, and
`unsure` after a send that threw.

### The feed

`CaptionFeed` has Meet's texts, the frames on each channel and `captions`, the feed's state per
message. A text is a sequence of words, which is what `suffixAfter` compares (`normWord`). A
frame is dispatched in the step that decodes it: the queue of its channel makes the decoding
sequential, and channels interleave. `due` is a history of the newest revision the feed was owed;
owed is what came on a channel after its first caption, if that came within `SniffFrames`.
`ChatFeed` gives a message of the user's up to three copies, each with an id of its own
transport, and a sender that depends on what is known of the user at that moment. `RtcFeed`
composes them, with the toggle and the wipe.

### MeetAdapter

`MeetLoop` is `main`, `runMeeting` and `endMeeting` as one loop with a counter of its present wait:
`watching`, `draining` a tail, `entering` (the previous session is read), `evicting` it if it is another
meeting's, `joining` (the lobby), `starting` (`meetingStarted`, settings and token), `meeting`, `flushing`,
`finalizing`, `rearming`. The two storage reads can fail: for a lost context they give what they have, any
other error ends the loop (`Dies`, `dead`). A raw `chrome.*` call of the start that finds the context gone
is caught, and the loop arms again (`Orphaned`); an orphaned script meets no second one, because
it gets no token and arms no relay.
A tick is the 2 s of the end watcher; the other polls are much faster, so a wait that is over ends before
the next tick (`Due`), while answers of the background may take any time. The page is the
environment: its path, the leave icon, the media path and the call. `MeetKeepsUp` is what the code
presumes of Meet: in a call the icon is missed by fewer than `LeaveChecks` checks in a row
and the media path is down for less than `MediaGrace`; after it the icon goes within `Residue`.
The histories are `waited`, the ticks a call has gone unrecorded while neither storage nor the background
owed an answer (`Asked`), and `missed`, that the call
just left was too short to be recorded.

`Presence` gives a person a device per connection; `told` are those Meet has broadcast. Everything
that is meeting-scoped starts from the page's roster, which outlives meetings. `unsure` collects
the names whose markers need not tell who is present: seeded from a roster that
is out of date, changed while paused, or back within the settle window. `CaptureHealth` has the
script's `captureArmed` (`subscribed`), which outlives the meeting it was set in, the meeting's, and the notice. `MeetAdapter` conjoins their
actions where one handler does the work of several: `Started` with `PresenceStart` and
`HealthStart`, the end of a meeting with `PresenceEnds` and `HealthEnds`, the flush with `FinalSnapshot`.

### WireDecoding, WireReader and FilenameGuard

A frame is a tree of fields; a malformed field stands for the byte that makes `skip` throw. Each decoder says
what it returns of such a tree: which fields it takes, whether the first or the last or
all, and whether a malformed field costs the frame (`CleanAlong`) or only what follows it
(`UpToMalformed`). `WireReader` packs captions, rosters, chat and the user's own sends the way Meet
nests them, hands the frame to the consumer of its channel and compares what that dispatches
with what was packed. `FilenameGuard` has the queue of names, and Chrome's rounds in any order, with
the URL whole, cut short or mangled.

## 3. Runs

Deadlock checking is off in every run: all pages closed and nothing under way is a
legitimate end of the system, and bounds on joins, words and restarts end the others.

| run | shows | bounds |
|---|---|---|
| `BackgroundCrash` | with stops, crashes, rejected storage calls and downloads anywhere, and a `meetingStarted` that fails: `Tracked`, `Custody`, `UnmergedExportTrail`, `RemovedOnlyWhenKept`, `ClearedOnlyWhenExported` | 1 tab, 1 room, both privacies, merging on, 3 joins or ends, retention 2, 1 stop |
| `BackgroundSaves` | saves, which may fail, rejoins and a second room: `OnlyGrows`, `PartialIsReplaced`, `RecordDiesWithSession`, `NoEmptyFile`, `ReplacedOnlyWhenKept`, `TypeOK` | 1 tab, 2 rooms, 2 words, 5 instants |
| `BackgroundTabs` | two tabs in one room, wipes, deletions, closes that race finalizes: `CommittedOnce` | 2 tabs (symmetric), 1 room |
| `BackgroundProgress` | liveness with one stop: `PendingIsSettled`, `OrphanIsFinalized`, `EndIsAnswered` | 1 tab, 1 room, both privacies, merging on or off, 1 stop |
| `Writer` | everything about the writer, and `OnlyNewer`: it implements `LatestSnapshot` | 5 versions |
| `Capture` | the capture stays subscribed, in the right language, and the adapter is told the truth: `ServedLanguage`, `ArmedReachesAdapter`, `MediaCountIsTrue`, `CaptionsKept` | 2 connections, 2 media-sessions, 2 languages, 3 events of the environment |
| `Feed` | `NoWordLost`, `NoWordTwice`, `NewestHeld`, `ShownOnce`, `TheirsKept`, `OwnKept` | 2 speakers, 2 channels, one to be sniffed; 5 revisions or 4 chat copies |
| `Adapter` | `FollowsTheCall`, `RecordedSoon`, `MarkersTell`, `SpeakersAreListed`, `NoticeTells` | 2 paths, 2 people of whom one has 2 devices, 4 moves, 3 dips of icon or media, 1 lost context or failed read |
| `Parts` | `ReadAsPacked`, `ItsOwnName` | frames of up to 2 records or messages (`MaxBatch`), a malformed field at every level; 4 downloads, a queue of 3, 1 stop |
| `StaleSessionOverwritten` | a counterexample, section 5 | |
| `MarkClearedForRejoin` | a counterexample, section 5 | |
| `RelayDeathUntold` | a counterexample, section 5 | |

*Why these bounds are enough.* The hazards each need one session, at most one rejoin of it and
one stop. Three instants give two visits and the end of the first; five give a visit, its end, a
rejoin that is merged, its end, and a third visit, so that a save is folded into an already
merged file. Retention 2 with three meetings evicts. One tab is enough for what happens
within a tab; what tabs share (history, marks, the merge scan) is exercised with two. Two words let a
save hold less than the final file. In `Writer` five versions are a first write, one behind the
timer, one in flight at a failover, one late on the wire, and the last. The properties that
matter most are proved without any bound (section 4).

In `Capture` three events are a drop, a failed connection or send, and a language change, in any
order with the timers; two connections are a reconnect, two sessions the one before and after. It
takes `Hooks = {"prototype"}`, the case in which a connection is adopted late; with the constructor
hook it is adopted before anything can happen. `Feed` explores interruptions, sniffing and chat in separate
budgets (`MCBudgets`): they meet only in the roster, the pause and the wipe, which the
budgets with several parts have. Five revisions are a turn, an interruption, the turn again, and a
rewording on either side of the cut. In `Adapter` the budgets are the loop by itself, with a start that fails, one
meeting with a busy roster, and two meetings with capture or roster; four moves are a join, a
leave, a join again and a leave. Its time constants keep the order of the code's: `Residue` and
`Flush` below `TailGrace`, as seconds are below the half minute of the tail.

*The switches.* Each failure is a constant, so that a run asks one question and a
property is stated under exactly the failures it survives. Two switches are assumptions about
timing rather than failures: `SavesMayOutlastMeeting = FALSE` and `LobbyOutlastsFinalize = TRUE`
(section 5, limits).

*Fairness.* `Background!FairSpec` is weakly fair to finalizations, deliveries, the recovery and the
delivery of `meetingEnded`: Chrome keeps a worker alive while an event handler's promise is
pending and its storage and download calls settle. It is not fair to pages or users: a meeting may
last for ever. Stops are bounded by `MaxStarts`; a worker stopped at every start
settles nothing, and the liveness properties say what one completed life achieves.
`SessionWriter!FairSpec` is weakly fair to the next link, the transports, the timer and
`writeNow`: promise continuations and timers run, `chrome.storage.local.set` settles, and a relayed
write is settled by its timeout if by nothing else (`meet.ts`, `RELAY_TIMEOUT_MS`). There is no
fairness for `Change` or `EndMeeting`. `CaptionsChannel` states fairness of its timers and close
events, which no property of its run needs: they are invariants. The other modules are checked for safety only.

## 4. Proofs

| theorem | needs | argument |
|---|---|---|
| `TypeCorrect` | the constants' assumptions | `TypeOK` is inductive; it says of each phase what it is about to use, which is what makes it so |
| `CustodyHolds` | `LobbyOutlastsFinalize` | `Custody` is inductive relative to `TypeOK` |
| `TrackedHolds` | the same | inductive relative to `TypeOK` and `Custody` |
| `RemovedOnlyWhenKeptHolds` | the same | from `Custody`, see below |
| `ReplacedOnlyWhenKeptHolds` | `LobbyOutlastsFinalize`, `EvictionSucceeds` | `OwnSession`: the session a page works on is the stored one |
| `RecordDiesWithSessionHolds` | `LobbyOutlastsFinalize`, saves that end before their meeting | `RecordInv`, inductive relative to `Custody` and `Answers` |
| `ClearedOnlyWhenExportedHolds` | | `Clears`, with `Numbered` |
| `NoEmptyFileHolds` | | `Worded`, relative to `Numbered` |
| `CommittedOnceHolds` | `LobbyOutlastsFinalize`, `FinalizedOnce` | `Uncommitted`, with `Built`, `Dated` and `Awaited` |
| `UnmergedExportTrailHolds` | `LobbyOutlastsFinalize`, no wipes, `EvictionSucceeds` | `Trail`, with all of the above |
| `OnlyGrowsHolds` | `Undisturbed` | `Files`, with `OneTask` and `AllAlike`, see below |
| `PartialIsReplacedHolds` | `Undisturbed`, `Delivers` | `Partials`, inductive relative to the invariants before it |
| `WriterTypeCorrect`, `WriterInvHolds` | | `WriterInv` is inductive relative to `TypeOK` |
| `NothingForgottenHolds`, `FinalWriteHolds`, `GivesUpHolds` | | follow from `WriterInv` |
| `StoppedIsToldHolds` | | from `Telling`, inductive by itself |
| `WriterImplementsRegister` | | step simulation, from `WriterInv` |
| `TypeCorrect`, `ArmedIsHeard`, `LanguageIsServed`, `MediaCountHolds` of `CaptureProofs` | | each inductive relative to the type invariant, the last two strengthened |
| `CaptionsAreKept` | `CreateFails = FALSE` | see below |
| `CallIsFollowed` | `Residue < TailGrace` | `CallInv`: what the loop counts of icon and media are signs of this call |
| `CallsAreRecordedSoon` | the same, `Flush <= TailGrace` | `WaitInv` bounds the waiting by where the loop stands |
| `NoticeHolds`, `SpeakersListed` | `ArmGrace > 0` for the first | `HealthInv`; the second is inductive by itself |
| `MarkersHold` | | `PresenceInv`, see below |
| `ReadAsPackedHolds` | names and texts are not empty, numbers are naturals | see below; the invariant adds that the counters are numbers |
| `VarintRoundTrip` | | no number is misread: `readVarint` gives back what `writeVarint` was given |
| `OwnNameGiven` | | `Queued`: while `told`, the queue holds the downloads whose round is to come, each once |
| `NewestIsHeld` | `Budgets` typed | `Kept`, see below |
| `TheirsAreKept` | the same | `ShownOnceSeen`: one entry of the log exactly for each id seen; no name of the user's is the other participant's |
| `OwnShownOnce`, `OwnAreKept` | the same; texts are not ids | `OwnInv`, see below |
| `WordsAreShown`, `WordsAreShownOnce` | the same | `WordInv`, see below |

**Custody.** That a removed key's words are in history is not inductive: the removal is three
awaits after the commit, and it removes *whatever the key holds by then*. The invariant therefore
says two things at once: the page is past its last write while a finalization runs, so that what
the finalization read is what is still stored (`FinalizeOwnsSession`), and the words it read are in its
meeting until the commit and in history after it (`WordsChangeHands`). Neither depends on
whether the tab is tracked, so both hold of a meeting whose `meetingStarted` failed. The proof goes tab by tab (`CustodyByTab`): a step of one
tab changes nothing of another's but history, and every change of history - append with
eviction, merge, deletion - keeps what was kept (`KeptByAppend`, `KeptByMerge`,
`KeptByDelete`). These rest on lemmas about concatenation, `SubSeq` and `MergeMeetings`.

**Tracking.** `Tracked` is about the meetings the background heard of, and what threatens it is an
untracking by somebody else: the finalization of a stale session before the lobby, that of the meeting
before, `onRemoved`, the start-up scan. `Custody` gives that a finalization which is about to untrack has
removed the key (`UntrackedLast`) and that no page of its tab records meanwhile; no step but
`Join`, told or not, begins to record (`PageSeen`), and no other writes the list (`OthersLeaveTracking`).

**History.** Six more properties of `Background` rest on a chain of invariants, each inductive
relative to the ones before it. `Answers`: a page is owed at most one answer and does nothing but wait
for it. `OwnSession`: from joining on, the session a page holds is the stored one, which is why
replacing the key loses nothing. `Numbered`: a finalization numbers its meeting by an instant nothing
has used, so that no two meetings share an id, and what a delivery or the recovery holds of an
id is of that meeting. `Clears`: whoever is about to clear a mark has the file
confirmed, or found the meeting gone. `Worded`: whatever may reach a download has words; a failure another
finalization left in history is kept apart by its id. `Built` and `Dated`: the meeting a
finalization has built is the one visit of the session it read, and that visit has one tab.
`Uncommitted`: a session still stored is not in history until its own finalization commits it, and
then is nobody's. `Trail` puts them together: a visit of history with words is traced (exported,
marked, merged, or removed by the user), a finalization between commit and mark knows the meeting it is about to mark, and at
the removal of the key the visit is traced. For it `Copied` says that what is exported is what history has, and
`Grown` that history never has more of a visit than its session.

What these theorems assume is what the code rests on. `EvictionSucceeds` is one room, or no
rejected storage call and no restart: `StaleSessionOverwritten` shows what a failed finalization of another
room's session costs. A restart costs the same, one step further: the page whose answer an update cut off relays its session;
if that finalization stops before its end the session stays, untracked, and a second update while the next meeting evicts it lets
that meeting overwrite it. `FinalizedOnce` leaves out what hands one session to two finalizations: a
rejected storage call, a page that reloads while it waits, and a restart, after which a page that was cut
off sends its session again. `ClearedOnlyWhenExported` and `NoEmptyFile` need nothing: they hold
through every stop and failure of the model.

**Files.** A file is written with the text of one object and read back by nobody, so that nothing in the code compares
a new text with the one it overwrites. That it holds more is a fact about paths, and the proof is about who can be writing
to a path at all. `OneTask`: a delivery runs while its tab's session is gone and nothing else is finalized, saved or delivered,
and the recovery finds no session that nobody else finalizes. `AllAlike`: whatever copies there are of a session - the
stored one, that of the page, the one a save has read, the meeting a finalization has built - agree on its room, start, privacy
and participants, and with them on the path it goes to. `Files` relates every text filed or about to be filed at a path
to everything that may be filed there later: the text begins with the visit of the path's minute
(`Headed`), only the last of its visits can be still under way (`Ahead`), a row of history that goes to that path covers its
finished visits (`RowCovers`), and so does what a save or a delivery has in hand (`HandCovers`). `MergeMeetings` and `AppendWithRetention`
keep each of them. `PartialIsReplacedHolds` adds `Partials`: no finished text holds a live visit
(`FinalsAreClosed`), a save writes where the finalization of its session will (`SavesPlaced`), and a partial
file is the first copy of its path and either unfinished - its session is live, and `written` names the path - or being
replaced by a meeting that goes there and will overwrite it (`PartialsTaken`). The theorem's property asks
only for that meeting; the invariant, that it lands on the same path.

`Undisturbed` has one condition for each way in which the code lets a file shrink or a partial one stay, all of which are among the limits
of section 5: two tabs, or two visits of one minute, share a path; a change of the privacy switch or of the merge
setting moves it; a save that outlasts its meeting is the last to write; a restart or a failed storage call
hands one session to two finalizations; a wipe takes words back. Rooms, meetings, saves, merges, evictions, the
user's deletions and rejected downloads are unrestricted. `Delivers` excludes the last two for the partial file: what is not delivered
replaces nothing, and a save is not folded into the visits of a meeting that is no longer there.

**The writer.** `WriterInv` orders the versions along the way a snapshot takes (stored, on the wire, in
the link, current), allows one transport at a time, makes the final link the last of the chain,
describes a closed or sealed writer, and says what still covers the newest version while
links are pending. `WriterImplementsRegister` maps the register's phase to `Phase`: open while
the page is, draining while relayed snapshots are in flight after it, done afterwards.

**The capture.** Every step that sends is an instance of `Subscribe`, which touches every session at once;
`SubscribeEffect` states what it leaves and what it changes, and each invariant then has one
lemma about that and one step per action. `LanguageIsServed` needs that the language an entry
remembers is the one in force on every open subscribed channel (`ServedInv`). `MediaCountHolds`
needs that the list has every live channel the script saw (`SeenListed`), and that it saw every
one (`AllSeen`), because a connection is adopted before a channel of it can come
(`Adopted`). `CaptionsAreKept` holds because a session becomes subscribed only in a step that opens a
captions channel on its connection, and the watchdog that gives one up asks through an open
session of the same connection, which opens the next. A step in which `createDataChannel` throws
would break it: hence the assumption.

**The adapter.** Each invariant is about the steps of one part, so a lemma first says what a step of the
whole is for that part: `StepOfLoop` for the loop, `RunningStep` for where a meeting begins and
ends. `CallInv` relates the two counters of `endWatcher` to what the page has shown: the media count
goes no further back than the dark it counts (`ZeroIsDark`), the icon count is no more than the
checks since the icon went (`GoneIsHidden`), and the icon a call leaves behind is met by no wait but the
re-arming, which outlasts it (`ResidueKnown`). A call counts as recorded soon only while the loop lives; a call
whose start an orphaned context cut short is counted again from there, and `WaitInv` then bounds it like one joined
after another. `Residue < TailGrace` is what the code's drain rests on: it waits the tail out before
it takes the icon for a new call. `Flush <= TailGrace` holds of the constants of the code. `NoticeTells`
is two statements: what the notice says is true of the page (`NoticeIsRight`), and the tick of the silent grace has warned of a
meeting in company that captured nothing (`SilenceStep`), which is all that is left to a second meeting of
the tab when the page script armed in the first.

**The markers.** That the last marker tells who is present is not inductive: `recordDevice` and
`recordLeave` go by `activeByName`, and look the name of a leaving device up in the roster. The invariant
adds that the roster never gives a device another name than its owner's (`RosterRight`), and that for a
name whose markers must tell, the active devices are exactly those Meet has told of and that are in
the call (`ActiveAreTold`). Then a marker is pushed exactly when that set becomes empty or
ceases to be, and `MarkerAppended` keeps them alternating.

**The feed.** A frame is owed to the feed from the first caption on that came among the first
`SniffFrames` of its channel; one that is dropped anyway, by the listener (`Missed`) or by the decoder,
would raise `due` past what is held. `Kept` is why none is: a channel not yet adopted that has carried such
a caption still has one in its queue, among the frames it is going to look at, and so it neither stops
queueing nor runs out of looks before it is adopted.

**The chat of the user.** Up to three copies of one message come over three transports, each with
an id of its own, so only the windows of `handleChat` keep the second and third away. `Remembered` is why they do:
a message that shows, whose copies all came in time, is one of which the feed still knows the user's own
send (`AsOwn`) or the channel's echo of it (`AsEcho`), and that the other transports are compared with.
`Grounded` is the converse, for `OwnAreKept`: the feed takes a text for the user's only if the user said it. Both
need that a text used as an id is not the id of a message, which `ChatAssumption` states.

**The words of a caption.** `Shown` concatenates any number of segments, and `Within` searches a text word by
word: recursive functions over the data. `Recursion` shows that such a function on an interval exists and
`Induct` is induction with a set in the place of the predicate, from the well-foundedness of the naturals, so that
both can be reasoned about. `Embeds` says what `Within` means, a strictly increasing map of the places of one text to
those of the other, and `EmbedsWithin` that the search then succeeds. The invariant is `Covered`: the words of the
last segment's base are shown before it, and the segment shows the rest of the text; a
cut keeps it, because what was shown of the text until then is the base of the new segment
(`CoveredShows`). While Meet only adds words, every frame and caption is a front of Meet's text (`Grown`) and every
segment begins where the one before it ends (`Chained`), so that the segments add up to the
text, once.

**The wire.** What is made of a frame depends on no state but the counters and names already seen, so the invariant is small
(`CountersOK`: op and seq are numbers) and the proof is about the decoders: for every batch, of any captions, records and messages
in any number, the frame Meet packs is read as what it was packed of. Every decoder is a `Gather`, a mapping into short
lists that are then joined, so the first lemmas are about `FlattenSeq` on lists of lists: it joins (`FlattenJoin`), keeps one
among empty ones (`FlattenOnly`), and commutes with a mapping of optional values (`FlattenMap`). From these come the fields
of two messages put together (`FieldsJoin`), what a malformed field ends (`ReadsUpTo`) and one level of a walk
(`WalkBody`). `LevelsAre`, `WalkPathAre` and `ReachedAre` unfold the recursive functions of the walks, `VarintRoundTrip`
that of the numbers, by induction on the number and on its bytes. Then each frame is taken apart from the inside: a leaf, a
node, a batch of nodes, the two forms of the roster, with the chat beside the records (`LeafDecoded`, `SingleWalks`, `CollectionWalks`,
`ChatTold`); a v1 caption and a batch of v2 entries, with each place where they can be broken (`V1FrameRead`, `V2Decoded`);
what a decoder makes of a frame of the other one, or of another channel (`V1IsNotV2`, `UnknownDropped`). For the roster RPC, whose search
goes into everything, the proof names a set of messages that is closed under going down and contains no pair but
those of the leaves (`AroundClosed`, `ReachedWithin`), and shows that each leaf is within the twelve levels (`LeavesReached`).
The numbers of the model are naturals of any size, those of the code doubles: the theorem speaks of the code below 2^53, where the
multiplication of `readVarint` is exact.

Every invariant and action property that a passing run checks is thereby a theorem. Not proved, only model-checked, is liveness
(`PendingIsSettled`, `OrphanIsFinalized`, `EndIsAnswered` and the writer's), which is outside the prover's reach.

## 5. Where code and documentation part

Three runs end in a counterexample; the rest was met while modelling and can be read off the actions
named. `PROJECT.json` "findings" quotes the lines.

* **StaleSessionOverwritten** - a finalize of another room's session that fails does not keep the
  page from joining and overwriting that session (`meet.ts:565-585`).
* **MarkClearedForRejoin** - pending marks are per meeting id, and the recovery clears one that a
  rejoin has just set again (`store.ts:90-95`, `index.ts:227-233`). `UnmergedExportTrail` is
  what remains true: the trail of meetings no rejoin was folded into.
* **RelayDeathUntold** - when the relay dies as well, the missing reply becomes "relay refused the
  snapshot", which is not recognised as a dead context: the writer goes on trying.
* A partial file, which says that it will be overwritten, is not when the meeting is wiped and
  ends empty (`PartialIsReplaced` leaves that case out).
* The words of a turn said while transcribing was off, and those wiped in the middle of a turn, come
  with the next revision of it, which carries the whole text; the wipe also forgets the ids of the chat,
  which a replay brings back (`RtcFeed`: `SetRecording`, `Purge`, `NextFrame`, `Chat`).
* Participants of the previous meeting of the tab are participants of the next one
  (`PresenceStart`); a presentation's device is counted as an attendee although its record names a
  parent (`handleRoster`).
* The notice that no captions came is not taken down when they do (`CaptionSeen`). The one that nothing
  armed is, when capture arms late, and then the meeting is not warned of again if it hears nothing (`Arms`).
  A page script that armed in one meeting counts as armed in every later one of the page, whether
  or not it asks again (`HealthStart`).
* A `meetingStarted` that fails is looked at for a lost context only (`meet.ts:595`): the meeting is recorded
  without its tab in the list `onUpdateAvailable` goes by, and an update is not put off for it
  (`Track`).
* A storage read that fails while the context is intact ends the watch loop (`meet.ts:343-366`, `539`), which the
  comment there means to prevent: the tab records no later call (`Dies`). `RecordedSoon` is stated
  for a loop that lives.
* A v2 frame without captions is decoded, not rejected, by the v1 decoder (`decodeCaptions`); the consumer's
  check of what it got is what keeps it out.
* The watchdog chain ends on a live connection when no media-session is open at the tick
  (`watchCaptionsChannel`), and a media-session that opens in mid-meeting asks for the channel by its old
  name (`trySubscribe`).
* A re-send whose copy has no id of its own is dropped at any distance (`idOf`).

Known limits, each with the constant that reproduces it. They are not documented as promises,
or are excluded by timing in practice, so no run is spent on them:

* a save that outlasts its meeting overwrites the finished file with a partial one and leaves
  its record to the next session: `SavesMayOutlastMeeting = TRUE` breaks `OnlyGrows`
  (`export.ts:100-102`, `index.ts:170-212`);
* a start-up re-export can land after a rejoin's save of the same merged file, which then shrinks
  until the meeting ends; hence `OnlyGrows` is stated for the time after the recovery
  (`rec.pc = "off"`);
* visits begun within one minute share a path: `Minute = 10` lets a save's record make one meeting
  overwrite another's file (`export.ts:84-91`);
* a reload while the page's `meetingEnded` is being handled can resume a session that is being
  committed: `ReloadsAfterLeave = TRUE` breaks `CommittedOnce` (`meet-lifecycle.ts:41-42`,
  `meet.ts:574,628`);
* joining while a finalize of the same tab is under way lets that finalize untrack the tab:
  `LobbyOutlastsFinalize = FALSE` breaks `Tracked` (`meet.ts:571-573`, `sessions.ts:44,117`);
* a stop between commit and removal commits the visit again at the next start (at least once):
  `WorkerMayDieBusy = TRUE` breaks `CommittedOnce`; and a recovery
  that lists the marks while a delivery is under way exports that meeting a second time
  (`index.ts:214-226`);
* a capture-failure row is never merged *into* anything, but a later visit can be merged into it
  (`store.ts:48-54` against `sessions.ts:94-96`);
* the deadline for captions counts from the start of the meeting, not from the second participant
  (`captureFault`, `meet.ts:99-103`);
* a packet with several message collections gives up only the first (`decodeCollectionsChat`,
  `proto.ts:520`): `WireReader` packs one, as the comment says Meet does;
* a worker stop loses the queue of names, and a download in flight then gets Chrome's own
  (`ItsOwnName` is stated under `told`); so may two downloads whose cut URLs agree;
* who leaves and is back within the settle window, or changes while paused, has a marker missing;
  the names in `unsure` are those;
* captions of a meeting joined during the flush of the one before go to that one
  (`MeetLoop`: `flushing` listens);
* changing the privacy switch or the merge setting after a save changes the path of the final file,
  so the partial one stays; the runs with saves keep both fixed.

## 6. What is not modelled

Left out of the modelled components, because no property depends on it: the debug and
lite logs and their downloads; manual downloads from the history page; titles (one per room); the
relay tokens; the relayed snapshots in `Background` (they are writes of the same key by the
same session, so `WriteSession` covers them; `SessionWriter` has them one by one); the order
in which the recovery walks its lists; reuse of tab ids; the wait of `onUpdateAvailable` between reading
the tracked tabs and reloading; the two reads of `finalizeSession` between session and commit, the record and
the settings, are one step. At most one save of a tab runs at a time (the page disables its button), and it
is asked for while the tab records (`SaveStart`); the popup can also name a tab whose session was
left behind. An orphaned page that is entered reads no previous session (`readPreviousSession`); `Background`
lets it, so that a next meeting of an orphaned page overwriting a session still stored is not
among its behaviours. In `SessionWriter` nothing requests a write between
`writeNow` and `close` (the adapter awaits one and calls the other), a dead relay stays dead, and the
page is not torn down: a session left behind is `Background`'s matter.

In `CaptionsChannel`: op and seq (a codec matter, in `WireReader`), channel ids, and diagnostics. In the
feed: the order in which turns are listed, the debug history of revisions, and chat without an
id, which no caller sends. In `Presence`: devices that change their name, and the
roster and prefixes resumed by a reload. In `MeetLoop`: reloads, and the hotkeys. In
`WireReader`: the order of the roster RPC's records, which are compared as a set. In
`WireDecoding`: bytes, but for those of a number (a tag is its number and wire type, a length is right), gzip, base64 and `frameShape`; a
submessage read as text is one value, `Garbage`. In `FilenameGuard`: how a URL is cut.

Not modelled at all: DOM rendering, string cleaning, the timeline's layout, settings, the
extension pages, the build scripts. `PROJECT.json` lists every component with the reason.

## 7. Plan

Done, in this order: `Meetings`, `Background`, their runs and proofs; `LatestSnapshot`,
`SessionWriter`, its run and proofs; `CaptionsChannel` and its proofs; the feed; the adapter and its
proofs; wire and filename guard; the proofs of presence, guard and feed; the proofs of history, of
the user's chat and of the words of a caption; the proofs of the files and of the wire. What would come next:

1. the files with two tabs in different rooms;
2. `Presence` with devices that change their name and a roster resumed after a reload;
3. relay tokens, origin and tab checks (`relay.ts`), composed with an update;
4. `saveSettings` of two pages, and the timeline against a reference definition.
