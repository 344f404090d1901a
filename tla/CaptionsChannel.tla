---------------------------- MODULE CaptionsChannel ----------------------------
(***************************************************************************)
(* The page-world capture script (meet-rtc/main.ts) and Meet's peer        *)
(* connections: how a connection is adopted, how a media-session channel   *)
(* is subscribed to captions in the language of the meeting, how a         *)
(* captions channel that drops is replaced, and what the adapter is told.  *)
(* Meet, the browser and the adapter are the environment: they open and    *)
(* close channels, push the language, and may refuse a send.               *)
(*                                                                         *)
(* A captions channel has no state of its own besides its label, so the    *)
(* channels of a connection are counted and not named.                     *)
(***************************************************************************)
EXTENDS Naturals, FiniteSets

CONSTANTS
  Hooks,         \* which of our two hooks Meet's calls reach
  NumPc,         \* bound: peer connections
  NumMedia,      \* bound: media-session channels, over all connections
  Lang,          \* caption languages
  DefaultLang,
  Served,        \* external: the label of Meet's own captions channel
  CreateFails,   \* whether createDataChannel may throw
  MaxEvents      \* bound: drops, closes, failed connections, captions channels of
                 \* Meet's, pushes, meetings and calls that throw, all together

ASSUME CaptionsAssumption ==
  /\ Hooks \subseteq {"constructor", "prototype"}
  /\ CreateFails \in BOOLEAN
  /\ {NumPc, NumMedia, MaxEvents} \subseteq Nat
  /\ DefaultLang \in Lang
  /\ Served \in {"captions", "captions_v2"}

Pc == 1..NumPc
Media == 1..NumMedia
Label == {"captions", "captions_v2"}

VARIABLES
  connection,       \* [Pc -> a peer connection]
  session,          \* [Media -> a media-session channel and its entry in `sessions`]
  captions,         \* [Pc -> [Label -> captions channels that live, that are gone
                    \*  and whose watchdog has yet to see it]]
  reopened,         \* resubscribeForCaptions timers that are running
  captionLanguage,
  captureArmed,
  adapter,          \* the listeners of the running meeting and what they heard
  asked,            \* external: [Media -> the language Meet was last asked for, unsure
                    \*  after a send that threw]
  budget            \* how many events the environment has left

vars == <<connection, session, captions, reopened, captionLanguage, captureArmed,
          adapter, asked, budget>>

NoSession == [pc |-> 0, state |-> "none", closing |-> FALSE, seen |-> FALSE,
              listed |-> FALSE, subscribed |-> FALSE, lang |-> DefaultLang, due |-> FALSE]

\* A connection, an entry of `sessions` with its channel, what an adapter has heard.
Connection == [state : {"none", "up", "down"}, described : BOOLEAN, adopted : BOOLEAN]
Entry == [pc : Pc \cup {0}, state : {"none", "connecting", "open", "closed"},
          closing : BOOLEAN, seen : BOOLEAN, listed : BOOLEAN,
          subscribed : BOOLEAN, lang : Lang, due : BOOLEAN]
Heard == [listening : BOOLEAN, armed : BOOLEAN, media : {"untold", "live", "zero"}]
Counts == [Label -> [live : Nat, gone : Nat]]

TypeOK ==
  /\ connection \in [Pc -> Connection]
  /\ session \in [Media -> Entry]
  /\ captions \in [Pc -> Counts]
  /\ reopened \in Nat
  /\ captionLanguage \in Lang
  /\ captureArmed \in BOOLEAN
  /\ adapter \in Heard
  /\ asked \in [Media -> Lang \cup {"nothing", "unsure"}]
  /\ budget \in Nat

Init ==
  /\ connection = [p \in Pc |-> [state |-> "none", described |-> FALSE, adopted |-> FALSE]]
  /\ session = [m \in Media |-> NoSession]
  /\ captions = [p \in Pc |-> [l \in Label |-> [live |-> 0, gone |-> 0]]]
  /\ reopened = 0
  /\ captionLanguage = DefaultLang
  /\ captureArmed = FALSE
  /\ adapter = [listening |-> FALSE, armed |-> FALSE, media |-> "untold"]
  /\ asked = [m \in Media |-> "nothing"]
  /\ budget = MaxEvents

-----------------------------------------------------------------------------
\* What the script tells the adapter, and the list it tells it of.

\* pruneDeadSessions: entries whose channel is closed leave the list.
pruneDeadSessions(ss) ==
  [m \in Media |-> [ss[m] EXCEPT !.listed = @ /\ ss[m].state # "closed"]]

\* dispatchMedia: the length of the list, heard by a meeting that runs.
dispatchMedia(ss) ==
  IF adapter.listening
  THEN [adapter EXCEPT !.media = IF \E m \in Media : ss[m].listed THEN "live" ELSE "zero"]
  ELSE adapter

\* dispatch of capture-armed.
heardArmed(ad) == [ad EXCEPT !.armed = @ \/ ad.listening]

-----------------------------------------------------------------------------
(***************************************************************************)
(* The common part of sendSubscribe, resubscribeAll and                    *)
(* resubscribeForCaptions. Every session of `senders` sends a subscribe    *)
(* for lang[m]; those of `openers` first open a captions channel with      *)
(* `label` and send two acks afterwards. A send may throw, the subscribe   *)
(* itself ("refused") or an ack behind it ("half"), and so may the opening *)
(* of the channel; each is caught and the next session is tried.           *)
(***************************************************************************)
Outcome == {"sent", "half", "refused"}

\* The channel funnels back through handleChannel: a watchdog and a timer each.
openCaptions(cap, ss, made, label) ==
  [p \in Pc |-> [cap[p] EXCEPT ![label].live =
                   @ + Cardinality({m \in made : ss[m].pc = p})]]

Subscribe(ss, cap, timers, senders, openers, lang, label, ad, left) ==
  \E got \in [senders -> Outcome], rejected \in SUBSET openers :
    LET made == openers \ rejected
        out(m) == got[m] # "refused"
        failed == {m \in senders : got[m] # "sent"}
        armed == \E m \in openers : got[m] = "sent"
    IN
    /\ \A m \in senders \ openers : got[m] # "half"
    /\ Cardinality(failed) + Cardinality(rejected) <= left
    /\ rejected # {} => CreateFails
    /\ captions' = openCaptions(cap, ss, made, label)
    /\ reopened' = timers + Cardinality(made)
    /\ session' = [m \in Media |->
         IF m \notin senders THEN ss[m]
         ELSE [ss[m] EXCEPT !.lang = lang[m],
                            !.subscribed = IF m \in openers THEN got[m] = "sent" ELSE @]]
    /\ asked' = [m \in Media |->
         IF m \notin senders THEN asked[m] ELSE IF out(m) THEN lang[m] ELSE "unsure"]
    /\ captureArmed' = (captureArmed \/ armed)
    /\ adapter' = IF armed THEN heardArmed(ad) ELSE ad
    /\ budget' = left - Cardinality(failed) - Cardinality(rejected)

\* deviation: the language the entry was made with is asked for again.
deviationOldLanguage(ss, cap, m, label) ==
  IF ss[m].state = "open"
  THEN Subscribe(ss, cap, reopened, {m}, {m}, [k \in {m} |-> ss[m].lang], label, adapter,
                 budget)
  ELSE /\ session' = ss /\ captions' = cap
       /\ UNCHANGED <<reopened, asked, captureArmed, adapter, budget>>

\* sendSubscribe: nothing unless the channel is open.
sendSubscribe(ss, cap, m, label) ==
  IF ss[m].state = "open"
  THEN Subscribe(ss, cap, reopened, {m}, {m}, [k \in {m} |-> captionLanguage], label, adapter,
                 budget)
  ELSE /\ session' = ss /\ captions' = cap
       /\ UNCHANGED <<reopened, asked, captureArmed, adapter, budget>>

-----------------------------------------------------------------------------
\* Connections and channels: Meet's calls and the browser's events

\* The wrapped constructor adopts; another extension may have taken it from us.
NewConnection(p) ==
  /\ connection[p].state = "none"
  /\ \A q \in Pc : q < p => connection[q].state # "none"
  /\ connection' = [connection EXCEPT ![p] = [state |-> "up", described |-> FALSE,
                                              adopted |-> "constructor" \in Hooks]]
  /\ UNCHANGED <<session, captions, reopened, captionLanguage, captureArmed,
                 adapter, asked, budget>>

\* deviation: only createDataChannel adopts from the prototype.
deviationNotAdopted(p) ==
  /\ connection[p].state = "up" /\ ~connection[p].described
  /\ connection' = [connection EXCEPT ![p].described = TRUE]
  /\ UNCHANGED <<session, captions, reopened, captionLanguage, captureArmed,
                 adapter, asked, budget>>

\* The prototype hook adopts the connection before the answer is applied.
SetRemoteDescription(p) ==
  /\ connection[p].state = "up" /\ ~connection[p].described
  /\ connection' = [connection EXCEPT ![p].described = TRUE,
                                      ![p].adopted = @ \/ "prototype" \in Hooks]
  /\ UNCHANGED <<session, captions, reopened, captionLanguage, captureArmed,
                 adapter, asked, budget>>

\* A channel comes from Meet's createDataChannel ("local") or as a datachannel
\* event ("remote", once the connection is described). Which adopt the connection,
\* and which reach handleChannel:
Adopts(p, origin) == connection[p].adopted \/ (origin = "local" /\ "prototype" \in Hooks)
Arrives(p, origin) == connection[p].state = "up" /\ (origin = "remote" => connection[p].described)
adopt(p, origin) == connection' = [connection EXCEPT ![p].adopted = Adopts(p, origin)]

\* handleChannel, media-session: a new entry, the count, and a timer if it is open.
MediaAppears(m, p, origin, state) ==
  /\ session[m].state = "none"
  /\ \A k \in Media : k < m => session[k].state # "none"
  /\ Arrives(p, origin)
  /\ adopt(p, origin)
  /\ LET seen == Adopts(p, origin)
         entry == [NoSession EXCEPT !.pc = p, !.state = state, !.seen = seen,
                                    !.listed = seen, !.lang = captionLanguage,
                                    !.due = seen /\ state = "open"]
         ss == [pruneDeadSessions(session) EXCEPT ![m] = entry]
     IN IF seen
        THEN session' = ss /\ adapter' = dispatchMedia(ss)
        ELSE session' = [session EXCEPT ![m] = entry] /\ adapter' = adapter
  /\ UNCHANGED <<captions, reopened, captionLanguage, captureArmed, asked, budget>>

MediaOpens(m) ==
  /\ session[m].state = "connecting"
  /\ session' = [session EXCEPT ![m].state = "open", ![m].due = session[m].seen]
  /\ UNCHANGED <<connection, captions, reopened, captionLanguage, captureArmed,
                 adapter, asked, budget>>

MediaCloses(m) ==
  /\ budget > 0
  /\ session[m].state \in {"connecting", "open"}
  /\ session' = [session EXCEPT ![m].state = "closed", ![m].closing = TRUE]
  /\ budget' = budget - 1
  /\ UNCHANGED <<connection, captions, reopened, captionLanguage, captureArmed,
                 adapter, asked>>

\* The close event: the entry goes, whether or not it was pruned before, and the
\* count is reported.
MediaCloseEvent(m) ==
  /\ session[m].closing
  /\ LET ss == [session EXCEPT ![m].closing = FALSE, ![m].listed = FALSE]
     IN /\ session' = ss
        /\ adapter' = IF session[m].seen THEN dispatchMedia(ss) ELSE adapter
  /\ UNCHANGED <<connection, captions, reopened, captionLanguage, captureArmed, asked,
                 budget>>

\* A captions channel of Meet's: handleChannel gives it a watchdog and a timer.
MeetOpensCaptions(p, origin) ==
  /\ budget > 0
  /\ Arrives(p, origin) /\ Adopts(p, origin)
  /\ adopt(p, origin)
  /\ captions' = [captions EXCEPT ![p][Served].live = @ + 1]
  /\ reopened' = reopened + 1
  /\ budget' = budget - 1
  /\ UNCHANGED <<session, captionLanguage, captureArmed, adapter, asked>>

CaptionsDrop(p, label) ==
  /\ budget > 0
  /\ captions[p][label].live > 0
  /\ captions' = [captions EXCEPT ![p][label].live = @ - 1, ![p][label].gone = @ + 1]
  /\ budget' = budget - 1
  /\ UNCHANGED <<connection, session, reopened, captionLanguage, captureArmed, adapter,
                 asked>>

\* A connection fails or is closed, and its channels with it. The watchdogs of its
\* captions channels stop at their next tick without effect (shouldRecreateCaptions).
ConnectionEnds(p) ==
  /\ budget > 0
  /\ connection[p].state = "up"
  /\ budget' = budget - 1
  /\ connection' = [connection EXCEPT ![p].state = "down"]
  /\ session' = [m \in Media |->
       IF session[m].pc = p /\ session[m].state \in {"connecting", "open"}
       THEN [session[m] EXCEPT !.state = "closed", !.closing = TRUE]
       ELSE session[m]]
  /\ captions' = [captions EXCEPT ![p] = [l \in Label |-> [live |-> 0, gone |-> 0]]]
  /\ UNCHANGED <<reopened, captionLanguage, captureArmed, adapter, asked>>

-----------------------------------------------------------------------------
\* The script's timers

\* trySubscribe, SUBSCRIBE_DELAY_MS after the channel was seen open or opened.
trySubscribe(m) ==
  /\ session[m].due
  /\ LET ss == [session EXCEPT ![m].due = FALSE]
     IN IF ~session[m].subscribed
        THEN sendSubscribe(ss, captions, m, "captions")
        ELSE /\ session' = ss
             /\ UNCHANGED <<captions, reopened, asked, captureArmed, adapter, budget>>
  /\ UNCHANGED <<connection, captionLanguage>>

\* deviation: the first open session, whichever connection it is on.
deviationAnySession(p) == {m \in Media : session[m].listed /\ session[m].state = "open"}

\* The session the watchdog asks through: the first open one on the connection.
openSession(p) == {m \in Media : session[m].listed /\ session[m].pc = p
                                /\ session[m].state = "open"}

\* watchCaptionsChannel: the tick that finds its channel gone. It is the last one.
watchCaptionsChannel(p, label) ==
  /\ captions[p][label].gone > 0
  /\ LET cap == [captions EXCEPT ![p][label].gone = @ - 1]
         s == openSession(p)
     IN IF s # {}
        THEN \E m \in s : (\A k \in s : m <= k) /\ sendSubscribe(session, cap, m, label)
        ELSE /\ captions' = cap
             /\ UNCHANGED <<session, reopened, asked, captureArmed, adapter, budget>>
  /\ UNCHANGED <<connection, captionLanguage>>

\* resubscribeForCaptions, SUBSCRIBE_DELAY_MS after a captions channel was seen.
resubscribeForCaptions ==
  /\ reopened > 0
  /\ LET ss == pruneDeadSessions(session)
         again == {m \in Media : ss[m].listed /\ ss[m].subscribed /\ ss[m].state = "open"}
     IN Subscribe(ss, captions, reopened - 1, again, {}, [m \in again |-> ss[m].lang],
                  "captions", adapter, budget)
  /\ UNCHANGED <<connection, captionLanguage>>

-----------------------------------------------------------------------------
\* The adapter

\* resubscribeAll, for the language that has just changed.
resubscribeAll(l, ad) ==
  LET ss == pruneDeadSessions(session)
      open == {m \in Media : ss[m].listed /\ ss[m].state = "open"}
      first == {m \in open : ~ss[m].subscribed}
      again == {m \in open : ss[m].subscribed /\ ss[m].lang # l}
  IN Subscribe(ss, captions, reopened, first \cup again, first,
               [m \in first \cup again |-> l], "captions", ad, budget - 1)

\* deviation: an armed capture is not announced again.
deviationOneShot(l, ad) ==
  /\ captionLanguage' = l
  /\ IF l # captionLanguage
     THEN resubscribeAll(l, ad)
     ELSE /\ adapter' = ad
          /\ budget' = budget - 1
          /\ UNCHANGED <<session, captions, reopened, asked, captureArmed>>

\* The configuration listener: an armed capture is announced again, and a new
\* language is asked for on every channel.
configure(l, ad) ==
  LET heard == IF captureArmed THEN heardArmed(ad) ELSE ad
  IN /\ captionLanguage' = l
     /\ IF l # captionLanguage
        THEN resubscribeAll(l, heard)
        ELSE /\ adapter' = heard
             /\ budget' = budget - 1
             /\ UNCHANGED <<session, captions, reopened, asked, captureArmed>>

\* pushRtcConfig outside a meeting's start: a changed setting or the language pill.
Config(l) ==
  /\ budget > 0
  /\ configure(l, adapter)
  /\ UNCHANGED <<connection>>

\* runMeeting pushes the language, installs its listeners and pushes again in one
\* task: what the first push armed, the second announces to the listener.
MeetingStarts(l) ==
  /\ budget > 0 /\ ~adapter.listening
  /\ configure(l, [listening |-> TRUE, armed |-> FALSE, media |-> "untold"])
  /\ UNCHANGED <<connection>>

MeetingEnds ==
  /\ adapter.listening
  /\ adapter' = [listening |-> FALSE, armed |-> FALSE, media |-> "untold"]
  /\ UNCHANGED <<connection, session, captions, reopened, captionLanguage,
                 captureArmed, asked, budget>>

-----------------------------------------------------------------------------
Browser ==
  \/ \E p \in Pc : \/ NewConnection(p)
                    \/ SetRemoteDescription(p)
                    \/ ConnectionEnds(p)
                    \/ \E label \in Label : CaptionsDrop(p, label)
                    \/ \E origin \in {"local", "remote"} : MeetOpensCaptions(p, origin)
  \/ \E m \in Media : \/ MediaOpens(m) \/ MediaCloses(m) \/ MediaCloseEvent(m)
                       \/ \E p \in Pc, origin \in {"local", "remote"},
                             state \in {"connecting", "open"} :
                            MediaAppears(m, p, origin, state)

Timers ==
  \/ \E m \in Media : trySubscribe(m)
  \/ \E p \in Pc, label \in Label : watchCaptionsChannel(p, label)
  \/ resubscribeForCaptions

Adapter ==
  \/ \E l \in Lang : Config(l) \/ MeetingStarts(l)
  \/ MeetingEnds

Next == Browser \/ Timers \/ Adapter

\* The page's timers fire and the browser delivers a close event; nothing obliges
\* Meet or the user to do anything. Every one of these steps uses up a timer or an
\* event, so fairness of the whole reaches each of them.
Prompt == Timers \/ \E m \in Media : MediaCloseEvent(m)

Spec == Init /\ [][Next]_vars /\ WF_vars(Prompt)

-----------------------------------------------------------------------------
\* Properties

\* On an open channel we have subscribed, Meet was last asked for the language in force,
\* whatever timers, reopened captions and language changes came between, unless the last
\* send on it threw (sendSubscribe, resubscribeAll, resubscribeForCaptions,
\* main.ts:359-472).
ServedLanguage ==
  \A m \in Media :
    session[m].listed /\ session[m].state = "open" /\ session[m].subscribed
      => asked[m] \in {captionLanguage, "unsure"}

\* A meeting that listens knows of an armed capture, even one armed before its
\* listener was there or in an earlier meeting of the tab (main.ts:289-292,
\* meet.ts:860-869): otherwise it warns that nothing is recorded.
ArmedReachesAdapter == adapter.listening /\ captureArmed => adapter.armed

\* The meeting counts towards its end exactly while every media-session is closed: told
\* of none, no channel is live on any connection (unless neither hook is reached: a
\* channel we never saw would end a call that goes on); told of some, one is open or the
\* close event that will correct it is still to come, even if a language change pruned
\* the entry before (adopt.ts:36-52, main.ts:883-900).
MediaCountIsTrue ==
  /\ adapter.media = "zero" /\ Hooks # {} =>
       \A m \in Media : session[m].state \notin {"connecting", "open"}
  /\ adapter.media = "live" =>
       \E m \in Media : session[m].listed \/ (session[m].seen /\ session[m].closing)

\* While a media-session is open and subscribed, its connection has a captions channel,
\* or one that is gone whose watchdog has yet to open another: no order of drops,
\* reconnects, closes and language changes ends the chain of watchdogs under a session
\* that needs it. It rests on CreateFails = FALSE (main.ts:402-425).
CaptionsKept ==
  \A m \in Media :
    session[m].listed /\ session[m].state = "open" /\ session[m].subscribed =>
      \E label \in Label : captions[session[m].pc][label].live + captions[session[m].pc][label].gone > 0
=============================================================================
