----------------------------- MODULE SessionWriter -----------------------------
(***************************************************************************)
(* content/core/persistence.ts: the debounced writer of one meeting's         *)
(* session, the two transports the Meet adapter gives it (chrome.storage and  *)
(* the relay through the page), and the adapter code around it that ends a    *)
(* meeting and tells the user what became of capture.                        *)
(*                                                                         *)
(* A snapshot is the version of the session object it was taken at.  Each     *)
(* action runs to the next await.  "chain" holds the links of the promise     *)
(* chain that have not begun, "link" the one that has.                       *)
(***************************************************************************)
EXTENDS Naturals, Sequences

CONSTANTS
    None,           \* no link is under way
    ContextMayDie,  \* an update can sever the script's chrome.* handle
    WritesMayFail,  \* a write can fail for a passing reason
    RelayMayStall,  \* a relayed write can stay unanswered past its timeout
    RelayMayDie,    \* the extension can go for good, and the relay with it
    MaxVersion      \* bound: changes to the session

Purposes == {"debounced", "final"}
Link == [for: Purposes, snapshot: Nat, via: {"storage", "relay"}, sent: BOOLEAN]

ASSUME WriterFlags ==
    /\ ContextMayDie \in BOOLEAN /\ WritesMayFail \in BOOLEAN
    /\ RelayMayStall \in BOOLEAN /\ RelayMayDie \in BOOLEAN
ASSUME VersionAssumption == MaxVersion \in Nat
ASSUME NoLinkAssumption  == None \notin Link

VARIABLES
    version,        \* of the session object in the page
    stored,         \* the version under the session key, 0 before the first write
    (* SessionWriter *)
    timer, dirty,   \* the debounce timer is armed; a request came meanwhile ("pending")
    closed, usingFallback, notified,
    chain, link,
    (* the transports *)
    alive,          \* chrome.* works in this script
    armed,          \* the relay was armed when the meeting began: there is a fallback
    relayUp,        \* the relay can be reached
    wire,           \* relayed snapshots not yet handled, oldest first
    (* the adapter *)
    page,           \* "meeting", "flushing", "writing" (awaiting writeNow), "closed"
    told,           \* what onContextInvalidated told the user
    saved           \* the last finished link stored its snapshot

writer    == <<timer, dirty, closed, usingFallback, notified, chain, link>>
transport == <<alive, armed, relayUp, wire>>
vars      == <<version, stored, writer, transport, page, told, saved>>

Init ==
    /\ version = 1
    /\ stored = 0
    /\ timer = TRUE /\ dirty = FALSE    \* runMeeting requests the first write at once
    /\ closed = FALSE /\ usingFallback = FALSE /\ notified = FALSE
    /\ chain = <<"debounced">>
    /\ link = None
    /\ armed \in BOOLEAN                 \* armRelay is best-effort
    /\ alive = TRUE /\ relayUp = armed /\ wire = << >>
    /\ page = "meeting"
    /\ told = "nothing"
    /\ saved = TRUE

-------------------------------------------------------------------------------
(*                             Requests and the timer                       *)

RequestForgotten ==     \* deviation: a request while the timer runs is dropped
    IF closed \/ timer THEN UNCHANGED <<timer, dirty, chain>>
    ELSE /\ timer' = TRUE
         /\ chain' = Append(chain, "debounced")
         /\ UNCHANGED dirty

(* requestWrite *)
Request ==
    IF closed THEN UNCHANGED <<timer, dirty, chain>>
    ELSE IF timer THEN dirty' = TRUE /\ UNCHANGED <<timer, chain>>
    ELSE /\ timer' = TRUE
         /\ chain' = Append(chain, "debounced")
         /\ UNCHANGED dirty

(* A caption, a note, a name: the session changes and its write is requested. *)
Change ==
    /\ page \in {"meeting", "flushing"}
    /\ version < MaxVersion
    /\ version' = version + 1
    /\ Request
    /\ UNCHANGED <<stored, closed, usingFallback, notified, link, transport, page, told,
                   saved>>

TimerFires ==
    /\ timer
    /\ IF dirty
       THEN /\ dirty' = FALSE
            /\ chain' = Append(chain, "debounced")
            /\ UNCHANGED timer
       ELSE /\ timer' = FALSE
            /\ UNCHANGED <<dirty, chain>>
    /\ UNCHANGED <<version, stored, closed, usingFallback, notified, link, transport, page, told,
                   saved>>

-------------------------------------------------------------------------------
(*                              The promise chain                           *)

SendEmpty(via, snapshot) ==     \* deviation: the relayed message leaves the session out
    wire' = IF via = "relay" /\ relayUp THEN Append(wire, None) ELSE wire

Send(via, snapshot) ==
    wire' = IF via = "relay" /\ relayUp THEN Append(wire, snapshot) ELSE wire

(* A link begins when the one before it has settled; it takes its snapshot     *)
(* then, not when it was requested.                                          *)
StartLink ==
    /\ chain # << >>
    /\ link = None
    /\ LET via == IF usingFallback THEN "relay" ELSE "storage"
       IN  /\ link' = [for |-> Head(chain), snapshot |-> version, via |-> via, sent |-> alive]
           /\ Send(via, version)
    /\ chain' = Tail(chain)
    /\ UNCHANGED <<version, stored, timer, dirty, closed, usingFallback, notified, alive, armed,
                   relayUp, page, told, saved>>

(* onContextInvalidated: the user is told once. *)
Announce(recovered) ==
    told' = IF told # "nothing" THEN told ELSE IF recovered THEN "recovered" ELSE "stopped"

(* The link settles; the one writeNow awaits lets endMeeting go on to close(). *)
Settle ==
    IF link.for = "final"
    THEN page' = "closed" /\ closed' = TRUE /\ timer' = FALSE /\ dirty' = FALSE
    ELSE UNCHANGED <<page, closed, timer, dirty>>

Landed ==
    /\ link' = None
    /\ saved' = TRUE
    /\ Settle

(* An ordinary failure is logged and swallowed. *)
Failed ==
    /\ link' = None
    /\ saved' = FALSE
    /\ Settle

SealedQuietly ==    \* deviation: nobody is told
    /\ link' = None /\ saved' = FALSE /\ Settle
    /\ notified' = TRUE
    /\ UNCHANGED told

(* seal(): nowhere left to write. *)
Sealed ==
    /\ link' = None
    /\ saved' = FALSE
    /\ page' = IF link.for = "final" THEN "closed" ELSE page
    /\ IF notified
       THEN /\ closed' = (closed \/ link.for = "final")
            /\ timer' = (timer /\ link.for # "final")
            /\ dirty' = (dirty /\ link.for # "final")
            /\ UNCHANGED <<notified, told>>
       ELSE /\ notified' = TRUE
            /\ closed' = TRUE /\ timer' = FALSE /\ dirty' = FALSE
            /\ Announce(FALSE)

StorageLands ==
    /\ link # None
    /\ link.via = "storage"
    /\ alive
    /\ stored' = link.snapshot
    /\ Landed
    /\ UNCHANGED <<version, usingFallback, notified, chain, transport, told>>

FailureSeals ==         \* deviation: any failed write is taken for a dead context
    /\ WritesMayFail
    /\ link # None
    /\ link.via = "storage"
    /\ alive
    /\ Sealed
    /\ UNCHANGED <<version, stored, usingFallback, chain, transport>>

StorageFails ==
    /\ WritesMayFail
    /\ link # None
    /\ link.via = "storage"
    /\ alive
    /\ Failed
    /\ UNCHANGED <<version, stored, usingFallback, notified, chain, transport, told>>

(* The context died: the same snapshot goes over the relay within the link,   *)
(* or, without one, the writer seals.  A write issued before may have landed. *)
Failover ==
    /\ link # None
    /\ link.via = "storage"
    /\ ~alive
    /\ armed
    /\ stored' \in {stored, IF link.sent THEN link.snapshot ELSE stored}
    /\ usingFallback' = TRUE
    /\ Announce(TRUE)
    /\ link' = [link EXCEPT !.via = "relay"]
    /\ Send("relay", link.snapshot)
    /\ UNCHANGED <<version, timer, dirty, closed, notified, chain, alive, armed, relayUp,
                   page, saved>>

StorageDead ==
    /\ link # None
    /\ link.via = "storage"
    /\ ~alive
    /\ ~armed
    /\ stored' \in {stored, IF link.sent THEN link.snapshot ELSE stored}
    /\ Sealed
    /\ UNCHANGED <<version, usingFallback, chain, transport>>

(* The worker handles the oldest relayed snapshot.  Only the newest one can    *)
(* still be awaited, and its answer can come in time or not.                  *)
RelayLands ==
    /\ relayUp
    /\ wire # << >>
    /\ stored' = Head(wire)
    /\ wire' = Tail(wire)
    /\ \/ /\ link # None /\ link.via = "relay" /\ Len(wire) = 1
          /\ Landed
       \/ /\ Len(wire) > 1 \/ link = None \/ RelayMayStall
          /\ UNCHANGED <<link, saved, page, closed, timer, dirty>>
    /\ UNCHANGED <<version, usingFallback, notified, chain, alive, armed, relayUp, told>>

(* The worker refuses it, or the storage write behind it fails. *)
RelayRefuses ==
    /\ WritesMayFail
    /\ relayUp
    /\ wire # << >>
    /\ wire' = Tail(wire)
    /\ IF link # None /\ link.via = "relay" /\ Len(wire) = 1
       THEN Failed
       ELSE UNCHANGED <<link, saved, page, closed, timer, dirty>>
    /\ UNCHANGED <<version, stored, usingFallback, notified, chain, alive, armed, relayUp, told>>

NeverTimesOut == FALSE /\ UNCHANGED vars  \* deviation: a lost answer is waited for

RelayTimesOut ==
    /\ RelayMayStall
    /\ link # None
    /\ link.via = "relay"
    /\ Failed
    /\ UNCHANGED <<version, stored, usingFallback, notified, chain, transport, told>>

(* Nobody is left at the far end: the page gets no reply to its message, which  *)
(* main.ts passes on as a plain refusal and the writer takes for a passing one. *)
RelayDead ==
    /\ link # None
    /\ link.via = "relay"
    /\ ~relayUp
    /\ Failed
    /\ UNCHANGED <<version, stored, usingFallback, notified, chain, transport, told>>

-------------------------------------------------------------------------------
(*                         The meeting, and the update                      *)

(* endMeeting requests a write, waits for the last captions, takes the session   *)
(* together once more, and awaits writeNow; a sealed writer's returns at once.  *)
EndMeeting ==
    /\ page = "meeting"
    /\ page' = "flushing"
    /\ Request
    /\ UNCHANGED <<version, stored, closed, usingFallback, notified, link, transport, told, saved>>

(* Names the roster learned and the diagnostics so far, without a request.     *)
LastSnapshot ==
    \/ version' = version
    \/ version < MaxVersion /\ version' = version + 1

WriteNowBehindTimer ==  \* deviation: an armed trailing write counts as the final one
    /\ page = "flushing"
    /\ IF closed \/ timer
       THEN page' = "closed" /\ closed' = TRUE /\ UNCHANGED <<timer, dirty, chain>>
       ELSE /\ page' = "writing"
            /\ timer' = FALSE /\ dirty' = FALSE
            /\ chain' = Append(chain, "final")
            /\ UNCHANGED closed
    /\ LastSnapshot
    /\ UNCHANGED <<stored, usingFallback, notified, link, transport, told, saved>>

WriteNowTimerLeft ==    \* deviation: the timer is not cleared before the final write
    /\ page = "flushing"
    /\ IF closed
       THEN page' = "closed" /\ UNCHANGED chain
       ELSE page' = "writing" /\ chain' = Append(chain, "final")
    /\ LastSnapshot
    /\ UNCHANGED <<stored, timer, dirty, closed, usingFallback, notified, link, transport, told,
                   saved>>

WriteNow ==
    /\ page = "flushing"
    /\ IF closed
       THEN page' = "closed" /\ UNCHANGED <<timer, dirty, chain>>
       ELSE /\ page' = "writing"
            /\ timer' = FALSE /\ dirty' = FALSE
            /\ chain' = Append(chain, "final")
    /\ LastSnapshot
    /\ UNCHANGED <<stored, closed, usingFallback, notified, link, transport, told, saved>>

Orphaned ==
    /\ ContextMayDie
    /\ alive
    /\ alive' = FALSE
    /\ UNCHANGED <<version, stored, writer, armed, relayUp, wire, page, told, saved>>

RelayGone ==
    /\ RelayMayDie
    /\ relayUp
    /\ relayUp' = FALSE
    /\ UNCHANGED <<version, stored, writer, alive, armed, wire, page, told, saved>>

Transport ==
    \/ StorageLands \/ StorageFails \/ Failover \/ StorageDead
    \/ RelayLands \/ RelayRefuses \/ RelayTimesOut \/ RelayDead

Next ==
    \/ Change \/ TimerFires \/ StartLink \/ Transport
    \/ EndMeeting \/ WriteNow \/ Orphaned \/ RelayGone

Spec == Init /\ [][Next]_vars

(* A write that began settles (the relay has a timeout for that), timers fire,  *)
(* and promise continuations run.                                            *)
Fairness == WF_vars(StartLink) /\ WF_vars(Transport) /\ WF_vars(TimerFires) /\ WF_vars(WriteNow)

FairSpec == Spec /\ Fairness

-------------------------------------------------------------------------------
(*                                Properties                                *)

TypeOK ==
    /\ version \in Nat /\ stored \in Nat
    /\ timer \in BOOLEAN /\ dirty \in BOOLEAN /\ closed \in BOOLEAN
    /\ usingFallback \in BOOLEAN /\ notified \in BOOLEAN
    /\ alive \in BOOLEAN /\ armed \in BOOLEAN /\ relayUp \in BOOLEAN /\ saved \in BOOLEAN
    /\ chain \in Seq(Purposes)
    /\ link \in Link \cup {None}
    /\ wire \in Seq(Nat)
    /\ page \in {"meeting", "flushing", "writing", "closed"}
    /\ told \in {"nothing", "recovered", "stopped"}

(* Writes are serialized so an older snapshot can never overwrite a newer one, *)
(* across both transports and a failover between them, and nothing writes the  *)
(* key after the meeting but what was already on its way (persistence.ts).     *)
Phase == IF page # "closed" THEN "open"
         ELSE IF wire # << >> /\ relayUp THEN "draining" ELSE "done"

Register == INSTANCE LatestSnapshot WITH phase <- Phase

OnlyNewer == Register!Spec

(* No change is left behind: an idle writer has stored the newest version, or   *)
(* a timer is armed that will write it, or the last write failed.             *)
NothingForgotten ==
    link = None /\ chain = << >> /\ ~closed => stored = version \/ (timer /\ dirty) \/ ~saved

(* When writeNow returns, finalize finds the last words in storage, a failover  *)
(* in the middle of the write included; only a failed write excuses it.        *)
FinalWriteComplete == page = "closed" => stored = version \/ ~saved

(* The writer gives up on a meeting only when no transport is left.            *)
GivesUpOnlyWhenDead == closed /\ page # "closed" => ~alive /\ ~relayUp

(* When the writer stops, the user has been told that the meeting is no longer  *)
(* saved, and not that it still is (persistence.ts seal, meet.ts                *)
(* onContextInvalidated, which says only one thing).                          *)
StoppedIsTold == notified => told = "stopped"

(* A write that fails with nowhere left to write leaves the user told that the  *)
(* meeting is no longer saved (persistence.ts seal, meet.ts onContextInvalidated). *)
NowhereLeftIsTold ==
    [][link # None /\ link' = None /\ ~saved' /\ ~alive /\ ~relayUp => told' = "stopped"]_vars

(* A lost answer cannot wedge the write chain: the end of the meeting always    *)
(* gets past writeNow, to the finalize.                                      *)
EndIsNotWedged == page = "flushing" ~> page = "closed"

-------------------------------------------------------------------------------
(* The inductive form of the safety properties.                              *)

(* Versions only grow along the way a snapshot takes: stored, relayed, under    *)
(* way, current.  A relayed link awaits the newest snapshot on the wire.       *)
InOrder ==
    /\ stored <= version
    /\ \A i \in DOMAIN wire : stored <= wire[i] /\ wire[i] <= version
    /\ \A i, j \in DOMAIN wire : i <= j => wire[i] <= wire[j]
    /\ link # None =>
         /\ stored <= link.snapshot /\ link.snapshot <= version
         /\ \A i \in DOMAIN wire : wire[i] <= link.snapshot
         /\ link.via = "relay" /\ relayUp /\ wire # << >> => wire[Len(wire)] = link.snapshot

(* One transport at a time: the relay only once the context is dead.           *)
OneTransport ==
    /\ usingFallback => ~alive /\ armed
    /\ ~usingFallback => wire = << >>
    /\ relayUp => armed
    /\ link # None => (link.via = "relay" <=> usingFallback)

(* The final link is the last of the chain, and takes the last version.        *)
FinalIsLast ==
    LET awaited == \/ chain # << >> /\ chain[Len(chain)] = "final"
                         /\ (link # None => link.for = "debounced")
                   \/ chain = << >> /\ link # None /\ link.for = "final" /\ link.snapshot = version
    IN  /\ \A i \in DOMAIN chain : i < Len(chain) => chain[i] = "debounced"
        /\ page = "writing" => awaited /\ ~timer
        /\ page # "writing" => /\ \A i \in DOMAIN chain : chain[i] = "debounced"
                               /\ link # None => link.for = "debounced"

(* The writer closes with the meeting, or seals because nothing is left; then    *)
(* whatever the chain still holds goes nowhere.                               *)
Closing ==
    /\ closed => ~timer /\ (page = "closed" \/ notified)
    /\ notified => /\ closed /\ ~alive /\ ~relayUp /\ ~saved
                   /\ link # None /\ link.via = "storage" => ~link.sent
    /\ page = "closed" => /\ closed
                          /\ stored = version \/ ~saved
                          /\ ~notified => chain = << >> /\ link = None

Pending ==
    ~closed /\ chain = << >> =>
        \/ link # None /\ link.snapshot = version
        \/ timer /\ dirty
        \/ link = None /\ (stored = version \/ ~saved)

WriterInv == InOrder /\ OneTransport /\ FinalIsLast /\ Closing /\ Pending
===============================================================================
