------------------------------ MODULE WireReader ------------------------------
(***************************************************************************)
(* The consumers that meet-rtc/main.ts hangs on Meet's channels and RPCs:  *)
(* what Meet packs goes out as a frame, and the consumer of its channel    *)
(* dispatches events to the adapter. Packing is external: frames have the  *)
(* nesting that the comments and tests of the decoders give.               *)
(*                                                                         *)
(* `events` is what the last frame made a consumer dispatch, `packed` what *)
(* it was made of, said without the codec; the two have to agree.          *)
(***************************************************************************)
EXTENDS WireDecoding

CONSTANTS
  Caption,      \* complete captions: [deviceId, messageId, messageVersion, text]
  Participant,  \* [deviceId, deviceName]
  Message,      \* chat: [messageId, deviceId, text, sender]
  Own,          \* chat of the local user: [text, sentAt]
  Counter,      \* op and seq values
  MaxBatch      \* bound: the records, messages or captions of one frame

\* Names and texts are not empty, and numbers are what a varint can carry.
ASSUME WireAssumption ==
  /\ Caption \subseteq [deviceId : DevicePath, messageId : Nat, messageVersion : Nat,
                        text : STRING \ {""}]
  /\ Participant \subseteq [deviceId : DevicePath, deviceName : NameLike]
  /\ Message \subseteq [messageId : STRING, deviceId : DevicePath, text : STRING \ {""},
                        sender : STRING]
  /\ Own \subseteq [text : STRING \ {""}, sentAt : Nat]
  /\ Counter \subseteq Nat
  /\ MaxBatch \in Nat

VARIABLES
  session,          \* Meet's own counters on the media-session channel: [op, seq]
  self,             \* [name |-> lastSelfName, deviceId |-> lastSelfDeviceId]
  dispatchedRoster, \* pairs the roster RPC has dispatched
  events,           \* what the last frame made the consumer dispatch
  packed            \* history: what it should have

wireVars == <<session, self, dispatchedRoster, events, packed>>

WireInit ==
  /\ session = [op |-> 0, seq |-> 0]
  /\ self = [name |-> "", deviceId |-> ""]
  /\ dispatchedRoster = {}
  /\ events = <<>>
  /\ packed = <<>>

-----------------------------------------------------------------------------
\* Events to the adapter, and what a consumer makes of one frame.

Told(c) == [type |-> "transcript", caption |-> c]
Device(p) == [type |-> "device", deviceId |-> p.deviceId, deviceName |-> p.deviceName]
DeviceLeave(id, name) == [type |-> "device-leave", deviceId |-> id, deviceName |-> name]
Chat(p) == [type |-> "chat", message |-> p]

Each(list, Event(_)) == [i \in DOMAIN list |-> Event(list[i])]

\* consumeCaptions: what the feed cannot use is dropped, caption by caption.
consumeCaptions(list) == Gather(list, LAMBDA c : Maybe(isUsableCaption(c), Told(c)))

\* handleRoster: state 6 is a leave, and so is a bare device id, said again or not.
handleRoster(m) ==
  LET event(e) == IF e.state = Left THEN DeviceLeave(e.deviceId, e.deviceName) ELSE Device(e)
      gone(id) == DeviceLeave(id, "")
  IN  Gather(decodeRoster(m), LAMBDA e : Maybe(e.deviceId # "", event(e)))
        \o Each(decodeRosterLeave(m), gone)

handleChat(m) == Each(decodeCollectionsChat(m), Chat)
handleCollections(m) == handleRoster(m) \o handleChat(m)

\* A channel with a label nobody knows: read only once it has carried a caption.
handleUnknown(m) ==
  LET decoded == decodeCaptions(m)
  IN  IF carriesCaptions(decoded) THEN consumeCaptions(decoded) ELSE <<>>

-----------------------------------------------------------------------------
\* External: frames as Meet packs them.

Lines == Caption \X {"said", "ack", "textless"}      \* the entries of a v2 frame
Broken == {"nowhere", "frame", "envelope", "entry"}  \* where a field is malformed
Also(place, at) == IF place = at THEN <<Malformed>> ELSE <<>>

V1Frame(c) ==
  <<Sub(1, <<Str(1, c.deviceId), Num(2, c.messageId), Num(3, c.messageVersion),
             Str(6, c.text), Num(8, 1)>>)>>
V1Ack(c) == V1Frame(c) \o <<Str(2, "ack")>>

V2Entry(line, broken) ==
  LET c == line[1]
      payload == (IF line[2] = "said" THEN <<Str(3, c.text)>> ELSE <<>>)
                   \o <<Str(4, "ru-RU"), Str(5, "ru-RU"), Str(6, c.deviceId), Num(9, 1)>>
  IN  <<Num(1, c.messageId), Num(2, c.messageVersion)>>
        \o (IF line[2] = "ack" THEN <<Num(3, 1)>> ELSE <<Sub(3, payload)>>)
        \o Also("entry", broken)

V2Frame(lines, broken) ==
  <<Sub(1, [i \in DOMAIN lines |-> Sub(1, V2Entry(lines[i], broken))]
             \o <<Sub(6, <<Num(1, 200)>>)>> \o Also("envelope", broken))>>
    \o Also("frame", broken)

\* A device record: as it joins or is updated, with a guest's display name only,
\* without a name, as it leaves, and the bare id of the late removal.
Records == Participant \X {"present", "guest", "nameless", "left", "removed"}

Leaf(r) ==
  LET p == r[1] IN
  <<Str(1, p.deviceId)>>
    \o (CASE r[2] = "guest" -> <<Str(2, ""), Str(29, p.deviceName)>>
          [] r[2] = "nameless" -> <<>>
          [] OTHER -> <<Str(2, p.deviceName)>>)
    \o <<Num(4, IF r[2] = "left" THEN Left ELSE 1)>>
Node(r) == IF r[2] = "removed" THEN <<Sub(1, <<Num(1, 46)>>), Str(3, r[1].deviceId)>>
           ELSE <<Sub(1, <<Num(1, 43)>>), Sub(2, Leaf(r))>>
MessageNode(p) ==
  <<Str(1, p.messageId), Str(2, p.deviceId), Sub(5, <<Str(1, p.text)>>), Sub(8, <<Str(1, p.sender)>>)>>

\* The single-device form repeats its records at the top or side by side; the
\* collection form batches leaves, of devices present.
SingleForm(records, messages, repeated, broken) ==
  LET nodes == [i \in DOMAIN records |-> Sub(1, Node(records[i]))]
      chat == IF messages = <<>> THEN <<>>
              ELSE <<Sub(4, <<Sub(1, <<Num(1, 44)>>)>>
                              \o [i \in DOMAIN messages |-> Sub(2, MessageNode(messages[i])) ])>>
      packet(inner) == Sub(1, <<Sub(2, <<Sub(13, inner \o Also("envelope", broken))>>)>>)
  IN  (IF repeated = "outer" /\ nodes # <<>>
       THEN [i \in DOMAIN nodes |-> packet(IF i = 1 THEN <<nodes[1]>> \o chat ELSE <<nodes[i]>>)]
       ELSE <<packet(nodes \o chat)>>)
        \o Also("frame", broken)
CollectionForm(records, broken) ==
  <<Sub(2, [i \in DOMAIN records |-> Sub(2, <<Sub(2, Leaf(records[i]))>>)]
             \o Also("envelope", broken))>> \o Also("frame", broken)

OwnFrame(o) ==
  <<Sub(1, <<Sub(1, <<Sub(3, <<Sub(1, <<Sub(2,
       <<Num(3, o.sentAt), Sub(5, <<Str(1, o.text)>>)>>)>>)>>)>>)>>)>>

UpTo(n, S) == UNION {[1..k -> S] : k \in 0..n}

-----------------------------------------------------------------------------
\* What a frame was packed with, said without the codec.

Said(lines) == Gather(lines, LAMBDA l : Maybe(l[2] = "said", Told(l[1])))

Known(records) ==
  LET joined(r) == IF r[2] = "left" THEN DeviceLeave(r[1].deviceId, r[1].deviceName)
                   ELSE Device(r[1])
  IN  Gather(records, LAMBDA r : Maybe(r[2] \in {"present", "guest", "left"}, joined(r)))
        \o Gather(records, LAMBDA r : Maybe(r[2] = "removed", DeviceLeave(r[1].deviceId, "")))

-----------------------------------------------------------------------------
\* One frame on a channel, or the body of one RPC.

Quiet == UNCHANGED <<session, self, dispatchedRoster>>

\* Bound: what is made of a frame on these channels depends on no state, so they are
\* read once, before any name or counter is known.
Fresh ==
  /\ events = <<>> /\ dispatchedRoster = {}
  /\ self = [name |-> "", deviceId |-> ""] /\ session = [op |-> 0, seq |-> 0]

\* The caption channels, and a channel that carries captions under another name.
CaptionsFrame ==
  /\ Fresh /\ Quiet
  /\ \E handle \in {"captions", "unknown"} :
       \/ \E c \in Caption, ack \in BOOLEAN :
            LET frame == IF ack THEN V1Ack(c) ELSE V1Frame(c) IN
            /\ events' = IF handle = "captions" THEN consumeCaptions(decodeCaptions(frame))
                         ELSE handleUnknown(frame)
            /\ packed' = IF ack THEN <<>> ELSE <<Told(c)>>
       \/ \E lines \in UpTo(MaxBatch, Lines), broken \in Broken :
            LET frame == V2Frame(lines, broken) IN
            /\ events' = IF handle = "captions" THEN consumeCaptions(decodeCaptions(frame))
                         ELSE handleUnknown(frame)
            /\ packed' = IF broken # "nowhere" THEN <<>> ELSE Said(lines)

CollectionsFrame ==
  /\ Fresh /\ Quiet
  /\ \E broken \in Broken \ {"entry"}, handle \in {"collections", "unknown"} :
       \/ \E records \in UpTo(MaxBatch, Records), messages \in UpTo(MaxBatch, Message),
             repeated \in {"outer", "node"} :
            LET frame == SingleForm(records, messages, repeated, broken) IN
            /\ events' = IF handle = "collections" THEN handleCollections(frame)
                         ELSE handleUnknown(frame)
            /\ packed' = IF handle = "unknown" THEN <<>>
                         ELSE Known(records) \o Each(messages, Chat)
       \/ \E records \in UpTo(MaxBatch, {r \in Records : r[2] # "removed"}) :
            LET frame == CollectionForm(records, broken) IN
            /\ events' = IF handle = "collections" THEN handleCollections(frame)
                         ELSE handleUnknown(frame)
            /\ packed' = IF handle = "unknown" THEN <<>> ELSE Known(records)

\* The send hook on meet_messages: attributed to what is known of the local user.
SelfOut(o) ==
  <<Chat([messageId |-> o, deviceId |-> IF self.deviceId = "" THEN "self" ELSE self.deviceId,
          text |-> o.text, sender |-> self.name])>>
OwnChatSent ==
  /\ Quiet
  /\ \E o \in Own :
       /\ LET out == decodeOutgoingChat(OwnFrame(o)) IN
          events' = IF out = <<>> THEN <<>> ELSE SelfOut(out[1])
       /\ packed' = SelfOut(o)

\* The send hook on media-session: Meet's own packets keep our counters right. They have
\* the form we build ours in; ours, Uint8Arrays, pass the hook unread.
CountersRead(m) ==
  session' = [op  |-> IF readNestedOp(m) = Absent THEN session.op ELSE readNestedOp(m),
              seq |-> IF readNestedSeq(m) = Absent THEN session.seq ELSE readNestedSeq(m)]
MediaSessionSent ==
  /\ UNCHANGED <<self, dispatchedRoster>>
  /\ \E v \in Counter, big \in BOOLEAN :
       /\ CountersRead(IF big THEN buildSubscribe(v, "ru-RU") ELSE buildAck(v))
       /\ packed' = <<IF big THEN [session EXCEPT !.op = v] ELSE [session EXCEPT !.seq = v]>>
  /\ events' = <<session'>>

\* logRpc, for the three RPCs that carry names. A name or a device the page has
\* dispatched before is not dispatched again.
SelfNamed ==
  /\ UNCHANGED <<session, dispatchedRoster>>
  /\ \E p \in Participant, nested \in BOOLEAN :
       LET body == <<Str(1, "users/me"), Str(2, p.deviceName)>>
           name == extractSelfName(IF nested THEN <<Sub(1, body)>> ELSE body)
       IN  /\ self' = [self EXCEPT !.name = IF name = "" THEN @ ELSE name]
           /\ events' = IF name \in {"", self.name} THEN <<>> ELSE <<[type |-> "self", name |-> name]>>
           /\ packed' = IF p.deviceName = self.name THEN <<>>
                        ELSE <<[type |-> "self", name |-> p.deviceName]>>

SelfDevice ==
  /\ UNCHANGED <<session, dispatchedRoster>>
  /\ \E p \in Participant :
       LET found == extractSelfDevice(<<Str(1, p.deviceId), Str(2, p.deviceName), Num(3, 1)>>)
           new == Gather(found, LAMBDA d : Maybe(d.deviceId # self.deviceId, d))
       IN  /\ self' = [self EXCEPT !.deviceId = IF new = <<>> THEN @ ELSE new[1].deviceId]
           /\ events' = Each(new, Device)
           /\ packed' = IF p.deviceId = self.deviceId THEN <<>> ELSE <<Device(p)>>

RosterSynced ==
  /\ UNCHANGED <<session, self>>
  /\ \E records \in UpTo(MaxBatch, {r \in Records : r[2] \in {"present", "nameless"}}) :
       LET pairs == extractRosterPairs(CollectionForm(records, "nowhere"))
           known == {r[1] : r \in {x \in ToSet(records) : x[2] = "present"}}
       IN  /\ dispatchedRoster' = dispatchedRoster \cup pairs
           /\ events' = <<pairs \ dispatchedRoster>>
           /\ packed' = <<known \ dispatchedRoster>>

WireNext ==
  CaptionsFrame \/ CollectionsFrame \/ OwnChatSent \/ MediaSessionSent
    \/ SelfNamed \/ SelfDevice \/ RosterSynced

WireSpec == WireInit /\ [][WireNext]_wireVars

-----------------------------------------------------------------------------
\* What Meet packed for a channel is what its consumer dispatches, all of it and in
\* order: a batch, records repeated at any level and a malformed tail lose nothing
\* that came before it; an ack, a textless revision, a half-parsed caption frame and
\* the traffic of another channel invent nothing; op and seq are never mixed up.
ReadAsPacked == events = packed
=============================================================================
