----------------------------- MODULE WireDecoding -----------------------------
(***************************************************************************)
(* The protobuf codec of Meet's data channels (meet-rtc/proto.ts) and the  *)
(* parsers of its name RPCs (meet-rtc/identity.ts), over frames as the     *)
(* field trees that readTag and skip walk.                                 *)
(*                                                                         *)
(* The wire does not tell a string from a submessage, so a length-delimited *)
(* field has both readings: a submessage read as text is Garbage, and a    *)
(* string read as a submessage is malformed, as "spaces/..." is: its first *)
(* byte, 's', is a tag of wire type 3.                                     *)
(***************************************************************************)
EXTENDS Integers, Sequences, FiniteSets, SequencesExt

CONSTANTS
  DevicePath,   \* strings of the form spaces/<id>/devices/<n>
  NameLike      \* strings that looksLikeName accepts

Absent == -1                                  \* undefined, of a number
Garbage == "the bytes of a submessage"

ASSUME StringAssumption ==
  /\ DevicePath \subseteq STRING \ {"", Garbage}
  /\ NameLike \subseteq STRING \ {"", " ", Garbage, "users/me"}

\* What Make makes of every element of s, in order, and at most one x.
Gather(s, Make(_)) == FlattenSeq([i \in DOMAIN s |-> Make(s[i])])
Maybe(cond, x) == IF cond THEN <<x>> ELSE <<>>

\* writeVarint: seven bits a byte, the lowest first, the top bit on all but the last.
writeVarint[n \in Nat] ==
  IF n > 127 THEN <<(n % 128) + 128>> \o writeVarint[n \div 128] ELSE <<n>>

\* readVarint: up to the first byte without its top bit; multiplied, never shifted.
readVarint(bytes) ==
  LET last == CHOOSE i \in DOMAIN bytes :
                /\ bytes[i] < 128 \/ i = Len(bytes)
                /\ \A j \in 1..(i - 1) : bytes[j] >= 128
      value[i \in 1..(last + 1)] ==
        IF i > last THEN 0 ELSE (bytes[i] % 128) + 128 * value[i + 1]
  IN  value[1]

Malformed == [n |-> 0, wire |-> "undefined", int |-> <<>>, str |-> "", sub |-> <<>>]
Num(n, v) == [n |-> n, wire |-> "varint", int |-> writeVarint[v], str |-> "", sub |-> <<>>]
Str(n, s) == [n |-> n, wire |-> "len", int |-> <<>>, str |-> s, sub |-> <<Malformed>>]
Sub(n, m) == [n |-> n, wire |-> "len", int |-> <<>>, str |-> Garbage, sub |-> m]

-----------------------------------------------------------------------------
\* Reading one level: skip throws at an undefined wire type, and what was read
\* before it is kept or not as the caller's try/catch has it.

Clean(m) == \A i \in DOMAIN m : m[i].wire # "undefined"

UpToMalformed(m) ==
  SubSeq(m, 1, Cardinality({i \in DOMAIN m : Clean(SubSeq(m, 1, i))}))

Fields(m, n, wire) == Gather(m, LAMBDA f : Maybe(f.n = n /\ f.wire = wire, f))
Subs(m, n) == [i \in DOMAIN Fields(m, n, "len") |-> Fields(m, n, "len")[i].sub]

\* The last of a repeated field is the one that counts.
strOf(m, n) == LET s == Fields(m, n, "len") IN IF s = <<>> THEN "" ELSE Last(s).str
intOf(m, n) ==
  LET s == Fields(m, n, "varint") IN IF s = <<>> THEN Absent ELSE readVarint(Last(s).int)

Down(level, n) == Gather(level, LAMBDA m : Subs(m, n))
Levels(m, path) ==
  LET level[k \in 0..Len(path)] == IF k = 0 THEN <<m>> ELSE Down(level[k - 1], path[k])
  IN  level
CleanAlong(m, path) ==
  \A k \in 0..Len(path) : \A i \in DOMAIN Levels(m, path)[k] : Clean(Levels(m, path)[k][i])

-----------------------------------------------------------------------------
\* Captions.

decodeTranscriptMessage(m) ==
  [deviceId |-> strOf(m, 1), messageId |-> intOf(m, 2),
   messageVersion |-> intOf(m, 3), text |-> strOf(m, 6)]

\* decodeTranscriptWrapper: a frame with field 2 is no transcript.
decodeTranscriptWrapper(m) ==
  IF CleanAlong(m, <<1>>) /\ Subs(m, 1) # <<>> /\ Fields(m, 2, "len") = <<>>
  THEN <<decodeTranscriptMessage(Last(Subs(m, 1)))>>
  ELSE <<>>

\* decodeV2Entry with decodeV2Payload: nothing unless it carries text.
decodeV2Entry(m) ==
  LET payload == FlattenSeq(Subs(m, 3))
  IN  IF strOf(payload, 3) = "" THEN <<>>
      ELSE <<[deviceId |-> strOf(payload, 6), messageId |-> intOf(m, 1),
              messageVersion |-> intOf(m, 2), text |-> strOf(payload, 3)]>>

decodeV2Envelope(m) == Gather(Subs(m, 1), decodeV2Entry)

decodeTranscriptV2(m) ==
  IF CleanAlong(m, <<1, 1, 3>>)
  THEN Gather(Subs(m, 1), decodeV2Envelope)
  ELSE <<>>

decodeCaptions(m) ==
  LET v2 == decodeTranscriptV2(m) IN IF v2 # <<>> THEN v2 ELSE decodeTranscriptWrapper(m)

\* Everything the feed needs of a caption (channels.ts).
isUsableCaption(c) ==
  c.text # "" /\ c.deviceId # "" /\ c.messageId # Absent /\ c.messageVersion # Absent

carriesCaptions(list) ==
  \E i \in DOMAIN list :
    isUsableCaption(list[i]) /\ list[i].deviceId \in DevicePath \cup {Garbage}

-----------------------------------------------------------------------------
\* Chat and the roster, both on the collections channel.

\* walkLen: the first occurrence; of none, an empty message stands for null.
walkLen(m, n) ==
  LET s == Subs(UpToMalformed(m), n) IN IF s = <<>> THEN <<>> ELSE s[1]

\* deviation: the roster decoders follow the first occurrence only.
deviationFirstOnly(m, n) == LET s == Fields(UpToMalformed(m), n, "len")
                            IN  SubSeq(s, 1, IF s = <<>> THEN 0 ELSE 1)

\* walkLenAll: every occurrence at this level, those behind a malformed field lost.
walkLenAll(m, n) == Fields(UpToMalformed(m), n, "len")

\* The message at the end of the path, by first occurrences.
walkPath(m, path) ==
  LET at[k \in 0..Len(path)] == IF k = 0 THEN m ELSE walkLen(at[k - 1], path[k])
  IN  at[Len(path)]

\* walkPathAll: the fields at the end of the path, branching at every occurrence.
walkPathAll(m, path) ==
  LET level[k \in 0..Len(path)] ==
        IF k = 0 THEN <<Sub(0, m)>>
        ELSE Gather(level[k - 1], LAMBDA f : walkLenAll(f.sub, path[k]))
  IN  level[Len(path)]

firstSubString(m) == LET s == Fields(m, 1, "len") IN IF s = <<>> THEN "" ELSE s[1].str

decodeChatMessage(m) ==
  [messageId |-> strOf(m, 1), deviceId |-> strOf(m, 2),
   text   |-> IF Subs(m, 5) = <<>> THEN "" ELSE firstSubString(Last(Subs(m, 5))),
   sender |-> IF Subs(m, 8) = <<>> THEN "" ELSE firstSubString(Last(Subs(m, 8)))]

\* decodeCollectionsChat: the messages up to the first that does not parse.
decodeCollectionsChat(m) ==
  LET nodes == Subs(UpToMalformed(walkPath(m, <<1, 2, 13, 4>>)), 2)
      parse(i) == CleanAlong(nodes[i], <<5>>) /\ CleanAlong(nodes[i], <<8>>)
      upTo == Cardinality({i \in DOMAIN nodes : \A j \in 1..i : parse(j)})
      read == [i \in 1..upTo |-> decodeChatMessage(nodes[i])]
  IN  Gather(read, LAMBDA p : Maybe(p.deviceId # "" /\ p.text # "", p))

\* decodeOutgoingChat: the own message as it is sent, with its client timestamp.
decodeOutgoingChat(m) ==
  LET node == walkPath(m, <<1, 1, 3, 1, 2>>)
      text == IF Subs(node, 5) = <<>> THEN "" ELSE firstSubString(Last(Subs(node, 5)))
  IN  IF CleanAlong(node, <<5>>) /\ text # ""
      THEN <<[text |-> text, sentAt |-> intOf(node, 3)]>> ELSE <<>>

Left == 6                                     \* ROSTER_STATE_LEFT
Blank == {"", " "}

\* decodeLeaf: a device with its full name or, that blank, its display name.
decodeLeaf(m) ==
  LET name == IF strOf(m, 2) \notin Blank THEN strOf(m, 2) ELSE strOf(m, 29)
  IN  IF Fields(m, 1, "len") = <<>> \/ name \in Blank THEN <<>>
      ELSE <<[deviceId |-> strOf(m, 1), deviceName |-> name, state |-> intOf(m, 4)]>>

\* decodeRoster: both forms; a leaf that does not parse ends its own form only.
decodeRoster(m) ==
  LET leaves(path) == [i \in DOMAIN walkPathAll(m, path) |-> walkPathAll(m, path)[i].sub]
      upTo(s) == Cardinality({i \in DOMAIN s : \A j \in 1..i : Clean(s[j])})
      read(s) == Gather(SubSeq(s, 1, upTo(s)), decodeLeaf)
  IN  read(leaves(<<2, 2, 2>>)) \o read(leaves(<<1, 2, 13, 1, 2>>))

\* decodeRosterLeave: a bare device id where a join has its leaf.
decodeRosterLeave(m) ==
  Gather(walkPathAll(m, <<1, 2, 13, 1, 3>>), LAMBDA f : Maybe(f.str # "", f.str))

-----------------------------------------------------------------------------
\* The media-session packets we send, and Meet's counters read off its own.

buildSubscribe(op, lang) ==
  LET captionConfig == <<Str(1, lang), Str(2, lang)>>
      captionUpdate == <<Sub(1, <<Sub(9, captionConfig)>>),
                         Sub(2, <<Str(1, "client_config.caption_config")>>)>>
  IN  <<Sub(1, <<Sub(2, <<Num(1, op), Sub(3, captionUpdate)>>)>>)>>

buildAck(seq) == <<Sub(1, <<Sub(1, <<Num(2, seq), Num(3, 1)>>)>>)>>

\* The first varint `inner` of the submessages `outer` of the packet's first field.
readNested(m, outer, inner) ==
  LET bodies == IF m = <<>> \/ m[1].n # 1 THEN <<>> ELSE Subs(UpToMalformed(m[1].sub), outer)
      found == Fields(UpToMalformed(FlattenSeq(bodies)), inner, "varint")
  IN  IF found = <<>> THEN Absent ELSE readVarint(found[1].int)

readNestedOp(m) == readNested(m, 2, 1)
readNestedSeq(m) == readNested(m, 1, 2)

-----------------------------------------------------------------------------
\* Names out of the RPC bodies (identity.ts). Here the first of a repeated field counts.

firstOf(m, n) == LET s == Fields(UpToMalformed(m), n, "len") IN IF s = <<>> THEN "" ELSE s[1].str

IsPair(m) == firstOf(m, 1) \in DevicePath /\ firstOf(m, 2) \in NameLike
Pair(m) == [deviceId |-> firstOf(m, 1), deviceName |-> firstOf(m, 2)]

extractSelfDevice(m) == IF IsPair(m) THEN <<Pair(m)>> ELSE <<>>

MaxDepth == 12

\* extractRosterPairs: every submessage that pairs a device with a name, 12 levels down.
extractRosterPairs(m) ==
  LET below(ms) == UNION {ToSet([i \in DOMAIN UpToMalformed(x) |-> UpToMalformed(x)[i].sub]) :
                          x \in ms}
      reached[d \in 0..MaxDepth] ==
        IF d = 0 THEN {m} ELSE LET higher == reached[d - 1] IN higher \cup below(higher)
  IN  {Pair(x) : x \in {y \in reached[MaxDepth] : IsPair(y)}}

\* extractSelfName: the first name-like string, one level of submessages included.
extractSelfName(m) ==
  LET names(x) == Gather(UpToMalformed(x), LAMBDA f : Maybe(f.str \in NameLike, f.str))
      all == Gather(UpToMalformed(m),
                    LAMBDA f : IF f.str \in NameLike THEN <<f.str>> ELSE names(f.sub))
  IN  IF all = <<>> THEN "" ELSE all[1]
=============================================================================
