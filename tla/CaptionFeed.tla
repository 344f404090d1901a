------------------------------ MODULE CaptionFeed ------------------------------
(***************************************************************************)
(* Captions from the wire to the feed: Meet sends revisions of a message   *)
(* over the captions channels that are open, every channel decodes its     *)
(* frames in the order they came (meet-rtc/main.ts), and the feed of the   *)
(* meeting keeps the newest revision, cut into segments where another      *)
(* speaker came in between (meet-rtc/feed.ts). Actions here leave the rest *)
(* of the meeting to RtcFeed, which composes them.                         *)
(*                                                                         *)
(* A text is a sequence of words; words that Meet respells in case or      *)
(* punctuation only are the same word (normWord).                          *)
(***************************************************************************)
EXTENDS Naturals, Sequences, SequencesExt

CONSTANTS
  Key,          \* messages, a device and a messageId each: <<device, id>>
  Channel,      \* captions channels, known by their label ...
  Unknown,      \* ... and channels that only sniffing finds
  Word,
  Gap,          \* INTERRUPTION_GAP_MS, in ticks
  SniffFrames,  \* SNIFF_FRAMES
  MaxNoise      \* bound: frames on a channel that are no captions

ASSUME FeedAssumption ==
  /\ Channel \cap Unknown = {}
  /\ Gap \in Nat /\ SniffFrames \in Nat /\ MaxNoise \in Nat

VARIABLES
  meet,         \* external: [Key -> Meet's text, its version, whether it only ever grew]
  wire,         \* [channel -> frames to decode, sniffing, and what it has carried]
  captions,     \* [Key -> CaptionState, or None]
  lastDevice,   \* lastEventDeviceId
  due           \* history: [Key -> newest revision the feed was owed]

captionVars == <<meet, wire, captions, lastDevice, due>>

None == [version |-> 0, fullText |-> <<>>, lastAt |-> 0, segments |-> <<>>]
NoDevice == "no device"
Noise == [key |-> <<NoDevice, 0>>, version |-> 0, text |-> <<>>, owed |-> FALSE]

CaptionInit ==
  /\ meet = [k \in Key |-> [version |-> 0, text |-> <<>>, grown |-> TRUE]]
  /\ wire = [c \in Channel \cup Unknown |->
       [queue |-> <<>>, left |-> SniffFrames, adopted |-> c \in Channel,
        frames |-> 0, carrier |-> c \in Channel, noise |-> MaxNoise]]
  /\ captions = [k \in Key |-> None]
  /\ lastDevice = NoDevice
  /\ due = [k \in Key |-> 0]

-----------------------------------------------------------------------------
\* deviation: as many words as the base had are cut, whatever they are.
deviationCutByCount(full, base) ==
  SubSeq(full, (IF Len(base) < Len(full) THEN Len(base) ELSE Len(full)) + 1, Len(full))

\* deviation: nothing is cut, a segment repeats what the ones before it show.
deviationWhole(full, base) == full

\* suffixAfter: the words of `full` behind the longest run it begins with in `base`.
suffixAfter(full, base) ==
  LET same == {i \in 0..Len(full) : i <= Len(base) /\ SubSeq(full, 1, i) = SubSeq(base, 1, i)}
      n == CHOOSE i \in same : \A j \in same : j <= i
  IN SubSeq(full, n + 1, Len(full))

Segment(at, base, text) ==
  [startedAt |-> at, endedAt |-> at, base |-> base, text |-> text]

\* shouldSplit: another device was the last to speak, and this message was quiet.
shouldSplit(k, at) ==
  /\ lastDevice # NoDevice /\ lastDevice # k[1]
  /\ at - captions[k].lastAt >= Gap

\* handleCaption, for a revision newer than the one held.
Revised(k, version, text, at) ==
  LET c == captions[k]
      split == IF shouldSplit(k, at)
               THEN Append(c.segments, Segment(at, c.fullText, <<>>)) ELSE c.segments
      n == Len(split)
      words == suffixAfter(text, split[n].base)
      grew == Len(words) > Len(split[n].text)
  IN [version |-> version, fullText |-> text, lastAt |-> at,
      segments |-> [split EXCEPT ![n].text = words, ![n].endedAt = IF grew THEN at ELSE @]]

First(version, text, at) ==
  [version |-> version, fullText |-> text, lastAt |-> at,
   segments |-> <<Segment(at, <<>>, suffixAfter(text, <<>>))>>]

handleCaption(k, version, text, at) ==
  IF captions[k] # None /\ version <= captions[k].version
  THEN UNCHANGED <<captions, lastDevice>>
  ELSE /\ captions' = [captions EXCEPT ![k] =
            IF captions[k] = None THEN First(version, text, at)
            ELSE Revised(k, version, text, at)]
       /\ lastDevice' = k[1]

\* RtcFeed.reset, what it does to the captions.
CaptionReset ==
  /\ captions' = [k \in Key |-> None]
  /\ lastDevice' = NoDevice
  /\ due' = [k \in Key |-> 0]
  /\ UNCHANGED <<meet, wire>>

-----------------------------------------------------------------------------
\* A message listener: a known or adopted channel queues every frame, any other one
\* while it is still sniffed. A frame is owed to the feed from the first caption on
\* that came among the first SniffFrames of its channel.
Arrives(c, frame, caption) ==
  LET w == wire[c]
      carrier == w.carrier \/ (caption /\ w.frames < SniffFrames)
      queued == w.adopted \/ w.left > 0
  IN [w EXCEPT !.queue = IF queued THEN Append(@, [frame EXCEPT !.owed = carrier]) ELSE @,
               !.frames = IF @ < SniffFrames THEN @ + 1 ELSE @,
               !.carrier = carrier]

\* A frame that is owed counts as missed at once if the listener drops it.
Missed(c) == LET w == wire[c] IN w.carrier /\ ~w.adopted /\ w.left = 0

\* Meet revises a message: words are added, or an earlier one is replaced or taken back.
Rewordings(t) ==
  {[t EXCEPT ![i] = w] : i \in 1..Len(t), w \in Word} \cup {SubSeq(t, 1, Len(t) - 1)}

\* The revision goes out on some of the channels; elsewhere it is lost.
Revise(k, on, rewords) ==
  \E added \in {TRUE, ~rewords} :
    LET old == meet[k].text IN
    \E text \in (IF added THEN {Append(old, w) : w \in Word}
                 ELSE IF old = <<>> THEN {} ELSE Rewordings(old) \ {old, <<>>}) :
      LET v == meet[k].version + 1
          frame == [key |-> k, version |-> v, text |-> text, owed |-> TRUE]
      IN
      /\ meet' = [meet EXCEPT ![k] =
           [version |-> v, text |-> text, grown |-> @.grown /\ added]]
      /\ wire' = [c \in Channel \cup Unknown |->
                    IF c \in on THEN Arrives(c, frame, TRUE) ELSE wire[c]]
      /\ due' = [due EXCEPT ![k] = IF \E c \in on : Missed(c) THEN v ELSE @]
      /\ UNCHANGED <<captions, lastDevice>>

\* Traffic of another kind on a channel we do not know.
Other(c) ==
  /\ wire[c].noise > 0
  /\ wire' = [wire EXCEPT ![c] = [Arrives(c, Noise, FALSE) EXCEPT !.noise = @ - 1]]
  /\ UNCHANGED <<meet, captions, lastDevice, due>>

-----------------------------------------------------------------------------
(***************************************************************************)
(* The next frame of a channel is decoded. On an unknown channel it uses   *)
(* up one look, and the first caption adopts the channel. A caption is     *)
(* dispatched, and the meeting hands it to the feed unless it is paused.   *)
(***************************************************************************)
\* What the feed is owed once a frame has come to it, or was dropped on its way.
Owing(frame, recording) ==
  [due EXCEPT ![frame.key] =
     IF recording /\ frame.owed /\ frame.version > @ THEN frame.version ELSE @]

\* consumeCaptions: a frame that holds no usable caption is dropped.
consume(frame, at, recording) ==
  /\ IF frame.version > 0 /\ recording
     THEN handleCaption(frame.key, frame.version, frame.text, at)
     ELSE UNCHANGED <<captions, lastDevice>>
  /\ due' = Owing(frame, recording)

carriesCaptions(frame) == frame.version > 0

\* deviation: the frame that adopts a channel is not consumed itself.
deviationAdoptOnly(c, at, recording) ==
  LET w == wire[c]
      frame == Head(w.queue)
  IN
  /\ w.queue # <<>>
  /\ IF w.adopted
     THEN /\ wire' = [wire EXCEPT ![c].queue = Tail(@)]
          /\ consume(frame, at, recording)
     ELSE /\ wire' = [wire EXCEPT ![c] = [w EXCEPT !.queue = Tail(@),
                        !.left = IF @ > 0 THEN @ - 1 ELSE 0,
                        !.adopted = w.left > 0 /\ carriesCaptions(frame)]]
          /\ due' = Owing(frame, recording)
          /\ UNCHANGED <<captions, lastDevice>>
  /\ UNCHANGED meet

Decode(c, at, recording) ==
  LET w == wire[c]
      frame == Head(w.queue)
      looked == [w EXCEPT !.queue = Tail(@), !.left = @ - 1,
                          !.adopted = carriesCaptions(frame)]
  IN
  /\ w.queue # <<>>
  /\ IF w.adopted
     THEN /\ wire' = [wire EXCEPT ![c].queue = Tail(@)]
          /\ consume(frame, at, recording)
     ELSE IF w.left = 0
     THEN /\ wire' = [wire EXCEPT ![c].queue = Tail(@)]
          /\ due' = Owing(frame, recording)
          /\ UNCHANGED <<captions, lastDevice>>
     ELSE /\ wire' = [wire EXCEPT ![c] = looked]
          /\ consume(frame, at, recording)
  /\ UNCHANGED meet

-----------------------------------------------------------------------------
\* Properties

\* What the transcript shows of a message: its segments, one after the other.
Shown(k) ==
  LET s == captions[k].segments
      f[i \in 0..Len(s)] == IF i = 0 THEN <<>> ELSE f[i - 1] \o s[i].text
  IN f[Len(s)]

\* s is t with some of its elements left out.
Within(s, t) ==
  LET at[i \in 0..Len(s)] ==
        IF i = 0 THEN 0
        ELSE LET from == at[i - 1]
                 next == {j \in 1..Len(t) : from < j /\ t[j] = s[i]}
             IN IF from > Len(t) \/ next = {} THEN Len(t) + 1
                ELSE CHOOSE j \in next : \A n \in next : j <= n
  IN at[Len(s)] <= Len(t)

\* However a message is interrupted, resumed, reworded or shortened, every word of its
\* newest revision is shown, in order: "at worst a word is duplicated at the seam, never
\* dropped" (feed.ts:52-65, 141-183).
NoWordLost == \A k \in Key : Within(captions[k].fullText, Shown(k))

\* A message Meet only ever added words to is shown once, word for word, over any number
\* of interruptions (feed.ts:147-161).
NoWordTwice ==
  \A k \in Key : meet[k].grown /\ captions[k] # None => Shown(k) = captions[k].fullText

\* The feed holds the newest revision it was owed, over several channels that deliver in
\* different orders and lose frames, one of them adopted while its frames are in flight
\* (main.ts:665-744, feed.ts:141-145).
NewestHeld == \A k \in Key : captions[k].version >= due[k]
=============================================================================
