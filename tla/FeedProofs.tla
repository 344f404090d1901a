------------------------------- MODULE FeedProofs -------------------------------
(***************************************************************************)
(* What the feed of a meeting promises for any number of messages,         *)
(* channels and frames: it holds the newest revision it was owed           *)
(* (NewestHeld), what others say in the chat is shown once (TheirsKept),   *)
(* what the user says is shown once (ShownOnce) and kept (OwnKept), and of *)
(* a caption no word is lost (NoWordLost) or, while Meet only adds words,  *)
(* shown twice (NoWordTwice).                                              *)
(***************************************************************************)
EXTENDS RtcFeed, FiniteSetTheorems, WellFoundedInduction, TLAPS

-----------------------------------------------------------------------------
(***************************************************************************)
(* NewestHeld. A channel that has carried a caption in time is adopted, or *)
(* will be when the frames it still looks at are decoded; until then it    *)
(* keeps every frame, so that no frame owed to the feed is dropped.        *)
(***************************************************************************)

Frame == [key : Key \cup {Noise.key}, version : Nat, text : Seq(Word), owed : BOOLEAN]

ChannelType ==
  [queue : Seq(Frame), left : Nat, adopted : BOOLEAN, frames : Nat, carrier : BOOLEAN, noise : Nat]

CaptionType ==
  /\ wire \in [Channel \cup Unknown -> ChannelType]
  /\ meet \in [Key -> [version : Nat, text : Seq(Word), grown : BOOLEAN]]
  /\ due \in [Key -> Nat]
  /\ captions = [k \in Key |-> captions[k]]
  /\ \A k \in Key : captions[k].version \in Nat

\* A frame with a caption is about a message.
Usable(frame) == frame.version > 0 => frame.key \in Key

\* What the listener of a channel has kept, and still looks at.
Kept(w) ==
  /\ \A i \in 1..Len(w.queue) : Usable(w.queue[i]) /\ (w.queue[i].owed => w.carrier)
  /\ ~w.adopted =>
       /\ w.frames < SniffFrames => w.frames + w.left = SniffFrames + Len(w.queue)
       /\ w.carrier => \E i \in 1..Len(w.queue) : i <= w.left /\ w.queue[i].version > 0

CaptionInv == CaptionType /\ (\A c \in Channel \cup Unknown : Kept(wire[c])) /\ NewestHeld

\* A frame comes. The first caption of a channel comes while the channel looks at it.
LEMMA ArrivesStep ==
  ASSUME CaptionType, NEW c \in Channel \cup Unknown, Kept(wire[c]),
         NEW frame \in Frame, Usable(frame), NEW caption \in BOOLEAN, caption <=> frame.version > 0
  PROVE  /\ Arrives(c, frame, caption) \in ChannelType
         /\ Kept(Arrives(c, frame, caption))
         /\ ~Missed(c)
<1> DEFINE w == wire[c]
           carrier == w.carrier \/ (caption /\ w.frames < SniffFrames)
           marked == [frame EXCEPT !.owed = carrier]
           v == Arrives(c, frame, caption)
<1>1. /\ w \in ChannelType /\ w.queue \in Seq(Frame) /\ w.left \in Nat /\ w.frames \in Nat
      /\ w.adopted \in BOOLEAN /\ w.carrier \in BOOLEAN /\ SniffFrames \in Nat
      /\ w.noise \in Nat /\ Len(w.queue) \in Nat
  BY FeedAssumption DEF CaptionType, ChannelType
<1>2. carrier \in BOOLEAN
  BY <1>1
<1>3. marked \in Frame /\ marked.version = frame.version /\ marked.key = frame.key
      /\ marked.owed = carrier
  BY <1>2 DEF Frame
<1>4. /\ v.queue = IF w.adopted \/ w.left > 0 THEN Append(w.queue, marked) ELSE w.queue
      /\ v.frames = IF w.frames < SniffFrames THEN w.frames + 1 ELSE w.frames
      /\ v.carrier = carrier /\ v.left = w.left /\ v.adopted = w.adopted /\ v.noise = w.noise
      /\ v = [queue |-> v.queue, left |-> v.left, adopted |-> v.adopted, frames |-> v.frames,
              carrier |-> v.carrier, noise |-> v.noise]
  <2>1. v = [w EXCEPT !.queue = IF w.adopted \/ w.left > 0 THEN Append(@, marked) ELSE @,
                      !.frames = IF @ < SniffFrames THEN @ + 1 ELSE @,
                      !.carrier = carrier]
    BY DEF Arrives
  <2> HIDE DEF v, marked, carrier
  <2> QED
    BY <1>1, <2>1 DEF ChannelType
<1> HIDE DEF v, marked, carrier
<1>5. v.queue \in Seq(Frame) /\ v.frames \in Nat
  BY <1>1, <1>3, <1>4
<1>6. v \in ChannelType
  BY <1>1, <1>2, <1>4, <1>5 DEF ChannelType
<1>7. ~Missed(c)
  BY <1>1 DEF Missed, Kept
<1>8. CASE w.adopted \/ w.left > 0
  <2>1. /\ Len(v.queue) = Len(w.queue) + 1 /\ v.queue[Len(w.queue) + 1] = marked
        /\ \A i \in 1..Len(w.queue) : v.queue[i] = w.queue[i]
    BY <1>1, <1>3, <1>4, <1>8
  <2>2. \A i \in 1..Len(v.queue) : Usable(v.queue[i]) /\ (v.queue[i].owed => v.carrier)
    BY <1>1, <1>3, <1>4, <2>1 DEF Kept, Usable, carrier
  <2>3. ~v.adopted /\ v.frames < SniffFrames => v.frames + v.left = SniffFrames + Len(v.queue)
    <3> SUFFICES ASSUME ~v.adopted, v.frames < SniffFrames
                 PROVE  v.frames + v.left = SniffFrames + Len(v.queue)
      OBVIOUS
    <3>1. v.frames = w.frames + 1 /\ w.frames < SniffFrames /\ ~w.adopted
      BY <1>1, <1>4
    <3>2. w.frames + w.left = SniffFrames + Len(w.queue)
      BY <3>1 DEF Kept
    <3>3. w.frames \in Nat /\ w.left \in Nat /\ SniffFrames \in Nat /\ Len(w.queue) \in Nat
      BY <1>1
    <3> HIDE DEF w
    <3>4. w.frames + 1 + w.left = SniffFrames + (Len(w.queue) + 1)
      BY <3>2, <3>3
    <3> QED
      BY <1>4, <2>1, <3>1, <3>4
  <2>4. ASSUME ~v.adopted, v.carrier
        PROVE  \E i \in 1..Len(v.queue) : i <= v.left /\ v.queue[i].version > 0
    <3>1. CASE w.carrier
      BY <1>1, <1>4, <2>1, <2>4, <3>1 DEF Kept
    <3>2. CASE ~w.carrier
      <4>1. caption /\ w.frames < SniffFrames /\ ~w.adopted
        BY <1>4, <2>4, <3>2 DEF carrier
      <4>2. Len(w.queue) + 1 <= w.left /\ marked.version > 0
        BY <1>1, <1>3, <4>1 DEF Kept
      <4> QED
        BY <1>1, <1>4, <2>1, <4>2
    <3> QED
      BY <3>1, <3>2
  <2> QED
    BY <2>2, <2>3, <2>4, <1>6, <1>7 DEF Kept, v
<1>9. CASE ~(w.adopted \/ w.left > 0)
  <2>1. v.queue = w.queue /\ ~w.adopted /\ w.left = 0 /\ ~w.carrier
    BY <1>1, <1>4, <1>9 DEF Kept
  <2>2. ~(w.frames < SniffFrames)
    BY <1>1, <2>1 DEF Kept
  <2>3. ~v.carrier /\ v.frames = w.frames
    BY <1>4, <2>1, <2>2 DEF carrier
  <2>4. Kept(v)
    BY <1>1, <1>4, <2>1, <2>2, <2>3 DEF Kept
  <2> QED
    BY <1>6, <1>7, <2>4 DEF v
<1> QED
  BY <1>8, <1>9, <1>1

\* What the feed is owed for a frame it is given, it then holds.
LEMMA ConsumeStep ==
  ASSUME CaptionType, NewestHeld, NEW frame \in Frame, Usable(frame), NEW at, NEW on \in BOOLEAN,
         consume(frame, at, on)
  PROVE  /\ due' \in [Key -> Nat] /\ captions' = [k \in Key |-> captions'[k]]
         /\ \A k \in Key : captions'[k].version \in Nat
         /\ NewestHeld'
<1>1. due' = Owing(frame, on) /\ frame.version \in Nat
  BY DEF consume, Frame
<1>2. due' \in [Key -> Nat] /\ \A k \in Key : k # frame.key => due'[k] = due[k]
  BY <1>1 DEF CaptionType, Owing
<1>3. CASE frame.version > 0 /\ on
  <2> DEFINE k == frame.key
  <2>1. k \in Key /\ handleCaption(k, frame.version, frame.text, at)
    BY <1>3 DEF consume, Usable
  <2>2. due'[k] = due[k] \/ due'[k] = frame.version
    BY <1>1, <2>1 DEF CaptionType, Owing
  <2>3. CASE captions[k] # None /\ frame.version <= captions[k].version
    BY <1>1, <1>2, <2>1, <2>2, <2>3 DEF handleCaption, CaptionType, NewestHeld
  <2>4. CASE ~(captions[k] # None /\ frame.version <= captions[k].version)
    <3>1. PICK new : captions' = [captions EXCEPT ![k] = new] /\ new.version = frame.version
      <4>1. captions' = [captions EXCEPT ![k] =
              IF captions[k] = None THEN First(frame.version, frame.text, at)
              ELSE Revised(k, frame.version, frame.text, at)]
        BY <2>1, <2>4 DEF handleCaption
      <4>2. First(frame.version, frame.text, at).version = frame.version
        BY DEF First
      <4>3. Revised(k, frame.version, frame.text, at).version = frame.version
        BY DEF Revised
      <4> QED
        BY <4>1, <4>2, <4>3
    <3>2. captions' = [o \in Key |-> captions'[o]] /\ captions'[k].version = frame.version
          /\ \A o \in Key : o # k => captions'[o] = captions[o]
      BY <2>1, <3>1 DEF CaptionType
    <3>3. due[k] <= frame.version
      <4>1. due[k] <= captions[k].version /\ due[k] \in Nat /\ captions[k].version \in Nat
        BY <2>1 DEF NewestHeld, CaptionType
      <4>2. captions[k] = None => captions[k].version = 0
        BY DEF None
      <4> QED
        BY <1>1, <2>4, <4>1, <4>2
    <3>4. \A o \in Key : captions'[o].version \in Nat
      BY <1>1, <3>2 DEF CaptionType
    <3>5. ASSUME NEW o \in Key PROVE captions'[o].version >= due'[o]
      <4>1. CASE o = k
        BY <1>1, <2>2, <3>2, <3>3, <4>1
      <4>2. CASE o # k
        BY <1>2, <3>2, <4>2 DEF NewestHeld
      <4> QED
        BY <4>1, <4>2
    <3> QED
      BY <1>2, <3>2, <3>4, <3>5 DEF NewestHeld
  <2> QED
    BY <2>3, <2>4
<1>4. CASE ~(frame.version > 0 /\ on)
  <2>1. captions' = captions
    BY <1>4 DEF consume
  <2>2. due' = due
    BY <1>1, <1>4 DEF Owing, CaptionType
  <2> QED
    BY <2>1, <2>2 DEF CaptionType, NewestHeld
<1> QED
  BY <1>3, <1>4

\* Meet says something: every channel it goes out on takes it.
LEMMA ReviseStep ==
  ASSUME CaptionInv, NEW k \in Key, NEW on \in SUBSET (Channel \cup Unknown), NEW rewords \in BOOLEAN,
         Revise(k, on, rewords)
  PROVE  CaptionInv'
<1> DEFINE C == Channel \cup Unknown
<1>1. PICK added \in {TRUE, ~rewords} :
        \E text \in (IF added THEN {Append(meet[k].text, w) : w \in Word}
                     ELSE IF meet[k].text = <<>> THEN {}
                     ELSE Rewordings(meet[k].text) \ {meet[k].text, <<>>}) :
          LET v == meet[k].version + 1
              frame == [key |-> k, version |-> v, text |-> text, owed |-> TRUE]
          IN
          /\ meet' = [meet EXCEPT ![k] =
               [version |-> v, text |-> text, grown |-> @.grown /\ added]]
          /\ wire' = [c \in C |-> IF c \in on THEN Arrives(c, frame, TRUE) ELSE wire[c]]
          /\ due' = [due EXCEPT ![k] = IF \E c \in on : Missed(c) THEN v ELSE @]
          /\ UNCHANGED <<captions, lastDevice>>
  BY DEF Revise
<1> DEFINE v == meet[k].version + 1
           frame(text) == [key |-> k, version |-> v, text |-> text, owed |-> TRUE]
<1>2. PICK text \in (IF added THEN {Append(meet[k].text, w) : w \in Word}
                     ELSE IF meet[k].text = <<>> THEN {}
                     ELSE Rewordings(meet[k].text) \ {meet[k].text, <<>>}) :
          /\ meet' = [meet EXCEPT ![k] =
               [version |-> v, text |-> text, grown |-> @.grown /\ added]]
          /\ wire' = [c \in C |-> IF c \in on THEN Arrives(c, frame(text), TRUE) ELSE wire[c]]
          /\ due' = [due EXCEPT ![k] = IF \E c \in on : Missed(c) THEN v ELSE @]
          /\ UNCHANGED <<captions, lastDevice>>
  BY <1>1
<1>3. /\ CaptionType /\ NewestHeld /\ \A c \in C : Kept(wire[c])
      /\ meet[k].text \in Seq(Word) /\ meet[k].version \in Nat /\ meet[k].grown \in BOOLEAN
  BY DEF CaptionInv, CaptionType
<1>4. text \in Seq(Word)
  <2>1. CASE added
    <3>1. PICK w \in Word : text = Append(meet[k].text, w)
      BY <1>2, <2>1
    <3> QED
      BY <1>3, <3>1
  <2>2. CASE ~added
    <3>1. meet[k].text # <<>> /\ text \in Rewordings(meet[k].text)
      BY <1>2, <2>2
    <3>2. ASSUME NEW i \in 1..Len(meet[k].text), NEW w \in Word
          PROVE  [meet[k].text EXCEPT ![i] = w] \in Seq(Word)
      BY <1>3
    <3>3. SubSeq(meet[k].text, 1, Len(meet[k].text) - 1) \in Seq(Word)
      BY <1>3, <3>1
    <3> QED
      BY <3>1, <3>2, <3>3 DEF Rewordings
  <2> QED
    BY <2>1, <2>2
<1>5. frame(text) \in Frame /\ frame(text).version = v /\ frame(text).key = k
  BY <1>3, <1>4 DEF Frame
<1>6. Usable(frame(text)) /\ (frame(text).version > 0)
  BY <1>3, <1>5 DEF Usable
<1>7. \A c \in on : c \in C
  OBVIOUS
<1> HIDE DEF frame, C, v
<1>8. ASSUME NEW c \in on
      PROVE  /\ Arrives(c, frame(text), TRUE) \in ChannelType
             /\ Kept(Arrives(c, frame(text), TRUE)) /\ ~Missed(c)
  BY <1>3, <1>5, <1>6, <1>7, ArrivesStep DEF C
<1>9. wire' \in [C -> ChannelType] /\ \A c \in C : Kept(wire'[c])
  BY <1>2, <1>3, <1>8 DEF CaptionType, C
<1>10. due' = due
  BY <1>2, <1>3, <1>8 DEF CaptionType
<1>11. meet' \in [Key -> [version : Nat, text : Seq(Word), grown : BOOLEAN]]
  <2>1. v \in Nat
    BY <1>3 DEF v
  <2>2. (meet[k].grown /\ added) \in BOOLEAN
    OBVIOUS
  <2>3. [version |-> v, text |-> text, grown |-> meet[k].grown /\ added]
           \in [version : Nat, text : Seq(Word), grown : BOOLEAN]
    BY <1>4, <2>1, <2>2
  <2> QED
    BY <1>2, <1>3, <2>3 DEF CaptionType
<1> QED
  BY <1>2, <1>3, <1>9, <1>10, <1>11 DEF CaptionInv, CaptionType, NewestHeld, C

LEMMA Decoded ==
  ASSUME NEW q \in Seq(Frame), q # <<>>
  PROVE  /\ Tail(q) \in Seq(Frame) /\ Len(Tail(q)) = Len(q) - 1 /\ Len(q) \in Nat \ {0}
         /\ \A i \in 1..Len(Tail(q)) : Tail(q)[i] = q[i + 1] /\ i + 1 \in 1..Len(q)
         /\ Head(q) = q[1] /\ Head(q) \in Frame
  OBVIOUS

LEMMA DecodeStep ==
  ASSUME CaptionInv, NEW c \in Channel \cup Unknown, NEW at, NEW on \in BOOLEAN, Decode(c, at, on)
  PROVE  CaptionInv'
<1> DEFINE C == Channel \cup Unknown
           w == wire[c]
           frame == Head(w.queue)
<1>1. CaptionType /\ NewestHeld /\ (\A o \in C : Kept(wire[o])) /\ Kept(w)
  BY DEF CaptionInv
<1>2. /\ w \in ChannelType /\ w.queue \in Seq(Frame) /\ w.queue # <<>> /\ w.left \in Nat
      /\ w.frames \in Nat /\ SniffFrames \in Nat
      /\ w.adopted \in BOOLEAN /\ w.carrier \in BOOLEAN
  BY <1>1, FeedAssumption DEF Decode, CaptionType, ChannelType
<1>3. /\ Tail(w.queue) \in Seq(Frame) /\ Len(Tail(w.queue)) = Len(w.queue) - 1
      /\ Len(w.queue) \in Nat \ {0}
      /\ \A i \in 1..Len(Tail(w.queue)) :
           Tail(w.queue)[i] = w.queue[i + 1] /\ i + 1 \in 1..Len(w.queue)
      /\ frame = w.queue[1] /\ frame \in Frame /\ 1 \in 1..Len(w.queue)
  BY <1>2, Decoded
<1>4. Usable(frame) /\ (frame.owed => w.carrier) /\ frame.version \in Nat
  BY <1>1, <1>3 DEF Kept, Frame
<1>5. meet' = meet
  BY DEF Decode
\* The rest follows from what becomes of this channel and what the feed is owed.
<1>6. ASSUME NEW v \in ChannelType, Kept(v), wire' = [wire EXCEPT ![c] = v],
             due' \in [Key -> Nat], captions' = [k \in Key |-> captions'[k]],
             \A k \in Key : captions'[k].version \in Nat, NewestHeld'
      PROVE  CaptionInv'
  <2>1. wire' \in [C -> ChannelType] /\ \A o \in C : Kept(wire'[o])
    BY <1>1, <1>6 DEF CaptionType
  <2> QED
    BY <1>1, <1>5, <1>6, <2>1 DEF CaptionInv, CaptionType
<1>7. \A i \in 1..Len(Tail(w.queue)) :
        Usable(Tail(w.queue)[i]) /\ (Tail(w.queue)[i].owed => w.carrier)
  BY <1>1, <1>3 DEF Kept
<1>8. CASE w.adopted
  <2> DEFINE v == [w EXCEPT !.queue = Tail(@)]
  <2>1. v \in ChannelType /\ v.queue = Tail(w.queue) /\ v.adopted /\ v.carrier = w.carrier
    BY <1>2, <1>3, <1>8 DEF ChannelType
  <2>2. wire' = [wire EXCEPT ![c] = v] /\ consume(frame, at, on)
    BY <1>8 DEF Decode
  <2> HIDE DEF v
  <2>3. Kept(v)
    BY <1>7, <2>1 DEF Kept
  <2> QED
    BY <1>1, <1>3, <1>4, <1>6, <2>1, <2>2, <2>3, ConsumeStep
<1>9. CASE ~w.adopted /\ w.left = 0
  <2> DEFINE v == [w EXCEPT !.queue = Tail(@)]
  <2>1. /\ v \in ChannelType /\ v.queue = Tail(w.queue) /\ ~v.adopted
        /\ v.carrier = w.carrier /\ v.frames = w.frames /\ v.left = w.left
    BY <1>2, <1>3, <1>9 DEF ChannelType
  <2>2. /\ wire' = [wire EXCEPT ![c] = v] /\ due' = Owing(frame, on) /\ captions' = captions
    BY <1>9 DEF Decode
  <2> HIDE DEF v
  <2>3. ~w.carrier
    BY <1>1, <1>2, <1>9 DEF Kept
  <2>4. ~(w.frames < SniffFrames)
    <3>1. w.frames < SniffFrames => w.frames + w.left = SniffFrames + Len(w.queue)
      BY <1>1, <1>9 DEF Kept
    <3> HIDE DEF w
    <3> QED
      BY <1>2, <1>3, <1>9, <3>1
  <2>5. Kept(v)
    BY <1>7, <2>1, <2>3, <2>4 DEF Kept
  <2>6. due' = due
    BY <1>1, <1>4, <2>2, <2>3 DEF Owing, CaptionType
  <2>7. /\ due' \in [Key -> Nat] /\ captions' = [k \in Key |-> captions'[k]]
        /\ (\A k \in Key : captions'[k].version \in Nat) /\ NewestHeld'
    BY <1>1, <2>2, <2>6 DEF CaptionType, NewestHeld
  <2> QED
    BY <1>6, <2>1, <2>2, <2>5, <2>7
<1>10. CASE ~w.adopted /\ w.left # 0
  <2> DEFINE v == [w EXCEPT !.queue = Tail(@), !.left = @ - 1, !.adopted = carriesCaptions(frame)]
  <2>1. carriesCaptions(frame) \in BOOLEAN /\ w.left - 1 \in Nat
    BY <1>2, <1>10 DEF carriesCaptions
  <2>2. /\ v \in ChannelType /\ v.queue = Tail(w.queue) /\ (v.adopted <=> frame.version > 0)
        /\ v.carrier = w.carrier /\ v.frames = w.frames /\ v.left = w.left - 1
    BY <1>2, <1>3, <2>1 DEF ChannelType, carriesCaptions
  <2>3. wire' = [wire EXCEPT ![c] = v] /\ consume(frame, at, on)
    BY <1>10 DEF Decode
  <2> HIDE DEF v
  <2>4. ASSUME ~v.adopted, v.frames < SniffFrames
        PROVE  v.frames + v.left = SniffFrames + Len(v.queue)
    <3>1. w.frames + w.left = SniffFrames + Len(w.queue)
      BY <1>1, <1>10, <2>2, <2>4 DEF Kept
    <3> HIDE DEF w
    <3>2. w.frames + (w.left - 1) = SniffFrames + (Len(w.queue) - 1)
      BY <1>2, <1>3, <3>1
    <3> QED
      BY <1>3, <2>2, <3>2
  <2>5. ASSUME ~v.adopted, v.carrier
        PROVE  \E i \in 1..Len(v.queue) : i <= v.left /\ v.queue[i].version > 0
    <3>1. PICK i \in 1..Len(w.queue) : i <= w.left /\ w.queue[i].version > 0
      BY <1>1, <1>10, <2>2, <2>5 DEF Kept
    <3>2. i # 1
      BY <1>3, <2>2, <2>5, <3>1
    <3>3. i - 1 \in 1..Len(v.queue) /\ i - 1 <= v.left /\ i - 1 + 1 = i
      BY <1>2, <1>3, <2>2, <3>1, <3>2
    <3>4. v.queue[i - 1] = w.queue[i]
      BY <1>3, <2>2, <3>3
    <3> QED
      BY <3>1, <3>3, <3>4
  <2>6. Kept(v)
    BY <1>7, <2>2, <2>4, <2>5 DEF Kept
  <2> QED
    BY <1>1, <1>3, <1>4, <1>6, <2>2, <2>3, <2>6, ConsumeStep
<1> QED
  BY <1>2, <1>8, <1>9, <1>10

LEMMA OtherStep ==
  ASSUME CaptionInv, NEW c \in Channel \cup Unknown, Other(c) PROVE CaptionInv'
<1> DEFINE C == Channel \cup Unknown
           v == Arrives(c, Noise, FALSE)
<1>1. CaptionType /\ (\A o \in C : Kept(wire[o]))
  BY DEF CaptionInv
<1>2. Noise \in Frame /\ Usable(Noise) /\ (FALSE <=> Noise.version > 0)
  BY DEF Noise, Frame, Usable
<1>3. v \in ChannelType /\ Kept(v)
  <2>1. Kept(wire[c])
    BY <1>1
  <2> HIDE DEF v
  <2>2. /\ Arrives(c, Noise, FALSE) \in ChannelType
        /\ Kept(Arrives(c, Noise, FALSE))
    BY <1>1, <1>2, <2>1, ArrivesStep
  <2> QED
    BY <2>2 DEF v
<1>4. /\ wire' = [wire EXCEPT ![c] = [v EXCEPT !.noise = @ - 1]] /\ wire[c].noise > 0
      /\ v.noise = wire[c].noise /\ UNCHANGED <<meet, captions, due>>
  BY <1>1 DEF Other, Arrives, CaptionType, ChannelType
<1> HIDE DEF v
<1>5. v.noise - 1 \in Nat
  BY <1>1, <1>3, <1>4 DEF CaptionType, ChannelType
<1>6. [v EXCEPT !.noise = @ - 1] \in ChannelType /\ Kept([v EXCEPT !.noise = @ - 1])
  BY <1>3, <1>5 DEF ChannelType, Kept
<1>7. wire' \in [C -> ChannelType] /\ \A o \in C : Kept(wire'[o])
  BY <1>1, <1>4, <1>6 DEF CaptionType
<1> QED
  BY <1>4, <1>7 DEF CaptionInv, CaptionType, NewestHeld

FeedType == budget \in Budget /\ recording \in BOOLEAN

LEMMA CaptionStep == CaptionInv /\ FeedType /\ [Next]_vars => CaptionInv' /\ FeedType'
<1> USE DEF FeedType
<1> SUFFICES ASSUME CaptionInv, budget \in Budget, recording \in BOOLEAN, [Next]_vars
             PROVE  CaptionInv' /\ budget' \in Budget /\ recording' \in BOOLEAN
  OBVIOUS
<1>1. CASE Tick \/ Chat \/ SetRecording \/ UNCHANGED vars
  <2>1. UNCHANGED <<wire, meet, due, captions>>
    BY <1>1 DEF Tick, Chat, SetRecording, vars, captionVars
  <2>2. CaptionInv'
    BY <2>1 DEF CaptionInv, CaptionType, NewestHeld
  <2>3. budget' \in Budget
    BY <1>1 DEF Tick, Chat, SetRecording, vars, Budget
  <2>4. recording' \in BOOLEAN
    BY <1>1 DEF Tick, Chat, SetRecording, vars
  <2> QED
    BY <2>2, <2>3, <2>4
<1>2. CASE MeetRevises
  <2>1. PICK k \in Key, on \in budget.on : Revise(k, on, budget.rewords)
    BY <1>2 DEF MeetRevises
  <2>2. on \in SUBSET (Channel \cup Unknown) /\ budget.rewords \in BOOLEAN
    BY DEF Budget
  <2>3. CaptionInv'
    BY <2>1, <2>2, ReviseStep
  <2>4. budget' \in Budget /\ recording' = recording
    BY <1>2 DEF MeetRevises, Budget
  <2> QED
    BY <2>3, <2>4
<1>3. CASE NextFrame
  <2>1. PICK c \in Channel \cup Unknown : Decode(c, now, recording)
    BY <1>3 DEF NextFrame
  <2>2. CaptionInv'
    BY <2>1, DecodeStep
  <2> QED
    BY <1>3, <2>2 DEF NextFrame
<1>4. CASE OtherTraffic
  <2>1. PICK c \in Channel \cup Unknown : Other(c)
    BY <1>4 DEF OtherTraffic
  <2>2. CaptionInv'
    BY <2>1, OtherStep
  <2> QED
    BY <1>4, <2>2 DEF OtherTraffic
<1>5. CASE Purge
  <2>1. /\ captions' = [k \in Key |-> None] /\ due' = [k \in Key |-> 0] /\ UNCHANGED <<meet, wire>>
    BY <1>5 DEF Purge, CaptionReset
  <2>2. None.version = 0
    BY DEF None
  <2>3. CaptionInv'
    BY <2>1, <2>2 DEF CaptionInv, CaptionType, NewestHeld
  <2>4. budget' \in Budget /\ recording' = recording
    BY <1>5 DEF Purge, Budget
  <2> QED
    BY <2>3, <2>4
<1> QED
  BY <1>1, <1>2, <1>3, <1>4, <1>5 DEF Next

LEMMA CaptionInvInit == Init => CaptionInv /\ FeedType
<1> USE DEF FeedType
<1> SUFFICES ASSUME Init PROVE CaptionInv /\ budget \in Budget /\ recording \in BOOLEAN
  OBVIOUS
<1> DEFINE C == Channel \cup Unknown
<1>1. /\ meet = [k \in Key |-> [version |-> 0, text |-> <<>>, grown |-> TRUE]]
      /\ wire = [c \in C |->
           [queue |-> <<>>, left |-> SniffFrames, adopted |-> c \in Channel,
            frames |-> 0, carrier |-> c \in Channel, noise |-> MaxNoise]]
      /\ captions = [k \in Key |-> None] /\ due = [k \in Key |-> 0]
  BY DEF Init, CaptionInit
<1>2. MaxNoise \in Nat /\ SniffFrames \in Nat
  BY FeedAssumption
<1>3. ASSUME NEW c \in C PROVE wire[c] \in ChannelType /\ Kept(wire[c])
  <2> DEFINE Fresh(known) ==
        [queue |-> <<>>, left |-> SniffFrames, adopted |-> known,
         frames |-> 0, carrier |-> known, noise |-> MaxNoise]
  <2>1. wire[c] = Fresh(c \in Channel)
    BY <1>1
  <2>2. ASSUME NEW known \in BOOLEAN PROVE Fresh(known) \in ChannelType /\ Kept(Fresh(known))
    BY <1>2 DEF ChannelType, Kept
  <2>3. (c \in Channel) \in BOOLEAN
    OBVIOUS
  <2> HIDE DEF Fresh
  <2> QED
    BY <2>1, <2>2, <2>3
<1>4. wire \in [C -> ChannelType]
  BY <1>1, <1>3
<1>5. None.version = 0
  BY DEF None
<1>6. meet \in [Key -> [version : Nat, text : Seq(Word), grown : BOOLEAN]]
  BY <1>1
<1>7. /\ due \in [Key -> Nat] /\ captions = [k \in Key |-> captions[k]]
      /\ \A k \in Key : captions[k].version = 0 /\ due[k] = 0
  BY <1>1, <1>5
<1>8. CaptionInv
  BY <1>3, <1>4, <1>6, <1>7 DEF CaptionInv, CaptionType, NewestHeld
<1> QED
  BY <1>8, BudgetAssumption DEF Init

\* The feed holds the newest revision it was owed, over any number of channels, one of them
\* adopted while its frames are in flight (attachUnknownChannel, handleCaption).
THEOREM NewestIsHeld == Spec => []NewestHeld
<1>1. CaptionInv => NewestHeld
  BY DEF CaptionInv
<1> QED
  BY <1>1, CaptionInvInit, CaptionStep, PTL DEF Spec

-----------------------------------------------------------------------------
(***************************************************************************)
(* TheirsKept. A copy of another participant's message comes with the id   *)
(* of the message, and no name the user goes by is ever that participant's *)
(* name, so that it is never taken for a copy of the user's own.           *)
(***************************************************************************)

Mine == {"Me", "You", "Speaker mine", "Speaker self"}
Bobs == {"Bob", "Speaker bob"}
Said == [text : Text \cup {"nothing"}, id : BOOLEAN]
Shows == [sender : Mine \cup Bobs, text : Text, of : Message]

theirId(m) == <<"collections", m>>
ShownAt(m, i) == i \in 1..Len(chat.messages) /\ chat.messages[i].of = m

Names ==
  /\ roster \in [Device -> Name \cup {Unnamed}]
  /\ roster["bob"] \in {Unnamed, "Bob"}
  /\ roster["mine"] \in {Unnamed, "Me", "You"} /\ roster["self"] \in {Unnamed, "Me", "You"}

ChatType ==
  /\ said \in [Message -> Said]
  /\ heard = [m \in Message |-> heard[m]]
  /\ lastSelfChat = [t \in Text |-> lastSelfChat[t]]
  /\ chat = [messages |-> chat.messages, seenIds |-> chat.seenIds]
  /\ chat.messages \in Seq(Shows)
  /\ now \in Nat \ {0}

SelfIsNotBob == \A t \in Text : lastSelfChat[t].sender \notin Bobs

ShownOnceSeen ==
  \A m \in Theirs :
    /\ heard[m].at # 0 <=> theirId(m) \in chat.seenIds
    /\ \A i, j : ShownAt(m, i) /\ ShownAt(m, j) => i = j
    /\ theirId(m) \in chat.seenIds <=> \E i : ShownAt(m, i)

ChatInv == ChatType /\ Names /\ SelfIsNotBob /\ ShownOnceSeen

LEMMA SameChat ==
  ASSUME ChatInv, UNCHANGED <<heard, chat, lastSelfChat>>, said' \in [Message -> Said],
         now' \in Nat \ {0}, Names'
  PROVE  ChatInv'
<1>1. ChatType'
  BY DEF ChatInv, ChatType
<1>2. SelfIsNotBob' /\ ShownOnceSeen'
  BY DEF ChatInv, SelfIsNotBob, ShownOnceSeen, ShownAt
<1> QED
  BY <1>1, <1>2 DEF ChatInv

LEMMA Placeholders ==
  /\ speakerPlaceholder["mine"] = "Speaker mine" /\ speakerPlaceholder["self"] = "Speaker self"
  /\ speakerPlaceholder["bob"] = "Speaker bob"
  BY DEF speakerPlaceholder

\* Who a copy names, and what the roster makes of it.
Heeded(from) == IF from[2] # Unnamed THEN [roster EXCEPT ![from[1]] = from[2]] ELSE roster

LEMMA SenderStep ==
  ASSUME Names, NEW m \in Message, NEW via \in Transport, m \in Theirs => via = "collections",
         NEW from \in Senders(m, via),
         NEW names, names = Heeded(from)
  PROVE  /\ names \in [Device -> Name \cup {Unnamed}]
         /\ names["bob"] \in {Unnamed, "Bob"}
         /\ names["mine"] \in {Unnamed, "Me", "You"} /\ names["self"] \in {Unnamed, "Me", "You"}
         /\ via # "collections" => speakerFor(names, from[1]) \in Mine
         /\ m \in Theirs => speakerFor(names, from[1]) \in Bobs
         /\ m \in Own => speakerFor(names, from[1]) \in Mine
         /\ speakerFor(names, from[1]) \in Mine \cup Bobs
         /\ speakerFor(names, from[1]) \in Name
<1>1. \/ from[1] \in {"mine", "self"} /\ from[2] \in {"Me", "You", Unnamed}
      \/ via = "collections" /\ m \notin Own /\ from[1] = "bob" /\ from[2] \in {"Bob", Unnamed}
  <2>1. CASE via = "self-out"
    BY <2>1 DEF Senders
  <2>2. CASE via = "self-topic"
    BY <2>2 DEF Senders
  <2>3. CASE via = "collections" /\ m \in Own
    <3>1. from \in {"mine"} \X {"Me", Unnamed}
      BY <2>3 DEF Senders
    <3> QED
      BY <3>1
  <2>4. CASE via = "collections" /\ m \notin Own
    <3>1. from \in {"bob"} \X {"Bob", Unnamed}
      BY <2>4 DEF Senders
    <3> QED
      BY <2>4, <3>1
  <2> QED
    BY <2>1, <2>2, <2>3, <2>4 DEF Transport
<1>2. m \in Theirs => m \notin Own
  BY ChatAssumption
<1>3. {"Me", "You", "Bob"} \subseteq Name
  BY DEF Name
<1>4. from[1] \in {"mine", "self"} /\ m \in Theirs => FALSE
  <2>1. m \in Theirs => from \in {"bob"} \X {"Bob", Unnamed}
    BY <1>2 DEF Senders
  <2> QED
    BY <2>1
<1>5. /\ names \in [Device -> Name \cup {Unnamed}]
      /\ names["bob"] \in {Unnamed, "Bob"}
      /\ names["mine"] \in {Unnamed, "Me", "You"} /\ names["self"] \in {Unnamed, "Me", "You"}
  BY <1>1, <1>3 DEF Names, Device, Heeded
<1>8. speakerFor(names, from[1]) \in Name
  <2>1. from[1] \in Device
    BY <1>1 DEF Device
  <2>2. names[from[1]] \in Name \cup {Unnamed}
    BY <1>5, <2>1
  <2>3. speakerPlaceholder[from[1]] \in Name
    BY <2>1 DEF Name
  <2> QED
    BY <2>2, <2>3 DEF speakerFor
<1>6. CASE from[1] \in {"mine", "self"}
  <2>1. speakerFor(names, from[1]) \in Mine
    BY <1>5, <1>6, Placeholders DEF speakerFor, Mine
  <2> QED
    BY <1>4, <1>5, <1>6, <1>8, <2>1
<1>7. CASE via = "collections" /\ from[1] = "bob"
  <2>1. speakerFor(names, from[1]) \in Bobs
    BY <1>5, <1>7, Placeholders DEF speakerFor, Bobs
  <2> QED
    BY <1>1, <1>5, <1>7, <1>8, <2>1
<1> QED
  BY <1>1, <1>6, <1>7

LEMMA CopyStep ==
  ASSUME ChatInv, NEW m \in Message, NEW via \in Transport, NEW on \in BOOLEAN,
         Copy(m, via, now, on), UNCHANGED now
  PROVE  ChatInv'
<1>1. PICK saying \in Sayings(m), from \in Senders(m, via) :
        LET names == IF from[2] # Unnamed THEN [roster EXCEPT ![from[1]] = from[2]] ELSE roster
            sender == speakerFor(names, from[1])
        IN
        /\ said' = [said EXCEPT ![m] = saying]
        /\ IF on
           THEN /\ roster' = names
                /\ heard' = [heard EXCEPT ![m] = Heard(m, via, sender, now)]
                /\ handleChat([sender |-> sender, text |-> saying.text, of |-> m],
                              via # "collections", idOf(m, via, saying), now)
           ELSE UNCHANGED <<heard, roster, chat, lastSelfChat, lastEchoChatAt>>
  BY DEF Copy
<1>2. ChatType /\ Names /\ SelfIsNotBob /\ ShownOnceSeen /\ (m \in Theirs => via = "collections")
  BY DEF ChatInv, Copy
<1>3. saying \in Said /\ saying.text \in Text
  BY <1>2 DEF Sayings, ChatType, Said
<1>4. said' \in [Message -> Said]
  BY <1>1, <1>2, <1>3 DEF ChatType
<1>5. CASE ~on
  <2>1. UNCHANGED <<heard, roster, chat, lastSelfChat>>
    BY <1>1, <1>5
  <2>2. Names' /\ now' \in Nat \ {0}
    BY <1>2, <2>1 DEF Names, ChatType
  <2> QED
    BY <1>4, <2>1, <2>2, SameChat
<1>6. CASE on
  <2> DEFINE names == IF from[2] # Unnamed THEN [roster EXCEPT ![from[1]] = from[2]] ELSE roster
             sender == speakerFor(names, from[1])
             message == [sender |-> sender, text |-> saying.text, of |-> m]
             isSelf == via # "collections"
             id == idOf(m, via, saying)
  <2>1. /\ roster' = names
        /\ heard' = [heard EXCEPT ![m] = Heard(m, via, sender, now)]
        /\ handleChat(message, isSelf, id, now)
    BY <1>1, <1>6
  <2>2. Names' /\ (isSelf => sender \in Mine) /\ (m \in Theirs => sender \in Bobs)
        /\ sender \in Mine \cup Bobs
    <3>1. names = Heeded(from)
      BY DEF Heeded
    <3> HIDE DEF names
    <3>2. /\ names \in [Device -> Name \cup {Unnamed}]
          /\ names["bob"] \in {Unnamed, "Bob"}
          /\ names["mine"] \in {Unnamed, "Me", "You"} /\ names["self"] \in {Unnamed, "Me", "You"}
          /\ via # "collections" => speakerFor(names, from[1]) \in Mine
          /\ m \in Theirs => speakerFor(names, from[1]) \in Bobs
          /\ speakerFor(names, from[1]) \in Mine \cup Bobs
      BY <1>2, <3>1, SenderStep
    <3>3. Names'
      BY <2>1, <3>2 DEF Names
    <3> QED
      BY <3>2, <3>3
  <2>3. message \in Shows /\ message.text = saying.text /\ message.of = m /\ message.sender = sender
    BY <1>3, <2>2 DEF Shows
  <2>4. \A o \in Theirs : theirId(o) = id <=> o = m
    <3>1. id = <<via, IF via = "collections" \/ saying.id THEN m ELSE saying.text>>
      BY DEF idOf
    <3> HIDE DEF id
    <3> QED
      BY <1>2, <3>1, ChatAssumption DEF theirId
  <2>5. Heard(m, via, sender, now).at # 0
    BY <1>2 DEF Heard, ChatType
  <2> HIDE DEF names, sender, message, isSelf, id
  <2>6. heard' = [o \in Message |-> heard'[o]] /\ heard'[m].at # 0
        /\ \A o \in Message : o # m => heard'[o] = heard[o]
    BY <1>2, <2>1, <2>5 DEF ChatType
  <2>7. /\ \/ chat' = markSeen(chat, id) /\ duplicate(isSelf, sender, saying.text, now)
           \/ chat' = add(chat, message, id)
        /\ \/ UNCHANGED lastSelfChat
           \/ isSelf /\ lastSelfChat' =
                [lastSelfChat EXCEPT ![saying.text] = [at |-> now, sender |-> sender]]
    BY <2>1, <2>3 DEF handleChat
  <2>8. lastSelfChat' = [t \in Text |-> lastSelfChat'[t]] /\ SelfIsNotBob'
    <3>1. CASE UNCHANGED lastSelfChat
      BY <1>2, <3>1 DEF ChatType, SelfIsNotBob
    <3>2. CASE isSelf /\ lastSelfChat' =
                 [lastSelfChat EXCEPT ![saying.text] = [at |-> now, sender |-> sender]]
      <4>1. sender \notin Bobs
        BY <2>2, <3>2 DEF Mine, Bobs
      <4>2. lastSelfChat' = [t \in Text |-> lastSelfChat'[t]]
            /\ lastSelfChat'[saying.text].sender = sender
            /\ \A t \in Text : t # saying.text => lastSelfChat'[t] = lastSelfChat[t]
        BY <1>2, <1>3, <3>2 DEF ChatType
      <4> QED
        BY <1>2, <4>1, <4>2 DEF SelfIsNotBob
    <3> QED
      BY <2>7, <3>1, <3>2
  <2>9. m \in Theirs => ~duplicate(isSelf, sender, saying.text, now)
    BY <1>2, <1>3, <2>2 DEF duplicate, SelfIsNotBob, isSelf
  <2>10. \/ /\ chat'.messages = chat.messages
            /\ m \in Theirs => id \in chat.seenIds
         \/ /\ id \notin chat.seenIds
            /\ chat'.messages = Append(chat.messages, message)
    BY <1>2, <2>7, <2>9 DEF add, markSeen, ChatType
  <2>11. /\ chat' = [messages |-> chat'.messages, seenIds |-> chat'.seenIds]
         /\ chat'.seenIds = chat.seenIds \cup {id}
    <3>1. CASE chat' = markSeen(chat, id)
      BY <1>2, <3>1 DEF markSeen, ChatType
    <3>2. CASE chat' = add(chat, message, id)
      BY <1>2, <3>2 DEF add, ChatType
    <3> QED
      BY <2>7, <3>1, <3>2
  <2>12. ChatType'
    <3>1. chat.messages \in Seq(Shows) /\ now \in Nat \ {0}
      BY <1>2 DEF ChatType
    <3>2. Append(chat.messages, message) \in Seq(Shows)
      BY <2>3, <3>1
    <3>3. chat'.messages \in Seq(Shows)
      BY <2>10, <3>1, <3>2
    <3> QED
      BY <1>4, <2>6, <2>8, <2>11, <3>1, <3>3 DEF ChatType
  <2>13. ASSUME NEW o \in Theirs
         PROVE  /\ heard'[o].at # 0 <=> theirId(o) \in chat'.seenIds
                /\ \A i, j : ShownAt(o, i)' /\ ShownAt(o, j)' => i = j
                /\ theirId(o) \in chat'.seenIds <=> \E i : ShownAt(o, i)'
    <3>1. o \in Message /\ (theirId(o) \in chat'.seenIds <=> theirId(o) \in chat.seenIds \/ o = m)
      BY <2>4, <2>11 DEF Message
    <3>2. heard'[o].at # 0 <=> theirId(o) \in chat'.seenIds
      BY <1>2, <2>6, <3>1 DEF ShownOnceSeen
    <3>3. CASE chat'.messages = chat.messages /\ (m \in Theirs => id \in chat.seenIds)
      <4>1. \A i : ShownAt(o, i)' <=> ShownAt(o, i)
        BY <3>3 DEF ShownAt
      <4>2. theirId(o) \in chat'.seenIds <=> theirId(o) \in chat.seenIds
        BY <2>4, <3>1, <3>3
      <4> QED
        BY <1>2, <3>2, <4>1, <4>2 DEF ShownOnceSeen
    <3>4. CASE id \notin chat.seenIds /\ chat'.messages = Append(chat.messages, message)
      <4> DEFINE n == Len(chat.messages) + 1
      <4>1. /\ Len(chat'.messages) = n /\ chat'.messages[n] = message /\ n \in Nat
            /\ \A i \in 1..(n - 1) : chat'.messages[i] = chat.messages[i]
        BY <1>2, <2>3, <3>4 DEF ChatType
      <4>2. \A i : ShownAt(o, i)' <=> ShownAt(o, i) \/ (i = n /\ o = m)
        BY <2>3, <4>1 DEF ShownAt
      <4>3. o = m => theirId(o) \notin chat.seenIds
        BY <2>4, <3>4
      <4> HIDE DEF n
      <4> QED
        BY <1>2, <3>1, <3>2, <4>2, <4>3 DEF ShownOnceSeen
    <3> QED
      BY <2>10, <3>3, <3>4
  <2>14. ShownOnceSeen'
    BY <2>13 DEF ShownOnceSeen, theirId
  <2> QED
    BY <2>2, <2>8, <2>12, <2>14 DEF ChatInv
<1> QED
  BY <1>5, <1>6

LEMMA ChatStep == ChatInv /\ FeedType /\ [Next]_vars => ChatInv'
<1> SUFFICES ASSUME ChatInv, FeedType, [Next]_vars PROVE ChatInv'
  OBVIOUS
<1> USE DEF ChatInv
<1>1. CASE Tick \/ MeetRevises \/ NextFrame \/ OtherTraffic \/ SetRecording \/ UNCHANGED vars
  <2>1. UNCHANGED chatVars /\ (now' = now \/ now' = now + 1)
    BY <1>1 DEF Tick, MeetRevises, NextFrame, OtherTraffic, SetRecording, vars
  <2>2. now' \in Nat \ {0}
    BY <2>1 DEF ChatType
  <2> QED
    BY <2>1, <2>2, SameChat DEF chatVars, ChatType, Names
<1>2. CASE Purge
  <2>1. /\ chat' = ChatLog /\ lastSelfChat' = [t \in Text |-> Never]
        /\ heard' = [m \in Message |-> Unheard] /\ UNCHANGED <<said, self, roster, now>>
    BY <1>2 DEF Purge, ChatReset
  <2>2. ChatType'
    BY <2>1 DEF ChatType, ChatLog
  <2>3. SelfIsNotBob'
    BY <2>1 DEF SelfIsNotBob, Never, Bobs, Unnamed
  <2>4. ShownOnceSeen'
    BY <2>1 DEF ShownOnceSeen, ShownAt, ChatLog, Unheard, Message
  <2> QED
    BY <2>1, <2>2, <2>3, <2>4 DEF Names
<1>3. CASE Chat
  <2>0. UNCHANGED now
    BY <1>3 DEF Chat
  <2>1. CASE LearnName
    BY <2>0, <2>1, SameChat DEF LearnName, ChatType, Names
  <2>2. CASE LearnDevice
    <3>1. Names'
      BY <2>2 DEF LearnDevice, Names, Device, Name
    <3> QED
      BY <2>0, <2>2, <3>1, SameChat DEF LearnDevice, ChatType
  <2>3. CASE \E m \in budget.chat, via \in Transport : Copy(m, via, now, recording)
    <3>1. PICK m \in Message, via \in Transport : Copy(m, via, now, recording)
      BY <2>3 DEF FeedType, Budget
    <3> QED
      BY <2>0, <3>1, CopyStep DEF FeedType
  <2> QED
    BY <1>3, <2>1, <2>2, <2>3 DEF Chat
<1> QED
  BY <1>1, <1>2, <1>3 DEF Next

LEMMA ChatHolds == Spec => [](ChatInv /\ FeedType)
<1>1. Init => ChatInv
  <2> SUFFICES ASSUME Init PROVE ChatInv
    OBVIOUS
  <2>1. ChatType
    BY DEF Init, ChatInit, ChatType, ChatLog, Said
  <2>2. Names
    BY DEF Init, ChatInit, Names, Device
  <2>3. SelfIsNotBob
    BY DEF Init, ChatInit, SelfIsNotBob, Never, Bobs, Unnamed
  <2>4. ShownOnceSeen
    BY DEF Init, ChatInit, ShownOnceSeen, ShownAt, ChatLog, Unheard, Message
  <2> QED
    BY <2>1, <2>2, <2>3, <2>4 DEF ChatInv
<1> QED
  BY <1>1, CaptionInvInit, CaptionStep, ChatStep, PTL DEF Spec

\* What another participant says is shown once as soon as it came, however often the
\* channel replays it, and whatever the user says and is called (handleChat, ChatLog.add).
THEOREM TheirsAreKept == Spec => []TheirsKept
<1>1. ChatInv => TheirsKept
  <2> SUFFICES ASSUME ChatInv, NEW m \in Theirs, heard[m].at # 0 PROVE TimesShown(m) = 1
    BY DEF TheirsKept
  <2>1. PICK i : ShownAt(m, i) /\ \A j : ShownAt(m, j) => j = i
    BY DEF ChatInv, ShownOnceSeen
  <2>2. {j \in 1..Len(chat.messages) : chat.messages[j].of = m} = {i}
    BY <2>1 DEF ShownAt
  <2> QED
    BY <2>2, FS_Singleton DEF TimesShown
<1> QED
  BY <1>1, ChatHolds, PTL
(***************************************************************************)
(* ShownOnce and OwnKept. A message of the user's that shows is remembered *)
(* by the time and sender of its text for as long as its other copies may  *)
(* come; and whatever a copy is taken to repeat was said by the user.      *)
(***************************************************************************)

Ago(at) == now - at
Hearing == [at : Nat, over : SUBSET Transport, late : BOOLEAN, named : BOOLEAN]

OwnType ==
  /\ heard \in [Message -> Hearing]
  /\ lastSelfChat \in [Text -> [at : Nat, sender : Name \cup {Unnamed}]]
  /\ lastEchoChatAt \in [Name \X Text -> Nat]

\* No copy is from a time to come, and a message that was heard has its text.
Past ==
  /\ \A t \in Text : lastSelfChat[t].at <= now
  /\ \A p \in Name \X Text : lastEchoChatAt[p] <= now
  /\ \A m \in Message : /\ heard[m].at <= now
                        /\ heard[m].at = 0 => heard[m].over = {}
                        /\ heard[m].at # 0 => said[m].text \in Text

\* A transport has no second copy of a message that is new, and shows what it heard.
Seen ==
  \A m \in Own :
    /\ \A via \in heard[m].over : idOf(m, via, said[m]) \in chat.seenIds
    /\ \A i : ShownAt(m, i) => heard[m].at # 0

\* m shows, and is remembered as one of the user's own, or as the channel's.
AsOwn(m) ==
  LET last == lastSelfChat[said[m].text] IN
  /\ last.at # 0 /\ heard[m].at <= last.at
  /\ last.sender = "Me" \/ Ago(heard[m].at) >= Window

AsEcho(m) ==
  LET echo == lastEchoChatAt[<<"Me", said[m].text>>] IN
  "collections" \in heard[m].over /\ echo # 0 /\ heard[m].at <= echo

Remembered ==
  \A m \in Own :
    heard[m].named /\ ~heard[m].late =>
      /\ \A i, j : ShownAt(m, i) /\ ShownAt(m, j) => i = j
      /\ \A i : ShownAt(m, i) => AsOwn(m) \/ AsEcho(m)

\* The user said x, and a copy came.
UserSaid(x) == \E n \in Own : heard[n].at # 0 /\ said[n].text = x

Grounded ==
  /\ \A t \in Text : lastSelfChat[t].at # 0 => UserSaid(t)
  /\ \A s \in Mine, t \in Text : s \in Name /\ lastEchoChatAt[<<s, t>>] # 0 => UserSaid(t)
  /\ \A m \in Own, via \in Transport : <<via, m>> \in chat.seenIds => heard[m].at # 0
  /\ \A t \in Text, via \in Transport : <<via, t>> \in chat.seenIds => UserSaid(t)

KeptOwn ==
  \A m \in Own : heard[m].at # 0 /\ Others(m) = {} => \E i : ShownAt(m, i)

OwnInv == OwnType /\ Past /\ Seen /\ Remembered /\ Grounded /\ KeptOwn
\* What a copy that reaches a recording meeting does.
Effect(m, via, saying, sender) ==
  LET id == idOf(m, via, saying)
      isSelf == via # "collections"
      repeats == duplicate(isSelf, sender, saying.text, now)
  IN
  /\ saying \in Said /\ saying.text \in Text
  /\ said[m].text # "nothing" => saying = said[m]
  /\ isSelf => m \in Own
  /\ m \in Own => sender \in Mine
  /\ m \in Theirs => sender \in Bobs
  /\ sender \in Name
  /\ said' = [said EXCEPT ![m] = saying]
  /\ heard' = [heard EXCEPT ![m] = Heard(m, via, sender, now)]
  /\ chat'.seenIds = chat.seenIds \cup {id}
  /\ \/ /\ repeats \/ id \in chat.seenIds
        /\ chat'.messages = chat.messages
        /\ UNCHANGED <<lastSelfChat, lastEchoChatAt>>
     \/ /\ ~repeats /\ id \notin chat.seenIds
        /\ chat'.messages = Append(chat.messages, [sender |-> sender, text |-> saying.text, of |-> m])
        /\ lastSelfChat' = IF isSelf
             THEN [lastSelfChat EXCEPT ![saying.text] = [at |-> now, sender |-> sender]]
             ELSE lastSelfChat
        /\ lastEchoChatAt' = IF isSelf THEN lastEchoChatAt
             ELSE [lastEchoChatAt EXCEPT ![<<sender, saying.text>>] = now]

LEMMA CopyEffect ==
  ASSUME ChatInv, NEW m \in Message, NEW via \in Transport, Copy(m, via, now, TRUE)
  PROVE  \E saying, sender : Effect(m, via, saying, sender)
<1>1. PICK saying \in Sayings(m), from \in Senders(m, via) :
        LET names == IF from[2] # Unnamed THEN [roster EXCEPT ![from[1]] = from[2]] ELSE roster
            sender == speakerFor(names, from[1])
        IN
        /\ said' = [said EXCEPT ![m] = saying]
        /\ heard' = [heard EXCEPT ![m] = Heard(m, via, sender, now)]
        /\ handleChat([sender |-> sender, text |-> saying.text, of |-> m],
                      via # "collections", idOf(m, via, saying), now)
  BY DEF Copy
<1>2. ChatType /\ Names /\ (m \in Theirs => via = "collections")
  BY DEF ChatInv, Copy
<1>3. saying \in Said /\ saying.text \in Text /\ (said[m].text # "nothing" => saying = said[m])
  BY <1>2 DEF Sayings, ChatType, Said
<1> DEFINE names == Heeded(from)
           sender == speakerFor(names, from[1])
           message == [sender |-> sender, text |-> saying.text, of |-> m]
           isSelf == via # "collections"
           id == idOf(m, via, saying)
           log == add(chat, message, id)
<1>4. /\ said' = [said EXCEPT ![m] = saying]
      /\ heard' = [heard EXCEPT ![m] = Heard(m, via, sender, now)]
      /\ handleChat(message, isSelf, id, now)
  BY <1>1 DEF Heeded
<1>5. /\ m \in Theirs => sender \in Bobs
      /\ m \in Own => sender \in Mine
      /\ sender \in Mine \cup Bobs
      /\ sender \in Name
  <2> HIDE DEF names
  <2> QED
    BY <1>2, SenderStep DEF names
<1>6. message \in Shows /\ message.text = saying.text /\ message.sender = sender
  BY <1>3, <1>5 DEF Shows
<1>7. (isSelf => m \in Own)
  BY <1>2 DEF Message
<1> HIDE DEF names, sender, message, isSelf, id
<1>8. IF duplicate(isSelf, sender, saying.text, now)
      THEN /\ chat' = markSeen(chat, id)
           /\ UNCHANGED <<lastSelfChat, lastEchoChatAt>>
      ELSE /\ chat' = log
           /\ lastSelfChat' = IF log # chat /\ isSelf
                THEN [lastSelfChat EXCEPT ![saying.text] = [at |-> now, sender |-> sender]]
                ELSE lastSelfChat
           /\ lastEchoChatAt' = IF log # chat /\ ~isSelf
                THEN [lastEchoChatAt EXCEPT ![<<sender, saying.text>>] = now]
                ELSE lastEchoChatAt
  BY <1>4, <1>6 DEF handleChat
<1>9. chat = [messages |-> chat.messages, seenIds |-> chat.seenIds] /\ chat.messages \in Seq(Shows)
  BY <1>2 DEF ChatType
<1>10. CASE duplicate(isSelf, sender, saying.text, now)
  <2>1. chat'.messages = chat.messages /\ chat'.seenIds = chat.seenIds \cup {id}
    BY <1>8, <1>9, <1>10 DEF markSeen
  <2>2. Effect(m, via, saying, sender)
    BY <1>3, <1>4, <1>5, <1>7, <1>8, <1>10, <2>1 DEF Effect, isSelf, id
  <2> QED
    BY <2>2
<1>11. CASE ~duplicate(isSelf, sender, saying.text, now) /\ id \in chat.seenIds
  <2>1. log = chat
    BY <1>11 DEF add
  <2>2. chat' = chat /\ UNCHANGED <<lastSelfChat, lastEchoChatAt>>
    BY <1>8, <1>11, <2>1
  <2>3. chat'.messages = chat.messages /\ chat'.seenIds = chat.seenIds \cup {id}
    BY <1>11, <2>2
  <2>4. Effect(m, via, saying, sender)
    BY <1>3, <1>4, <1>5, <1>7, <1>11, <2>2, <2>3 DEF Effect, isSelf, id
  <2> QED
    BY <2>4
<1>12. CASE ~duplicate(isSelf, sender, saying.text, now) /\ id \notin chat.seenIds
  <2>1. log.messages = Append(chat.messages, message) /\ log.seenIds = chat.seenIds \cup {id}
    BY <1>12 DEF add
  <2>2. log # chat
    BY <1>12, <2>1
  <2>3. chat'.messages = Append(chat.messages, message) /\ chat'.seenIds = chat.seenIds \cup {id}
    BY <1>8, <1>12, <2>1
  <2>4. Effect(m, via, saying, sender)
    BY <1>3, <1>4, <1>5, <1>7, <1>8, <1>12, <2>2, <2>3 DEF Effect, isSelf, id, message
  <2> QED
    BY <2>4
<1> QED
  BY <1>10, <1>11, <1>12
LEMMA EffectType ==
  ASSUME ChatInv, OwnType, Past, NEW m \in Message, NEW via \in Transport, NEW saying, NEW sender,
         Effect(m, via, saying, sender), UNCHANGED now
  PROVE  /\ OwnType' /\ Past'
         /\ said'[m] = saying /\ \A n \in Message : n # m => said'[n] = said[n] /\ heard'[n] = heard[n]
         /\ heard'[m] = Heard(m, via, sender, now)
         /\ heard[m].at # 0 => said'[m] = said[m]
         /\ \A n \in Message : heard[n].at # 0 => heard'[n].at = heard[n].at /\ said'[n] = said[n]
         /\ now \in Nat \ {0} /\ saying.text \in Text
<1>1. /\ now \in Nat \ {0} /\ said \in [Message -> Said] /\ said' = [said EXCEPT ![m] = saying]
      /\ heard \in [Message -> Hearing] /\ heard' = [heard EXCEPT ![m] = Heard(m, via, sender, now)]
      /\ saying \in Said /\ saying.text \in Text /\ sender \in Name
      /\ said[m].text # "nothing" => saying = said[m]
  BY DEF ChatInv, ChatType, OwnType, Effect
<1>2. /\ said'[m] = saying
      /\ heard'[m] = Heard(m, via, sender, now)
      /\ \A n \in Message : n # m => said'[n] = said[n] /\ heard'[n] = heard[n]
  BY <1>1
<1>3. Heard(m, via, sender, now) \in Hearing
  <2>1. heard[m] \in Hearing
    BY <1>1
  <2>2. Window \in Nat
    BY ChatAssumption
  <2> QED
    BY <1>1, <2>1, <2>2 DEF Heard, Hearing
<1>4. heard[m].at # 0 => said'[m] = said[m] /\ heard'[m].at = heard[m].at
  <2>1. heard[m].at # 0 => said[m].text # "nothing"
    BY ChatAssumption DEF Past
  <2> QED
    BY <1>1, <1>2, <2>1 DEF Heard
<1>5. heard' \in [Message -> Hearing]
  BY <1>1, <1>3
<1>6. /\ \/ UNCHANGED lastSelfChat
         \/ lastSelfChat' = [lastSelfChat EXCEPT ![saying.text] = [at |-> now, sender |-> sender]]
      /\ \/ UNCHANGED lastEchoChatAt
         \/ lastEchoChatAt' = [lastEchoChatAt EXCEPT ![<<sender, saying.text>>] = now]
  BY DEF Effect
<1>7. /\ lastSelfChat' \in [Text -> [at : Nat, sender : Name \cup {Unnamed}]]
      /\ \A t \in Text : lastSelfChat'[t].at <= now
  <2>1. lastSelfChat \in [Text -> [at : Nat, sender : Name \cup {Unnamed}]]
        /\ \A t \in Text : lastSelfChat[t].at <= now
    BY DEF OwnType, Past
  <2>2. CASE lastSelfChat' = [lastSelfChat EXCEPT ![saying.text] = [at |-> now, sender |-> sender]]
    <3>1. [at |-> now, sender |-> sender] \in [at : Nat, sender : Name \cup {Unnamed}]
      BY <1>1
    <3> QED
      BY <1>1, <2>1, <2>2, <3>1
  <2> QED
    BY <1>6, <2>1, <2>2
<1>8. /\ lastEchoChatAt' \in [Name \X Text -> Nat]
      /\ \A p \in Name \X Text : lastEchoChatAt'[p] <= now
  <2> DEFINE q == <<sender, saying.text>>
             Pairs == Name \X Text
  <2>1. q \in Pairs
    BY <1>1
  <2>2. lastEchoChatAt \in [Pairs -> Nat] /\ \A p \in Pairs : lastEchoChatAt[p] <= now
    BY DEF OwnType, Past
  <2>3. UNCHANGED lastEchoChatAt \/ lastEchoChatAt' = [lastEchoChatAt EXCEPT ![q] = now]
    BY <1>6
  <2> HIDE DEF q, Pairs
  <2>4. lastEchoChatAt' \in [Pairs -> Nat] /\ \A p \in Pairs : lastEchoChatAt'[p] <= now
    BY <1>1, <2>1, <2>2, <2>3
  <2> QED
    BY <2>4 DEF Pairs
<1>9. ASSUME NEW n \in Message
      PROVE  /\ heard'[n].at <= now
             /\ heard'[n].at = 0 => heard'[n].over = {}
             /\ heard'[n].at # 0 => said'[n].text \in Text
  <2>1. CASE n = m
    BY <1>1, <1>2, <2>1 DEF Heard, Past
  <2>2. CASE n # m
    BY <1>2, <2>2 DEF Past
  <2> QED
    BY <2>1, <2>2
<1>10. OwnType'
  BY <1>5, <1>7, <1>8 DEF OwnType
<1>11. Past'
  BY <1>7, <1>8, <1>9 DEF Past
<1> QED
  BY <1>1, <1>2, <1>4, <1>10, <1>11

\* What shows after a copy.
LEMMA EffectShows ==
  ASSUME ChatInv, NEW m \in Message, NEW via \in Transport, NEW saying, NEW sender,
         Effect(m, via, saying, sender)
  PROVE  \/ /\ duplicate(via # "collections", sender, saying.text, now)
               \/ idOf(m, via, saying) \in chat.seenIds
            /\ \A n, i : ShownAt(n, i)' <=> ShownAt(n, i)
            /\ UNCHANGED <<lastSelfChat, lastEchoChatAt>>
         \/ /\ ~duplicate(via # "collections", sender, saying.text, now)
            /\ idOf(m, via, saying) \notin chat.seenIds
            /\ \A n, i : ShownAt(n, i)' <=> ShownAt(n, i) \/ (n = m /\ i = Len(chat.messages) + 1)
            /\ ~ShownAt(m, Len(chat.messages) + 1)
            /\ lastSelfChat' = IF via # "collections"
                 THEN [lastSelfChat EXCEPT ![saying.text] = [at |-> now, sender |-> sender]]
                 ELSE lastSelfChat
            /\ lastEchoChatAt' = IF via # "collections" THEN lastEchoChatAt
                 ELSE [lastEchoChatAt EXCEPT ![<<sender, saying.text>>] = now]
<1>1. CASE chat'.messages = chat.messages
           /\ (duplicate(via # "collections", sender, saying.text, now)
               \/ idOf(m, via, saying) \in chat.seenIds)
           /\ UNCHANGED <<lastSelfChat, lastEchoChatAt>>
  <2>1. \A n, i : ShownAt(n, i)' <=> ShownAt(n, i)
    BY <1>1 DEF ShownAt
  <2> QED
    BY <1>1, <2>1
<1> DEFINE message == [sender |-> sender, text |-> saying.text, of |-> m]
<1>2. CASE chat'.messages = Append(chat.messages, message)
  <2> DEFINE k == Len(chat.messages) + 1
  <2>1. chat.messages \in Seq(Shows) /\ message.of = m
    BY DEF ChatInv, ChatType
  <2> HIDE DEF message
  <2>2. /\ Len(chat'.messages) = k /\ chat'.messages[k] = message /\ k \in Nat
        /\ \A i \in 1..(k - 1) : chat'.messages[i] = chat.messages[i]
    BY <1>2, <2>1
  <2>3. \A n, i : ShownAt(n, i)' <=> ShownAt(n, i) \/ (i = k /\ n = m)
    BY <2>1, <2>2 DEF ShownAt
  <2>4. ~ShownAt(m, k)
    BY <2>1 DEF ShownAt
  <2> HIDE DEF k
  <2> QED
    BY <1>1, <2>3, <2>4 DEF Effect, k
<1> QED
  BY <1>1, <1>2 DEF Effect

\* A copy of m beside another message of the user's.
LEMMA EffectOnOthers ==
  ASSUME ChatInv, OwnType, Past, Remembered,
         NEW m \in Message, NEW via \in Transport, NEW saying, NEW sender,
         Effect(m, via, saying, sender), UNCHANGED now,
         NEW n \in Own, heard'[n].named, ~heard'[n].late, 
         heard'[n].at = heard[n].at, heard[n].over \subseteq heard'[n].over,
         said'[n] = said[n], said[n].text \in Text,
         heard[n].named, ~heard[n].late, NEW i, ShownAt(n, i)
  PROVE  (AsOwn(n) \/ AsEcho(n))'
<1>1. /\ now \in Nat \ {0} /\ Window \in Nat
      /\ lastSelfChat \in [Text -> [at : Nat, sender : Name \cup {Unnamed}]]
      /\ lastEchoChatAt \in [Name \X Text -> Nat]
      /\ heard[n].at \in Nat /\ heard[n].at <= now
      /\ saying.text \in Text /\ sender \in Name /\ "Me" \in Name
  BY ChatAssumption DEF ChatInv, ChatType, OwnType, Past, Effect, Hearing, Message, Name
<1>2. AsOwn(n) \/ AsEcho(n)
  BY DEF Remembered
<1>3. \/ UNCHANGED lastSelfChat
      \/ /\ via # "collections" /\ ~duplicate(TRUE, sender, saying.text, now)
         /\ lastSelfChat' = [lastSelfChat EXCEPT ![saying.text] = [at |-> now, sender |-> sender]]
  BY DEF Effect
<1>4. \/ UNCHANGED lastEchoChatAt
      \/ lastEchoChatAt' = [lastEchoChatAt EXCEPT ![<<sender, saying.text>>] = now]
  BY DEF Effect
<1>5. CASE AsEcho(n)
  <2> DEFINE p == <<"Me", said[n].text>>
  <2>1. p \in Name \X Text
    BY <1>1
  <2>2. lastEchoChatAt'[p] = lastEchoChatAt[p] \/ lastEchoChatAt'[p] = now
    BY <1>1, <1>4, <2>1
  <2>3. lastEchoChatAt[p] # 0 /\ heard[n].at <= lastEchoChatAt[p] /\ "collections" \in heard[n].over
    BY <1>5 DEF AsEcho
  <2>4. lastEchoChatAt'[p] # 0 /\ heard[n].at <= lastEchoChatAt'[p]
    BY <1>1, <2>2, <2>3
  <2> QED
    BY <2>3, <2>4 DEF AsEcho
<1>6. CASE AsOwn(n) /\ (UNCHANGED lastSelfChat \/ said[n].text # saying.text)
  <2>1. lastSelfChat'[said[n].text] = lastSelfChat[said[n].text]
    BY <1>1, <1>3, <1>6
  <2> QED
    BY <1>6, <2>1 DEF AsOwn, Ago
<1>7. CASE AsOwn(n) /\ ~UNCHANGED lastSelfChat /\ said[n].text = saying.text
  <2> DEFINE last == lastSelfChat[saying.text]
  <2>1. lastSelfChat'[saying.text] = [at |-> now, sender |-> sender]
    BY <1>1, <1>3, <1>7
  <2>2. last.at # 0 /\ heard[n].at <= last.at /\ last.at \in Nat
    BY <1>1, <1>7 DEF AsOwn
  <2>3. now - last.at >= Window
    BY <1>1, <1>3, <1>7, <2>2 DEF duplicate
  <2> HIDE DEF last
  <2>4. now - heard[n].at >= Window
    BY <1>1, <2>2, <2>3
  <2> QED
    BY <1>1, <1>7, <2>1, <2>4 DEF AsOwn, Ago
<1> QED
  BY <1>2, <1>5, <1>6, <1>7
LEMMA EffectSeen ==
  ASSUME ChatInv, OwnType, Past, Seen,
         NEW m \in Message, NEW via \in Transport, NEW saying, NEW sender,
         Effect(m, via, saying, sender), UNCHANGED now
  PROVE  Seen'
<1>1. /\ said'[m] = saying /\ \A n \in Message : n # m => said'[n] = said[n] /\ heard'[n] = heard[n]
      /\ heard'[m] = Heard(m, via, sender, now)
      /\ heard[m].at # 0 => said'[m] = said[m]
      /\ now \in Nat \ {0}
  BY EffectType
<1>2. chat'.seenIds = chat.seenIds \cup {idOf(m, via, saying)}
  BY DEF Effect
<1>3. \A n, i : ShownAt(n, i)' => ShownAt(n, i) \/ n = m
  BY EffectShows
<1>4. heard'[m].at # 0 /\ heard'[m].over = heard[m].over \cup {via}
      /\ (heard[m].at = 0 => heard[m].over = {})
  BY <1>1 DEF Heard, Past
<1> SUFFICES ASSUME NEW n \in Own
             PROVE  /\ \A v \in heard'[n].over : idOf(n, v, said'[n]) \in chat'.seenIds
                    /\ \A i : ShownAt(n, i)' => heard'[n].at # 0
  BY DEF Seen, idOf
<1>5. n \in Message
  BY DEF Message
<1>6. CASE n = m
  <2>1. ASSUME NEW v \in heard'[n].over PROVE idOf(n, v, said'[n]) \in chat'.seenIds
    <3>1. CASE v = via
      BY <1>1, <1>2, <1>6, <3>1
    <3>2. CASE v \in heard[m].over
      <4>1. said'[m] = said[m]
        BY <1>1, <1>4, <3>2
      <4> QED
        BY <1>2, <1>6, <3>2, <4>1 DEF Seen
    <3> QED
      BY <1>4, <1>6, <3>1, <3>2
  <2> QED
    BY <1>4, <1>6, <2>1
<1>7. CASE n # m
  BY <1>1, <1>2, <1>3, <1>5, <1>7 DEF Seen
<1> QED
  BY <1>6, <1>7

LEMMA EffectRemembered ==
  ASSUME ChatInv, OwnType, Past, Seen, Remembered,
         NEW m \in Message, NEW via \in Transport, NEW saying, NEW sender,
         Effect(m, via, saying, sender), UNCHANGED now
  PROVE  Remembered'
<1>1. /\ said'[m] = saying /\ \A n \in Message : n # m => said'[n] = said[n] /\ heard'[n] = heard[n]
      /\ heard'[m] = Heard(m, via, sender, now)
      /\ heard[m].at # 0 => said'[m] = said[m]
      /\ now \in Nat \ {0} /\ saying.text \in Text
      /\ \A n \in Message : heard[n].at # 0 => said[n].text \in Text
      /\ heard[m].at = 0 => heard[m].over = {}
      /\ heard[m].at \in Nat /\ heard[m].at <= now /\ Window \in Nat
  BY EffectType, ChatAssumption DEF Past, OwnType, Hearing
<1>2. \A n, i : ShownAt(n, i)' => ShownAt(n, i) \/ n = m
  BY EffectShows
<1> SUFFICES ASSUME NEW n \in Own, heard'[n].named, ~heard'[n].late
             PROVE  /\ \A i, j : ShownAt(n, i)' /\ ShownAt(n, j)' => i = j
                    /\ \A i : ShownAt(n, i)' => (AsOwn(n) \/ AsEcho(n))'
  BY DEF Remembered
<1>3. n \in Message
  BY DEF Message
<1>4. CASE n # m
  <2>1. heard'[n] = heard[n] /\ said'[n] = said[n] /\ \A i : ShownAt(n, i)' => ShownAt(n, i)
    BY <1>1, <1>2, <1>3, <1>4
  <2>2. \A i, j : ShownAt(n, i)' /\ ShownAt(n, j)' => i = j
    BY <2>1 DEF Remembered
  <2>3. ASSUME NEW i, ShownAt(n, i) PROVE (AsOwn(n) \/ AsEcho(n))'
    <3>1. said[n].text \in Text
      BY <1>1, <1>3, <2>3 DEF Seen
    <3> QED
      BY <2>1, <2>3, <3>1, EffectOnOthers
  <2> QED
    BY <2>1, <2>2, <2>3
<1>5. CASE n = m
  <2>1. /\ sender = "Me" /\ (heard[m].at = 0 \/ heard[m].named) /\ ~heard[m].late
        /\ ~(heard[m].at # 0 /\ via \notin heard[m].over /\ now - heard[m].at >= Window)
        /\ heard'[m].over = heard[m].over \cup {via}
        /\ heard'[m].at = IF heard[m].at = 0 THEN now ELSE heard[m].at
    <3> DEFINE h == Heard(m, via, sender, now)
    <3>1. /\ h.named = ((heard[m].at = 0 \/ heard[m].named) /\ sender = "Me")
          /\ h.late = (heard[m].late
                       \/ (heard[m].at # 0 /\ via \notin heard[m].over /\ now - heard[m].at >= Window))
          /\ h.over = heard[m].over \cup {via}
          /\ h.at = IF heard[m].at = 0 THEN now ELSE heard[m].at
      BY DEF Heard
    <3> HIDE DEF h
    <3>2. heard'[m] = h /\ h.named /\ ~h.late
      BY <1>1, <1>5 DEF h
    <3>3. sender = "Me" /\ (heard[m].at = 0 \/ heard[m].named)
      BY <3>1, <3>2, Zenon
    <3>4. ~heard[m].late
          /\ ~(heard[m].at # 0 /\ via \notin heard[m].over /\ now - heard[m].at >= Window)
      BY <3>1, <3>2, Zenon
    <3> QED
      BY <3>1, <3>2, <3>3, <3>4
  <2>2. CASE \A o, i : ShownAt(o, i)' <=> ShownAt(o, i)
    <3>1. ASSUME NEW i, ShownAt(m, i) PROVE (AsOwn(m) \/ AsEcho(m))'
      <4>1. heard[m].at # 0
        BY <1>5, <3>1 DEF Seen
      <4>2. said'[m] = said[m] /\ said[m].text \in Text
        BY <1>1, <4>1
      <4> QED
        BY <1>5, <2>1, <3>1, <4>1, <4>2, EffectOnOthers
    <3>2. heard[m].at = 0 => \A i : ~ShownAt(m, i)
      BY <1>5 DEF Seen
    <3>3. \A i, j : ShownAt(m, i) /\ ShownAt(m, j) => i = j
      BY <1>5, <2>1, <3>2 DEF Remembered
    <3> QED
      BY <1>5, <2>2, <3>1, <3>3
  <2> DEFINE k == Len(chat.messages) + 1
  <2>3. CASE /\ ~duplicate(via # "collections", sender, saying.text, now)
             /\ idOf(m, via, saying) \notin chat.seenIds
             /\ \A o, i : ShownAt(o, i)' <=> ShownAt(o, i) \/ (o = m /\ i = k)
             /\ lastSelfChat' = IF via # "collections"
                  THEN [lastSelfChat EXCEPT ![saying.text] = [at |-> now, sender |-> sender]]
                  ELSE lastSelfChat
             /\ lastEchoChatAt' = IF via # "collections" THEN lastEchoChatAt
                  ELSE [lastEchoChatAt EXCEPT ![<<sender, saying.text>>] = now]
    <3> HIDE DEF k
    <3>1. via \notin heard[m].over
      <4>1. via \in heard[m].over => said'[m] = said[m]
        BY <1>1
      <4> QED
        BY <1>1, <1>5, <2>3, <4>1 DEF Seen
    <3>2. ASSUME NEW i, ShownAt(m, i) PROVE FALSE
      <4>1. heard[m].at # 0
        BY <1>5, <3>2 DEF Seen
      <4>2. said[m] = saying /\ now - heard[m].at < Window
        BY <1>1, <2>1, <3>1, <4>1
      <4>3. CASE AsOwn(m)
        <5> DEFINE last == lastSelfChat[saying.text]
        <5>1. last.at # 0 /\ heard[m].at <= last.at /\ last.at \in Nat
              /\ (last.sender = "Me" \/ now - heard[m].at >= Window)
          BY <1>1, <4>2, <4>3 DEF AsOwn, Ago, OwnType
        <5> HIDE DEF last
        <5>2. now - last.at < Window /\ last.sender = "Me"
          BY <1>1, <4>2, <5>1
        <5> QED
          BY <2>1, <2>3, <5>1, <5>2 DEF duplicate, last
      <4>4. CASE AsEcho(m)
        <5> DEFINE echo == lastEchoChatAt[<<"Me", saying.text>>]
        <5>1. "Me" \in Name /\ <<"Me", saying.text>> \in Name \X Text
          BY <1>1 DEF Name
        <5>2. echo # 0 /\ heard[m].at <= echo /\ echo \in Nat /\ "collections" \in heard[m].over
          BY <4>2, <4>4, <5>1 DEF AsEcho, OwnType
        <5> HIDE DEF echo
        <5>3. now - echo < Window
          BY <1>1, <4>2, <5>2
        <5>4. via # "collections"
          BY <3>1, <5>2
        <5> QED
          BY <2>1, <2>3, <5>2, <5>3, <5>4 DEF duplicate, echo
      <4> QED
        BY <1>5, <2>1, <3>2, <4>1, <4>3, <4>4 DEF Remembered
    <3>3. \A i, j : ShownAt(m, i)' /\ ShownAt(m, j)' => i = j
      BY <2>3, <3>2
    <3>4. heard'[m].at # 0 /\ heard'[m].at <= now /\ via \in heard'[m].over
      BY <1>1, <2>1
    <3>5. CASE via # "collections"
      <4>1. lastSelfChat'[said'[m].text] = [at |-> now, sender |-> "Me"]
        BY <1>1, <2>1, <2>3, <3>5 DEF OwnType
      <4>2. AsOwn(m)'
        BY <1>1, <3>4, <4>1 DEF AsOwn
      <4> QED
        BY <1>5, <3>3, <4>2
    <3>6. CASE via = "collections"
      <4> DEFINE p == <<"Me", saying.text>>
      <4>1. p \in Name \X Text
        BY <1>1 DEF Name
      <4>2. lastEchoChatAt'[p] = now
        BY <1>1, <2>1, <2>3, <3>6, <4>1 DEF OwnType
      <4>3. AsEcho(m)'
        BY <1>1, <3>4, <3>6, <4>2 DEF AsEcho
      <4> QED
        BY <1>5, <3>3, <4>3
    <3> QED
      BY <3>5, <3>6
  <2> QED
    BY <2>2, <2>3, EffectShows
<1> QED
  BY <1>4, <1>5
LEMMA EffectGrounded ==
  ASSUME ChatInv, OwnType, Past, Grounded,
         NEW m \in Message, NEW via \in Transport, NEW saying, NEW sender,
         Effect(m, via, saying, sender), UNCHANGED now
  PROVE  Grounded'
<1>1. /\ said'[m] = saying
      /\ \A n \in Message : heard[n].at # 0 => heard'[n].at # 0 /\ said'[n] = said[n]
      /\ heard'[m].at # 0 /\ saying.text \in Text
  <2>1. /\ said'[m] = saying /\ heard'[m] = Heard(m, via, sender, now)
        /\ \A n \in Message : heard[n].at # 0 => heard'[n].at # 0 /\ said'[n] = said[n]
        /\ saying.text \in Text /\ now # 0
    BY EffectType
  <2> QED
    BY <2>1 DEF Heard
<1>2. /\ via # "collections" => m \in Own
      /\ m \in Theirs => sender \in Bobs
      /\ sender \in Name
      /\ chat'.seenIds = chat.seenIds \cup {idOf(m, via, saying)}
      /\ \/ UNCHANGED lastSelfChat
         \/ /\ via # "collections"
            /\ lastSelfChat' = [lastSelfChat EXCEPT ![saying.text] = [at |-> now, sender |-> sender]]
      /\ \/ UNCHANGED lastEchoChatAt
         \/ lastEchoChatAt' = [lastEchoChatAt EXCEPT ![<<sender, saying.text>>] = now]
  BY DEF Effect
<1>3. \A x : UserSaid(x) => UserSaid(x)'
  BY <1>1 DEF UserSaid, Message
<1>4. m \in Own => UserSaid(saying.text)'
  BY <1>1 DEF UserSaid
<1>5. ASSUME NEW t \in Text, lastSelfChat'[t].at # 0 PROVE UserSaid(t)'
  <2>1. CASE lastSelfChat'[t] = lastSelfChat[t]
    BY <1>3, <1>5, <2>1 DEF Grounded
  <2>2. CASE t = saying.text /\ via # "collections"
    BY <1>2, <1>4, <2>2
  <2> QED
    BY <1>2, <2>1, <2>2 DEF OwnType
<1>6. ASSUME NEW s \in Mine, NEW t \in Text, s \in Name, lastEchoChatAt'[<<s, t>>] # 0
      PROVE  UserSaid(t)'
  <2>1. CASE lastEchoChatAt'[<<s, t>>] = lastEchoChatAt[<<s, t>>]
    BY <1>3, <1>6, <2>1 DEF Grounded
  <2>2. CASE t = saying.text /\ s = sender
    <3>1. m \in Own
      BY <1>2, <2>2 DEF Message, Mine, Bobs
    <3> QED
      BY <1>4, <2>2, <3>1
  <2>3. <<s, t>> \in Name \X Text
    BY <1>6
  <2> QED
    BY <1>2, <2>1, <2>2, <2>3 DEF OwnType
<1>7. ASSUME NEW n \in Own, NEW v \in Transport, <<v, n>> \in chat'.seenIds
      PROVE  heard'[n].at # 0
  <2>1. CASE <<v, n>> \in chat.seenIds
    BY <1>1, <2>1 DEF Grounded, Message
  <2>2. CASE n = m
    BY <1>1, <2>2
  <2>3. CASE <<v, n>> = <<via, saying.text>>
    BY <1>1, <2>3, ChatAssumption DEF Message
  <2> QED
    BY <1>2, <1>7, <2>1, <2>2, <2>3 DEF idOf
<1>8. ASSUME NEW t \in Text, NEW v \in Transport, <<v, t>> \in chat'.seenIds
      PROVE  UserSaid(t)'
  <2>1. CASE <<v, t>> \in chat.seenIds
    BY <1>3, <2>1 DEF Grounded
  <2>2. CASE <<v, t>> = <<via, m>>
    BY <2>2, ChatAssumption
  <2>3. CASE <<v, t>> = <<via, saying.text>> /\ via # "collections"
    BY <1>2, <1>4, <2>3
  <2> QED
    BY <1>2, <1>8, <2>1, <2>2, <2>3 DEF idOf
<1> QED
  BY <1>5, <1>6, <1>7, <1>8 DEF Grounded

LEMMA EffectKeptOwn ==
  ASSUME ChatInv, OwnType, Past, Grounded, KeptOwn,
         NEW m \in Message, NEW via \in Transport, NEW saying, NEW sender,
         Effect(m, via, saying, sender), UNCHANGED now
  PROVE  KeptOwn'
<1>1. /\ said'[m] = saying /\ \A n \in Message : n # m => said'[n] = said[n] /\ heard'[n] = heard[n]
      /\ \A n \in Message : heard[n].at # 0 => said'[n] = said[n] /\ said[n].text \in Text
      /\ saying.text \in Text
  BY EffectType DEF Past
<1>2. /\ \A n, i : ShownAt(n, i) => ShownAt(n, i)'
      /\ \/ duplicate(via # "collections", sender, saying.text, now)
         \/ idOf(m, via, saying) \in chat.seenIds
         \/ \E i : ShownAt(m, i)'
  BY EffectShows
<1> SUFFICES ASSUME NEW n \in Own, heard'[n].at # 0, Others(n)' = {}
             PROVE  \E i : ShownAt(n, i)'
  BY DEF KeptOwn
<1>3. n \in Message
  BY DEF Message
<1>4. CASE heard[n].at # 0
  <2>1. ASSUME NEW o \in Others(n) PROVE FALSE
    <3>1. o \in Own \ {n} /\ said[o].text = said[n].text /\ said[n].text \in Text
      BY <1>1, <1>3, <1>4, <2>1 DEF Others
    <3>2. said'[o] = said[o]
      <4>1. CASE o = m
        <5>1. said[m].text # "nothing"
          BY <3>1, <4>1, ChatAssumption
        <5> QED
          BY <1>1, <4>1, <5>1 DEF Effect
      <4> QED
        BY <1>1, <3>1, <4>1 DEF Message
    <3>3. o \in Others(n)'
      BY <1>1, <1>3, <1>4, <3>1, <3>2 DEF Others
    <3> QED
      BY <3>3
  <2> QED
    BY <1>2, <1>4, <2>1 DEF KeptOwn
<1>5. CASE heard[n].at = 0
  <2>1. n = m
    BY <1>1, <1>3, <1>5
  <2>2. ~UserSaid(saying.text)
    <3> SUFFICES ASSUME NEW o \in Own, heard[o].at # 0, said[o].text = saying.text PROVE FALSE
      BY DEF UserSaid
    <3>1. o # m /\ said'[o] = said[o]
      BY <1>1, <1>5, <2>1 DEF Message
    <3> QED
      BY <1>1, <2>1, <3>1 DEF Others
  <2>3. sender \in Mine /\ sender \in Name
    BY <2>1 DEF Effect
  <2>4. lastSelfChat[saying.text].at = 0 /\ lastEchoChatAt[<<sender, saying.text>>] = 0
    BY <1>1, <2>2, <2>3 DEF Grounded
  <2>5. ~duplicate(via # "collections", sender, saying.text, now)
    BY <2>4 DEF duplicate
  <2>6. idOf(m, via, saying) \notin chat.seenIds
    BY <1>1, <1>5, <2>1, <2>2 DEF idOf, Grounded
  <2> QED
    BY <1>2, <2>1, <2>5, <2>6
<1> QED
  BY <1>4, <1>5

\* A copy that a paused meeting drops, and every step that is not a copy.
LEMMA SameOwn ==
  ASSUME ChatInv, OwnInv, UNCHANGED <<heard, chat, lastSelfChat, lastEchoChatAt>>,
         now' \in Nat, now' >= now,
         \A n \in Message : said[n].text # "nothing" => said'[n] = said[n]
  PROVE  OwnInv'
<1>1. /\ \A n \in Message : heard[n].at # 0 => said'[n] = said[n]
      /\ OwnType /\ Past /\ Seen /\ Remembered /\ Grounded /\ KeptOwn
      /\ now \in Nat /\ Window \in Nat
  BY ChatAssumption DEF OwnInv, Past, ChatInv, ChatType
<1>2. OwnType'
  BY <1>1 DEF OwnType
<1>3. Past'
  BY <1>1, <1>2 DEF Past, OwnType, Hearing
<1>4. \A n, i : ShownAt(n, i)' <=> ShownAt(n, i)
  BY DEF ShownAt
<1>5. Seen'
  <2> SUFFICES ASSUME NEW n \in Own, NEW v \in heard[n].over
               PROVE  idOf(n, v, said'[n]) \in chat.seenIds
    BY <1>1, <1>4 DEF Seen, idOf
  <2>1. heard[n].at # 0
    BY <1>1 DEF Past, Message
  <2> QED
    BY <1>1, <2>1 DEF Seen, Message
<1>6. Remembered'
  <2> SUFFICES ASSUME NEW n \in Own, heard[n].named, ~heard[n].late, NEW i, ShownAt(n, i)
               PROVE  (AsOwn(n) \/ AsEcho(n))'
    BY <1>1, <1>4 DEF Remembered
  <2>1. said'[n] = said[n] /\ (AsOwn(n) \/ AsEcho(n)) /\ heard[n].at \in Nat
    BY <1>1 DEF Seen, Message, Remembered, OwnType, Hearing
  <2>2. now - heard[n].at >= Window => now' - heard[n].at >= Window
    BY <1>1, <2>1
  <2> QED
    BY <2>1, <2>2 DEF AsOwn, AsEcho, Ago
<1>7. \A x : UserSaid(x) => UserSaid(x)'
  BY <1>1 DEF UserSaid, Message
<1>8. Grounded'
  BY <1>1, <1>7 DEF Grounded
<1>9. KeptOwn'
  <2> SUFFICES ASSUME NEW n \in Own, heard[n].at # 0, Others(n)' = {}
               PROVE  \E i : ShownAt(n, i)
    BY <1>4 DEF KeptOwn
  <2>1. said'[n] = said[n] /\ said[n].text \in Text
    BY <1>1 DEF Past, Message
  <2>2. \A o \in Others(n) : said'[o] = said[o]
    BY <2>1, ChatAssumption DEF Others, Message
  <2>3. Others(n) \subseteq Others(n)'
    BY <2>1, <2>2 DEF Others
  <2> QED
    BY <1>1, <2>3 DEF KeptOwn
<1> QED
  BY <1>2, <1>3, <1>5, <1>6, <1>8, <1>9 DEF OwnInv
LEMMA OwnCopyStep ==
  ASSUME ChatInv, OwnInv, NEW m \in Message, NEW via \in Transport, NEW on \in BOOLEAN,
         Copy(m, via, now, on), UNCHANGED now
  PROVE  OwnInv'
<1>1. CASE on
  <2>1. PICK saying, sender : Effect(m, via, saying, sender)
    BY <1>1, CopyEffect
  <2> USE DEF OwnInv
  <2>2. OwnType' /\ Past'
    BY <2>1, EffectType
  <2>3. Seen'
    BY <2>1, EffectSeen
  <2>4. Remembered'
    BY <2>1, EffectRemembered
  <2>5. Grounded'
    BY <2>1, EffectGrounded
  <2>6. KeptOwn'
    BY <2>1, EffectKeptOwn
  <2> QED
    BY <2>2, <2>3, <2>4, <2>5, <2>6
<1>2. CASE ~on
  <2>1. PICK saying \in Sayings(m) :
          /\ said' = [said EXCEPT ![m] = saying]
          /\ UNCHANGED <<heard, roster, chat, lastSelfChat, lastEchoChatAt>>
    BY <1>2 DEF Copy
  <2>2. /\ said \in [Message -> Said] /\ now \in Nat
        /\ said[m].text # "nothing" => saying = said[m]
    BY <2>1 DEF ChatInv, ChatType, Sayings
  <2>3. \A n \in Message : said[n].text # "nothing" => said'[n] = said[n]
    BY <2>1, <2>2
  <2> QED
    BY <2>1, <2>2, <2>3, SameOwn
<1> QED
  BY <1>1, <1>2

\* What ChatReset leaves.
Cleared ==
  /\ chat = ChatLog /\ lastSelfChat = [t \in Text |-> Never]
  /\ lastEchoChatAt = [p \in Name \X Text |-> 0]
  /\ heard = [m \in Message |-> Unheard]
  /\ now \in Nat

LEMMA OwnReset == Cleared => OwnInv
<1> SUFFICES ASSUME Cleared PROVE OwnInv
  OBVIOUS
<1> USE DEF Cleared
<1>1. \A n, i : ~ShownAt(n, i)
  BY DEF ShownAt, ChatLog
<1>2. OwnType
  BY DEF OwnType, Never, Unheard, Hearing
<1>3. Past /\ Seen
  <2>1. Past
    BY DEF Past, Never, Unheard
  <2>2. Seen
    BY <1>1 DEF Seen, Unheard, Message
  <2> QED
    BY <2>1, <2>2
<1>4. Remembered /\ KeptOwn
  BY <1>1 DEF Remembered, KeptOwn, Unheard, Message
<1>5. Grounded
  <2>1. \A s \in Mine, t \in Text : s \in Name => lastEchoChatAt[<<s, t>>] = 0
    OBVIOUS
  <2> QED
    BY <2>1 DEF Grounded, Never, ChatLog
<1> QED
  BY <1>2, <1>3, <1>4, <1>5 DEF OwnInv

LEMMA OwnStep == ChatInv /\ FeedType /\ OwnInv /\ [Next]_vars => OwnInv'
<1> SUFFICES ASSUME ChatInv, FeedType, OwnInv, [Next]_vars PROVE OwnInv'
  OBVIOUS
<1>0. now \in Nat
  BY DEF ChatInv, ChatType
<1>1. CASE Tick \/ MeetRevises \/ NextFrame \/ OtherTraffic \/ SetRecording \/ UNCHANGED vars
  <2>1. UNCHANGED chatVars /\ (now' = now \/ now' = now + 1)
    BY <1>1 DEF Tick, MeetRevises, NextFrame, OtherTraffic, SetRecording, vars
  <2> QED
    BY <1>0, <2>1, SameOwn DEF chatVars
<1>2. CASE Purge
  <2>1. Cleared'
    BY <1>0, <1>2 DEF Purge, ChatReset, Cleared
  <2> QED
    BY <2>1, OwnReset, PTL
<1>3. CASE Chat
  <2>0. UNCHANGED now
    BY <1>3 DEF Chat
  <2>1. CASE LearnName \/ LearnDevice
    BY <1>0, <2>0, <2>1, SameOwn DEF LearnName, LearnDevice
  <2>2. CASE \E m \in budget.chat, via \in Transport : Copy(m, via, now, recording)
    <3>1. PICK m \in Message, via \in Transport : Copy(m, via, now, recording)
      BY <2>2 DEF FeedType, Budget
    <3> QED
      BY <2>0, <3>1, OwnCopyStep DEF FeedType
  <2> QED
    BY <1>3, <2>1, <2>2 DEF Chat
<1> QED
  BY <1>1, <1>2, <1>3 DEF Next

LEMMA OwnHolds == Spec => []OwnInv
<1>1. Init => OwnInv
  BY OwnReset DEF Init, ChatInit, Cleared
<1>2. Spec => [](ChatInv /\ FeedType)
  BY ChatHolds
<1> QED
  BY <1>1, <1>2, OwnStep, PTL DEF Spec

\* A message of the user's shows once, whichever of its copies come, in whatever order and
\* however often the channel replays them, as long as each transport first delivers within
\* the window and the name was known (handleChat, ChatLog).
THEOREM OwnShownOnce == Spec => []ShownOnce
<1>1. OwnInv => ShownOnce
  <2> SUFFICES ASSUME OwnInv, NEW m \in Own, heard[m].named, ~heard[m].late
               PROVE  TimesShown(m) <= 1
    BY DEF ShownOnce
  <2> DEFINE S == {i \in 1..Len(chat.messages) : chat.messages[i].of = m}
  <2>1. \A i, j \in S : i = j
    BY DEF OwnInv, Remembered, ShownAt
  <2>0. TimesShown(m) = Cardinality(S)
    BY DEF TimesShown
  <2> HIDE DEF S
  <2>2. CASE S = {}
    BY <2>0, <2>2, FS_EmptySet
  <2>3. CASE S # {}
    <3>1. PICK i \in S : S = {i}
      BY <2>1, <2>3
    <3>2. Cardinality({i}) = 1
      BY FS_Singleton
    <3> QED
      BY <2>0, <3>1, <3>2
  <2> QED
    BY <2>2, <2>3
<1> QED
  BY <1>1, OwnHolds, PTL

\* A message of the user's whose text the user sent only once is shown once a copy came: no
\* copy of it is taken to repeat what another participant said (handleChat).
THEOREM OwnAreKept == Spec => []OwnKept
<1>1. ChatInv /\ OwnInv => OwnKept
  <2> SUFFICES ASSUME ChatInv, OwnInv, NEW m \in Own, heard[m].at # 0, Others(m) = {}
               PROVE  TimesShown(m) >= 1
    BY DEF OwnKept
  <2> DEFINE S == {i \in 1..Len(chat.messages) : chat.messages[i].of = m}
  <2>1. PICK i : i \in S
    BY DEF OwnInv, KeptOwn, ShownAt
  <2>2. Len(chat.messages) \in Nat
    BY DEF ChatInv, ChatType
  <2>3. IsFiniteSet(S)
    <3>1. IsFiniteSet(1..Len(chat.messages))
      BY <2>2, FS_Interval
    <3> QED
      BY <3>1, FS_Subset
  <2>4. Cardinality(S) # 0 /\ Cardinality(S) \in Nat
    BY <2>1, <2>3, FS_EmptySet, FS_CardinalityType
  <2> QED
    BY <2>4 DEF TimesShown
<1> QED
  BY <1>1, OwnHolds, ChatHolds, PTL
-----------------------------------------------------------------------------
(***************************************************************************)
(* NoWordTwice and NoWordLost. Shown and Within are recursive functions on *)
(* an interval: such a function exists, and what holds of it is shown by    *)
(* induction, for which a set takes the place of the predicate.            *)
(***************************************************************************)

LEMMA Least ==
  ASSUME NEW S, S \subseteq Nat, S # {}
  PROVE  \E n \in S : \A m \in S : n <= m
<1>1. PICK n \in S : \A m \in S : ~(<<m, n>> \in OpToRel(<, Nat))
  BY WFMin, NatLessThanWellFounded
<1>2. ASSUME NEW m \in S PROVE ~(m < n)
  BY <1>1 DEF OpToRel
<1> QED
  BY <1>2

LEMMA Induct ==
  ASSUME NEW S, 0 \in S, \A n \in Nat : n \in S => n + 1 \in S
  PROVE  Nat \subseteq S
<1> SUFFICES ASSUME Nat \ S # {} PROVE FALSE
  OBVIOUS
<1>1. PICK n \in Nat \ S : \A m \in Nat \ S : n <= m
  BY Least
<1>2. n # 0 /\ n - 1 \in Nat
  OBVIOUS
<1>3. n - 1 \in S
  BY <1>1, <1>2
<1> QED
  BY <1>2, <1>3

\* A recursion over 1..n whose step is the function F.
StaysIn(X, n, F) == \A x \in X, i \in 1..n : F[i][x] \in X

Solved(X, first, n, F) ==
  \E f \in [0..n -> X] : f[0] = first /\ \A i \in 1..n : f[i] = F[i][f[i - 1]]

LEMMA Recursion ==
  ASSUME NEW X, NEW first \in X, NEW n \in Nat, NEW F, StaysIn(X, n, F)
  PROVE  Solved(X, first, n, F)
<1> USE DEF StaysIn, Solved
<1> DEFINE Solves(k, f) == f[0] = first /\ \A i \in 1..k : f[i] = F[i][f[i - 1]]
           S == {k \in Nat : k <= n => \E f \in [0..k -> X] : Solves(k, f)}
<1>1. 0 \in S
  <2>1. [i \in 0..0 |-> first] \in [0..0 -> X] /\ [i \in 0..0 |-> first][0] = first
    OBVIOUS
  <2>2. Solves(0, [i \in 0..0 |-> first])
    BY <2>1
  <2> QED
    BY <2>1, <2>2
<1>2. ASSUME NEW k \in Nat, k \in S PROVE k + 1 \in S
  <2> SUFFICES ASSUME k + 1 <= n PROVE \E f \in [0..(k + 1) -> X] : Solves(k + 1, f)
    OBVIOUS
  <2>1. PICK f \in [0..k -> X] : Solves(k, f)
    BY <1>2
  <2> DEFINE g == [i \in 0..(k + 1) |-> IF i = k + 1 THEN F[k + 1][f[k]] ELSE f[i]]
  <2>2. f[k] \in X /\ F[k + 1][f[k]] \in X
    OBVIOUS
  <2>3. g \in [0..(k + 1) -> X]
    BY <2>2
  <2>4. g[k + 1] = F[k + 1][f[k]] /\ \A i \in 0..k : g[i] = f[i]
    OBVIOUS
  <2> HIDE DEF g
  <2>5. g[0] = first
    BY <2>1, <2>4
  <2>6. ASSUME NEW i \in 1..(k + 1) PROVE g[i] = F[i][g[i - 1]]
    <3>1. CASE i = k + 1
      <4>1. i - 1 = k /\ g[k] = f[k]
        BY <2>4, <3>1
      <4> QED
        BY <2>4, <3>1, <4>1
    <3>2. CASE i # k + 1
      <4>1. i \in 1..k /\ i \in 0..k /\ i - 1 \in 0..k
        BY <3>2
      <4> QED
        BY <2>1, <2>4, <4>1
    <3> QED
      BY <3>1, <3>2
  <2> QED
    BY <2>3, <2>5, <2>6
<1> HIDE DEF S
<1>3. Nat \subseteq S
  BY <1>1, <1>2, Induct
<1> QED
  BY <1>3 DEF S

Part == [startedAt : Nat, endedAt : Nat, base : Seq(Word), text : Seq(Word)]

\* g[i] is what the first i segments show.
Adds(s, g) == g[0] = <<>> /\ \A i \in 1..Len(s) : g[i] = g[i - 1] \o s[i].text

LEMMA AddsUnique ==
  ASSUME NEW s, Len(s) \in Nat, NEW g, NEW h, Adds(s, g), Adds(s, h)
  PROVE  \A i \in 0..Len(s) : g[i] = h[i]
<1> DEFINE n == Len(s)
           S == {i \in Nat : i <= n => g[i] = h[i]}
<1>1. 0 \in S
  BY DEF Adds
<1>2. ASSUME NEW i \in Nat, i \in S PROVE i + 1 \in S
  <2> SUFFICES ASSUME i + 1 <= n PROVE g[i + 1] = h[i + 1]
    OBVIOUS
  <2>1. i <= n /\ i + 1 \in 1..n /\ (i + 1) - 1 = i
    OBVIOUS
  <2>2. g[i] = h[i]
    BY <1>2, <2>1
  <2> HIDE DEF n, S
  <2>3. g[i + 1] = g[i] \o s[i + 1].text /\ h[i + 1] = h[i] \o s[i + 1].text
    BY <2>1 DEF Adds, n
  <2> QED
    BY <2>2, <2>3, Zenon
<1> HIDE DEF S
<1>3. Nat \subseteq S
  BY <1>1, <1>2, Induct
<1> QED
  BY <1>3 DEF S

LEMMA AddsExists ==
  ASSUME NEW s \in Seq(Part)
  PROVE  \E g \in [0..Len(s) -> Seq(Word)] : Adds(s, g)
<1> DEFINE n == Len(s)
           F == [i \in 1..n |-> [x \in Seq(Word) |-> x \o s[i].text]]
<1>1. n \in Nat /\ <<>> \in Seq(Word)
  OBVIOUS
<1>2. ASSUME NEW x \in Seq(Word), NEW i \in 1..n PROVE F[i][x] \in Seq(Word) /\ F[i][x] = x \o s[i].text
  <2>1. s[i] \in Part
    OBVIOUS
  <2>2. s[i].text \in Seq(Word)
    BY <2>1 DEF Part
  <2>3. F[i][x] = x \o s[i].text
    OBVIOUS
  <2> HIDE DEF F
  <2> QED
    BY <2>2, <2>3
<1> HIDE DEF F, n
<1> DEFINE X == Seq(Word)
           first == <<>>
<1>0. first \in X /\ \A x \in X, i \in 1..n : F[i][x] \in X
  BY <1>1, <1>2
<1> HIDE DEF X, first
<1>3. Solved(X, first, n, F)
  BY <1>0, <1>1, Recursion DEF StaysIn
<1>5. PICK g \in [0..n -> X] : g[0] = first /\ \A i \in 1..n : g[i] = F[i][g[i - 1]]
  BY <1>3 DEF Solved
<1> USE DEF X, first
<1>4. ASSUME NEW i \in 1..n PROVE g[i] = g[i - 1] \o s[i].text
  <2>1. i - 1 \in 0..n
    BY <1>1
  <2> QED
    BY <1>2, <1>5, <2>1
<1> QED
  BY <1>4, <1>5 DEF Adds, n

LEMMA ShownAdds ==
  ASSUME NEW k, captions[k].segments \in Seq(Part), NEW g, Adds(captions[k].segments, g)
  PROVE  Shown(k) = g[Len(captions[k].segments)]
<1> DEFINE s == captions[k].segments
           n == Len(s)
           f == CHOOSE h : h = [i \in 0..n |-> IF i = 0 THEN <<>> ELSE h[i - 1] \o s[i].text]
<1>1. Shown(k) = f[n]
  BY DEF Shown
<1>2. n \in Nat
  OBVIOUS
<1>3. PICK h \in [0..n -> Seq(Word)] : Adds(s, h)
  BY AddsExists
<1>4. h = [i \in 0..n |-> IF i = 0 THEN <<>> ELSE h[i - 1] \o s[i].text]
  <2>1. ASSUME NEW i \in 0..n PROVE h[i] = IF i = 0 THEN <<>> ELSE h[i - 1] \o s[i].text
    <3>1. i # 0 => i \in 1..n
      BY <1>2
    <3> QED
      BY <1>3, <3>1 DEF Adds
  <2> QED
    BY <1>3, <2>1
<1>5. f = [i \in 0..n |-> IF i = 0 THEN <<>> ELSE f[i - 1] \o s[i].text]
  BY <1>4
<1> HIDE DEF f, s, n
<1>6. f[0] = <<>> /\ \A i \in 1..n : f[i] = f[i - 1] \o s[i].text
  <2>1. 0 \in 0..n /\ \A i \in 1..n : i \in 0..n /\ i # 0
    BY <1>2
  <2>2. \A i \in 0..n : f[i] = IF i = 0 THEN <<>> ELSE f[i - 1] \o s[i].text
    BY <1>5, Zenon
  <2> QED
    BY <2>1, <2>2
<1>7. Adds(s, f) /\ Adds(s, g)
  BY <1>6 DEF Adds, n, s
<1>8. f[n] = g[n]
  BY <1>2, <1>7, AddsUnique DEF n
<1> QED
  BY <1>1, <1>8 DEF n, s

\* Where the search for the next word of s in t stops.
nextAt(s, t, i, from) ==
  LET next == {j \in 1..Len(t) : from < j /\ t[j] = s[i]} IN
  IF from > Len(t) \/ next = {} THEN Len(t) + 1
  ELSE CHOOSE j \in next : \A n \in next : j <= n

LEMMA NextAt ==
  ASSUME NEW s, NEW t \in Seq(Word), NEW i, NEW from \in Nat
  PROVE  /\ nextAt(s, t, i, from) \in Nat
         /\ \A j \in 1..Len(t) : from < j /\ t[j] = s[i] => nextAt(s, t, i, from) <= j
<1> DEFINE next == {j \in 1..Len(t) : from < j /\ t[j] = s[i]}
           least == CHOOSE j \in next : \A n \in next : j <= n
<1>1. Len(t) \in Nat
  OBVIOUS
<1>2. CASE from > Len(t) \/ next = {}
  <2>1. nextAt(s, t, i, from) = Len(t) + 1
    BY <1>2 DEF nextAt
  <2>2. \A j \in 1..Len(t) : ~(from < j /\ t[j] = s[i])
    BY <1>1, <1>2
  <2> QED
    BY <1>1, <2>1, <2>2
<1>3. CASE ~(from > Len(t) \/ next = {})
  <2>1. next \subseteq Nat /\ next # {}
    BY <1>3
  <2>2. nextAt(s, t, i, from) = least
    BY <1>3 DEF nextAt
  <2>3. \A j \in 1..Len(t) : from < j /\ t[j] = s[i] => j \in next
    OBVIOUS
  <2> HIDE DEF next
  <2>4. \E j \in next : \A n \in next : j <= n
    BY <2>1, Least
  <2>5. least \in next /\ \A n \in next : least <= n
    BY <2>4
  <2> HIDE DEF least
  <2> QED
    BY <2>1, <2>2, <2>3, <2>5
<1> QED
  BY <1>2, <1>3

\* s is t with some of its elements left out: e[i] is where the i-th of s is in t.
Places(s, t, e) ==
  /\ \A i \in 1..Len(s) : e[i] \in 1..Len(t) /\ t[e[i]] = s[i]
  /\ \A i, j \in 1..Len(s) : i < j => e[i] < e[j]

Embeds(s, t) == \E e : Places(s, t, e)

LEMMA EmbedsWithin ==
  ASSUME NEW s \in Seq(Word), NEW t \in Seq(Word), Embeds(s, t)
  PROVE  Within(s, t)
<1> DEFINE n == Len(s)
           F == [i \in 1..n |-> [from \in Nat |-> nextAt(s, t, i, from)]]
           at == CHOOSE h : h = [i \in 0..n |->
                   IF i = 0 THEN 0
                   ELSE LET from == h[i - 1]
                            next == {j \in 1..Len(t) : from < j /\ t[j] = s[i]}
                        IN IF from > Len(t) \/ next = {} THEN Len(t) + 1
                           ELSE CHOOSE j \in next : \A m \in next : j <= m]
<1>1. n \in Nat /\ Len(t) \in Nat
  OBVIOUS
<1>2. Within(s, t) <=> at[n] <= Len(t)
  BY DEF Within
<1>3. ASSUME NEW x \in Nat, NEW i \in 1..n PROVE F[i][x] \in Nat /\ F[i][x] = nextAt(s, t, i, x)
  BY NextAt
<1> HIDE DEF F, n
<1>4. StaysIn(Nat, n, F)
  BY <1>3 DEF StaysIn
<1>5. Solved(Nat, 0, n, F)
  BY <1>1, <1>4, Recursion
<1>6. PICK h \in [0..n -> Nat] : h[0] = 0 /\ \A i \in 1..n : h[i] = F[i][h[i - 1]]
  BY <1>5 DEF Solved
<1>7. ASSUME NEW i \in 0..n PROVE h[i] = IF i = 0 THEN 0 ELSE nextAt(s, t, i, h[i - 1])
  <2>1. i # 0 => i \in 1..n /\ i - 1 \in 0..n
    BY <1>1
  <2> QED
    BY <1>3, <1>6, <2>1
<1>8. h = [i \in 0..n |-> IF i = 0 THEN 0 ELSE nextAt(s, t, i, h[i - 1])]
  BY <1>6, <1>7
<1>9. at = [i \in 0..n |-> IF i = 0 THEN 0 ELSE nextAt(s, t, i, at[i - 1])]
  BY <1>8, Zenon DEF nextAt
<1> HIDE DEF at
<1>10. at[0] = 0 /\ \A i \in 1..n : at[i] = nextAt(s, t, i, at[i - 1])
  <2>1. 0 \in 0..n /\ \A i \in 1..n : i \in 0..n /\ i # 0
    BY <1>1
  <2>2. \A i \in 0..n : at[i] = IF i = 0 THEN 0 ELSE nextAt(s, t, i, at[i - 1])
    BY <1>9, Zenon
  <2> QED
    BY <2>1, <2>2
<1>11. PICK e : Places(s, t, e)
  BY DEF Embeds
<1> DEFINE S == {i \in Nat : i <= n => at[i] \in Nat /\ (i # 0 => at[i] <= e[i])}
<1>12. 0 \in S
  BY <1>10
<1>13. ASSUME NEW i \in Nat, i \in S PROVE i + 1 \in S
  <2> SUFFICES ASSUME i + 1 <= n PROVE at[i + 1] \in Nat /\ at[i + 1] <= e[i + 1]
    OBVIOUS
  <2>1. at[i] \in Nat /\ (i # 0 => at[i] <= e[i]) /\ i + 1 \in 1..n /\ (i # 0 => i \in 1..n)
    BY <1>1, <1>13
  <2>2. at[i + 1] = nextAt(s, t, i + 1, at[i])
    BY <1>10, <2>1
  <2>3. /\ e[i + 1] \in 1..Len(t) /\ t[e[i + 1]] = s[i + 1]
        /\ i # 0 => e[i] \in 1..Len(t) /\ e[i] < e[i + 1]
    BY <1>11, <2>1 DEF Places, n
  <2> HIDE DEF S
  <2>4. at[i] < e[i + 1]
    <3>1. CASE i = 0
      BY <1>1, <1>10, <2>3, <3>1
    <3>2. CASE i # 0
      BY <1>1, <2>1, <2>3, <3>2
    <3> QED
      BY <3>1, <3>2
  <2> QED
    BY <2>1, <2>2, <2>3, <2>4, NextAt
<1> HIDE DEF S
<1>14. Nat \subseteq S
  BY <1>12, <1>13, Induct
<1>15. at[n] \in Nat /\ (n # 0 => at[n] <= e[n])
  BY <1>1, <1>14 DEF S
<1>16. n # 0 => e[n] \in 1..Len(t)
  BY <1>1, <1>11 DEF Places, n
<1> QED
  BY <1>1, <1>2, <1>10, <1>15, <1>16

LEMMA EmbedsEmpty == ASSUME NEW t PROVE Embeds(<<>>, t)
<1>1. 1..Len(<<>>) = {}
  OBVIOUS
<1> QED
  BY <1>1 DEF Embeds, Places

LEMMA EmbedsFront ==
  ASSUME NEW s \in Seq(Word), NEW t \in Seq(Word), Embeds(s, t), NEW m \in 0..Len(s)
  PROVE  Embeds(SubSeq(s, 1, m), t)
<1>1. PICK e : Places(s, t, e)
  BY DEF Embeds
<1>2. Len(SubSeq(s, 1, m)) = m /\ \A i \in 1..m : i \in 1..Len(s) /\ SubSeq(s, 1, m)[i] = s[i]
  OBVIOUS
<1>3. Places(SubSeq(s, 1, m), t, e)
  BY <1>1, <1>2 DEF Places
<1> QED
  BY <1>3 DEF Embeds

\* What is shown of s and u is what is shown of s, and u.
LEMMA EmbedsMore ==
  ASSUME NEW s \in Seq(Word), NEW t \in Seq(Word), NEW u \in Seq(Word), Embeds(s, t)
  PROVE  Embeds(s \o u, t \o u)
<1>1. PICK e : Places(s, t, e)
  BY DEF Embeds
<1> DEFINE n == Len(s)
           p == Len(t)
           k == Len(u)
           f == [i \in 1..(n + k) |-> IF i <= n THEN e[i] ELSE (i - n) + p]
           su == s \o u
           tu == t \o u
<1>2. /\ n \in Nat /\ p \in Nat /\ k \in Nat
      /\ Len(su) = n + k /\ Len(tu) = p + k
      /\ \A i \in 1..(n + k) : su[i] = IF i <= n THEN s[i] ELSE u[i - n]
      /\ \A i \in 1..(p + k) : tu[i] = IF i <= p THEN t[i] ELSE u[i - p]
  OBVIOUS
<1>3. \A i \in 1..(n + k) : f[i] = IF i <= n THEN e[i] ELSE (i - n) + p
  OBVIOUS
<1>4. /\ \A i \in 1..n : e[i] \in 1..p /\ t[e[i]] = s[i]
      /\ \A i, j \in 1..n : i < j => e[i] < e[j]
  BY <1>1 DEF Places
<1> HIDE DEF n, p, k, f, su, tu
<1>5. ASSUME NEW i \in 1..(n + k) PROVE f[i] \in 1..(p + k) /\ tu[f[i]] = su[i]
  <2>1. CASE i <= n
    <3>1. i \in 1..n
      BY <1>2, <2>1
    <3>2. f[i] = e[i] /\ e[i] \in 1..p /\ t[e[i]] = s[i] /\ su[i] = s[i]
      BY <1>2, <1>3, <1>4, <2>1, <3>1
    <3>3. e[i] \in 1..(p + k) /\ e[i] <= p
      BY <1>2, <3>2
    <3> QED
      BY <1>2, <3>2, <3>3
  <2>2. CASE ~(i <= n)
    <3>1. f[i] = (i - n) + p /\ su[i] = u[i - n]
      BY <1>2, <1>3, <2>2
    <3>2. (i - n) + p \in 1..(p + k) /\ ~((i - n) + p <= p) /\ ((i - n) + p) - p = i - n
      BY <1>2, <2>2
    <3>3. tu[(i - n) + p] = u[i - n]
      BY <1>2, <3>2
    <3> QED
      BY <3>1, <3>2, <3>3
  <2> QED
    BY <2>1, <2>2
<1>6. ASSUME NEW i \in 1..(n + k), NEW j \in 1..(n + k), i < j PROVE f[i] < f[j]
  <2>1. CASE j <= n
    BY <1>2, <1>3, <1>4, <1>6, <2>1
  <2>2. CASE ~(j <= n) /\ i <= n
    <3>1. f[j] = (j - n) + p /\ f[i] = e[i] /\ i \in 1..n
      BY <1>2, <1>3, <2>2
    <3>2. e[i] \in 1..p
      BY <1>4, <3>1
    <3> QED
      BY <1>2, <2>2, <3>1, <3>2
  <2>3. CASE ~(i <= n)
    <3>1. ~(j <= n)
      BY <1>2, <1>6, <2>3
    <3> QED
      BY <1>2, <1>3, <1>6, <2>3, <3>1
  <2> QED
    BY <2>1, <2>2, <2>3
<1>7. Places(su, tu, f)
  BY <1>2, <1>5, <1>6 DEF Places
<1> QED
  BY <1>7 DEF Embeds, su, tu

\* What suffixAfter cuts off is the longest run that both begin with.
Cut(full, base, m) ==
  /\ m \in 0..Len(full) /\ m <= Len(base)
  /\ SubSeq(full, 1, m) = SubSeq(base, 1, m)

LEMMA SuffixAfter ==
  ASSUME NEW full \in Seq(Word), NEW base \in Seq(Word)
  PROVE  \E m : /\ Cut(full, base, m) /\ \A j : Cut(full, base, j) => j <= m
                /\ suffixAfter(full, base) = SubSeq(full, m + 1, Len(full))
<1> DEFINE n == Len(full)
           same == {i \in 0..n : i <= Len(base) /\ SubSeq(full, 1, i) = SubSeq(base, 1, i)}
           m == CHOOSE i \in same : \A j \in same : j <= i
           S == {n - i : i \in same}
<1>1. n \in Nat /\ Len(base) \in Nat
  OBVIOUS
<1>2. 0 \in same
  OBVIOUS
<1>3. suffixAfter(full, base) = SubSeq(full, m + 1, n)
  BY DEF suffixAfter
<1>4. same \subseteq 0..n /\ \A i : i \in same <=> Cut(full, base, i)
  BY DEF Cut
<1> HIDE DEF same, n
<1>5. S \subseteq Nat /\ S # {}
  BY <1>1, <1>2, <1>4
<1>6. PICK l \in S : \A j \in S : l <= j
  <2> HIDE DEF S
  <2> QED
    BY <1>5, Least
<1>7. PICK i \in same : l = n - i
  OBVIOUS
<1>8. \A j \in same : j <= i
  <2> SUFFICES ASSUME NEW j \in same PROVE j <= i
    OBVIOUS
  <2>1. n - j \in S /\ i \in 0..n /\ j \in 0..n
    BY <1>4
  <2>2. n - i <= n - j
    BY <1>6, <1>7, <2>1
  <2> QED
    BY <1>1, <2>1, <2>2
<1>9. m \in same /\ \A j \in same : j <= m
  BY <1>8
<1> HIDE DEF m
<1> QED
  BY <1>3, <1>4, <1>9 DEF n

Caption == [version : Nat, fullText : Seq(Word), lastAt : Nat, segments : Seq(Part)]

AddsTo(s, n, g) == g[0] = <<>> /\ \A i \in 1..n : g[i] = g[i - 1] \o s[i].text

\* The last segment shows what the text has behind a run of its base, and the segments
\* before it show every word of that base.
Covered(c) ==
  LET s == c.segments
      n == Len(s)
  IN
  /\ n > 0
  /\ \E m : Cut(c.fullText, s[n].base, m) /\ s[n].text = SubSeq(c.fullText, m + 1, Len(c.fullText))
  /\ \E g \in [0..(n - 1) -> Seq(Word)] : AddsTo(s, n - 1, g) /\ Embeds(s[n].base, g[n - 1])

\* Every segment begins where the one before it ends.
Chained(c) ==
  LET s == c.segments
      n == Len(s)
  IN
  /\ s[1].base = <<>>
  /\ \A i \in 1..(n - 1) : s[i + 1].base = s[i].base \o s[i].text
  /\ c.fullText = s[n].base \o s[n].text

LEMMA AddsNext ==
  ASSUME NEW s, NEW n \in Nat \ {0}, NEW g \in [0..(n - 1) -> Seq(Word)], AddsTo(s, n - 1, g),
         s[n].text \in Seq(Word)
  PROVE  \E h \in [0..n -> Seq(Word)] : AddsTo(s, n, h) /\ h[n] = g[n - 1] \o s[n].text
<1> DEFINE x == g[n - 1] \o s[n].text
           h == [i \in 0..n |-> IF i = n THEN x ELSE g[i]]
<1>1. g[n - 1] \in Seq(Word)
  OBVIOUS
<1>2. x \in Seq(Word)
  BY <1>1
<1> HIDE DEF x
<1>3. h \in [0..n -> Seq(Word)]
  BY <1>2
<1>4. h[n] = x /\ \A i \in 0..(n - 1) : h[i] = g[i]
  OBVIOUS
<1> HIDE DEF h
<1>5. h[0] = <<>>
  <2>1. 0 \in 0..(n - 1)
    OBVIOUS
  <2>2. h[0] = g[0]
    BY <1>4, <2>1
  <2> QED
    BY <2>2 DEF AddsTo
<1>6. ASSUME NEW i \in 1..n PROVE h[i] = h[i - 1] \o s[i].text
  <2>1. CASE i = n
    <3>1. h[i - 1] = g[n - 1]
      BY <1>4, <2>1
    <3> QED
      BY <1>4, <2>1, <3>1 DEF x
  <2>2. CASE i # n
    <3>1. i \in 1..(n - 1) /\ i \in 0..(n - 1) /\ i - 1 \in 0..(n - 1)
      BY <2>2
    <3>2. h[i] = g[i] /\ h[i - 1] = g[i - 1] /\ g[i] = g[i - 1] \o s[i].text
      BY <1>4, <3>1 DEF AddsTo
    <3> QED
      BY <3>2
  <2> QED
    BY <2>1, <2>2
<1>7. AddsTo(s, n, h)
  BY <1>5, <1>6 DEF AddsTo
<1> QED
  BY <1>3, <1>4, <1>7 DEF x

LEMMA Halves ==
  ASSUME NEW t \in Seq(Word), NEW m \in 0..Len(t)
  PROVE  /\ SubSeq(t, 1, m) \in Seq(Word) /\ SubSeq(t, m + 1, Len(t)) \in Seq(Word)
         /\ SubSeq(t, 1, m) \o SubSeq(t, m + 1, Len(t)) = t
<1> DEFINE a == SubSeq(t, 1, m)
           b == SubSeq(t, m + 1, Len(t))
           ab == a \o b
<1>1. a \in Seq(Word) /\ Len(a) = m /\ \A i \in 1..m : a[i] = t[i]
  OBVIOUS
<1>2. /\ b \in Seq(Word) /\ Len(b) = Len(t) - m
      /\ \A i \in 1..(Len(t) - m) : b[i] = t[(i + m)]
  OBVIOUS
<1> HIDE DEF a, b
<1>3. /\ ab \in Seq(Word) /\ Len(ab) = Len(t)
      /\ \A i \in 1..Len(t) : ab[i] = IF i <= m THEN a[i] ELSE b[i - m]
  BY <1>1, <1>2
<1> HIDE DEF ab
<1>4. ASSUME NEW i \in 1..Len(t) PROVE ab[i] = t[i]
  <2>1. CASE i <= m
    BY <1>1, <1>3, <2>1
  <2>2. CASE ~(i <= m)
    <3>1. i - m \in 1..(Len(t) - m) /\ (i - m) + m = i
      BY <2>2
    <3> QED
      BY <1>2, <1>3, <2>2, <3>1
  <2> QED
    BY <2>1, <2>2
<1>5. ab = t
  BY <1>3, <1>4
<1> QED
  BY <1>1, <1>2, <1>5 DEF a, b, ab

LEMMA CoveredShows ==
  ASSUME NEW c \in Caption, Covered(c)
  PROVE  \E h \in [0..Len(c.segments) -> Seq(Word)] :
           Adds(c.segments, h) /\ Embeds(c.fullText, h[Len(c.segments)])
<1> DEFINE s == c.segments
           n == Len(s)
           full == c.fullText
           base == s[n].base
<1>1. s \in Seq(Part) /\ full \in Seq(Word) /\ n \in Nat \ {0}
  BY DEF Caption, Covered
<1>2. s[n] \in Part
  BY <1>1
<1>3. base \in Seq(Word) /\ s[n].text \in Seq(Word)
  BY <1>2 DEF Part
<1>4. PICK m : Cut(full, base, m) /\ s[n].text = SubSeq(full, m + 1, Len(full))
  BY DEF Covered
<1>5. PICK g \in [0..(n - 1) -> Seq(Word)] : AddsTo(s, n - 1, g) /\ Embeds(base, g[n - 1])
  BY DEF Covered
<1> HIDE DEF s, n, full, base
<1>6. PICK h \in [0..n -> Seq(Word)] : AddsTo(s, n, h) /\ h[n] = g[n - 1] \o s[n].text
  BY <1>1, <1>3, <1>5, AddsNext
<1>7. m \in 0..Len(full) /\ m \in 0..Len(base) /\ SubSeq(full, 1, m) = SubSeq(base, 1, m)
  BY <1>1, <1>3, <1>4 DEF Cut
<1>8. g[n - 1] \in Seq(Word)
  BY <1>1, <1>5
<1>9. Embeds(SubSeq(base, 1, m), g[n - 1]) /\ SubSeq(base, 1, m) \in Seq(Word)
  BY <1>3, <1>5, <1>7, <1>8, EmbedsFront
<1>10. Embeds(SubSeq(base, 1, m) \o s[n].text, g[n - 1] \o s[n].text)
  BY <1>3, <1>8, <1>9, EmbedsMore
<1>11. SubSeq(full, 1, m) \o SubSeq(full, m + 1, Len(full)) = full
  BY <1>1, <1>7, Halves
<1>12. SubSeq(base, 1, m) \o s[n].text = full
  BY <1>4, <1>7, <1>11
<1>13. Embeds(full, h[n])
  BY <1>6, <1>10, <1>12
<1> QED
  BY <1>6, <1>13 DEF Adds, AddsTo, s, n, full
\* A revision touches the last segment, and cuts a new one off before that when the
\* message was interrupted.
Recut(c, split, r) ==
  LET n == Len(split) IN
  /\ split = c.segments
       \/ \E at \in Nat : split = Append(c.segments, Segment(at, c.fullText, <<>>))
  /\ Len(r.segments) = n /\ \A i \in 1..(n - 1) : r.segments[i] = split[i]
  /\ r.segments[n].base = split[n].base
  /\ r.segments[n].text = suffixAfter(r.fullText, split[n].base)

LEMMA SuffixType ==
  ASSUME NEW full \in Seq(Word), NEW base \in Seq(Word)
  PROVE  suffixAfter(full, base) \in Seq(Word)
<1>1. PICK m : Cut(full, base, m) /\ suffixAfter(full, base) = SubSeq(full, m + 1, Len(full))
  BY SuffixAfter
<1>2. m \in 0..Len(full)
  BY <1>1 DEF Cut
<1> QED
  BY <1>1, <1>2, Halves

LEMMA RevisedEffect ==
  ASSUME NEW k, captions[k] \in Caption, captions[k].segments # <<>>,
         NEW version \in Nat, NEW t \in Seq(Word), NEW at \in Nat
  PROVE  LET r == Revised(k, version, t, at) IN
         /\ r \in Caption /\ r.version = version /\ r.fullText = t
         /\ \E split \in Seq(Part) : Recut(captions[k], split, r)
<1> DEFINE c == captions[k]
           split == IF shouldSplit(k, at)
                    THEN Append(c.segments, Segment(at, c.fullText, <<>>)) ELSE c.segments
           n == Len(split)
           words == suffixAfter(t, split[n].base)
           ended == IF Len(words) > Len(split[n].text) THEN at ELSE split[n].endedAt
           last == [split[n] EXCEPT !.text = words, !.endedAt = ended]
           r == Revised(k, version, t, at)
<1>1. c.segments \in Seq(Part) /\ c.segments # <<>> /\ c.fullText \in Seq(Word)
  BY DEF Caption
<1>2. Segment(at, c.fullText, <<>>) \in Part
  BY <1>1 DEF Segment, Part
<1>3. /\ split \in Seq(Part)
      /\ split = c.segments
           \/ \E now_ \in Nat : split = Append(c.segments, Segment(now_, c.fullText, <<>>))
  BY <1>1, <1>2
<1>4. split # <<>>
  BY <1>1, <1>2
<1>5. r = [version |-> version, fullText |-> t, lastAt |-> at,
           segments |-> [split EXCEPT ![n].text = words, ![n].endedAt =
                           IF Len(words) > Len(split[n].text) THEN at ELSE @]]
  BY DEF Revised
<1> HIDE DEF r, split, c
<1>6. n \in Nat \ {0} /\ split[n] \in Part
  BY <1>3, <1>4
<1>7. /\ split[n].base \in Seq(Word) /\ split[n].text \in Seq(Word)
      /\ split[n].endedAt \in Nat /\ split[n].startedAt \in Nat
      /\ split[n] = [startedAt |-> split[n].startedAt, endedAt |-> split[n].endedAt,
                     base |-> split[n].base, text |-> split[n].text]
  BY <1>6 DEF Part
<1>8. words \in Seq(Word)
  BY <1>7, SuffixType
<1> HIDE DEF words
<1>9. ended \in Nat
  BY <1>7
<1>10. r.segments = [split EXCEPT ![n] = last]
  BY <1>5
<1> HIDE DEF ended
<1>11. last \in Part /\ last.base = split[n].base /\ last.text = words
  BY <1>7, <1>8, <1>9 DEF Part
<1> HIDE DEF last, n
<1>12. /\ r.segments \in Seq(Part) /\ Len(r.segments) = n /\ r.segments[n] = last
       /\ \A i \in 1..(n - 1) : r.segments[i] = split[i]
  BY <1>3, <1>6, <1>10, <1>11 DEF n
<1>13. r = [version |-> version, fullText |-> t, lastAt |-> at, segments |-> r.segments]
  BY <1>5
<1>14. r \in Caption
  BY <1>12, <1>13 DEF Caption
<1>15. r.version = version /\ r.fullText = t
  BY <1>13
<1>16. Recut(c, split, r)
  BY <1>3, <1>11, <1>12, <1>15 DEF Recut, words, n
<1> QED
  BY <1>3, <1>14, <1>15, <1>16 DEF r, c

\* Cut off or not, the words of the last segment's new base are shown before it.
LEMMA CoveredStep ==
  ASSUME NEW c \in Caption, Covered(c), NEW r \in Caption, NEW split \in Seq(Part),
         Recut(c, split, r)
  PROVE  Covered(r)
<1> DEFINE s == c.segments
           n == Len(s)
           z == r.segments
           p == Len(z)
<1>1. s \in Seq(Part) /\ z \in Seq(Part) /\ n \in Nat \ {0} /\ c.fullText \in Seq(Word)
      /\ r.fullText \in Seq(Word) /\ p \in Nat /\ p = Len(split)
  BY DEF Caption, Covered, Recut
<1>2. /\ p > 0 /\ z[p].base \in Seq(Word)
      /\ \E g \in [0..(p - 1) -> Seq(Word)] : AddsTo(z, p - 1, g) /\ Embeds(z[p].base, g[p - 1])
  <2>1. CASE split = s
    <3>1. p = n /\ z[n].base = s[n].base /\ s[n] \in Part
      BY <1>1, <2>1 DEF Recut
    <3>2. \A i \in 1..(n - 1) : z[i] = s[i]
      BY <2>1 DEF Recut
    <3>3. PICK g \in [0..(n - 1) -> Seq(Word)] : AddsTo(s, n - 1, g) /\ Embeds(s[n].base, g[n - 1])
      BY DEF Covered
    <3> HIDE DEF n, z, p, s
    <3>4. AddsTo(z, n - 1, g)
      BY <3>2, <3>3 DEF AddsTo
    <3>5. s[n].base \in Seq(Word)
      BY <3>1 DEF Part
    <3>6. p - 1 = n - 1 /\ z[p].base = s[n].base /\ p > 0
      BY <1>1, <3>1
    <3>7. AddsTo(z, p - 1, g) /\ Embeds(z[p].base, g[p - 1]) /\ g \in [0..(p - 1) -> Seq(Word)]
      BY <3>3, <3>4, <3>6
    <3> QED
      BY <3>5, <3>6, <3>7
  <2>2. CASE \E at \in Nat : split = Append(s, Segment(at, c.fullText, <<>>))
    <3>1. PICK at \in Nat : split = Append(s, Segment(at, c.fullText, <<>>))
      BY <2>2
    <3> DEFINE new == Segment(at, c.fullText, <<>>)
    <3>2. new.base = c.fullText
      BY DEF Segment
    <3> HIDE DEF new
    <3>3. Len(split) = n + 1 /\ split[n + 1] = new /\ \A i \in 1..n : split[i] = s[i]
      BY <1>1, <3>1 DEF new
    <3>4. p = n + 1 /\ z[p].base = c.fullText /\ \A i \in 1..n : z[i] = s[i]
      <4>1. p = n + 1
        BY <1>1, <3>3
      <4> HIDE DEF n, s
      <4>2. z[p].base = split[p].base /\ \A i \in 1..(p - 1) : z[i] = split[i]
        BY <1>1 DEF Recut
      <4>3. \A i \in 1..n : i \in 1..(p - 1)
        BY <1>1, <4>1
      <4> HIDE DEF p, z
      <4> QED
        BY <3>2, <3>3, <4>1, <4>2, <4>3
    <3>5. PICK h \in [0..n -> Seq(Word)] : Adds(s, h) /\ Embeds(c.fullText, h[n])
      BY CoveredShows
    <3>6. h[0] = <<>> /\ \A i \in 1..n : h[i] = h[i - 1] \o s[i].text
      BY <3>5 DEF Adds
    <3> HIDE DEF n, z, p, s
    <3>7. AddsTo(z, n, h)
      BY <3>4, <3>6 DEF AddsTo
    <3>8. p - 1 = n /\ p > 0
      BY <1>1, <3>4
    <3>9. AddsTo(z, p - 1, h) /\ Embeds(z[p].base, h[p - 1]) /\ h \in [0..(p - 1) -> Seq(Word)]
      BY <3>4, <3>5, <3>7, <3>8
    <3> QED
      BY <1>1, <3>4, <3>8, <3>9
  <2> QED
    BY <2>1, <2>2 DEF Recut
<1>3. z[p].text = suffixAfter(r.fullText, z[p].base)
  BY <1>1 DEF Recut
<1> DEFINE full == r.fullText
           base == z[p].base
<1>6. full \in Seq(Word) /\ base \in Seq(Word) /\ z[p].text = suffixAfter(full, base)
  BY <1>1, <1>2, <1>3
<1> HIDE DEF p, z, full, base
<1>4. \E m : Cut(full, base, m) /\ z[p].text = SubSeq(full, m + 1, Len(full))
  BY <1>6, SuffixAfter
<1> QED
  BY <1>2, <1>4 DEF Covered, p, z, full, base

LEMMA CoveredFirst ==
  ASSUME NEW version \in Nat, NEW t \in Seq(Word), NEW at \in Nat
  PROVE  LET r == First(version, t, at) IN
         /\ r \in Caption /\ r.version = version /\ r.fullText = t
         /\ Len(r.segments) = 1 /\ r.segments[1].base = <<>>
         /\ r.segments[1].text = suffixAfter(t, <<>>)
         /\ Covered(r)
<1> DEFINE r == First(version, t, at)
           words == suffixAfter(t, <<>>)
           one == [startedAt |-> at, endedAt |-> at, base |-> <<>>, text |-> words]
<1>1. <<>> \in Seq(Word)
  OBVIOUS
<1>2. words \in Seq(Word)
  BY <1>1, SuffixType
<1>3. PICK m : Cut(t, <<>>, m) /\ words = SubSeq(t, m + 1, Len(t))
  BY <1>1, SuffixAfter
<1>4. r = [version |-> version, fullText |-> t, lastAt |-> at, segments |-> <<one>>]
  BY DEF First, Segment
<1> HIDE DEF words, r
<1>5. one \in Part /\ one.base = <<>> /\ one.text = words
  BY <1>1, <1>2 DEF Part
<1> HIDE DEF one
<1>6. <<one>> \in Seq(Part) /\ Len(<<one>>) = 1 /\ <<one>>[1] = one
  BY <1>5
<1> DEFINE s == <<one>>
<1> HIDE DEF s
<1>7. r \in Caption /\ r.segments = s /\ r.fullText = t /\ r.version = version
  BY <1>4, <1>6 DEF Caption, s
<1>8. s[1] = one /\ Len(s) = 1
  BY <1>6 DEF s
<1> DEFINE g == [i \in 0..0 |-> <<>>]
<1>9. g \in [0..0 -> Seq(Word)] /\ g[0] = <<>>
  BY <1>1
<1> HIDE DEF g
<1>10. AddsTo(s, 0, g) /\ Embeds(<<>>, g[0])
  BY <1>9, EmbedsEmpty DEF AddsTo
<1>11. Covered(r)
  <2>1. Cut(r.fullText, s[1].base, m) /\ s[1].text = SubSeq(r.fullText, m + 1, Len(r.fullText))
    BY <1>3, <1>5, <1>7, <1>8
  <2>2. 1 - 1 = 0
    OBVIOUS
  <2> QED
    BY <1>5, <1>7, <1>8, <1>9, <1>10, <2>1, <2>2 DEF Covered
<1> QED
  BY <1>5, <1>7, <1>8, <1>11 DEF r, words

\* t goes on where s ends.
Begins(s, t) == Len(s) <= Len(t) /\ s = SubSeq(t, 1, Len(s))

LEMMA SuffixOfLonger ==
  ASSUME NEW full \in Seq(Word), NEW base \in Seq(Word), Begins(base, full)
  PROVE  base \o suffixAfter(full, base) = full
<1> DEFINE p == Len(base)
<1>1. PICK m : /\ Cut(full, base, m) /\ \A j : Cut(full, base, j) => j <= m
               /\ suffixAfter(full, base) = SubSeq(full, m + 1, Len(full))
  BY SuffixAfter
<1>2. p \in Nat /\ p \in 0..Len(full) /\ base = SubSeq(full, 1, p)
  BY DEF Begins
<1>3. SubSeq(base, 1, p) = base
  OBVIOUS
<1>4. Cut(full, base, p)
  BY <1>2, <1>3 DEF Cut
<1>5. m \in Nat /\ m <= p /\ p <= m
  <2>1. p <= m
    BY <1>1, <1>4
  <2>2. m \in 0..Len(full) /\ m <= p
    BY <1>1 DEF Cut
  <2> QED
    BY <2>1, <2>2
<1> HIDE DEF p
<1>6. m = p
  BY <1>2, <1>5
<1> QED
  BY <1>1, <1>2, <1>6, Halves

LEMMA BeginsFront ==
  ASSUME NEW a \in Seq(Word), NEW b \in Seq(Word), NEW t \in Seq(Word), Begins(a \o b, t)
  PROVE  Begins(a, t)
<1> DEFINE ab == a \o b
           at == SubSeq(t, 1, Len(a))
<1>1. /\ Len(a) \in Nat /\ Len(b) \in Nat /\ Len(t) \in Nat /\ ab \in Seq(Word)
      /\ Len(ab) = Len(a) + Len(b) /\ \A i \in 1..Len(a) : ab[i] = a[i]
  OBVIOUS
<1> HIDE DEF ab
<1>2. Len(ab) <= Len(t) /\ ab = SubSeq(t, 1, Len(ab))
  BY DEF Begins, ab
<1>3. \A i \in 1..Len(ab) : ab[i] = t[i]
  BY <1>1, <1>2
<1>4. Len(a) <= Len(t)
  BY <1>1, <1>2
<1>5. /\ at \in Seq(Word) /\ Len(at) = Len(a) /\ \A i \in 1..Len(a) : at[i] = t[i]
  BY <1>1, <1>4
<1> HIDE DEF at
<1>6. \A i \in 1..Len(a) : at[i] = a[i]
  BY <1>1, <1>3, <1>5
<1>7. at = a
  BY <1>1, <1>5, <1>6
<1> QED
  BY <1>4, <1>7 DEF Begins, at

LEMMA ChainedStep ==
  ASSUME NEW c \in Caption, Covered(c), Chained(c), NEW r \in Caption, NEW split \in Seq(Part),
         Recut(c, split, r), Begins(c.fullText, r.fullText)
  PROVE  Chained(r)
<1> DEFINE s == c.segments
           n == Len(s)
           z == r.segments
           p == Len(z)
<1>1. s \in Seq(Part) /\ z \in Seq(Part) /\ n \in Nat \ {0} /\ c.fullText \in Seq(Word)
      /\ r.fullText \in Seq(Word) /\ p \in Nat /\ p = Len(split)
  BY DEF Caption, Covered, Recut
<1>2. s[1].base = <<>> /\ (\A i \in 1..(n - 1) : s[i + 1].base = s[i].base \o s[i].text)
      /\ c.fullText = s[n].base \o s[n].text
  BY DEF Chained
<1>3. s[n] \in Part
  BY <1>1
<1>4. s[n].base \in Seq(Word) /\ s[n].text \in Seq(Word)
  BY <1>3 DEF Part
<1>5. z[p].text = suffixAfter(r.fullText, z[p].base) /\ z[p].base = split[p].base
      /\ \A i \in 1..(p - 1) : z[i] = split[i]
  BY <1>1 DEF Recut
<1>6. /\ p > 0 /\ z[1].base = <<>> /\ \A i \in 1..(p - 1) : z[i + 1].base = z[i].base \o z[i].text
      /\ z[p].base \in Seq(Word) /\ Begins(z[p].base, r.fullText)
  <2>1. CASE split = s
    <3>1. p = n
      BY <1>1, <2>1
    <3>2. Begins(s[n].base, r.fullText)
      BY <1>1, <1>2, <1>4, BeginsFront
    <3> HIDE DEF n, z, p, s
    <3>3. z[n].base = s[n].base /\ \A i \in 1..(n - 1) : z[i] = s[i]
      BY <1>5, <2>1, <3>1
    <3>4. \A i \in 1..n : z[i].base = s[i].base
      BY <1>1, <3>3
    <3>5. \A i \in 1..(n - 1) : i + 1 \in 1..n /\ i \in 1..n
      BY <1>1
    <3>6. \A i \in 1..(n - 1) : z[i + 1].base = z[i].base \o z[i].text
      BY <1>2, <3>3, <3>4, <3>5
    <3>7. z[1].base = <<>>
      <4>1. 1 \in 1..n
        BY <1>1
      <4>2. z[1].base = s[1].base
        BY <3>4, <4>1
      <4> QED
        BY <1>2, <4>2
    <3>8. p > 0 /\ z[p].base = s[n].base
      BY <1>1, <3>1, <3>3
    <3>9. z[p].base \in Seq(Word) /\ Begins(z[p].base, r.fullText)
      BY <1>4, <3>2, <3>8
    <3> QED
      BY <3>1, <3>6, <3>7, <3>8, <3>9
  <2>2. CASE \E at \in Nat : split = Append(s, Segment(at, c.fullText, <<>>))
    <3>1. PICK at \in Nat : split = Append(s, Segment(at, c.fullText, <<>>))
      BY <2>2
    <3> DEFINE new == Segment(at, c.fullText, <<>>)
    <3>2. new.base = c.fullText
      BY DEF Segment
    <3> HIDE DEF new
    <3>3. Len(split) = n + 1 /\ split[n + 1] = new /\ \A i \in 1..n : split[i] = s[i]
      BY <1>1, <3>1 DEF new
    <3>4. p = n + 1
      BY <1>1, <3>3
    <3> HIDE DEF n, z, p, s
    <3>5. \A i \in 1..n : i \in 1..(p - 1)
      BY <1>1, <3>4
    <3>6. z[n + 1].base = c.fullText /\ \A i \in 1..n : z[i] = s[i]
      BY <1>5, <3>2, <3>3, <3>4, <3>5
    <3>7. ASSUME NEW i \in 1..(p - 1) PROVE z[i + 1].base = z[i].base \o z[i].text
      <4>0. i \in 1..n
        BY <1>1, <3>4
      <4>1. CASE i = n
        BY <1>2, <3>6, <4>0, <4>1
      <4>2. CASE i # n
        <5>1. i \in 1..(n - 1) /\ i + 1 \in 1..n
          BY <1>1, <4>0, <4>2
        <5> QED
          BY <1>2, <3>6, <4>0, <5>1
      <4> QED
        BY <4>1, <4>2
    <3>8. z[1].base = <<>>
      BY <1>1, <1>2, <3>6
    <3>9. p > 0 /\ z[p].base = c.fullText
      BY <1>1, <3>4, <3>6
    <3>10. z[p].base \in Seq(Word) /\ Begins(z[p].base, r.fullText)
      BY <1>1, <3>9
    <3> QED
      BY <3>7, <3>8, <3>9, <3>10
  <2> QED
    BY <2>1, <2>2 DEF Recut
<1> HIDE DEF n, z, p, s
<1>7. r.fullText = z[p].base \o z[p].text
  BY <1>1, <1>5, <1>6, SuffixOfLonger
<1> QED
  BY <1>6, <1>7 DEF Chained, z, p

LEMMA ChainedFirst ==
  ASSUME NEW version \in Nat, NEW t \in Seq(Word), NEW at \in Nat
  PROVE  Chained(First(version, t, at))
<1> DEFINE r == First(version, t, at)
<1>1. /\ r.fullText = t /\ Len(r.segments) = 1 /\ r.segments[1].base = <<>>
      /\ r.segments[1].text = suffixAfter(t, <<>>)
  BY CoveredFirst
<1>2. <<>> \in Seq(Word) /\ Begins(<<>>, t)
  BY DEF Begins
<1>3. <<>> \o suffixAfter(t, <<>>) = t
  BY <1>2, SuffixOfLonger
<1> HIDE DEF r
<1>4. 1..(1 - 1) = {}
  OBVIOUS
<1>5. Chained(r)
  BY <1>1, <1>3, <1>4 DEF Chained
<1> QED
  BY <1>5 DEF r

\* The segments of a caption that only grew show its text once.
LEMMA ChainedShows ==
  ASSUME NEW k, captions[k] \in Caption, Covered(captions[k]), Chained(captions[k])
  PROVE  Shown(k) = captions[k].fullText
<1> DEFINE c == captions[k]
           s == c.segments
           n == Len(s)
<1>1. s \in Seq(Part) /\ n \in Nat \ {0} /\ c.fullText \in Seq(Word)
  BY DEF Caption, Covered
<1>2. s[1].base = <<>> /\ (\A i \in 1..(n - 1) : s[i + 1].base = s[i].base \o s[i].text)
      /\ c.fullText = s[n].base \o s[n].text
  BY DEF Chained
<1>3. PICK g \in [0..n -> Seq(Word)] : Adds(s, g)
  BY <1>1, AddsExists
<1>4. g[0] = <<>> /\ \A i \in 1..n : g[i] = g[i - 1] \o s[i].text
  BY <1>3 DEF Adds
<1>5. Shown(k) = g[n]
  BY <1>1, <1>3, ShownAdds
<1> HIDE DEF n, s
<1> DEFINE S == {i \in Nat : i < n => g[i] = s[i + 1].base}
<1>6. 0 \in S
  BY <1>2, <1>4
<1>7. ASSUME NEW i \in Nat, i \in S PROVE i + 1 \in S
  <2> SUFFICES ASSUME i + 1 < n PROVE g[i + 1] = s[(i + 1) + 1].base
    OBVIOUS
  <2>1. i < n /\ i + 1 \in 1..(n - 1) /\ i + 1 \in 1..n /\ (i + 1) - 1 = i
    BY <1>1
  <2>2. g[i] = s[i + 1].base
    BY <1>7, <2>1
  <2> HIDE DEF S
  <2>3. g[i + 1] = g[i] \o s[i + 1].text
    BY <1>4, <2>1
  <2> QED
    BY <1>2, <2>1, <2>2, <2>3
<1> HIDE DEF S
<1>8. Nat \subseteq S
  BY <1>6, <1>7, Induct
<1>9. g[n - 1] = s[n].base
  BY <1>1, <1>8 DEF S
<1>10. g[n] = g[n - 1] \o s[n].text
  <2>1. n \in 1..n
    BY <1>1
  <2> QED
    BY <1>4, <2>1
<1> QED
  BY <1>2, <1>5, <1>9, <1>10
LEMMA Handled ==
  ASSUME captions \in [Key -> Caption], NEW k \in Key, captions[k] # None => Covered(captions[k]),
         NEW version \in Nat, NEW t \in Seq(Word), NEW at \in Nat, handleCaption(k, version, t, at)
  PROVE  /\ captions' \in [Key -> Caption]
         /\ \A o \in Key : o # k => captions'[o] = captions[o]
         /\ \/ captions'[k] = captions[k]
            \/ /\ captions'[k].version = version /\ captions'[k].fullText = t
               /\ Covered(captions'[k])
               /\ captions[k] = None => Chained(captions'[k])
               /\ captions[k] # None => captions[k].version < version
               /\ captions[k] # None /\ Chained(captions[k]) /\ Begins(captions[k].fullText, t)
                    => Chained(captions'[k])
<1> DEFINE c == captions[k]
<1>0. c \in Caption /\ c.version \in Nat
  BY DEF Caption
<1>1. CASE c # None /\ version <= c.version
  BY <1>1 DEF handleCaption
<1>2. CASE c = None
  <2> DEFINE r == First(version, t, at)
  <2>1. captions' = [captions EXCEPT ![k] = r]
    BY <1>2 DEF handleCaption
  <2>2. r \in Caption /\ r.version = version /\ r.fullText = t /\ Covered(r)
    BY CoveredFirst
  <2>3. Chained(r)
    BY ChainedFirst
  <2> HIDE DEF r
  <2>4. captions' \in [Key -> Caption] /\ captions'[k] = r
        /\ \A o \in Key : o # k => captions'[o] = captions[o]
    BY <2>1, <2>2
  <2> QED
    BY <1>2, <2>2, <2>3, <2>4
<1>3. CASE c # None /\ ~(version <= c.version)
  <2> DEFINE r == Revised(k, version, t, at)
  <2>1. captions' = [captions EXCEPT ![k] = r]
    BY <1>3 DEF handleCaption
  <2>2. Covered(c)
    BY <1>3
  <2>3. c.segments # <<>>
    <3>1. Len(c.segments) > 0
      BY <2>2 DEF Covered
    <3> QED
      BY <3>1
  <2>4. /\ r \in Caption /\ r.version = version /\ r.fullText = t
        /\ \E split \in Seq(Part) : Recut(c, split, r)
    BY <1>0, <2>3, RevisedEffect
  <2>5. PICK split \in Seq(Part) : Recut(c, split, r)
    BY <2>4
  <2> HIDE DEF r
  <2>6. captions' \in [Key -> Caption] /\ captions'[k] = r
        /\ \A o \in Key : o # k => captions'[o] = captions[o]
    BY <2>1, <2>4
  <2> HIDE DEF c
  <2>7. Covered(r)
    BY <1>0, <2>2, <2>4, <2>5, CoveredStep
  <2>8. Chained(c) /\ Begins(c.fullText, t) => Chained(r)
    BY <1>0, <2>2, <2>4, <2>5, ChainedStep
  <2>9. c.version < version
    BY <1>0, <1>3
  <2> QED
    BY <1>3, <2>4, <2>6, <2>7, <2>8, <2>9 DEF c
<1> QED
  BY <1>1, <1>2, <1>3

\* A revision of a text that only grew is a front of it.
From(m, version, t) == version <= m.version /\ t = SubSeq(m.text, 1, version)

\* What a channel still has to deliver of message k.
Told(k, m, w) ==
  \A i \in 1..Len(w.queue) : w.queue[i].key = k => From(m, w.queue[i].version, w.queue[i].text)

Grown(k, m, c) ==
  /\ Len(m.text) = m.version
  /\ \A o \in Channel \cup Unknown : Told(k, m, wire[o])
  /\ c # None => From(m, c.version, c.fullText) /\ Chained(c)

WordInv ==
  /\ captions \in [Key -> Caption]
  /\ \A k \in Key : captions[k] # None => Covered(captions[k])
  /\ \A k \in Key : meet[k].grown => Grown(k, meet[k], captions[k])

LEMMA Fronts ==
  ASSUME NEW t \in Seq(Word), NEW v \in Nat, NEW u \in Nat, v <= u, u <= Len(t)
  PROVE  /\ SubSeq(t, 1, v) \in Seq(Word) /\ SubSeq(t, 1, u) \in Seq(Word)
         /\ Begins(SubSeq(t, 1, v), SubSeq(t, 1, u))
<1> DEFINE a == SubSeq(t, 1, v)
           b == SubSeq(t, 1, u)
           c == SubSeq(b, 1, v)
<1>1. a \in Seq(Word) /\ Len(a) = v /\ \A i \in 1..v : a[i] = t[i]
  OBVIOUS
<1>2. b \in Seq(Word) /\ Len(b) = u /\ \A i \in 1..u : b[i] = t[i]
  OBVIOUS
<1> HIDE DEF a, b
<1>3. c \in Seq(Word) /\ Len(c) = v /\ \A i \in 1..v : c[i] = b[i]
  BY <1>2
<1> HIDE DEF c
<1>4. \A i \in 1..v : c[i] = a[i]
  BY <1>1, <1>2, <1>3
<1>5. c = a
  BY <1>1, <1>3, <1>4
<1>6. Begins(a, b)
  BY <1>1, <1>2, <1>5 DEF Begins, c
<1> QED
  BY <1>1, <1>2, <1>6 DEF a, b

LEMMA Grows ==
  ASSUME NEW t \in Seq(Word), NEW w \in Word
  PROVE  /\ Append(t, w) \in Seq(Word) /\ Len(Append(t, w)) = Len(t) + 1
         /\ \A v \in 0..Len(t) : SubSeq(Append(t, w), 1, v) = SubSeq(t, 1, v)
         /\ SubSeq(Append(t, w), 1, Len(t) + 1) = Append(t, w)
<1> DEFINE u == Append(t, w)
<1>1. u \in Seq(Word) /\ Len(u) = Len(t) + 1 /\ \A i \in 1..Len(t) : u[i] = t[i]
  OBVIOUS
<1> HIDE DEF u
<1>2. ASSUME NEW v \in 0..Len(t) PROVE SubSeq(u, 1, v) = SubSeq(t, 1, v)
  <2> DEFINE a == SubSeq(u, 1, v)
             b == SubSeq(t, 1, v)
  <2>1. a \in Seq(Word) /\ Len(a) = v /\ \A i \in 1..v : a[i] = u[i]
    BY <1>1
  <2>2. b \in Seq(Word) /\ Len(b) = v /\ \A i \in 1..v : b[i] = t[i]
    OBVIOUS
  <2> HIDE DEF a, b
  <2>3. \A i \in 1..v : a[i] = b[i]
    BY <1>1, <2>1, <2>2
  <2>4. a = b
    BY <2>1, <2>2, <2>3
  <2> QED
    BY <2>4 DEF a, b
<1>3. SubSeq(u, 1, Len(u)) = u
  BY <1>1
<1> QED
  BY <1>1, <1>2, <1>3 DEF u
\* A channel queues at most the frame that comes.
LEMMA ArrivesQueue ==
  ASSUME CaptionType, NEW c \in Channel \cup Unknown, NEW frame \in Frame, NEW caption \in BOOLEAN,
         NEW v, v.queue = Arrives(c, frame, caption).queue, NEW k, NEW m,
         Told(k, m, wire[c]), frame.key = k => From(m, frame.version, frame.text)
  PROVE  Told(k, m, v)
<1> DEFINE w == wire[c]
           carrier == w.carrier \/ (caption /\ w.frames < SniffFrames)
           marked == [frame EXCEPT !.owed = carrier]
<1>1. w \in ChannelType /\ w.queue \in Seq(Frame) /\ w.carrier \in BOOLEAN
  BY DEF CaptionType, ChannelType
<1>2. marked \in Frame /\ marked.key = frame.key /\ marked.version = frame.version
      /\ marked.text = frame.text
  <2>1. carrier \in BOOLEAN
    BY <1>1
  <2> HIDE DEF carrier
  <2> QED
    BY <2>1 DEF Frame
<1>3. v.queue = IF w.adopted \/ w.left > 0 THEN Append(w.queue, marked) ELSE w.queue
  <2>1. Arrives(c, frame, caption) =
          [w EXCEPT !.queue = IF w.adopted \/ w.left > 0 THEN Append(@, marked) ELSE @,
                    !.frames = IF @ < SniffFrames THEN @ + 1 ELSE @,
                    !.carrier = carrier]
    BY DEF Arrives
  <2> HIDE DEF w, marked, carrier
  <2> QED
    BY <1>1, <2>1 DEF ChannelType
<1> HIDE DEF marked, w
<1>4. CASE v.queue = w.queue
  BY <1>4 DEF Told, w
<1>5. CASE v.queue = Append(w.queue, marked)
  <2>1. /\ Len(v.queue) = Len(w.queue) + 1 /\ v.queue[Len(w.queue) + 1] = marked
        /\ \A i \in 1..Len(w.queue) : v.queue[i] = w.queue[i]
        /\ Len(w.queue) \in Nat
    BY <1>1, <1>2, <1>5
  <2>2. ASSUME NEW i \in 1..Len(v.queue), v.queue[i].key = k
        PROVE  From(m, v.queue[i].version, v.queue[i].text)
    <3>1. CASE i \in 1..Len(w.queue)
      BY <2>1, <2>2, <3>1 DEF Told, w
    <3>2. CASE i \notin 1..Len(w.queue)
      <4>1. v.queue[i] = marked
        BY <2>1, <3>2
      <4> QED
        BY <1>2, <2>2, <4>1
    <3> QED
      BY <3>1, <3>2
  <2> QED
    BY <2>2 DEF Told
<1> QED
  BY <1>3, <1>4, <1>5

LEMMA WordRevise ==
  ASSUME CaptionInv, WordInv, NEW k \in Key, NEW on \in SUBSET (Channel \cup Unknown),
         NEW rewords \in BOOLEAN, Revise(k, on, rewords)
  PROVE  WordInv'
<1> DEFINE C == Channel \cup Unknown
           v == meet[k].version + 1
           frame(text) == [key |-> k, version |-> v, text |-> text, owed |-> TRUE]
<1>1. PICK added \in {TRUE, ~rewords} :
        \E text \in (IF added THEN {Append(meet[k].text, w) : w \in Word}
                     ELSE IF meet[k].text = <<>> THEN {}
                     ELSE Rewordings(meet[k].text) \ {meet[k].text, <<>>}) :
          /\ meet' = [meet EXCEPT ![k] =
               [version |-> v, text |-> text, grown |-> @.grown /\ added]]
          /\ wire' = [c \in C |-> IF c \in on THEN Arrives(c, frame(text), TRUE) ELSE wire[c]]
          /\ UNCHANGED captions
  BY DEF Revise
<1>2. PICK text \in (IF added THEN {Append(meet[k].text, w) : w \in Word}
                     ELSE IF meet[k].text = <<>> THEN {}
                     ELSE Rewordings(meet[k].text) \ {meet[k].text, <<>>}) :
          /\ meet' = [meet EXCEPT ![k] =
               [version |-> v, text |-> text, grown |-> @.grown /\ added]]
          /\ wire' = [c \in C |-> IF c \in on THEN Arrives(c, frame(text), TRUE) ELSE wire[c]]
          /\ UNCHANGED captions
  BY <1>1
<1>3. /\ CaptionType /\ meet[k].text \in Seq(Word) /\ meet[k].version \in Nat
      /\ meet[k].grown \in BOOLEAN
  BY DEF CaptionInv, CaptionType
<1>4. meet'[k] = [version |-> v, text |-> text, grown |-> meet[k].grown /\ added]
      /\ \A o \in Key : o # k => meet'[o] = meet[o]
  BY <1>2, <1>3 DEF CaptionType
<1>5. text \in Seq(Word)
  <2>1. CASE added
    BY <1>2, <1>3, <2>1, Grows
  <2>2. CASE ~added
    <3>1. meet[k].text # <<>> /\ text \in Rewordings(meet[k].text)
      BY <1>2, <2>2
    <3>2. ASSUME NEW i \in 1..Len(meet[k].text), NEW w \in Word
          PROVE  [meet[k].text EXCEPT ![i] = w] \in Seq(Word)
      BY <1>3
    <3>3. SubSeq(meet[k].text, 1, Len(meet[k].text) - 1) \in Seq(Word)
      BY <1>3, <3>1
    <3> QED
      BY <3>1, <3>2, <3>3 DEF Rewordings
  <2> QED
    BY <2>1, <2>2
<1>6. v \in Nat
  BY <1>3
<1>7. frame(text) \in Frame /\ frame(text).version = v /\ frame(text).key = k
      /\ frame(text).text = text
  BY <1>5, <1>6 DEF Frame
<1> HIDE DEF frame, v
<1>8. ASSUME NEW o \in Key, NEW m,
             \A c \in C : Told(o, m, wire[c]), o = k => From(m, v, text)
      PROVE  \A c \in C : Told(o, m, wire'[c])
  <2> SUFFICES ASSUME NEW c \in C PROVE Told(o, m, wire'[c])
    OBVIOUS
  <2>1. CASE c \in on
    <3>1. wire'[c] = Arrives(c, frame(text), TRUE)
      BY <1>2, <2>1
    <3>2. Told(o, m, wire[c]) /\ (frame(text).key = o => From(m, frame(text).version, frame(text).text))
      BY <1>7, <1>8
    <3> QED
      BY <1>3, <1>7, <3>1, <3>2, ArrivesQueue
  <2>2. CASE c \notin on
    BY <1>2, <1>8, <2>2
  <2> QED
    BY <2>1, <2>2
<1>9. ASSUME NEW o \in Key, meet'[o].grown PROVE Grown(o, meet[o], captions[o])'
  <2>1. CASE o # k
    <3>1. meet'[o] = meet[o] /\ Grown(o, meet[o], captions[o])
      BY <1>4, <1>9, <2>1 DEF WordInv
    <3>2. \A c \in C : Told(o, meet[o], wire'[c])
      BY <1>8, <2>1, <3>1 DEF Grown
    <3> QED
      BY <1>2, <3>1, <3>2 DEF Grown
  <2>2. CASE o = k
    <3>1. meet[k].grown /\ added
      <4>1. meet'[k].grown = (meet[k].grown /\ added)
        BY <1>4
      <4>2. meet'[k].grown
        BY <1>9, <2>2
      <4> QED
        BY <4>1, <4>2, Zenon
    <3>2. Grown(k, meet[k], captions[k])
      BY <3>1 DEF WordInv
    <3>3. PICK w \in Word : text = Append(meet[k].text, w)
      BY <1>2, <3>1
    <3> DEFINE old == meet[k].text
    <3>4. Len(old) = meet[k].version
      BY <3>2 DEF Grown
    <3>5. /\ Len(text) = v /\ SubSeq(text, 1, v) = text
          /\ \A i \in 0..meet[k].version : SubSeq(text, 1, i) = SubSeq(old, 1, i)
      BY <1>3, <3>3, <3>4, Grows DEF v
    <3>6. meet'[k].version = v /\ meet'[k].text = text
      BY <1>4
    <3>7. ASSUME NEW i \in Nat, NEW t, From(meet[k], i, t) PROVE From(meet'[k], i, t)
      <4>1. i <= meet[k].version /\ t = SubSeq(old, 1, i)
        BY <3>7 DEF From
      <4>2. i \in 0..meet[k].version /\ i <= v
        BY <1>3, <4>1 DEF v
      <4> QED
        BY <3>5, <3>6, <4>1, <4>2 DEF From
    <3>8. ASSUME NEW c \in C PROVE Told(k, meet'[k], wire[c])
      <4>1. wire[c].queue \in Seq(Frame)
        BY <1>3 DEF CaptionType, ChannelType
      <4>2. \A i \in 1..Len(wire[c].queue) : wire[c].queue[i].version \in Nat
        <5>1. \A f \in Frame : f.version \in Nat
          BY DEF Frame
        <5> QED
          BY <4>1, <5>1
      <4>3. Told(k, meet[k], wire[c])
        BY <3>2 DEF Grown
      <4> QED
        BY <3>7, <4>2, <4>3 DEF Told
    <3>9. From(meet'[k], v, text)
      BY <1>6, <3>5, <3>6 DEF From
    <3>10. \A c \in C : Told(k, meet'[k], wire'[c])
      BY <1>8, <3>8, <3>9
    <3>11. captions[k] # None => From(meet'[k], captions[k].version, captions[k].fullText)
      <4>1. captions[k].version \in Nat
        BY DEF WordInv, Caption
      <4> QED
        BY <3>2, <3>7, <4>1 DEF Grown
    <3>12. captions[k] # None => Chained(captions[k])
      BY <3>2 DEF Grown
    <3>13. Len(meet'[k].text) = meet'[k].version
      BY <3>5, <3>6
    <3> QED
      BY <1>2, <2>2, <3>10, <3>11, <3>12, <3>13 DEF Grown
  <2> QED
    BY <2>1, <2>2
<1> QED
  BY <1>2, <1>9 DEF WordInv

LEMMA WordOther ==
  ASSUME CaptionInv, WordInv, NEW c \in Channel \cup Unknown, Other(c)
  PROVE  WordInv'
<1> DEFINE C == Channel \cup Unknown
           v == Arrives(c, Noise, FALSE)
<1>1. CaptionType
  BY DEF CaptionInv
<1>2. Noise \in Frame /\ Noise.version = 0 /\ Noise.text = <<>>
  BY DEF Noise, Frame
<1>3. /\ UNCHANGED <<meet, captions>> /\ wire'[c].queue = v.queue
      /\ \A o \in C : o # c => wire'[o] = wire[o]
  <2>1. /\ wire' = [wire EXCEPT ![c] = [v EXCEPT !.noise = @ - 1]]
        /\ UNCHANGED <<meet, captions>>
    BY DEF Other
  <2> HIDE DEF v
  <2>2. wire = [o \in C |-> wire[o]]
    BY <1>1 DEF CaptionType
  <2>3. [v EXCEPT !.noise = @ - 1].queue = v.queue
    OBVIOUS
  <2> QED
    BY <2>1, <2>2, <2>3
<1>4. ASSUME NEW k \in Key, meet[k].grown PROVE Grown(k, meet[k], captions[k])'
  <2> DEFINE m == meet[k]
  <2>1. Grown(k, m, captions[k]) /\ m.text \in Seq(Word) /\ m.version \in Nat
    BY <1>1, <1>4 DEF WordInv, CaptionType
  <2>2. From(m, 0, <<>>)
    <3>1. SubSeq(m.text, 1, 0) = <<>>
      BY <2>1
    <3> QED
      BY <2>1, <3>1 DEF From
  <2> HIDE DEF m, v
  <2>3. ASSUME NEW o \in C PROVE Told(k, m, wire'[o])
    <3>0. Told(k, m, wire[o])
      BY <2>1 DEF Grown
    <3>1. CASE o # c
      BY <1>3, <3>0, <3>1
    <3>2. CASE o = c
      <4>1. Noise.key = k => From(m, Noise.version, Noise.text)
        BY <1>2, <2>2
      <4>2. wire'[c].queue = Arrives(c, Noise, FALSE).queue
        BY <1>3 DEF v
      <4>3. Told(k, m, wire[c])
        BY <3>0, <3>2
      <4>4. Told(k, m, wire'[c])
        BY <1>1, <1>2, <4>1, <4>2, <4>3, ArrivesQueue
      <4> QED
        BY <3>2, <4>4
    <3> QED
      BY <3>1, <3>2
  <2> QED
    BY <1>3, <2>1, <2>3 DEF Grown, m
<1> QED
  BY <1>3, <1>4 DEF WordInv

LEMMA WordDecode ==
  ASSUME CaptionInv, WordInv, NEW c \in Channel \cup Unknown, NEW at \in Nat, NEW on \in BOOLEAN,
         Decode(c, at, on)
  PROVE  WordInv'
<1> DEFINE C == Channel \cup Unknown
           w == wire[c]
           frame == Head(w.queue)
<1>1. CaptionType /\ Kept(w)
  BY DEF CaptionInv
<1>2. w.queue \in Seq(Frame) /\ w.queue # <<>> /\ w \in ChannelType
  BY <1>1 DEF Decode, CaptionType, ChannelType
<1>3. /\ Tail(w.queue) \in Seq(Frame) /\ Len(Tail(w.queue)) = Len(w.queue) - 1
      /\ Len(w.queue) \in Nat \ {0}
      /\ \A i \in 1..Len(Tail(w.queue)) :
           Tail(w.queue)[i] = w.queue[i + 1] /\ i + 1 \in 1..Len(w.queue)
      /\ frame = w.queue[1] /\ frame \in Frame /\ 1 \in 1..Len(w.queue)
  BY <1>2, Decoded
<1>4. frame.version \in Nat /\ frame.text \in Seq(Word) /\ Usable(frame)
  BY <1>1, <1>3 DEF Frame, Kept
<1>5. meet' = meet /\ wire'[c].queue = Tail(w.queue) /\ \A o \in C : o # c => wire'[o] = wire[o]
  <2>1. PICK v : wire' = [wire EXCEPT ![c] = v] /\ v.queue = Tail(w.queue)
    <3>1. CASE w.adopted \/ w.left = 0
      <4> DEFINE v == [w EXCEPT !.queue = Tail(@)]
      <4>1. wire' = [wire EXCEPT ![c] = v]
        BY <1>1, <3>1 DEF Decode
      <4>2. v.queue = Tail(w.queue)
        BY <1>2 DEF ChannelType
      <4> QED
        BY <4>1, <4>2
    <3>2. CASE ~(w.adopted \/ w.left = 0)
      <4> DEFINE v == [w EXCEPT !.queue = Tail(@), !.left = @ - 1,
                                !.adopted = carriesCaptions(frame)]
      <4>1. wire' = [wire EXCEPT ![c] = v]
        BY <1>1, <3>2 DEF Decode
      <4>2. v.queue = Tail(w.queue)
        BY <1>2 DEF ChannelType
      <4> QED
        BY <4>1, <4>2
    <3> QED
      BY <3>1, <3>2
  <2> QED
    BY <1>1, <2>1 DEF Decode, CaptionType
<1>6. ASSUME NEW k, NEW m, \A o \in C : Told(k, m, wire[o])
      PROVE  /\ \A o \in C : Told(k, m, wire'[o])
             /\ frame.key = k => From(m, frame.version, frame.text)
  <2>1. Told(k, m, w)
    BY <1>6
  <2> HIDE DEF w, frame
  <2>2. Told(k, m, wire'[c])
    BY <1>3, <1>5, <2>1 DEF Told
  <2>3. \A o \in C : Told(k, m, wire'[o])
    BY <1>5, <1>6, <2>2
  <2> QED
    BY <1>3, <2>1, <2>3 DEF Told
<1>7. CASE captions' = captions
  <2>1. ASSUME NEW k \in Key, meet[k].grown PROVE Grown(k, meet[k], captions[k])'
    <3>1. Grown(k, meet[k], captions[k])
      BY <2>1 DEF WordInv
    <3>2. \A o \in C : Told(k, meet[k], wire'[o])
      BY <1>6, <3>1 DEF Grown
    <3> QED
      BY <1>5, <1>7, <3>1, <3>2 DEF Grown
  <2> QED
    BY <1>5, <1>7, <2>1 DEF WordInv
<1>8. CASE frame.version > 0 /\ handleCaption(frame.key, frame.version, frame.text, at)
  <2> DEFINE k == frame.key
             t == frame.text
             version == frame.version
  <2>1. k \in Key
    BY <1>4, <1>8 DEF Usable
  <2>2. version \in Nat /\ t \in Seq(Word) /\ handleCaption(k, version, t, at)
    BY <1>4, <1>8
  <2>3. captions \in [Key -> Caption] /\ (captions[k] # None => Covered(captions[k]))
    BY <2>1 DEF WordInv
  <2> HIDE DEF k, t, version
  <2>4. /\ captions' \in [Key -> Caption]
        /\ \A o \in Key : o # k => captions'[o] = captions[o]
        /\ \/ captions'[k] = captions[k]
           \/ /\ captions'[k].version = version /\ captions'[k].fullText = t
              /\ Covered(captions'[k])
              /\ captions[k] = None => Chained(captions'[k])
              /\ captions[k] # None => captions[k].version < version
              /\ captions[k] # None /\ Chained(captions[k]) /\ Begins(captions[k].fullText, t)
                   => Chained(captions'[k])
    BY <2>1, <2>2, <2>3, Handled
  <2>5. \A o \in Key : captions'[o] # None => Covered(captions'[o])
    BY <2>4 DEF WordInv
  <2>6. ASSUME NEW o \in Key, meet[o].grown PROVE Grown(o, meet[o], captions[o])'
    <3>1. Grown(o, meet[o], captions[o])
      BY <2>6 DEF WordInv
    <3>2. /\ \A x \in C : Told(o, meet[o], wire'[x])
          /\ frame.key = o => From(meet[o], frame.version, frame.text)
      BY <1>6, <3>1 DEF Grown
    <3>3. captions'[o] # None =>
            From(meet[o], captions'[o].version, captions'[o].fullText) /\ Chained(captions'[o])
      <4>1. CASE captions'[o] = captions[o]
        BY <3>1, <4>1 DEF Grown
      <4>2. CASE captions'[o] # captions[o]
        <5>1. o = k
          BY <2>4, <4>2
        <5>2. captions'[k].version = version /\ captions'[k].fullText = t
              /\ From(meet[k], version, t)
          BY <2>4, <3>2, <4>2, <5>1 DEF k, version, t
        <5>3. CASE captions[k] = None
          BY <2>4, <4>2, <5>1, <5>2, <5>3
        <5>4. CASE captions[k] # None
          <6> DEFINE old == captions[k]
          <6>1. From(meet[k], old.version, old.fullText) /\ Chained(old) /\ old.version < version
            BY <2>4, <3>1, <4>2, <5>1, <5>4 DEF Grown
          <6>2. old.version \in Nat /\ meet[k].text \in Seq(Word) /\ Len(meet[k].text) = meet[k].version
            BY <1>1, <2>1, <2>3, <3>1, <5>1 DEF Caption, Grown, CaptionType
          <6> HIDE DEF old
          <6>3. Begins(SubSeq(meet[k].text, 1, old.version), SubSeq(meet[k].text, 1, version))
            <7>1. old.version <= version /\ version <= Len(meet[k].text)
              BY <2>2, <5>2, <6>1, <6>2 DEF From
            <7> QED
              BY <2>2, <6>2, <7>1, Fronts
          <6>4. Begins(old.fullText, t)
            BY <5>2, <6>1, <6>3 DEF From
          <6> QED
            BY <2>4, <4>2, <5>1, <5>2, <5>4, <6>1, <6>4 DEF old
        <5> QED
          BY <5>3, <5>4
      <4> QED
        BY <4>1, <4>2
    <3> QED
      BY <1>5, <3>1, <3>2, <3>3 DEF Grown
  <2> QED
    BY <1>5, <2>4, <2>5, <2>6 DEF WordInv
<1>9. captions' = captions
        \/ (frame.version > 0 /\ handleCaption(frame.key, frame.version, frame.text, at))
  BY DEF Decode, consume
<1> QED
  BY <1>7, <1>8, <1>9

LEMMA CaptionHolds == Spec => [](CaptionInv /\ FeedType)
<1> QED
  BY CaptionInvInit, CaptionStep, PTL DEF Spec

LEMMA NoneCaption == None \in Caption
<1>1. <<>> \in Seq(Part) /\ <<>> \in Seq(Word)
  OBVIOUS
<1> QED
  BY <1>1 DEF None, Caption

LEMMA WordStep == CaptionInv /\ FeedType /\ ChatInv /\ WordInv /\ [Next]_vars => WordInv'
<1> SUFFICES ASSUME CaptionInv, FeedType, ChatInv, WordInv, [Next]_vars PROVE WordInv'
  OBVIOUS
<1>0. now \in Nat
  BY DEF ChatInv, ChatType
<1>1. CASE Tick \/ Chat \/ SetRecording \/ UNCHANGED vars
  <2>1. UNCHANGED <<wire, meet, captions>>
    BY <1>1 DEF Tick, Chat, SetRecording, vars, captionVars
  <2> QED
    BY <2>1 DEF WordInv, Grown
<1>2. CASE MeetRevises
  <2>1. PICK k \in Key, on \in budget.on : Revise(k, on, budget.rewords)
    BY <1>2 DEF MeetRevises
  <2>2. on \in SUBSET (Channel \cup Unknown) /\ budget.rewords \in BOOLEAN
    BY DEF Budget, FeedType
  <2> QED
    BY <2>1, <2>2, WordRevise
<1>3. CASE NextFrame
  <2>1. PICK c \in Channel \cup Unknown : Decode(c, now, recording)
    BY <1>3 DEF NextFrame
  <2>2. recording \in BOOLEAN
    BY DEF FeedType
  <2> QED
    BY <1>0, <2>1, <2>2, WordDecode
<1>4. CASE OtherTraffic
  <2>1. PICK c \in Channel \cup Unknown : Other(c)
    BY <1>4 DEF OtherTraffic
  <2> QED
    BY <2>1, WordOther
<1>5. CASE Purge
  <2>1. captions' = [k \in Key |-> None] /\ UNCHANGED <<meet, wire>>
    BY <1>5 DEF Purge, CaptionReset
  <2>2. captions' \in [Key -> Caption] /\ \A k \in Key : captions'[k] = None
    BY <2>1, NoneCaption
  <2> QED
    BY <2>1, <2>2 DEF WordInv, Grown
<1> QED
  BY <1>1, <1>2, <1>3, <1>4, <1>5 DEF Next

LEMMA WordInit == Init => WordInv
<1> SUFFICES ASSUME Init PROVE WordInv
  OBVIOUS
<1>1. /\ meet = [k \in Key |-> [version |-> 0, text |-> <<>>, grown |-> TRUE]]
      /\ \A c \in Channel \cup Unknown : wire[c].queue = <<>>
      /\ captions = [k \in Key |-> None]
  BY DEF Init, CaptionInit
<1>2. captions \in [Key -> Caption]
  BY <1>1, NoneCaption
<1>3. \A k \in Key : Grown(k, meet[k], captions[k])
  <2> SUFFICES ASSUME NEW k \in Key PROVE Grown(k, meet[k], captions[k])
    OBVIOUS
  <2>1. captions[k] = None /\ meet[k].version = 0 /\ meet[k].text = <<>>
    BY <1>1
  <2>2. \A c \in Channel \cup Unknown : Told(k, meet[k], wire[c])
    <3>1. 1..Len(<<>>) = {}
      OBVIOUS
    <3> QED
      BY <1>1, <3>1 DEF Told
  <2>3. Len(<<>>) = 0
    OBVIOUS
  <2> QED
    BY <2>1, <2>2, <2>3 DEF Grown
<1> QED
  BY <1>1, <1>2, <1>3 DEF WordInv

LEMMA WordsHold == Spec => [](CaptionInv /\ WordInv)
<1>1. Spec => [](ChatInv /\ FeedType)
  BY ChatHolds
<1>2. Spec => [](CaptionInv /\ FeedType)
  BY CaptionHolds
<1> QED
  BY <1>1, <1>2, WordInit, WordStep, PTL DEF Spec

\* However a message is interrupted, resumed, reworded or shortened, every word of its
\* newest revision is shown, in order (suffixAfter, handleCaption).
THEOREM WordsAreShown == Spec => []NoWordLost
<1>1. WordInv => NoWordLost
  <2> SUFFICES ASSUME WordInv, NEW k \in Key PROVE Within(captions[k].fullText, Shown(k))
    BY DEF NoWordLost
  <2>1. captions[k] \in Caption
    BY DEF WordInv
  <2>2. captions[k].segments \in Seq(Part) /\ captions[k].fullText \in Seq(Word)
    BY <2>1 DEF Caption
  <2>3. \E h \in [0..Len(captions[k].segments) -> Seq(Word)] :
          /\ Adds(captions[k].segments, h)
          /\ Embeds(captions[k].fullText, h[Len(captions[k].segments)])
    <3>1. CASE captions[k] # None
      BY <2>1, <3>1, CoveredShows DEF WordInv
    <3>2. CASE captions[k] = None
      <4>1. captions[k].fullText = <<>>
        BY <3>2 DEF None
      <4>2. PICK h \in [0..Len(captions[k].segments) -> Seq(Word)] : Adds(captions[k].segments, h)
        BY <2>2, AddsExists
      <4> QED
        BY <4>1, <4>2, EmbedsEmpty
    <3> QED
      BY <3>1, <3>2
  <2>4. PICK h \in [0..Len(captions[k].segments) -> Seq(Word)] :
          /\ Adds(captions[k].segments, h)
          /\ Embeds(captions[k].fullText, h[Len(captions[k].segments)])
    BY <2>3
  <2>5. h[Len(captions[k].segments)] \in Seq(Word)
    <3>1. Len(captions[k].segments) \in 0..Len(captions[k].segments)
      BY <2>2
    <3> QED
      BY <3>1
  <2>6. Shown(k) = h[Len(captions[k].segments)]
    BY <2>2, <2>4, ShownAdds
  <2> QED
    BY <2>2, <2>4, <2>5, <2>6, EmbedsWithin
<1> QED
  BY <1>1, WordsHold, PTL

\* A message Meet only ever added words to is shown once, word for word, over any number of
\* interruptions, channels and wipes (shouldSplit, suffixAfter, handleCaption).
THEOREM WordsAreShownOnce == Spec => []NoWordTwice
<1>1. WordInv => NoWordTwice
  <2> SUFFICES ASSUME WordInv, NEW k \in Key, meet[k].grown, captions[k] # None
               PROVE  Shown(k) = captions[k].fullText
    BY DEF NoWordTwice
  <2>1. captions[k] \in Caption /\ Covered(captions[k]) /\ Chained(captions[k])
    BY DEF WordInv, Grown
  <2> QED
    BY <2>1, ChainedShows
<1> QED
  BY <1>1, WordsHold, PTL
=============================================================================
