-------------------------------- MODULE ChatFeed --------------------------------
(***************************************************************************)
(* Chat: a message of another participant comes over the collections       *)
(* channel, which replays it; a message of the local user comes over up to *)
(* three transports, each with an id of its own (meet-rtc/main.ts,         *)
(* chatgoogle/main.ts, platforms/meet.ts). The feed keeps one copy         *)
(* (meet-rtc/feed.ts handleChat, core/collector.ts ChatLog).               *)
(***************************************************************************)
EXTENDS Naturals, Sequences, FiniteSets

CONSTANTS
  Own,        \* messages the local user sends
  Theirs,     \* messages of another participant
  Text,
  Window      \* SELF_CHAT_DEDUP_MS, in ticks

Message == Own \cup Theirs

ASSUME ChatAssumption ==
  /\ Own \cap Theirs = {} /\ Message \cap Text = {} /\ "nothing" \notin Text
  /\ Window \in Nat
\* The send hook, the chat frame and the collections channel.
Transport == {"self-out", "self-topic", "collections"}

VARIABLES
  said,       \* external: [Message -> its text, and whether its own copies have an id]
  self,       \* whether the local user's name and device are known
  roster,     \* [deviceId -> name]
  chat,       \* ChatLog: messages and seenIds
  lastSelfChat, lastEchoChatAt,
  heard       \* history: [Message -> when its first copy reached the feed, the transports
              \*  that did, whether one first did after the window]

chatVars == <<said, self, roster, chat, lastSelfChat, lastEchoChatAt, heard>>

Device == {"mine", "self", "bob"}
Unnamed == "unnamed"
speakerPlaceholder == [mine |-> "Speaker mine", self |-> "Speaker self", bob |-> "Speaker bob"]
Name == {"Me", "You", "Bob"} \cup {speakerPlaceholder[d] : d \in Device}

\* Times count from 1: 0 is a time that never was.
Never == [at |-> 0, sender |-> Unnamed]
Unheard == [at |-> 0, over |-> {}, late |-> FALSE, named |-> FALSE]
ChatLog == [messages |-> <<>>, seenIds |-> {}]

ChatInit ==
  /\ said = [m \in Message |-> [text |-> "nothing", id |-> FALSE]]
  /\ self = [name |-> FALSE, device |-> FALSE]
  /\ roster = [d \in Device |-> Unnamed]
  /\ chat = ChatLog
  /\ lastSelfChat = [t \in Text |-> Never]
  /\ lastEchoChatAt = [p \in Name \X Text |-> 0]
  /\ heard = [m \in Message |-> Unheard]

-----------------------------------------------------------------------------
\* ChatLog.add and markSeen, for a message with an id.
add(log, message, id) ==
  IF id \in log.seenIds THEN log
  ELSE [messages |-> Append(log.messages, message), seenIds |-> log.seenIds \cup {id}]

\* deviation: the id of a copy that was collapsed is forgotten.
deviationUnmarked(log, id) == log

markSeen(log, id) == [log EXCEPT !.seenIds = @ \cup {id}]

speakerFor(names, d) == IF names[d] # Unnamed THEN names[d] ELSE speakerPlaceholder[d]

\* deviation: a collections copy repeats any of the user's own with that text.
deviationAnySender(isSelf, sender, text, at) ==
  LET echoAt == lastEchoChatAt[<<sender, text>>] IN
  \/ lastSelfChat[text].at # 0 /\ at - lastSelfChat[text].at < Window
  \/ isSelf /\ echoAt # 0 /\ at - echoAt < Window

\* deviation: an own copy repeats a collections copy of that text by anyone.
deviationAnyEcho(isSelf, sender, text, at) ==
  IF isSelf
  THEN \/ lastSelfChat[text].at # 0 /\ at - lastSelfChat[text].at < Window
       \/ \E s \in Name : lastEchoChatAt[<<s, text>>] # 0 /\ at - lastEchoChatAt[<<s, text>>] < Window
  ELSE lastSelfChat[text].at # 0 /\ at - lastSelfChat[text].at < Window
       /\ lastSelfChat[text].sender = sender

\* Whether a copy repeats one the feed has: two of the user's own within the window, or
\* one of the user's own and a collections copy of the same sender and text.
duplicate(isSelf, sender, text, at) ==
  LET selfInWindow == lastSelfChat[text].at # 0 /\ at - lastSelfChat[text].at < Window
      echoAt == lastEchoChatAt[<<sender, text>>]
      echoInWindow == echoAt # 0 /\ at - echoAt < Window
  IN IF isSelf THEN selfInWindow \/ echoInWindow
     ELSE selfInWindow /\ lastSelfChat[text].sender = sender

\* handleChat, once the name is in the roster and the sender is known. ChatLog.add says
\* whether the message is new.
handleChat(message, isSelf, id, at) ==
  LET log == add(chat, message, id)
      added == log # chat
  IN IF duplicate(isSelf, message.sender, message.text, at)
     THEN /\ chat' = markSeen(chat, id)
          /\ UNCHANGED <<lastSelfChat, lastEchoChatAt>>
     ELSE /\ chat' = log
          /\ lastSelfChat' = IF added /\ isSelf
               THEN [lastSelfChat EXCEPT ![message.text] = [at |-> at, sender |-> message.sender]]
               ELSE lastSelfChat
          /\ lastEchoChatAt' = IF added /\ ~isSelf
               THEN [lastEchoChatAt EXCEPT ![<<message.sender, message.text>>] = at]
               ELSE lastEchoChatAt

\* RtcFeed.reset, what it does to the chat.
ChatReset ==
  /\ chat' = ChatLog
  /\ lastSelfChat' = [t \in Text |-> Never]
  /\ lastEchoChatAt' = [p \in Name \X Text |-> 0]
  /\ heard' = [m \in Message |-> Unheard]
  /\ UNCHANGED <<said, self, roster>>

-----------------------------------------------------------------------------
\* logRpc: GetUser tells the local user's name, UpdateMeetingDevice the device and name.
LearnName ==
  /\ ~self.name /\ self' = [self EXCEPT !.name = TRUE]
  /\ UNCHANGED <<said, roster, chat, lastSelfChat, lastEchoChatAt, heard>>
LearnDevice ==
  /\ ~self.device /\ self' = [self EXCEPT !.device = TRUE]
  /\ roster' = [roster EXCEPT !["mine"] = "Me"]
  /\ UNCHANGED <<said, chat, lastSelfChat, lastEchoChatAt, heard>>

\* The id of a copy: the fallback of the two own transports is the text.
idOf(m, via, saying) == <<via, IF via = "collections" \/ saying.id THEN m ELSE saying.text>>

Heard(m, via, sender, at) ==
  LET h == heard[m] IN
  [at |-> IF h.at = 0 THEN at ELSE h.at,
   over |-> h.over \cup {via},
   late |-> h.late \/ (h.at # 0 /\ via \notin h.over /\ at - h.at >= Window),
   named |-> (h.at = 0 \/ h.named) /\ sender = "Me"]

\* Who a transport says the message is from: the send hook (dispatchOutgoing), the frame
\* (the adapter's message listener), the collections channel, which may leave the name out.
Senders(m, via) ==
  CASE via = "self-out" ->
         {<<IF self.device THEN "mine" ELSE "self", IF self.name THEN "Me" ELSE Unnamed>>}
    [] via = "self-topic" -> {<<"self", IF self.name THEN "Me" ELSE "You">>}
    [] OTHER -> IF m \in Own THEN {"mine"} \X {"Me", Unnamed} ELSE {"bob"} \X {"Bob", Unnamed}

\* external: what a message says. A hooked send may lack its timestamp, a topic its id.
Sayings(m) ==
  IF said[m].text # "nothing" THEN {said[m]}
  ELSE [text : Text, id : IF m \in Own THEN BOOLEAN ELSE {TRUE}]

\* A copy reaches the meeting. A paused meeting drops it.
Copy(m, via, at, recording) ==
  /\ m \in Theirs => via = "collections"
  /\ \E saying \in Sayings(m), from \in Senders(m, via) :
       LET names == IF from[2] # Unnamed THEN [roster EXCEPT ![from[1]] = from[2]] ELSE roster
           sender == speakerFor(names, from[1])
       IN
       /\ said' = [said EXCEPT ![m] = saying]
       /\ IF recording
          THEN /\ roster' = names
               /\ heard' = [heard EXCEPT ![m] = Heard(m, via, sender, at)]
               /\ handleChat([sender |-> sender, text |-> saying.text, of |-> m],
                             via # "collections", idOf(m, via, saying), at)
          ELSE UNCHANGED <<heard, roster, chat, lastSelfChat, lastEchoChatAt>>
  /\ UNCHANGED self

-----------------------------------------------------------------------------
\* Properties

TimesShown(m) == Cardinality({i \in 1..Len(chat.messages) : chat.messages[i].of = m})
Others(m) == {n \in Own \ {m} : said[n].text = said[m].text}

\* A message of the user's shows once, whichever of its copies come, in whatever order
\* and however often the channel replays them, as long as each transport first delivers
\* within the window and the name was known (feed.ts:19-30, 201-226).
ShownOnce ==
  \A m \in Own : heard[m].named /\ ~heard[m].late => TimesShown(m) <= 1

\* What another participant says is shown once as soon as it came, even a repeat of their
\* own words or of the user's, and replays add nothing (feed.ts:26-29, collector.ts:3-14).
TheirsKept == \A m \in Theirs : heard[m].at # 0 => TimesShown(m) = 1

\* A message of the user's whose text the user sent only once is shown once a copy came
\* (feed.ts:201-226).
OwnKept == \A m \in Own : heard[m].at # 0 /\ Others(m) = {} => TimesShown(m) >= 1
=============================================================================
