-------------------------------- MODULE Presence --------------------------------
(***************************************************************************)
(* Who is in the meeting: the roster of the page, the attendees, and the   *)
(* join and leave markers (platforms/meet.ts: the page's listener,         *)
(* recordAttendee, recordDevice, recordLeave, syncParticipants;            *)
(* meet-lifecycle.ts). Meet gives one person a device per connection and   *)
(* removes the old one when it likes; a device may never be broadcast      *)
(* while it is present, and first be named when it leaves.                 *)
(*                                                                         *)
(* A device keeps its name here. The actions say what the events do given  *)
(* whether the listeners of a meeting are installed, whether it is ending, *)
(* and whether transcribing is on; MeetAdapter joins them with the loop.   *)
(***************************************************************************)
EXTENDS Naturals, Sequences, SequencesExt

CONSTANTS
  Device,
  Name,
  Self,       \* the local user's name
  Owner,      \* [Device -> Name]
  Settle      \* JOIN_SETTLE_MS, in ticks

Unnamed == "unnamed"

ASSUME PresenceAssumption ==
  /\ Unnamed \notin Name /\ Self \in Name
  /\ Owner \in [Device -> Name]
  /\ Settle \in Nat

VARIABLES
  inCall,        \* external: the devices in the call
  told,          \* external: those of them that Meet has broadcast
  roster,        \* [Device -> Name, or Unnamed]
  selfName,      \* whether it is known
  attendees,
  activeByName,  \* [Name -> its active devices]
  markers,       \* participantEvents, by name
  spoke,         \* devices with a caption in the feed
  speakers,      \* the speakers of session.transcript
  participants,  \* session.participants
  unsure         \* history: names whose markers need not tell who is present

presenceVars == <<inCall, told, roster, selfName, attendees, activeByName, markers,
                  spoke, speakers, participants, unsure>>

PresenceInit ==
  /\ inCall = {} /\ told = {}
  /\ roster = [d \in Device |-> Unnamed]
  /\ selfName = FALSE
  /\ attendees = {} /\ participants = {}
  /\ activeByName = [n \in Name |-> {}]
  /\ markers = [n \in Name |-> <<>>]
  /\ spoke = {} /\ speakers = {}
  /\ unsure = {}

PresenceTypeOK ==
  /\ told \subseteq inCall /\ inCall \subseteq Device
  /\ roster \in [Device -> Name \cup {Unnamed}]
  /\ activeByName \in [Name -> SUBSET Device]
  /\ markers \in [Name -> Seq({"join", "leave"})]
  /\ attendees \subseteq Name /\ participants \subseteq Name /\ unsure \subseteq Name

-----------------------------------------------------------------------------
\* transcriptSnapshot, its speakers: a name of the roster or a placeholder.
transcriptSpeakers(names, from) == {names[d] : d \in from}

\* finalAttendees: the attendees and the speakers that have a name.
finalAttendees(known, named) == known \cup (named \ {Unnamed})

\* refreshTranscript, or the end of the meeting: the speakers are resolved again, and
\* the participants with them.
resolve(names, known) ==
  /\ speakers' = transcriptSpeakers(names, spoke)
  /\ participants' = finalAttendees(known, speakers')

\* recordAttendee: a name already there changes nothing.
recordAttendee(known, n) == known \cup {n}

\* isMidMeetingJoin
isMidMeetingJoin(n, wasActive, elapsed) ==
  ~wasActive /\ elapsed >= Settle /\ ~(selfName /\ n = Self)

\* pushPresence: a paused meeting takes no marker.
pushPresence(n, kind, recording) ==
  /\ markers' = IF recording THEN [markers EXCEPT ![n] = Append(@, kind)] ELSE markers
  /\ unsure' = IF recording THEN unsure ELSE unsure \cup {n}

\* deviation: the markers follow devices, not names.
deviationByDevice(d, n, elapsed, recording) ==
  /\ activeByName' = [activeByName EXCEPT ![n] = @ \cup {d}]
  /\ IF isMidMeetingJoin(n, d \in activeByName[n], elapsed)
     THEN pushPresence(n, "join", recording)
     ELSE UNCHANGED <<markers, unsure>>

\* recordDevice. Who comes back in the settle window comes back without a marker.
recordDevice(d, n, elapsed, recording) ==
  LET wasActive == activeByName[n] # {} IN
  /\ activeByName' = [activeByName EXCEPT ![n] = @ \cup {d}]
  /\ IF isMidMeetingJoin(n, wasActive, elapsed)
     THEN pushPresence(n, "join", recording)
     ELSE /\ unsure' = IF wasActive \/ markers[n] = <<>> THEN unsure ELSE unsure \cup {n}
          /\ UNCHANGED markers

\* recordLeave, for the name the roster has.
recordLeave(d, n, recording) ==
  IF n = Unnamed \/ n \notin Name \/ d \notin activeByName[n]
  THEN UNCHANGED <<activeByName, markers, unsure>>
  ELSE /\ activeByName' = [activeByName EXCEPT ![n] = @ \ {d}]
       /\ IF activeByName[n] # {d} \/ (selfName /\ n = Self)
          THEN UNCHANGED <<markers, unsure>>
          ELSE pushPresence(n, "leave", recording)

-----------------------------------------------------------------------------
\* A participant's device connects; Meet may say so, now or again, or never.
Enters(d) ==
  /\ d \notin inCall
  /\ inCall' = inCall \cup {d}
  /\ UNCHANGED <<told, roster, selfName, attendees, activeByName, markers, spoke,
                 speakers, participants, unsure>>

\* A device event, as the page's listener takes it.
Broadcast(d, listens, ending, elapsed, recording) ==
  LET n == Owner[d]
      names == [roster EXCEPT ![d] = n]
  IN
  /\ d \in inCall
  /\ told' = told \cup {d}
  /\ roster' = names
  /\ IF listens
     THEN /\ attendees' = recordAttendee(attendees, n)
          /\ resolve(names, attendees')
     ELSE UNCHANGED <<attendees, speakers, participants>>
  /\ IF listens /\ ~ending
     THEN recordDevice(d, n, elapsed, recording)
     ELSE UNCHANGED <<activeByName, markers, unsure>>
  /\ UNCHANGED <<inCall, selfName, spoke>>

\* A device goes: its tombstone may carry the name.
Tombstone(d, named, listens, ending, recording) ==
  LET names == IF named THEN [roster EXCEPT ![d] = Owner[d]] ELSE roster IN
  /\ d \in inCall
  /\ inCall' = inCall \ {d} /\ told' = told \ {d}
  /\ roster' = names
  /\ IF named /\ listens
     THEN /\ attendees' = recordAttendee(attendees, Owner[d])
          /\ resolve(names, attendees')
     ELSE UNCHANGED <<attendees, speakers, participants>>
  /\ IF listens /\ ~ending
     THEN recordLeave(d, names[d], recording)
     ELSE UNCHANGED <<activeByName, markers, unsure>>
  /\ UNCHANGED <<selfName, spoke>>

\* The self event. For a new name the participants are computed with the transcript as
\* it stands.
SelfNamed(listens) ==
  /\ ~selfName /\ selfName' = TRUE
  /\ IF listens /\ Self \notin attendees
     THEN /\ attendees' = recordAttendee(attendees, Self)
          /\ participants' = finalAttendees(attendees', speakers)
     ELSE UNCHANGED <<attendees, participants>>
  /\ UNCHANGED <<inCall, told, roster, activeByName, markers, spoke, speakers, unsure>>

\* A caption of a device is applied: the transcript is taken anew.
Speaks(d) ==
  /\ d \in inCall
  /\ spoke' = spoke \cup {d}
  /\ speakers' = transcriptSpeakers(roster, spoke')
  /\ UNCHANGED <<inCall, told, roster, selfName, attendees, activeByName, markers,
                 participants, unsure>>

\* A chat message names its device, and nothing is resolved again (handleChat).
ChatNames(d) ==
  /\ d \in inCall
  /\ roster' = [roster EXCEPT ![d] = Owner[d]]
  /\ UNCHANGED <<inCall, told, selfName, attendees, activeByName, markers, spoke,
                 speakers, participants, unsure>>

-----------------------------------------------------------------------------
\* runMeeting: attendees and active devices start from the roster of the page, which
\* keeps those who have gone.
seedAttendees ==
  ({roster[d] : d \in Device} \ {Unnamed}) \cup (IF selfName THEN {Self} ELSE {})
Seeded(n) == {d \in Device : roster[d] = n}

PresenceStart ==
  /\ attendees' = seedAttendees
  /\ participants' = seedAttendees
  /\ activeByName' = [n \in Name |-> Seeded(n)]
  /\ markers' = [n \in Name |-> <<>>]
  /\ spoke' = {} /\ speakers' = {}
  /\ unsure' = {n \in Name : ~(Seeded(n) \subseteq told)}
  /\ UNCHANGED <<inCall, told, roster, selfName>>

\* endMeeting before the flush wait: the transcript is taken, and the participants.
PresenceEnds ==
  /\ resolve(roster, attendees)
  /\ UNCHANGED <<inCall, told, roster, selfName, attendees, activeByName, markers, spoke,
                 unsure>>

\* deviation: the participants are not computed again after the last snapshot.
deviationSyncFirst ==
  /\ speakers' = transcriptSpeakers(roster, spoke)
  /\ UNCHANGED <<inCall, told, roster, selfName, attendees, activeByName, markers, spoke,
                 participants, unsure>>

\* endMeeting after it: "recomputed AFTER the final snapshot".
FinalSnapshot ==
  /\ resolve(roster, attendees)
  /\ UNCHANGED <<inCall, told, roster, selfName, attendees, activeByName, markers, spoke,
                 unsure>>

\* purge: captions and markers go, the bookkeeping stays.
PresencePurge ==
  /\ spoke' = {} /\ speakers' = {}
  /\ markers' = [n \in Name |-> <<>>]
  /\ UNCHANGED <<inCall, told, roster, selfName, attendees, activeByName, participants,
                 unsure>>

-----------------------------------------------------------------------------
\* Properties

Alternates(s) == \A i \in 1..(Len(s) - 1) : s[i] # s[i + 1]

\* The markers of a person tell whether they are in the call, over reconnects under new
\* devices, repeated broadcasts and tombstones with or without a name: joins and leaves
\* alternate, and the last one is a join exactly while a device Meet has told of is in
\* the call (meet.ts:732-749, 923-963).
PresenceIsMarked ==
  \A n \in Name \ (unsure \cup {Self}) :
    /\ Alternates(markers[n])
    /\ markers[n] # <<>> =>
         (Last(markers[n]) = "join" <=> \E d \in told : Owner[d] = n)
=============================================================================
