----------------------------- MODULE FilenameGuard -----------------------------
(***************************************************************************)
(* The names of downloads (filename-guard.ts, and startDownload of         *)
(* export.ts): the worker registers a name, asks Chrome for the download,  *)
(* and answers Chrome's filename round for it, which may come in another   *)
(* order and hands back the URL cut short. Downloads of several meetings   *)
(* may be in flight; the worker may stop between any two steps, which      *)
(* empties the queue but not Chrome's rounds.                              *)
(***************************************************************************)
EXTENDS Naturals, Sequences, FiniteSets, SequencesExt

CONSTANTS
  Download,      \* downloads this extension asks for, each with a URL of its own
  Prefix,        \* [Download -> what Chrome keeps of its URL]
  MaxPending,    \* MAX_PENDING
  MaxStops       \* bound on worker stops

ASSUME GuardAssumption == MaxPending \in Nat \ {0} /\ MaxStops \in Nat

VARIABLES
  pending,       \* FilenameGuard.pending: downloads, the oldest first
  stage,         \* [Download -> "new" | "asked" | "named" | "failed"]
  given,         \* [Download -> the download whose name it got, or NoName]
  stops,         \* worker stops so far
  told           \* history: every round so far could be told apart

guardVars == <<pending, stage, given, stops, told>>

NoName == "no name"

GuardInit ==
  /\ pending = <<>>
  /\ stage = [d \in Download |-> "new"]
  /\ given = [d \in Download |-> NoName]
  /\ stops = 0
  /\ told = TRUE

Rounds == {d \in Download : stage[d] = "asked"}       \* rounds Chrome has yet to hold

\* The entry found at i, if one was, is taken out.
Without(i) == IF i = 0 THEN pending ELSE RemoveAt(pending, i)

\* expect, synchronous with the call of downloads.download.
expect(d) ==
  LET queue == Append(pending, d)
  IN  IF Len(queue) > MaxPending THEN Tail(queue) ELSE queue

StartDownload(d) ==
  /\ stage[d] = "new"
  /\ pending' = expect(d)
  /\ stage' = [stage EXCEPT ![d] = "asked"]
  /\ told' = (told /\ Cardinality(Rounds) < MaxPending)
  /\ UNCHANGED <<given, stops>>

\* deviation: an entry whose download never started stays.
deviationNotForgotten(d) == pending

forget(d) == Without(SelectInSeq(pending, LAMBDA p : p = d))

\* The call throws, before the round or after it.
DownloadThrows(d) ==
  /\ stage[d] \in {"asked", "named"}
  /\ pending' = forget(d)
  /\ stage' = [stage EXCEPT ![d] = "failed"]
  /\ UNCHANGED <<given, stops, told>>

\* claim, of our own download: its URL, then what Chrome kept of it, then the order.
\* A download of somebody else's is never ours to name, and changes nothing here.
claim(d, heard) ==
  LET exact == IF heard = "whole" THEN SelectInSeq(pending, LAMBDA p : p = d) ELSE 0
      cut == IF heard = "mangled" THEN 0 ELSE SelectInSeq(pending, LAMBDA p : Prefix[p] = Prefix[d])
  IN  IF exact > 0 THEN exact
      ELSE IF cut > 0 THEN cut
      ELSE IF pending = <<>> THEN 0 ELSE 1

\* Chrome holds the round. A URL too short to say which download it is tells them
\* apart only while there is one; so does a prefix that two of them share.
Determined(d, heard) ==
  /\ stage[d] = "asked"
  /\ LET i == claim(d, heard) IN
     /\ given' = [given EXCEPT ![d] = IF i = 0 THEN NoName ELSE pending[i]]
     /\ pending' = Without(i)
  /\ stage' = [stage EXCEPT ![d] = "named"]
  /\ told' = (told /\ CASE heard = "whole" -> TRUE
                        [] heard = "cut" -> \A o \in Rounds \ {d} : Prefix[o] # Prefix[d]
                        [] heard = "mangled" -> Rounds = {d})
  /\ UNCHANGED stops

\* The worker stops; downloads Chrome has taken go on without it.
WorkerStops ==
  /\ stops < MaxStops
  /\ stops' = stops + 1
  /\ pending' = <<>>
  /\ told' = (told /\ Rounds = {})
  /\ UNCHANGED <<stage, given>>

GuardNext ==
  \/ \E d \in Download :
       \/ StartDownload(d)
       \/ DownloadThrows(d)
       \/ \E heard \in {"whole", "cut", "mangled"} : Determined(d, heard)
  \/ WorkerStops

GuardSpec == GuardInit /\ [][GuardNext]_guardVars

-----------------------------------------------------------------------------
\* A download gets the name that was registered for it, never another's and never
\* none, whatever the order of the rounds and whichever downloads fail, as long as
\* the rounds can be told apart, the queue has room and no stop lost the queue.
ItsOwnName == told => \A d \in Download : stage[d] = "named" => given[d] = d
=============================================================================
