------------------------- MODULE SessionWriterProofs -------------------------
(***************************************************************************)
(* The session writer is type-correct, keeps its promises about the last      *)
(* words, and implements the register of LatestSnapshot, for every set of     *)
(* transport failures and every bound.                                       *)
(***************************************************************************)
EXTENDS SessionWriter, TLAPS

USE NoLinkAssumption

-------------------------------------------------------------------------------
(*                             Type correctness                             *)

LEMMA SeqStep ==
    ASSUME NEW S, NEW s \in Seq(S), NEW e \in S
    PROVE  /\ Append(s, e) \in Seq(S)
           /\ s # << >> => Head(s) \in S /\ Tail(s) \in Seq(S)
  OBVIOUS

LEMMA RequestType ==
    ASSUME TypeOK, Request
    PROVE  /\ timer' \in BOOLEAN /\ dirty' \in BOOLEAN /\ chain' \in Seq(Purposes)
  <1>1. Append(chain, "debounced") \in Seq(Purposes)
    BY SeqStep DEF TypeOK, Purposes
  <1>2. QED
    BY <1>1 DEF TypeOK, Request

LEMMA SettleType ==
    ASSUME TypeOK, Settle
    PROVE  /\ timer' \in BOOLEAN /\ dirty' \in BOOLEAN /\ closed' \in BOOLEAN
           /\ page' \in {"meeting", "flushing", "writing", "closed"}
  BY DEF TypeOK, Settle

LEMMA SealedType ==
    ASSUME TypeOK, Sealed
    PROVE  /\ timer' \in BOOLEAN /\ dirty' \in BOOLEAN /\ closed' \in BOOLEAN
           /\ notified' \in BOOLEAN /\ saved' \in BOOLEAN /\ link' = None
           /\ page' \in {"meeting", "flushing", "writing", "closed"}
           /\ told' \in {"nothing", "recovered", "stopped"}
  BY DEF TypeOK, Sealed, Announce

LEMMA SendType ==
    ASSUME TypeOK, NEW via, NEW snapshot \in Nat, Send(via, snapshot)
    PROVE  wire' \in Seq(Nat)
  BY SeqStep DEF TypeOK, Send

LEMMA InitType == Init => TypeOK
  <1>1. <<"debounced">> \in Seq(Purposes) /\ << >> \in Seq(Nat)
    BY DEF Purposes
  <1>2. Init => relayUp \in BOOLEAN
    BY DEF Init
  <1>3. Init => version \in Nat /\ stored \in Nat
    BY DEF Init
  <1>4. Init => chain \in Seq(Purposes) /\ wire \in Seq(Nat)
    BY <1>1, Zenon DEF Init
  <1>5. QED
    BY <1>2, <1>3, <1>4, Zenon DEF Init, TypeOK

LEMMA TypeStep == TypeOK /\ [Next]_vars => TypeOK'
  <1> SUFFICES ASSUME TypeOK, [Next]_vars PROVE TypeOK'
    OBVIOUS
  <1>1. CASE Change
    BY <1>1, RequestType DEF Change, TypeOK, transport
  <1>2. CASE TimerFires
    <2>1. chain' \in Seq(Purposes)
      BY <1>2, SeqStep DEF TimerFires, TypeOK, Purposes
    <2>2. timer' \in BOOLEAN /\ dirty' \in BOOLEAN
      BY <1>2 DEF TimerFires, TypeOK
    <2>3. QED
      BY <1>2, <2>1, <2>2 DEF TimerFires, TypeOK, transport
  <1>3. CASE StartLink
    <2>1. PICK via \in {"relay", "storage"} :
            /\ link' = [for |-> Head(chain), snapshot |-> version, via |-> via, sent |-> alive]
            /\ Send(via, version)
      BY <1>3 DEF StartLink
    <2>2. Head(chain) \in Purposes /\ chain' \in Seq(Purposes)
      BY <1>3, SeqStep DEF StartLink, TypeOK
    <2>3. link' \in Link /\ wire' \in Seq(Nat)
      BY <2>1, <2>2, SendType DEF TypeOK, Link
    <2>4. QED
      BY <1>3, <2>2, <2>3 DEF StartLink, TypeOK
  <1>4. CASE StorageLands
    <2>1. stored' \in Nat
      BY <1>4 DEF StorageLands, TypeOK, Link
    <2>2. QED
      BY <1>4, <2>1, SettleType DEF StorageLands, Landed, TypeOK, transport
  <1>5. CASE StorageFails
    BY <1>5, SettleType DEF StorageFails, Failed, TypeOK, transport
  <1>6. CASE Failover
    <2>1. link \in Link
      BY <1>6 DEF Failover, TypeOK
    <2>2. link.snapshot \in Nat /\ link' \in Link
      BY <1>6, <2>1 DEF Failover, Link
    <2>3. stored' \in Nat /\ wire' \in Seq(Nat)
      BY <1>6, <2>2, SendType DEF Failover, TypeOK
    <2>4. QED
      BY <1>6, <2>2, <2>3 DEF Failover, TypeOK, Announce
  <1>7. CASE StorageDead
    <2>1. stored' \in Nat
      BY <1>7 DEF StorageDead, TypeOK, Link
    <2>2. QED
      BY <1>7, <2>1, SealedType DEF StorageDead, TypeOK, transport
  <1>8. CASE RelayLands
    <2>1. stored' \in Nat /\ wire' \in Seq(Nat)
      BY <1>8, SeqStep DEF RelayLands, TypeOK
    <2>2. /\ timer' \in BOOLEAN /\ dirty' \in BOOLEAN /\ closed' \in BOOLEAN /\ saved' \in BOOLEAN
          /\ page' \in {"meeting", "flushing", "writing", "closed"}
          /\ link' \in Link \cup {None}
      BY <1>8, SettleType DEF RelayLands, Landed, TypeOK
    <2>3. QED
      BY <1>8, <2>1, <2>2, Zenon DEF RelayLands, TypeOK
  <1>9. CASE RelayRefuses
    <2>1. wire' \in Seq(Nat)
      BY <1>9, SeqStep DEF RelayRefuses, TypeOK
    <2>2. /\ timer' \in BOOLEAN /\ dirty' \in BOOLEAN /\ closed' \in BOOLEAN /\ saved' \in BOOLEAN
          /\ page' \in {"meeting", "flushing", "writing", "closed"}
          /\ link' \in Link \cup {None}
      BY <1>9, SettleType DEF RelayRefuses, Failed, TypeOK
    <2>3. QED
      BY <1>9, <2>1, <2>2, Zenon DEF RelayRefuses, TypeOK
  <1>10. CASE RelayTimesOut
    BY <1>10, SettleType DEF RelayTimesOut, Failed, TypeOK, transport
  <1>11. CASE RelayDead
    BY <1>11, SettleType DEF RelayDead, Failed, TypeOK, transport
  <1>12. CASE EndMeeting
    BY <1>12, RequestType DEF EndMeeting, TypeOK, transport
  <1>13. CASE WriteNow
    <2>1. version' \in Nat
      BY <1>13 DEF WriteNow, LastSnapshot, TypeOK
    <2>2. chain' \in Seq(Purposes)
      BY <1>13, SeqStep DEF WriteNow, TypeOK, Purposes
    <2>3. /\ timer' \in BOOLEAN /\ dirty' \in BOOLEAN
          /\ page' \in {"meeting", "flushing", "writing", "closed"}
      BY <1>13 DEF WriteNow, TypeOK
    <2>4. QED
      BY <1>13, <2>1, <2>2, <2>3, Zenon DEF WriteNow, TypeOK, transport
  <1>14. CASE Orphaned
    <2>1. alive' \in BOOLEAN /\ armed' \in BOOLEAN /\ relayUp' \in BOOLEAN
      BY <1>14 DEF Orphaned, TypeOK
    <2>2. UNCHANGED writer
      BY <1>14 DEF Orphaned
    <2>3. QED
      BY <1>14, <2>1, <2>2 DEF Orphaned, TypeOK, writer
  <1>15. CASE RelayGone
    <2>1. alive' \in BOOLEAN /\ armed' \in BOOLEAN /\ relayUp' \in BOOLEAN
      BY <1>15 DEF RelayGone, TypeOK
    <2>2. UNCHANGED writer
      BY <1>15 DEF RelayGone
    <2>3. QED
      BY <1>15, <2>1, <2>2 DEF RelayGone, TypeOK, writer
  <1>16. CASE UNCHANGED vars
    BY <1>16 DEF vars, writer, transport, TypeOK
  <1>17. QED
    BY <1>1, <1>2, <1>3, <1>4, <1>5, <1>6, <1>7, <1>8, <1>9, <1>10, <1>11, <1>12, <1>13,
       <1>14, <1>15, <1>16 DEF Next, Transport

(* Every reachable state of the writer is well-typed.                        *)
THEOREM WriterTypeCorrect == Spec => []TypeOK
  BY InitType, TypeStep, PTL DEF Spec

-------------------------------------------------------------------------------
(*                        Versions only grow on the way                     *)

LEMMA AppendAt ==
    ASSUME NEW S, NEW s \in Seq(S), NEW e \in S
    PROVE  LET next == Append(s, e)
           IN  /\ Len(next) = Len(s) + 1
               /\ DOMAIN next = 1 .. Len(s) + 1
               /\ \A i \in DOMAIN s : i \in DOMAIN next /\ next[i] = s[i]
               /\ \A i \in DOMAIN next : i < Len(next) => i \in DOMAIN s
               /\ next[Len(next)] = e
               /\ next # << >>
  OBVIOUS

LEMMA EmptySeq ==
    ASSUME NEW S, NEW s \in Seq(S)
    PROVE  s = << >> <=> Len(s) = 0
  OBVIOUS

LEMMA TailAt ==
    ASSUME NEW S, NEW s \in Seq(S), s # << >>
    PROVE  LET next == Tail(s)
           IN  /\ Len(next) = Len(s) - 1
               /\ DOMAIN next = 1 .. Len(s) - 1
               /\ \A i \in DOMAIN next : i + 1 \in DOMAIN s /\ next[i] = s[i + 1]
               /\ 1 \in DOMAIN s /\ Head(s) = s[1] /\ Len(s) \in DOMAIN s
               /\ next = << >> <=> Len(s) = 1
  <1>1. Len(s) \in Nat /\ Len(s) # 0 /\ DOMAIN s = 1 .. Len(s) /\ Head(s) = s[1]
    OBVIOUS
  <1>2. /\ Len(Tail(s)) = Len(s) - 1
        /\ DOMAIN Tail(s) = 1 .. Len(s) - 1
        /\ \A i \in 1 .. Len(s) - 1 : Tail(s)[i] = s[i + 1]
    OBVIOUS
  <1>3. Tail(s) \in Seq(S)
    OBVIOUS
  <1>4. Tail(s) = << >> <=> Len(s) = 1
    <2>1. Tail(s) = << >> <=> Len(Tail(s)) = 0
      BY <1>3, EmptySeq, Zenon
    <2>2. QED
      BY <1>1, <1>2, <2>1
  <1>5. QED
    BY <1>1, <1>2, <1>4

(* A wire that is empty or gained the current version is still in order.      *)
LEMMA SendInOrder ==
    ASSUME TypeOK, InOrder, NEW via, NEW snapshot \in Nat, Send(via, snapshot),
           snapshot <= version, stored <= snapshot,
           \A i \in DOMAIN wire : wire[i] <= snapshot
    PROVE  /\ \A i \in DOMAIN wire' : stored <= wire'[i] /\ wire'[i] <= snapshot
           /\ \A i, j \in DOMAIN wire' : i <= j => wire'[i] <= wire'[j]
           /\ via = "relay" /\ relayUp => wire'[Len(wire')] = snapshot
  <1>1. CASE wire' = wire /\ ~(via = "relay" /\ relayUp)
    BY <1>1 DEF InOrder
  <1>2. CASE via = "relay" /\ relayUp /\ wire' = Append(wire, snapshot)
    <2> DEFINE next == Append(wire, snapshot)
    <2>1. wire \in Seq(Nat)
      BY DEF TypeOK
    <2>2. /\ Len(next) = Len(wire) + 1
          /\ DOMAIN next = 1 .. Len(wire) + 1
          /\ \A i \in DOMAIN wire : next[i] = wire[i]
          /\ \A i \in DOMAIN next : i < Len(next) => i \in DOMAIN wire
          /\ next[Len(next)] = snapshot
      BY <2>1, AppendAt
    <2>3. Len(wire) \in Nat /\ \A i \in DOMAIN wire : wire[i] \in Nat
      BY <2>1
    <2>4. stored \in Nat /\ version \in Nat
      BY DEF TypeOK
    <2> HIDE DEF next
    <2>5. \A i \in DOMAIN next : i = Len(next) \/ (i \in DOMAIN wire /\ next[i] = wire[i])
      BY <2>2, <2>3
    <2>6. \A i \in DOMAIN next : stored <= next[i] /\ next[i] <= snapshot
      BY <2>2, <2>3, <2>4, <2>5 DEF InOrder
    <2>7. \A i, j \in DOMAIN next : i <= j => next[i] <= next[j]
      <3>1. TAKE i, j \in DOMAIN next
      <3>2. HAVE i <= j
      <3>3. CASE j = Len(next)
        BY <3>3, <2>2, <2>6
      <3>4. CASE j \in DOMAIN wire /\ next[j] = wire[j]
        <4>1. i < Len(next)
          BY <3>2, <3>4, <2>1, <2>2, <2>3
        <4>2. i \in DOMAIN wire /\ next[i] = wire[i]
          BY <4>1, <2>2
        <4>3. QED
          BY <3>2, <3>4, <4>2 DEF InOrder
      <3>5. QED
        BY <3>3, <3>4, <2>5
    <2>8. QED
      BY <1>2, <2>2, <2>6, <2>7 DEF next
  <1>3. QED
    BY <1>1, <1>2 DEF Send

(* Taking the oldest snapshot off the wire keeps the rest in order behind it.  *)
LEMMA TakeInOrder ==
    ASSUME TypeOK, InOrder, wire # << >>, wire' = Tail(wire)
    PROVE  /\ stored <= Head(wire) /\ Head(wire) <= version /\ Head(wire) \in Nat
           /\ \A i \in DOMAIN wire' : /\ Head(wire) <= wire'[i] /\ stored <= wire'[i]
                                      /\ wire'[i] <= version
                                      /\ \E k \in DOMAIN wire : wire'[i] = wire[k]
           /\ \A i, j \in DOMAIN wire' : i <= j => wire'[i] <= wire'[j]
           /\ wire' # << >> => wire'[Len(wire')] = wire[Len(wire)]
           /\ Len(wire) = 1 => wire' = << >> /\ Head(wire) = wire[Len(wire)]
  <1> DEFINE next == Tail(wire)
  <1>1. wire \in Seq(Nat) /\ stored \in Nat /\ version \in Nat
    BY DEF TypeOK
  <1>2. /\ Len(next) = Len(wire) - 1
        /\ DOMAIN next = 1 .. Len(wire) - 1
        /\ \A i \in DOMAIN next : i + 1 \in DOMAIN wire /\ next[i] = wire[i + 1]
        /\ 1 \in DOMAIN wire /\ Head(wire) = wire[1] /\ Len(wire) \in DOMAIN wire
        /\ next = << >> <=> Len(wire) = 1
    BY <1>1, TailAt
  <1>3. /\ Len(wire) \in Nat /\ DOMAIN wire = 1 .. Len(wire)
        /\ \A i \in DOMAIN wire : wire[i] \in Nat
    BY <1>1
  <1> HIDE DEF next
  <1>4. \A i \in DOMAIN next : Head(wire) <= next[i] /\ stored <= next[i] /\ next[i] <= version
    <2>1. TAKE i \in DOMAIN next
    <2>2. 1 \in DOMAIN wire /\ i + 1 \in DOMAIN wire /\ 1 <= i + 1
      BY <1>2, <1>3
    <2>3. QED
      BY <2>2, <1>2 DEF InOrder
  <1>5. \A i, j \in DOMAIN next : i <= j => next[i] <= next[j]
    <2>1. TAKE i, j \in DOMAIN next
    <2>2. HAVE i <= j
    <2>3. i + 1 \in DOMAIN wire /\ j + 1 \in DOMAIN wire /\ i + 1 <= j + 1
      BY <2>2, <1>2, <1>3
    <2>4. QED
      BY <2>3, <1>2 DEF InOrder
  <1>6. next # << >> => next[Len(next)] = wire[Len(wire)]
    BY <1>2, <1>3
  <1>7. stored <= Head(wire) /\ Head(wire) <= version /\ Head(wire) \in Nat
    BY <1>2, <1>3 DEF InOrder
  <1>8. QED
    BY <1>2, <1>4, <1>5, <1>6, <1>7 DEF next

LEMMA LinkType ==
    ASSUME TypeOK, link # None
    PROVE  /\ link.for \in Purposes /\ link.snapshot \in Nat
           /\ link.via \in {"storage", "relay"} /\ link.sent \in BOOLEAN
  BY DEF TypeOK, Link

LEMMA InOrderStep ==
    ASSUME TypeOK, InOrder, OneTransport, [Next]_vars
    PROVE  InOrder'
  <1> USE DEF TypeOK
  <1>1. CASE Change \/ WriteNow
    <2>1. version <= version' /\ version' \in Nat /\ UNCHANGED <<stored, link, wire, relayUp>>
      BY <1>1 DEF Change, WriteNow, LastSnapshot, transport
    <2>2. wire \in Seq(Nat) /\ \A i \in DOMAIN wire : wire[i] \in Nat
      OBVIOUS
    <2>3. QED
      BY <2>1, <2>2, LinkType DEF InOrder
  <1>2. CASE UNCHANGED <<version, stored, link, wire, relayUp>>
    BY <1>2 DEF InOrder
  <1>3. CASE /\ link' = None /\ UNCHANGED <<version, wire>>
             /\ stored' = stored
    BY <1>3 DEF InOrder
  <1>4. CASE StartLink
    <2>1. PICK via \in {"relay", "storage"} :
            /\ link' = [for |-> Head(chain), snapshot |-> version, via |-> via, sent |-> alive]
            /\ Send(via, version)
      BY <1>4 DEF StartLink
    <2>2. /\ \A i \in DOMAIN wire' : stored <= wire'[i] /\ wire'[i] <= version
          /\ \A i, j \in DOMAIN wire' : i <= j => wire'[i] <= wire'[j]
          /\ via = "relay" /\ relayUp => wire'[Len(wire')] = version
      BY <2>1, SendInOrder DEF InOrder
    <2>3. QED
      BY <1>4, <2>1, <2>2 DEF StartLink, InOrder
  <1>5. CASE StorageLands \/ StorageDead
    <2>1. wire = << >> /\ wire' = << >> /\ link' = None
      BY <1>5 DEF StorageLands, StorageDead, OneTransport, Landed, Sealed, transport
    <2>2. stored' <= version
      BY <1>5, LinkType DEF StorageLands, StorageDead, InOrder
    <2>3. QED
      BY <1>5, <2>1, <2>2 DEF StorageLands, StorageDead, InOrder
  <1>6. CASE Failover
    <2>1. wire = << >> /\ link # None
      BY <1>6 DEF Failover, OneTransport
    <2>2. stored' <= link.snapshot /\ link.snapshot \in Nat
      BY <1>6, LinkType DEF Failover, InOrder
    <2>3. wire' = << >> \/ wire' = <<link.snapshot>>
      BY <1>6, <2>1 DEF Failover, Send
    <2>4. link'.snapshot = link.snapshot /\ link' # None
      BY <1>6, <2>1 DEF Failover, Link
    <2>5. CASE wire' = << >>
      BY <1>6, <2>1, <2>2, <2>4, <2>5 DEF Failover, InOrder
    <2>6. CASE wire' = <<link.snapshot>>
      <3>1. DOMAIN wire' = {1} /\ wire'[1] = link.snapshot /\ Len(wire') = 1
        BY <2>6
      <3>2. QED
        BY <1>6, <2>1, <2>2, <2>4, <3>1 DEF Failover, InOrder
    <2>7. QED
      BY <2>3, <2>5, <2>6
  <1>7. CASE RelayLands
    <2>1. /\ stored' <= version
          /\ \A i \in DOMAIN wire' : stored' <= wire'[i] /\ wire'[i] <= version
          /\ \A i, j \in DOMAIN wire' : i <= j => wire'[i] <= wire'[j]
      BY <1>7, TakeInOrder DEF RelayLands
    <2>2. CASE link' = None
      BY <1>7, <2>1, <2>2 DEF RelayLands, InOrder
    <2>3. CASE link' = link /\ link # None
      <3>1. stored' <= link.snapshot
        BY <1>7, <2>3, TailAt DEF RelayLands, InOrder
      <3>2. \A i \in DOMAIN wire' : wire'[i] <= link.snapshot
        BY <1>7, <2>3, TakeInOrder DEF RelayLands, InOrder
      <3>3. link.via = "relay" /\ wire' # << >> => wire'[Len(wire')] = link.snapshot
        BY <1>7, <2>3, TakeInOrder DEF RelayLands, InOrder
      <3>4. QED
        BY <1>7, <2>1, <2>3, <3>1, <3>2, <3>3, LinkType DEF RelayLands, InOrder
    <2>4. QED
      BY <1>7, <2>2, <2>3 DEF RelayLands, Landed
  <1>8. CASE RelayRefuses
    <2>1. /\ \A i \in DOMAIN wire' : stored <= wire'[i] /\ wire'[i] <= version
          /\ \A i, j \in DOMAIN wire' : i <= j => wire'[i] <= wire'[j]
      BY <1>8, TakeInOrder DEF RelayRefuses
    <2>2. CASE link' = None
      BY <1>8, <2>1, <2>2 DEF RelayRefuses, InOrder
    <2>3. CASE link' = link /\ link # None
      <3>1. \A i \in DOMAIN wire' : wire'[i] <= link.snapshot
        BY <1>8, <2>3, TakeInOrder DEF RelayRefuses, InOrder
      <3>2. link.via = "relay" /\ wire' # << >> => wire'[Len(wire')] = link.snapshot
        BY <1>8, <2>3, TakeInOrder DEF RelayRefuses, InOrder
      <3>3. QED
        BY <1>8, <2>1, <2>3, <3>1, <3>2, LinkType DEF RelayRefuses, InOrder
    <2>4. QED
      BY <1>8, <2>2, <2>3 DEF RelayRefuses, Failed
  <1>9. CASE RelayGone
    BY <1>9 DEF RelayGone, InOrder, writer
  <1>10. StorageFails \/ RelayTimesOut \/ RelayDead
           => link' = None /\ UNCHANGED <<version, wire>> /\ stored' = stored
    BY DEF StorageFails, RelayTimesOut, RelayDead, Failed, Sealed, transport
  <1>11. TimerFires \/ EndMeeting \/ Orphaned \/ UNCHANGED vars
           => UNCHANGED <<version, stored, link, wire, relayUp>>
    BY DEF TimerFires, EndMeeting, Orphaned, vars, writer, transport
  <1>12. QED
    BY <1>1, <1>2, <1>3, <1>4, <1>5, <1>6, <1>7, <1>8, <1>9, <1>10, <1>11 DEF Next, Transport

-------------------------------------------------------------------------------
(*                           One transport at a time                        *)

LEMMA OneTransportStep ==
    ASSUME TypeOK, OneTransport, [Next]_vars
    PROVE  OneTransport'
  <1> USE DEF TypeOK
  <1>1. CASE UNCHANGED <<usingFallback, wire, link, armed>>
             /\ (alive' = alive \/ alive' = FALSE) /\ (relayUp' = relayUp \/ relayUp' = FALSE)
    BY <1>1 DEF OneTransport
  <1>2. CASE link' = None /\ UNCHANGED <<usingFallback, wire, alive, armed, relayUp>>
    BY <1>2 DEF OneTransport
  <1>3. CASE StartLink
    BY <1>3, LinkType DEF StartLink, OneTransport, Send, Link
  <1>4. CASE Failover
    <2>1. link'.via = "relay" /\ link' # None
      BY <1>4, LinkType DEF Failover, Link
    <2>2. QED
      BY <1>4, <2>1 DEF Failover, OneTransport
  <1>5. CASE RelayLands \/ RelayRefuses
    <2>1. usingFallback
      BY <1>5 DEF RelayLands, RelayRefuses, OneTransport
    <2>2. link' = None \/ link' = link
      BY <1>5 DEF RelayLands, RelayRefuses, Landed, Failed
    <2>3. UNCHANGED <<usingFallback, alive, armed, relayUp>>
      BY <1>5 DEF RelayLands, RelayRefuses
    <2>4. QED
      BY <2>1, <2>2, <2>3 DEF OneTransport
  <1>6. Change \/ TimerFires \/ EndMeeting \/ WriteNow \/ Orphaned \/ RelayGone \/ UNCHANGED vars
          => /\ UNCHANGED <<usingFallback, wire, link, armed>>
             /\ alive' = alive \/ alive' = FALSE
             /\ relayUp' = relayUp \/ relayUp' = FALSE
    BY DEF Change, TimerFires, EndMeeting, WriteNow, Orphaned, RelayGone, vars, writer, transport
  <1>7. StorageLands \/ StorageFails \/ StorageDead \/ RelayTimesOut \/ RelayDead
          => link' = None /\ UNCHANGED <<usingFallback, wire, alive, armed, relayUp>>
    BY DEF StorageLands, StorageFails, StorageDead, RelayTimesOut, RelayDead, Landed, Failed,
           Sealed, transport
  <1>8. QED
    BY <1>1, <1>2, <1>3, <1>4, <1>5, <1>6, <1>7 DEF Next, Transport

-------------------------------------------------------------------------------
(*                       The final link ends the chain                      *)

Debounced(links) == \A i \in DOMAIN links : links[i] = "debounced"

LEMMA AppendDebounced ==
    ASSUME NEW links \in Seq(Purposes), Debounced(links)
    PROVE  Debounced(Append(links, "debounced"))
  <1>1. "debounced" \in Purposes
    BY DEF Purposes
  <1>2. /\ Len(links) \in Nat /\ DOMAIN links = 1 .. Len(links)
    OBVIOUS
  <1>3. QED
    BY <1>1, <1>2, AppendAt DEF Debounced

LEMMA AppendFinal ==
    ASSUME NEW links \in Seq(Purposes), Debounced(links)
    PROVE  LET next == Append(links, "final")
           IN  /\ next # << >>
               /\ next[Len(next)] = "final"
               /\ \A i \in DOMAIN next : i < Len(next) => next[i] = "debounced"
  <1>1. "final" \in Purposes
    BY DEF Purposes
  <1>2. QED
    BY <1>1, AppendAt DEF Debounced

(* Settling the final link closes the meeting, whose chain is then empty.      *)
LEMMA SettleFinal ==
    ASSUME TypeOK, FinalIsLast, link # None, link' = None, UNCHANGED <<chain, version>>,
           page' = IF link.for = "final" THEN "closed" ELSE page,
           timer' = TRUE => timer
    PROVE  FinalIsLast'
  <1>1. link.for \in {"debounced", "final"}
    BY LinkType DEF Purposes
  <1>2. CASE link.for = "final"
    <2>1. page = "writing" /\ chain = << >>
      BY <1>2 DEF FinalIsLast
    <2>2. QED
      BY <1>2, <2>1 DEF FinalIsLast
  <1>3. CASE link.for = "debounced"
    BY <1>3 DEF FinalIsLast, TypeOK
  <1>4. QED
    BY <1>1, <1>2, <1>3

LEMMA RequestFinal ==
    ASSUME TypeOK, FinalIsLast, Request, page # "writing", page' # "writing", link' = link
    PROVE  FinalIsLast'
  <1>1. Debounced(chain)
    BY DEF FinalIsLast, Debounced
  <1>2. Debounced(chain')
    BY <1>1, AppendDebounced DEF Request, TypeOK
  <1>3. QED
    BY <1>2 DEF FinalIsLast, Debounced

LEMMA FinalIsLastStep ==
    ASSUME TypeOK, FinalIsLast, [Next]_vars
    PROVE  FinalIsLast'
  <1>1. CASE Change
    BY <1>1, RequestFinal DEF Change
  <1>2. CASE TimerFires
    <2>1. page # "writing" /\ page' = page /\ link' = link
      BY <1>2 DEF TimerFires, FinalIsLast
    <2>2. Debounced(chain')
      BY <1>2, <2>1, AppendDebounced DEF TimerFires, FinalIsLast, Debounced, TypeOK
    <2>3. QED
      BY <2>1, <2>2 DEF FinalIsLast, Debounced
  <1>3. CASE StartLink
    <2>1. PICK via \in {"relay", "storage"} :
            link' = [for |-> Head(chain), snapshot |-> version, via |-> via, sent |-> alive]
      BY <1>3 DEF StartLink
    <2>2. /\ chain # << >> /\ link = None /\ chain' = Tail(chain)
          /\ UNCHANGED <<version, page, timer>>
      BY <1>3 DEF StartLink
    <2>3. link' # None /\ link'.for = Head(chain) /\ link'.snapshot = version
      BY <2>1, <2>2, SeqStep, NoLinkAssumption DEF TypeOK, Link
    <2>4. /\ Len(chain) \in Nat /\ DOMAIN chain = 1 .. Len(chain)
          /\ Len(chain') = Len(chain) - 1
          /\ DOMAIN chain' = 1 .. Len(chain) - 1
          /\ \A i \in DOMAIN chain' : i + 1 \in DOMAIN chain /\ chain'[i] = chain[i + 1]
          /\ 1 \in DOMAIN chain /\ Head(chain) = chain[1] /\ Len(chain) \in DOMAIN chain
          /\ chain' = << >> <=> Len(chain) = 1
      BY <2>2, TailAt DEF TypeOK
    <2>5. \A i \in DOMAIN chain' : i < Len(chain') => chain'[i] = "debounced"
      BY <2>4 DEF FinalIsLast
    <2>6. CASE page = "writing"
      <3>1. chain[Len(chain)] = "final" /\ ~timer
        BY <2>2, <2>6 DEF FinalIsLast
      <3>2. CASE Len(chain) = 1
        BY <3>1, <3>2, <2>1, <2>2, <2>3, <2>4, <2>5, <2>6
          DEF FinalIsLast
      <3>3. CASE Len(chain) # 1
        <4>1. chain[1] = "debounced"
          BY <3>3, <2>4 DEF FinalIsLast
        <4>2. chain' # << >> /\ chain'[Len(chain')] = "final"
          BY <3>1, <3>3, <2>4
        <4>3. QED
          BY <3>1, <4>1, <4>2, <2>2, <2>3, <2>4, <2>5, <2>6 DEF FinalIsLast
      <3>4. QED
        BY <3>2, <3>3
    <2>7. CASE page # "writing"
      BY <2>2, <2>3, <2>4, <2>5, <2>7 DEF FinalIsLast
    <2>8. QED
      BY <2>6, <2>7
  <1>4. CASE StorageLands \/ StorageFails \/ StorageDead \/ RelayTimesOut \/ RelayDead
    BY <1>4, SettleFinal
       DEF StorageLands, StorageFails, StorageDead, RelayTimesOut, RelayDead, Landed, Failed,
           Sealed, Settle
  <1>5. CASE Failover
    <2>1. link \in Link /\ link # None
      BY <1>5 DEF Failover, TypeOK
    <2>2. link' # None /\ link'.for = link.for /\ link'.snapshot = link.snapshot
      BY <1>5, <2>1, NoLinkAssumption DEF Failover, Link
    <2>3. QED
      BY <1>5, <2>1, <2>2 DEF Failover, FinalIsLast
  <1>6. CASE RelayLands \/ RelayRefuses
    <2>1. CASE UNCHANGED <<link, page, timer>>
      BY <1>6, <2>1 DEF RelayLands, RelayRefuses, FinalIsLast
    <2>2. CASE link # None /\ link' = None /\ Settle
      BY <1>6, <2>2, SettleFinal DEF RelayLands, RelayRefuses, Settle
    <2>3. QED
      BY <1>6, <2>1, <2>2 DEF RelayLands, RelayRefuses, Landed, Failed
  <1>7. CASE EndMeeting
    BY <1>7, RequestFinal DEF EndMeeting
  <1>8. CASE WriteNow
    <2>1. page = "flushing" /\ link' = link
      BY <1>8 DEF WriteNow
    <2>2. Debounced(chain) /\ (link # None => link.for = "debounced")
      BY <2>1 DEF FinalIsLast, Debounced
    <2>3. CASE page' = "closed" /\ chain' = chain
      BY <2>1, <2>2, <2>3 DEF FinalIsLast, Debounced
    <2>4. CASE page' = "writing" /\ timer' = FALSE /\ chain' = Append(chain, "final")
      <3>1. /\ chain' # << >> /\ chain'[Len(chain')] = "final"
            /\ \A i \in DOMAIN chain' : i < Len(chain') => chain'[i] = "debounced"
        BY <2>2, <2>4, AppendFinal DEF TypeOK
      <3>2. QED
        BY <2>1, <2>2, <2>4, <3>1 DEF FinalIsLast
    <2>5. QED
      BY <1>8, <2>3, <2>4 DEF WriteNow
  <1>9. CASE Orphaned \/ RelayGone \/ UNCHANGED vars
    BY <1>9 DEF Orphaned, RelayGone, vars, writer, FinalIsLast
  <1>10. QED
    BY <1>1, <1>2, <1>3, <1>4, <1>5, <1>6, <1>7, <1>8, <1>9 DEF Next, Transport

-------------------------------------------------------------------------------
(*                       The writer closes for two reasons                  *)

LEMMA SettleClosing ==
    ASSUME TypeOK, FinalIsLast, Closing, link # None, link' = None, Settle,
           stored' = link.snapshot \/ ~saved', page = "closed" => stored' = stored,
           UNCHANGED <<version, chain, notified>>,
           notified => ~alive' /\ ~relayUp' /\ ~saved'
    PROVE  Closing'
  <1>1. link.for \in {"debounced", "final"}
    BY LinkType DEF Purposes
  <1>2. CASE link.for = "final"
    <2>1. page = "writing" /\ chain = << >> /\ link.snapshot = version
      BY <1>2 DEF FinalIsLast
    <2>2. page' = "closed" /\ closed' = TRUE /\ timer' = FALSE
      BY <1>2 DEF Settle
    <2>3. QED
      BY <2>1, <2>2 DEF Closing
  <1>3. CASE link.for = "debounced"
    <2>1. UNCHANGED <<page, closed, timer>>
      BY <1>3 DEF Settle
    <2>2. page = "closed" => notified
      BY DEF Closing
    <2>3. QED
      BY <2>1, <2>2 DEF Closing
  <1>4. QED
    BY <1>1, <1>2, <1>3

LEMMA SealedClosing ==
    ASSUME TypeOK, Closing, link # None, Sealed, ~alive', ~relayUp',
           UNCHANGED <<version, chain>>
    PROVE  Closing'
  <1>1. link' = None /\ ~saved'
    BY DEF Sealed
  <1>2. CASE notified
    BY <1>1, <1>2 DEF Sealed, Closing, TypeOK
  <1>3. CASE ~notified
    BY <1>1, <1>3 DEF Sealed, Closing, TypeOK
  <1>4. QED
    BY <1>2, <1>3

LEMMA ClosingStep ==
    ASSUME TypeOK, InOrder, OneTransport, FinalIsLast, Closing, [Next]_vars
    PROVE  Closing'
  <1>1. CASE Change
    BY <1>1 DEF Change, Request, Closing, transport, TypeOK
  <1>2. CASE TimerFires
    BY <1>2 DEF TimerFires, Closing, transport, TypeOK
  <1>3. CASE StartLink
    <2>1. PICK via \in {"relay", "storage"} :
            link' = [for |-> Head(chain), snapshot |-> version, via |-> via, sent |-> alive]
      BY <1>3 DEF StartLink
    <2>2. link'.sent = alive
      BY <2>1
    <2>3. page = "closed" => notified
      BY <1>3 DEF StartLink, Closing
    <2>4. QED
      BY <1>3, <2>2, <2>3 DEF StartLink, Closing
  <1>4. CASE StorageLands
    <2>1. ~notified /\ link # None
      BY <1>4 DEF StorageLands, Closing
    <2>2. page # "closed"
      BY <2>1 DEF Closing
    <2>3. QED
      BY <1>4, <2>1, <2>2, SettleClosing DEF StorageLands, Landed
  <1>5. CASE StorageFails
    <2>1. ~notified
      BY <1>5 DEF StorageFails, Closing
    <2>2. QED
      BY <1>5, <2>1, SettleClosing DEF StorageFails, Failed
  <1>6. CASE Failover
    <2>1. link \in Link /\ link # None
      BY <1>6 DEF Failover, TypeOK
    <2>2. link'.via = "relay"
      BY <1>6, <2>1 DEF Failover, Link
    <2>3. notified => stored' = stored
      BY <1>6 DEF Failover, Closing
    <2>4. page = "closed" => notified
      BY <2>1 DEF Closing
    <2>5. QED
      BY <1>6, <2>2, <2>3, <2>4 DEF Failover, Closing
  <1>7. CASE StorageDead
    <2>1. ~alive' /\ ~relayUp'
      BY <1>7 DEF StorageDead, OneTransport, transport
    <2>2. QED
      BY <1>7, <2>1, SealedClosing DEF StorageDead
  <1>8. CASE RelayLands
    <2>1. ~notified
      BY <1>8 DEF RelayLands, Closing
    <2>2. stored <= Head(wire) /\ Head(wire) <= version /\ stored' = Head(wire)
      BY <1>8, TakeInOrder DEF RelayLands
    <2>3. CASE link # None /\ Len(wire) = 1 /\ Landed /\ link.via = "relay"
      <3>1. stored' = link.snapshot
        BY <1>8, <2>3, TakeInOrder DEF RelayLands, InOrder
      <3>2. page # "closed"
        BY <2>1, <2>3 DEF Closing
      <3>3. QED
        BY <1>8, <2>1, <2>3, <3>1, <3>2, SettleClosing DEF RelayLands, Landed
    <2>4. CASE UNCHANGED <<link, saved, page, closed, timer>>
      <3>1. stored = version => stored' = version
        BY <2>2, TakeInOrder, <1>8 DEF RelayLands, TypeOK
      <3>2. QED
        BY <1>8, <2>1, <2>4, <3>1 DEF RelayLands, Closing
    <2>5. QED
      BY <1>8, <2>3, <2>4 DEF RelayLands
  <1>9. CASE RelayRefuses
    <2>1. ~notified
      BY <1>9 DEF RelayRefuses, Closing
    <2>2. CASE link # None /\ Failed
      BY <1>9, <2>1, <2>2, SettleClosing DEF RelayRefuses, Failed
    <2>3. CASE UNCHANGED <<link, saved, page, closed, timer>>
      BY <1>9, <2>1, <2>3 DEF RelayRefuses, Closing
    <2>4. QED
      BY <1>9, <2>2, <2>3 DEF RelayRefuses
  <1>10. CASE RelayTimesOut
    <2>1. notified => ~alive' /\ ~relayUp'
      BY <1>10 DEF RelayTimesOut, Closing, transport
    <2>2. QED
      BY <1>10, <2>1, SettleClosing DEF RelayTimesOut, Failed
  <1>11. CASE RelayDead
    <2>1. notified => ~alive' /\ ~relayUp'
      BY <1>11 DEF RelayDead, Closing, transport
    <2>2. QED
      BY <1>11, <2>1, SettleClosing DEF RelayDead, Failed
  <1>12. CASE EndMeeting
    BY <1>12 DEF EndMeeting, Request, Closing, transport, TypeOK
  <1>13. CASE WriteNow
    BY <1>13 DEF WriteNow, Closing, transport, TypeOK
  <1>14. CASE Orphaned
    BY <1>14 DEF Orphaned, Closing, writer
  <1>15. CASE RelayGone
    BY <1>15 DEF RelayGone, Closing, writer
  <1>16. CASE UNCHANGED vars
    BY <1>16 DEF vars, writer, transport, Closing
  <1>17. QED
    BY <1>1, <1>2, <1>3, <1>4, <1>5, <1>6, <1>7, <1>8, <1>9, <1>10, <1>11, <1>12, <1>13,
       <1>14, <1>15, <1>16 DEF Next, Transport

-------------------------------------------------------------------------------
(*                            No change is forgotten                        *)

LEMMA RequestPending ==
    ASSUME TypeOK, Request
    PROVE  closed \/ chain' # << >> \/ (timer' /\ dirty')
  BY SeqStep, AppendAt DEF Request, TypeOK, Purposes

(* Settling leaves nothing pending behind but a write that failed.            *)
LEMMA SettlePending ==
    ASSUME TypeOK, Pending, link # None, link' = None, Settle,
           stored' = link.snapshot \/ ~saved', UNCHANGED <<version, chain>>
    PROVE  Pending'
  BY DEF Settle, Pending, TypeOK

LEMMA PendingStep ==
    ASSUME TypeOK, InOrder, OneTransport, Pending, [Next]_vars
    PROVE  Pending'
  <1>1. CASE Change
    BY <1>1, RequestPending DEF Change, Pending
  <1>2. CASE TimerFires
    <2>1. dirty => chain' # << >>
      BY <1>2, AppendAt DEF TimerFires, TypeOK, Purposes
    <2>2. QED
      BY <1>2, <2>1 DEF TimerFires, Pending
  <1>3. CASE StartLink
    <2>1. PICK via \in {"relay", "storage"} :
            link' = [for |-> Head(chain), snapshot |-> version, via |-> via, sent |-> alive]
      BY <1>3 DEF StartLink
    <2>2. link' # None /\ link'.snapshot = version
      BY <1>3, <2>1, SeqStep, NoLinkAssumption DEF StartLink, TypeOK, Link
    <2>3. QED
      BY <1>3, <2>2 DEF StartLink, Pending
  <1>4. CASE StorageLands \/ StorageFails \/ RelayTimesOut \/ RelayDead
    BY <1>4, SettlePending
       DEF StorageLands, StorageFails, RelayTimesOut, RelayDead, Landed, Failed
  <1>5. CASE StorageDead
    BY <1>5 DEF StorageDead, Sealed, Pending
  <1>6. CASE Failover
    <2>1. link \in Link /\ link # None
      BY <1>6 DEF Failover, TypeOK
    <2>2. link' # None /\ link'.snapshot = link.snapshot
      BY <1>6, <2>1, NoLinkAssumption DEF Failover, Link
    <2>3. QED
      BY <1>6, <2>1, <2>2 DEF Failover, Pending
  <1>7. CASE RelayLands
    <2>1. stored <= Head(wire) /\ Head(wire) <= version /\ stored' = Head(wire)
      BY <1>7, TakeInOrder DEF RelayLands
    <2>2. CASE link # None /\ Len(wire) = 1 /\ Landed /\ link.via = "relay"
      <3>1. stored' = link.snapshot
        BY <1>7, <2>2, TakeInOrder DEF RelayLands, InOrder
      <3>2. QED
        BY <1>7, <2>2, <3>1, SettlePending DEF RelayLands, Landed
    <2>3. CASE UNCHANGED <<link, saved, closed, timer, dirty>>
      <3>1. stored = version => stored' = version
        BY <2>1, <1>7, TakeInOrder DEF RelayLands, TypeOK
      <3>2. QED
        BY <1>7, <2>3, <3>1 DEF RelayLands, Pending
    <2>4. QED
      BY <1>7, <2>2, <2>3 DEF RelayLands
  <1>8. CASE RelayRefuses
    <2>1. CASE link # None /\ Failed
      BY <1>8, <2>1, SettlePending DEF RelayRefuses, Failed
    <2>2. CASE UNCHANGED <<link, saved, closed, timer, dirty>>
      BY <1>8, <2>2 DEF RelayRefuses, Pending
    <2>3. QED
      BY <1>8, <2>1, <2>2 DEF RelayRefuses
  <1>9. CASE EndMeeting
    BY <1>9, RequestPending DEF EndMeeting, Pending
  <1>10. CASE WriteNow
    <2>1. closed \/ chain' # << >>
      BY <1>10, AppendAt DEF WriteNow, TypeOK, Purposes
    <2>2. QED
      BY <1>10, <2>1 DEF WriteNow, Pending
  <1>11. CASE Orphaned \/ RelayGone \/ UNCHANGED vars
    BY <1>11 DEF Orphaned, RelayGone, vars, writer, Pending
  <1>12. QED
    BY <1>1, <1>2, <1>3, <1>4, <1>5, <1>6, <1>7, <1>8, <1>9, <1>10, <1>11 DEF Next, Transport

-------------------------------------------------------------------------------
(*                                 Theorems                                 *)

LEMMA InitInv == Init => WriterInv
  <1> SUFFICES ASSUME Init PROVE WriterInv
    OBVIOUS
  <1>1. InOrder
    BY DEF Init, InOrder
  <1>2. OneTransport
    BY DEF Init, OneTransport
  <1>3. FinalIsLast
    BY DEF Init, FinalIsLast
  <1>4. Closing
    BY DEF Init, Closing
  <1>5. Pending
    BY DEF Init, Pending
  <1>6. QED
    BY <1>1, <1>2, <1>3, <1>4, <1>5 DEF WriterInv

LEMMA InvStep == TypeOK /\ WriterInv /\ [Next]_vars => WriterInv'
  BY InOrderStep, OneTransportStep, FinalIsLastStep, ClosingStep, PendingStep DEF WriterInv

(* The five relations between the requests, the chain, the link, the wire and   *)
(* the stored snapshot hold throughout: the inductive invariant.             *)
THEOREM WriterInvHolds == Spec => []WriterInv
  BY WriterTypeCorrect, InitInv, InvStep, PTL DEF Spec

(* No request is lost between the timer, the "dirty" flag and the chain.        *)
THEOREM NothingForgottenHolds == Spec => []NothingForgotten
  <1>1. WriterInv => NothingForgotten
    BY DEF WriterInv, Pending, NothingForgotten
  <1>2. QED
    BY <1>1, WriterInvHolds, PTL

(* writeNow returns with the last words stored, or after a failed write.        *)
THEOREM FinalWriteHolds == Spec => []FinalWriteComplete
  <1>1. WriterInv => FinalWriteComplete
    BY DEF WriterInv, Closing, FinalWriteComplete
  <1>2. QED
    BY <1>1, WriterInvHolds, PTL

(* The writer seals only once the context and the relay are both gone.          *)
THEOREM GivesUpHolds == Spec => []GivesUpOnlyWhenDead
  <1>1. WriterInv => GivesUpOnlyWhenDead
    BY DEF WriterInv, Closing, GivesUpOnlyWhenDead
  <1>2. QED
    BY <1>1, WriterInvHolds, PTL

(* "Recovered" is said only with a relay to recover by, so the one thing the     *)
(* adapter says is never used up before a seal.                              *)
Telling ==
    /\ told = "recovered" => armed
    /\ notified => told = "stopped"

LEMMA TellingStep == TypeOK /\ Telling /\ [Next]_vars => Telling'
  <1> SUFFICES ASSUME TypeOK, Telling, [Next]_vars PROVE Telling'
    OBVIOUS
  <1>1. CASE StorageDead
    <2>1. told # "recovered" /\ armed' = armed
      BY <1>1 DEF StorageDead, Telling, transport
    <2>2. CASE notified
      BY <1>1, <2>1, <2>2 DEF StorageDead, Sealed, Telling
    <2>3. CASE ~notified
      <3>1. Announce(FALSE)
        BY <1>1, <2>3 DEF StorageDead, Sealed
      <3>2. told' = "stopped" \/ (told # "nothing" /\ told' = told)
        BY <3>1 DEF Announce
      <3>3. told = "nothing" \/ told = "stopped"
        BY <2>1 DEF Telling, TypeOK
      <3>4. QED
        BY <2>1, <3>2, <3>3 DEF Telling
    <2>4. QED
      BY <2>2, <2>3
  <1>2. CASE Failover
    BY <1>2 DEF Failover, Announce, Telling
  <1>3. Change \/ TimerFires \/ StartLink \/ EndMeeting \/ WriteNow \/ Orphaned \/ RelayGone
          \/ UNCHANGED vars
          => UNCHANGED <<told, armed, notified>>
    BY DEF Change, TimerFires, StartLink, EndMeeting, WriteNow, Orphaned, RelayGone, vars,
           writer, transport
  <1>4. StorageLands \/ StorageFails \/ RelayLands \/ RelayRefuses \/ RelayTimesOut \/ RelayDead
          => UNCHANGED <<told, armed, notified>>
    BY DEF StorageLands, StorageFails, RelayLands, RelayRefuses, RelayTimesOut, RelayDead,
           transport
  <1>5. CASE UNCHANGED <<told, armed, notified>>
    BY <1>5 DEF Telling
  <1>6. QED
    BY <1>1, <1>2, <1>3, <1>4, <1>5 DEF Next, Transport

(* A writer that has stopped has said so, and has not said that it recovered.    *)
THEOREM StoppedIsToldHolds == Spec => []StoppedIsTold
  <1>1. Init => Telling
    BY DEF Init, Telling
  <1>2. Telling => StoppedIsTold
    BY DEF Telling, StoppedIsTold
  <1>3. QED
    BY <1>1, <1>2, TellingStep, WriterTypeCorrect, PTL DEF Spec

-------------------------------------------------------------------------------
(*                     The register of LatestSnapshot                       *)

LEMMA StoredGrows ==
    ASSUME TypeOK, WriterInv, [Next]_vars
    PROVE  stored' \in stored .. version'
  <1>1. stored' \in Nat /\ version' \in Nat /\ stored \in Nat
    BY TypeStep DEF TypeOK
  <1>2. stored' <= version'
    BY InvStep DEF WriterInv, InOrder
  <1>3. stored <= stored'
    <2>1. CASE stored' = stored
      BY <1>1, <2>1
    <2>2. CASE StorageLands \/ Failover \/ StorageDead
      <3>1. link # None /\ (stored' = stored \/ stored' = link.snapshot)
        BY <2>2 DEF StorageLands, Failover, StorageDead
      <3>2. stored <= link.snapshot
        BY <3>1 DEF WriterInv, InOrder
      <3>3. QED
        BY <1>1, <3>1, <3>2
    <2>3. CASE RelayLands
      BY <2>3, TakeInOrder DEF RelayLands, WriterInv
    <2>4. Next => \/ stored' = stored
                  \/ StorageLands \/ Failover \/ StorageDead \/ RelayLands
      BY DEF Next, Transport, Change, TimerFires, StartLink, StorageFails, RelayRefuses,
             RelayTimesOut, RelayDead, EndMeeting, WriteNow, Orphaned, RelayGone
    <2>5. QED
      BY <2>1, <2>2, <2>3, <2>4 DEF vars
  <1>4. QED
    BY <1>1, <1>2, <1>3

LEMMA ClosedForGood ==
    ASSUME TypeOK, WriterInv, [Next]_vars, page = "closed"
    PROVE  /\ page' = "closed" /\ version' = version
           /\ ~(wire # << >> /\ relayUp) =>
                stored' = stored /\ ~(wire' # << >> /\ relayUp')
  <1> USE DEF WriterInv
  <1>1. /\ closed /\ ~timer
        /\ notified => ~alive /\ ~relayUp
        /\ ~notified => chain = << >> /\ link = None
        /\ notified /\ link # None /\ link.via = "storage" => ~link.sent
    BY DEF Closing
  <1>2. ~Change /\ ~TimerFires /\ ~EndMeeting /\ ~WriteNow
    BY <1>1 DEF Change, TimerFires, EndMeeting, WriteNow
  <1>3. ~StorageLands /\ ~StorageFails
    BY <1>1 DEF StorageLands, StorageFails
  <1>4. CASE StartLink
    <2>1. ~relayUp'
      BY <1>1, <1>4 DEF StartLink
    <2>2. QED
      BY <1>4, <2>1 DEF StartLink
  <1>5. CASE Failover
    <2>1. ~relayUp' /\ stored' = stored
      BY <1>1, <1>5 DEF Failover
    <2>2. QED
      BY <1>5, <2>1 DEF Failover
  <1>6. CASE StorageDead
    <2>1. stored' = stored /\ page' = "closed"
      BY <1>1, <1>6 DEF StorageDead, Sealed
    <2>2. QED
      BY <1>6, <2>1 DEF StorageDead, transport
  <1>7. CASE RelayLands
    BY <1>7 DEF RelayLands, Landed, Settle
  <1>8. CASE RelayRefuses
    BY <1>8 DEF RelayRefuses, Failed, Settle
  <1>9. CASE RelayTimesOut
    BY <1>9 DEF RelayTimesOut, Failed, Settle, transport
  <1>10. CASE RelayDead
    BY <1>10 DEF RelayDead, Failed, Settle, transport
  <1>11. CASE Orphaned
    BY <1>11 DEF Orphaned
  <1>12. CASE RelayGone
    BY <1>12 DEF RelayGone
  <1>13. CASE UNCHANGED vars
    BY <1>13 DEF vars, transport
  <1>14. QED
    BY <1>2, <1>3, <1>4, <1>5, <1>6, <1>7, <1>8, <1>9, <1>10, <1>11, <1>12, <1>13
       DEF Next, Transport

LEMMA PhaseStep ==
    ASSUME TypeOK, WriterInv, [Next]_vars
    PROVE  Phase' \in Register!Later(Phase)
  <1>1. Phase' \in {"open", "draining", "done"}
    BY DEF Phase
  <1>2. CASE page # "closed"
    <2>1. Phase = "open"
      BY <1>2 DEF Phase
    <2>2. QED
      BY <1>1, <2>1 DEF Register!Later
  <1>3. CASE page = "closed"
    <2>1. page' = "closed"
      BY <1>3, ClosedForGood
    <2>2. CASE wire # << >> /\ relayUp
      BY <1>3, <2>1, <2>2 DEF Phase, Register!Later
    <2>3. CASE ~(wire # << >> /\ relayUp)
      <3>1. ~(wire' # << >> /\ relayUp')
        BY <1>3, <2>3, ClosedForGood
      <3>2. QED
        BY <1>3, <2>1, <2>3, <3>1 DEF Phase, Register!Later
    <2>4. QED
      BY <2>2, <2>3
  <1>4. QED
    BY <1>2, <1>3

LEMMA RegisterStep ==
    ASSUME TypeOK, WriterInv, [Next]_vars
    PROVE  [Register!Next]_<<version, stored, Phase>>
  <1>1. stored' \in stored .. version'
    BY StoredGrows
  <1>2. Phase' \in Register!Later(Phase)
    BY PhaseStep
  <1>3. CASE version' # version
    <2>1. /\ page # "closed"
          /\ version < MaxVersion /\ version' = version + 1
          /\ stored' = stored
      BY <1>3 DEF Next, Transport, Change, TimerFires, StartLink, StorageLands, StorageFails,
                  Failover, StorageDead, RelayLands, RelayRefuses, RelayTimesOut, RelayDead,
                  EndMeeting, WriteNow, LastSnapshot, Orphaned, RelayGone, vars
    <2>2. Register!Change
      BY <1>2, <2>1 DEF Phase, Register!Change
    <2>3. QED
      BY <2>2 DEF Register!Next
  <1>4. CASE version' = version
    <2>1. CASE Phase # "done"
      <3>1. Register!Save
        BY <1>1, <1>2, <1>4, <2>1 DEF Register!Save
      <3>2. QED
        BY <3>1 DEF Register!Next
    <2>2. CASE Phase = "done"
      <3>1. page = "closed" /\ ~(wire # << >> /\ relayUp)
        BY <2>2 DEF Phase
      <3>2. stored' = stored
        BY <3>1, ClosedForGood
      <3>3. Phase' = Phase
        BY <1>2, <2>2 DEF Register!Later
      <3>4. QED
        BY <1>4, <3>2, <3>3
    <2>3. QED
      BY <2>1, <2>2
  <1>5. QED
    BY <1>3, <1>4

(* The writer implements the abstract register: across both transports and a   *)
(* failover an older snapshot never replaces a newer one, and once the meeting *)
(* is over and the wire is empty the key is left alone.                      *)
THEOREM WriterImplementsRegister == Spec => OnlyNewer
  <1>1. Init => Register!Init
    BY DEF Init, Register!Init, Phase
  <1>2. TypeOK /\ WriterInv /\ [Next]_vars => [Register!Next]_<<version, stored, Phase>>
    BY RegisterStep
  <1>3. QED
    BY <1>1, <1>2, WriterTypeCorrect, WriterInvHolds, PTL DEF Spec, OnlyNewer, Register!Spec
=============================================================================
