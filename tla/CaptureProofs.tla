----------------------------- MODULE CaptureProofs -----------------------------
(***************************************************************************)
(* What the capture script promises, for any number of connections,        *)
(* channels and languages, and any events. Every step that sends is an     *)
(* instance of Subscribe, so each invariant has a lemma about Subscribe    *)
(* and one step per action.                                                *)
(***************************************************************************)
EXTENDS CaptionsChannel, FiniteSetTheorems, TLAPS

\* What a call of Subscribe is made with: entries and counts of their types, and
\* listed sessions to send on.
Sendable(ss, cap, timers, senders, openers, lang, label, ad, left) ==
  /\ ss \in [Media -> Entry] /\ cap \in [Pc -> Counts] /\ timers \in Nat
  /\ senders \subseteq Media /\ openers \subseteq senders
  /\ lang \in [senders -> Lang] /\ label \in Label
  /\ ad \in Heard /\ left \in Int

\* The part of the state that a call of Subscribe sets.
Typed == /\ session \in [Media -> Entry] /\ captions \in [Pc -> Counts]
         /\ reopened \in Nat /\ captureArmed \in BOOLEAN /\ adapter \in Heard
         /\ asked \in [Media -> Lang \cup {"nothing", "unsure"}] /\ budget \in Nat

\* What it leaves of the entries and of what the adapter heard.
Kept(ss, ad) ==
  /\ \A m \in Media :
       /\ session'[m].pc = ss[m].pc /\ session'[m].state = ss[m].state
       /\ session'[m].closing = ss[m].closing /\ session'[m].seen = ss[m].seen
       /\ session'[m].listed = ss[m].listed
  /\ adapter'.listening = ad.listening /\ adapter'.media = ad.media
  /\ ad.armed => adapter'.armed
  /\ captureArmed' => captureArmed \/ adapter'.armed \/ ~ad.listening

\* What it does to the sessions it sends on, and to no other.
Sent(ss, senders, openers, lang) ==
  \A m \in Media :
    /\ m \notin senders => session'[m] = ss[m] /\ asked'[m] = asked[m]
    /\ m \in senders => session'[m].lang = lang[m] /\ asked'[m] \in {lang[m], "unsure"}
    /\ m \notin openers => session'[m].subscribed = ss[m].subscribed

\* The captions channels after it, when none can fail to open.
Opened(ss, cap, openers, label) ==
  /\ \A p \in Pc, l \in Label : captions'[p][l].gone = cap[p][l].gone
                                /\ captions'[p][l].live >= cap[p][l].live
  /\ \A m \in openers : ss[m].pc \in Pc => captions'[ss[m].pc][label].live > 0

LEMMA FiniteMedia == \A s \in SUBSET Media : IsFiniteSet(s) /\ Cardinality(s) \in Nat
<1>1. NumMedia \in Nat
  BY CaptionsAssumption
<1>2. IsFiniteSet(Media)
  BY <1>1, FS_Interval DEF Media
<1> QED
  BY <1>2, FS_Subset, FS_CardinalityType

LEMMA PruneType ==
  ASSUME NEW ss \in [Media -> Entry]
  PROVE  /\ pruneDeadSessions(ss) \in [Media -> Entry]
         /\ \A m \in Media : pruneDeadSessions(ss)[m]
              = [ss[m] EXCEPT !.listed = ss[m].listed /\ ss[m].state # "closed"]
  BY DEF pruneDeadSessions, Entry

LEMMA OpenCaptionsCount ==
  ASSUME NEW ss \in [Media -> Entry], NEW cap \in [Pc -> Counts],
         NEW made \in SUBSET Media, NEW label \in Label
  PROVE  LET after == openCaptions(cap, ss, made, label) IN
         /\ \A p \in Pc, l \in Label : /\ after[p][l].gone = cap[p][l].gone
                                       /\ after[p][l].live >= cap[p][l].live
         /\ \A m \in made : ss[m].pc \in Pc => after[ss[m].pc][label].live > 0
<1> DEFINE n(p) == Cardinality({m \in made : ss[m].pc = p})
           after == openCaptions(cap, ss, made, label)
<1>1. ASSUME NEW p \in Pc
      PROVE  n(p) \in Nat /\ IsFiniteSet({m \in made : ss[m].pc = p})
  BY FiniteMedia
<1>2. ASSUME NEW p \in Pc
      PROVE  after[p] = [cap[p] EXCEPT ![label].live = cap[p][label].live + n(p)]
  BY DEF openCaptions
<1>3. ASSUME NEW p \in Pc
      PROVE  /\ \A l \in Label : /\ after[p][l].gone = cap[p][l].gone
                                 /\ after[p][l].live >= cap[p][l].live
             /\ after[p][label].live = cap[p][label].live + n(p)
  <2>1. PICK k \in Nat : k = n(p)
    BY <1>1
  <2>2. cap[p] \in [Label -> [live : Nat, gone : Nat]]
    BY DEF Counts
  <2>3. after[p] = [cap[p] EXCEPT ![label].live = cap[p][label].live + k]
    BY <1>2, <2>1
  <2> HIDE DEF n, after
  <2> QED
    BY <2>1, <2>2, <2>3
<1>4. ASSUME NEW m \in made, ss[m].pc \in Pc
      PROVE  after[ss[m].pc][label].live > 0
  <2> DEFINE p == ss[m].pc
  <2>1. n(p) # 0
    BY <1>1, <1>4, FS_EmptySet
  <2>2. PICK k \in Nat : k = n(p)
    BY <1>1, <1>4
  <2>3. cap[p][label].live \in Nat
    BY <1>4 DEF Counts
  <2>4. after[p][label].live = cap[p][label].live + n(p)
    BY <1>3, <1>4
  <2> HIDE DEF n, after, p
  <2>5. after[p][label].live > 0
    BY <2>1, <2>2, <2>3, <2>4
  <2> QED
    BY <2>5 DEF p
<1> QED
  BY <1>3, <1>4

LEMMA OpenCaptionsType ==
  ASSUME NEW ss \in [Media -> Entry], NEW cap \in [Pc -> Counts],
         NEW made \in SUBSET Media, NEW label \in Label
  PROVE  openCaptions(cap, ss, made, label) \in [Pc -> Counts]
<1> DEFINE n(p) == Cardinality({m \in made : ss[m].pc = p})
<1>1. \A p \in Pc : n(p) \in Nat
  BY FiniteMedia
<1>2. ASSUME NEW p \in Pc
      PROVE  [cap[p] EXCEPT ![label].live = cap[p][label].live + n(p)] \in Counts
  <2>1. PICK k \in Nat : k = n(p)
    BY <1>1, <1>2
  <2>2. cap[p] \in [Label -> [live : Nat, gone : Nat]]
    BY <1>2 DEF Counts
  <2>3. cap[p][label].live + k \in Nat
    BY <2>1, <2>2
  <2> HIDE DEF n
  <2>4. [cap[p] EXCEPT ![label].live = cap[p][label].live + k] \in [Label -> [live : Nat, gone : Nat]]
    BY <2>2, <2>3
  <2> QED
    BY <2>1, <2>4 DEF Counts
<1> QED
  BY <1>2 DEF openCaptions

\* What a call of Subscribe does to each session, and to what the adapter heard.
LEMMA SubscribeEffect ==
  ASSUME NEW ss, NEW cap, NEW timers, NEW senders, NEW openers, NEW lang, NEW label,
         NEW ad, NEW left, TypeOK,
         Sendable(ss, cap, timers, senders, openers, lang, label, ad, left),
         Subscribe(ss, cap, timers, senders, openers, lang, label, ad, left)
  PROVE  /\ Typed' /\ Kept(ss, ad) /\ Sent(ss, senders, openers, lang)
         /\ ~CreateFails => Opened(ss, cap, openers, label)
<1>1. PICK got \in [senders -> Outcome], rejected \in SUBSET openers :
        LET made == openers \ rejected
            out(m) == got[m] # "refused"
            failed == {m \in senders : got[m] # "sent"}
            armed == \E m \in openers : got[m] = "sent"
        IN
        /\ \A m \in senders \ openers : got[m] # "half"
        /\ Cardinality(failed) + Cardinality(rejected) <= left
        /\ rejected # {} => CreateFails
        /\ captions' = openCaptions(cap, ss, made, label)
        /\ reopened' = timers + Cardinality(made)
        /\ session' = [m \in Media |->
             IF m \notin senders THEN ss[m]
             ELSE [ss[m] EXCEPT !.lang = lang[m],
                                !.subscribed = IF m \in openers THEN got[m] = "sent" ELSE @]]
        /\ asked' = [m \in Media |->
             IF m \notin senders THEN asked[m] ELSE IF out(m) THEN lang[m] ELSE "unsure"]
        /\ captureArmed' = (captureArmed \/ armed)
        /\ adapter' = IF armed THEN heardArmed(ad) ELSE ad
        /\ budget' = left - Cardinality(failed) - Cardinality(rejected)
  BY DEF Subscribe
<1> DEFINE made == openers \ rejected
           failed == {m \in senders : got[m] # "sent"}
           armed == \E m \in openers : got[m] = "sent"
<1>2. made \in SUBSET Media /\ failed \in SUBSET Media /\ rejected \in SUBSET Media
  BY DEF Sendable
<1>3. Cardinality(made) \in Nat /\ Cardinality(failed) \in Nat /\ Cardinality(rejected) \in Nat
  BY <1>2, FiniteMedia
<1>4. session' \in [Media -> Entry]
  <2>1. ASSUME NEW m \in Media
        PROVE  (IF m \notin senders THEN ss[m]
                ELSE [ss[m] EXCEPT !.lang = lang[m],
                                   !.subscribed = IF m \in openers THEN got[m] = "sent" ELSE @])
               \in Entry
    <3>1. ss[m] \in Entry /\ (m \in senders => lang[m] \in Lang)
      BY DEF Sendable
    <3>2. PICK b \in BOOLEAN : b = (got[m] = "sent")
      OBVIOUS
    <3>3. m \in senders => [ss[m] EXCEPT !.lang = lang[m], !.subscribed = b] \in Entry
      BY <3>1 DEF Entry
    <3>4. m \in senders => [ss[m] EXCEPT !.lang = lang[m]] \in Entry
      BY <3>1 DEF Entry
    <3>5. CASE m \in openers /\ m \in senders
      BY <3>2, <3>3, <3>5
    <3>6. CASE m \notin openers /\ m \in senders
      <4>1. [ss[m] EXCEPT !.lang = lang[m], !.subscribed = ss[m].subscribed] \in Entry
        BY <3>1, <3>6 DEF Entry
      <4> QED
        BY <3>6, <4>1
    <3> QED
      BY <3>1, <3>5, <3>6
  <2> QED
    BY <1>1, <2>1
<1>5. captions' \in [Pc -> Counts]
  BY <1>1, <1>2, OpenCaptionsType DEF Sendable
<1>6. reopened' \in Nat /\ budget' \in Nat
  <2>1. reopened' = timers + Cardinality(made)
    BY <1>1
  <2>2. /\ budget' = left - Cardinality(failed) - Cardinality(rejected)
        /\ Cardinality(failed) + Cardinality(rejected) <= left
    BY <1>1
  <2>3. timers \in Nat /\ left \in Int
    BY DEF Sendable
  <2> HIDE DEF made, failed
  <2> QED
    BY <1>3, <2>1, <2>2, <2>3
<1>7. captureArmed' \in BOOLEAN /\ (captureArmed' => captureArmed \/ armed)
  BY <1>1 DEF TypeOK
<1>8. /\ adapter' \in Heard /\ adapter'.listening = ad.listening /\ adapter'.media = ad.media
      /\ (ad.armed => adapter'.armed) /\ (armed /\ ad.listening => adapter'.armed)
  <2>1. /\ heardArmed(ad) \in Heard /\ heardArmed(ad).listening = ad.listening
        /\ heardArmed(ad).media = ad.media
        /\ heardArmed(ad).armed = (ad.armed \/ ad.listening)
    BY DEF Sendable, Heard, heardArmed
  <2>2. adapter' = IF armed THEN heardArmed(ad) ELSE ad
    BY <1>1
  <2>3. ad \in Heard
    BY DEF Sendable
  <2> HIDE DEF armed
  <2> QED
    BY <2>1, <2>2, <2>3
<1>9. asked' \in [Media -> Lang \cup {"nothing", "unsure"}]
  BY <1>1 DEF Sendable, TypeOK
<1>10. ASSUME NEW m \in Media
       PROVE  /\ session'[m].pc = ss[m].pc /\ session'[m].state = ss[m].state
              /\ session'[m].closing = ss[m].closing /\ session'[m].seen = ss[m].seen
              /\ session'[m].listed = ss[m].listed
              /\ m \notin senders => session'[m] = ss[m] /\ asked'[m] = asked[m]
              /\ m \in senders => /\ session'[m].lang = lang[m]
                                  /\ asked'[m] \in {lang[m], "unsure"}
              /\ m \notin openers => session'[m].subscribed = ss[m].subscribed
  <2>1. ss[m] \in Entry
    BY DEF Sendable
  <2>2. session'[m] = IF m \notin senders THEN ss[m]
             ELSE [ss[m] EXCEPT !.lang = lang[m],
                                !.subscribed = IF m \in openers THEN got[m] = "sent" ELSE @]
    BY <1>1
  <2>3. asked'[m] = IF m \notin senders THEN asked[m]
                    ELSE IF got[m] # "refused" THEN lang[m] ELSE "unsure"
    BY <1>1
  <2> QED
    BY <2>1, <2>2, <2>3 DEF Entry, Sendable
<1>11. ASSUME ~CreateFails
       PROVE  /\ \A p \in Pc, l \in Label : captions'[p][l].gone = cap[p][l].gone
                                            /\ captions'[p][l].live >= cap[p][l].live
              /\ \A m \in openers : ss[m].pc \in Pc => captions'[ss[m].pc][label].live > 0
  <2>1. made = openers
    BY <1>1, <1>11
  <2>2. captions' = openCaptions(cap, ss, openers, label)
    BY <1>1, <2>1
  <2>3. openers \in SUBSET Media
    BY DEF Sendable
  <2> QED
    BY <2>2, <2>3, OpenCaptionsCount DEF Sendable
<1> HIDE DEF made, failed, armed
<1>12. captureArmed' => captureArmed \/ adapter'.armed \/ ~ad.listening
  BY <1>7, <1>8
<1>13. Typed'
  BY <1>4, <1>5, <1>6, <1>7, <1>8, <1>9 DEF Typed
<1>14. Kept(ss, ad) /\ Sent(ss, senders, openers, lang)
  BY <1>8, <1>10, <1>12 DEF Kept, Sent
<1>15. ~CreateFails => Opened(ss, cap, openers, label)
  BY <1>11 DEF Opened
<1> QED
  BY <1>13, <1>14, <1>15
-----------------------------------------------------------------------------
\* The steps that send, each by the call it makes.

LEMMA SendSubscribeEffect ==
  ASSUME TypeOK, NEW ss \in [Media -> Entry], NEW cap \in [Pc -> Counts],
         NEW m \in Media, NEW label \in Label, sendSubscribe(ss, cap, m, label)
  PROVE  /\ Typed' /\ Kept(ss, adapter)
         /\ \/ /\ ss[m].state = "open" /\ Sent(ss, {m}, {m}, [k \in {m} |-> captionLanguage])
               /\ ~CreateFails => Opened(ss, cap, {m}, label)
            \/ ss[m].state # "open" /\ session' = ss /\ captions' = cap /\ asked' = asked
<1>1. CASE ss[m].state = "open"
  <2>1. Sendable(ss, cap, reopened, {m}, {m}, [k \in {m} |-> captionLanguage], label, adapter,
                 budget)
    BY DEF Sendable, TypeOK
  <2>2. Subscribe(ss, cap, reopened, {m}, {m}, [k \in {m} |-> captionLanguage], label, adapter,
                  budget)
    BY <1>1 DEF sendSubscribe
  <2> QED
    BY <1>1, <2>1, <2>2, SubscribeEffect
<1>2. CASE ss[m].state # "open"
  BY <1>2 DEF sendSubscribe, TypeOK, Typed, Kept
<1> QED
  BY <1>1, <1>2

LEMMA TrySubscribeEffect ==
  ASSUME TypeOK, NEW m \in Media, trySubscribe(m)
  PROVE  /\ Typed' /\ UNCHANGED <<connection, captionLanguage>>
         /\ LET ss == [session EXCEPT ![m].due = FALSE] IN
            /\ Kept(ss, adapter)
            /\ \/ /\ ss[m].state = "open"
                  /\ Sent(ss, {m}, {m}, [k \in {m} |-> captionLanguage])
                  /\ ~CreateFails => Opened(ss, captions, {m}, "captions")
               \/ session' = ss /\ captions' = captions /\ asked' = asked
<1> DEFINE ss == [session EXCEPT ![m].due = FALSE]
<1>1. ss \in [Media -> Entry] /\ captions \in [Pc -> Counts] /\ "captions" \in Label
  BY DEF TypeOK, Entry, Label
<1>2. CASE ~session[m].subscribed
  <2>1. sendSubscribe(ss, captions, m, "captions") /\ UNCHANGED <<connection, captionLanguage>>
    BY <1>2 DEF trySubscribe
  <2> HIDE DEF ss
  <2>2. /\ Typed' /\ Kept(ss, adapter)
        /\ \/ /\ ss[m].state = "open" /\ Sent(ss, {m}, {m}, [k \in {m} |-> captionLanguage])
              /\ ~CreateFails => Opened(ss, captions, {m}, "captions")
           \/ ss[m].state # "open" /\ session' = ss /\ captions' = captions /\ asked' = asked
    BY <1>1, <2>1, SendSubscribeEffect
  <2> QED
    BY <2>1, <2>2 DEF ss
<1>3. CASE session[m].subscribed
  BY <1>1, <1>3 DEF trySubscribe, TypeOK, Typed, Kept
<1> QED
  BY <1>2, <1>3

LEMMA WatchEffect ==
  ASSUME TypeOK, NEW p \in Pc, NEW label \in Label, watchCaptionsChannel(p, label)
  PROVE  /\ Typed' /\ Kept(session, adapter) /\ UNCHANGED <<connection, captionLanguage>>
         /\ \E cap \in [Pc -> Counts] :
              /\ \A q \in Pc, l \in Label :
                   /\ cap[q][l].live = captions[q][l].live
                   /\ q # p => cap[q][l].gone = captions[q][l].gone
              /\ \/ \E m \in openSession(p) :
                      /\ Sent(session, {m}, {m}, [k \in {m} |-> captionLanguage])
                      /\ ~CreateFails => Opened(session, cap, {m}, label)
                 \/ /\ openSession(p) = {} /\ session' = session
                    /\ captions' = cap /\ asked' = asked
<1> DEFINE cap == [captions EXCEPT ![p][label].gone = captions[p][label].gone - 1]
<1>1. /\ cap \in [Pc -> Counts]
      /\ \A q \in Pc, l \in Label : /\ cap[q][l].live = captions[q][l].live
                                    /\ q # p => cap[q][l].gone = captions[q][l].gone
  <2>1. captions[p] \in [Label -> [live : Nat, gone : Nat]] /\ captions \in [Pc -> Counts]
    BY DEF TypeOK, Counts
  <2>2. captions[p][label].gone - 1 \in Nat
    BY <2>1 DEF watchCaptionsChannel
  <2>3. [captions[p] EXCEPT ![label].gone = captions[p][label].gone - 1]
          \in [Label -> [live : Nat, gone : Nat]]
    BY <2>1, <2>2
  <2> QED
    BY <2>1, <2>3 DEF Counts
<1>2. UNCHANGED <<connection, captionLanguage>>
  BY DEF watchCaptionsChannel
<1>3. CASE openSession(p) = {}
  <2>1. /\ captions' = cap
        /\ UNCHANGED <<session, reopened, asked, captureArmed, adapter, budget>>
    BY <1>3 DEF watchCaptionsChannel
  <2> HIDE DEF cap
  <2>2. Typed' /\ Kept(session, adapter)
    BY <1>1, <2>1 DEF TypeOK, Typed, Kept
  <2> QED
    BY <1>1, <1>2, <1>3, <2>1, <2>2
<1>4. CASE openSession(p) # {}
  <2>1. PICK m \in openSession(p) : sendSubscribe(session, cap, m, label)
    BY <1>4 DEF watchCaptionsChannel
  <2>2. sendSubscribe(session, cap, m, label)
    BY <2>1
  <2>3. m \in Media /\ session[m].state = "open" /\ session \in [Media -> Entry]
    BY <2>1 DEF openSession, TypeOK
  <2> HIDE DEF cap
  <2>4. /\ Typed' /\ Kept(session, adapter)
        /\ Sent(session, {m}, {m}, [k \in {m} |-> captionLanguage])
        /\ ~CreateFails => Opened(session, cap, {m}, label)
    BY <1>1, <2>2, <2>3, SendSubscribeEffect
  <2> QED
    BY <1>1, <1>2, <2>1, <2>4
<1> QED
  BY <1>3, <1>4

LEMMA ReopenedEffect ==
  ASSUME TypeOK, resubscribeForCaptions
  PROVE  LET ss == pruneDeadSessions(session)
             again == {m \in Media : ss[m].listed /\ ss[m].subscribed /\ ss[m].state = "open"}
         IN /\ Typed' /\ Kept(ss, adapter) /\ UNCHANGED <<connection, captionLanguage>>
            /\ Sent(ss, again, {}, [m \in again |-> ss[m].lang])
            /\ ~CreateFails => Opened(ss, captions, {}, "captions")
<1> DEFINE ss == pruneDeadSessions(session)
           again == {m \in Media : ss[m].listed /\ ss[m].subscribed /\ ss[m].state = "open"}
           lang == [m \in again |-> ss[m].lang]
<1>1. ss \in [Media -> Entry]
  BY PruneType DEF TypeOK
<1>2. again \subseteq Media /\ reopened - 1 \in Nat
  BY DEF resubscribeForCaptions, TypeOK
<1>3. Subscribe(ss, captions, reopened - 1, again, {}, lang, "captions", adapter, budget)
  BY DEF resubscribeForCaptions
<1>4. UNCHANGED <<connection, captionLanguage>>
  BY DEF resubscribeForCaptions
<1> HIDE DEF ss, again
<1>5. lang \in [again -> Lang]
  BY <1>1, <1>2 DEF Entry
<1> HIDE DEF lang
<1>6. Sendable(ss, captions, reopened - 1, again, {}, lang, "captions", adapter, budget)
  BY <1>1, <1>2, <1>5 DEF Sendable, TypeOK, Label
<1>7. /\ Typed' /\ Kept(ss, adapter) /\ Sent(ss, again, {}, lang)
      /\ ~CreateFails => Opened(ss, captions, {}, "captions")
  BY <1>3, <1>6, SubscribeEffect
<1> QED
  BY <1>4, <1>7 DEF ss, again, lang

\* The configuration listener, for a meeting that goes on or has just begun.
LEMMA ConfigureEffect ==
  ASSUME TypeOK, NEW l \in Lang, NEW ad \in Heard, budget > 0, configure(l, ad)
  PROVE  LET ss == pruneDeadSessions(session)
             heard == IF captureArmed THEN heardArmed(ad) ELSE ad
             open == {m \in Media : ss[m].listed /\ ss[m].state = "open"}
             first == {m \in open : ~ss[m].subscribed}
             again == {m \in open : ss[m].subscribed /\ ss[m].lang # l}
         IN /\ Typed' /\ captionLanguage' = l
            /\ heard \in Heard /\ heard.listening = ad.listening /\ heard.media = ad.media
            /\ captureArmed /\ ad.listening => heard.armed
            /\ \/ /\ l # captionLanguage /\ Kept(ss, heard)
                  /\ Sent(ss, first \cup again, first, [m \in first \cup again |-> l])
                  /\ ~CreateFails => Opened(ss, captions, first, "captions")
               \/ /\ l = captionLanguage /\ adapter' = heard
                  /\ UNCHANGED <<session, captions, asked, captureArmed>>
<1> DEFINE ss == pruneDeadSessions(session)
           heard == IF captureArmed THEN heardArmed(ad) ELSE ad
           open == {m \in Media : ss[m].listed /\ ss[m].state = "open"}
           first == {m \in open : ~ss[m].subscribed}
           again == {m \in open : ss[m].subscribed /\ ss[m].lang # l}
           lang == [m \in first \cup again |-> l]
<1>1. ss \in [Media -> Entry]
  BY PruneType DEF TypeOK
<1>2. /\ heard \in Heard /\ heard.listening = ad.listening /\ heard.media = ad.media
      /\ captureArmed /\ ad.listening => heard.armed
  BY DEF heardArmed, Heard
<1>3. captionLanguage' = l
  BY DEF configure
<1>4. CASE l # captionLanguage
  <2>1. Subscribe(ss, captions, reopened, first \cup again, first, lang, "captions", heard,
                  budget - 1)
    BY <1>4 DEF configure, resubscribeAll
  <2>2. first \cup again \subseteq Media /\ first \subseteq first \cup again
    OBVIOUS
  <2> HIDE DEF ss, heard, first, again
  <2>3. lang \in [first \cup again -> Lang]
    OBVIOUS
  <2> HIDE DEF lang
  <2>4. Sendable(ss, captions, reopened, first \cup again, first, lang, "captions", heard,
                 budget - 1)
    BY <1>1, <1>2, <2>2, <2>3 DEF Sendable, TypeOK, Label
  <2>5. /\ Typed' /\ Kept(ss, heard) /\ Sent(ss, first \cup again, first, lang)
        /\ ~CreateFails => Opened(ss, captions, first, "captions")
    BY <2>1, <2>4, SubscribeEffect
  <2> QED
    BY <1>2, <1>3, <1>4, <2>5 DEF ss, heard, first, again, lang
<1>5. CASE l = captionLanguage
  <2>1. /\ adapter' = heard /\ budget' = budget - 1
        /\ UNCHANGED <<session, captions, reopened, asked, captureArmed>>
    BY <1>5 DEF configure
  <2>2. Typed'
    <3> HIDE DEF heard
    <3> QED
      BY <1>2, <2>1 DEF TypeOK, Typed
  <2> QED
    BY <1>2, <1>3, <1>5, <2>1, <2>2
<1> QED
  BY <1>4, <1>5

-----------------------------------------------------------------------------
\* Types

LEMMA TypeInit == Init => TypeOK
<1> SUFFICES ASSUME Init PROVE TypeOK
  OBVIOUS
<1>1. NoSession \in Entry
  BY CaptionsAssumption DEF Entry, NoSession
<1>2. session \in [Media -> Entry]
  BY <1>1 DEF Init
<1>3. captions \in [Pc -> Counts]
  BY DEF Init, Counts
<1>4. connection \in [Pc -> Connection] /\ adapter \in Heard
  BY DEF Init, Connection, Heard
<1>5. asked \in [Media -> Lang \cup {"nothing", "unsure"}]
  BY DEF Init
<1>6. budget \in Nat /\ captionLanguage \in Lang /\ reopened \in Nat /\ captureArmed \in BOOLEAN
  BY CaptionsAssumption DEF Init
<1> QED
  BY <1>2, <1>3, <1>4, <1>5, <1>6 DEF TypeOK

LEMMA TypedIsTypeOK ==
  ASSUME TypeOK, Typed', connection' = connection, captionLanguage' \in Lang
  PROVE  TypeOK'
  BY DEF TypeOK, Typed

\* dispatchMedia and MediaAppears keep the types.
LEMMA DispatchType ==
  ASSUME TypeOK, NEW ss \in [Media -> Entry]
  PROVE  /\ dispatchMedia(ss) \in Heard
         /\ dispatchMedia(ss).listening = adapter.listening
         /\ dispatchMedia(ss).armed = adapter.armed
         /\ ~adapter.listening => dispatchMedia(ss).media = adapter.media
         /\ adapter.listening => (dispatchMedia(ss).media = "live" <=> \E m \in Media : ss[m].listed)
         /\ adapter.listening => (dispatchMedia(ss).media = "zero" <=> ~\E m \in Media : ss[m].listed)
<1> DEFINE some == \E m \in Media : ss[m].listed
<1>1. dispatchMedia(ss) = IF adapter.listening
        THEN [adapter EXCEPT !.media = IF some THEN "live" ELSE "zero"] ELSE adapter
  BY DEF dispatchMedia
<1>2. adapter \in [listening : BOOLEAN, armed : BOOLEAN, media : {"untold", "live", "zero"}]
  BY DEF TypeOK, Heard
<1> HIDE DEF some
<1>3. /\ dispatchMedia(ss) \in Heard
      /\ dispatchMedia(ss).listening = adapter.listening
      /\ dispatchMedia(ss).armed = adapter.armed
      /\ ~adapter.listening => dispatchMedia(ss).media = adapter.media
      /\ adapter.listening => (dispatchMedia(ss).media = "live" <=> some)
      /\ adapter.listening => (dispatchMedia(ss).media = "zero" <=> ~some)
  BY <1>1, <1>2 DEF Heard
<1> QED
  BY <1>3 DEF some

LEMMA AppearsType ==
  ASSUME TypeOK, NEW m \in Media, NEW p \in Pc, NEW origin \in {"local", "remote"},
         NEW state \in {"connecting", "open"}, MediaAppears(m, p, origin, state)
  PROVE  TypeOK'
<1> DEFINE seen == Adopts(p, origin)
           entry == [NoSession EXCEPT !.pc = p, !.state = state, !.seen = seen,
                                      !.listed = seen, !.lang = captionLanguage,
                                      !.due = seen /\ state = "open"]
           ss == [pruneDeadSessions(session) EXCEPT ![m] = entry]
<1>1. seen \in BOOLEAN
  BY DEF Adopts, TypeOK, Connection
<1>2. entry \in Entry
  <2> HIDE DEF seen
  <2> QED
    BY <1>1, CaptionsAssumption DEF Entry, NoSession, TypeOK
<1> HIDE DEF entry
<1>3. ss \in [Media -> Entry] /\ [session EXCEPT ![m] = entry] \in [Media -> Entry]
  BY <1>2, PruneType DEF TypeOK
<1>4. /\ connection' = [connection EXCEPT ![p].adopted = seen]
      /\ session' \in {ss, [session EXCEPT ![m] = entry]}
      /\ adapter' \in {dispatchMedia(ss), adapter}
      /\ UNCHANGED <<captions, reopened, captionLanguage, captureArmed, asked, budget>>
  BY DEF MediaAppears, adopt, entry
<1> HIDE DEF ss, seen
<1>5. session' \in [Media -> Entry]
  BY <1>3, <1>4
<1>6. adapter' \in Heard
  BY <1>3, <1>4, DispatchType DEF TypeOK
<1>7. connection' \in [Pc -> Connection]
  BY <1>1, <1>4 DEF TypeOK, Connection
<1> QED
  BY <1>4, <1>5, <1>6, <1>7 DEF TypeOK

LEMMA TypeStep == TypeOK /\ [Next]_vars => TypeOK'
<1> SUFFICES ASSUME TypeOK, [Next]_vars PROVE TypeOK'
  OBVIOUS
<1>1. ASSUME NEW p \in Pc, NewConnection(p) PROVE TypeOK'
  BY <1>1 DEF NewConnection, TypeOK, Connection
<1>2. ASSUME NEW p \in Pc, SetRemoteDescription(p) PROVE TypeOK'
  <2>1. connection[p] \in Connection
    BY DEF TypeOK
  <2>2. [connection[p] EXCEPT !.described = TRUE,
                              !.adopted = @ \/ "prototype" \in Hooks] \in Connection
    BY <2>1 DEF Connection
  <2>3. connection' = [connection EXCEPT ![p] =
          [connection[p] EXCEPT !.described = TRUE, !.adopted = @ \/ "prototype" \in Hooks]]
    BY <1>2 DEF SetRemoteDescription, TypeOK
  <2>4. connection' \in [Pc -> Connection]
    BY <2>2, <2>3 DEF TypeOK
  <2> QED
    BY <1>2, <2>4 DEF SetRemoteDescription, TypeOK
<1>3. ASSUME NEW p \in Pc, ConnectionEnds(p) PROVE TypeOK'
  <2>1. session' \in [Media -> Entry]
    <3>1. ASSUME NEW m \in Media PROVE [session[m] EXCEPT !.state = "closed", !.closing = TRUE] \in Entry
      <4>1. session[m] \in Entry
        BY DEF TypeOK
      <4> QED
        BY <4>1 DEF Entry
    <3>2. session \in [Media -> Entry]
      BY DEF TypeOK
    <3>3. session' = [m \in Media |->
            IF session[m].pc = p /\ session[m].state \in {"connecting", "open"}
            THEN [session[m] EXCEPT !.state = "closed", !.closing = TRUE] ELSE session[m]]
      BY <1>3 DEF ConnectionEnds
    <3> QED
      BY <3>1, <3>2, <3>3
  <2>2. connection' \in [Pc -> Connection] /\ captions' \in [Pc -> Counts]
    BY <1>3 DEF ConnectionEnds, TypeOK, Connection, Counts
  <2>3. budget' \in Nat
    <3>1. budget \in Nat /\ budget > 0 /\ budget' = budget - 1
      BY <1>3 DEF ConnectionEnds, TypeOK
    <3> QED
      BY <3>1
  <2> QED
    BY <1>3, <2>1, <2>2, <2>3 DEF ConnectionEnds, TypeOK
<1>4. ASSUME NEW p \in Pc, NEW label \in Label, CaptionsDrop(p, label) PROVE TypeOK'
  <2>1. captions[p] \in [Label -> [live : Nat, gone : Nat]]
    BY DEF TypeOK, Counts
  <2>2. captions[p][label].live - 1 \in Nat /\ captions[p][label].gone + 1 \in Nat
    BY <1>4, <2>1 DEF CaptionsDrop
  <2>3. [captions[p] EXCEPT ![label].live = captions[p][label].live - 1,
                            ![label].gone = captions[p][label].gone + 1]
          \in [Label -> [live : Nat, gone : Nat]]
    BY <2>1, <2>2
  <2>4. captions' \in [Pc -> Counts]
    BY <1>4, <2>2, <2>3 DEF CaptionsDrop, TypeOK, Counts
  <2>5. budget' \in Nat
    BY <1>4 DEF CaptionsDrop, TypeOK
  <2> QED
    BY <1>4, <2>4, <2>5 DEF CaptionsDrop, TypeOK
<1>5. ASSUME NEW p \in Pc, NEW origin \in {"local", "remote"}, MeetOpensCaptions(p, origin)
      PROVE  TypeOK'
  <2>1. captions[p] \in [Label -> [live : Nat, gone : Nat]] /\ Served \in Label
    BY CaptionsAssumption DEF TypeOK, Counts, Label
  <2>2. captions[p][Served].live + 1 \in Nat
    BY <2>1
  <2>3. [captions[p] EXCEPT ![Served].live = captions[p][Served].live + 1]
          \in [Label -> [live : Nat, gone : Nat]]
    BY <2>1, <2>2
  <2>4. captions' \in [Pc -> Counts]
    BY <1>5, <2>2, <2>3 DEF MeetOpensCaptions, TypeOK, Counts
  <2>5. budget' \in Nat /\ reopened' \in Nat
    BY <1>5 DEF MeetOpensCaptions, TypeOK
  <2>6. connection' \in [Pc -> Connection]
    BY <1>5 DEF MeetOpensCaptions, adopt, Adopts, TypeOK, Connection
  <2> QED
    BY <1>5, <2>4, <2>5, <2>6 DEF MeetOpensCaptions, TypeOK
<1>6. ASSUME NEW m \in Media, MediaOpens(m) PROVE TypeOK'
  <2>1. session[m] \in Entry
    BY DEF TypeOK
  <2>2. [session[m] EXCEPT !.state = "open", !.due = session[m].seen] \in Entry
    BY <2>1 DEF Entry
  <2>3. session' = [session EXCEPT ![m] = [session[m] EXCEPT !.state = "open", !.due = session[m].seen]]
    BY <1>6 DEF MediaOpens, TypeOK
  <2>4. session' \in [Media -> Entry]
    BY <2>2, <2>3 DEF TypeOK
  <2> QED
    BY <1>6, <2>4 DEF MediaOpens, TypeOK
<1>7. ASSUME NEW m \in Media, MediaCloses(m) PROVE TypeOK'
  <2>1. budget \in Nat /\ budget > 0 /\ budget' = budget - 1
    BY <1>7 DEF MediaCloses, TypeOK
  <2>2. session' \in [Media -> Entry]
    <3>1. session[m] \in Entry
      BY DEF TypeOK
    <3>2. [session[m] EXCEPT !.state = "closed", !.closing = TRUE] \in Entry
      BY <3>1 DEF Entry
    <3>3. session' = [session EXCEPT ![m] = [session[m] EXCEPT !.state = "closed", !.closing = TRUE]]
      BY <1>7 DEF MediaCloses, TypeOK
    <3> QED
      BY <3>2, <3>3 DEF TypeOK
  <2>3. budget' \in Nat
    BY <2>1
  <2> QED
    BY <1>7, <2>2, <2>3 DEF MediaCloses, TypeOK
<1>8. ASSUME NEW m \in Media, MediaCloseEvent(m) PROVE TypeOK'
  <2> DEFINE ss == [session EXCEPT ![m].closing = FALSE, ![m].listed = FALSE]
  <2>1. ss \in [Media -> Entry]
    <3>1. session[m] \in Entry
      BY DEF TypeOK
    <3>2. [session[m] EXCEPT !.closing = FALSE, !.listed = FALSE] \in Entry
      BY <3>1 DEF Entry
    <3>3. ss = [session EXCEPT ![m] = [session[m] EXCEPT !.closing = FALSE, !.listed = FALSE]]
      BY DEF TypeOK
    <3> QED
      BY <3>2, <3>3 DEF TypeOK
  <2>2. session' = ss /\ adapter' \in {dispatchMedia(ss), adapter}
    BY <1>8 DEF MediaCloseEvent
  <2> HIDE DEF ss
  <2>3. adapter' \in Heard
    BY <2>1, <2>2, DispatchType DEF TypeOK
  <2> QED
    BY <1>8, <2>1, <2>2, <2>3 DEF MediaCloseEvent, TypeOK
<1>9. ASSUME NEW m \in Media, NEW p \in Pc, NEW origin \in {"local", "remote"},
             NEW state \in {"connecting", "open"}, MediaAppears(m, p, origin, state)
      PROVE  TypeOK'
  BY <1>9, AppearsType
<1>10. ASSUME NEW m \in Media, trySubscribe(m) PROVE TypeOK'
  BY <1>10, TrySubscribeEffect, TypedIsTypeOK DEF TypeOK
<1>11. ASSUME NEW p \in Pc, NEW label \in Label, watchCaptionsChannel(p, label) PROVE TypeOK'
  BY <1>11, WatchEffect, TypedIsTypeOK DEF TypeOK
<1>12. ASSUME resubscribeForCaptions PROVE TypeOK'
  BY <1>12, ReopenedEffect, TypedIsTypeOK DEF TypeOK
<1>13. ASSUME NEW l \in Lang, Config(l) PROVE TypeOK'
  <2>1. adapter \in Heard /\ budget > 0 /\ configure(l, adapter) /\ connection' = connection
    BY <1>13 DEF Config, TypeOK
  <2> QED
    BY <2>1, ConfigureEffect, TypedIsTypeOK
<1>14. ASSUME NEW l \in Lang, MeetingStarts(l) PROVE TypeOK'
  <2> DEFINE ad == [listening |-> TRUE, armed |-> FALSE, media |-> "untold"]
  <2>1. ad \in Heard /\ budget > 0 /\ configure(l, ad) /\ connection' = connection
    BY <1>14 DEF MeetingStarts, Heard
  <2> HIDE DEF ad
  <2> QED
    BY <2>1, ConfigureEffect, TypedIsTypeOK
<1>15. ASSUME MeetingEnds PROVE TypeOK'
  BY <1>15 DEF MeetingEnds, TypeOK, Heard
<1>16. ASSUME UNCHANGED vars PROVE TypeOK'
  BY <1>16 DEF vars, TypeOK
<1> QED
  BY <1>1, <1>2, <1>3, <1>4, <1>5, <1>6, <1>7, <1>8, <1>9, <1>10, <1>11, <1>12, <1>13,
     <1>14, <1>15, <1>16 DEF Next, Browser, Timers, Adapter

\* The state of the capture script keeps its types.
THEOREM TypeCorrect == Spec => []TypeOK
  BY TypeInit, TypeStep, PTL DEF Spec

-----------------------------------------------------------------------------
\* The entries after a step that does not send

LEMMA PruneFields ==
  ASSUME TypeOK, NEW m \in Media
  PROVE  LET e == pruneDeadSessions(session)[m] IN
         /\ e.pc = session[m].pc /\ e.state = session[m].state
         /\ e.closing = session[m].closing /\ e.seen = session[m].seen
         /\ e.subscribed = session[m].subscribed /\ e.lang = session[m].lang
         /\ (e.listed <=> session[m].listed /\ session[m].state # "closed")
<1>1. session[m] \in Entry
  BY DEF TypeOK
<1>2. pruneDeadSessions(session)[m]
        = [session[m] EXCEPT !.listed = session[m].listed /\ session[m].state # "closed"]
  BY DEF pruneDeadSessions
<1> QED
  BY <1>1, <1>2 DEF Entry

LEMMA DueFields ==
  ASSUME TypeOK, NEW m \in Media, NEW k \in Media
  PROVE  LET e == [session EXCEPT ![m].due = FALSE][k] IN
         /\ e.pc = session[k].pc /\ e.state = session[k].state
         /\ e.closing = session[k].closing /\ e.seen = session[k].seen
         /\ e.subscribed = session[k].subscribed /\ e.lang = session[k].lang
         /\ e.listed = session[k].listed
  BY DEF TypeOK, Entry

LEMMA CloseEventFields ==
  ASSUME TypeOK, NEW m \in Media, MediaCloseEvent(m)
  PROVE  /\ session' \in [Media -> Entry]
         /\ \A k \in Media \ {m} : session'[k] = session[k]
         /\ session'[m].state = session[m].state /\ session'[m].seen = session[m].seen
         /\ ~session'[m].closing /\ ~session'[m].listed
         /\ adapter' = IF session[m].seen THEN dispatchMedia(session') ELSE adapter
<1>1. session' \in [Media -> Entry]
  BY TypeStep DEF TypeOK, Next, Browser
<1>2. session' = [session EXCEPT ![m].closing = FALSE, ![m].listed = FALSE]
  BY DEF MediaCloseEvent
<1>3. session \in [Media -> Entry] /\ session[m] \in Entry
  BY DEF TypeOK
<1> QED
  BY <1>1, <1>2, <1>3 DEF MediaCloseEvent, Entry

LEMMA AppearsFields ==
  ASSUME TypeOK, NEW m \in Media, NEW p \in Pc, NEW origin \in {"local", "remote"},
         NEW state \in {"connecting", "open"}, MediaAppears(m, p, origin, state)
  PROVE  /\ session[m].state = "none"
         /\ session'[m].pc = p /\ session'[m].state = state /\ ~session'[m].closing
         /\ session'[m].seen <=> Adopts(p, origin)
         /\ session'[m].listed <=> Adopts(p, origin)
         /\ ~session'[m].subscribed
         /\ \A k \in Media \ {m} :
              /\ session'[k].pc = session[k].pc /\ session'[k].state = session[k].state
              /\ session'[k].closing = session[k].closing /\ session'[k].seen = session[k].seen
              /\ session'[k].subscribed = session[k].subscribed
              /\ session'[k].lang = session[k].lang
              /\ \/ session'[k].listed = session[k].listed
                 \/ /\ (session'[k].listed <=> session[k].listed /\ session[k].state # "closed")
                    /\ Adopts(p, origin)
         /\ \/ Adopts(p, origin) /\ adapter' = dispatchMedia(session')
            \/ ~Adopts(p, origin) /\ adapter' = adapter
<1> DEFINE seen == Adopts(p, origin)
           entry == [NoSession EXCEPT !.pc = p, !.state = state, !.seen = seen,
                                      !.listed = seen, !.lang = captionLanguage,
                                      !.due = seen /\ state = "open"]
           ss == [pruneDeadSessions(session) EXCEPT ![m] = entry]
<1>1. seen \in BOOLEAN
  BY DEF Adopts, TypeOK, Connection
<1>2. /\ entry.pc = p /\ entry.state = state /\ ~entry.closing /\ entry.seen = seen
      /\ entry.listed = seen /\ ~entry.subscribed
  <2> HIDE DEF seen
  <2> QED
    BY <1>1 DEF NoSession
<1> HIDE DEF entry
<1>3. /\ session[m].state = "none"
      /\ \/ seen /\ session' = ss /\ adapter' = dispatchMedia(ss)
         \/ ~seen /\ session' = [session EXCEPT ![m] = entry] /\ adapter' = adapter
  BY DEF MediaAppears, entry
<1>4. /\ ss[m] = entry /\ [session EXCEPT ![m] = entry][m] = entry
      /\ \A k \in Media \ {m} : /\ ss[k] = pruneDeadSessions(session)[k]
                                /\ [session EXCEPT ![m] = entry][k] = session[k]
  BY PruneType DEF TypeOK
<1>5. session'[m] = entry
  BY <1>3, <1>4
<1>6. ASSUME NEW k \in Media \ {m}
      PROVE  \/ session'[k] = session[k]
             \/ seen /\ session'[k] = pruneDeadSessions(session)[k]
  BY <1>3, <1>4
<1> HIDE DEF seen, ss
<1>7. (seen /\ adapter' = dispatchMedia(session')) \/ (~seen /\ adapter' = adapter)
  BY <1>3
<1> QED
  BY <1>2, <1>3, <1>5, <1>6, <1>7, PruneFields DEF seen

-----------------------------------------------------------------------------
(***************************************************************************)
(* ServedLanguage. A subscribed channel was sent a subscribe for the       *)
(* language its entry remembers, and that one is in force: resubscribeAll  *)
(* sends it on every open channel whose entry remembers another.           *)
(***************************************************************************)

ServedInv ==
  \A m \in Media :
    /\ session[m].listed /\ session[m].state = "open" /\ session[m].subscribed
         => session[m].lang = captionLanguage /\ asked[m] \in {captionLanguage, "unsure"}
    /\ session[m].state \in {"none", "connecting"} => ~session[m].subscribed

LEMMA ServedStep == TypeOK /\ ServedInv /\ [Next]_vars => ServedInv'
<1> SUFFICES ASSUME TypeOK, ServedInv, [Next]_vars PROVE ServedInv'
  OBVIOUS
<1>1. ASSUME UNCHANGED <<session, captionLanguage, asked>> PROVE ServedInv'
  BY <1>1 DEF ServedInv
<1>2. ASSUME NEW p \in Pc, ConnectionEnds(p) PROVE ServedInv'
  <2>1. ASSUME NEW m \in Media
        PROVE  \/ session'[m] = session[m]
               \/ session'[m].state = "closed"
    <3>1. session[m] \in Entry
      BY DEF TypeOK
    <3>2. session'[m] = session[m] \/ session'[m] = [session[m] EXCEPT !.state = "closed", !.closing = TRUE]
      BY <1>2 DEF ConnectionEnds
    <3> QED
      BY <3>1, <3>2 DEF Entry
  <2> QED
    <3>1. UNCHANGED <<captionLanguage, asked>>
      BY <1>2 DEF ConnectionEnds
    <3> QED
      BY <2>1, <3>1 DEF ServedInv
<1>3. ASSUME NEW m \in Media, MediaOpens(m) PROVE ServedInv'
  BY <1>3 DEF MediaOpens, ServedInv, TypeOK, Entry
<1>4. ASSUME NEW m \in Media, MediaCloses(m) PROVE ServedInv'
  BY <1>4 DEF MediaCloses, ServedInv, TypeOK, Entry
<1>5. ASSUME NEW m \in Media, MediaCloseEvent(m) PROVE ServedInv'
  BY <1>5 DEF MediaCloseEvent, ServedInv, TypeOK, Entry
<1>6. ASSUME NEW m \in Media, NEW p \in Pc, NEW origin \in {"local", "remote"},
             NEW state \in {"connecting", "open"}, MediaAppears(m, p, origin, state)
      PROVE  ServedInv'
  <2>1. captionLanguage' = captionLanguage /\ asked' = asked
    BY <1>6 DEF MediaAppears
  <2> QED
    <3>1. ASSUME NEW k \in Media \ {m}
          PROVE  /\ session'[k].state = session[k].state /\ session'[k].lang = session[k].lang
                 /\ session'[k].subscribed = session[k].subscribed
                 /\ session'[k].listed => session[k].listed
      BY <1>6, AppearsFields
    <3>2. ~session'[m].subscribed
      BY <1>6, AppearsFields
    <3> QED
      BY <2>1, <3>1, <3>2 DEF ServedInv
<1>7. ASSUME NEW m \in Media, trySubscribe(m) PROVE ServedInv'
  <2> DEFINE ss == [session EXCEPT ![m].due = FALSE]
             lang == [k \in {m} |-> captionLanguage]
  <2>1. /\ Kept(ss, adapter) /\ captionLanguage' = captionLanguage
        /\ Sent(ss, {m}, {m}, lang) \/ (session' = ss /\ asked' = asked)
    BY <1>7, TrySubscribeEffect
  <2>2. lang[m] = captionLanguage
    OBVIOUS
  <2>3. \A k \in Media : /\ ss[k].listed = session[k].listed /\ ss[k].state = session[k].state
                         /\ ss[k].subscribed = session[k].subscribed
                         /\ ss[k].lang = session[k].lang
    BY DueFields
  <2>4. ss[m].state = "open" \/ (session' = ss /\ asked' = asked)
    BY <1>7, TrySubscribeEffect
  <2> HIDE DEF ss, lang
  <2> QED
    BY <2>1, <2>2, <2>3, <2>4 DEF ServedInv, Kept, Sent
<1>8. ASSUME NEW p \in Pc, NEW label \in Label, watchCaptionsChannel(p, label) PROVE ServedInv'
  <2>1. /\ Kept(session, adapter) /\ captionLanguage' = captionLanguage
        /\ \/ \E m \in openSession(p) : Sent(session, {m}, {m}, [k \in {m} |-> captionLanguage])
           \/ session' = session /\ asked' = asked
    BY <1>8, WatchEffect
  <2>2. CASE session' = session /\ asked' = asked
    BY <2>1, <2>2 DEF ServedInv
  <2>3. ASSUME NEW m \in openSession(p),
               Sent(session, {m}, {m}, [k \in {m} |-> captionLanguage])
        PROVE  ServedInv'
    BY <2>1, <2>3 DEF ServedInv, Kept, Sent, openSession
  <2> QED
    BY <2>1, <2>2, <2>3
<1>9. ASSUME resubscribeForCaptions PROVE ServedInv'
  <2> DEFINE ss == pruneDeadSessions(session)
             again == {m \in Media : ss[m].listed /\ ss[m].subscribed /\ ss[m].state = "open"}
             lang == [m \in again |-> ss[m].lang]
  <2>1. /\ Kept(ss, adapter) /\ captionLanguage' = captionLanguage /\ Sent(ss, again, {}, lang)
    BY <1>9, ReopenedEffect
  <2>2. \A m \in Media : /\ ss[m].state = session[m].state /\ ss[m].lang = session[m].lang
                         /\ ss[m].subscribed = session[m].subscribed
                         /\ (ss[m].listed <=> session[m].listed /\ session[m].state # "closed")
    BY PruneFields
  <2>3. \A m \in again : lang[m] = ss[m].lang /\ ss[m].listed /\ ss[m].subscribed /\ ss[m].state = "open"
    OBVIOUS
  <2> HIDE DEF ss, again, lang
  <2> QED
    <3>1. ASSUME NEW m \in Media
          PROVE  /\ session'[m].state = session[m].state
                 /\ session'[m].subscribed = session[m].subscribed
                 /\ session'[m].listed => session[m].listed
                 /\ session'[m].lang = session[m].lang
                 /\ asked'[m] \in {asked[m], session[m].lang, "unsure"}
      BY <2>1, <2>2, <2>3 DEF Kept, Sent
    <3> QED
      BY <2>1, <3>1 DEF ServedInv
<1>10. ASSUME NEW l \in Lang, NEW ad \in Heard, budget > 0, configure(l, ad) PROVE ServedInv'
  <2> DEFINE ss == pruneDeadSessions(session)
             heard == IF captureArmed THEN heardArmed(ad) ELSE ad
             open == {m \in Media : ss[m].listed /\ ss[m].state = "open"}
             first == {m \in open : ~ss[m].subscribed}
             again == {m \in open : ss[m].subscribed /\ ss[m].lang # l}
             lang == [m \in first \cup again |-> l]
  <2>1. /\ captionLanguage' = l
        /\ \/ /\ l # captionLanguage /\ Kept(ss, heard)
              /\ Sent(ss, first \cup again, first, lang)
           \/ l = captionLanguage /\ UNCHANGED <<session, asked>>
    BY <1>10, ConfigureEffect
  <2>2. \A m \in Media : /\ ss[m].state = session[m].state /\ ss[m].lang = session[m].lang
                         /\ ss[m].subscribed = session[m].subscribed
                         /\ (ss[m].listed <=> session[m].listed /\ session[m].state # "closed")
    BY PruneFields
  <2>3. \A m \in first \cup again : lang[m] = l
    OBVIOUS
  <2>4. \A m \in Media :
           m \in first \cup again
             <=> ss[m].listed /\ ss[m].state = "open" /\ (~ss[m].subscribed \/ ss[m].lang # l)
    OBVIOUS
  <2>5. \A m \in first : ss[m].state = "open"
    OBVIOUS
  <2> HIDE DEF ss, heard, first, again, lang
  <2> QED
    <3>1. CASE l = captionLanguage /\ UNCHANGED <<session, asked>>
      BY <2>1, <3>1 DEF ServedInv
    <3>2. CASE l # captionLanguage /\ Kept(ss, heard) /\ Sent(ss, first \cup again, first, lang)
      <4>1. ASSUME NEW m \in Media, m \in first \cup again
            PROVE  /\ session'[m].lang = l /\ asked'[m] \in {l, "unsure"}
                   /\ session'[m].state = "open"
        BY <2>3, <2>4, <3>2, <4>1 DEF Kept, Sent
      <4>2. ASSUME NEW m \in Media, m \notin first \cup again
            PROVE  /\ ss[m].listed /\ ss[m].state = "open" => ss[m].subscribed /\ ss[m].lang = l
                   /\ session'[m] = ss[m]
        BY <2>4, <3>2, <4>2 DEF Kept, Sent
      <4>3. ASSUME NEW m \in Media, m \notin first \cup again
            PROVE  /\ ~(session'[m].listed /\ session'[m].state = "open")
                   /\ session'[m].state \in {"none", "connecting"} => ~session'[m].subscribed
        BY <2>2, <3>2, <4>2, <4>3 DEF ServedInv
      <4> QED
        BY <2>1, <4>1, <4>3 DEF ServedInv
    <3> QED
      BY <2>1, <3>1, <3>2
<1>11. ASSUME NEW l \in Lang, Config(l) PROVE ServedInv'
  BY <1>10, <1>11 DEF Config, TypeOK
<1>12. ASSUME NEW l \in Lang, MeetingStarts(l) PROVE ServedInv'
  <2>1. [listening |-> TRUE, armed |-> FALSE, media |-> "untold"] \in Heard
    BY DEF Heard
  <2> QED
    BY <1>10, <1>12, <2>1 DEF MeetingStarts
<1> QED
  BY <1>1, <1>2, <1>3, <1>4, <1>5, <1>6, <1>7, <1>8, <1>9, <1>11, <1>12
  DEF Next, Browser, Timers, Adapter, vars, NewConnection, SetRemoteDescription,
      CaptionsDrop, MeetOpensCaptions, MeetingEnds

\* On every subscribed channel that is open, Meet was last asked for the language in
\* force, or the last send on it threw: whatever timers, replaced captions channels and
\* language changes came between.
THEOREM LanguageIsServed == Spec => []ServedLanguage
<1>1. Init => ServedInv
  BY DEF Init, ServedInv, NoSession
<1>2. ServedInv => ServedLanguage
  BY DEF ServedInv, ServedLanguage
<1> QED
  BY <1>1, <1>2, ServedStep, TypeInit, TypeStep, PTL DEF Spec

-----------------------------------------------------------------------------
\* ArmedReachesAdapter is inductive as it stands.

LEMMA ArmedStep == TypeOK /\ ArmedReachesAdapter /\ [Next]_vars => ArmedReachesAdapter'
<1> SUFFICES ASSUME TypeOK, ArmedReachesAdapter, [Next]_vars PROVE ArmedReachesAdapter'
  OBVIOUS
<1>1. ASSUME UNCHANGED <<adapter, captureArmed>> PROVE ArmedReachesAdapter'
  BY <1>1 DEF ArmedReachesAdapter
<1>2. ASSUME NEW ss, Kept(ss, adapter) PROVE ArmedReachesAdapter'
  BY <1>2 DEF Kept, ArmedReachesAdapter
<1>3. ASSUME session' \in [Media -> Entry], captureArmed' = captureArmed,
             adapter' \in {adapter, dispatchMedia(session')}
      PROVE  ArmedReachesAdapter'
  <2>1. adapter'.listening = adapter.listening /\ adapter'.armed = adapter.armed
    BY <1>3, DispatchType
  <2> QED
    BY <1>3, <2>1 DEF ArmedReachesAdapter
<1>4. ASSUME NEW m \in Media, MediaCloseEvent(m) PROVE ArmedReachesAdapter'
  <2>1. session' \in [Media -> Entry] /\ adapter' \in {adapter, dispatchMedia(session')}
    BY <1>4, CloseEventFields
  <2>2. captureArmed' = captureArmed
    BY <1>4 DEF MediaCloseEvent
  <2> QED
    BY <1>3, <2>1, <2>2
<1>5. ASSUME NEW m \in Media, NEW p \in Pc, NEW origin \in {"local", "remote"},
             NEW state \in {"connecting", "open"}, MediaAppears(m, p, origin, state)
      PROVE  ArmedReachesAdapter'
  <2>1. session' \in [Media -> Entry]
    BY <1>5, AppearsType DEF TypeOK
  <2>2. captureArmed' = captureArmed /\ adapter' \in {adapter, dispatchMedia(session')}
    BY <1>5, AppearsFields DEF MediaAppears
  <2> QED
    BY <1>3, <2>1, <2>2
<1>6. ASSUME NEW m \in Media, trySubscribe(m) PROVE ArmedReachesAdapter'
  BY <1>2, <1>6, TrySubscribeEffect
<1>7. ASSUME NEW p \in Pc, NEW label \in Label, watchCaptionsChannel(p, label)
      PROVE  ArmedReachesAdapter'
  BY <1>2, <1>7, WatchEffect
<1>8. ASSUME resubscribeForCaptions PROVE ArmedReachesAdapter'
  BY <1>2, <1>8, ReopenedEffect
<1>9. ASSUME NEW l \in Lang, NEW ad \in Heard, budget > 0, configure(l, ad)
      PROVE  ArmedReachesAdapter'
  <2> DEFINE ss == pruneDeadSessions(session)
             heard == IF captureArmed THEN heardArmed(ad) ELSE ad
  <2>1. /\ heard.listening = ad.listening /\ (captureArmed /\ ad.listening => heard.armed)
        /\ Kept(ss, heard) \/ (adapter' = heard /\ captureArmed' = captureArmed)
    BY <1>9, ConfigureEffect
  <2> HIDE DEF ss, heard
  <2> QED
    BY <2>1 DEF Kept, ArmedReachesAdapter
<1>10. ASSUME NEW l \in Lang, Config(l) PROVE ArmedReachesAdapter'
  BY <1>9, <1>10 DEF Config, TypeOK
<1>11. ASSUME NEW l \in Lang, MeetingStarts(l) PROVE ArmedReachesAdapter'
  <2>1. [listening |-> TRUE, armed |-> FALSE, media |-> "untold"] \in Heard
    BY DEF Heard
  <2> QED
    BY <1>9, <1>11, <2>1 DEF MeetingStarts
<1>12. ASSUME MeetingEnds PROVE ArmedReachesAdapter'
  BY <1>12 DEF MeetingEnds, ArmedReachesAdapter
<1> QED
  BY <1>1, <1>4, <1>5, <1>6, <1>7, <1>8, <1>10, <1>11, <1>12
  DEF Next, Browser, Timers, Adapter, vars, NewConnection, SetRemoteDescription,
      ConnectionEnds, CaptionsDrop, MeetOpensCaptions, MediaOpens, MediaCloses

\* A meeting that listens knows of an armed capture, also of one armed before it listened.
THEOREM ArmedIsHeard == Spec => []ArmedReachesAdapter
<1>1. Init => ArmedReachesAdapter
  BY DEF Init, ArmedReachesAdapter
<1> QED
  BY <1>1, ArmedStep, TypeInit, TypeStep, PTL DEF Spec

-----------------------------------------------------------------------------
(***************************************************************************)
(* MediaCountIsTrue. The adapter is told of the list of sessions, so the   *)
(* list must hold every live channel the script has seen (SeenListed), and *)
(* the script must have seen every live channel (AllSeen), which it has    *)
(* because a connection is adopted before a channel of it can be (Adopted).*)
(***************************************************************************)

Adopted ==
  \A p \in Pc :
    /\ "constructor" \in Hooks /\ connection[p].state # "none" => connection[p].adopted
    /\ "prototype" \in Hooks /\ connection[p].described => connection[p].adopted

Live(m) == session[m].state \in {"connecting", "open"}
SeenListed == \A m \in Media : /\ Live(m) /\ session[m].seen => session[m].listed
                               /\ session[m].listed => session[m].seen
                               /\ session[m].listed => Live(m) \/ session[m].closing
                               /\ session[m].closing => session[m].state = "closed"
AllSeen == Hooks # {} => \A m \in Media : Live(m) => session[m].seen
ToldListening == adapter.media # "untold" => adapter.listening

MediaInv == Adopted /\ SeenListed /\ AllSeen /\ ToldListening /\ MediaCountIsTrue

\* Steps that neither open nor close a channel: entries that are closed may be pruned.
LEMMA MediaKept ==
  ASSUME TypeOK, MediaInv, connection' = connection,
         \A m \in Media : /\ session'[m].state = session[m].state
                          /\ session'[m].closing = session[m].closing
                          /\ session'[m].seen = session[m].seen
                          /\ \/ session'[m].listed = session[m].listed
                             \/ /\ session'[m].listed => session[m].listed
                                /\ session[m].listed /\ session[m].state # "closed"
                                     => session'[m].listed,
         \/ adapter'.media = adapter.media /\ adapter'.listening = adapter.listening
         \/ adapter'.media = "untold"
  PROVE  MediaInv'
<1>1. Adopted' /\ AllSeen' /\ ToldListening'
  BY DEF MediaInv, Adopted, AllSeen, Live, ToldListening
<1>2. SeenListed'
  BY DEF MediaInv, SeenListed, Live
<1>3. MediaCountIsTrue'
  <2>1. ASSUME adapter'.media = "live" PROVE \E m \in Media : session'[m].listed \/ (session'[m].seen /\ session'[m].closing)
    <3>1. PICK m \in Media : session[m].listed \/ (session[m].seen /\ session[m].closing)
      BY <2>1 DEF MediaInv, MediaCountIsTrue
    <3> QED
      BY <3>1 DEF MediaInv, SeenListed, Live
  <2>2. ASSUME adapter'.media = "zero", Hooks # {}
        PROVE  \A m \in Media : session'[m].state \notin {"connecting", "open"}
    BY <2>2 DEF MediaInv, MediaCountIsTrue
  <2> QED
    BY <2>1, <2>2 DEF MediaCountIsTrue
<1> QED
  BY <1>1, <1>2, <1>3 DEF MediaInv

\* Once told, an adapter has been told the truth.
LEMMA MediaTold ==
  ASSUME TypeOK, session' \in [Media -> Entry], Adopted', SeenListed', AllSeen', ToldListening,
         adapter' = dispatchMedia(session')
  PROVE  MediaInv'
<1>1. /\ adapter'.listening = adapter.listening
      /\ ~adapter.listening => adapter'.media = adapter.media
      /\ adapter.listening => (adapter'.media = "live" <=> \E m \in Media : session'[m].listed)
      /\ adapter.listening => (adapter'.media = "zero" <=> ~\E m \in Media : session'[m].listed)
  BY DispatchType
<1>2. ToldListening'
  BY <1>1 DEF ToldListening
<1>3. MediaCountIsTrue'
  BY <1>1, <1>2 DEF MediaCountIsTrue, SeenListed, AllSeen, ToldListening, Live
<1> QED
  BY <1>2, <1>3 DEF MediaInv

\* Steps that leave the channels and the adapter alone.
LEMMA MediaAlone ==
  ASSUME MediaInv, Adopted', UNCHANGED <<session, adapter>>
  PROVE  MediaInv'
  BY DEF MediaInv, SeenListed, AllSeen, Live, ToldListening, MediaCountIsTrue

LEMMA MediaStep == TypeOK /\ MediaInv /\ [Next]_vars => MediaInv'
<1> SUFFICES ASSUME TypeOK, MediaInv, [Next]_vars PROVE MediaInv'
  OBVIOUS
<1>1. ASSUME NEW p \in Pc, NewConnection(p) PROVE MediaInv'
  <2>1. Adopted'
    BY <1>1 DEF NewConnection, TypeOK, Connection, MediaInv, Adopted
  <2> QED
    BY <1>1, <2>1, MediaAlone DEF NewConnection
<1>2. ASSUME NEW p \in Pc, SetRemoteDescription(p) PROVE MediaInv'
  <2>1. Adopted'
    BY <1>2 DEF SetRemoteDescription, TypeOK, Connection, MediaInv, Adopted
  <2> QED
    BY <1>2, <2>1, MediaAlone DEF SetRemoteDescription
<1>3. ASSUME NEW p \in Pc, NEW origin \in {"local", "remote"}, MeetOpensCaptions(p, origin)
      PROVE  MediaInv'
  <2>1. Adopted'
    BY <1>3 DEF MeetOpensCaptions, adopt, Adopts, TypeOK, Connection, MediaInv, Adopted
  <2> QED
    BY <1>3, <2>1, MediaAlone DEF MeetOpensCaptions
<1>4. ASSUME UNCHANGED <<connection, session, adapter>> PROVE MediaInv'
  BY <1>4, MediaAlone DEF MediaInv, Adopted
<1>5. ASSUME NEW p \in Pc, ConnectionEnds(p) PROVE MediaInv'
  <2>1. Adopted'
    BY <1>5 DEF ConnectionEnds, TypeOK, Connection, MediaInv, Adopted, Arrives
  <2>2. ASSUME NEW m \in Media
        PROVE  /\ session'[m].seen = session[m].seen /\ session'[m].listed = session[m].listed
               /\ \/ session'[m] = session[m]
                  \/ /\ Live(m) /\ session'[m].closing /\ session'[m].state = "closed"
    <3>1. session[m] \in Entry
      BY DEF TypeOK
    <3>2. session'[m] = IF session[m].pc = p /\ session[m].state \in {"connecting", "open"}
                        THEN [session[m] EXCEPT !.state = "closed", !.closing = TRUE]
                        ELSE session[m]
      BY <1>5 DEF ConnectionEnds
    <3> QED
      BY <3>1, <3>2 DEF Entry, Live
  <2>3. adapter' = adapter
    BY <1>5 DEF ConnectionEnds
  <2>4. SeenListed' /\ AllSeen' /\ ToldListening'
    BY <2>2, <2>3 DEF MediaInv, SeenListed, AllSeen, ToldListening, Live
  <2>5. MediaCountIsTrue'
    BY <2>2, <2>3 DEF MediaInv, SeenListed, MediaCountIsTrue, Live
  <2> QED
    BY <2>1, <2>4, <2>5 DEF MediaInv
<1>6. ASSUME NEW m \in Media, MediaOpens(m) PROVE MediaInv'
  <2>1. /\ \A k \in Media \ {m} : session'[k] = session[k]
        /\ session[m].state = "connecting" /\ session'[m].state = "open"
        /\ session'[m].seen = session[m].seen /\ session'[m].listed = session[m].listed
        /\ session'[m].closing = session[m].closing
    BY <1>6 DEF MediaOpens, TypeOK, Entry
  <2>2. adapter' = adapter /\ connection' = connection
    BY <1>6 DEF MediaOpens
  <2> QED
    BY <2>1, <2>2 DEF MediaInv, Adopted, SeenListed, AllSeen, ToldListening, Live, MediaCountIsTrue
<1>7. ASSUME NEW m \in Media, MediaCloses(m) PROVE MediaInv'
  <2>1. /\ \A k \in Media \ {m} : session'[k] = session[k]
        /\ Live(m) /\ session'[m].state = "closed" /\ session'[m].closing
        /\ session'[m].seen = session[m].seen /\ session'[m].listed = session[m].listed
    BY <1>7 DEF MediaCloses, TypeOK, Entry, Live
  <2>2. adapter' = adapter /\ connection' = connection
    BY <1>7 DEF MediaCloses
  <2> QED
    BY <2>1, <2>2 DEF MediaInv, Adopted, SeenListed, AllSeen, ToldListening, Live, MediaCountIsTrue
<1>8. ASSUME NEW m \in Media, MediaCloseEvent(m) PROVE MediaInv'
  <2>1. /\ session' \in [Media -> Entry]
        /\ \A k \in Media \ {m} : session'[k] = session[k]
        /\ session'[m].state = session[m].state /\ session'[m].seen = session[m].seen
        /\ ~session'[m].closing /\ ~session'[m].listed
        /\ adapter' = IF session[m].seen THEN dispatchMedia(session') ELSE adapter
    BY <1>8, CloseEventFields
  <2>2. session[m].closing /\ session[m].state = "closed" /\ connection' = connection
    BY <1>8 DEF MediaCloseEvent, MediaInv, SeenListed
  <2>3. Adopted' /\ SeenListed' /\ AllSeen'
    BY <2>1, <2>2 DEF MediaInv, Adopted, SeenListed, AllSeen, Live
  <2>4. CASE session[m].seen
    BY <2>1, <2>3, <2>4, MediaTold DEF MediaInv
  <2>5. CASE ~session[m].seen
    <3>1. ~session[m].listed /\ adapter' = adapter
      BY <2>1, <2>5 DEF MediaInv, SeenListed
    <3> QED
      BY <2>1, <2>2, <2>3, <2>5, <3>1 DEF MediaInv, ToldListening, MediaCountIsTrue
  <2> QED
    BY <2>4, <2>5
<1>9. ASSUME NEW m \in Media, NEW p \in Pc, NEW origin \in {"local", "remote"},
             NEW state \in {"connecting", "open"}, MediaAppears(m, p, origin, state)
      PROVE  MediaInv'
  <2>1. session' \in [Media -> Entry]
    BY <1>9, AppearsType DEF TypeOK
  <2>2. Adopted'
    BY <1>9 DEF MediaAppears, adopt, Adopts, TypeOK, Connection, MediaInv, Adopted
  <2>3. Hooks # {} => Adopts(p, origin)
    <3>1. connection[p].state = "up" /\ (origin = "remote" => connection[p].described)
      BY <1>9 DEF MediaAppears, Arrives
    <3>2. Hooks # {} => "constructor" \in Hooks \/ "prototype" \in Hooks
      BY CaptionsAssumption
    <3> QED
      BY <3>1, <3>2 DEF Adopts, MediaInv, Adopted
  <2>4. SeenListed'
    <3>1. ASSUME NEW k \in Media \ {m}
          PROVE  /\ session'[k].state = session[k].state /\ session'[k].seen = session[k].seen
                 /\ session'[k].closing = session[k].closing
                 /\ session'[k].listed => session[k].listed
                 /\ Live(k) /\ session[k].listed => session'[k].listed
      BY <1>9, AppearsFields DEF Live
    <3>2. /\ session'[m].state \in {"connecting", "open"} /\ ~session'[m].closing
          /\ session'[m].seen <=> session'[m].listed
      BY <1>9, AppearsFields
    <3> QED
      BY <3>1, <3>2 DEF MediaInv, SeenListed, Live
  <2>5. AllSeen'
    <3>1. \A k \in Media \ {m} : session'[k].state = session[k].state /\ session'[k].seen = session[k].seen
      BY <1>9, AppearsFields
    <3>2. session'[m].seen <=> Adopts(p, origin)
      BY <1>9, AppearsFields
    <3> QED
      BY <2>3, <3>1, <3>2 DEF MediaInv, AllSeen, Live
  <2>6. CASE Adopts(p, origin)
    <3>1. adapter' = dispatchMedia(session')
      BY <1>9, <2>6, AppearsFields
    <3> QED
      BY <2>1, <2>2, <2>4, <2>5, <3>1, MediaTold DEF MediaInv
  <2>7. CASE ~Adopts(p, origin)
    <3>1. adapter' = adapter /\ Hooks = {}
      BY <1>9, <2>3, <2>7, AppearsFields
    <3>2. \A k \in Media : session[k].listed => session[k].state # "none"
      BY DEF MediaInv, SeenListed, Live
    <3>3. ASSUME NEW k \in Media \ {m}
          PROVE  /\ session'[k].seen = session[k].seen /\ session'[k].closing = session[k].closing
                 /\ session'[k].listed = session[k].listed
      BY <1>9, <2>7, AppearsFields
    <3>4. session[m].state = "none" /\ ~session[m].closing
      BY <1>9, AppearsFields DEF MediaInv, SeenListed
    <3>5. MediaCountIsTrue' /\ ToldListening'
      BY <3>1, <3>2, <3>3, <3>4 DEF MediaInv, MediaCountIsTrue, ToldListening
    <3> QED
      BY <2>2, <2>4, <2>5, <3>5 DEF MediaInv
  <2> QED
    BY <2>6, <2>7
<1>10. ASSUME NEW m \in Media, trySubscribe(m) PROVE MediaInv'
  <2> DEFINE ss == [session EXCEPT ![m].due = FALSE]
  <2>1. Kept(ss, adapter) /\ connection' = connection
    BY <1>10, TrySubscribeEffect
  <2>2. \A k \in Media : /\ ss[k].listed = session[k].listed /\ ss[k].state = session[k].state
                         /\ ss[k].closing = session[k].closing /\ ss[k].seen = session[k].seen
    BY DueFields
  <2> HIDE DEF ss
  <2> QED
    BY <2>1, <2>2, MediaKept DEF Kept
<1>11. ASSUME NEW p \in Pc, NEW label \in Label, watchCaptionsChannel(p, label) PROVE MediaInv'
  BY <1>11, WatchEffect, MediaKept DEF Kept
<1>12. ASSUME NEW ad, Kept(pruneDeadSessions(session), ad), connection' = connection,
              (ad.media = adapter.media /\ ad.listening = adapter.listening) \/ ad.media = "untold"
       PROVE  MediaInv'
  <2> DEFINE ss == pruneDeadSessions(session)
  <2>1. \A m \in Media : /\ ss[m].state = session[m].state /\ ss[m].closing = session[m].closing
                         /\ ss[m].seen = session[m].seen
                         /\ (ss[m].listed <=> session[m].listed /\ session[m].state # "closed")
    BY PruneFields
  <2> HIDE DEF ss
  <2> QED
    BY <1>12, <2>1, MediaKept DEF Kept, ss
<1>13. ASSUME resubscribeForCaptions PROVE MediaInv'
  BY <1>12, <1>13, ReopenedEffect
<1>14. ASSUME NEW l \in Lang, NEW ad \in Heard, budget > 0, configure(l, ad), connection' = connection,
              (ad.media = adapter.media /\ ad.listening = adapter.listening) \/ ad.media = "untold"
       PROVE  MediaInv'
  <2> DEFINE ss == pruneDeadSessions(session)
             heard == IF captureArmed THEN heardArmed(ad) ELSE ad
  <2>1. /\ heard.listening = ad.listening /\ heard.media = ad.media
        /\ Kept(ss, heard) \/ (adapter' = heard /\ session' = session)
    BY <1>14, ConfigureEffect
  <2> HIDE DEF heard
  <2>2. CASE Kept(ss, heard)
    BY <1>12, <1>14, <2>1, <2>2
  <2>3. CASE adapter' = heard /\ session' = session
    BY <1>14, <2>1, <2>3, MediaKept
  <2> QED
    BY <2>1, <2>2, <2>3
<1>15. ASSUME NEW l \in Lang, Config(l) PROVE MediaInv'
  BY <1>14, <1>15 DEF Config, TypeOK
<1>16. ASSUME NEW l \in Lang, MeetingStarts(l) PROVE MediaInv'
  <2>1. [listening |-> TRUE, armed |-> FALSE, media |-> "untold"] \in Heard
    BY DEF Heard
  <2> QED
    BY <1>14, <1>16, <2>1 DEF MeetingStarts
<1>17. ASSUME MeetingEnds PROVE MediaInv'
  BY <1>17, MediaKept DEF MeetingEnds
<1> QED
  BY <1>1, <1>2, <1>3, <1>4, <1>5, <1>6, <1>7, <1>8, <1>9, <1>10, <1>11, <1>13, <1>15, <1>16, <1>17
  DEF Next, Browser, Timers, Adapter, vars, CaptionsDrop

\* The meeting is told of no media channel exactly when none is live, as long as either of
\* the hooks is ours.
THEOREM MediaCountHolds == Spec => []MediaCountIsTrue
<1>1. Init => MediaInv
  BY DEF Init, MediaInv, Adopted, SeenListed, AllSeen, Live, ToldListening, MediaCountIsTrue,
         NoSession
<1>2. MediaInv => MediaCountIsTrue
  BY DEF MediaInv
<1> QED
  BY <1>1, <1>2, MediaStep, TypeInit, TypeStep, PTL DEF Spec

-----------------------------------------------------------------------------
(***************************************************************************)
(* CaptionsKept. The subscribe that made a session subscribed opened a     *)
(* captions channel on its connection, and the watchdog that gives one up  *)
(* opens the next, unless no open session is left on the connection.       *)
(***************************************************************************)

KeptInv ==
  /\ CaptionsKept
  /\ \A m \in Media : /\ session[m].state # "none" => session[m].pc \in Pc
                      /\ session[m].state \in {"none", "connecting"} => ~session[m].subscribed

\* Steps under which no captions channel goes and no session is subscribed.
LEMMA KeptAlone ==
  ASSUME TypeOK, KeptInv, captions' \in [Pc -> Counts],
         \A p \in Pc, l \in Label :
           captions'[p][l].live + captions'[p][l].gone >= captions[p][l].live + captions[p][l].gone,
         \A m \in Media : /\ session'[m].pc = session[m].pc
                          /\ session'[m].state = session[m].state \/ session'[m].state \notin {"none", "connecting"}
                          /\ session'[m].state # "none" => session[m].state # "none"
                          /\ session'[m].state = "open" /\ session'[m].subscribed => session[m].state = "open"
                          /\ session'[m].listed => session[m].listed
                          /\ session'[m].subscribed => session[m].subscribed
  PROVE  KeptInv'
<1>1. ASSUME NEW m \in Media, session'[m].listed, session'[m].state = "open", session'[m].subscribed
      PROVE  \E label \in Label : captions'[session'[m].pc][label].live
                                  + captions'[session'[m].pc][label].gone > 0
  <2>1. PICK label \in Label : captions[session[m].pc][label].live
                               + captions[session[m].pc][label].gone > 0
    BY <1>1 DEF KeptInv, CaptionsKept
  <2>2. session[m].pc \in Pc /\ session'[m].pc = session[m].pc
    BY <1>1 DEF KeptInv
  <2>3. /\ captions[session[m].pc][label] \in [live : Nat, gone : Nat]
        /\ captions'[session[m].pc][label] \in [live : Nat, gone : Nat]
    BY <2>2 DEF TypeOK, Counts
  <2>4. captions'[session[m].pc][label].live + captions'[session[m].pc][label].gone > 0
    BY <2>1, <2>2, <2>3
  <2> QED
    BY <2>2, <2>4
<1>2. \A m \in Media : /\ session'[m].state # "none" => session'[m].pc \in Pc
                       /\ session'[m].state \in {"none", "connecting"} => ~session'[m].subscribed
  BY DEF KeptInv
<1> QED
  BY <1>1, <1>2 DEF KeptInv, CaptionsKept

\* Steps that subscribe the sessions of `openers`, each on a channel that it opens.
LEMMA KeptSent ==
  ASSUME TypeOK, KeptInv, NEW ss, NEW ad, NEW senders, NEW openers \in SUBSET Media, NEW lang,
         NEW label \in Label,
         Kept(ss, ad), Sent(ss, senders, openers, lang), Opened(ss, captions, openers, label),
         captions' \in [Pc -> Counts],
         \A m \in openers : ss[m].state = "open",
         \A m \in Media : /\ ss[m].pc = session[m].pc /\ ss[m].state = session[m].state
                          /\ ss[m].subscribed = session[m].subscribed
                          /\ ss[m].listed => session[m].listed
  PROVE  KeptInv'
<1>1. \A p \in Pc, l \in Label : /\ captions'[p][l].gone = captions[p][l].gone
                                 /\ captions'[p][l].live >= captions[p][l].live
                                 /\ captions[p][l] \in [live : Nat, gone : Nat]
                                 /\ captions'[p][l] \in [live : Nat, gone : Nat]
  BY DEF Opened, TypeOK, Counts
<1>2. ASSUME NEW m \in Media
      PROVE  /\ session'[m].pc = session[m].pc /\ session'[m].state = session[m].state
             /\ session'[m].listed => session[m].listed
             /\ m \notin openers => session'[m].subscribed = session[m].subscribed
  BY DEF Kept, Sent
<1>3. \A m \in openers : session[m].state = "open" /\ session[m].pc \in Pc
                         /\ captions'[session[m].pc][label].live > 0
  BY DEF Opened, KeptInv
<1>4. ASSUME NEW m \in Media, session'[m].listed, session'[m].state = "open", session'[m].subscribed
      PROVE  \E l \in Label : captions'[session'[m].pc][l].live
                              + captions'[session'[m].pc][l].gone > 0
  <2>1. session[m].pc \in Pc /\ session'[m].pc = session[m].pc
    BY <1>2, <1>4 DEF KeptInv
  <2>2. CASE m \in openers
    <3>1. captions'[session[m].pc][label].live > 0 /\ captions'[session[m].pc][label].gone \in Nat
          /\ captions'[session[m].pc][label].live \in Nat
      BY <1>1, <1>3, <2>1, <2>2
    <3> QED
      BY <2>1, <3>1
  <2>3. CASE m \notin openers
    <3>1. PICK l \in Label : captions[session[m].pc][l].live + captions[session[m].pc][l].gone > 0
      BY <1>2, <1>4, <2>3 DEF KeptInv, CaptionsKept
    <3>2. captions'[session[m].pc][l].live + captions'[session[m].pc][l].gone > 0
      BY <1>1, <2>1, <3>1
    <3> QED
      BY <2>1, <3>2
  <2> QED
    BY <2>2, <2>3
<1>5. \A m \in Media : /\ session'[m].state # "none" => session'[m].pc \in Pc
                       /\ session'[m].state \in {"none", "connecting"} => ~session'[m].subscribed
  BY <1>2, <1>3 DEF KeptInv
<1> QED
  BY <1>4, <1>5 DEF KeptInv, CaptionsKept

\* The watchdog's tick, which takes one channel off the count of its connection.
LEMMA KeptWatch ==
  ASSUME TypeOK, KeptInv, ~CreateFails, NEW p \in Pc, NEW label \in Label,
         watchCaptionsChannel(p, label)
  PROVE  KeptInv'
<1>1. PICK cap \in [Pc -> Counts] :
        /\ \A q \in Pc, l \in Label : /\ cap[q][l].live = captions[q][l].live
                                      /\ q # p => cap[q][l].gone = captions[q][l].gone
        /\ \/ \E m \in openSession(p) :
                /\ Sent(session, {m}, {m}, [k \in {m} |-> captionLanguage])
                /\ ~CreateFails => Opened(session, cap, {m}, label)
           \/ openSession(p) = {} /\ session' = session /\ captions' = cap /\ asked' = asked
  BY WatchEffect
<1>2. Kept(session, adapter) /\ captions' \in [Pc -> Counts]
  BY WatchEffect DEF Typed
<1>3. \A q \in Pc, l \in Label : /\ captions[q][l] \in [live : Nat, gone : Nat]
                                 /\ captions'[q][l] \in [live : Nat, gone : Nat]
                                 /\ cap[q][l] \in [live : Nat, gone : Nat]
  BY <1>2 DEF TypeOK, Counts
<1>4. CASE openSession(p) = {} /\ session' = session /\ captions' = cap
  <2>1. ASSUME NEW m \in Media, session[m].listed, session[m].state = "open", session[m].subscribed
        PROVE  \E l \in Label : cap[session[m].pc][l].live + cap[session[m].pc][l].gone > 0
    <3>1. session[m].pc # p /\ session[m].pc \in Pc
      BY <1>4, <2>1 DEF openSession, KeptInv
    <3>2. PICK l \in Label : captions[session[m].pc][l].live + captions[session[m].pc][l].gone > 0
      BY <2>1 DEF KeptInv, CaptionsKept
    <3> QED
      BY <1>1, <3>1, <3>2
  <2> QED
    BY <1>4, <2>1 DEF KeptInv, CaptionsKept
<1>5. ASSUME NEW m \in openSession(p), Sent(session, {m}, {m}, [k \in {m} |-> captionLanguage]),
             Opened(session, cap, {m}, label)
      PROVE  KeptInv'
  <2>1. m \in Media /\ session[m].pc = p /\ session[m].state = "open"
    BY DEF openSession
  <2>2. \A k \in Media : /\ session'[k].pc = session[k].pc /\ session'[k].state = session[k].state
                         /\ session'[k].listed = session[k].listed
                         /\ k # m => session'[k].subscribed = session[k].subscribed
    BY <1>2, <1>5 DEF Kept, Sent
  <2>3. captions'[p][label].live > 0
    BY <1>5, <2>1 DEF Opened
  <2>4. \A q \in Pc, l \in Label : /\ captions'[q][l].live >= cap[q][l].live
                                   /\ captions'[q][l].gone = cap[q][l].gone
    BY <1>5 DEF Opened
  <2>5. ASSUME NEW k \in Media, session'[k].listed, session'[k].state = "open", session'[k].subscribed
        PROVE  \E l \in Label : captions'[session'[k].pc][l].live
                                + captions'[session'[k].pc][l].gone > 0
    <3>1. session[k].pc \in Pc /\ session'[k].pc = session[k].pc
      BY <2>2, <2>5 DEF KeptInv
    <3>2. CASE session[k].pc = p
      <4>1. captions'[p][label].live + captions'[p][label].gone > 0
        BY <1>3, <2>3
      <4> QED
        BY <3>1, <3>2, <4>1
    <3>3. CASE session[k].pc # p
      <4>1. PICK l \in Label : captions[session[k].pc][l].live + captions[session[k].pc][l].gone > 0
        BY <2>1, <2>2, <2>5, <3>3 DEF KeptInv, CaptionsKept
      <4>2. captions'[session[k].pc][l].live + captions'[session[k].pc][l].gone > 0
        BY <1>1, <1>3, <2>4, <3>1, <3>3, <4>1
      <4> QED
        BY <3>1, <4>2
    <3> QED
      BY <3>2, <3>3
  <2>6. \A k \in Media : /\ session'[k].state # "none" => session'[k].pc \in Pc
                         /\ session'[k].state \in {"none", "connecting"} => ~session'[k].subscribed
    BY <2>1, <2>2 DEF KeptInv
  <2> QED
    BY <2>5, <2>6 DEF KeptInv, CaptionsKept
<1> QED
  BY <1>1, <1>4, <1>5

LEMMA KeptStep == TypeOK /\ TypeOK' /\ KeptInv /\ ~CreateFails /\ [Next]_vars => KeptInv'
<1> SUFFICES ASSUME TypeOK, TypeOK', KeptInv, ~CreateFails, [Next]_vars PROVE KeptInv'
  OBVIOUS
<1> DEFINE counted == \A p \in Pc, l \in Label : captions[p][l] \in [live : Nat, gone : Nat]
<1>0. counted /\ captions' \in [Pc -> Counts]
  BY DEF TypeOK, Counts
<1>1. ASSUME UNCHANGED <<session, captions>> PROVE KeptInv'
  BY <1>1 DEF KeptInv, CaptionsKept
<1>2. ASSUME captions' = captions,
             \A m \in Media : /\ session'[m].pc = session[m].pc
                              /\ session'[m].state = session[m].state
                              /\ session'[m].listed => session[m].listed
                              /\ session'[m].subscribed = session[m].subscribed
      PROVE  KeptInv'
  BY <1>0, <1>2, KeptAlone
<1>3. ASSUME NEW p \in Pc, NEW origin \in {"local", "remote"}, MeetOpensCaptions(p, origin)
      PROVE  KeptInv'
  <2>1. captions[p] \in [Label -> [live : Nat, gone : Nat]] /\ Served \in Label
    BY CaptionsAssumption DEF TypeOK, Counts, Label
  <2>2. /\ \A q \in Pc \ {p} : captions'[q] = captions[q]
        /\ captions'[p] = [captions[p] EXCEPT ![Served].live = captions[p][Served].live + 1]
    BY <1>3 DEF MeetOpensCaptions, TypeOK
  <2>3. \A l \in Label : captions'[p][l].live + captions'[p][l].gone
                         >= captions[p][l].live + captions[p][l].gone
    BY <2>1, <2>2
  <2>4. session' = session
    BY <1>3 DEF MeetOpensCaptions
  <2>5. ASSUME NEW q \in Pc, NEW l \in Label
        PROVE  captions'[q][l].live + captions'[q][l].gone
               >= captions[q][l].live + captions[q][l].gone
    <3>1. CASE q = p
      BY <2>3, <3>1
    <3>2. CASE q # p
      <4>1. captions'[q][l] = captions[q][l] /\ captions[q][l] \in [live : Nat, gone : Nat]
        BY <1>0, <2>2, <3>2
      <4> QED
        BY <4>1
    <3> QED
      BY <3>1, <3>2
  <2> QED
    BY <1>0, <2>4, <2>5, KeptAlone
<1>4. ASSUME NEW p \in Pc, NEW label \in Label, CaptionsDrop(p, label) PROVE KeptInv'
  <2>1. captions[p] \in [Label -> [live : Nat, gone : Nat]]
    BY DEF TypeOK, Counts
  <2>2. /\ \A q \in Pc \ {p} : captions'[q] = captions[q]
        /\ captions'[p] = [captions[p] EXCEPT ![label].live = captions[p][label].live - 1,
                                              ![label].gone = captions[p][label].gone + 1]
    BY <1>4 DEF CaptionsDrop, TypeOK
  <2>3. \A l \in Label : captions'[p][l].live + captions'[p][l].gone
                         >= captions[p][l].live + captions[p][l].gone
    BY <2>1, <2>2
  <2>4. session' = session
    BY <1>4 DEF CaptionsDrop
  <2>5. ASSUME NEW q \in Pc, NEW l \in Label
        PROVE  captions'[q][l].live + captions'[q][l].gone
               >= captions[q][l].live + captions[q][l].gone
    <3>1. CASE q = p
      BY <2>3, <3>1
    <3>2. CASE q # p
      <4>1. captions'[q][l] = captions[q][l] /\ captions[q][l] \in [live : Nat, gone : Nat]
        BY <1>0, <2>2, <3>2
      <4> QED
        BY <4>1
    <3> QED
      BY <3>1, <3>2
  <2> QED
    BY <1>0, <2>4, <2>5, KeptAlone
<1>5. ASSUME NEW p \in Pc, ConnectionEnds(p) PROVE KeptInv'
  <2>1. ASSUME NEW m \in Media
        PROVE  /\ session'[m].pc = session[m].pc /\ session'[m].subscribed = session[m].subscribed
               /\ session'[m].listed = session[m].listed
               /\ \/ session'[m].state = session[m].state
                  \/ session'[m].state = "closed" /\ session[m].state \in {"connecting", "open"}
               /\ session'[m].state = "open" => session[m].pc # p
    <3>1. session[m] \in Entry
      BY DEF TypeOK
    <3>2. session'[m] = IF session[m].pc = p /\ session[m].state \in {"connecting", "open"}
                        THEN [session[m] EXCEPT !.state = "closed", !.closing = TRUE]
                        ELSE session[m]
      BY <1>5 DEF ConnectionEnds
    <3> QED
      BY <3>1, <3>2 DEF Entry
  <2>2. \A q \in Pc \ {p} : captions'[q] = captions[q]
    BY <1>5 DEF ConnectionEnds, TypeOK
  <2>3. CaptionsKept'
    BY <2>1, <2>2 DEF KeptInv, CaptionsKept
  <2> QED
    BY <2>1, <2>3 DEF KeptInv
<1>6. ASSUME NEW m \in Media, MediaOpens(m) PROVE KeptInv'
  <2>1. /\ \A k \in Media \ {m} : session'[k] = session[k]
        /\ session[m].state = "connecting" /\ session'[m].state = "open"
        /\ session'[m].pc = session[m].pc /\ session'[m].subscribed = session[m].subscribed
        /\ captions' = captions
    BY <1>6 DEF MediaOpens, TypeOK, Entry
  <2> QED
    BY <2>1 DEF KeptInv, CaptionsKept
<1>7. ASSUME NEW m \in Media, MediaCloses(m) PROVE KeptInv'
  <2>1. /\ \A k \in Media \ {m} : session'[k] = session[k]
        /\ session[m].state # "none" /\ session'[m].state = "closed"
        /\ session'[m].pc = session[m].pc /\ captions' = captions
    BY <1>7 DEF MediaCloses, TypeOK, Entry
  <2> QED
    BY <2>1 DEF KeptInv, CaptionsKept
<1>8. ASSUME NEW m \in Media, MediaCloseEvent(m) PROVE KeptInv'
  <2>1. \A k \in Media : /\ session'[k].pc = session[k].pc /\ session'[k].state = session[k].state
                         /\ session'[k].listed => session[k].listed
                         /\ session'[k].subscribed = session[k].subscribed
    BY <1>8 DEF MediaCloseEvent, TypeOK, Entry
  <2>2. captions' = captions
    BY <1>8 DEF MediaCloseEvent
  <2> QED
    BY <1>2, <2>1, <2>2
<1>9. ASSUME NEW m \in Media, NEW p \in Pc, NEW origin \in {"local", "remote"},
             NEW state \in {"connecting", "open"}, MediaAppears(m, p, origin, state)
      PROVE  KeptInv'
  <2>1. captions' = captions
    BY <1>9 DEF MediaAppears
  <2>2. session'[m].pc = p /\ ~session'[m].subscribed
    BY <1>9, AppearsFields
  <2>3. \A k \in Media \ {m} : /\ session'[k].pc = session[k].pc /\ session'[k].state = session[k].state
                               /\ session'[k].listed => session[k].listed
                               /\ session'[k].subscribed = session[k].subscribed
    BY <1>9, AppearsFields
  <2> QED
    BY <2>1, <2>2, <2>3 DEF KeptInv, CaptionsKept
<1>10. ASSUME NEW m \in Media, trySubscribe(m) PROVE KeptInv'
  <2> DEFINE ss == [session EXCEPT ![m].due = FALSE]
             lang == [k \in {m} |-> captionLanguage]
  <2>1. /\ Kept(ss, adapter)
        /\ \/ ss[m].state = "open" /\ Sent(ss, {m}, {m}, lang) /\ Opened(ss, captions, {m}, "captions")
           \/ session' = ss /\ captions' = captions
    BY <1>10, TrySubscribeEffect
  <2>2. \A k \in Media : /\ ss[k].pc = session[k].pc /\ ss[k].state = session[k].state
                         /\ ss[k].subscribed = session[k].subscribed
                         /\ ss[k].listed = session[k].listed
    BY DueFields
  <2> HIDE DEF ss, lang
  <2>3. CASE session' = ss /\ captions' = captions
    BY <1>2, <2>2, <2>3
  <2>4. CASE ss[m].state = "open" /\ Sent(ss, {m}, {m}, lang) /\ Opened(ss, captions, {m}, "captions")
    BY <1>0, <2>1, <2>2, <2>4, KeptSent DEF Label
  <2> QED
    BY <2>1, <2>3, <2>4
<1>11. ASSUME NEW p \in Pc, NEW label \in Label, watchCaptionsChannel(p, label) PROVE KeptInv'
  BY <1>11, KeptWatch
<1>12. ASSUME resubscribeForCaptions PROVE KeptInv'
  <2> DEFINE ss == pruneDeadSessions(session)
             again == {m \in Media : ss[m].listed /\ ss[m].subscribed /\ ss[m].state = "open"}
             lang == [m \in again |-> ss[m].lang]
  <2>1. Kept(ss, adapter) /\ Sent(ss, again, {}, lang) /\ Opened(ss, captions, {}, "captions")
    BY <1>12, ReopenedEffect
  <2>2. \A m \in Media : /\ ss[m].state = session[m].state /\ ss[m].pc = session[m].pc
                         /\ ss[m].subscribed = session[m].subscribed
                         /\ ss[m].listed => session[m].listed
    BY PruneFields
  <2> HIDE DEF ss, again, lang
  <2> QED
    BY <1>0, <2>1, <2>2, KeptSent DEF Label
<1>13. ASSUME NEW l \in Lang, NEW ad \in Heard, budget > 0, configure(l, ad) PROVE KeptInv'
  <2> DEFINE ss == pruneDeadSessions(session)
             heard == IF captureArmed THEN heardArmed(ad) ELSE ad
             open == {m \in Media : ss[m].listed /\ ss[m].state = "open"}
             first == {m \in open : ~ss[m].subscribed}
             again == {m \in open : ss[m].subscribed /\ ss[m].lang # l}
             lang == [m \in first \cup again |-> l]
  <2>1. \/ /\ Kept(ss, heard) /\ Sent(ss, first \cup again, first, lang)
           /\ Opened(ss, captions, first, "captions")
        \/ UNCHANGED <<session, captions>>
    BY <1>13, ConfigureEffect
  <2>2. \A m \in Media : /\ ss[m].state = session[m].state /\ ss[m].pc = session[m].pc
                         /\ ss[m].subscribed = session[m].subscribed
                         /\ ss[m].listed => session[m].listed
    BY PruneFields
  <2>3. first \in SUBSET Media /\ \A m \in first : ss[m].state = "open"
    OBVIOUS
  <2> HIDE DEF ss, heard, first, again, lang
  <2> QED
    BY <1>0, <1>1, <2>1, <2>2, <2>3, KeptSent DEF Label
<1>14. ASSUME NEW l \in Lang, Config(l) PROVE KeptInv'
  BY <1>13, <1>14 DEF Config, TypeOK
<1>15. ASSUME NEW l \in Lang, MeetingStarts(l) PROVE KeptInv'
  <2>1. [listening |-> TRUE, armed |-> FALSE, media |-> "untold"] \in Heard
    BY DEF Heard
  <2> QED
    BY <1>13, <1>15, <2>1 DEF MeetingStarts
<1> QED
  BY <1>1, <1>3, <1>4, <1>5, <1>6, <1>7, <1>8, <1>9, <1>10, <1>11, <1>12, <1>14, <1>15
  DEF Next, Browser, Timers, Adapter, vars, NewConnection, SetRemoteDescription, MeetingEnds

\* When opening a data channel cannot fail, a subscribed session that is open always has a
\* captions channel on its connection, or a watchdog that has yet to replace one.
THEOREM CaptionsAreKept == ASSUME ~CreateFails PROVE Spec => []CaptionsKept
<1>1. Init => KeptInv
  BY DEF Init, KeptInv, CaptionsKept, NoSession
<1>2. KeptInv => CaptionsKept
  BY DEF KeptInv
<1>3. TypeOK /\ TypeOK' /\ KeptInv /\ [Next]_vars => KeptInv'
  BY KeptStep
<1> QED
  BY <1>1, <1>2, <1>3, TypeInit, TypeStep, PTL DEF Spec
=============================================================================
