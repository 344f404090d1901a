----------------------------- MODULE PartsProofs ------------------------------
(***************************************************************************)
(* The two parts that share no state with the rest (MCParts).              *)
(*                                                                         *)
(* The wire: what Meet packed is what the page dispatches (ReadAsPacked),  *)
(* for any captions, records, messages and numbers, in batches of any      *)
(* size. A decoder gathers, over lists of fields, so the lemmas go from    *)
(* what FlattenSeq makes of a list of lists, to the fields of a message,   *)
(* to the levels of a path, and then take the frames one by one: what each *)
(* of its messages holds, what the walk down to it keeps before a          *)
(* malformed tail, and what its decoder makes of it. Numbers are read back *)
(* by an induction on the bytes (VarintRoundTrip).                         *)
(*                                                                         *)
(* The guard: every download gets its own name (ItsOwnName), for any       *)
(* number of downloads, any order of Chrome's rounds and any failures      *)
(* between. What makes it so: while the rounds can be told apart, the      *)
(* queue holds the downloads whose round is to come, each once, and no     *)
(* others.                                                                 *)
(***************************************************************************)
EXTENDS WireReader, FilenameGuard, FiniteSetTheorems, SequenceTheorems,
        WellFoundedInduction, TLAPS

-------------------------------------------------------------------------------
(*                                  Lists                                   *)

List(s) == s \in Seq({s[i] : i \in DOMAIN s})

\* A sequence is a list, whatever its elements are.
LEMMA ListOf ==
  ASSUME NEW X, NEW s \in Seq(X)
  PROVE  List(s) /\ Len(s) \in Nat /\ DOMAIN s = 1..Len(s)
  <1>1. s \in [1..Len(s) -> {s[i] : i \in DOMAIN s}]
    OBVIOUS
  <1>2. QED
    BY <1>1 DEF List

LEMMA ListFacts ==
  ASSUME NEW s, List(s)
  PROVE  /\ Len(s) \in Nat /\ DOMAIN s = 1..Len(s)
         /\ s = [i \in 1..Len(s) |-> s[i]]
  BY DEF List

LEMMA ListMade ==
  ASSUME NEW n \in Nat, NEW s, s = [i \in 1..n |-> s[i]]
  PROVE  List(s) /\ Len(s) = n
  <1>1. s \in [1..n -> {s[i] : i \in DOMAIN s}]
    OBVIOUS
  <1>2. s \in Seq({s[i] : i \in DOMAIN s})
    BY <1>1
  <1>3. QED
    BY <1>1, <1>2 DEF List

\* What a list is made of says which sequences it belongs to.
LEMMA ListIn ==
  ASSUME NEW X, NEW s, List(s), \A i \in 1..Len(s) : s[i] \in X
  PROVE  s \in Seq(X)
  <1>1. Len(s) \in Nat /\ s \in [1..Len(s) -> X]
    BY ListFacts
  <1>2. QED
    BY <1>1

LEMMA ListsEqual ==
  ASSUME NEW s, NEW t, List(s), List(t), Len(s) = Len(t),
         \A i \in 1..Len(s) : s[i] = t[i]
  PROVE  s = t
  BY ListFacts

\* Two lists, one after the other.
LEMMA Joined ==
  ASSUME NEW a, NEW b, List(a), List(b)
  PROVE  /\ List(a \o b) /\ Len(a \o b) = Len(a) + Len(b)
         /\ \A i \in 1..Len(a) : (a \o b)[i] = a[i]
         /\ \A i \in 1..Len(b) : (a \o b)[Len(a) + i] = b[i]
  <1> DEFINE X == {a[i] : i \in DOMAIN a} \cup {b[i] : i \in DOMAIN b}
  <1>1. a \in Seq(X) /\ b \in Seq(X)
    BY ListFacts, ListIn
  <1> HIDE DEF X
  <1>2. a \o b \in Seq(X)
    BY <1>1
  <1>3. List(a \o b)
    BY <1>2, ListOf
  <1>4. Len(a \o b) = Len(a) + Len(b)
    BY <1>1
  <1>5. \A i \in 1..Len(a) : (a \o b)[i] = a[i]
    BY <1>1
  <1>6. \A i \in 1..Len(b) : (a \o b)[Len(a) + i] = b[i]
    BY <1>1
  <1>7. QED
    BY <1>3, <1>4, <1>5, <1>6

LEMMA Empties ==
  /\ List(<<>>) /\ Len(<<>>) = 0
  /\ \A s : List(s) => s \o <<>> = s /\ <<>> \o s = s
  /\ \A s : List(s) /\ Len(s) = 0 => s = <<>>
  <1>1. List(<<>>) /\ Len(<<>>) = 0
    BY DEF List
  <1>2. ASSUME NEW s, List(s) PROVE s \o <<>> = s /\ <<>> \o s = s
    <2>1. /\ List(s \o <<>>) /\ Len(s \o <<>>) = Len(s)
          /\ \A i \in 1..Len(s) : (s \o <<>>)[i] = s[i]
      BY <1>1, <1>2, Joined, ListFacts
    <2>2. /\ List(<<>> \o s) /\ Len(<<>> \o s) = Len(s)
          /\ \A i \in 1..Len(s) : (<<>> \o s)[i] = s[i]
      BY <1>1, <1>2, Joined, ListFacts
    <2>3. QED
      BY <1>2, <2>1, <2>2, ListsEqual
  <1>3. ASSUME NEW s, List(s), Len(s) = 0 PROVE s = <<>>
    BY <1>1, <1>3, ListsEqual
  <1>4. QED
    BY <1>1, <1>2, <1>3

LEMMA JoinsAssociate ==
  \A a, b, c : List(a) /\ List(b) /\ List(c) => (a \o b) \o c = a \o (b \o c)
  <1>1. SUFFICES ASSUME NEW a, NEW b, NEW c, List(a), List(b), List(c)
                 PROVE  (a \o b) \o c = a \o (b \o c)
    OBVIOUS
  <1> DEFINE X == {a[i] : i \in DOMAIN a} \cup {b[i] : i \in DOMAIN b} \cup {c[i] : i \in DOMAIN c}
  <1>2. a \in Seq(X) /\ b \in Seq(X) /\ c \in Seq(X)
    <2>1. a \in Seq(X)
      BY <1>1, ListFacts, ListIn
    <2>2. b \in Seq(X)
      BY <1>1, ListFacts, ListIn
    <2>3. c \in Seq(X)
      BY <1>1, ListFacts, ListIn
    <2>4. QED
      BY <2>1, <2>2, <2>3
  <1> HIDE DEF X
  <1>3. QED
    BY <1>2

LEMMA One ==
  ASSUME NEW x
  PROVE  List(<<x>>) /\ Len(<<x>>) = 1 /\ <<x>>[1] = x /\ <<x>> # <<>>
  BY DEF List

LEMMA MaybeIs ==
  ASSUME NEW cond, NEW x
  PROVE  /\ List(Maybe(cond, x)) 
         /\ cond => Maybe(cond, x) = <<x>>
         /\ ~cond => Maybe(cond, x) = <<>>
  BY One, Empties DEF Maybe

\* A nonempty set of numbers has a least one.
LEMMA Least ==
  ASSUME NEW S, S \subseteq Nat, S # {}
  PROVE  \E n \in S : \A m \in S : n <= m
  <1>1. PICK n \in S : \A m \in S : ~(<<m, n>> \in OpToRel(<, Nat))
    BY WFMin, NatLessThanWellFounded
  <1>2. ASSUME NEW m \in S PROVE ~(m < n)
    BY <1>1 DEF OpToRel
  <1>3. QED
    BY <1>2

\* Induction over the naturals, over a set of those for which a claim holds.
LEMMA Induct ==
  ASSUME NEW S, 0 \in S, \A n \in Nat : n \in S => n + 1 \in S
  PROVE  Nat \subseteq S
  <1>1. SUFFICES ASSUME Nat \ S # {} PROVE FALSE
    OBVIOUS
  <1>2. PICK n \in Nat \ S : \A m \in Nat \ S : n <= m
    BY <1>1, Least
  <1>3. n # 0 /\ n - 1 \in Nat
    OBVIOUS
  <1>4. n - 1 \in S
    BY <1>2, <1>3
  <1>5. QED
    BY <1>3, <1>4

-------------------------------------------------------------------------------
(*                                FlattenSeq                                *)

Flat(s) == List(s) /\ \A i \in 1..Len(s) : List(s[i])

\* f[i] is the first i lists of s, joined.
Sums(s, n, f) == f = [i \in 1..n |-> IF i = 1 THEN s[i] ELSE f[i - 1] \o s[i]]

LEMMA SumsAt ==
  ASSUME NEW s, NEW n \in Nat, NEW f, Sums(s, n, f)
  PROVE  \A i \in 1..n : f[i] = IF i = 1 THEN s[i] ELSE f[i - 1] \o s[i]
  <1> DEFINE e == [i \in 1..n |-> IF i = 1 THEN s[i] ELSE f[i - 1] \o s[i]]
  <1>1. f = e
    BY DEF Sums
  <1>2. \A i \in 1..n : e[i] = IF i = 1 THEN s[i] ELSE f[i - 1] \o s[i]
    OBVIOUS
  <1> HIDE DEF e
  <1>3. QED
    BY <1>1, <1>2

LEMMA SumsExist ==
  ASSUME NEW s, NEW n \in Nat
  PROVE  \E f : Sums(s, n, f)
  <1> DEFINE S == {k \in Nat : \E f : Sums(s, k, f)}
  <1>1. 0 \in S
    <2>1. Sums(s, 0, [i \in 1..0 |-> i])
      BY DEF Sums
    <2>2. QED
      BY <2>1
  <1>2. ASSUME NEW k \in Nat, k \in S PROVE k + 1 \in S
    <2>1. PICK f : Sums(s, k, f)
      BY <1>2
    <2> DEFINE g == [i \in 1..(k + 1) |-> IF i = 1 THEN s[i] ELSE f[i - 1] \o s[i]]
    <2>2. \A i \in 1..k : g[i] = f[i]
      <3>1. \A i \in 1..k : g[i] = IF i = 1 THEN s[i] ELSE f[i - 1] \o s[i]
        OBVIOUS
      <3> HIDE DEF g
      <3>2. QED
        BY <2>1, <3>1, SumsAt
    <2>3. \A i \in 1..(k + 1) : i # 1 => i - 1 \in 1..k
      OBVIOUS
    <2>4. g = [i \in 1..(k + 1) |-> IF i = 1 THEN s[i] ELSE g[i - 1] \o s[i]]
      <3>1. \A i \in 1..(k + 1) : i # 1 => g[i - 1] = f[i - 1]
        BY <2>2, <2>3
      <3>2. QED
        BY <3>1
    <2> HIDE DEF g
    <2>5. Sums(s, k + 1, g)
      BY <2>4 DEF Sums
    <2>6. QED
      BY <2>5
  <1> HIDE DEF S
  <1>3. Nat \subseteq S
    BY <1>1, <1>2, Induct
  <1>4. QED
    BY <1>3 DEF S

LEMMA SumsUnique ==
  ASSUME NEW s, NEW n \in Nat, NEW f, NEW g, Sums(s, n, f), Sums(s, n, g)
  PROVE  f = g
  <1> DEFINE S == {k \in Nat : k + 1 \in 1..n => f[k + 1] = g[k + 1]}
  <1>1. 0 \in S
    BY DEF Sums
  <1>2. ASSUME NEW k \in Nat, k \in S PROVE k + 1 \in S
    <2>1. SUFFICES ASSUME k + 1 + 1 \in 1..n PROVE f[k + 1 + 1] = g[k + 1 + 1]
      OBVIOUS
    <2>2. k + 1 \in 1..n /\ k + 1 + 1 # 1 /\ (k + 1 + 1) - 1 = k + 1
      BY <2>1
    <2>3. f[k + 1] = g[k + 1]
      BY <1>2, <2>2
    <2> HIDE DEF S
    <2>4. /\ f[k + 1 + 1] = f[k + 1] \o s[k + 1 + 1]
          /\ g[k + 1 + 1] = g[k + 1] \o s[k + 1 + 1]
      BY <2>1, <2>2 DEF Sums
    <2>5. QED
      BY <2>3, <2>4
  <1> HIDE DEF S
  <1>3. Nat \subseteq S
    BY <1>1, <1>2, Induct
  <1>4. \A i \in 1..n : f[i] = g[i]
    <2>1. TAKE i \in 1..n
    <2>2. i - 1 \in S /\ (i - 1) + 1 = i
      BY <1>3
    <2>3. QED
      BY <2>2 DEF S
  <1>5. QED
    BY <1>4 DEF Sums

\* The library's FlattenSeq is the last of the sums.
LEMMA FlattenIs ==
  ASSUME NEW s, Len(s) \in Nat, Len(s) # 0, NEW f, Sums(s, Len(s), f)
  PROVE  FlattenSeq(s) = f[Len(s)]
  <1> DEFINE h == CHOOSE g : g = [i \in 1..Len(s) |-> IF i = 1 THEN s[i] ELSE g[i - 1] \o s[i]]
  <1>1. h = f
    <2>1. h = [i \in 1..Len(s) |-> IF i = 1 THEN s[i] ELSE h[i - 1] \o s[i]]
      BY DEF Sums
    <2>2. Sums(s, Len(s), h)
      BY <2>1 DEF Sums
    <2>3. QED
      BY <2>2, SumsUnique
  <1>2. FlattenSeq(s) = IF Len(s) = 0 THEN s ELSE h[Len(s)]
    BY DEF FlattenSeq
  <1>3. QED
    BY <1>1, <1>2

\* A list of lists flattens to its front flattened, and the last of it.
LEMMA FlattenStep ==
  ASSUME NEW n \in Nat, NEW s, Flat(s), Len(s) = n + 1,
         NEW t, t = [i \in 1..n |-> s[i]]
  PROVE  Flat(t) /\ Len(t) = n /\ FlattenSeq(s) = FlattenSeq(t) \o s[n + 1]
  <1>1. List(t) /\ Len(t) = n
    BY ListMade
  <1>2. Flat(t)
    BY <1>1 DEF Flat
  <1>3. PICK m \in Nat : m = Len(s) /\ m = n + 1
    OBVIOUS
  <1>4. PICK f : Sums(s, m, f)
    BY SumsExist
  <1>5. FlattenSeq(s) = f[m]
    BY <1>3, <1>4, FlattenIs
  <1>6. \A i \in 1..m : f[i] = IF i = 1 THEN s[i] ELSE f[i - 1] \o s[i]
    BY <1>4, SumsAt
  <1>7. CASE n = 0
    <2>1. f[1] = s[1] /\ List(s[1])
      BY <1>3, <1>6, <1>7 DEF Flat
    <2>2. t = <<>>
      BY <1>1, <1>7, Empties
    <2>3. FlattenSeq(t) = <<>>
      BY <1>1, <1>7, <2>2 DEF FlattenSeq
    <2>4. FlattenSeq(s) = <<>> \o s[1]
      BY <1>3, <1>5, <1>7, <2>1, Empties
    <2>5. m = 1
      BY <1>3, <1>7
    <2>6. FlattenSeq(s) = FlattenSeq(t) \o s[m]
      BY <2>3, <2>4, <2>5
    <2>7. QED
      BY <1>1, <1>2, <1>3, <2>6
  <1>8. CASE n # 0
    <2> DEFINE g == [i \in 1..n |-> f[i]]
    <2>1. Sums(t, n, g)
      <3>1. \A i \in 1..n : g[i] = IF i = 1 THEN t[i] ELSE g[i - 1] \o t[i]
        <4>1. TAKE i \in 1..n
        <4>2. f[i] = IF i = 1 THEN s[i] ELSE f[i - 1] \o s[i]
          BY <1>3, <1>6
        <4>3. i # 1 => g[i - 1] = f[i - 1]
          OBVIOUS
        <4>4. QED
          BY <4>2, <4>3
      <3>2. QED
        BY <3>1 DEF Sums
    <2>2. FlattenSeq(t) = g[n]
      BY <1>1, <1>8, <2>1, FlattenIs
    <2>3. f[m] = f[n] \o s[m]
      <3>1. m \in 1..m /\ m # 1 /\ m - 1 = n
        BY <1>3, <1>8
      <3>2. QED
        BY <1>6, <3>1
    <2>4. g[n] = f[n]
      BY <1>8
    <2>5. QED
      BY <1>1, <1>2, <1>3, <1>5, <2>2, <2>3, <2>4
  <1>9. QED
    BY <1>7, <1>8

LEMMA FlattenNil == FlattenSeq(<<>>) = <<>>
  BY Empties DEF FlattenSeq


LEMMA FlattenList ==
  ASSUME NEW s, Flat(s)
  PROVE  List(FlattenSeq(s))
  <1> DEFINE S == {n \in Nat : \A x : Flat(x) /\ Len(x) = n => List(FlattenSeq(x))}
  <1>1. 0 \in S
    BY Empties, FlattenNil DEF Flat
  <1>2. ASSUME NEW n \in Nat, n \in S PROVE n + 1 \in S
    <2>1. SUFFICES ASSUME NEW x, Flat(x), Len(x) = n + 1 PROVE List(FlattenSeq(x))
      OBVIOUS
    <2>2. PICK t : t = [i \in 1..n |-> x[i]]
      OBVIOUS
    <2>3. Flat(t) /\ Len(t) = n /\ FlattenSeq(x) = FlattenSeq(t) \o x[n + 1]
      BY <2>1, <2>2, FlattenStep
    <2>4. List(FlattenSeq(t))
      BY <1>2, <2>3
    <2>5. n + 1 \in 1..Len(x)
      BY <2>1
    <2>6. List(x[n + 1])
      BY <2>1, <2>5 DEF Flat
    <2> HIDE DEF S
    <2>7. QED
      BY <2>3, <2>4, <2>6, Joined
  <1> HIDE DEF S
  <1>3. Nat \subseteq S
    BY <1>1, <1>2, Induct
  <1>4. Len(s) \in S
    BY <1>3, ListFacts DEF Flat
  <1>5. QED
    BY <1>4 DEF S

\* Empty lists flatten to nothing.
LEMMA FlattenNone ==
  ASSUME NEW s, List(s), \A i \in 1..Len(s) : s[i] = <<>>
  PROVE  FlattenSeq(s) = <<>>
  <1> DEFINE None(x) == List(x) /\ \A i \in 1..Len(x) : x[i] = <<>>
             S == {n \in Nat : \A x : None(x) /\ Len(x) = n => FlattenSeq(x) = <<>>}
  <1>1. 0 \in S
    BY Empties, FlattenNil
  <1>2. ASSUME NEW n \in Nat, n \in S PROVE n + 1 \in S
    <2>1. SUFFICES ASSUME NEW x, None(x), Len(x) = n + 1 PROVE FlattenSeq(x) = <<>>
      OBVIOUS
    <2>2. Flat(x)
      BY <2>1, Empties DEF Flat
    <2>3. PICK t : t = [i \in 1..n |-> x[i]]
      OBVIOUS
    <2>4. Flat(t) /\ Len(t) = n /\ FlattenSeq(x) = FlattenSeq(t) \o x[n + 1]
      BY <2>1, <2>2, <2>3, FlattenStep
    <2>5. x[n + 1] = <<>> /\ \A i \in 1..n : t[i] = <<>>
      BY <2>1, <2>3
    <2>6. FlattenSeq(t) = <<>>
      BY <1>2, <2>4, <2>5 DEF Flat
    <2>7. QED
      BY <2>4, <2>5, <2>6, Empties
  <1> HIDE DEF S
  <1>3. Nat \subseteq S
    BY <1>1, <1>2, Induct
  <1>4. Len(s) \in S
    BY <1>3, ListFacts
  <1>5. QED
    BY <1>4 DEF S

\* Lists of one value each flatten to the list of those values.
LEMMA FlattenOnes ==
  ASSUME NEW n \in Nat, NEW g, NEW s, s = [i \in 1..n |-> <<g[i]>>]
  PROVE  FlattenSeq(s) = [i \in 1..n |-> g[i]]
  <1> DEFINE S == {k \in Nat : \A x : x = [i \in 1..k |-> <<g[i]>>] =>
                                 FlattenSeq(x) = [i \in 1..k |-> g[i]]}
  <1>1. 0 \in S
    <2>1. SUFFICES ASSUME NEW x, x = [i \in 1..0 |-> <<g[i]>>]
                   PROVE  FlattenSeq(x) = [i \in 1..0 |-> g[i]]
      OBVIOUS
    <2>2. List(x) /\ Len(x) = 0
      BY <2>1, ListMade
    <2>3. List([i \in 1..0 |-> g[i]]) /\ Len([i \in 1..0 |-> g[i]]) = 0
      BY ListMade
    <2>4. QED
      BY <2>2, <2>3, Empties, FlattenNil
  <1>2. ASSUME NEW k \in Nat, k \in S PROVE k + 1 \in S
    <2>1. SUFFICES ASSUME NEW x, x = [i \in 1..(k + 1) |-> <<g[i]>>]
                   PROVE  FlattenSeq(x) = [i \in 1..(k + 1) |-> g[i]]
      OBVIOUS
    <2>2. List(x) /\ Len(x) = k + 1
      BY <2>1, ListMade
    <2>3. Flat(x)
      BY <2>1, <2>2, One DEF Flat
    <2>4. PICK t : t = [i \in 1..k |-> x[i]]
      OBVIOUS
    <2>5. FlattenSeq(x) = FlattenSeq(t) \o x[k + 1]
      BY <2>2, <2>3, <2>4, FlattenStep
    <2>6. t = [i \in 1..k |-> <<g[i]>>]
      BY <2>1, <2>4
    <2> DEFINE a == [i \in 1..k |-> g[i]]
               b == [i \in 1..(k + 1) |-> g[i]]
    <2>7. FlattenSeq(t) = a
      BY <1>2, <2>6
    <2>8. x[k + 1] = <<g[k + 1]>>
      BY <2>1
    <2>9. List(a) /\ Len(a) = k /\ List(b) /\ Len(b) = k + 1
      BY ListMade
    <2>10. a \o <<g[k + 1]>> = b
      <3>1. /\ List(a \o <<g[k + 1]>>) /\ Len(a \o <<g[k + 1]>>) = k + 1
            /\ \A i \in 1..k : (a \o <<g[k + 1]>>)[i] = a[i]
            /\ \A i \in 1..1 : (a \o <<g[k + 1]>>)[k + i] = <<g[k + 1]>>[i]
        BY <2>9, Joined, One
      <3>2. \A i \in 1..(k + 1) : (a \o <<g[k + 1]>>)[i] = b[i]
        BY <3>1
      <3> HIDE DEF a, b
      <3>3. QED
        BY <2>9, <3>1, <3>2, ListsEqual
    <2>11. QED
      BY <2>5, <2>7, <2>8, <2>10
  <1> HIDE DEF S
  <1>3. Nat \subseteq S
    BY <1>1, <1>2, Induct
  <1>4. QED
    BY <1>3 DEF S


LEMMA FlattenIn ==
  ASSUME NEW X, NEW s, List(s), \A i \in 1..Len(s) : s[i] \in Seq(X)
  PROVE  Flat(s) /\ FlattenSeq(s) \in Seq(X)
  <1> DEFINE In(x) == List(x) /\ \A i \in 1..Len(x) : x[i] \in Seq(X)
             S == {n \in Nat : \A x : In(x) /\ Len(x) = n => FlattenSeq(x) \in Seq(X)}
  <1>1. ASSUME NEW x, In(x) PROVE Flat(x)
    BY <1>1, ListOf DEF Flat
  <1>2. 0 \in S
    <2>1. SUFFICES ASSUME NEW x, In(x), Len(x) = 0 PROVE FlattenSeq(x) \in Seq(X)
      OBVIOUS
    <2>2. x = <<>>
      BY <2>1, Empties
    <2>3. <<>> \in Seq(X)
      OBVIOUS
    <2>4. QED
      BY <2>2, <2>3, FlattenNil
  <1>3. ASSUME NEW n \in Nat, n \in S PROVE n + 1 \in S
    <2>1. SUFFICES ASSUME NEW x, In(x), Len(x) = n + 1 PROVE FlattenSeq(x) \in Seq(X)
      OBVIOUS
    <2>2. PICK t : t = [i \in 1..n |-> x[i]]
      OBVIOUS
    <2>3. Flat(t) /\ Len(t) = n /\ FlattenSeq(x) = FlattenSeq(t) \o x[n + 1]
      BY <1>1, <2>1, <2>2, FlattenStep
    <2>4. x[n + 1] \in Seq(X) /\ \A i \in 1..n : t[i] \in Seq(X)
      BY <2>1, <2>2
    <2>5. FlattenSeq(t) \in Seq(X)
      BY <1>3, <2>3, <2>4 DEF Flat
    <2>6. QED
      BY <2>3, <2>4, <2>5
  <1>4. Flat(s)
    BY <1>1
  <1> HIDE DEF S
  <1>5. Nat \subseteq S
    BY <1>2, <1>3, Induct
  <1>6. Len(s) \in S
    BY <1>5, ListFacts
  <1>7. QED
    BY <1>4, <1>6 DEF S

\* One list among empty ones is what they flatten to.
LEMMA FlattenOnly ==
  ASSUME NEW s, List(s), NEW i \in 1..Len(s), List(s[i]),
         \A j \in 1..Len(s) : j # i => s[j] = <<>>
  PROVE  FlattenSeq(s) = s[i]
  <1> DEFINE Only(x, k) == /\ List(x) /\ k \in 1..Len(x) /\ List(x[k])
                           /\ \A j \in 1..Len(x) : j # k => x[j] = <<>>
             S == {n \in Nat : \A x, k : Only(x, k) /\ Len(x) = n => FlattenSeq(x) = x[k]}
  <1>1. 0 \in S
    OBVIOUS
  <1>2. ASSUME NEW n \in Nat, n \in S PROVE n + 1 \in S
    <2>1. SUFFICES ASSUME NEW x, NEW k, Only(x, k), Len(x) = n + 1 PROVE FlattenSeq(x) = x[k]
      OBVIOUS
    <2>2. Flat(x)
      BY <2>1, Empties DEF Flat
    <2>3. PICK t : t = [j \in 1..n |-> x[j]]
      OBVIOUS
    <2>4. Flat(t) /\ Len(t) = n /\ FlattenSeq(x) = FlattenSeq(t) \o x[n + 1]
      BY <2>1, <2>2, <2>3, FlattenStep
    <2>5. CASE k = n + 1
      <3>1. \A j \in 1..n : t[j] = <<>>
        BY <2>1, <2>3, <2>5
      <3>2. FlattenSeq(t) = <<>>
        BY <2>4, <3>1, FlattenNone DEF Flat
      <3>3. QED
        BY <2>1, <2>4, <2>5, <3>2, Empties
    <2>6. CASE k # n + 1
      <3>1. k \in 1..n /\ x[n + 1] = <<>>
        BY <2>1, <2>6
      <3>2. Only(t, k) /\ t[k] = x[k]
        BY <2>1, <2>3, <2>4, <3>1 DEF Flat
      <3>3. FlattenSeq(t) = x[k]
        BY <1>2, <2>4, <3>2
      <3>4. QED
        BY <2>1, <2>4, <3>1, <3>3, Empties
    <2>7. QED
      BY <2>5, <2>6
  <1> HIDE DEF S
  <1>3. Nat \subseteq S
    BY <1>1, <1>2, Induct
  <1>4. Len(s) \in S
    BY <1>3, ListFacts
  <1>5. QED
    BY <1>4 DEF S

\* Two lists of lists, one after the other, flatten one after the other.
LEMMA FlattenJoin ==
  ASSUME NEW a, NEW b, Flat(a), Flat(b)
  PROVE  Flat(a \o b) /\ FlattenSeq(a \o b) = FlattenSeq(a) \o FlattenSeq(b)
  <1> DEFINE S == {n \in Nat : \A x : Flat(x) /\ Len(x) = n =>
                     FlattenSeq(a \o x) = FlattenSeq(a) \o FlattenSeq(x)}
  <1>0. ASSUME NEW x, Flat(x)
        PROVE  /\ Flat(a \o x) /\ Len(a \o x) = Len(a) + Len(x)
               /\ Len(a) \in Nat /\ Len(x) \in Nat
               /\ \A i \in 1..Len(a) : (a \o x)[i] = a[i]
               /\ \A i \in 1..Len(x) : (a \o x)[Len(a) + i] = x[i]
    <2>1. /\ List(a \o x) /\ Len(a \o x) = Len(a) + Len(x)
          /\ Len(a) \in Nat /\ Len(x) \in Nat
          /\ \A i \in 1..Len(a) : (a \o x)[i] = a[i]
          /\ \A i \in 1..Len(x) : (a \o x)[Len(a) + i] = x[i]
      BY <1>0, Joined, ListFacts DEF Flat
    <2>2. ASSUME NEW i \in 1..Len(a \o x) PROVE List((a \o x)[i])
      <3>1. CASE i \in 1..Len(a)
        BY <2>1, <3>1 DEF Flat
      <3>2. CASE i \notin 1..Len(a)
        <4>1. i - Len(a) \in 1..Len(x) /\ i = Len(a) + (i - Len(a))
          BY <2>1, <3>2
        <4>2. QED
          BY <1>0, <2>1, <4>1 DEF Flat
      <3>3. QED
        BY <3>1, <3>2
    <2>3. QED
      BY <2>1, <2>2 DEF Flat
  <1>1. 0 \in S
    <2>1. SUFFICES ASSUME NEW x, Flat(x), Len(x) = 0
                   PROVE  FlattenSeq(a \o x) = FlattenSeq(a) \o FlattenSeq(x)
      OBVIOUS
    <2>2. x = <<>> /\ a \o x = a
      BY <2>1, Empties DEF Flat
    <2>3. List(FlattenSeq(a))
      BY FlattenList
    <2>4. QED
      BY <2>2, <2>3, Empties, FlattenNil
  <1>2. ASSUME NEW n \in Nat, n \in S PROVE n + 1 \in S
    <2>1. SUFFICES ASSUME NEW x, Flat(x), Len(x) = n + 1
                   PROVE  FlattenSeq(a \o x) = FlattenSeq(a) \o FlattenSeq(x)
      OBVIOUS
    <2>2. PICK t : t = [i \in 1..n |-> x[i]]
      OBVIOUS
    <2>3. Flat(t) /\ Len(t) = n /\ FlattenSeq(x) = FlattenSeq(t) \o x[n + 1]
      BY <2>1, <2>2, FlattenStep
    <2>4. PICK m \in Nat : m = Len(a) + n
      BY ListFacts DEF Flat
    <2>5. Len(a \o x) = m + 1 /\ Flat(a \o x)
      <3>1. Flat(a \o x) /\ Len(a \o x) = Len(a) + Len(x)
        BY <1>0, <2>1
      <3>2. QED
        BY <2>1, <2>4, <3>1
    <2>6. PICK u : u = [i \in 1..m |-> (a \o x)[i]]
      OBVIOUS
    <2>7. Flat(u) /\ Len(u) = m /\ FlattenSeq(a \o x) = FlattenSeq(u) \o (a \o x)[m + 1]
      BY <2>5, <2>6, FlattenStep
    <2>8. u = a \o t
      <3>1. Len(a \o t) = m /\ List(a \o t)
        BY <1>0, <2>3, <2>4 DEF Flat
      <3>2. ASSUME NEW i \in 1..m PROVE u[i] = (a \o t)[i]
        <4>1. CASE i \in 1..Len(a)
          BY <1>0, <2>1, <2>3, <2>6, <4>1
        <4>2. CASE i \notin 1..Len(a)
          <5>1. PICK k \in 1..n : i = Len(a) + k
            <6>1. i - Len(a) \in 1..n /\ i = Len(a) + (i - Len(a))
              BY <1>0, <2>1, <2>4, <4>2
            <6>2. QED
              BY <6>1
          <5>2. (a \o t)[i] = t[k] /\ (a \o x)[i] = x[k]
            BY <1>0, <2>1, <2>3, <5>1
          <5>3. QED
            BY <2>2, <2>6, <5>2
        <4>3. QED
          BY <4>1, <4>2
      <3>3. QED
        BY <2>7, <3>1, <3>2, ListsEqual DEF Flat
    <2>9. (a \o x)[m + 1] = x[n + 1]
      <3>1. m + 1 = Len(a) + (n + 1) /\ n + 1 \in 1..Len(x)
        BY <1>0, <2>1, <2>4
      <3>2. QED
        BY <1>0, <2>1, <3>1
    <2>10. FlattenSeq(u) = FlattenSeq(a) \o FlattenSeq(t)
      BY <1>2, <2>3, <2>8
    <2>11. List(FlattenSeq(a)) /\ List(FlattenSeq(t)) /\ List(x[n + 1])
      BY <2>1, <2>3, FlattenList DEF Flat
    <2>12. PICK p, q, r : p = FlattenSeq(a) /\ q = FlattenSeq(t) /\ r = x[n + 1]
      OBVIOUS
    <2>13. (p \o q) \o r = p \o (q \o r)
      <3>1. List(p) /\ List(q) /\ List(r)
        BY <2>11, <2>12
      <3>2. QED
        BY <3>1, JoinsAssociate
    <2>14. FlattenSeq(a \o x) = (p \o q) \o r
      BY <2>7, <2>9, <2>10, <2>12
    <2>15. FlattenSeq(a) \o FlattenSeq(x) = p \o (q \o r)
      BY <2>3, <2>12
    <2>16. QED
      BY <2>13, <2>14, <2>15
  <1> HIDE DEF S
  <1>3. Nat \subseteq S
    BY <1>1, <1>2, Induct
  <1>4. Len(b) \in S
    BY <1>3, ListFacts DEF Flat
  <1>5. QED
    BY <1>0, <1>4 DEF S


Mapped(g, p) == [k \in 1..Len(p) |-> g[p[k]]]

\* s has at most one value at each place, and u what g makes of it.
Images(g, s, u) ==
  /\ List(s) /\ List(u) /\ Len(u) = Len(s)
  /\ \A i \in 1..Len(s) : \/ s[i] = <<>> /\ u[i] = <<>>
                          \/ \E x : s[i] = <<x>> /\ u[i] = g[x] /\ List(u[i])

\* To map a list of optional values and to flatten it are done in either order.
LEMMA FlattenMap ==
  ASSUME NEW g, NEW s, NEW u, Images(g, s, u)
  PROVE  FlattenSeq(Mapped(g, FlattenSeq(s))) = FlattenSeq(u)
  <1> DEFINE Same(x, y) == /\ Flat(Mapped(g, FlattenSeq(x)))
                           /\ FlattenSeq(Mapped(g, FlattenSeq(x))) = FlattenSeq(y)
             S == {n \in Nat : \A x, y : Images(g, x, y) /\ Len(x) = n => Same(x, y)}
  <1>1. 0 \in S
    <2>1. SUFFICES ASSUME NEW x, NEW y, Images(g, x, y), Len(x) = 0 PROVE Same(x, y)
      OBVIOUS
    <2>2. x = <<>> /\ y = <<>>
      BY <2>1, Empties DEF Images
    <2>3. FlattenSeq(x) = <<>> /\ FlattenSeq(y) = <<>>
      BY <2>2, FlattenNil
    <2>4. List(Mapped(g, <<>>)) /\ Len(Mapped(g, <<>>)) = 0
      BY Empties, ListMade DEF Mapped
    <2>5. Mapped(g, <<>>) = <<>>
      BY <2>4, Empties
    <2>6. QED
      BY <2>3, <2>4, <2>5, FlattenNil DEF Flat
  <1>2. ASSUME NEW n \in Nat, n \in S PROVE n + 1 \in S
    <2>1. SUFFICES ASSUME NEW x, NEW y, Images(g, x, y), Len(x) = n + 1 PROVE Same(x, y)
      OBVIOUS
    <2>2. Flat(x) /\ Flat(y) /\ Len(y) = n + 1
      <3>1. List(x) /\ List(y) /\ Len(y) = n + 1
        BY <2>1 DEF Images
      <3>2. ASSUME NEW i \in 1..Len(x) PROVE List(x[i]) /\ List(y[i])
        <4>1. \/ x[i] = <<>> /\ y[i] = <<>>
              \/ \E e : x[i] = <<e>> /\ y[i] = g[e] /\ List(y[i])
          BY <2>1 DEF Images
        <4>2. QED
          BY <4>1, One, Empties
      <3>3. QED
        BY <2>1, <3>1, <3>2 DEF Flat
    <2>3. PICK t, v : t = [i \in 1..n |-> x[i]] /\ v = [i \in 1..n |-> y[i]]
      OBVIOUS
    <2>4. Flat(t) /\ Len(t) = n /\ FlattenSeq(x) = FlattenSeq(t) \o x[n + 1]
      BY <2>1, <2>2, <2>3, FlattenStep
    <2>5. Flat(v) /\ Len(v) = n /\ FlattenSeq(y) = FlattenSeq(v) \o y[n + 1]
      BY <2>2, <2>3, FlattenStep
    <2>6. Images(g, t, v)
      BY <2>1, <2>3, <2>4, <2>5 DEF Images, Flat
    <2>7. Same(t, v)
      BY <1>2, <2>4, <2>6
    <2> DEFINE p == FlattenSeq(t)
    <2>8. List(p) /\ List(FlattenSeq(v))
      BY <2>4, <2>5, FlattenList
    <2>9. n + 1 \in 1..Len(x)
      BY <2>1
    <2>10. CASE x[n + 1] = <<>> /\ y[n + 1] = <<>>
      <3>1. FlattenSeq(x) = FlattenSeq(t) /\ FlattenSeq(y) = FlattenSeq(v)
        BY <2>4, <2>5, <2>8, <2>10, Empties
      <3>2. QED
        BY <2>7, <3>1
    <2>11. ASSUME NEW e, x[n + 1] = <<e>>, y[n + 1] = g[e], List(y[n + 1]) PROVE Same(x, y)
      <3> DEFINE w == p \o <<e>>
                 m == Mapped(g, w)
                 l == Len(p)
      <3>1. /\ List(w) /\ Len(w) = l + 1 /\ l \in Nat
            /\ \A i \in 1..l : w[i] = p[i]
            /\ w[l + 1] = e
        <4>1. /\ List(w) /\ Len(w) = l + 1 /\ l \in Nat
              /\ \A i \in 1..l : w[i] = p[i]
              /\ \A i \in 1..1 : w[l + i] = <<e>>[i]
          BY <2>8, Joined, One, ListFacts
        <4>2. QED
          BY <4>1
      <3> HIDE DEF p, w, l
      <3>2. List(m) /\ Len(m) = l + 1
        BY <3>1, ListMade DEF Mapped
      <3>3. Mapped(g, p) = [i \in 1..l |-> m[i]] /\ m[l + 1] = g[e]
        BY <3>1 DEF Mapped, l
      <3>4. Flat(m)
        <4>1. Flat(Mapped(g, p)) /\ Len(Mapped(g, p)) = l
          BY <2>7, <2>8, <3>1, ListMade DEF p, l, Mapped
        <4>2. \A i \in 1..l : List(m[i])
          BY <3>3, <4>1 DEF Flat
        <4>3. List(m[l + 1])
          BY <2>11, <3>3
        <4>4. QED
          BY <3>1, <3>2, <4>2, <4>3 DEF Flat
      <3> HIDE DEF m
      <3>5. FlattenSeq(m) = FlattenSeq(Mapped(g, p)) \o m[l + 1]
        BY <3>1, <3>2, <3>3, <3>4, FlattenStep
      <3>6. FlattenSeq(m) = FlattenSeq(y)
        BY <2>5, <2>7, <2>11, <3>3, <3>5 DEF p
      <3>7. Mapped(g, FlattenSeq(x)) = m
        BY <2>4, <2>11 DEF m, w, p
      <3>8. QED
        BY <3>4, <3>6, <3>7
    <2>12. QED
      BY <2>1, <2>9, <2>10, <2>11 DEF Images
  <1> HIDE DEF S
  <1>3. Nat \subseteq S
    BY <1>1, <1>2, Induct
  <1>4. Len(s) \in S
    BY <1>3, ListFacts DEF Images
  <1>5. QED
    BY <1>4 DEF S


-------------------------------------------------------------------------------
(*                           Fields of a message                            *)

Has(f, n, wire) == f.n = n /\ f.wire = wire

\* Fields as a flattened list: one place for each field of m.
Places(m, n, wire) == [i \in DOMAIN m |-> Maybe(Has(m[i], n, wire), m[i])]

LEMMA FieldsPlaces ==
  ASSUME NEW m, List(m), NEW n, NEW wire
  PROVE  /\ Fields(m, n, wire) = FlattenSeq(Places(m, n, wire))
         /\ Flat(Places(m, n, wire)) /\ Len(Places(m, n, wire)) = Len(m)
         /\ \A i \in 1..Len(m) :
               Places(m, n, wire)[i] = IF Has(m[i], n, wire) THEN <<m[i]>> ELSE <<>>
  <1> DEFINE s == [i \in DOMAIN m |-> Maybe(Has(m[i], n, wire), m[i])]
  <1>0. Places(m, n, wire) = s
    BY DEF Places
  <1>1. Fields(m, n, wire) = FlattenSeq(s)
    BY DEF Fields, Gather, Has
  <1>2. s = [i \in 1..Len(m) |-> s[i]] /\ Len(m) \in Nat
    BY ListFacts
  <1>3. \A i \in 1..Len(m) : s[i] = Maybe(Has(m[i], n, wire), m[i])
    BY ListFacts
  <1>4. List(s) /\ Len(s) = Len(m)
    <2> HIDE DEF s
    <2>1. QED
      BY <1>2, ListMade
  <1>5. \A i \in 1..Len(m) : s[i] = IF Has(m[i], n, wire) THEN <<m[i]>> ELSE <<>>
    <2> HIDE DEF s
    <2>1. QED
      BY <1>3 DEF Maybe
  <1>6. Flat(s)
    <2> HIDE DEF s
    <2>1. QED
      BY <1>3, <1>4, MaybeIs DEF Flat
  <1> HIDE DEF s
  <1>7. QED
    BY <1>0, <1>1, <1>4, <1>5, <1>6

LEMMA FieldsList ==
  ASSUME NEW m, List(m), NEW n, NEW wire
  PROVE  List(Fields(m, n, wire))
  BY FieldsPlaces, FlattenList

LEMMA FieldsNone ==
  ASSUME NEW m, List(m), NEW n, NEW wire, \A i \in 1..Len(m) : ~Has(m[i], n, wire)
  PROVE  Fields(m, n, wire) = <<>>
  <1> DEFINE s == Places(m, n, wire)
  <1>1. /\ Fields(m, n, wire) = FlattenSeq(s)
        /\ Flat(s) /\ Len(s) = Len(m)
        /\ \A i \in 1..Len(m) : s[i] = IF Has(m[i], n, wire) THEN <<m[i]>> ELSE <<>>
    BY FieldsPlaces
  <1> HIDE DEF s
  <1>2. \A i \in 1..Len(s) : s[i] = <<>>
    BY <1>1
  <1>3. QED
    BY <1>1, <1>2, FlattenNone DEF Flat

LEMMA FieldsOnly ==
  ASSUME NEW m, List(m), NEW n, NEW wire, NEW i \in 1..Len(m), Has(m[i], n, wire),
         \A j \in 1..Len(m) : j # i => ~Has(m[j], n, wire)
  PROVE  Fields(m, n, wire) = <<m[i]>>
  <1> DEFINE s == Places(m, n, wire)
  <1>1. /\ Fields(m, n, wire) = FlattenSeq(s)
        /\ Flat(s) /\ Len(s) = Len(m)
        /\ \A j \in 1..Len(m) : s[j] = IF Has(m[j], n, wire) THEN <<m[j]>> ELSE <<>>
    BY FieldsPlaces
  <1> HIDE DEF s
  <1>2. s[i] = <<m[i]>> /\ \A j \in 1..Len(s) : j # i => s[j] = <<>>
    BY <1>1
  <1>3. QED
    BY <1>1, <1>2, FlattenOnly, One DEF Flat

LEMMA FieldsAll ==
  ASSUME NEW m, List(m), NEW n, NEW wire, \A i \in 1..Len(m) : Has(m[i], n, wire)
  PROVE  Fields(m, n, wire) = m
  <1> DEFINE s == Places(m, n, wire)
  <1>1. /\ Fields(m, n, wire) = FlattenSeq(s)
        /\ Flat(s) /\ Len(s) = Len(m)
        /\ \A j \in 1..Len(m) : s[j] = IF Has(m[j], n, wire) THEN <<m[j]>> ELSE <<>>
    BY FieldsPlaces
  <1> HIDE DEF s
  <1>2. \A i \in 1..Len(m) : s[i] = <<m[i]>>
    BY <1>1
  <1>3. s = [i \in 1..Len(m) |-> <<m[i]>>]
    BY <1>1, <1>2, ListFacts DEF Flat
  <1>4. FlattenSeq(s) = [i \in 1..Len(m) |-> m[i]]
    BY <1>3, FlattenOnes, ListFacts
  <1>5. QED
    BY <1>1, <1>4, ListFacts

\* The fields of two messages put together are the fields of each.
LEMMA FieldsJoin ==
  ASSUME NEW a, NEW b, List(a), List(b), NEW n, NEW wire
  PROVE  Fields(a \o b, n, wire) = Fields(a, n, wire) \o Fields(b, n, wire)
  <1> DEFINE c == a \o b
             pa == Places(a, n, wire)
             pb == Places(b, n, wire)
             pc == Places(c, n, wire)
  <1>1. /\ List(c) /\ Len(c) = Len(a) + Len(b)
        /\ \A i \in 1..Len(a) : c[i] = a[i]
        /\ \A i \in 1..Len(b) : c[Len(a) + i] = b[i]
        /\ Len(a) \in Nat /\ Len(b) \in Nat
    BY Joined, ListFacts
  <1> HIDE DEF c
  <1>2. /\ Fields(a, n, wire) = FlattenSeq(pa) /\ Flat(pa) /\ List(pa) /\ Len(pa) = Len(a)
        /\ \A i \in 1..Len(a) : pa[i] = IF Has(a[i], n, wire) THEN <<a[i]>> ELSE <<>>
    BY FieldsPlaces DEF Flat
  <1>3. /\ Fields(b, n, wire) = FlattenSeq(pb) /\ Flat(pb) /\ List(pb) /\ Len(pb) = Len(b)
        /\ \A i \in 1..Len(b) : pb[i] = IF Has(b[i], n, wire) THEN <<b[i]>> ELSE <<>>
    BY FieldsPlaces DEF Flat
  <1>4. /\ Fields(c, n, wire) = FlattenSeq(pc) /\ List(pc) /\ Len(pc) = Len(c)
        /\ \A i \in 1..Len(c) : pc[i] = IF Has(c[i], n, wire) THEN <<c[i]>> ELSE <<>>
    <2>1. List(c)
      BY <1>1
    <2>2. Fields(c, n, wire) = FlattenSeq(pc) /\ Flat(pc) /\ Len(pc) = Len(c)
      BY <2>1, FieldsPlaces
    <2>3. \A i \in 1..Len(c) : pc[i] = IF Has(c[i], n, wire) THEN <<c[i]>> ELSE <<>>
      BY <2>1, FieldsPlaces
    <2>4. List(pc)
      BY <2>2 DEF Flat
    <2>5. QED
      BY <2>2, <2>3, <2>4
  <1> HIDE DEF pa, pb, pc
  <1>5. /\ List(pa \o pb) /\ Len(pa \o pb) = Len(a) + Len(b)
        /\ \A i \in 1..Len(a) : (pa \o pb)[i] = pa[i]
        /\ \A i \in 1..Len(b) : (pa \o pb)[Len(a) + i] = pb[i]
    BY <1>2, <1>3, Joined
  <1>6. ASSUME NEW i \in 1..Len(c) PROVE pc[i] = (pa \o pb)[i]
    <2>1. CASE i \in 1..Len(a)
      <3>1. c[i] = a[i] /\ (pa \o pb)[i] = pa[i]
        BY <1>1, <1>5, <2>1
      <3>2. QED
        BY <1>2, <1>4, <2>1, <3>1
    <2>2. CASE i \notin 1..Len(a)
      <3>1. PICK k \in 1..Len(b) : i = Len(a) + k
        <4>1. i - Len(a) \in 1..Len(b) /\ i = Len(a) + (i - Len(a))
          BY <1>1, <2>2
        <4>2. QED
          BY <4>1
      <3>2. c[i] = b[k] /\ (pa \o pb)[i] = pb[k]
        BY <1>1, <1>5, <3>1
      <3>3. QED
        BY <1>3, <1>4, <3>2
    <2>3. QED
      BY <2>1, <2>2
  <1>7. pc = pa \o pb
    BY <1>1, <1>4, <1>5, <1>6, ListsEqual
  <1>8. FlattenSeq(pa \o pb) = FlattenSeq(pa) \o FlattenSeq(pb)
    BY <1>2, <1>3, FlattenJoin
  <1>9. QED
    BY <1>2, <1>3, <1>4, <1>7, <1>8 DEF c

LEMMA SubsAre ==
  ASSUME NEW m, NEW n, List(Fields(m, n, "len"))
  PROVE  /\ List(Subs(m, n)) /\ Len(Subs(m, n)) = Len(Fields(m, n, "len"))
         /\ \A i \in 1..Len(Subs(m, n)) : Subs(m, n)[i] = Fields(m, n, "len")[i].sub
         /\ Fields(m, n, "len") = <<>> => Subs(m, n) = <<>>
         /\ \A f : Fields(m, n, "len") = <<f>> => Subs(m, n) = <<f.sub>>
  <1> DEFINE s == Subs(m, n)
             l == Fields(m, n, "len")
  <1>1. Len(l) \in Nat /\ DOMAIN l = 1..Len(l)
    BY ListFacts
  <1>2. s = [i \in 1..Len(l) |-> l[i].sub]
    BY <1>1 DEF Subs
  <1> HIDE DEF s, l
  <1>3. List(s) /\ Len(s) = Len(l) /\ \A i \in 1..Len(s) : s[i] = l[i].sub
    BY <1>1, <1>2, ListMade
  <1>4. l = <<>> => s = <<>>
    BY <1>3, Empties
  <1>5. ASSUME NEW f, l = <<f>> PROVE s = <<f.sub>>
    <2>1. PICK x : x = <<f.sub>>
      OBVIOUS
    <2>2. List(x) /\ Len(x) = 1 /\ x[1] = f.sub
      BY <2>1, One
    <2>3. Len(s) = 1 /\ s[1] = f.sub
      BY <1>3, <1>5, One
    <2>4. \A i \in 1..Len(s) : s[i] = x[i]
      BY <2>2, <2>3
    <2>5. s = x
      BY <1>3, <2>2, <2>3, <2>4, ListsEqual
    <2>6. QED
      BY <2>1, <2>5
  <1>6. QED
    BY <1>3, <1>4, <1>5 DEF s, l


-------------------------------------------------------------------------------
(*                                 Varints                                  *)

\* f is writeVarint on D.
Writes(D, f) ==
  f = [n \in D |-> IF n > 127 THEN <<(n % 128) + 128>> \o f[n \div 128] ELSE <<n>>]

LEMMA Halves ==
  ASSUME NEW n \in Nat
  PROVE  /\ n % 128 \in 0..127 /\ n \div 128 \in Nat
         /\ n = 128 * (n \div 128) + (n % 128)
         /\ n > 127 => n \div 128 < n
         /\ n <= 127 => n % 128 = n
         /\ ((n % 128) + 128) % 128 = n % 128
  <1>1. n % 128 \in 0..127
    OBVIOUS
  <1>2. n \div 128 \in Nat
    OBVIOUS
  <1>3. n = 128 * (n \div 128) + (n % 128)
    OBVIOUS
  <1>4. n > 127 => n \div 128 < n
    BY <1>1, <1>2, <1>3
  <1>5. n <= 127 => n % 128 = n
    OBVIOUS
  <1>6. \A d \in 0..127 : (d + 128) % 128 = d
    OBVIOUS
  <1>7. QED
    BY <1>1, <1>2, <1>3, <1>4, <1>5, <1>6

LEMMA WritesAt ==
  ASSUME NEW D, NEW f, Writes(D, f), NEW n \in D
  PROVE  f[n] = IF n > 127 THEN <<(n % 128) + 128>> \o f[n \div 128] ELSE <<n>>
  <1> DEFINE e == [i \in D |-> IF i > 127 THEN <<(i % 128) + 128>> \o f[i \div 128] ELSE <<i>>]
  <1>1. f = e
    BY DEF Writes
  <1>2. e[n] = IF n > 127 THEN <<(n % 128) + 128>> \o f[n \div 128] ELSE <<n>>
    OBVIOUS
  <1> HIDE DEF e
  <1>3. QED
    BY <1>1, <1>2

LEMMA WritesUpTo ==
  ASSUME NEW k \in Nat
  PROVE  \E f : Writes(0..k, f)
  <1> DEFINE S == {n \in Nat : \E f : Writes(0..n, f)}
  <1>1. 0 \in S
    <2> DEFINE f == [n \in 0..0 |-> <<n>>]
    <2>1. f = [n \in 0..0 |-> IF n > 127 THEN <<(n % 128) + 128>> \o f[n \div 128] ELSE <<n>>]
      OBVIOUS
    <2>2. Writes(0..0, f)
      BY <2>1 DEF Writes
    <2>3. QED
      BY <2>2
  <1>2. ASSUME NEW n \in Nat, n \in S PROVE n + 1 \in S
    <2>1. PICK f : Writes(0..n, f)
      BY <1>2
    <2> DEFINE g == [i \in 0..(n + 1) |-> IF i > 127 THEN <<(i % 128) + 128>> \o f[i \div 128] ELSE <<i>>]
    <2>2. \A i \in 0..n : g[i] = f[i]
      <3>1. TAKE i \in 0..n
      <3>2. f[i] = IF i > 127 THEN <<(i % 128) + 128>> \o f[i \div 128] ELSE <<i>>
        <4> DEFINE D == 0..n
        <4>1. Writes(D, f) /\ i \in D
          BY <2>1
        <4> HIDE DEF D
        <4>2. QED
          BY <4>1, WritesAt
      <3>3. g[i] = IF i > 127 THEN <<(i % 128) + 128>> \o f[i \div 128] ELSE <<i>>
        OBVIOUS
      <3> HIDE DEF g
      <3>4. QED
        BY <3>2, <3>3
    <2>3. \A i \in 0..(n + 1) : i > 127 => i \div 128 \in 0..n
      BY Halves
    <2>4. g = [i \in 0..(n + 1) |-> IF i > 127 THEN <<(i % 128) + 128>> \o g[i \div 128] ELSE <<i>>]
      <3>1. \A i \in 0..(n + 1) : i > 127 => g[i \div 128] = f[i \div 128]
        BY <2>2, <2>3
      <3>2. QED
        BY <3>1
    <2> HIDE DEF g
    <2>5. Writes(0..(n + 1), g)
      BY <2>4 DEF Writes
    <2>6. QED
      BY <2>5
  <1> HIDE DEF S
  <1>3. Nat \subseteq S
    BY <1>1, <1>2, Induct
  <1>4. QED
    BY <1>3 DEF S

LEMMA WritesSame ==
  ASSUME NEW k \in Nat, NEW l \in Nat, k <= l, NEW f, NEW g, Writes(0..k, f), Writes(0..l, g)
  PROVE  \A n \in 0..k : f[n] = g[n]
  <1> DEFINE S == {n \in Nat : \A i \in 0..n : i <= k => f[i] = g[i]}
  <1>1. ASSUME NEW n \in 0..k, \A i \in 0..k : i < n => f[i] = g[i] PROVE f[n] = g[n]
    <2>1. n > 127 => n \div 128 \in 0..k /\ n \div 128 < n
      BY Halves
    <2>2. f[n] = IF n > 127 THEN <<(n % 128) + 128>> \o f[n \div 128] ELSE <<n>>
      BY WritesAt
    <2>3. n \in 0..l
      OBVIOUS
    <2>4. g[n] = IF n > 127 THEN <<(n % 128) + 128>> \o g[n \div 128] ELSE <<n>>
      BY <2>3, WritesAt
    <2>5. QED
      BY <1>1, <2>1, <2>2, <2>4
  <1>2. 0 \in S
    BY <1>1
  <1>3. ASSUME NEW n \in Nat, n \in S PROVE n + 1 \in S
    <2>1. \A i \in 0..n : i <= k => f[i] = g[i]
      BY <1>3
    <2>2. n + 1 <= k => f[n + 1] = g[n + 1]
      BY <1>1, <2>1
    <2>3. QED
      BY <2>1, <2>2
  <1> HIDE DEF S
  <1>4. Nat \subseteq S
    BY <1>2, <1>3, Induct
  <1>5. QED
    BY <1>4 DEF S

LEMMA WriteVarintIs ==
  ASSUME NEW n \in Nat
  PROVE  writeVarint[n] = IF n > 127 THEN <<(n % 128) + 128>> \o writeVarint[n \div 128] ELSE <<n>>
  <1> DEFINE at(k) == CHOOSE f : Writes(0..k, f)
             h == [k \in Nat |-> at(k)[k]]
  <1>1. \A k \in Nat : Writes(0..k, at(k))
    BY WritesUpTo
  <1> HIDE DEF at
  <1>2. ASSUME NEW k \in Nat
        PROVE  h[k] = IF k > 127 THEN <<(k % 128) + 128>> \o h[k \div 128] ELSE <<k>>
    <2> DEFINE q == k \div 128
    <2>1. k > 127 => q \in 0..k /\ q \in Nat /\ q <= k
      BY Halves
    <2>2. k > 127 => at(q)[q] = at(k)[q]
      <3>1. SUFFICES ASSUME k > 127 PROVE at(q)[q] = at(k)[q]
        OBVIOUS
      <3>2. Writes(0..q, at(q)) /\ Writes(0..k, at(k))
        BY <1>1, <2>1, <3>1
      <3> HIDE DEF q
      <3>3. QED
        BY <2>1, <3>1, <3>2, WritesSame
    <2>3. at(k)[k] = IF k > 127 THEN <<(k % 128) + 128>> \o at(k)[k \div 128] ELSE <<k>>
      BY <1>1, WritesAt
    <2>4. h[k] = at(k)[k] /\ (k > 127 => h[q] = at(q)[q])
      BY <2>1
    <2> HIDE DEF h
    <2>5. QED
      BY <2>2, <2>3, <2>4
  <1>3. h = [k \in Nat |-> IF k > 127 THEN <<(k % 128) + 128>> \o h[k \div 128] ELSE <<k>>]
    BY <1>2
  <1> HIDE DEF h
  <1>4. \E f : f = [k \in Nat |-> IF k > 127 THEN <<(k % 128) + 128>> \o f[k \div 128] ELSE <<k>>]
    BY <1>3
  <1>5. writeVarint = [k \in Nat |-> IF k > 127 THEN <<(k % 128) + 128>> \o writeVarint[k \div 128] ELSE <<k>>]
    BY <1>4 DEF writeVarint
  <1>6. Writes(Nat, writeVarint)
    BY <1>5 DEF Writes
  <1>7. QED
    BY <1>6, WritesAt


\* f[i] is what the bytes from the i-th on say.
Values(b, f) ==
  f = [i \in 1..(Len(b) + 1) |-> IF i > Len(b) THEN 0 ELSE (b[i] % 128) + 128 * f[i + 1]]

\* b has the top bit on all bytes but the last, and says n.
Says(b, n) ==
  /\ List(b) /\ Len(b) \in Nat \ {0}
  /\ \A i \in 1..Len(b) : b[i] \in Nat
  /\ b[Len(b)] < 128
  /\ \A i \in 1..Len(b) : i # Len(b) => b[i] >= 128
  /\ \E f : Values(b, f) /\ f[1] = n

LEMMA ValuesAt ==
  ASSUME NEW b, NEW f, Values(b, f), Len(b) \in Nat
  PROVE  \A i \in 1..(Len(b) + 1) : f[i] = IF i > Len(b) THEN 0 ELSE (b[i] % 128) + 128 * f[i + 1]
  <1> DEFINE e == [i \in 1..(Len(b) + 1) |-> IF i > Len(b) THEN 0 ELSE (b[i] % 128) + 128 * f[i + 1]]
  <1>1. f = e
    BY DEF Values
  <1>2. \A i \in 1..(Len(b) + 1) : e[i] = IF i > Len(b) THEN 0 ELSE (b[i] % 128) + 128 * f[i + 1]
    OBVIOUS
  <1> HIDE DEF e
  <1>3. QED
    BY <1>1, <1>2

LEMMA ValuesSame ==
  ASSUME NEW b, NEW f, NEW g, Values(b, f), Values(b, g), Len(b) \in Nat
  PROVE  f = g
  <1> DEFINE l == Len(b)
             S == {k \in Nat : k <= l => f[(l + 1) - k] = g[(l + 1) - k]}
  <1>0. l \in Nat
    OBVIOUS
  <1>1. \A i \in 1..(l + 1) : /\ f[i] = IF i > l THEN 0 ELSE (b[i] % 128) + 128 * f[i + 1]
                              /\ g[i] = IF i > l THEN 0 ELSE (b[i] % 128) + 128 * g[i + 1]
    BY ValuesAt
  <1> HIDE DEF l
  <1>2. 0 \in S
    BY <1>0, <1>1
  <1>3. ASSUME NEW k \in Nat, k \in S PROVE k + 1 \in S
    <2>1. SUFFICES ASSUME k + 1 <= l PROVE f[(l + 1) - (k + 1)] = g[(l + 1) - (k + 1)]
      OBVIOUS
    <2>2. PICK i \in 1..l : i = l - k
      BY <1>0, <2>1
    <2>3. (l + 1) - (k + 1) = i /\ (l + 1) - k = i + 1 /\ k <= l
      BY <1>0, <2>1, <2>2
    <2>4. f[i + 1] = g[i + 1]
      BY <1>3, <2>3
    <2>5. f[i] = g[i]
      BY <1>0, <1>1, <2>2, <2>4
    <2>6. QED
      BY <2>3, <2>5
  <1> HIDE DEF S
  <1>4. Nat \subseteq S
    BY <1>2, <1>3, Induct
  <1>5. \A i \in 1..(l + 1) : f[i] = g[i]
    <2>1. TAKE i \in 1..(l + 1)
    <2>2. PICK k \in Nat : k = (l + 1) - i
      BY <1>0
    <2>3. k \in S /\ k <= l /\ (l + 1) - k = i
      BY <1>0, <1>4, <2>2
    <2>4. QED
      BY <2>3 DEF S
  <1>6. QED
    BY <1>5 DEF Values, l

LEMMA OneByteSays ==
  ASSUME NEW n \in 0..127
  PROVE  Says(<<n>>, n)
  <1> DEFINE f == [i \in 1..2 |-> IF i > 1 THEN 0 ELSE n]
  <1>1. List(<<n>>) /\ Len(<<n>>) = 1 /\ <<n>>[1] = n
    BY One
  <1>2. (n % 128) + 128 * 0 = n
    BY Halves
  <1>3. f = [i \in 1..(1 + 1) |-> IF i > 1 THEN 0 ELSE (<<n>>[i] % 128) + 128 * f[i + 1]]
    BY <1>1, <1>2
  <1>4. Values(<<n>>, f)
    BY <1>1, <1>3 DEF Values
  <1>5. f[1] = n
    OBVIOUS
  <1> HIDE DEF f
  <1>6. QED
    BY <1>1, <1>4, <1>5 DEF Says

LEMMA OneByteMoreSays ==
  ASSUME NEW q \in Nat, NEW d \in 0..127, NEW b, Says(b, q)
  PROVE  Says(<<d + 128>> \o b, 128 * q + d)
  <1> DEFINE c == <<d + 128>> \o b
  <1>1. PICK l \in Nat \ {0} : l = Len(b)
    BY DEF Says
  <1>2. PICK f : Values(b, f) /\ f[1] = q
    BY DEF Says
  <1>3. /\ List(c) /\ Len(c) = l + 1
        /\ c[1] = d + 128 /\ \A i \in 1..l : c[i + 1] = b[i]
    <2>1. /\ List(c) /\ Len(c) = 1 + l
          /\ \A i \in 1..1 : c[i] = <<d + 128>>[i]
          /\ \A i \in 1..l : c[1 + i] = b[i]
      BY <1>1, One, Joined DEF Says
    <2> HIDE DEF c
    <2>2. \A i \in 1..l : c[i + 1] = b[i]
      <3>1. TAKE i \in 1..l
      <3>2. 1 + i = i + 1
        OBVIOUS
      <3>3. QED
        BY <2>1, <3>2
    <2>3. QED
      BY <1>1, <2>1, <2>2
  <1> HIDE DEF c
  <1>4. \A i \in 1..(l + 1) : f[i] = IF i > l THEN 0 ELSE (b[i] % 128) + 128 * f[i + 1]
    BY <1>1, <1>2, ValuesAt
  <1>5. \A i \in 2..(l + 1) : c[i] = b[i - 1] /\ i - 1 \in 1..l
    <2>1. TAKE i \in 2..(l + 1)
    <2>2. i - 1 \in 1..l /\ (i - 1) + 1 = i
      BY <1>1
    <2>3. QED
      BY <1>3, <2>2
  <1> DEFINE g == [i \in 1..(l + 2) |-> IF i = 1 THEN 128 * q + d ELSE f[i - 1]]
  <1>6. ASSUME NEW i \in 1..(l + 2)
        PROVE  g[i] = IF i > l + 1 THEN 0 ELSE (c[i] % 128) + 128 * g[i + 1]
    <2>1. CASE i = 1
      <3>1. (c[1] % 128) = d
        <4>1. (d + 128) % 128 = d
          OBVIOUS
        <4>2. QED
          BY <1>3, <4>1
      <3>2. g[1] = 128 * q + d /\ g[2] = q
        BY <1>1, <1>2
      <3>3. QED
        BY <1>1, <2>1, <3>1, <3>2
    <2>2. CASE i \in 2..(l + 1)
      <3>1. c[i] = b[i - 1] /\ i - 1 \in 1..l
        BY <1>5, <2>2
      <3>2. g[i] = f[i - 1] /\ g[i + 1] = f[i]
        BY <1>1, <2>2
      <3>3. f[i - 1] = (b[i - 1] % 128) + 128 * f[i]
        <4>1. PICK j \in 1..l : j = i - 1
          BY <3>1
        <4>2. f[j] = (b[j] % 128) + 128 * f[j + 1]
          BY <1>1, <1>4
        <4>3. j + 1 = i
          BY <4>1, <2>2, <1>1
        <4>4. QED
          BY <4>1, <4>2, <4>3
      <3>4. QED
        BY <1>1, <2>2, <3>1, <3>2, <3>3
    <2>3. CASE i = l + 2
      <3>0. PICK k \in 1..(l + 1), j \in 1..(l + 2) :
              k = l + 1 /\ j = l + 2 /\ j # 1 /\ j - 1 = k /\ k > l
        BY <1>1
      <3>a. f[k] = 0
        BY <1>4, <3>0
      <3>b. g[j] = f[k]
        BY <3>0
      <3>1. g[l + 2] = f[l + 1] /\ f[l + 1] = 0
        BY <3>0, <3>a, <3>b
      <3>2. QED
        BY <1>1, <2>3, <3>1
    <2>4. QED
      BY <1>1, <2>1, <2>2, <2>3
  <1>7. g = [i \in 1..(l + 2) |-> IF i > l + 1 THEN 0 ELSE (c[i] % 128) + 128 * g[i + 1]]
    <2>1. g = [i \in 1..(l + 2) |-> g[i]]
      OBVIOUS
    <2> HIDE DEF g
    <2>2. QED
      BY <1>6, <2>1
  <1>8. g[1] = 128 * q + d
    BY <1>1
  <1> HIDE DEF g
  <1>9. Values(c, g)
    <2>1. Len(c) = l + 1 /\ (l + 1) + 1 = l + 2
      BY <1>1, <1>3
    <2>2. QED
      BY <1>7, <2>1 DEF Values
  <1>10. \A i \in 1..(l + 1) : c[i] \in Nat /\ (i # l + 1 => c[i] >= 128)
    <2>1. TAKE i \in 1..(l + 1)
    <2>2. CASE i = 1
      BY <1>3, <2>2
    <2>3. CASE i # 1
      BY <1>1, <1>5, <2>3 DEF Says
    <2>4. QED
      BY <2>2, <2>3
  <1>11. c[l + 1] = b[l]
    BY <1>1, <1>3
  <1>12. QED
    BY <1>1, <1>3, <1>8, <1>9, <1>10, <1>11 DEF Says, c

\* What writeVarint makes of a number says that number.
LEMMA WrittenSays ==
  ASSUME NEW n \in Nat
  PROVE  Says(writeVarint[n], n)
  <1> DEFINE S == {k \in Nat : \A i \in 0..k : Says(writeVarint[i], i)}
  <1>1. ASSUME NEW i \in Nat, \A j \in Nat : j < i => Says(writeVarint[j], j)
        PROVE  Says(writeVarint[i], i)
    <2>1. CASE i <= 127
      <3>1. i \in 0..127 /\ ~(i > 127)
        BY <2>1
      <3>2. writeVarint[i] = IF i > 127 THEN <<(i % 128) + 128>> \o writeVarint[i \div 128] ELSE <<i>>
        BY WriteVarintIs
      <3>3. writeVarint[i] = <<i>>
        BY <3>1, <3>2
      <3>4. QED
        BY <3>1, <3>3, OneByteSays
    <2>2. CASE i > 127
      <3>1. PICK q \in Nat, d \in 0..127 : q = i \div 128 /\ d = (i % 128)
        BY Halves
      <3>2. q < i /\ i = 128 * q + d
        BY <2>2, <3>1, Halves
      <3>3. writeVarint[i] = <<d + 128>> \o writeVarint[q]
        BY <2>2, <3>1, WriteVarintIs
      <3>4. Says(writeVarint[q], q)
        BY <1>1, <3>2
      <3>5. QED
        BY <3>2, <3>3, <3>4, OneByteMoreSays
    <2>3. QED
      BY <2>1, <2>2
  <1>2. 0 \in S
    BY <1>1
  <1>3. ASSUME NEW k \in Nat, k \in S PROVE k + 1 \in S
    <2>1. Says(writeVarint[k + 1], k + 1)
      BY <1>1, <1>3
    <2>2. QED
      BY <1>3, <2>1
  <1> HIDE DEF S
  <1>4. Nat \subseteq S
    BY <1>2, <1>3, Induct
  <1>5. QED
    BY <1>4 DEF S

\* What readVarint makes of bytes is what they say.
LEMMA ReadSays ==
  ASSUME NEW b, NEW n, Says(b, n)
  PROVE  readVarint(b) = n
  <1> DEFINE IsLast(i) == /\ b[i] < 128 \/ i = Len(b)
                          /\ \A j \in 1..(i - 1) : b[j] >= 128
             last == CHOOSE i \in DOMAIN b : IsLast(i)
  <1>1. PICK l \in Nat \ {0} : l = Len(b) /\ DOMAIN b = 1..l
    BY ListFacts DEF Says
  <1>2. IsLast(l) /\ l \in DOMAIN b
    BY <1>1 DEF Says
  <1>3. \A i \in DOMAIN b : IsLast(i) => i = l
    BY <1>1 DEF Says
  <1> HIDE DEF IsLast
  <1>4. last = l
    BY <1>2, <1>3
  <1> HIDE DEF last
  <1> DEFINE value == CHOOSE f : f = [i \in 1..(last + 1) |->
                                       IF i > last THEN 0 ELSE (b[i] % 128) + 128 * f[i + 1]]
  <1>5. readVarint(b) = value[1]
    BY DEF readVarint, last, IsLast
  <1>6. PICK f : Values(b, f) /\ f[1] = n
    BY DEF Says
  <1>7. Values(b, value)
    <2>1. last = Len(b)
      BY <1>1, <1>4
    <2>2. f = [i \in 1..(last + 1) |-> IF i > last THEN 0 ELSE (b[i] % 128) + 128 * f[i + 1]]
      BY <1>6, <2>1 DEF Values
    <2>3. value = [i \in 1..(last + 1) |-> IF i > last THEN 0 ELSE (b[i] % 128) + 128 * value[i + 1]]
      BY <2>2
    <2> HIDE DEF value
    <2>4. QED
      BY <2>1, <2>3 DEF Values
  <1> HIDE DEF value
  <1>8. value = f
    BY <1>1, <1>6, <1>7, ValuesSame
  <1>9. QED
    BY <1>5, <1>6, <1>8

\* A number is read off the wire as it was written, whatever its size (writeVarint
\* and readVarint of proto.ts, which multiplies where a shift would wrap).
THEOREM VarintRoundTrip == \A n \in Nat : readVarint(writeVarint[n]) = n
  BY WrittenSays, ReadSays


-------------------------------------------------------------------------------
(*                        Walking down a message                            *)

Subfields(level, n) == Gather(level, LAMBDA f : walkLenAll(f.sub, n))
Below(ms) == UNION {ToSet([i \in DOMAIN UpToMalformed(x) |-> UpToMalformed(x)[i].sub]) : x \in ms}
Wider(ms) == ms \cup Below(ms)

\* f is what the k-th step of the path reaches, for each k up to n.
LevelsUpTo(m, path, n, f) ==
  f = [k \in 0..n |-> IF k = 0 THEN <<m>> ELSE Down(f[k - 1], path[k])]
WalkPathUpTo(m, path, n, f) ==
  f = [k \in 0..n |-> IF k = 0 THEN m ELSE walkLen(f[k - 1], path[k])]
WalkPathAllUpTo(m, path, n, f) ==
  f = [k \in 0..n |-> IF k = 0 THEN <<Sub(0, m)>> ELSE Subfields(f[k - 1], path[k])]
ReachedUpTo(m, n, f) == f = [k \in 0..n |-> IF k = 0 THEN {m} ELSE Wider(f[k - 1])]

\* The recursive functions of the walks, unfolded one step at a time.
LEMMA LevelsExists ==
  ASSUME NEW m, NEW path, NEW n \in Nat
  PROVE  \E f : LevelsUpTo(m, path, n, f)
  <1> DEFINE S == {l \in Nat : \E f : LevelsUpTo(m, path, l, f)}
  <1>1. 0 \in S
    <2> DEFINE f == [k \in 0..0 |-> <<m>>]
    <2>1. f = [k \in 0..0 |-> IF k = 0 THEN <<m>> ELSE Down(f[k - 1], path[k])]
      OBVIOUS
    <2> HIDE DEF f
    <2>2. QED
      BY <2>1 DEF LevelsUpTo
  <1>2. ASSUME NEW l \in Nat, l \in S PROVE l + 1 \in S
    <2>1. PICK f : LevelsUpTo(m, path, l, f)
      BY <1>2
    <2> DEFINE g == [k \in 0..(l + 1) |-> IF k = 0 THEN <<m>> ELSE Down(f[k - 1], path[k])]
    <2>2. \A k \in 0..(l + 1) : k # 0 => g[k - 1] = f[k - 1]
      <3>1. TAKE k \in 0..(l + 1)
      <3>2. SUFFICES ASSUME k # 0 PROVE g[k - 1] = f[k - 1]
        OBVIOUS
      <3>3. PICK j \in 0..l : j = k - 1
        BY <3>2
      <3>4. g[j] = f[j]
        BY <2>1 DEF LevelsUpTo
      <3>5. QED
        BY <3>3, <3>4
    <2>3. g = [k \in 0..(l + 1) |-> IF k = 0 THEN <<m>> ELSE Down(g[k - 1], path[k])]
      BY <2>2
    <2> HIDE DEF g
    <2>4. QED
      BY <2>3 DEF LevelsUpTo
  <1> HIDE DEF S
  <1>3. Nat \subseteq S
    BY <1>1, <1>2, Induct
  <1>4. QED
    BY <1>3 DEF S


LEMMA WalkPathExists ==
  ASSUME NEW m, NEW path, NEW n \in Nat
  PROVE  \E f : WalkPathUpTo(m, path, n, f)
  <1> DEFINE S == {l \in Nat : \E f : WalkPathUpTo(m, path, l, f)}
  <1>1. 0 \in S
    <2> DEFINE f == [k \in 0..0 |-> m]
    <2>1. f = [k \in 0..0 |-> IF k = 0 THEN m ELSE walkLen(f[k - 1], path[k])]
      OBVIOUS
    <2> HIDE DEF f
    <2>2. QED
      BY <2>1 DEF WalkPathUpTo
  <1>2. ASSUME NEW l \in Nat, l \in S PROVE l + 1 \in S
    <2>1. PICK f : WalkPathUpTo(m, path, l, f)
      BY <1>2
    <2> DEFINE g == [k \in 0..(l + 1) |-> IF k = 0 THEN m ELSE walkLen(f[k - 1], path[k])]
    <2>2. \A k \in 0..(l + 1) : k # 0 => g[k - 1] = f[k - 1]
      <3>1. TAKE k \in 0..(l + 1)
      <3>2. SUFFICES ASSUME k # 0 PROVE g[k - 1] = f[k - 1]
        OBVIOUS
      <3>3. PICK j \in 0..l : j = k - 1
        BY <3>2
      <3>4. g[j] = f[j]
        BY <2>1 DEF WalkPathUpTo
      <3>5. QED
        BY <3>3, <3>4
    <2>3. g = [k \in 0..(l + 1) |-> IF k = 0 THEN m ELSE walkLen(g[k - 1], path[k])]
      BY <2>2
    <2> HIDE DEF g
    <2>4. QED
      BY <2>3 DEF WalkPathUpTo
  <1> HIDE DEF S
  <1>3. Nat \subseteq S
    BY <1>1, <1>2, Induct
  <1>4. QED
    BY <1>3 DEF S


LEMMA WalkPathAllExists ==
  ASSUME NEW m, NEW path, NEW n \in Nat
  PROVE  \E f : WalkPathAllUpTo(m, path, n, f)
  <1> DEFINE S == {l \in Nat : \E f : WalkPathAllUpTo(m, path, l, f)}
  <1>1. 0 \in S
    <2> DEFINE f == [k \in 0..0 |-> <<Sub(0, m)>>]
    <2>1. f = [k \in 0..0 |-> IF k = 0 THEN <<Sub(0, m)>> ELSE Subfields(f[k - 1], path[k])]
      OBVIOUS
    <2> HIDE DEF f
    <2>2. QED
      BY <2>1 DEF WalkPathAllUpTo
  <1>2. ASSUME NEW l \in Nat, l \in S PROVE l + 1 \in S
    <2>1. PICK f : WalkPathAllUpTo(m, path, l, f)
      BY <1>2
    <2> DEFINE g == [k \in 0..(l + 1) |-> IF k = 0 THEN <<Sub(0, m)>> ELSE Subfields(f[k - 1], path[k])]
    <2>2. \A k \in 0..(l + 1) : k # 0 => g[k - 1] = f[k - 1]
      <3>1. TAKE k \in 0..(l + 1)
      <3>2. SUFFICES ASSUME k # 0 PROVE g[k - 1] = f[k - 1]
        OBVIOUS
      <3>3. PICK j \in 0..l : j = k - 1
        BY <3>2
      <3>4. g[j] = f[j]
        BY <2>1 DEF WalkPathAllUpTo
      <3>5. QED
        BY <3>3, <3>4
    <2>3. g = [k \in 0..(l + 1) |-> IF k = 0 THEN <<Sub(0, m)>> ELSE Subfields(g[k - 1], path[k])]
      BY <2>2
    <2> HIDE DEF g
    <2>4. QED
      BY <2>3 DEF WalkPathAllUpTo
  <1> HIDE DEF S
  <1>3. Nat \subseteq S
    BY <1>1, <1>2, Induct
  <1>4. QED
    BY <1>3 DEF S


LEMMA ReachedExists ==
  ASSUME NEW m, NEW n \in Nat
  PROVE  \E f : ReachedUpTo(m, n, f)
  <1> DEFINE S == {l \in Nat : \E f : ReachedUpTo(m, l, f)}
  <1>1. 0 \in S
    <2> DEFINE f == [k \in 0..0 |-> {m}]
    <2>1. f = [k \in 0..0 |-> IF k = 0 THEN {m} ELSE Wider(f[k - 1])]
      OBVIOUS
    <2> HIDE DEF f
    <2>2. QED
      BY <2>1 DEF ReachedUpTo
  <1>2. ASSUME NEW l \in Nat, l \in S PROVE l + 1 \in S
    <2>1. PICK f : ReachedUpTo(m, l, f)
      BY <1>2
    <2> DEFINE g == [k \in 0..(l + 1) |-> IF k = 0 THEN {m} ELSE Wider(f[k - 1])]
    <2>2. \A k \in 0..(l + 1) : k # 0 => g[k - 1] = f[k - 1]
      <3>1. TAKE k \in 0..(l + 1)
      <3>2. SUFFICES ASSUME k # 0 PROVE g[k - 1] = f[k - 1]
        OBVIOUS
      <3>3. PICK j \in 0..l : j = k - 1
        BY <3>2
      <3>4. f[j] = IF j = 0 THEN {m} ELSE Wider(f[j - 1])
        BY <2>1 DEF ReachedUpTo
      <3>5. g[j] = IF j = 0 THEN {m} ELSE Wider(f[j - 1])
        OBVIOUS
      <3> HIDE DEF g
      <3>6. QED
        BY <3>3, <3>4, <3>5
    <2>3. g = [k \in 0..(l + 1) |-> IF k = 0 THEN {m} ELSE Wider(g[k - 1])]
      BY <2>2
    <2> HIDE DEF g
    <2>4. QED
      BY <2>3 DEF ReachedUpTo
  <1> HIDE DEF S
  <1>3. Nat \subseteq S
    BY <1>1, <1>2, Induct
  <1>4. QED
    BY <1>3 DEF S

LEMMA LevelsAre ==
  ASSUME NEW m, NEW path, NEW n \in Nat, Len(path) = n
  PROVE  \A k \in 0..n : Levels(m, path)[k] =
                           IF k = 0 THEN <<m>> ELSE Down(Levels(m, path)[k - 1], path[k])
  <1> DEFINE h == CHOOSE f : f = [k \in 0..n |-> IF k = 0 THEN <<m>> ELSE Down(f[k - 1], path[k])]
             e == [k \in 0..n |-> IF k = 0 THEN <<m>> ELSE Down(h[k - 1], path[k])]
  <1>1. \E f : LevelsUpTo(m, path, n, f)
    BY LevelsExists
  <1>2. h = e
    BY <1>1 DEF LevelsUpTo
  <1>3. \A k \in 0..n : e[k] = IF k = 0 THEN <<m>> ELSE Down(h[k - 1], path[k])
    OBVIOUS
  <1>4. Levels(m, path) = h
    BY DEF Levels
  <1> HIDE DEF h, e
  <1>5. \A k \in 0..n : h[k] = IF k = 0 THEN <<m>> ELSE Down(h[k - 1], path[k])
    BY <1>2, <1>3
  <1>6. QED
    BY <1>4, <1>5

LEMMA WalkPathAre ==
  ASSUME NEW m, NEW path, NEW n \in Nat, Len(path) = n
  PROVE  \E h : WalkPathUpTo(m, path, n, h) /\ walkPath(m, path) = h[n]
  <1> DEFINE h == CHOOSE f : f = [k \in 0..n |-> IF k = 0 THEN m ELSE walkLen(f[k - 1], path[k])]
  <1>1. \E f : WalkPathUpTo(m, path, n, f)
    BY WalkPathExists
  <1>2. h = [k \in 0..n |-> IF k = 0 THEN m ELSE walkLen(h[k - 1], path[k])]
    BY <1>1 DEF WalkPathUpTo
  <1>3. walkPath(m, path) = h[n]
    BY DEF walkPath
  <1> HIDE DEF h
  <1>4. WalkPathUpTo(m, path, n, h)
    BY <1>2 DEF WalkPathUpTo
  <1>5. QED
    BY <1>3, <1>4

LEMMA WalkPathAllAre ==
  ASSUME NEW m, NEW path, NEW n \in Nat, Len(path) = n
  PROVE  \E h : WalkPathAllUpTo(m, path, n, h) /\ walkPathAll(m, path) = h[n]
  <1> DEFINE h == CHOOSE f : f = [k \in 0..n |-> IF k = 0 THEN <<Sub(0, m)>> ELSE Subfields(f[k - 1], path[k])]
  <1>1. \E f : WalkPathAllUpTo(m, path, n, f)
    BY WalkPathAllExists
  <1>2. h = [k \in 0..n |-> IF k = 0 THEN <<Sub(0, m)>> ELSE Subfields(h[k - 1], path[k])]
    BY <1>1 DEF WalkPathAllUpTo
  <1>3. walkPathAll(m, path) = h[n]
    BY DEF walkPathAll, Subfields, Gather
  <1> HIDE DEF h
  <1>4. WalkPathAllUpTo(m, path, n, h)
    BY <1>2 DEF WalkPathAllUpTo
  <1>5. QED
    BY <1>3, <1>4

LEMMA WalkPathFour ==
  ASSUME NEW m, NEW a, NEW b, NEW c, NEW d
  PROVE  walkPath(m, <<a, b, c, d>>) = walkLen(walkLen(walkLen(walkLen(m, a), b), c), d)
  <1> DEFINE path == <<a, b, c, d>>
  <1>1. Len(path) = 4 /\ path[1] = a /\ path[2] = b /\ path[3] = c /\ path[4] = d
    OBVIOUS
  <1> HIDE DEF path
  <1>2. PICK h : WalkPathUpTo(m, path, 4, h) /\ walkPath(m, path) = h[4]
    BY <1>1, WalkPathAre
  <1>3. /\ h[0] = m /\ h[1] = walkLen(h[0], a) /\ h[2] = walkLen(h[1], b)
        /\ h[3] = walkLen(h[2], c) /\ h[4] = walkLen(h[3], d)
    BY <1>1, <1>2 DEF WalkPathUpTo
  <1>4. QED
    BY <1>2, <1>3 DEF path

LEMMA WalkPathFive ==
  ASSUME NEW m, NEW a, NEW b, NEW c, NEW d, NEW e
  PROVE  walkPath(m, <<a, b, c, d, e>>) = walkLen(walkLen(walkLen(walkLen(walkLen(m, a), b), c), d), e)
  <1> DEFINE path == <<a, b, c, d, e>>
  <1>1. Len(path) = 5 /\ path[1] = a /\ path[2] = b /\ path[3] = c /\ path[4] = d /\ path[5] = e
    OBVIOUS
  <1> HIDE DEF path
  <1>2. PICK h : WalkPathUpTo(m, path, 5, h) /\ walkPath(m, path) = h[5]
    BY <1>1, WalkPathAre
  <1>3. /\ h[0] = m /\ h[1] = walkLen(h[0], a) /\ h[2] = walkLen(h[1], b)
        /\ h[3] = walkLen(h[2], c) /\ h[4] = walkLen(h[3], d) /\ h[5] = walkLen(h[4], e)
    BY <1>1, <1>2 DEF WalkPathUpTo
  <1>4. QED
    BY <1>2, <1>3 DEF path

LEMMA WalkAllThree ==
  ASSUME NEW m, NEW a, NEW b, NEW c
  PROVE  walkPathAll(m, <<a, b, c>>) = Subfields(Subfields(Subfields(<<Sub(0, m)>>, a), b), c)
  <1> DEFINE path == <<a, b, c>>
  <1>1. Len(path) = 3 /\ path[1] = a /\ path[2] = b /\ path[3] = c
    OBVIOUS
  <1> HIDE DEF path
  <1>2. PICK h : WalkPathAllUpTo(m, path, 3, h) /\ walkPathAll(m, path) = h[3]
    BY <1>1, WalkPathAllAre
  <1>3. /\ h[0] = <<Sub(0, m)>> /\ h[1] = Subfields(h[0], a)
        /\ h[2] = Subfields(h[1], b) /\ h[3] = Subfields(h[2], c)
    BY <1>1, <1>2 DEF WalkPathAllUpTo
  <1>4. QED
    BY <1>2, <1>3 DEF path

LEMMA WalkAllFive ==
  ASSUME NEW m, NEW a, NEW b, NEW c, NEW d, NEW e
  PROVE  walkPathAll(m, <<a, b, c, d, e>>) =
           Subfields(Subfields(Subfields(Subfields(Subfields(<<Sub(0, m)>>, a), b), c), d), e)
  <1> DEFINE path == <<a, b, c, d, e>>
  <1>1. Len(path) = 5 /\ path[1] = a /\ path[2] = b /\ path[3] = c /\ path[4] = d /\ path[5] = e
    OBVIOUS
  <1> HIDE DEF path
  <1>2. PICK h : WalkPathAllUpTo(m, path, 5, h) /\ walkPathAll(m, path) = h[5]
    BY <1>1, WalkPathAllAre
  <1>3. /\ h[0] = <<Sub(0, m)>> /\ h[1] = Subfields(h[0], a) /\ h[2] = Subfields(h[1], b)
        /\ h[3] = Subfields(h[2], c) /\ h[4] = Subfields(h[3], d) /\ h[5] = Subfields(h[4], e)
    BY <1>1, <1>2 DEF WalkPathAllUpTo
  <1>4. QED
    BY <1>2, <1>3 DEF path


-------------------------------------------------------------------------------
(*                         What is before the break                         *)

LEMMA StartIs ==
  ASSUME NEW m, List(m), NEW n \in 0..Len(m)
  PROVE  SubSeq(m, 1, n) = [i \in 1..n |-> m[i]]
  <1> DEFINE X == {m[i] : i \in DOMAIN m}
  <1>1. m \in Seq(X)
    BY DEF List
  <1>2. Len(m) \in Nat
    BY ListFacts
  <1> HIDE DEF X
  <1>3. /\ SubSeq(m, 1, n) \in Seq(X) /\ Len(SubSeq(m, 1, n)) = n
        /\ \A i \in 1..n : SubSeq(m, 1, n)[i] = m[i]
    BY <1>1, <1>2
  <1>4. QED
    BY <1>2, <1>3

\* A malformed field ends what is read, and what stands before it is read.
LEMMA ReadsUpTo ==
  ASSUME NEW m, List(m), NEW n \in 0..Len(m),
         \A i \in 1..n : m[i].wire # "undefined",
         n < Len(m) => m[n + 1].wire = "undefined"
  PROVE  UpToMalformed(m) = [i \in 1..n |-> m[i]]
  <1> DEFINE S == {i \in DOMAIN m : Clean(SubSeq(m, 1, i))}
  <1>1. PICK l \in Nat : l = Len(m) /\ DOMAIN m = 1..l
    BY ListFacts
  <1>2. ASSUME NEW i \in 1..l PROVE Clean(SubSeq(m, 1, i)) <=> \A j \in 1..i : m[j].wire # "undefined"
    <2> DEFINE s == [j \in 1..i |-> m[j]]
    <2>1. SubSeq(m, 1, i) = s
      BY <1>1, StartIs
    <2>2. DOMAIN s = 1..i /\ \A j \in 1..i : s[j] = m[j]
      OBVIOUS
    <2> HIDE DEF s
    <2>3. QED
      BY <2>1, <2>2 DEF Clean
  <1>3. S = 1..n
    <2>1. ASSUME NEW i \in 1..l PROVE i \in S <=> i <= n
      <3>1. CASE i <= n
        BY <1>1, <1>2, <3>1
      <3>2. CASE i > n
        <4>1. n + 1 \in 1..i /\ m[n + 1].wire = "undefined"
          BY <1>1, <3>2
        <4>2. QED
          BY <1>1, <1>2, <3>2, <4>1
      <3>3. QED
        BY <1>1, <3>1, <3>2
    <2>2. S \subseteq 1..l
      BY <1>1
    <2> HIDE DEF S
    <2>3. \A i \in 1..n : i \in S
      BY <1>1, <2>1
    <2>4. \A i \in S : i \in 1..n
      BY <1>1, <2>1, <2>2
    <2>5. QED
      BY <2>3, <2>4
  <1>4. Cardinality(S) = n
    <2>1. Cardinality(1..n) = n
      <3>1. 1 \in Int /\ n \in Int
        BY <1>1
      <3>2. Cardinality(1..n) = IF 1 > n THEN 0 ELSE n - 1 + 1
        BY <3>1, FS_Interval
      <3>3. QED
        BY <1>1, <3>2
    <2>2. QED
      BY <1>3, <2>1
  <1>5. UpToMalformed(m) = SubSeq(m, 1, n)
    BY <1>4 DEF UpToMalformed
  <1>6. QED
    BY <1>5, StartIs

\* Of a clean message everything is read.
LEMMA ReadsAll ==
  ASSUME NEW m, List(m), Clean(m)
  PROVE  UpToMalformed(m) = m
  <1>1. PICK l \in Nat : l = Len(m) /\ DOMAIN m = 1..l
    BY ListFacts
  <1>2. \A i \in 1..l : m[i].wire # "undefined"
    BY <1>1 DEF Clean
  <1>3. UpToMalformed(m) = [i \in 1..l |-> m[i]]
    BY <1>1, <1>2, ReadsUpTo
  <1>4. QED
    BY <1>1, <1>3, ListFacts

LEMMA ReadsAllBefore ==
  ASSUME NEW m, List(m), Clean(m), NEW place, NEW at
  PROVE  /\ UpToMalformed(m \o Also(place, at)) = m
         /\ List(m \o Also(place, at)) /\ List(Also(place, at))
         /\ Clean(m \o Also(place, at)) <=> place # at
         /\ \A n, wire : wire # "undefined" =>
                         Fields(m \o Also(place, at), n, wire) = Fields(m, n, wire)
  <1> DEFINE c == m \o Also(place, at)
  <1>1. PICK l \in Nat : l = Len(m) /\ DOMAIN m = 1..l
    BY ListFacts
  <1>2. \A i \in 1..l : m[i].wire # "undefined"
    BY <1>1 DEF Clean
  <1>3. CASE place # at
    <2>1. c = m /\ List(Also(place, at))
      BY <1>3, Empties DEF Also
    <2>2. QED
      BY <1>3, <2>1, ReadsAll
  <1>4. CASE place = at
    <2>1. c = m \o <<Malformed>> /\ List(Also(place, at))
      BY <1>4, One DEF Also
    <2> HIDE DEF c
    <2>2. /\ List(c) /\ Len(c) = l + 1
          /\ \A i \in 1..l : c[i] = m[i]
          /\ \A i \in 1..1 : c[l + i] = <<Malformed>>[i]
      BY <1>1, <2>1, One, Joined
    <2>3. c[l + 1].wire = "undefined"
      <3>1. c[l + 1] = <<Malformed>>[1] /\ <<Malformed>>[1] = Malformed
        BY <2>2, One
      <3>2. Malformed.wire = "undefined"
        BY DEF Malformed
      <3>3. QED
        BY <3>1, <3>2
    <2>4. UpToMalformed(c) = [i \in 1..l |-> c[i]]
      BY <1>1, <1>2, <2>2, <2>3, ReadsUpTo
    <2>5. UpToMalformed(c) = m
      BY <1>1, <2>2, <2>4, ListFacts
    <2>6. ~Clean(c)
      <3>1. l + 1 \in DOMAIN c
        BY <2>2, ListFacts
      <3>2. QED
        BY <2>3, <3>1 DEF Clean
    <2>7. ASSUME NEW n, NEW wire, wire # "undefined"
          PROVE  Fields(c, n, wire) = Fields(m, n, wire)
      <3>1. Fields(c, n, wire) = Fields(m, n, wire) \o Fields(<<Malformed>>, n, wire)
        BY <2>1, One, FieldsJoin
      <3>2. \A i \in 1..Len(<<Malformed>>) : ~Has(<<Malformed>>[i], n, wire)
        <4>1. Len(<<Malformed>>) = 1 /\ <<Malformed>>[1] = Malformed
          BY One
        <4>2. ~Has(Malformed, n, wire)
          BY <2>7 DEF Malformed, Has
        <4>3. QED
          BY <4>1, <4>2
      <3>3. Fields(<<Malformed>>, n, wire) = <<>>
        BY <3>2, One, FieldsNone
      <3>4. List(Fields(m, n, wire))
        BY FieldsList
      <3>5. QED
        BY <3>1, <3>3, <3>4, Empties
    <2>8. QED
      BY <1>4, <2>1, <2>2, <2>5, <2>6, <2>7 DEF c
  <1>5. QED
    BY <1>3, <1>4


-------------------------------------------------------------------------------
(*                       What one field or none reads                       *)

LEMMA NumIs == \A n, v : Num(n, v).n = n /\ Num(n, v).wire = "varint" /\ Num(n, v).sub = <<>>
  BY DEF Num
LEMMA StrIs == \A n, s : /\ Str(n, s).n = n /\ Str(n, s).wire = "len"
                         /\ Str(n, s).str = s /\ Str(n, s).sub = <<Malformed>>
  BY DEF Str
LEMMA SubIs == \A n, m : /\ Sub(n, m).n = n /\ Sub(n, m).wire = "len"
                         /\ Sub(n, m).str = Garbage /\ Sub(n, m).sub = m
  BY DEF Sub

Just(s, x) == s = <<x>>

LEMMA JustIs ==
  ASSUME NEW s, NEW x, Just(s, x)
  PROVE  List(s) /\ Len(s) = 1 /\ s[1] = x /\ s # <<>> /\ Last(s) = x /\ DOMAIN s = 1..1
  <1>1. List(<<x>>) /\ Len(<<x>>) = 1 /\ <<x>>[1] = x /\ <<x>> # <<>>
    BY One
  <1>2. DOMAIN <<x>> = 1..1
    BY <1>1, ListFacts
  <1>3. QED
    BY <1>1, <1>2 DEF Just, Last

LEMMA HasOf ==
  /\ \A n, v, k : Has(Num(n, v), k, "varint") <=> n = k
  /\ \A n, v, k : ~Has(Num(n, v), k, "len")
  /\ \A n, s, k : Has(Str(n, s), k, "len") <=> n = k
  /\ \A n, s, k : ~Has(Str(n, s), k, "varint")
  /\ \A n, m, k : Has(Sub(n, m), k, "len") <=> n = k
  /\ \A n, m, k : ~Has(Sub(n, m), k, "varint")
  <1>1. \A n, v, k : (Has(Num(n, v), k, "varint") <=> n = k) /\ ~Has(Num(n, v), k, "len")
    BY DEF Has, Num
  <1>2. \A n, s, k : (Has(Str(n, s), k, "len") <=> n = k) /\ ~Has(Str(n, s), k, "varint")
    BY DEF Has, Str
  <1>3. \A n, m, k : (Has(Sub(n, m), k, "len") <=> n = k) /\ ~Has(Sub(n, m), k, "varint")
    BY DEF Has, Sub
  <1>4. QED
    BY <1>1, <1>2, <1>3

LEMMA Two ==
  ASSUME NEW a, NEW b
  PROVE  List(<<a, b>>) /\ Len(<<a, b>>) = 2 /\ <<a, b>>[1] = a /\ <<a, b>>[2] = b
  <1>1. <<a, b>> \in Seq({a, b})
    OBVIOUS
  <1>2. QED
    BY <1>1, ListOf

LEMMA Three ==
  ASSUME NEW a, NEW b, NEW c
  PROVE  /\ List(<<a, b, c>>) /\ Len(<<a, b, c>>) = 3
         /\ <<a, b, c>>[1] = a /\ <<a, b, c>>[2] = b /\ <<a, b, c>>[3] = c
  <1>1. <<a, b, c>> \in Seq({a, b, c})
    OBVIOUS
  <1>2. QED
    BY <1>1, ListOf

LEMMA Four ==
  ASSUME NEW a, NEW b, NEW c, NEW d
  PROVE  /\ List(<<a, b, c, d>>) /\ Len(<<a, b, c, d>>) = 4
         /\ <<a, b, c, d>>[1] = a /\ <<a, b, c, d>>[2] = b
         /\ <<a, b, c, d>>[3] = c /\ <<a, b, c, d>>[4] = d
  <1>1. <<a, b, c, d>> \in Seq({a, b, c, d})
    OBVIOUS
  <1>2. QED
    BY <1>1, ListOf

LEMMA Five ==
  ASSUME NEW a, NEW b, NEW c, NEW d, NEW e
  PROVE  /\ List(<<a, b, c, d, e>>) /\ Len(<<a, b, c, d, e>>) = 5
         /\ <<a, b, c, d, e>>[1] = a /\ <<a, b, c, d, e>>[2] = b
         /\ <<a, b, c, d, e>>[3] = c /\ <<a, b, c, d, e>>[4] = d /\ <<a, b, c, d, e>>[5] = e
  <1>1. <<a, b, c, d, e>> \in Seq({a, b, c, d, e})
    OBVIOUS
  <1>2. QED
    BY <1>1, ListOf

\* The i-th field of m is the only one with this number and wire type, or there is none.
Sole(m, n, wire, i) ==
  /\ List(m) /\ i \in 1..Len(m) /\ Has(m[i], n, wire)
  /\ \A j \in 1..Len(m) : j # i => ~Has(m[j], n, wire)
Lacks(m, n, wire) == List(m) /\ \A i \in 1..Len(m) : ~Has(m[i], n, wire)

LEMMA FieldsJust ==
  ASSUME NEW m, NEW n, NEW wire, NEW i, Sole(m, n, wire, i)
  PROVE  Just(Fields(m, n, wire), m[i])
  BY FieldsOnly DEF Just, Sole

LEMMA SubsJust ==
  ASSUME NEW m, NEW n, NEW f, Just(Fields(m, n, "len"), f)
  PROVE  Just(Subs(m, n), f.sub)
  BY JustIs, SubsAre DEF Just

LEMMA StringRead ==
  ASSUME NEW m, NEW n, NEW i, Sole(m, n, "len", i)
  PROVE  strOf(m, n) = m[i].str /\ Just(Subs(m, n), m[i].sub)
  <1>1. Just(Fields(m, n, "len"), m[i])
    BY FieldsJust
  <1>2. strOf(m, n) = m[i].str
    BY <1>1, JustIs DEF strOf
  <1>3. QED
    BY <1>1, <1>2, SubsJust

LEMMA NothingRead ==
  ASSUME NEW m, NEW n, Lacks(m, n, "len")
  PROVE  Fields(m, n, "len") = <<>> /\ strOf(m, n) = "" /\ Subs(m, n) = <<>>
  <1>1. Fields(m, n, "len") = <<>>
    BY FieldsNone DEF Lacks
  <1>2. Subs(m, n) = <<>>
    BY <1>1, Empties, SubsAre
  <1>3. QED
    BY <1>1, <1>2 DEF strOf

LEMMA NumberRead ==
  ASSUME NEW m, NEW n, NEW v \in Nat, NEW i, Sole(m, n, "varint", i), m[i] = Num(n, v)
  PROVE  readVarint(m[i].int) = v /\ intOf(m, n) = v
  <1>1. Just(Fields(m, n, "varint"), m[i])
    BY FieldsJust
  <1>2. m[i].int = writeVarint[v]
    <2>1. Num(n, v).int = writeVarint[v]
      BY DEF Num
    <2>2. QED
      BY <2>1
  <1>3. readVarint(m[i].int) = v
    BY <1>2, VarintRoundTrip
  <1>4. QED
    BY <1>1, <1>3, JustIs DEF intOf

LEMMA NoNumberRead ==
  ASSUME NEW m, NEW n, Lacks(m, n, "varint")
  PROVE  Fields(m, n, "varint") = <<>> /\ intOf(m, n) = Absent
  <1>1. Fields(m, n, "varint") = <<>>
    BY FieldsNone DEF Lacks
  <1>2. QED
    BY <1>1 DEF intOf

LEMMA CleanIs ==
  ASSUME NEW m, List(m)
  PROVE  Clean(m) <=> \A i \in 1..Len(m) : m[i].wire # "undefined"
  BY ListFacts DEF Clean

LEMMA CleanJoin ==
  ASSUME NEW a, NEW b, List(a), List(b)
  PROVE  Clean(a \o b) <=> Clean(a) /\ Clean(b)
  <1> DEFINE c == a \o b
  <1>1. PICK k \in Nat, l \in Nat : k = Len(a) /\ l = Len(b)
    BY ListFacts
  <1>2. /\ List(c) /\ Len(c) = k + l
        /\ \A i \in 1..k : c[i] = a[i]
        /\ \A i \in 1..l : c[k + i] = b[i]
    BY <1>1, Joined
  <1> HIDE DEF c
  <1>3. ASSUME Clean(c) PROVE Clean(a) /\ Clean(b)
    <2>1. \A i \in 1..k : a[i].wire # "undefined"
      BY <1>1, <1>2, <1>3, CleanIs
    <2>2. \A i \in 1..l : b[i].wire # "undefined"
      <3>1. TAKE i \in 1..l
      <3>2. k + i \in 1..(k + l)
        OBVIOUS
      <3>3. \A j \in 1..(k + l) : c[j].wire # "undefined"
        BY <1>2, <1>3, CleanIs
      <3>4. QED
        BY <1>2, <3>2, <3>3
    <2>3. QED
      BY <1>1, <2>1, <2>2, CleanIs
  <1>4. ASSUME Clean(a), Clean(b) PROVE Clean(c)
    <2>1. \A i \in 1..(k + l) : c[i].wire # "undefined"
      <3>1. TAKE i \in 1..(k + l)
      <3>2. CASE i <= k
        BY <1>1, <1>2, <1>4, <3>2, CleanIs
      <3>3. CASE i > k
        <4>1. PICK j \in 1..l : i = k + j
          <5>1. i - k \in 1..l /\ i = k + (i - k)
            BY <3>3
          <5>2. QED
            BY <5>1
        <4>2. QED
          BY <1>1, <1>2, <1>4, <4>1, CleanIs
      <3>4. QED
        BY <3>2, <3>3
    <2>2. QED
      BY <1>2, <2>1, CleanIs
  <1>5. QED
    BY <1>3, <1>4 DEF c


LEMMA FlattenSingle ==
  ASSUME NEW x, List(x), NEW s, List(s), Len(s) = 1, s[1] = x
  PROVE  FlattenSeq(s) = x
  <1>1. 1 \in 1..Len(s) /\ List(s[1]) /\ \A j \in 1..Len(s) : j # 1 => s[j] = <<>>
    OBVIOUS
  <1>2. QED
    BY <1>1, FlattenOnly

LEMMA FlattenOfOne ==
  ASSUME NEW x, List(x)
  PROVE  FlattenSeq(<<x>>) = x
  BY One, FlattenSingle

LEMMA DownOne ==
  ASSUME NEW m, List(m), NEW n
  PROVE  Down(<<m>>, n) = Subs(m, n) /\ List(Subs(m, n))
  <1> DEFINE s == [i \in DOMAIN <<m>> |-> Subs(<<m>>[i], n)]
  <1>1. List(Subs(m, n))
    BY FieldsList, SubsAre
  <1>2. List(<<m>>) /\ Len(<<m>>) = 1 /\ <<m>>[1] = m /\ DOMAIN <<m>> = 1..1
    <2>1. List(<<m>>) /\ Len(<<m>>) = 1 /\ <<m>>[1] = m
      BY One
    <2>2. QED
      BY <2>1, ListFacts
  <1>3. s = [i \in 1..1 |-> s[i]] /\ s[1] = Subs(m, n)
    BY <1>2
  <1>4. Down(<<m>>, n) = FlattenSeq(s)
    BY DEF Down, Gather
  <1> HIDE DEF s
  <1>5. List(s) /\ Len(s) = 1
    BY <1>3, ListMade
  <1>6. QED
    BY <1>1, <1>3, <1>4, <1>5, FlattenSingle

LEMMA CleanAlongOne ==
  ASSUME NEW m, List(m), NEW n
  PROVE  CleanAlong(m, <<n>>) <=> Clean(m) /\ \A i \in DOMAIN Subs(m, n) : Clean(Subs(m, n)[i])
  <1> DEFINE path == <<n>>
             h == Levels(m, path)
  <1>1. Len(path) = 1 /\ path[1] = n
    OBVIOUS
  <1> HIDE DEF path
  <1>2. \A k \in 0..1 : h[k] = IF k = 0 THEN <<m>> ELSE Down(h[k - 1], path[k])
    BY <1>1, LevelsAre
  <1> HIDE DEF h
  <1>3. h[0] = <<m>> /\ h[1] = Subs(m, n)
    BY <1>1, <1>2, DownOne
  <1>4. CleanAlong(m, path) <=> \A k \in 0..1 : \A i \in DOMAIN h[k] : Clean(h[k][i])
    BY <1>1 DEF CleanAlong, h
  <1>5. (\A i \in DOMAIN <<m>> : Clean(<<m>>[i])) <=> Clean(m)
    <2>1. <<m>>[1] = m /\ DOMAIN <<m>> = 1..1
      BY One, ListFacts
    <2>2. QED
      BY <2>1
  <1>6. (\A k \in 0..1 : \A i \in DOMAIN h[k] : Clean(h[k][i]))
           <=> (\A i \in DOMAIN h[0] : Clean(h[0][i])) /\ (\A i \in DOMAIN h[1] : Clean(h[1][i]))
    OBVIOUS
  <1>7. QED
    BY <1>3, <1>4, <1>5, <1>6 DEF path

LEMMA LevelsThree ==
  ASSUME NEW m, List(m), NEW a, NEW b, NEW c
  PROVE  /\ Len(<<a, b, c>>) = 3
         /\ Levels(m, <<a, b, c>>)[0] = <<m>>
         /\ Levels(m, <<a, b, c>>)[1] = Subs(m, a)
         /\ Levels(m, <<a, b, c>>)[2] = Down(Subs(m, a), b)
         /\ Levels(m, <<a, b, c>>)[3] = Down(Down(Subs(m, a), b), c)
  <1> DEFINE path == <<a, b, c>>
             h == Levels(m, path)
  <1>1. Len(path) = 3 /\ path[1] = a /\ path[2] = b /\ path[3] = c
    OBVIOUS
  <1> HIDE DEF path
  <1>2. \A k \in 0..3 : h[k] = IF k = 0 THEN <<m>> ELSE Down(h[k - 1], path[k])
    <2>1. PICK l \in Nat : l = 3 /\ Len(path) = l
      BY <1>1
    <2>2. Len(path) = l
      BY <2>1
    <2>3. \A k \in 0..l : Levels(m, path)[k] =
                           IF k = 0 THEN <<m>> ELSE Down(Levels(m, path)[k - 1], path[k])
      BY ONLY <2>2, l \in Nat, LevelsAre
    <2>4. QED
      BY <2>1, <2>3
  <1> HIDE DEF h
  <1>3. /\ h[0] = <<m>> /\ h[1] = Subs(m, a) /\ h[2] = Down(Subs(m, a), b)
        /\ h[3] = Down(Down(Subs(m, a), b), c)
    BY <1>1, <1>2, DownOne
  <1>4. QED
    BY <1>1, <1>3 DEF h, path

\* Every level along a path of three is clean, once the four levels are.
LEMMA CleanAlongThree ==
  ASSUME NEW m, List(m), NEW a, NEW b, NEW c
  PROVE  CleanAlong(m, <<a, b, c>>) <=>
           /\ Clean(m)
           /\ \A i \in DOMAIN Subs(m, a) : Clean(Subs(m, a)[i])
           /\ \A i \in DOMAIN Down(Subs(m, a), b) : Clean(Down(Subs(m, a), b)[i])
           /\ \A i \in DOMAIN Down(Down(Subs(m, a), b), c) : Clean(Down(Down(Subs(m, a), b), c)[i])
  <1> DEFINE path == <<a, b, c>>
             h == Levels(m, path)
             AllClean(s) == \A i \in DOMAIN s : Clean(s[i])
  <1>1. /\ Len(path) = 3 /\ h[0] = <<m>> /\ h[1] = Subs(m, a) /\ h[2] = Down(Subs(m, a), b)
        /\ h[3] = Down(Down(Subs(m, a), b), c)
    BY LevelsThree
  <1>2. AllClean(<<m>>) <=> Clean(m)
    <2>1. <<m>>[1] = m /\ DOMAIN <<m>> = 1..1
      BY One, ListFacts
    <2>2. QED
      BY <2>1
  <1>3. CleanAlong(m, path) <=> \A k \in 0..3 : AllClean(h[k])
    <2> HIDE DEF path
    <2>1. QED
      BY <1>1 DEF CleanAlong
  <1> HIDE DEF AllClean, h
  <1>4. (\A k \in 0..3 : AllClean(h[k]))
          <=> AllClean(h[0]) /\ AllClean(h[1]) /\ AllClean(h[2]) /\ AllClean(h[3])
    <2>1. \A k \in 0..3 : k = 0 \/ k = 1 \/ k = 2 \/ k = 3
      OBVIOUS
    <2>2. QED
      BY <2>1
  <1>5. QED
    BY <1>1, <1>2, <1>3, <1>4 DEF AllClean


-------------------------------------------------------------------------------
(*                                 Captions                                 *)

\* What the assumptions say of a caption.
LEMMA CaptionIs ==
  ASSUME NEW c \in Caption
  PROVE  /\ c = [deviceId |-> c.deviceId, messageId |-> c.messageId,
                 messageVersion |-> c.messageVersion, text |-> c.text]
         /\ c.deviceId \in DevicePath /\ c.deviceId # "" /\ c.text # ""
         /\ c.messageId \in Nat /\ c.messageVersion \in Nat
         /\ isUsableCaption(c) /\ isUsableCaption(c) \in BOOLEAN
  <1>1. c \in [deviceId : DevicePath, messageId : Nat, messageVersion : Nat, text : STRING \ {""}]
    BY WireAssumption
  <1>2. c = [deviceId |-> c.deviceId, messageId |-> c.messageId,
             messageVersion |-> c.messageVersion, text |-> c.text]
    BY <1>1
  <1>3. /\ c.deviceId \in DevicePath /\ c.text # ""
        /\ c.messageId \in Nat /\ c.messageVersion \in Nat
    BY <1>1
  <1>4. c.deviceId # ""
    BY <1>3, StringAssumption
  <1>5. c.messageId # Absent /\ c.messageVersion # Absent
    <2>1. \A k \in Nat : k # Absent
      BY DEF Absent
    <2>2. QED
      BY <1>3, <2>1
  <1>6. QED
    BY <1>2, <1>3, <1>4, <1>5 DEF isUsableCaption

V1Body(c) == <<Str(1, c.deviceId), Num(2, c.messageId), Num(3, c.messageVersion),
               Str(6, c.text), Num(8, 1)>>

LEMMA WiresDefined ==
  /\ \A n, v : Num(n, v).wire # "undefined"
  /\ \A n, s : Str(n, s).wire # "undefined"
  /\ \A n, m : Sub(n, m).wire # "undefined"
  BY DEF Num, Str, Sub

LEMMA V1BodyRead ==
  ASSUME NEW c \in Caption
  PROVE  /\ List(V1Body(c)) /\ Clean(V1Body(c))
         /\ decodeTranscriptMessage(V1Body(c)) = c
         /\ Just(Subs(V1Body(c), 1), <<Malformed>>)
  <1> DEFINE m == V1Body(c)
  <1>1. /\ List(m) /\ Len(m) = 5
        /\ m[1] = Str(1, c.deviceId) /\ m[2] = Num(2, c.messageId)
        /\ m[3] = Num(3, c.messageVersion) /\ m[4] = Str(6, c.text) /\ m[5] = Num(8, 1)
    BY Five DEF V1Body
  <1>2. c.messageId \in Nat /\ c.messageVersion \in Nat
    BY CaptionIs
  <1> HIDE DEF m
  <1>3. \A i \in 1..5 : i = 1 \/ i = 2 \/ i = 3 \/ i = 4 \/ i = 5
    OBVIOUS
  <1>4. strOf(m, 1) = c.deviceId /\ Just(Subs(m, 1), <<Malformed>>)
    <2>1. Sole(m, 1, "len", 1)
      BY <1>1, <1>3, HasOf DEF Sole
    <2>2. strOf(m, 1) = m[1].str /\ Just(Subs(m, 1), m[1].sub)
      BY <2>1, StringRead
    <2>3. QED
      BY <1>1, <2>2, StrIs
  <1>5. strOf(m, 6) = c.text
    <2>1. Sole(m, 6, "len", 4)
      BY <1>1, <1>3, HasOf DEF Sole
    <2>2. strOf(m, 6) = m[4].str
      BY <2>1, StringRead
    <2>3. QED
      BY <1>1, <2>2, StrIs
  <1>6. intOf(m, 2) = c.messageId
    <2>1. Sole(m, 2, "varint", 2)
      BY <1>1, <1>3, HasOf DEF Sole
    <2>2. QED
      BY <1>1, <1>2, <2>1, NumberRead
  <1>7. intOf(m, 3) = c.messageVersion
    <2>1. Sole(m, 3, "varint", 3)
      BY <1>1, <1>3, HasOf DEF Sole
    <2>2. QED
      BY <1>1, <1>2, <2>1, NumberRead
  <1>8. Clean(m)
    BY <1>1, <1>3, CleanIs, WiresDefined
  <1>9. decodeTranscriptMessage(m) = c
    BY <1>4, <1>5, <1>6, <1>7, CaptionIs DEF decodeTranscriptMessage
  <1>10. QED
    BY <1>1, <1>4, <1>8, <1>9 DEF m

LEMMA DownJust ==
  ASSUME NEW s, NEW m, Just(s, m), List(m), NEW n
  PROVE  Down(s, n) = Subs(m, n) /\ List(Subs(m, n))
  BY DownOne DEF Just

LEMMA JustClean ==
  ASSUME NEW s, NEW m, Just(s, m)
  PROVE  (\A i \in DOMAIN s : Clean(s[i])) <=> Clean(m)
  BY JustIs

LEMMA MalformedIsNotClean == ~Clean(<<Malformed>>)
  <1>1. PICK x : x = <<Malformed>>
    OBVIOUS
  <1>2. List(x) /\ Len(x) = 1 /\ x[1] = Malformed
    BY <1>1, One
  <1>3. Malformed.wire = "undefined"
    BY DEF Malformed
  <1>4. x[1].wire = "undefined"
    BY <1>2, <1>3
  <1>5. ~Clean(x)
    <2>1. 1 \in 1..Len(x)
      BY <1>2
    <2>2. QED
      BY <1>2, <1>4, <2>1, CleanIs
  <1>6. QED
    BY <1>1, <1>5

\* The v2 decoder makes nothing of a v1 frame: its field 1 is a string.
LEMMA V1IsNotV2 ==
  ASSUME NEW c \in Caption, NEW m, List(m), Just(Subs(m, 1), V1Body(c))
  PROVE  decodeTranscriptV2(m) = <<>>
  <1>1. SUFFICES ASSUME CleanAlong(m, <<1, 1, 3>>) PROVE FALSE
    BY DEF decodeTranscriptV2
  <1>2. Just(Down(Subs(m, 1), 1), <<Malformed>>)
    BY V1BodyRead, DownJust
  <1>3. \A i \in DOMAIN Down(Subs(m, 1), 1) : Clean(Down(Subs(m, 1), 1)[i])
    BY <1>1, CleanAlongThree
  <1>4. QED
    BY <1>2, <1>3, JustClean, MalformedIsNotClean

\* A v1 frame is the caption it was made of, and an ack is none.
LEMMA V1FrameRead ==
  ASSUME NEW c \in Caption
  PROVE  /\ decodeCaptions(V1Frame(c)) = <<c>>
         /\ decodeCaptions(V1Ack(c)) = <<>>
  <1> DEFINE m == V1Frame(c)
             b == Sub(1, V1Body(c))
             f == Str(2, "ack")
             a == m \o <<f>>
  <1>1. Just(m, b) /\ V1Ack(c) = a
    BY DEF V1Frame, V1Ack, V1Body, Just
  <1>2. Has(b, 1, "len") /\ ~Has(b, 2, "len") /\ b.sub = V1Body(c) /\ b.wire # "undefined"
    BY HasOf, SubIs, WiresDefined
  <1>3. ~Has(f, 1, "len") /\ Has(f, 2, "len")
    BY HasOf
  <1> HIDE DEF m, b, f
  <1>4. List(m) /\ Len(m) = 1 /\ m[1] = b
    BY <1>1, JustIs
  <1>5. /\ Just(Fields(m, 1, "len"), b) /\ Just(Subs(m, 1), V1Body(c))
        /\ Fields(m, 2, "len") = <<>>
    <2>0. Sole(m, 1, "len", 1) /\ Lacks(m, 2, "len")
      BY <1>2, <1>4 DEF Sole, Lacks
    <2>1. Just(Fields(m, 1, "len"), m[1]) /\ Just(Subs(m, 1), m[1].sub)
      BY <2>0, FieldsJust, StringRead
    <2>2. Fields(m, 2, "len") = <<>>
      BY <2>0, NothingRead
    <2>3. QED
      BY <1>2, <1>4, <2>1, <2>2
  <1>6. List(<<f>>) /\ Len(<<f>>) = 1 /\ <<f>>[1] = f
    BY One
  <1>7. Fields(<<f>>, 1, "len") = <<>> /\ Just(Fields(<<f>>, 2, "len"), f)
    <2>1. PICK x : x = <<f>>
      OBVIOUS
    <2>2. Lacks(x, 1, "len") /\ Sole(x, 2, "len", 1)
      BY <1>3, <1>6, <2>1 DEF Sole, Lacks
    <2>3. Fields(x, 1, "len") = <<>> /\ Just(Fields(x, 2, "len"), x[1])
      BY <2>2, FieldsJust, NothingRead
    <2>4. QED
      BY <1>6, <2>1, <2>2, <2>3
  <1>8. List(a) /\ Just(Fields(a, 1, "len"), b) /\ Just(Fields(a, 2, "len"), f)
    <2>1. List(a)
      BY <1>4, <1>6, Joined
    <2>2. /\ Fields(a, 1, "len") = Fields(m, 1, "len") \o Fields(<<f>>, 1, "len")
          /\ Fields(a, 2, "len") = Fields(m, 2, "len") \o Fields(<<f>>, 2, "len")
      <3>1. PICK x : x = <<f>>
        OBVIOUS
      <3>2. List(m) /\ List(x)
        BY <1>4, <1>6, <3>1
      <3>3. \A n : Fields(m \o x, n, "len") = Fields(m, n, "len") \o Fields(x, n, "len")
        BY <3>2, FieldsJoin
      <3>4. QED
        BY <3>1, <3>3
    <2>3. List(Fields(m, 1, "len")) /\ List(Fields(<<f>>, 2, "len"))
      BY <1>5, <1>7, JustIs
    <2>4. QED
      BY <1>5, <1>7, <2>1, <2>2, <2>3, Empties
  <1> HIDE DEF a
  <1>9. Just(Subs(a, 1), V1Body(c))
    BY <1>2, <1>8, SubsJust
  <1>10. decodeTranscriptV2(m) = <<>> /\ decodeTranscriptV2(a) = <<>>
    BY <1>4, <1>5, <1>8, <1>9, V1IsNotV2
  <1>11. decodeTranscriptWrapper(m) = <<c>>
    <2>1. Clean(m)
      <3>1. \A i \in 1..Len(m) : m[i].wire # "undefined"
        BY <1>2, <1>4
      <3>2. QED
        BY <1>4, <3>1, CleanIs
    <2>2. Clean(V1Body(c)) /\ decodeTranscriptMessage(V1Body(c)) = c
      BY V1BodyRead
    <2>3. CleanAlong(m, <<1>>)
      BY <1>4, <1>5, <2>1, <2>2, CleanAlongOne, JustClean
    <2>4. Subs(m, 1) # <<>> /\ Last(Subs(m, 1)) = V1Body(c)
      BY <1>5, JustIs
    <2>5. QED
      BY <1>5, <2>2, <2>3, <2>4 DEF decodeTranscriptWrapper
  <1>12. decodeTranscriptWrapper(a) = <<>>
    BY <1>8, JustIs DEF decodeTranscriptWrapper
  <1>13. <<c>> # <<>>
    BY One
  <1>14. QED
    BY <1>1, <1>10, <1>11, <1>12 DEF decodeCaptions, m


LEMMA JustRead ==
  ASSUME NEW m, NEW n, NEW f, Just(Fields(m, n, "len"), f)
  PROVE  strOf(m, n) = f.str /\ Just(Subs(m, n), f.sub)
  <1>1. strOf(m, n) = f.str
    BY JustIs DEF strOf
  <1>2. QED
    BY <1>1, SubsJust

LEMMA NilRead ==
  ASSUME NEW m, NEW n, Fields(m, n, "len") = <<>>
  PROVE  strOf(m, n) = "" /\ Subs(m, n) = <<>>
  <1>1. Subs(m, n) = <<>>
    BY Empties, SubsAre
  <1>2. QED
    BY <1>1 DEF strOf

LEMMA JustNumber ==
  ASSUME NEW m, NEW n, NEW k, NEW v \in Nat, NEW f, Just(Fields(m, n, "varint"), f), f = Num(k, v)
  PROVE  intOf(m, n) = v
  <1>1. f.int = writeVarint[v]
    <2>1. Num(k, v).int = writeVarint[v]
      BY DEF Num
    <2>2. QED
      BY <2>1
  <1>2. readVarint(f.int) = v
    BY <1>1, VarintRoundTrip
  <1>3. QED
    BY <1>2, JustIs DEF intOf

LEMMA NilNumber ==
  ASSUME NEW m, NEW n, Fields(m, n, "varint") = <<>>
  PROVE  intOf(m, n) = Absent
  BY DEF intOf

\* One part of a message has the field, and the other part none.
LEMMA JoinRead ==
  ASSUME NEW a, NEW b, List(a), List(b), NEW n, NEW wire
  PROVE  /\ List(a \o b)
         /\ Fields(b, n, wire) = <<>> => Fields(a \o b, n, wire) = Fields(a, n, wire)
         /\ Fields(a, n, wire) = <<>> => Fields(a \o b, n, wire) = Fields(b, n, wire)
  <1>1. Fields(a \o b, n, wire) = Fields(a, n, wire) \o Fields(b, n, wire)
    BY FieldsJoin
  <1>2. List(Fields(a, n, wire)) /\ List(Fields(b, n, wire))
    BY FieldsList
  <1>3. QED
    BY <1>1, <1>2, Joined, Empties

LEMMA OneRead ==
  ASSUME NEW m, NEW f, Just(m, f)
  PROVE  /\ List(m)
         /\ Clean(m) <=> f.wire # "undefined"
         /\ \A n, wire : Has(f, n, wire) => Just(Fields(m, n, wire), f)
         /\ \A n, wire : ~Has(f, n, wire) => Fields(m, n, wire) = <<>>
  <1>1. List(m) /\ Len(m) = 1 /\ m[1] = f
    BY JustIs
  <1>2. ASSUME NEW n, NEW wire, Has(f, n, wire) PROVE Just(Fields(m, n, wire), f)
    <2>1. Sole(m, n, wire, 1)
      BY <1>1, <1>2 DEF Sole
    <2>2. QED
      BY <1>1, <2>1, FieldsJust
  <1>3. ASSUME NEW n, NEW wire, ~Has(f, n, wire) PROVE Fields(m, n, wire) = <<>>
    <2>1. \A i \in 1..Len(m) : ~Has(m[i], n, wire)
      BY <1>1, <1>3
    <2>2. QED
      BY <1>1, <2>1, FieldsNone
  <1>4. Clean(m) <=> f.wire # "undefined"
    <2>1. (\A i \in 1..Len(m) : m[i].wire # "undefined") <=> f.wire # "undefined"
      BY <1>1
    <2>2. QED
      BY <1>1, <2>1, CleanIs
  <1>5. QED
    BY <1>1, <1>2, <1>3, <1>4

LEMMA NilMessage ==
  /\ List(<<>>) /\ Clean(<<>>)
  /\ \A n, wire : Fields(<<>>, n, wire) = <<>>
  <1>1. PICK e : e = <<>>
    OBVIOUS
  <1>2. List(e) /\ Len(e) = 0
    BY <1>1, Empties
  <1>3. Clean(e)
    BY <1>2, CleanIs
  <1>4. \A n, wire : Fields(e, n, wire) = <<>>
    BY <1>2, FieldsNone
  <1>5. QED
    BY <1>1, <1>2, <1>3, <1>4

-------------------------------------------------------------------------------
(*                                V2 captions                               *)

SaidPart(line) == IF line[2] = "said" THEN <<Str(3, line[1].text)>> ELSE <<>>
RestPart(line) == <<Str(4, "ru-RU"), Str(5, "ru-RU"), Str(6, line[1].deviceId), Num(9, 1)>>
Payload(line) == SaidPart(line) \o RestPart(line)
Numbers(line) == <<Num(1, line[1].messageId), Num(2, line[1].messageVersion)>>
Rest(line) == IF line[2] = "ack" THEN <<Num(3, 1)>> ELSE <<Sub(3, Payload(line))>>
EntryBody(line) == Numbers(line) \o Rest(line)

LEMMA EntryIs ==
  ASSUME NEW line, NEW broken
  PROVE  V2Entry(line, broken) = EntryBody(line) \o Also("entry", broken)
  BY DEF V2Entry, EntryBody, Numbers, Rest, Payload, SaidPart, RestPart

LEMMA PayloadRead ==
  ASSUME NEW line \in Lines
  PROVE  /\ List(Payload(line)) /\ Clean(Payload(line))
         /\ strOf(Payload(line), 6) = line[1].deviceId
         /\ line[2] = "said" => strOf(Payload(line), 3) = line[1].text
         /\ line[2] # "said" => strOf(Payload(line), 3) = ""
  <1> DEFINE a == SaidPart(line)
             b == RestPart(line)
             p == a \o b
             c == line[1]
  <1>1. /\ List(b) /\ Len(b) = 4
        /\ b[1] = Str(4, "ru-RU") /\ b[2] = Str(5, "ru-RU") /\ b[3] = Str(6, c.deviceId)
        /\ b[4] = Num(9, 1)
    BY Four DEF RestPart
  <1> HIDE DEF b, c
  <1>2. \A i \in 1..4 : i = 1 \/ i = 2 \/ i = 3 \/ i = 4
    OBVIOUS
  <1>3. Lacks(b, 3, "len") /\ Sole(b, 6, "len", 3)
    BY <1>1, <1>2, HasOf DEF Lacks, Sole
  <1>4. Clean(b)
    BY <1>1, <1>2, CleanIs, WiresDefined
  <1>5. Fields(b, 3, "len") = <<>> /\ Just(Fields(b, 6, "len"), b[3])
    BY <1>3, NothingRead, FieldsJust
  <1>6. CASE line[2] = "said"
    <2>1. Just(a, Str(3, c.text))
      BY <1>6 DEF SaidPart, Just, c
    <2>2. /\ Has(Str(3, c.text), 3, "len") /\ ~Has(Str(3, c.text), 6, "len")
          /\ Str(3, c.text).wire # "undefined" /\ Str(3, c.text).str = c.text
      BY HasOf, WiresDefined, StrIs
    <2> HIDE DEF a
    <2>3. /\ List(a) /\ Clean(a) /\ Just(Fields(a, 3, "len"), Str(3, c.text))
          /\ Fields(a, 6, "len") = <<>>
      BY <2>1, <2>2, OneRead
    <2>4. /\ List(p) /\ Fields(p, 3, "len") = Fields(a, 3, "len")
          /\ Fields(p, 6, "len") = Fields(b, 6, "len")
      BY <1>1, <1>5, <2>3, JoinRead
    <2>5. Clean(p)
      BY <1>1, <1>4, <2>3, CleanJoin
    <2> HIDE DEF p
    <2>6. strOf(p, 3) = c.text
      BY <2>2, <2>3, <2>4, JustRead
    <2>7. strOf(p, 6) = c.deviceId
      BY <1>1, <1>5, <2>4, JustRead, StrIs
    <2>8. QED
      BY <1>6, <2>4, <2>5, <2>6, <2>7 DEF Payload, p, a, b, c
  <1>7. CASE line[2] # "said"
    <2>1. a = <<>>
      BY <1>7 DEF SaidPart
    <2>2. p = b
      BY <1>1, <2>1, Empties
    <2>3. strOf(b, 3) = "" /\ strOf(b, 6) = c.deviceId
      <3>1. strOf(b, 3) = ""
        BY <1>5, NilRead
      <3>2. strOf(b, 6) = c.deviceId
        BY <1>1, <1>5, JustRead, StrIs
      <3>3. QED
        BY <3>1, <3>2
    <2>4. QED
      BY <1>1, <1>4, <1>7, <2>2, <2>3 DEF Payload, p, a, b, c
  <1>8. QED
    BY <1>6, <1>7


LEMMA LineIs ==
  ASSUME NEW line \in Lines
  PROVE  line[1] \in Caption /\ line[2] \in {"said", "ack", "textless"}
  BY DEF Lines

LEMMA EntryRead ==
  ASSUME NEW line \in Lines
  PROVE  /\ List(EntryBody(line)) /\ Clean(EntryBody(line))
         /\ intOf(EntryBody(line), 1) = line[1].messageId
         /\ intOf(EntryBody(line), 2) = line[1].messageVersion
         /\ line[2] = "ack" => Subs(EntryBody(line), 3) = <<>>
         /\ line[2] # "ack" => Just(Subs(EntryBody(line), 3), Payload(line))
  <1> DEFINE a == Numbers(line)
             b == Rest(line)
             e == a \o b
             c == line[1]
  <1>1. List(a) /\ Len(a) = 2 /\ a[1] = Num(1, c.messageId) /\ a[2] = Num(2, c.messageVersion)
    BY Two DEF Numbers
  <1>2. c.messageId \in Nat /\ c.messageVersion \in Nat
    BY LineIs, CaptionIs
  <1> HIDE DEF a, c
  <1>3. \A i \in 1..2 : i = 1 \/ i = 2
    OBVIOUS
  <1>4. Sole(a, 1, "varint", 1) /\ Sole(a, 2, "varint", 2) /\ Lacks(a, 3, "len")
    BY <1>1, <1>3, HasOf DEF Lacks, Sole
  <1>5. /\ Just(Fields(a, 1, "varint"), a[1]) /\ Just(Fields(a, 2, "varint"), a[2])
        /\ Fields(a, 3, "len") = <<>>
    BY <1>4, NothingRead, FieldsJust
  <1>6. Clean(a)
    BY <1>1, <1>3, CleanIs, WiresDefined
  <1> DEFINE f == IF line[2] = "ack" THEN Num(3, 1) ELSE Sub(3, Payload(line))
  <1>7. Just(b, f)
    BY DEF Rest, Just
  <1>8. /\ f.wire # "undefined" /\ ~Has(f, 1, "varint") /\ ~Has(f, 2, "varint")
        /\ line[2] = "ack" => ~Has(f, 3, "len")
        /\ line[2] # "ack" => Has(f, 3, "len") /\ f.sub = Payload(line)
    BY HasOf, WiresDefined, SubIs
  <1> HIDE DEF b, f
  <1>9. /\ List(b) /\ Clean(b) /\ Fields(b, 1, "varint") = <<>> /\ Fields(b, 2, "varint") = <<>>
        /\ line[2] = "ack" => Fields(b, 3, "len") = <<>>
        /\ line[2] # "ack" => Just(Fields(b, 3, "len"), f)
    BY <1>7, <1>8, OneRead
  <1>10. /\ List(e) /\ Fields(e, 1, "varint") = Fields(a, 1, "varint")
         /\ Fields(e, 2, "varint") = Fields(a, 2, "varint")
         /\ Fields(e, 3, "len") = Fields(b, 3, "len")
    BY <1>1, <1>5, <1>9, JoinRead
  <1>11. Clean(e)
    BY <1>1, <1>6, <1>9, CleanJoin
  <1> HIDE DEF e
  <1>12. intOf(e, 1) = c.messageId /\ intOf(e, 2) = c.messageVersion
    BY <1>1, <1>2, <1>5, <1>10, JustNumber
  <1>13. line[2] = "ack" => Subs(e, 3) = <<>>
    BY <1>9, <1>10, NilRead
  <1>14. line[2] # "ack" => Just(Subs(e, 3), Payload(line))
    BY <1>8, <1>9, <1>10, SubsJust
  <1>15. QED
    BY <1>10, <1>11, <1>12, <1>13, <1>14 DEF EntryBody, e, a, b, c

\* A v2 entry gives its caption if it carries text, and nothing otherwise.
LEMMA EntryDecoded ==
  ASSUME NEW line \in Lines
  PROVE  decodeV2Entry(EntryBody(line)) = Maybe(line[2] = "said", line[1])
  <1> DEFINE e == EntryBody(line)
             c == line[1]
             p == FlattenSeq(Subs(e, 3))
  <1>1. CASE line[2] = "ack"
    <2>1. p = <<>>
      BY <1>1, EntryRead, FlattenNil
    <2>2. strOf(p, 3) = ""
      BY <2>1, NilMessage, NilRead
    <2> HIDE DEF p
    <2>3. decodeV2Entry(e) = <<>>
      BY <2>2 DEF decodeV2Entry, p
    <2>4. QED
      BY <1>1, <2>3 DEF Maybe
  <1>2. CASE line[2] # "ack"
    <2>1. p = Payload(line)
      <3>1. Just(Subs(e, 3), Payload(line)) /\ List(Payload(line))
        BY <1>2, EntryRead, PayloadRead
      <3>2. QED
        BY <3>1, JustIs, FlattenSingle
    <2>2. /\ strOf(p, 6) = c.deviceId
          /\ line[2] = "said" => strOf(p, 3) = c.text
          /\ line[2] # "said" => strOf(p, 3) = ""
      BY <2>1, PayloadRead
    <2> HIDE DEF p
    <2>3. decodeV2Entry(e) = IF strOf(p, 3) = "" THEN <<>>
                             ELSE <<[deviceId |-> strOf(p, 6), messageId |-> intOf(e, 1),
                                     messageVersion |-> intOf(e, 2), text |-> strOf(p, 3)]>>
      BY DEF decodeV2Entry, p
    <2>4. c \in Caption /\ c.text # ""
      BY LineIs, CaptionIs
    <2>5. CASE line[2] = "said"
      <3>1. [deviceId |-> strOf(p, 6), messageId |-> intOf(e, 1),
             messageVersion |-> intOf(e, 2), text |-> strOf(p, 3)] = c
        <4>1. intOf(e, 1) = c.messageId /\ intOf(e, 2) = c.messageVersion
          BY EntryRead
        <4>2. c = [deviceId |-> c.deviceId, messageId |-> c.messageId,
                   messageVersion |-> c.messageVersion, text |-> c.text]
          BY <2>4, CaptionIs
        <4> HIDE DEF c, e
        <4>3. QED
          BY <2>2, <2>5, <4>1, <4>2
      <3>2. decodeV2Entry(e) = <<c>>
        BY <2>2, <2>3, <2>4, <2>5, <3>1
      <3>3. QED
        BY <2>5, <3>2 DEF Maybe
    <2>6. CASE line[2] # "said"
      BY <2>2, <2>3, <2>6 DEF Maybe
    <2>7. QED
      BY <2>5, <2>6
  <1>3. QED
    BY <1>1, <1>2


\* s packs the messages of t under number n.
Packs(s, n, t) ==
  List(s) /\ List(t) /\ Len(s) = Len(t) /\ \A i \in 1..Len(s) : s[i] = Sub(n, t[i])

LEMMA PacksRead ==
  ASSUME NEW s, NEW n, NEW t, Packs(s, n, t)
  PROVE  /\ List(s) /\ Clean(s) /\ Fields(s, n, "len") = s
         /\ \A k : k # n => Fields(s, k, "len") = <<>>
         /\ \A k : Fields(s, k, "varint") = <<>>
  <1>1. PICK l \in Nat : l = Len(s)
    BY ListFacts DEF Packs
  <1>2. List(s) /\ \A i \in 1..l : s[i] = Sub(n, t[i])
    BY <1>1 DEF Packs
  <1>3. Clean(s)
    BY <1>1, <1>2, CleanIs, WiresDefined
  <1>4. \A i \in 1..l : Has(s[i], n, "len")
    BY <1>2, HasOf
  <1>5. Fields(s, n, "len") = s
    BY <1>1, <1>2, <1>4, FieldsAll
  <1>6. ASSUME NEW k, k # n PROVE Fields(s, k, "len") = <<>>
    <2>1. \A i \in 1..l : ~Has(s[i], k, "len")
      BY <1>2, <1>6, HasOf
    <2>2. QED
      BY <1>1, <1>2, <2>1, FieldsNone
  <1>7. ASSUME NEW k PROVE Fields(s, k, "varint") = <<>>
    <2>1. \A i \in 1..l : ~Has(s[i], k, "varint")
      BY <1>2, HasOf
    <2>2. QED
      BY <1>1, <1>2, <2>1, FieldsNone
  <1>8. QED
    BY <1>2, <1>3, <1>5, <1>6, <1>7

LEMMA PacksSubs ==
  ASSUME NEW s, NEW n, NEW t, Packs(s, n, t), NEW m, Fields(m, n, "len") = s
  PROVE  Subs(m, n) = t
  <1>1. List(s) /\ List(t) /\ Len(s) = Len(t) /\ \A i \in 1..Len(s) : s[i] = Sub(n, t[i])
    BY DEF Packs
  <1>2. /\ List(Subs(m, n)) /\ Len(Subs(m, n)) = Len(s)
        /\ \A i \in 1..Len(Subs(m, n)) : Subs(m, n)[i] = s[i].sub
    BY <1>1, SubsAre
  <1>3. \A i \in 1..Len(s) : Subs(m, n)[i] = t[i]
    BY <1>1, <1>2, SubIs
  <1>4. QED
    BY <1>1, <1>2, <1>3, ListsEqual

\* A list of lines, whatever its length.
LinesList(lines) == List(lines) /\ \A i \in 1..Len(lines) : lines[i] \in Lines

Entries(lines, broken) == [i \in DOMAIN lines |-> V2Entry(lines[i], broken)]
Packed(lines, broken) == [i \in DOMAIN lines |-> Sub(1, V2Entry(lines[i], broken))]
Status == <<Sub(6, <<Num(1, 200)>>)>>
EnvelopeBody(lines, broken) == Packed(lines, broken) \o Status
Envelope(lines, broken) == EnvelopeBody(lines, broken) \o Also("envelope", broken)
FrameBody(lines, broken) == <<Sub(1, Envelope(lines, broken))>>

LEMMA FrameIs ==
  ASSUME NEW lines, NEW broken
  PROVE  V2Frame(lines, broken) = FrameBody(lines, broken) \o Also("frame", broken)
  BY DEF V2Frame, FrameBody, Envelope, EnvelopeBody, Packed, Status

LEMMA EntriesPacked ==
  ASSUME NEW lines, LinesList(lines), NEW broken
  PROVE  /\ Packs(Packed(lines, broken), 1, Entries(lines, broken))
         /\ Len(Entries(lines, broken)) = Len(lines)
         /\ \A i \in 1..Len(lines) : Entries(lines, broken)[i] = V2Entry(lines[i], broken)
  <1>1. PICK l \in Nat : l = Len(lines) /\ DOMAIN lines = 1..l
    BY ListFacts DEF LinesList
  <1> DEFINE s == Packed(lines, broken)
             t == Entries(lines, broken)
  <1>2. s = [i \in 1..l |-> s[i]] /\ \A i \in 1..l : s[i] = Sub(1, V2Entry(lines[i], broken))
    BY <1>1 DEF Packed
  <1>3. t = [i \in 1..l |-> t[i]] /\ \A i \in 1..l : t[i] = V2Entry(lines[i], broken)
    BY <1>1 DEF Entries
  <1> HIDE DEF s, t
  <1>4. List(s) /\ Len(s) = l /\ List(t) /\ Len(t) = l
    BY <1>2, <1>3, ListMade
  <1>5. Packs(s, 1, t)
    BY <1>2, <1>3, <1>4 DEF Packs
  <1>6. QED
    BY <1>1, <1>3, <1>4, <1>5 DEF s, t

LEMMA EnvelopeRead ==
  ASSUME NEW lines, LinesList(lines), NEW broken
  PROVE  /\ List(Envelope(lines, broken))
         /\ Clean(Envelope(lines, broken)) <=> broken # "envelope"
         /\ Subs(Envelope(lines, broken), 1) = Entries(lines, broken)
         /\ intOf(Envelope(lines, broken), 2) = Absent
  <1> DEFINE s == Packed(lines, broken)
             t == Entries(lines, broken)
             st == Status
             b == s \o st
             e == b \o Also("envelope", broken)
             f == Sub(6, <<Num(1, 200)>>)
  <1>1. Packs(s, 1, t)
    BY EntriesPacked
  <1>2. Just(st, f)
    BY DEF Status, Just
  <1>3. f.wire # "undefined" /\ ~Has(f, 1, "len") /\ ~Has(f, 2, "varint")
    BY HasOf, WiresDefined
  <1> HIDE DEF s, t, st, f
  <1>4. /\ List(st) /\ Clean(st) /\ Fields(st, 1, "len") = <<>> /\ Fields(st, 2, "varint") = <<>>
    BY <1>2, <1>3, OneRead
  <1>5. List(s) /\ Clean(s) /\ Fields(s, 1, "len") = s /\ Fields(s, 2, "varint") = <<>>
    BY <1>1, PacksRead
  <1>6. List(b) /\ Fields(b, 1, "len") = s /\ Fields(b, 2, "varint") = <<>>
    BY <1>4, <1>5, JoinRead
  <1>7. Clean(b)
    BY <1>4, <1>5, CleanJoin
  <1> HIDE DEF b
  <1>8. /\ List(e) /\ (Clean(e) <=> broken # "envelope")
        /\ Fields(e, 1, "len") = s /\ Fields(e, 2, "varint") = <<>>
    BY <1>6, <1>7, ReadsAllBefore
  <1> HIDE DEF e
  <1>9. Subs(e, 1) = t
    BY <1>1, <1>8, PacksSubs
  <1>10. intOf(e, 2) = Absent
    BY <1>8, NilNumber
  <1>11. QED
    BY <1>8, <1>9, <1>10 DEF Envelope, EnvelopeBody, e, b, s, t, st

LEMMA FrameRead ==
  ASSUME NEW lines, LinesList(lines), NEW broken
  PROVE  /\ List(V2Frame(lines, broken))
         /\ Clean(V2Frame(lines, broken)) <=> broken # "frame"
         /\ Just(Subs(V2Frame(lines, broken), 1), Envelope(lines, broken))
  <1> DEFINE b == FrameBody(lines, broken)
             e == b \o Also("frame", broken)
             f == Sub(1, Envelope(lines, broken))
  <1>1. Just(b, f)
    BY DEF FrameBody, Just
  <1>2. f.wire # "undefined" /\ Has(f, 1, "len") /\ f.sub = Envelope(lines, broken)
    BY HasOf, WiresDefined, SubIs
  <1> HIDE DEF b, f
  <1>3. List(b) /\ Clean(b) /\ Just(Fields(b, 1, "len"), f)
    BY <1>1, <1>2, OneRead
  <1>4. /\ List(e) /\ (Clean(e) <=> broken # "frame")
        /\ Just(Fields(e, 1, "len"), f)
    BY <1>3, ReadsAllBefore
  <1>5. Just(Subs(e, 1), f.sub)
    <2> HIDE DEF e
    <2>1. QED
      BY <1>4, SubsJust
  <1>6. QED
    BY <1>2, <1>4, <1>5, FrameIs DEF e, b


Captions(lines) == [i \in DOMAIN lines |-> Maybe(lines[i][2] = "said", lines[i][1])]

LEMMA EntryWhole ==
  ASSUME NEW line \in Lines, NEW broken
  PROVE  /\ List(V2Entry(line, broken))
         /\ Clean(V2Entry(line, broken)) <=> broken # "entry"
         /\ broken # "entry" => V2Entry(line, broken) = EntryBody(line)
  <1>1. List(EntryBody(line)) /\ Clean(EntryBody(line))
    BY EntryRead
  <1>2. V2Entry(line, broken) = EntryBody(line) \o Also("entry", broken)
    BY EntryIs
  <1>3. broken # "entry" => Also("entry", broken) = <<>>
    BY DEF Also
  <1>4. EntryBody(line) \o <<>> = EntryBody(line)
    BY <1>1, Empties
  <1>5. /\ List(EntryBody(line) \o Also("entry", broken))
        /\ Clean(EntryBody(line) \o Also("entry", broken)) <=> "entry" # broken
    BY <1>1, ReadsAllBefore
  <1>6. broken # "entry" => V2Entry(line, broken) = EntryBody(line)
    BY <1>2, <1>3, <1>4
  <1>7. QED
    BY <1>2, <1>5, <1>6

LEMMA PayloadsClean ==
  ASSUME NEW lines, LinesList(lines), NEW broken, broken # "entry"
  PROVE  \A i \in DOMAIN Down(Entries(lines, broken), 3) : Clean(Down(Entries(lines, broken), 3)[i])
  <1> DEFINE t == Entries(lines, broken)
             d == [i \in DOMAIN t |-> Subs(t[i], 3)]
             X == {Payload(lines[i]) : i \in 1..Len(lines)}
  <1>1. PICK l \in Nat : l = Len(lines) /\ l = Len(t) /\ List(t) /\ DOMAIN t = 1..l
    BY EntriesPacked, ListFacts DEF LinesList, Packs
  <1>2. \A i \in 1..l : t[i] = EntryBody(lines[i]) /\ lines[i] \in Lines
    <2>1. TAKE i \in 1..l
    <2>2. lines[i] \in Lines /\ t[i] = V2Entry(lines[i], broken)
      BY <1>1, EntriesPacked DEF LinesList
    <2>3. QED
      BY <2>2, EntryWhole
  <1> HIDE DEF t
  <1>3. d = [i \in 1..l |-> d[i]] /\ \A i \in 1..l : d[i] = Subs(EntryBody(lines[i]), 3)
    BY <1>1, <1>2
  <1>4. Down(t, 3) = FlattenSeq(d)
    BY DEF Down, Gather
  <1> HIDE DEF d
  <1>5. List(d) /\ Len(d) = l
    BY <1>3, ListMade
  <1>6. ASSUME NEW i \in 1..l PROVE d[i] \in Seq(X)
    <2>1. lines[i] \in Lines /\ Payload(lines[i]) \in X
      BY <1>1, <1>2
    <2>2. CASE lines[i][2] = "ack"
      <3>1. d[i] = <<>>
        BY <1>3, <2>1, <2>2, EntryRead
      <3>2. QED
        BY <3>1
    <2>3. CASE lines[i][2] # "ack"
      <3>1. Just(d[i], Payload(lines[i]))
        BY <1>3, <2>1, <2>3, EntryRead
      <3>2. QED
        BY <2>1, <3>1 DEF Just
    <2>4. QED
      BY <2>2, <2>3
  <1>7. FlattenSeq(d) \in Seq(X)
    <2> HIDE DEF X
    <2>1. QED
      BY <1>5, <1>6, FlattenIn
  <1>8. \A x \in X : Clean(x)
    BY <1>1, <1>2, PayloadRead
  <1>9. \A i \in DOMAIN FlattenSeq(d) : FlattenSeq(d)[i] \in X
    <2> HIDE DEF X
    <2>1. QED
      BY <1>7
  <1>10. QED
    BY <1>4, <1>8, <1>9 DEF t

\* A v2 frame is clean along the path of its entries exactly when nothing is broken.
LEMMA FrameClean ==
  ASSUME NEW lines, LinesList(lines), NEW broken
  PROVE  CleanAlong(V2Frame(lines, broken), <<1, 1, 3>>) =>
           /\ broken # "frame" /\ broken # "envelope"
           /\ broken = "entry" => Len(lines) = 0
  <1> DEFINE m == V2Frame(lines, broken)
             e == Envelope(lines, broken)
             t == Entries(lines, broken)
  <1>1. SUFFICES ASSUME CleanAlong(m, <<1, 1, 3>>)
                 PROVE  /\ broken # "frame" /\ broken # "envelope"
                        /\ broken = "entry" => Len(lines) = 0
    OBVIOUS
  <1>2. /\ List(m) /\ (Clean(m) <=> broken # "frame") /\ Just(Subs(m, 1), e)
        /\ List(e) /\ (Clean(e) <=> broken # "envelope") /\ Subs(e, 1) = t
    BY FrameRead, EnvelopeRead
  <1> HIDE DEF m, e, t
  <1>3. Down(Subs(m, 1), 1) = t
    BY <1>2, DownJust
  <1>4. /\ Clean(m) /\ \A i \in DOMAIN Subs(m, 1) : Clean(Subs(m, 1)[i])
        /\ \A i \in DOMAIN Down(Subs(m, 1), 1) : Clean(Down(Subs(m, 1), 1)[i])
    BY <1>1, <1>2, CleanAlongThree
  <1>5. Clean(e)
    BY <1>2, <1>4, JustClean
  <1>6. \A i \in DOMAIN t : Clean(t[i])
    BY <1>3, <1>4
  <1>7. ASSUME broken = "entry", Len(lines) # 0 PROVE FALSE
    <2>1. Len(lines) \in Nat /\ 1 \in 1..Len(lines)
      BY <1>7, ListFacts DEF LinesList
    <2>2. t[1] = V2Entry(lines[1], broken) /\ lines[1] \in Lines /\ 1 \in DOMAIN t
      BY <2>1, EntriesPacked, ListFacts DEF t, Packs, LinesList
    <2>3. ~Clean(t[1])
      BY <1>7, <2>2, EntryWhole
    <2>4. QED
      BY <1>6, <2>2, <2>3
  <1>8. QED
    BY <1>2, <1>4, <1>5, <1>7

LEMMA EnvelopeDecoded ==
  ASSUME NEW lines, LinesList(lines), NEW broken, broken # "entry" \/ Len(lines) = 0
  PROVE  /\ decodeV2Envelope(Envelope(lines, broken)) = FlattenSeq(Captions(lines))
         /\ Flat(Captions(lines)) /\ Len(Captions(lines)) = Len(lines)
         /\ \A i \in 1..Len(lines) : Captions(lines)[i] = Maybe(lines[i][2] = "said", lines[i][1])
  <1> DEFINE e == Envelope(lines, broken)
             t == Entries(lines, broken)
             d == [i \in DOMAIN t |-> decodeV2Entry(t[i])]
             r == Captions(lines)
  <1>1. PICK l \in Nat : l = Len(lines) /\ l = Len(t) /\ List(t) /\ DOMAIN t = 1..l /\ DOMAIN lines = 1..l
    BY EntriesPacked, ListFacts DEF LinesList, Packs
  <1>2. \A i \in 1..l : lines[i] \in Lines /\ decodeV2Entry(t[i]) = Maybe(lines[i][2] = "said", lines[i][1])
    <2>1. TAKE i \in 1..l
    <2>2. lines[i] \in Lines /\ t[i] = V2Entry(lines[i], broken) /\ broken # "entry"
      BY <1>1, EntriesPacked DEF LinesList
    <2>3. t[i] = EntryBody(lines[i])
      BY <2>2, EntryWhole
    <2>4. QED
      BY <2>2, <2>3, EntryDecoded
  <1>3. Subs(e, 1) = t
    BY EnvelopeRead
  <1> HIDE DEF e, t
  <1>4. decodeV2Envelope(e) = FlattenSeq(d)
    BY <1>3 DEF decodeV2Envelope, Gather
  <1>5. d = r
    BY <1>1, <1>2 DEF Captions
  <1>6. r = [i \in 1..l |-> r[i]] /\ \A i \in 1..l : r[i] = Maybe(lines[i][2] = "said", lines[i][1])
    BY <1>1 DEF Captions
  <1> HIDE DEF d, r
  <1>7. List(r) /\ Len(r) = l
    BY <1>6, ListMade
  <1>8. Flat(r)
    BY <1>6, <1>7, MaybeIs DEF Flat
  <1>9. QED
    BY <1>1, <1>4, <1>5, <1>6, <1>7, <1>8 DEF e, r

\* A v2 frame gives the captions it says, in order, or nothing if it is broken.
LEMMA V2Decoded ==
  ASSUME NEW lines, LinesList(lines), NEW broken \in Broken
  PROVE  decodeTranscriptV2(V2Frame(lines, broken)) =
           IF broken = "nowhere" THEN FlattenSeq(Captions(lines)) ELSE <<>>
  <1> DEFINE m == V2Frame(lines, broken)
             e == Envelope(lines, broken)
             s == Subs(m, 1)
             d == [i \in DOMAIN s |-> decodeV2Envelope(s[i])]
             t == Entries(lines, broken)
  <1>1. /\ List(m) /\ (Clean(m) <=> broken # "frame") /\ Just(s, e)
        /\ List(e) /\ (Clean(e) <=> broken # "envelope") /\ Subs(e, 1) = t
    BY FrameRead, EnvelopeRead
  <1> HIDE DEF m, e, s, t
  <1>2. decodeTranscriptV2(m) = IF CleanAlong(m, <<1, 1, 3>>) THEN FlattenSeq(d) ELSE <<>>
    BY DEF decodeTranscriptV2, Gather, s
  <1>3. ASSUME broken # "entry" \/ Len(lines) = 0 PROVE FlattenSeq(d) = FlattenSeq(Captions(lines))
    <2>1. Just(d, decodeV2Envelope(e))
      <3>1. DOMAIN s = 1..1 /\ s[1] = e
        BY <1>1, JustIs
      <3>2. d = [i \in 1..1 |-> decodeV2Envelope(e)]
        BY <3>1
      <3>3. QED
        BY <3>2 DEF Just
    <2>2. decodeV2Envelope(e) = FlattenSeq(Captions(lines)) /\ Flat(Captions(lines))
      BY <1>3, EnvelopeDecoded DEF e
    <2>3. List(decodeV2Envelope(e))
      BY <2>2, FlattenList
    <2> HIDE DEF d
    <2>4. QED
      BY <2>1, <2>2, <2>3, JustIs, FlattenSingle
  <1>4. CASE broken = "nowhere"
    <2>1. t = Entries(lines, broken) /\ broken # "entry" /\ broken # "frame" /\ broken # "envelope"
      BY <1>4 DEF t
    <2>2. Down(s, 1) = t
      BY <1>1, DownJust
    <2>3. \A i \in DOMAIN s : Clean(s[i])
      BY <1>1, <2>1, JustClean
    <2>4. \A i \in DOMAIN t : Clean(t[i])
      BY <2>1, EntriesPacked, EntryWhole, ListFacts DEF Packs, LinesList
    <2>5. \A i \in DOMAIN Down(t, 3) : Clean(Down(t, 3)[i])
      BY <2>1, PayloadsClean
    <2>6. CleanAlong(m, <<1, 1, 3>>)
      <3>1. s = Subs(m, 1) /\ Clean(m)
        BY <1>1, <2>1 DEF s
      <3>2. QED
        BY <1>1, <2>2, <2>3, <2>4, <2>5, <3>1, CleanAlongThree
    <2>7. QED
      BY <1>2, <1>3, <1>4, <2>1, <2>6 DEF m
  <1>5. CASE broken # "nowhere"
    <2>1. ASSUME CleanAlong(m, <<1, 1, 3>>) PROVE FlattenSeq(d) = <<>>
      <3>1. broken = "entry" /\ Len(lines) = 0
        BY <1>5, <2>1, FrameClean DEF m, Broken
      <3>2. Flat(Captions(lines)) /\ Len(Captions(lines)) = 0
        BY <3>1, EnvelopeDecoded
      <3>3. Captions(lines) = <<>>
        BY <3>2, Empties DEF Flat
      <3>4. QED
        BY <1>3, <3>1, <3>3, FlattenNil
    <2>2. QED
      BY <1>2, <1>5, <2>1 DEF m
  <1>6. QED
    BY <1>4, <1>5


Unusable(list) == list = <<>> \/ \E x : Just(list, x) /\ ~isUsableCaption(x)

LEMMA UnusableDropped ==
  ASSUME NEW list, Unusable(list)
  PROVE  consumeCaptions(list) = <<>> /\ ~carriesCaptions(list)
  <1> DEFINE d == [i \in DOMAIN list |-> Maybe(isUsableCaption(list[i]), Told(list[i]))]
  <1>1. consumeCaptions(list) = FlattenSeq(d)
    BY DEF consumeCaptions, Gather
  <1>2. PICK l \in Nat : List(list) /\ l = Len(list) /\ DOMAIN list = 1..l
    <2>1. List(list)
      BY JustIs, Empties DEF Unusable
    <2>2. QED
      BY <2>1, ListFacts
  <1>3. \A i \in 1..l : ~isUsableCaption(list[i])
    <2>1. CASE list = <<>>
      BY <1>2, <2>1, Empties
    <2>2. CASE list # <<>>
      <3>1. PICK x : Just(list, x) /\ ~isUsableCaption(x)
        BY <2>2 DEF Unusable
      <3>2. l = 1 /\ list[1] = x
        BY <1>2, <3>1, JustIs
      <3>3. QED
        BY <3>1, <3>2
    <2>3. QED
      BY <2>1, <2>2
  <1>4. d = [i \in 1..l |-> d[i]] /\ \A i \in 1..l : d[i] = <<>>
    BY <1>2, <1>3 DEF Maybe
  <1> HIDE DEF d
  <1>5. List(d) /\ Len(d) = l
    BY <1>4, ListMade
  <1>6. FlattenSeq(d) = <<>>
    BY <1>4, <1>5, FlattenNone
  <1>7. QED
    BY <1>1, <1>2, <1>3, <1>6 DEF carriesCaptions

\* A wrapper without a message id makes no caption the feed can use.
LEMMA WrapperUnusable ==
  ASSUME NEW m, Subs(m, 1) # <<>> => intOf(Last(Subs(m, 1)), 2) = Absent
  PROVE  Unusable(decodeTranscriptWrapper(m))
  <1> DEFINE w == decodeTranscriptWrapper(m)
             x == decodeTranscriptMessage(Last(Subs(m, 1)))
  <1>1. w = <<>> \/ (Subs(m, 1) # <<>> /\ w = <<x>>)
    BY DEF decodeTranscriptWrapper
  <1>2. x.messageId = intOf(Last(Subs(m, 1)), 2)
    BY DEF decodeTranscriptMessage
  <1> HIDE DEF w, x
  <1>3. ASSUME Subs(m, 1) # <<>>, w = <<x>> PROVE Unusable(w)
    <2>1. Just(w, x)
      BY <1>3 DEF Just
    <2>2. ~isUsableCaption(x)
      BY <1>2, <1>3 DEF isUsableCaption
    <2>3. QED
      BY <2>1, <2>2 DEF Unusable
  <1>4. QED
    BY <1>1, <1>3 DEF Unusable, w

\* The consumer drops none of the captions that Meet packed.
LEMMA SaidConsumed ==
  ASSUME NEW lines, LinesList(lines)
  PROVE  /\ consumeCaptions(FlattenSeq(Captions(lines))) = Said(lines)
         /\ FlattenSeq(Captions(lines)) # <<>> => carriesCaptions(FlattenSeq(Captions(lines)))
  <1> DEFINE r == Captions(lines)
             p == FlattenSeq(r)
             g == [x \in Caption |-> Maybe(isUsableCaption(x), Told(x))]
             u == [i \in DOMAIN lines |-> Maybe(lines[i][2] = "said", Told(lines[i][1]))]
             d == [i \in DOMAIN p |-> Maybe(isUsableCaption(p[i]), Told(p[i]))]
  <1>1. PICK l \in Nat : l = Len(lines) /\ DOMAIN lines = 1..l
    BY ListFacts DEF LinesList
  <1>2. /\ Flat(r) /\ List(r) /\ Len(r) = l
        /\ \A i \in 1..l : r[i] = Maybe(lines[i][2] = "said", lines[i][1])
    <2>1. "nowhere" # "entry"
      OBVIOUS
    <2>2. QED
      BY <1>1, <2>1, EnvelopeDecoded DEF Flat
  <1>3. \A i \in 1..l : lines[i][1] \in Caption
    BY <1>1, LineIs DEF LinesList
  <1>4. u = [i \in 1..l |-> u[i]] /\ \A i \in 1..l : u[i] = Maybe(lines[i][2] = "said", Told(lines[i][1]))
    BY <1>1
  <1>5. Said(lines) = FlattenSeq(u)
    BY DEF Said, Gather
  <1>6. \A x \in Caption : g[x] = <<Told(x)>>
    BY CaptionIs DEF Maybe
  <1>7. consumeCaptions(p) = FlattenSeq(d)
    BY DEF consumeCaptions, Gather
  <1> HIDE DEF r, u
  <1>8. List(u) /\ Len(u) = l
    BY <1>4, ListMade
  <1>9. p \in Seq(Caption)
    <2>1. ASSUME NEW i \in 1..l PROVE r[i] \in Seq(Caption)
      <3>1. lines[i][1] \in Caption
        BY <1>3
      <3>2. r[i] = <<>> \/ r[i] = <<lines[i][1]>>
        BY <1>2 DEF Maybe
      <3>3. PICK x \in Caption : x = lines[i][1]
        BY <3>1
      <3>4. <<>> \in Seq(Caption) /\ <<x>> \in Seq(Caption)
        OBVIOUS
      <3>5. QED
        BY <3>2, <3>3, <3>4
    <2>2. QED
      BY <1>2, <2>1, FlattenIn
  <1> HIDE DEF p
  <1>10. d = Mapped(g, p)
    <2>1. DOMAIN p = 1..Len(p) /\ \A i \in 1..Len(p) : p[i] \in Caption
      BY <1>9
    <2>2. QED
      BY <2>1 DEF Mapped
  <1> HIDE DEF g, d
  <1>11. Images(g, r, u)
    <2>1. ASSUME NEW i \in 1..l
          PROVE  \/ r[i] = <<>> /\ u[i] = <<>>
                 \/ \E x : r[i] = <<x>> /\ u[i] = g[x] /\ List(u[i])
      <3>1. CASE lines[i][2] = "said"
        <4>1. r[i] = <<lines[i][1]>> /\ u[i] = <<Told(lines[i][1])>>
          BY <1>2, <1>4, <3>1 DEF Maybe
        <4>2. g[lines[i][1]] = <<Told(lines[i][1])>>
          BY <1>3, <1>6
        <4>3. List(u[i])
          BY <4>1, One
        <4>4. QED
          BY <4>1, <4>2, <4>3
      <3>2. CASE lines[i][2] # "said"
        BY <1>2, <1>4, <3>2 DEF Maybe
      <3>3. QED
        BY <3>1, <3>2
    <2>2. QED
      BY <1>2, <1>8, <2>1 DEF Images
  <1>12. FlattenSeq(Mapped(g, p)) = FlattenSeq(u)
    BY <1>11, FlattenMap DEF p
  <1>13. ASSUME p # <<>> PROVE carriesCaptions(p)
    <2>1. 1 \in DOMAIN p /\ p[1] \in Caption
      BY <1>9, <1>13
    <2>2. isUsableCaption(p[1]) /\ p[1].deviceId \in DevicePath
      BY <2>1, CaptionIs
    <2>3. QED
      BY <2>1, <2>2 DEF carriesCaptions
  <1>14. QED
    BY <1>5, <1>7, <1>10, <1>12, <1>13 DEF p, r

LEMMA OneConsumed ==
  ASSUME NEW c \in Caption
  PROVE  consumeCaptions(<<c>>) = <<Told(c)>> /\ carriesCaptions(<<c>>)
  <1>1. PICK p : Just(p, c)
    BY DEF Just
  <1> DEFINE d == [i \in DOMAIN p |-> Maybe(isUsableCaption(p[i]), Told(p[i]))]
             t == Told(c)
  <1>2. DOMAIN p = 1..1 /\ p[1] = c
    BY <1>1, JustIs
  <1>3. isUsableCaption(c) /\ c.deviceId \in DevicePath
    BY CaptionIs
  <1> HIDE DEF t
  <1>4. Just(d, <<t>>)
    <2>1. d = [i \in 1..1 |-> <<t>>]
      BY <1>2, <1>3 DEF Maybe, t
    <2> HIDE DEF d
    <2>2. QED
      BY <2>1 DEF Just
  <1>5. consumeCaptions(p) = FlattenSeq(d)
    BY DEF consumeCaptions, Gather
  <1> HIDE DEF d
  <1>6. List(<<t>>)
    BY One
  <1>7. FlattenSeq(d) = <<t>>
    BY <1>4, <1>6, JustIs, FlattenSingle
  <1>8. carriesCaptions(p)
    BY <1>2, <1>3 DEF carriesCaptions
  <1>9. QED
    BY <1>1, <1>5, <1>7, <1>8 DEF Just, t


LEMMA LinesAreList ==
  ASSUME NEW n \in Nat, NEW X, NEW s \in UpTo(n, X)
  PROVE  List(s) /\ \A i \in 1..Len(s) : s[i] \in X
  <1>1. PICK k \in 0..n : s \in [1..k -> X]
    BY DEF UpTo
  <1>2. s = [i \in 1..k |-> s[i]]
    BY <1>1
  <1>3. List(s) /\ Len(s) = k
    BY <1>2, ListMade
  <1>4. QED
    BY <1>1, <1>3

LEMMA V1Right ==
  ASSUME NEW c \in Caption
  PROVE  /\ consumeCaptions(decodeCaptions(V1Frame(c))) = <<Told(c)>>
         /\ handleUnknown(V1Frame(c)) = <<Told(c)>>
         /\ consumeCaptions(decodeCaptions(V1Ack(c))) = <<>>
         /\ handleUnknown(V1Ack(c)) = <<>>
  <1>1. decodeCaptions(V1Frame(c)) = <<c>> /\ decodeCaptions(V1Ack(c)) = <<>>
    BY V1FrameRead
  <1>2. consumeCaptions(<<c>>) = <<Told(c)>> /\ carriesCaptions(<<c>>)
    BY OneConsumed
  <1>3. consumeCaptions(<<>>) = <<>> /\ ~carriesCaptions(<<>>)
    BY UnusableDropped DEF Unusable
  <1>4. QED
    BY <1>1, <1>2, <1>3 DEF handleUnknown

LEMMA V2Right ==
  ASSUME NEW lines, LinesList(lines), NEW broken \in Broken
  PROVE  LET frame == V2Frame(lines, broken)
             said == IF broken # "nowhere" THEN <<>> ELSE Said(lines)
         IN  consumeCaptions(decodeCaptions(frame)) = said /\ handleUnknown(frame) = said
  <1> DEFINE frame == V2Frame(lines, broken)
             said == IF broken # "nowhere" THEN <<>> ELSE Said(lines)
             p == FlattenSeq(Captions(lines))
             v2 == decodeTranscriptV2(frame)
             w == decodeTranscriptWrapper(frame)
  <1>1. v2 = IF broken = "nowhere" THEN p ELSE <<>>
    BY V2Decoded
  <1>2. consumeCaptions(w) = <<>> /\ ~carriesCaptions(w)
    <2>1. Just(Subs(frame, 1), Envelope(lines, broken))
      BY FrameRead
    <2>2. Last(Subs(frame, 1)) = Envelope(lines, broken)
      BY <2>1, JustIs
    <2>3. intOf(Envelope(lines, broken), 2) = Absent
      BY EnvelopeRead
    <2> HIDE DEF frame
    <2>4. QED
      BY <2>2, <2>3, WrapperUnusable, UnusableDropped
  <1>3. consumeCaptions(p) = Said(lines) /\ (p # <<>> => carriesCaptions(p))
    BY SaidConsumed
  <1>4. consumeCaptions(<<>>) = <<>> /\ ~carriesCaptions(<<>>)
    BY UnusableDropped DEF Unusable
  <1>5. decodeCaptions(frame) = IF v2 # <<>> THEN v2 ELSE w
    BY DEF decodeCaptions
  <1> HIDE DEF frame, p, v2, w
  <1>6. consumeCaptions(decodeCaptions(frame)) = said
    BY <1>1, <1>2, <1>3, <1>4, <1>5
  <1>7. handleUnknown(frame) = said
    BY <1>1, <1>2, <1>3, <1>4, <1>5 DEF handleUnknown
  <1>8. QED
    BY <1>6, <1>7 DEF frame

\* On the caption channels, by either decoder.
LEMMA CaptionsFrameRight == CaptionsFrame => ReadAsPacked'
  <1>1. SUFFICES ASSUME CaptionsFrame PROVE events' = packed'
    BY DEF ReadAsPacked
  <1>2. PICK handle \in {"captions", "unknown"} :
          \/ \E c \in Caption, ack \in BOOLEAN :
               LET frame == IF ack THEN V1Ack(c) ELSE V1Frame(c) IN
               /\ events' = IF handle = "captions" THEN consumeCaptions(decodeCaptions(frame))
                            ELSE handleUnknown(frame)
               /\ packed' = IF ack THEN <<>> ELSE <<Told(c)>>
          \/ \E lines \in UpTo(MaxBatch, Lines), broken \in Broken :
               LET frame == V2Frame(lines, broken) IN
               /\ events' = IF handle = "captions" THEN consumeCaptions(decodeCaptions(frame))
                            ELSE handleUnknown(frame)
               /\ packed' = IF broken # "nowhere" THEN <<>> ELSE Said(lines)
    BY <1>1 DEF CaptionsFrame
  <1>3. ASSUME NEW c \in Caption, NEW ack \in BOOLEAN, NEW frame,
               frame = IF ack THEN V1Ack(c) ELSE V1Frame(c),
               events' = IF handle = "captions" THEN consumeCaptions(decodeCaptions(frame))
                         ELSE handleUnknown(frame),
               packed' = IF ack THEN <<>> ELSE <<Told(c)>>
        PROVE  events' = packed'
    BY <1>3, V1Right
  <1>4. ASSUME NEW lines \in UpTo(MaxBatch, Lines), NEW broken \in Broken, NEW frame,
               frame = V2Frame(lines, broken),
               events' = IF handle = "captions" THEN consumeCaptions(decodeCaptions(frame))
                         ELSE handleUnknown(frame),
               packed' = IF broken # "nowhere" THEN <<>> ELSE Said(lines)
        PROVE  events' = packed'
    <2>1. LinesList(lines)
      BY WireAssumption, LinesAreList DEF LinesList
    <2>2. /\ consumeCaptions(decodeCaptions(frame)) = IF broken # "nowhere" THEN <<>> ELSE Said(lines)
          /\ handleUnknown(frame) = IF broken # "nowhere" THEN <<>> ELSE Said(lines)
      BY <1>4, <2>1, V2Right
    <2>3. QED
      BY <1>4, <2>2
  <1>5. QED
    BY <1>2, <1>3, <1>4


-------------------------------------------------------------------------------
(*                                The roster                                *)

LEMMA ParticipantIs ==
  ASSUME NEW p \in Participant
  PROVE  /\ p = [deviceId |-> p.deviceId, deviceName |-> p.deviceName]
         /\ p.deviceId \in DevicePath /\ p.deviceName \in NameLike
         /\ p.deviceId # "" /\ p.deviceName # "" /\ p.deviceName # " "
         /\ p.deviceName # "users/me"
         /\ p.deviceName # Garbage /\ p.deviceId # Garbage
  <1>1. p \in [deviceId : DevicePath, deviceName : NameLike]
    BY WireAssumption
  <1>2. p = [deviceId |-> p.deviceId, deviceName |-> p.deviceName]
    BY <1>1
  <1>3. p.deviceId \in DevicePath /\ p.deviceName \in NameLike
    BY <1>1
  <1>4. QED
    BY <1>2, <1>3, StringAssumption

States == {"present", "guest", "nameless", "left", "removed"}

LEMMA RecordIs ==
  ASSUME NEW r \in Records
  PROVE  r[1] \in Participant /\ r[2] \in States
  BY DEF Records, States

NamePart(r) ==
  CASE r[2] = "guest" -> <<Str(2, ""), Str(29, r[1].deviceName)>>
    [] r[2] = "nameless" -> <<>>
    [] OTHER -> <<Str(2, r[1].deviceName)>>
StateOf(r) == IF r[2] = "left" THEN Left ELSE 1

LEMMA LeafIs ==
  ASSUME NEW r
  PROVE  Leaf(r) = (<<Str(1, r[1].deviceId)>> \o NamePart(r)) \o <<Num(4, StateOf(r))>>
  BY DEF Leaf, NamePart, StateOf

LEMMA NamePartRead ==
  ASSUME NEW r \in Records
  PROVE  /\ List(NamePart(r)) /\ Clean(NamePart(r))
         /\ Fields(NamePart(r), 1, "len") = <<>> /\ Fields(NamePart(r), 4, "varint") = <<>>
         /\ r[2] = "guest" =>
              /\ Just(Fields(NamePart(r), 2, "len"), Str(2, ""))
              /\ Just(Fields(NamePart(r), 29, "len"), Str(29, r[1].deviceName))
         /\ r[2] = "nameless" =>
              Fields(NamePart(r), 2, "len") = <<>> /\ Fields(NamePart(r), 29, "len") = <<>>
         /\ r[2] \notin {"guest", "nameless"} =>
              /\ Just(Fields(NamePart(r), 2, "len"), Str(2, r[1].deviceName))
              /\ Fields(NamePart(r), 29, "len") = <<>>
  <1> DEFINE m == NamePart(r)
             name == r[1].deviceName
  <1>1. CASE r[2] = "guest"
    <2>1. List(m) /\ Len(m) = 2 /\ m[1] = Str(2, "") /\ m[2] = Str(29, name)
      BY <1>1, Two DEF NamePart
    <2> HIDE DEF m, name
    <2>2. \A i \in 1..2 : i = 1 \/ i = 2
      OBVIOUS
    <2>3. /\ Lacks(m, 1, "len") /\ Lacks(m, 4, "varint")
          /\ Sole(m, 2, "len", 1) /\ Sole(m, 29, "len", 2)
      <3>1. /\ ~Has(m[1], 1, "len") /\ ~Has(m[1], 4, "varint")
            /\ Has(m[1], 2, "len") /\ ~Has(m[1], 29, "len")
        <4>1. PICK e : e = ""
          OBVIOUS
        <4>2. m[1] = Str(2, e)
          BY <2>1, <4>1
        <4>3. /\ ~Has(Str(2, e), 1, "len") /\ ~Has(Str(2, e), 4, "varint")
              /\ Has(Str(2, e), 2, "len") /\ ~Has(Str(2, e), 29, "len")
          BY HasOf
        <4>4. QED
          BY <4>2, <4>3
      <3>2. /\ ~Has(m[2], 1, "len") /\ ~Has(m[2], 4, "varint")
            /\ ~Has(m[2], 2, "len") /\ Has(m[2], 29, "len")
        <4>1. /\ ~Has(Str(29, name), 1, "len") /\ ~Has(Str(29, name), 4, "varint")
              /\ ~Has(Str(29, name), 2, "len") /\ Has(Str(29, name), 29, "len")
          BY HasOf
        <4>2. QED
          BY <2>1, <4>1
      <3>3. Lacks(m, 1, "len")
        BY <2>1, <2>2, <3>1, <3>2 DEF Lacks
      <3>4. Lacks(m, 4, "varint")
        BY <2>1, <2>2, <3>1, <3>2 DEF Lacks
      <3>0. List(m) /\ 1 \in 1..Len(m) /\ 2 \in 1..Len(m)
        <4>1. List(m) /\ Len(m) = 2
          BY <2>1
        <4>2. QED
          BY <4>1
      <3>5. Sole(m, 2, "len", 1)
        <4>1. List(m) /\ 1 \in 1..Len(m) /\ Has(m[1], 2, "len")
          BY <3>0, <3>1
        <4>2. \A j \in 1..Len(m) : j # 1 => ~Has(m[j], 2, "len")
          BY <2>1, <2>2, <3>2
        <4>3. QED
          BY <4>1, <4>2 DEF Sole
      <3>6. Sole(m, 29, "len", 2)
        <4>1. List(m) /\ 2 \in 1..Len(m) /\ Has(m[2], 29, "len")
          BY <3>0, <3>2
        <4>2. \A j \in 1..Len(m) : j # 2 => ~Has(m[j], 29, "len")
          BY <2>1, <2>2, <3>1
        <4>3. QED
          BY <4>1, <4>2 DEF Sole
      <3>7. QED
        BY <3>3, <3>4, <3>5, <3>6
    <2>4. Fields(m, 1, "len") = <<>> /\ Fields(m, 4, "varint") = <<>>
      BY <2>3, NothingRead, NoNumberRead
    <2>5. Just(Fields(m, 2, "len"), m[1]) /\ Just(Fields(m, 29, "len"), m[2])
      BY <2>3, FieldsJust
    <2>6. Clean(m)
      BY <2>1, <2>2, CleanIs, WiresDefined
    <2>7. QED
      BY <1>1, <2>1, <2>4, <2>5, <2>6 DEF m, name
  <1>2. CASE r[2] = "nameless"
    <2>1. m = <<>>
      BY <1>2 DEF NamePart
    <2> HIDE DEF m
    <2>2. QED
      BY <1>2, <2>1, NilMessage DEF m
  <1>3. CASE r[2] \notin {"guest", "nameless"}
    <2>1. Just(m, Str(2, name))
      BY <1>3 DEF NamePart, Just
    <2>2. /\ Str(2, name).wire # "undefined"
          /\ ~Has(Str(2, name), 1, "len") /\ ~Has(Str(2, name), 4, "varint")
          /\ Has(Str(2, name), 2, "len") /\ ~Has(Str(2, name), 29, "len")
      BY HasOf, WiresDefined
    <2> HIDE DEF m, name
    <2>3. /\ List(m) /\ Clean(m)
          /\ Fields(m, 1, "len") = <<>> /\ Fields(m, 4, "varint") = <<>>
          /\ Just(Fields(m, 2, "len"), Str(2, name)) /\ Fields(m, 29, "len") = <<>>
      BY <2>1, <2>2, OneRead
    <2>4. QED
      BY <1>3, <2>3 DEF m, name
  <1>4. QED
    BY <1>1, <1>2, <1>3

LEMMA LeafRead ==
  ASSUME NEW r \in Records
  PROVE  /\ List(Leaf(r)) /\ Clean(Leaf(r))
         /\ Just(Fields(Leaf(r), 1, "len"), Str(1, r[1].deviceId))
         /\ Fields(Leaf(r), 2, "len") = Fields(NamePart(r), 2, "len")
         /\ Fields(Leaf(r), 29, "len") = Fields(NamePart(r), 29, "len")
         /\ intOf(Leaf(r), 4) = StateOf(r)
  <1>1. PICK a, b, c : Just(a, Str(1, r[1].deviceId)) /\ b = NamePart(r) /\ Just(c, Num(4, StateOf(r)))
    BY DEF Just
  <1>2. Leaf(r) = (a \o b) \o c
    BY <1>1, LeafIs DEF Just
  <1>3. PICK f, g : f = Str(1, r[1].deviceId) /\ g = Num(4, StateOf(r))
    OBVIOUS
  <1>4. /\ f.wire # "undefined" /\ Has(f, 1, "len") /\ ~Has(f, 2, "len") /\ ~Has(f, 29, "len")
        /\ ~Has(f, 4, "varint")
    BY <1>3, HasOf, WiresDefined
  <1>5. /\ g.wire # "undefined" /\ ~Has(g, 1, "len") /\ ~Has(g, 2, "len") /\ ~Has(g, 29, "len")
        /\ Has(g, 4, "varint")
    BY <1>3, HasOf, WiresDefined
  <1>6. /\ List(a) /\ Clean(a) /\ Just(Fields(a, 1, "len"), f) /\ Fields(a, 2, "len") = <<>>
        /\ Fields(a, 29, "len") = <<>> /\ Fields(a, 4, "varint") = <<>>
    BY <1>1, <1>3, <1>4, OneRead
  <1>7. /\ List(c) /\ Clean(c) /\ Fields(c, 1, "len") = <<>> /\ Fields(c, 2, "len") = <<>>
        /\ Fields(c, 29, "len") = <<>> /\ Just(Fields(c, 4, "varint"), g)
    BY <1>1, <1>3, <1>5, OneRead
  <1>8. /\ List(b) /\ Clean(b) /\ Fields(b, 1, "len") = <<>> /\ Fields(b, 4, "varint") = <<>>
    BY <1>1, NamePartRead
  <1>9. PICK d : d = a \o b
    OBVIOUS
  <1>10. /\ List(d) /\ Fields(d, 1, "len") = Fields(a, 1, "len")
         /\ Fields(d, 2, "len") = Fields(b, 2, "len") /\ Fields(d, 29, "len") = Fields(b, 29, "len")
         /\ Fields(d, 4, "varint") = <<>>
    BY <1>6, <1>8, <1>9, JoinRead
  <1>11. Clean(d)
    BY <1>6, <1>8, <1>9, CleanJoin
  <1>12. PICK e : e = d \o c
    OBVIOUS
  <1>13. /\ List(e) /\ Fields(e, 1, "len") = Fields(d, 1, "len")
         /\ Fields(e, 2, "len") = Fields(d, 2, "len") /\ Fields(e, 29, "len") = Fields(d, 29, "len")
         /\ Fields(e, 4, "varint") = Fields(c, 4, "varint")
    BY <1>7, <1>10, <1>12, JoinRead
  <1>14. Clean(e)
    BY <1>7, <1>10, <1>11, <1>12, CleanJoin
  <1>15. intOf(e, 4) = StateOf(r)
    <2>1. StateOf(r) \in Nat
      BY DEF StateOf, Left
    <2>2. QED
      BY <1>3, <1>7, <1>13, <2>1, JustNumber
  <1>16. Leaf(r) = e
    BY <1>2, <1>9, <1>12
  <1>17. QED
    BY <1>1, <1>3, <1>6, <1>10, <1>13, <1>14, <1>15, <1>16

LeafRecord(r) ==
  [deviceId |-> r[1].deviceId, deviceName |-> r[1].deviceName, state |-> StateOf(r)]

\* A leaf gives its device and name, the display name for a guest, or nothing.
LEMMA LeafDecoded ==
  ASSUME NEW r \in Records
  PROVE  decodeLeaf(Leaf(r)) = Maybe(r[2] # "nameless", LeafRecord(r))
  <1> DEFINE m == Leaf(r)
             name == IF strOf(m, 2) \notin Blank THEN strOf(m, 2) ELSE strOf(m, 29)
  <1>1. r[1].deviceName \notin Blank
    BY RecordIs, ParticipantIs DEF Blank
  <1>2. Fields(m, 1, "len") # <<>> /\ strOf(m, 1) = r[1].deviceId
    <2>1. Just(Fields(m, 1, "len"), Str(1, r[1].deviceId))
      BY LeafRead
    <2>2. strOf(m, 1) = Str(1, r[1].deviceId).str
      BY <2>1, JustRead
    <2>3. QED
      BY <2>1, <2>2, JustIs, StrIs
  <1>3. intOf(m, 4) = StateOf(r)
    BY LeafRead
  <1>4. /\ Fields(m, 2, "len") = Fields(NamePart(r), 2, "len")
        /\ Fields(m, 29, "len") = Fields(NamePart(r), 29, "len")
    BY LeafRead
  <1>5. "" \in Blank
    BY DEF Blank
  <1> HIDE DEF m
  <1>6. r[2] = "nameless" => name \in Blank
    <2>1. SUFFICES ASSUME r[2] = "nameless" PROVE name \in Blank
      OBVIOUS
    <2>2. Fields(m, 2, "len") = <<>> /\ Fields(m, 29, "len") = <<>>
      BY <1>4, <2>1, NamePartRead
    <2>3. strOf(m, 2) = "" /\ strOf(m, 29) = ""
      BY <2>2, NilRead
    <2>4. QED
      BY <1>5, <2>3
  <1>7. r[2] # "nameless" => name = r[1].deviceName
    <2>1. CASE r[2] = "guest"
      <3>1. /\ Just(Fields(m, 2, "len"), Str(2, ""))
            /\ Just(Fields(m, 29, "len"), Str(29, r[1].deviceName))
        BY <1>4, <2>1, NamePartRead
      <3>2. strOf(m, 2) = Str(2, "").str /\ strOf(m, 29) = Str(29, r[1].deviceName).str
        BY <3>1, JustRead
      <3>3. strOf(m, 2) = "" /\ strOf(m, 29) = r[1].deviceName
        BY <3>2, StrIs
      <3>4. QED
        BY <1>5, <3>3
    <2>2. CASE r[2] \notin {"guest", "nameless"}
      <3>1. Just(Fields(m, 2, "len"), Str(2, r[1].deviceName))
        BY <1>4, <2>2, NamePartRead
      <3>2. strOf(m, 2) = Str(2, r[1].deviceName).str
        BY <3>1, JustRead
      <3>3. strOf(m, 2) = r[1].deviceName
        BY <3>2, StrIs
      <3>4. QED
        BY <1>1, <3>3
    <2>3. QED
      BY <2>1, <2>2
  <1>8. decodeLeaf(m) = IF Fields(m, 1, "len") = <<>> \/ name \in Blank THEN <<>>
                        ELSE <<[deviceId |-> strOf(m, 1), deviceName |-> name, state |-> intOf(m, 4)]>>
    BY DEF decodeLeaf
  <1> HIDE DEF name
  <1>9. CASE r[2] = "nameless"
    BY <1>6, <1>8, <1>9 DEF Maybe, m
  <1>10. CASE r[2] # "nameless"
    <2>1. decodeLeaf(m) = <<[deviceId |-> strOf(m, 1), deviceName |-> name, state |-> intOf(m, 4)]>>
      BY <1>1, <1>2, <1>7, <1>8, <1>10
    <2>2. [deviceId |-> strOf(m, 1), deviceName |-> name, state |-> intOf(m, 4)] = LeafRecord(r)
      BY <1>2, <1>3, <1>7, <1>10 DEF LeafRecord
    <2>3. QED
      BY <1>10, <2>1, <2>2 DEF Maybe, m
  <1>11. QED
    BY <1>9, <1>10


\* A node, with its leaf or the bare device id of a late removal.
LEMMA NodeRead ==
  ASSUME NEW r \in Records
  PROVE  /\ List(Node(r)) /\ Clean(Node(r))
         /\ Fields(Node(r), 2, "len") = Maybe(r[2] # "removed", Sub(2, Leaf(r)))
         /\ Fields(Node(r), 3, "len") = Maybe(r[2] = "removed", Str(3, r[1].deviceId))
  <1> DEFINE m == Node(r)
             head == Sub(1, <<Num(1, IF r[2] = "removed" THEN 46 ELSE 43)>>)
             tail == IF r[2] = "removed" THEN Str(3, r[1].deviceId) ELSE Sub(2, Leaf(r))
  <1>1. m = <<head, tail>>
    BY DEF Node
  <1>2. /\ head.wire # "undefined" /\ ~Has(head, 2, "len") /\ ~Has(head, 3, "len")
    BY HasOf, WiresDefined
  <1>3. /\ tail.wire # "undefined"
        /\ r[2] = "removed" => Has(tail, 3, "len") /\ ~Has(tail, 2, "len")
        /\ r[2] # "removed" => Has(tail, 2, "len") /\ ~Has(tail, 3, "len")
    <2>1. CASE r[2] = "removed"
      BY <2>1, HasOf, WiresDefined
    <2>2. CASE r[2] # "removed"
      BY <2>2, HasOf, WiresDefined
    <2>3. QED
      BY <2>1, <2>2
  <1>4. r[2] = "removed" => tail = Str(3, r[1].deviceId)
    OBVIOUS
  <1>5. r[2] # "removed" => tail = Sub(2, Leaf(r))
    OBVIOUS
  <1> HIDE DEF m, head, tail
  <1>6. List(m) /\ Len(m) = 2 /\ m[1] = head /\ m[2] = tail
    BY <1>1, Two
  <1>7. \A i \in 1..2 : i = 1 \/ i = 2
    OBVIOUS
  <1>8. Clean(m)
    BY <1>2, <1>3, <1>6, <1>7, CleanIs
  <1>9. 2 \in 1..Len(m)
    BY <1>6
  <1>10. CASE r[2] = "removed"
    <2>1. Lacks(m, 2, "len")
      BY <1>2, <1>3, <1>6, <1>7, <1>10 DEF Lacks
    <2>2. Sole(m, 3, "len", 2)
      BY <1>2, <1>3, <1>6, <1>7, <1>9, <1>10 DEF Sole
    <2>3. Fields(m, 2, "len") = <<>> /\ Just(Fields(m, 3, "len"), tail)
      BY <1>6, <2>1, <2>2, NothingRead, FieldsJust
    <2>4. QED
      BY <1>4, <1>6, <1>8, <1>10, <2>3 DEF Maybe, Just, m
  <1>11. CASE r[2] # "removed"
    <2>1. Lacks(m, 3, "len")
      BY <1>2, <1>3, <1>6, <1>7, <1>11 DEF Lacks
    <2>2. Sole(m, 2, "len", 2)
      BY <1>2, <1>3, <1>6, <1>7, <1>9, <1>11 DEF Sole
    <2>3. Fields(m, 3, "len") = <<>> /\ Just(Fields(m, 2, "len"), tail)
      BY <1>6, <2>1, <2>2, NothingRead, FieldsJust
    <2>4. QED
      BY <1>5, <1>6, <1>8, <1>11, <2>3 DEF Maybe, Just, m
  <1>12. QED
    BY <1>10, <1>11

\* One level of the walk: what is behind a malformed tail is lost, and no more.
LEMMA WalkBody ==
  ASSUME NEW b, List(b), Clean(b), NEW place, NEW at, NEW n
  PROVE  /\ walkLenAll(b \o Also(place, at), n) = Fields(b, n, "len")
         /\ walkLenAll(b, n) = Fields(b, n, "len")
         /\ walkLen(b \o Also(place, at), n) = walkLen(b, n)
         /\ Subs(b, n) = <<>> => walkLen(b, n) = <<>>
         /\ Subs(b, n) # <<>> => walkLen(b, n) = Subs(b, n)[1]
  BY ReadsAll, ReadsAllBefore DEF walkLenAll, walkLen

Carries(level, n, s) ==
  /\ List(level) /\ List(s) /\ Len(s) = Len(level)
  /\ \A i \in 1..Len(level) : walkLenAll(level[i].sub, n) = s[i]

LEMMA SubfieldsAre ==
  ASSUME NEW level, NEW n, NEW s, Carries(level, n, s)
  PROVE  Subfields(level, n) = FlattenSeq(s)
  <1> DEFINE t == [i \in DOMAIN level |-> walkLenAll(level[i].sub, n)]
  <1>1. Subfields(level, n) = FlattenSeq(t)
    BY DEF Subfields, Gather
  <1>2. PICK l \in Nat : l = Len(level) /\ DOMAIN level = 1..l
    BY ListFacts DEF Carries
  <1>3. t = [i \in 1..l |-> s[i]]
    BY <1>2 DEF Carries
  <1>4. s = [i \in 1..l |-> s[i]]
    BY <1>2, ListFacts DEF Carries
  <1>5. QED
    BY <1>1, <1>3, <1>4

Brings(level, n, t) ==
  /\ List(level) /\ List(t) /\ Len(t) = Len(level)
  /\ \A i \in 1..Len(level) : Just(walkLenAll(level[i].sub, n), t[i])

LEMMA SubfieldsBrought ==
  ASSUME NEW level, NEW n, NEW t, Brings(level, n, t)
  PROVE  Subfields(level, n) = t
  <1> DEFINE l == Len(level)
             s == [i \in 1..l |-> <<t[i]>>]
  <1>1. l \in Nat
    BY ListFacts DEF Brings
  <1>2. s = [i \in 1..l |-> s[i]] /\ \A i \in 1..l : s[i] = <<t[i]>>
    OBVIOUS
  <1>3. FlattenSeq(s) = [i \in 1..l |-> t[i]]
    BY <1>1, FlattenOnes
  <1>4. t = [i \in 1..l |-> t[i]]
    BY ListFacts DEF Brings
  <1> HIDE DEF s, l
  <1>5. List(s) /\ Len(s) = l
    BY <1>1, <1>2, ListMade
  <1>6. Carries(level, n, s)
    BY <1>2, <1>5 DEF Carries, Brings, Just, l
  <1>7. QED
    BY <1>3, <1>4, <1>6, SubfieldsAre

LEMMA SubfieldsJust ==
  ASSUME NEW level, NEW f, Just(level, f), NEW n, NEW s, walkLenAll(f.sub, n) = s, List(s)
  PROVE  Subfields(level, n) = s
  <1>1. PICK t : Just(t, s)
    BY DEF Just
  <1>2. List(t) /\ Len(t) = 1 /\ t[1] = s /\ List(level) /\ Len(level) = 1 /\ level[1] = f
    BY <1>1, JustIs
  <1>3. Carries(level, n, t)
    BY <1>2 DEF Carries
  <1>4. FlattenSeq(t) = s
    BY <1>2, FlattenSingle
  <1>5. QED
    BY <1>3, <1>4, SubfieldsAre

LEMMA SubfieldsNil == \A n : Subfields(<<>>, n) = <<>>
  <1>1. SUFFICES ASSUME NEW n PROVE Subfields(<<>>, n) = <<>>
    OBVIOUS
  <1>2. PICK e : e = <<>>
    OBVIOUS
  <1>3. List(e) /\ Len(e) = 0
    BY <1>2, Empties
  <1>4. Carries(e, n, e)
    BY <1>3 DEF Carries
  <1>5. QED
    BY <1>2, <1>4, FlattenNil, SubfieldsAre


RecordsList(records) == List(records) /\ \A i \in 1..Len(records) : records[i] \in Records

\* What the walks of a batch of records end at: leaves, and bare device ids.
LeavesOf(records) ==
  [i \in DOMAIN records |-> Maybe(records[i][2] # "removed", Sub(2, Leaf(records[i])))]
IdsOf(records) ==
  [i \in DOMAIN records |-> Maybe(records[i][2] = "removed", Str(3, records[i][1].deviceId))]

LEMMA RecordsAre ==
  ASSUME NEW records, RecordsList(records)
  PROVE  \E l \in Nat : /\ l = Len(records) /\ DOMAIN records = 1..l
                        /\ \A i \in 1..l : records[i] \in Records
  BY ListFacts DEF RecordsList

LEMMA EndsAre ==
  ASSUME NEW records, RecordsList(records)
  PROVE  /\ List(LeavesOf(records)) /\ Len(LeavesOf(records)) = Len(records)
         /\ List(IdsOf(records)) /\ Len(IdsOf(records)) = Len(records)
         /\ \A i \in 1..Len(records) :
              /\ LeavesOf(records)[i] = Maybe(records[i][2] # "removed", Sub(2, Leaf(records[i])))
              /\ IdsOf(records)[i] = Maybe(records[i][2] = "removed", Str(3, records[i][1].deviceId))
  <1>1. PICK l \in Nat : l = Len(records) /\ DOMAIN records = 1..l
    BY RecordsAre
  <1> DEFINE s == LeavesOf(records)
             t == IdsOf(records)
  <1>2. /\ s = [i \in 1..l |-> s[i]]
        /\ \A i \in 1..l : s[i] = Maybe(records[i][2] # "removed", Sub(2, Leaf(records[i])))
    BY <1>1 DEF LeavesOf
  <1>3. /\ t = [i \in 1..l |-> t[i]]
        /\ \A i \in 1..l : t[i] = Maybe(records[i][2] = "removed", Str(3, records[i][1].deviceId))
    BY <1>1 DEF IdsOf
  <1> HIDE DEF s, t
  <1>4. List(s) /\ Len(s) = l /\ List(t) /\ Len(t) = l
    BY <1>2, <1>3, ListMade
  <1>5. QED
    BY <1>1, <1>2, <1>3, <1>4 DEF s, t

-------------------------------------------------------------------------------
(*                          The collection form                             *)

Pages(records) == [i \in DOMAIN records |-> Sub(2, <<Sub(2, Leaf(records[i]))>>)]
CollectionBody(records, broken) == Pages(records) \o Also("envelope", broken)

LEMMA CollectionIs ==
  ASSUME NEW records, NEW broken
  PROVE  CollectionForm(records, broken) =
           <<Sub(2, CollectionBody(records, broken))>> \o Also("frame", broken)
  BY DEF CollectionForm, CollectionBody, Pages

LEMMA PagesAre ==
  ASSUME NEW records, RecordsList(records)
  PROVE  /\ List(Pages(records)) /\ Clean(Pages(records))
         /\ Len(Pages(records)) = Len(records)
         /\ Fields(Pages(records), 2, "len") = Pages(records)
         /\ Fields(Pages(records), 2, "varint") = <<>>
         /\ \A i \in 1..Len(records) : Pages(records)[i].sub = <<Sub(2, Leaf(records[i]))>>
  <1>1. PICK l \in Nat : l = Len(records) /\ DOMAIN records = 1..l
    BY RecordsAre
  <1> DEFINE s == Pages(records)
             t == [i \in 1..l |-> <<Sub(2, Leaf(records[i]))>>]
  <1>2. s = [i \in 1..l |-> s[i]] /\ \A i \in 1..l : s[i] = Sub(2, t[i])
    BY <1>1 DEF Pages
  <1>3. t = [i \in 1..l |-> t[i]] /\ \A i \in 1..l : t[i] = <<Sub(2, Leaf(records[i]))>>
    OBVIOUS
  <1> HIDE DEF s, t
  <1>4. List(s) /\ Len(s) = l /\ List(t) /\ Len(t) = l
    BY <1>2, <1>3, ListMade
  <1>5. Packs(s, 2, t)
    BY <1>2, <1>4 DEF Packs
  <1>6. List(s) /\ Clean(s) /\ Fields(s, 2, "len") = s /\ Fields(s, 2, "varint") = <<>>
    BY <1>5, PacksRead
  <1>7. \A i \in 1..l : s[i].sub = t[i]
    BY <1>2, SubIs
  <1>8. QED
    BY <1>1, <1>3, <1>4, <1>6, <1>7 DEF s

LEMMA CollectionRead ==
  ASSUME NEW records, RecordsList(records), NEW broken
  PROVE  /\ List(CollectionForm(records, broken))
         /\ Clean(CollectionForm(records, broken)) <=> broken # "frame"
         /\ Just(walkLenAll(CollectionForm(records, broken), 2),
                 Sub(2, CollectionBody(records, broken)))
         /\ Fields(CollectionForm(records, broken), 1, "len") = <<>>
         /\ walkLenAll(CollectionForm(records, broken), 1) = <<>>
         /\ walkLen(CollectionForm(records, broken), 1) = <<>>
         /\ Subs(CollectionForm(records, broken), 1) = <<>>
  <1> DEFINE f == Sub(2, CollectionBody(records, broken))
             m == CollectionForm(records, broken)
  <1>1. PICK b : Just(b, f)
    BY DEF Just
  <1>2. m = b \o Also("frame", broken)
    BY <1>1, CollectionIs DEF Just
  <1>3. f.wire # "undefined" /\ Has(f, 2, "len") /\ ~Has(f, 1, "len")
    BY HasOf, WiresDefined
  <1> HIDE DEF f, m
  <1>4. List(b) /\ Clean(b) /\ Just(Fields(b, 2, "len"), f) /\ Fields(b, 1, "len") = <<>>
    BY <1>1, <1>3, OneRead
  <1>5. walkLenAll(m, 2) = Fields(b, 2, "len") /\ walkLenAll(m, 1) = Fields(b, 1, "len")
    BY <1>2, <1>4, WalkBody
  <1>6. /\ List(m) /\ (Clean(m) <=> broken # "frame") /\ Fields(m, 1, "len") = <<>>
    BY <1>2, <1>4, ReadsAllBefore
  <1>7. Subs(b, 1) = <<>> /\ Subs(m, 1) = <<>>
    BY <1>4, <1>6, NilRead
  <1>8. walkLen(m, 1) = <<>>
    BY <1>2, <1>4, <1>7, WalkBody
  <1>9. QED
    BY <1>4, <1>5, <1>6, <1>7, <1>8 DEF f, m


\* A level that holds one field on its own.
LEMMA WalkSingle ==
  ASSUME NEW n, NEW m, NEW k, NEW b, Just(b, Sub(n, m))
  PROVE  /\ List(b) /\ Clean(b)
         /\ k = n => Just(walkLenAll(b, k), Sub(n, m)) /\ walkLen(b, k) = m
         /\ k # n => walkLenAll(b, k) = <<>> /\ walkLen(b, k) = <<>>
  <1> DEFINE f == Sub(n, m)
  <1>1. f.wire # "undefined" /\ f.sub = m /\ (Has(f, k, "len") <=> n = k)
    BY HasOf, WiresDefined, SubIs
  <1> HIDE DEF f
  <1>2. Just(b, f)
    BY DEF f
  <1>3. List(b) /\ Clean(b)
    BY <1>1, <1>2, OneRead
  <1>4. walkLenAll(b, k) = Fields(b, k, "len")
    BY <1>3, WalkBody
  <1>5. CASE k = n
    <2>1. Just(Fields(b, k, "len"), f)
      BY <1>1, <1>2, <1>5, OneRead
    <2>2. Just(Subs(b, k), m)
      BY <1>1, <2>1, SubsJust
    <2>3. Subs(b, k) # <<>> /\ Subs(b, k)[1] = m
      BY <2>2, JustIs
    <2>4. walkLen(b, k) = m
      BY <1>3, <2>3, WalkBody
    <2>5. QED
      BY <1>3, <1>4, <1>5, <2>1, <2>4 DEF f
  <1>6. CASE k # n
    <2>1. Fields(b, k, "len") = <<>>
      BY <1>1, <1>2, <1>6, OneRead
    <2>2. Subs(b, k) = <<>>
      BY <2>1, NilRead
    <2>3. walkLen(b, k) = <<>>
      BY <1>3, <2>2, WalkBody
    <2>4. QED
      BY <1>3, <1>4, <1>6, <2>1, <2>3
  <1>7. QED
    BY <1>5, <1>6

\* Where the walks start.
LEMMA FromTheFrame ==
  ASSUME NEW m, NEW n, List(walkLenAll(m, n))
  PROVE  Subfields(<<Sub(0, m)>>, n) = walkLenAll(m, n)
  <1>1. PICK b : Just(b, Sub(0, m))
    BY DEF Just
  <1>2. Sub(0, m).sub = m
    BY SubIs
  <1>3. Subfields(b, n) = walkLenAll(m, n)
    BY <1>1, <1>2, SubfieldsJust
  <1>4. QED
    BY <1>1, <1>3 DEF Just

\* The walks of a collection frame end at its leaves, and find no bare id.
LEMMA CollectionWalks ==
  ASSUME NEW records, RecordsList(records), NEW broken,
         \A i \in 1..Len(records) : records[i][2] # "removed"
  PROVE  /\ walkPathAll(CollectionForm(records, broken), <<2, 2, 2>>) = FlattenSeq(LeavesOf(records))
         /\ \A a, b, c, d : walkPathAll(CollectionForm(records, broken), <<1, a, b, c, d>>) = <<>>
  <1>1. PICK l \in Nat : l = Len(records) /\ DOMAIN records = 1..l
    BY RecordsAre
  <1> DEFINE m == CollectionForm(records, broken)
             p == Pages(records)
             f == Sub(2, CollectionBody(records, broken))
             g == [i \in 1..l |-> Sub(2, Leaf(records[i]))]
             s == LeavesOf(records)
  <1>2. Just(walkLenAll(m, 2), f) /\ walkLenAll(m, 1) = <<>>
    BY CollectionRead
  <1>3. /\ List(p) /\ Clean(p) /\ Len(p) = l /\ Fields(p, 2, "len") = p
        /\ \A i \in 1..l : p[i].sub = <<Sub(2, Leaf(records[i]))>>
    BY <1>1, PagesAre
  <1>4. f.sub = p \o Also("envelope", broken)
    BY SubIs DEF CollectionBody
  <1>5. /\ g = [i \in 1..l |-> g[i]]
        /\ \A i \in 1..l : g[i] = Sub(2, Leaf(records[i]))
    OBVIOUS
  <1>6. s = [i \in 1..l |-> <<g[i]>>]
    <2>1. \A i \in 1..l : s[i] = <<g[i]>>
      BY <1>1 DEF LeavesOf, Maybe
    <2>2. DOMAIN s = 1..l /\ s = [i \in 1..l |-> s[i]]
      BY <1>1 DEF LeavesOf
    <2> HIDE DEF s, g
    <2>3. QED
      BY <2>1, <2>2
  <1> HIDE DEF m, p, f, g, s
  <1>7. FlattenSeq(s) = g
    BY <1>5, <1>6, FlattenOnes
  <1>8. List(g) /\ Len(g) = l
    BY <1>5, ListMade
  <1>9. Subfields(<<Sub(0, m)>>, 2) = walkLenAll(m, 2)
    BY <1>2, JustIs, FromTheFrame
  <1>10. walkLenAll(f.sub, 2) = p
    BY <1>3, <1>4, WalkBody
  <1>11. Subfields(walkLenAll(m, 2), 2) = p
    BY <1>2, <1>3, <1>10, SubfieldsJust
  <1>12. Brings(p, 2, g)
    <2>1. ASSUME NEW i \in 1..l PROVE Just(walkLenAll(p[i].sub, 2), g[i])
      <3>1. Just(p[i].sub, Sub(2, Leaf(records[i])))
        BY <1>3 DEF Just
      <3>2. QED
        BY <1>5, <3>1, WalkSingle
    <2>2. QED
      BY <1>3, <1>8, <2>1 DEF Brings
  <1>13. walkPathAll(m, <<2, 2, 2>>) = g
    BY <1>9, <1>11, <1>12, SubfieldsBrought, WalkAllThree
  <1>14. Subfields(<<Sub(0, m)>>, 1) = <<>>
    BY <1>2, Empties, FromTheFrame
  <1>15. ASSUME NEW a, NEW b, NEW c, NEW d PROVE walkPathAll(m, <<1, a, b, c, d>>) = <<>>
    BY <1>14, SubfieldsNil, WalkAllFive
  <1>16. QED
    BY <1>7, <1>13, <1>15 DEF m, s


-------------------------------------------------------------------------------
(*                        The single-device form                            *)

Nodes(records) == [i \in DOMAIN records |-> Sub(1, Node(records[i]))]
ChatBody(messages) ==
  <<Sub(1, <<Num(1, 44)>>)>> \o [i \in DOMAIN messages |-> Sub(2, MessageNode(messages[i]))]
ChatPart(messages) == IF messages = <<>> THEN <<>> ELSE <<Sub(4, ChatBody(messages))>>

\* What the packets of a frame hold, and the packets.
Inners(records, messages, repeated) ==
  IF repeated = "outer" /\ Nodes(records) # <<>>
  THEN [i \in DOMAIN Nodes(records) |->
          IF i = 1 THEN <<Nodes(records)[1]>> \o ChatPart(messages) ELSE <<Nodes(records)[i]>>]
  ELSE <<Nodes(records) \o ChatPart(messages)>>
Third(inner, broken) == Sub(13, inner \o Also("envelope", broken))
Second(inner, broken) == Sub(2, <<Third(inner, broken)>>)
Packet(inner, broken) == Sub(1, <<Second(inner, broken)>>)
Packets(inners, broken) == [i \in 1..Len(inners) |-> Packet(inners[i], broken)]

LEMMA NodesAre ==
  ASSUME NEW records, RecordsList(records)
  PROVE  /\ List(Nodes(records)) /\ Clean(Nodes(records)) /\ Len(Nodes(records)) = Len(records)
         /\ Fields(Nodes(records), 1, "len") = Nodes(records)
         /\ Fields(Nodes(records), 4, "len") = <<>>
         /\ \A i \in 1..Len(records) : /\ Nodes(records)[i] = Sub(1, Node(records[i]))
                                       /\ Nodes(records)[i].sub = Node(records[i])
  <1>1. PICK l \in Nat : l = Len(records) /\ DOMAIN records = 1..l
    BY RecordsAre
  <1> DEFINE s == Nodes(records)
             t == [i \in 1..l |-> Node(records[i])]
  <1>2. s = [i \in 1..l |-> s[i]] /\ \A i \in 1..l : s[i] = Sub(1, Node(records[i]))
    BY <1>1 DEF Nodes
  <1>3. t = [i \in 1..l |-> t[i]] /\ \A i \in 1..l : t[i] = Node(records[i])
    OBVIOUS
  <1> HIDE DEF s, t
  <1>4. List(s) /\ Len(s) = l /\ List(t) /\ Len(t) = l
    BY <1>2, <1>3, ListMade
  <1>5. Packs(s, 1, t)
    BY <1>2, <1>3, <1>4 DEF Packs
  <1>6. List(s) /\ Clean(s) /\ Fields(s, 1, "len") = s /\ Fields(s, 4, "len") = <<>>
    BY <1>5, PacksRead
  <1>7. \A i \in 1..l : s[i].sub = Node(records[i])
    BY <1>2, SubIs
  <1>8. QED
    BY <1>1, <1>2, <1>4, <1>6, <1>7 DEF s

LEMMA SingleIs ==
  ASSUME NEW records, RecordsList(records), NEW messages, NEW repeated, NEW broken
  PROVE  SingleForm(records, messages, repeated, broken) =
           Packets(Inners(records, messages, repeated), broken) \o Also("frame", broken)
  <1> DEFINE nodes == Nodes(records)
             chat == ChatPart(messages)
             inners == Inners(records, messages, repeated)
             outer == [i \in DOMAIN nodes |-> Packet(IF i = 1 THEN <<nodes[1]>> \o chat
                                                     ELSE <<nodes[i]>>, broken)]
             side == <<Packet(nodes \o chat, broken)>>
  <1>1. SingleForm(records, messages, repeated, broken) =
          (IF repeated = "outer" /\ nodes # <<>> THEN outer ELSE side) \o Also("frame", broken)
    BY DEF SingleForm, Nodes, ChatPart, ChatBody, Packet, Second, Third
  <1>2. PICK l \in Nat : l = Len(nodes) /\ DOMAIN nodes = 1..l
    BY NodesAre, ListFacts
  <1>3. CASE repeated = "outer" /\ nodes # <<>>
    <2>1. PICK s : s = [i \in 1..l |-> IF i = 1 THEN <<nodes[1]>> \o chat ELSE <<nodes[i]>>]
      OBVIOUS
    <2>2. inners = s
      BY <1>2, <1>3, <2>1 DEF Inners
    <2>3. Len(s) = l
      BY <1>2, <2>1, ListMade
    <2>4. Packets(s, broken) = outer
      BY <1>2, <2>1, <2>3 DEF Packets
    <2>5. QED
      BY <1>1, <1>3, <2>2, <2>4
  <1>4. CASE ~(repeated = "outer" /\ nodes # <<>>)
    <2>1. PICK x : x = nodes \o chat
      OBVIOUS
    <2>2. inners = <<x>>
      BY <1>4, <2>1 DEF Inners
    <2>3. PICK s : Just(s, x)
      BY DEF Just
    <2>4. Len(s) = 1 /\ s[1] = x
      BY <2>3, JustIs
    <2>5. Packets(s, broken) = <<Packet(x, broken)>>
      BY <2>4 DEF Packets
    <2>6. inners = s
      BY <2>2, <2>3 DEF Just
    <2>7. QED
      BY <1>1, <1>4, <2>1, <2>5, <2>6
  <1>5. QED
    BY <1>3, <1>4

\* Nodes beside a chat: each is read past the other.
LEMMA InnerRead ==
  ASSUME NEW nodes, List(nodes), Clean(nodes), Fields(nodes, 1, "len") = nodes,
         Fields(nodes, 4, "len") = <<>>, NEW messages
  PROVE  /\ List(nodes \o ChatPart(messages)) /\ Clean(nodes \o ChatPart(messages))
         /\ Fields(nodes \o ChatPart(messages), 1, "len") = nodes
         /\ messages = <<>> => Subs(nodes \o ChatPart(messages), 4) = <<>>
         /\ messages # <<>> => Just(Subs(nodes \o ChatPart(messages), 4), ChatBody(messages))
  <1> DEFINE chat == ChatPart(messages)
             m == nodes \o chat
             f == Sub(4, ChatBody(messages))
  <1>1. f.wire # "undefined" /\ Has(f, 4, "len") /\ ~Has(f, 1, "len") /\ f.sub = ChatBody(messages)
    BY HasOf, WiresDefined, SubIs
  <1>2. messages = <<>> => chat = <<>>
    BY DEF ChatPart
  <1>3. messages # <<>> => Just(chat, f)
    BY DEF ChatPart, Just
  <1> HIDE DEF f, chat
  <1>4. /\ List(chat) /\ Clean(chat) /\ Fields(chat, 1, "len") = <<>>
        /\ messages = <<>> => Fields(chat, 4, "len") = <<>>
        /\ messages # <<>> => Just(Fields(chat, 4, "len"), f)
    <2>1. CASE messages = <<>>
      BY <1>2, <2>1, NilMessage
    <2>2. CASE messages # <<>>
      BY <1>1, <1>3, <2>2, OneRead
    <2>3. QED
      BY <2>1, <2>2
  <1>5. /\ List(m) /\ Fields(m, 1, "len") = Fields(nodes, 1, "len")
        /\ Fields(m, 4, "len") = Fields(chat, 4, "len")
    BY <1>4, JoinRead
  <1>6. Clean(m)
    BY <1>4, CleanJoin
  <1> HIDE DEF m
  <1>7. messages = <<>> => Subs(m, 4) = <<>>
    BY <1>4, <1>5, NilRead
  <1>8. messages # <<>> => Just(Subs(m, 4), f.sub)
    BY <1>4, <1>5, SubsJust
  <1>9. QED
    BY <1>1, <1>5, <1>6, <1>7, <1>8 DEF m, chat


Rows(inners) == [i \in 1..Len(inners) |-> Fields(inners[i], 1, "len")]

\* One node alone, beside which a chat may stand.
LEMMA NodeAlone ==
  ASSUME NEW b, NEW m, Just(b, Sub(1, m))
  PROVE  List(b) /\ Clean(b) /\ Fields(b, 1, "len") = b /\ Fields(b, 4, "len") = <<>>
  <1> DEFINE f == Sub(1, m)
  <1>1. f.wire # "undefined" /\ Has(f, 1, "len") /\ ~Has(f, 4, "len")
    BY HasOf, WiresDefined
  <1> HIDE DEF f
  <1>2. Just(b, f)
    BY DEF f
  <1>3. List(b) /\ Clean(b) /\ Just(Fields(b, 1, "len"), f) /\ Fields(b, 4, "len") = <<>>
    BY <1>1, <1>2, OneRead
  <1>4. QED
    BY <1>2, <1>3 DEF Just

LEMMA InnersAre ==
  ASSUME NEW records, RecordsList(records), NEW messages, NEW repeated, NEW inners,
         inners = Inners(records, messages, repeated)
  PROVE  /\ List(inners) /\ Len(inners) # 0
         /\ \A i \in 1..Len(inners) : List(inners[i]) /\ Clean(inners[i])
         /\ FlattenSeq(Rows(inners)) = Nodes(records)
         /\ messages = <<>> => Subs(inners[1], 4) = <<>>
         /\ messages # <<>> => Just(Subs(inners[1], 4), ChatBody(messages))
  <1> DEFINE nodes == Nodes(records)
             chat == ChatPart(messages)
  <1>1. PICK l \in Nat : l = Len(nodes) /\ DOMAIN nodes = 1..l /\ nodes = [i \in 1..l |-> nodes[i]]
    BY NodesAre, ListFacts
  <1>2. \A i \in 1..l : nodes[i] = Sub(1, Node(records[i]))
    BY <1>1, NodesAre
  <1>3. /\ List(nodes) /\ Clean(nodes) /\ Fields(nodes, 1, "len") = nodes
        /\ Fields(nodes, 4, "len") = <<>>
    BY NodesAre
  <1>4. CASE repeated = "outer" /\ nodes # <<>>
    <2>1. /\ inners = [i \in 1..l |-> inners[i]]
          /\ \A i \in 1..l : inners[i] = IF i = 1 THEN <<nodes[1]>> \o chat ELSE <<nodes[i]>>
      BY <1>1, <1>4 DEF Inners
    <2>2. l # 0
      BY <1>1, <1>3, <1>4, Empties
    <2> HIDE DEF nodes, chat
    <2>3. List(inners) /\ Len(inners) = l
      BY <2>1, ListMade
    <2>4. PICK b : Just(b, nodes[1])
      BY DEF Just
    <2>6. 1 \in 1..l
      BY <1>1, <2>2
    <2>5. inners[1] = b \o chat
      <3>1. inners[1] = <<nodes[1]>> \o chat
        BY <2>1, <2>6
      <3>2. b = <<nodes[1]>>
        BY <2>4 DEF Just
      <3>3. QED
        BY <3>1, <3>2
    <2>7. List(b) /\ Clean(b) /\ Fields(b, 1, "len") = b /\ Fields(b, 4, "len") = <<>>
      BY <1>2, <2>4, <2>6, NodeAlone
    <2>8. /\ List(inners[1]) /\ Clean(inners[1]) /\ Just(Fields(inners[1], 1, "len"), nodes[1])
          /\ messages = <<>> => Subs(inners[1], 4) = <<>>
          /\ messages # <<>> => Just(Subs(inners[1], 4), ChatBody(messages))
      BY <2>4, <2>5, <2>7, InnerRead DEF chat
    <2>9. ASSUME NEW i \in 1..l, i # 1
          PROVE  List(inners[i]) /\ Clean(inners[i]) /\ Just(Fields(inners[i], 1, "len"), nodes[i])
      <3>1. Just(inners[i], nodes[i])
        BY <2>1, <2>9 DEF Just
      <3>2. Just(inners[i], Sub(1, Node(records[i])))
        BY <1>2, <3>1
      <3>3. List(inners[i]) /\ Clean(inners[i]) /\ Fields(inners[i], 1, "len") = inners[i]
        BY <3>2, NodeAlone
      <3>4. QED
        BY <3>1, <3>3
    <2>10. Rows(inners) = [i \in 1..l |-> <<nodes[i]>>]
      BY <2>3, <2>8, <2>9 DEF Rows, Just
    <2>11. FlattenSeq(Rows(inners)) = nodes
      <3>1. FlattenSeq(Rows(inners)) = [i \in 1..l |-> nodes[i]]
        BY <2>10, FlattenOnes
      <3>2. QED
        BY <1>1, <3>1
    <2>12. \A i \in 1..l : List(inners[i]) /\ Clean(inners[i])
      BY <2>8, <2>9
    <2>13. QED
      BY <2>2, <2>3, <2>8, <2>11, <2>12 DEF nodes
  <1>5. CASE ~(repeated = "outer" /\ nodes # <<>>)
    <2>1. PICK x : x = nodes \o chat
      OBVIOUS
    <2>2. Just(inners, x)
      BY <1>5, <2>1 DEF Inners, Just
    <2>3. List(inners) /\ Len(inners) = 1 /\ inners[1] = x
      BY <2>2, JustIs
    <2>4. /\ List(x) /\ Clean(x) /\ Fields(x, 1, "len") = nodes
          /\ messages = <<>> => Subs(x, 4) = <<>>
          /\ messages # <<>> => Just(Subs(x, 4), ChatBody(messages))
      <3> HIDE DEF nodes
      <3>1. QED
        BY <1>3, <2>1, InnerRead
    <2> HIDE DEF nodes
    <2>5. Rows(inners) = <<nodes>>
      BY <2>3, <2>4 DEF Rows
    <2>6. FlattenSeq(Rows(inners)) = nodes
      BY <1>3, <2>5, FlattenOfOne
    <2>7. \A i \in 1..1 : List(inners[i]) /\ Clean(inners[i])
      BY <2>3, <2>4
    <2>8. QED
      BY <2>3, <2>4, <2>6, <2>7 DEF nodes
  <1>6. QED
    BY <1>4, <1>5

Seconds(inners, broken) == [i \in 1..Len(inners) |-> Second(inners[i], broken)]
Thirds(inners, broken) == [i \in 1..Len(inners) |-> Third(inners[i], broken)]
Insides(inners, broken) == [i \in 1..Len(inners) |-> <<Second(inners[i], broken)>>]

\* A frame of packets, and the walk down to the nodes they hold.
LEMMA PacketsRead ==
  ASSUME NEW inners, List(inners), NEW broken, NEW m, m = Packets(inners, broken) \o Also("frame", broken)
  PROVE  /\ List(m) /\ (Clean(m) <=> broken # "frame")
         /\ walkLenAll(m, 1) = Packets(inners, broken) /\ walkLenAll(m, 2) = <<>>
         /\ Subs(m, 1) = Insides(inners, broken)
         /\ Fields(m, 2, "len") = <<>>
         /\ Len(inners) # 0 => walkLen(m, 1) = Insides(inners, broken)[1]
  <1> DEFINE s == Packets(inners, broken)
             t == Insides(inners, broken)
             l == Len(inners)
  <1>1. l \in Nat
    BY ListFacts
  <1>2. s = [i \in 1..l |-> s[i]] /\ \A i \in 1..l : s[i] = Sub(1, t[i])
    BY DEF Packets, Insides, Packet
  <1>3. t = [i \in 1..l |-> t[i]]
    BY DEF Insides
  <1> HIDE DEF s, t, l
  <1>4. List(s) /\ Len(s) = l /\ List(t) /\ Len(t) = l
    BY <1>1, <1>2, <1>3, ListMade
  <1>5. Packs(s, 1, t)
    BY <1>2, <1>4 DEF Packs
  <1>6. List(s) /\ Clean(s) /\ Fields(s, 1, "len") = s /\ Fields(s, 2, "len") = <<>>
    BY <1>5, PacksRead
  <1>7. m = s \o Also("frame", broken)
    BY DEF s
  <1>8. /\ List(m) /\ (Clean(m) <=> broken # "frame")
        /\ Fields(m, 1, "len") = s /\ Fields(m, 2, "len") = <<>>
    <2>1. /\ List(s \o Also("frame", broken)) /\ (Clean(s \o Also("frame", broken)) <=> broken # "frame")
          /\ Fields(s \o Also("frame", broken), 1, "len") = Fields(s, 1, "len")
          /\ Fields(s \o Also("frame", broken), 2, "len") = Fields(s, 2, "len")
      <3>1. List(s) /\ Clean(s)
        BY <1>6
      <3>2. QED
        BY <3>1, ReadsAllBefore
    <2>2. QED
      BY <1>6, <1>7, <2>1
  <1>9. walkLenAll(m, 1) = s /\ walkLenAll(m, 2) = <<>>
    <2>1. /\ walkLenAll(s \o Also("frame", broken), 1) = Fields(s, 1, "len")
          /\ walkLenAll(s \o Also("frame", broken), 2) = Fields(s, 2, "len")
      <3>1. List(s) /\ Clean(s)
        BY <1>6
      <3>2. QED
        BY <3>1, WalkBody
    <2>2. QED
      BY <1>6, <1>7, <2>1
  <1>10. Subs(m, 1) = t /\ Subs(s, 1) = t
    BY <1>5, <1>6, <1>8, PacksSubs
  <1>11. ASSUME l # 0 PROVE walkLen(m, 1) = t[1]
    <2>1. t # <<>>
      BY <1>4, <1>11, Empties
    <2>2. walkLen(s \o Also("frame", broken), 1) = t[1]
      <3>1. List(s) /\ Clean(s) /\ Subs(s, 1) # <<>> /\ Subs(s, 1)[1] = t[1]
        BY <1>6, <1>10, <2>1
      <3>2. QED
        BY <3>1, WalkBody
    <2>3. QED
      BY <1>7, <2>2
  <1>12. QED
    BY <1>8, <1>9, <1>10, <1>11 DEF s, t, l


LEMMA ChainsAre ==
  ASSUME NEW inners, List(inners), NEW broken
  PROVE  /\ List(Packets(inners, broken)) /\ List(Seconds(inners, broken))
         /\ List(Thirds(inners, broken)) /\ List(Rows(inners))
         /\ Len(Packets(inners, broken)) = Len(inners) /\ Len(Seconds(inners, broken)) = Len(inners)
         /\ Len(Thirds(inners, broken)) = Len(inners) /\ Len(Rows(inners)) = Len(inners)
         /\ \A i \in 1..Len(inners) :
              /\ Just(Packets(inners, broken)[i].sub, Second(inners[i], broken))
              /\ Seconds(inners, broken)[i] = Second(inners[i], broken)
              /\ Just(Seconds(inners, broken)[i].sub, Third(inners[i], broken))
              /\ Thirds(inners, broken)[i] = Third(inners[i], broken)
              /\ Thirds(inners, broken)[i].sub = inners[i] \o Also("envelope", broken)
              /\ Rows(inners)[i] = Fields(inners[i], 1, "len")
  <1> DEFINE p == Packets(inners, broken)
             s == Seconds(inners, broken)
             t == Thirds(inners, broken)
             r == Rows(inners)
             l == Len(inners)
  <1>1. l \in Nat
    BY ListFacts
  <1>2. p = [i \in 1..l |-> p[i]] /\ \A i \in 1..l : p[i] = Packet(inners[i], broken)
    BY DEF Packets
  <1>3. s = [i \in 1..l |-> s[i]] /\ \A i \in 1..l : s[i] = Second(inners[i], broken)
    BY DEF Seconds
  <1>4. t = [i \in 1..l |-> t[i]] /\ \A i \in 1..l : t[i] = Third(inners[i], broken)
    BY DEF Thirds
  <1>5. r = [i \in 1..l |-> r[i]] /\ \A i \in 1..l : r[i] = Fields(inners[i], 1, "len")
    BY DEF Rows
  <1> HIDE DEF p, s, t, r, l
  <1>6. /\ List(p) /\ Len(p) = l /\ List(s) /\ Len(s) = l
        /\ List(t) /\ Len(t) = l /\ List(r) /\ Len(r) = l
    BY <1>1, <1>2, <1>3, <1>4, <1>5, ListMade
  <1>7. \A i \in 1..l : Just(Packet(inners[i], broken).sub, Second(inners[i], broken))
    BY SubIs DEF Packet, Just
  <1>8. \A i \in 1..l : Just(Second(inners[i], broken).sub, Third(inners[i], broken))
    BY SubIs DEF Second, Just
  <1>9. \A i \in 1..l : Third(inners[i], broken).sub = inners[i] \o Also("envelope", broken)
    BY SubIs DEF Third
  <1>10. QED
    BY <1>2, <1>3, <1>4, <1>5, <1>6, <1>7, <1>8, <1>9 DEF p, s, t, r, l

LEMMA PacketsWalked ==
  ASSUME NEW inners, List(inners), \A i \in 1..Len(inners) : List(inners[i]) /\ Clean(inners[i]),
         NEW broken, NEW m, m = Packets(inners, broken) \o Also("frame", broken)
  PROVE  /\ \A k : walkPathAll(m, <<1, 2, 13, 1, k>>) = Subfields(FlattenSeq(Rows(inners)), k)
         /\ walkPathAll(m, <<2, 2, 2>>) = <<>>
  <1> DEFINE p == Packets(inners, broken)
             s == Seconds(inners, broken)
             t == Thirds(inners, broken)
             r == Rows(inners)
             l == Len(inners)
  <1>1. /\ List(p) /\ Len(p) = l /\ List(s) /\ Len(s) = l
        /\ List(t) /\ Len(t) = l /\ List(r) /\ Len(r) = l
    BY ChainsAre
  <1>2. \A i \in 1..l : /\ Just(p[i].sub, Second(inners[i], broken))
                        /\ s[i] = Second(inners[i], broken)
                        /\ Just(s[i].sub, Third(inners[i], broken))
                        /\ t[i] = Third(inners[i], broken)
                        /\ t[i].sub = inners[i] \o Also("envelope", broken)
                        /\ r[i] = Fields(inners[i], 1, "len")
    BY ChainsAre
  <1>3. walkLenAll(m, 1) = p /\ walkLenAll(m, 2) = <<>>
    BY PacketsRead
  <1> HIDE DEF p, s, t, r
  <1>4. Subfields(<<Sub(0, m)>>, 1) = p /\ Subfields(<<Sub(0, m)>>, 2) = <<>>
    BY <1>1, <1>3, Empties, FromTheFrame
  <1>5. Brings(p, 2, s)
    <2>1. ASSUME NEW i \in 1..l PROVE Just(walkLenAll(p[i].sub, 2), s[i])
      <3>1. PICK a, c : a = p[i].sub /\ c = <<Third(inners[i], broken)>>
        OBVIOUS
      <3>2. s[i] = Sub(2, c)
        BY <1>2, <3>1 DEF Second
      <3>3. Just(a, Sub(2, c))
        BY <1>2, <3>1, <3>2
      <3>4. Just(walkLenAll(a, 2), Sub(2, c))
        BY <3>3, WalkSingle
      <3>5. QED
        BY <3>1, <3>2, <3>4
    <2>2. QED
      BY <1>1, <2>1 DEF Brings
  <1>6. Brings(s, 13, t)
    <2>1. ASSUME NEW i \in 1..l PROVE Just(walkLenAll(s[i].sub, 13), t[i])
      <3>1. PICK a, c : a = s[i].sub /\ c = inners[i] \o Also("envelope", broken)
        OBVIOUS
      <3>2. t[i] = Sub(13, c)
        BY <1>2, <3>1 DEF Third
      <3>3. Just(a, Sub(13, c))
        BY <1>2, <3>1, <3>2
      <3>4. Just(walkLenAll(a, 13), Sub(13, c))
        BY <3>3, WalkSingle
      <3>5. QED
        BY <3>1, <3>2, <3>4
    <2>2. QED
      BY <1>1, <2>1 DEF Brings
  <1>7. Carries(t, 1, r)
    <2>1. ASSUME NEW i \in 1..l PROVE walkLenAll(t[i].sub, 1) = r[i]
      <3>1. PICK b : b = inners[i]
        OBVIOUS
      <3>2. List(b) /\ Clean(b)
        BY <3>1
      <3>3. walkLenAll(b \o Also("envelope", broken), 1) = Fields(b, 1, "len")
        BY <3>2, WalkBody
      <3>4. QED
        BY <1>2, <3>1, <3>3
    <2>2. QED
      BY <1>1, <2>1 DEF Carries
  <1>8. Subfields(p, 2) = s /\ Subfields(s, 13) = t /\ Subfields(t, 1) = FlattenSeq(r)
    BY <1>5, <1>6, <1>7, SubfieldsBrought, SubfieldsAre
  <1>9. ASSUME NEW k PROVE walkPathAll(m, <<1, 2, 13, 1, k>>) = Subfields(FlattenSeq(r), k)
    BY <1>4, <1>8, WalkAllFive
  <1>10. walkPathAll(m, <<2, 2, 2>>) = <<>>
    BY <1>4, SubfieldsNil, WalkAllThree
  <1>11. QED
    BY <1>9, <1>10 DEF r

LEMMA OneFollowed ==
  ASSUME NEW n, NEW m, NEW b, Just(b, Sub(n, m))
  PROVE  walkLen(b, n) = m
  BY WalkSingle

LEMMA PacketsFollowed ==
  ASSUME NEW inners, List(inners), Len(inners) # 0, List(inners[1]), Clean(inners[1]),
         NEW broken, NEW m, m = Packets(inners, broken) \o Also("frame", broken)
  PROVE  walkPath(m, <<1, 2, 13, 4>>) = walkLen(inners[1], 4)
  <1> DEFINE b == inners[1]
  <1>1. 1 \in 1..Len(inners)
    BY ListFacts
  <1>2. PICK a, c, d : /\ a = <<Second(b, broken)>> /\ c = <<Third(b, broken)>>
                       /\ d = b \o Also("envelope", broken)
    OBVIOUS
  <1>3. walkLen(m, 1) = a
    <2>1. walkLen(m, 1) = Insides(inners, broken)[1]
      BY PacketsRead
    <2>2. QED
      BY <1>1, <1>2, <2>1 DEF Insides
  <1>4. Just(a, Sub(2, c)) /\ Just(c, Sub(13, d))
    BY <1>2 DEF Just, Second, Third
  <1> HIDE DEF b
  <1>5. walkLen(a, 2) = c /\ walkLen(c, 13) = d
    <2>1. walkLen(a, 2) = c
      BY <1>4, OneFollowed
    <2>2. walkLen(c, 13) = d
      BY <1>4, OneFollowed
    <2>3. QED
      BY <2>1, <2>2
  <1>6. walkLen(d, 4) = walkLen(b, 4)
    <2>1. List(b) /\ Clean(b)
      BY DEF b
    <2>2. QED
      BY <1>2, <2>1, WalkBody
  <1>7. QED
    BY <1>3, <1>5, <1>6, WalkPathFour DEF b

LEMMA NodesWalked ==
  ASSUME NEW records, RecordsList(records)
  PROVE  /\ Subfields(Nodes(records), 2) = FlattenSeq(LeavesOf(records))
         /\ Subfields(Nodes(records), 3) = FlattenSeq(IdsOf(records))
  <1> DEFINE nodes == Nodes(records)
             l == Len(records)
  <1>1. List(nodes) /\ Len(nodes) = l /\ \A i \in 1..l : nodes[i].sub = Node(records[i])
    BY NodesAre
  <1>2. ASSUME NEW i \in 1..l
        PROVE  /\ walkLenAll(nodes[i].sub, 2) = LeavesOf(records)[i]
               /\ walkLenAll(nodes[i].sub, 3) = IdsOf(records)[i]
    <2>1. PICK r \in Records : r = records[i]
      BY DEF RecordsList
    <2>2. PICK b : b = Node(r)
      OBVIOUS
    <2>3. /\ List(b) /\ Clean(b)
          /\ Fields(b, 2, "len") = Maybe(r[2] # "removed", Sub(2, Leaf(r)))
          /\ Fields(b, 3, "len") = Maybe(r[2] = "removed", Str(3, r[1].deviceId))
      BY <2>1, <2>2, NodeRead
    <2>4. walkLenAll(b, 2) = Fields(b, 2, "len") /\ walkLenAll(b, 3) = Fields(b, 3, "len")
      BY <2>3, WalkBody
    <2>5. nodes[i].sub = b
      BY <1>1, <2>1, <2>2
    <2>6. /\ LeavesOf(records)[i] = Maybe(r[2] # "removed", Sub(2, Leaf(r)))
          /\ IdsOf(records)[i] = Maybe(r[2] = "removed", Str(3, r[1].deviceId))
      BY <2>1, EndsAre
    <2>7. QED
      BY <2>3, <2>4, <2>5, <2>6
  <1> HIDE DEF nodes
  <1>3. Carries(nodes, 2, LeavesOf(records)) /\ Carries(nodes, 3, IdsOf(records))
    BY <1>1, <1>2, EndsAre DEF Carries
  <1>4. QED
    BY <1>3, SubfieldsAre DEF nodes

\* The walks of a single-device frame end at its leaves and its bare ids, for
\* records repeated at the top or side by side.
LEMMA SingleWalks ==
  ASSUME NEW records, RecordsList(records), NEW messages, NEW repeated, NEW broken, NEW m,
         m = SingleForm(records, messages, repeated, broken)
  PROVE  /\ walkPathAll(m, <<1, 2, 13, 1, 2>>) = FlattenSeq(LeavesOf(records))
         /\ walkPathAll(m, <<1, 2, 13, 1, 3>>) = FlattenSeq(IdsOf(records))
         /\ walkPathAll(m, <<2, 2, 2>>) = <<>>
         /\ messages = <<>> => walkPath(m, <<1, 2, 13, 4>>) = <<>>
         /\ messages # <<>> => walkPath(m, <<1, 2, 13, 4>>) = ChatBody(messages)
  <1>1. PICK inners : inners = Inners(records, messages, repeated)
    OBVIOUS
  <1>2. m = Packets(inners, broken) \o Also("frame", broken)
    BY <1>1, SingleIs
  <1>3. /\ List(inners) /\ Len(inners) # 0
        /\ \A i \in 1..Len(inners) : List(inners[i]) /\ Clean(inners[i])
        /\ FlattenSeq(Rows(inners)) = Nodes(records)
        /\ messages = <<>> => Subs(inners[1], 4) = <<>>
        /\ messages # <<>> => Just(Subs(inners[1], 4), ChatBody(messages))
    BY <1>1, InnersAre
  <1>4. List(inners[1]) /\ Clean(inners[1])
    BY <1>3, ListFacts
  <1>5. /\ \A k : walkPathAll(m, <<1, 2, 13, 1, k>>) = Subfields(Nodes(records), k)
        /\ walkPathAll(m, <<2, 2, 2>>) = <<>>
    BY <1>2, <1>3, PacketsWalked
  <1>6. walkPath(m, <<1, 2, 13, 4>>) = walkLen(inners[1], 4)
    BY <1>2, <1>3, <1>4, PacketsFollowed
  <1>7. PICK b : b = inners[1]
    OBVIOUS
  <1>8. List(b) /\ Clean(b)
    BY <1>4, <1>7
  <1>9. messages = <<>> => walkLen(b, 4) = <<>>
    BY <1>3, <1>7, <1>8, WalkBody
  <1>10. messages # <<>> => walkLen(b, 4) = ChatBody(messages)
    <2>1. SUFFICES ASSUME messages # <<>> PROVE walkLen(b, 4) = ChatBody(messages)
      OBVIOUS
    <2>2. Just(Subs(b, 4), ChatBody(messages))
      BY <1>3, <1>7, <2>1
    <2>3. Subs(b, 4) # <<>> /\ Subs(b, 4)[1] = ChatBody(messages)
      BY <2>2, JustIs
    <2>4. QED
      BY <1>8, <2>3, WalkBody
  <1>11. QED
    BY <1>5, <1>6, <1>7, <1>9, <1>10, NodesWalked


-------------------------------------------------------------------------------
(*                       What the roster decoders make                      *)

Start(s) == Cardinality({i \in DOMAIN s : \A j \in 1..i : Clean(s[j])})
ReadLeaves(s) == Gather(SubSeq(s, 1, Start(s)), decodeLeaf)
SubsOf(w) == [i \in DOMAIN w |-> w[i].sub]

LEMMA RosterIs ==
  ASSUME NEW m
  PROVE  decodeRoster(m) = ReadLeaves(SubsOf(walkPathAll(m, <<2, 2, 2>>)))
                             \o ReadLeaves(SubsOf(walkPathAll(m, <<1, 2, 13, 1, 2>>)))
  BY DEF decodeRoster, ReadLeaves, Start, SubsOf

LEMMA StartAll ==
  ASSUME NEW s, List(s), \A i \in 1..Len(s) : Clean(s[i])
  PROVE  SubSeq(s, 1, Start(s)) = s
  <1>1. PICK l \in Nat : l = Len(s) /\ DOMAIN s = 1..l
    BY ListFacts
  <1>2. {i \in DOMAIN s : \A j \in 1..i : Clean(s[j])} = 1..l
    BY <1>1
  <1>3. Start(s) = l
    <2>1. 1 \in Int /\ l \in Int
      BY <1>1
    <2>2. Cardinality(1..l) = IF 1 > l THEN 0 ELSE l - 1 + 1
      BY <2>1, FS_Interval
    <2>3. Cardinality(1..l) = l
      BY <1>1, <2>2
    <2>4. QED
      BY <1>2, <2>3 DEF Start
  <1>4. SubSeq(s, 1, l) = [i \in 1..l |-> s[i]]
    BY <1>1, StartIs
  <1>5. s = [i \in 1..l |-> s[i]]
    BY <1>1, ListFacts
  <1>6. QED
    BY <1>3, <1>4, <1>5

LEMMA NoLeaves == ReadLeaves(SubsOf(<<>>)) = <<>>
  <1> DEFINE s == SubsOf(<<>>)
             d == [i \in DOMAIN s |-> decodeLeaf(s[i])]
  <1>1. s = [i \in 1..0 |-> s[i]]
    BY DEF SubsOf
  <1> HIDE DEF s
  <1>2. List(s) /\ Len(s) = 0 /\ DOMAIN s = 1..0
    BY <1>1, ListMade
  <1>3. SubSeq(s, 1, Start(s)) = s
    <2>1. \A i \in 1..Len(s) : Clean(s[i])
      BY <1>2
    <2>2. QED
      BY <1>2, <2>1, StartAll
  <1>4. ReadLeaves(s) = FlattenSeq(d)
    BY <1>3 DEF ReadLeaves, Gather
  <1>5. d = [i \in 1..0 |-> d[i]]
    BY <1>2
  <1> HIDE DEF d
  <1>6. List(d) /\ Len(d) = 0
    BY <1>5, ListMade
  <1>7. FlattenSeq(d) = <<>>
    BY <1>6, FlattenNone
  <1>8. QED
    BY <1>4, <1>7 DEF s

LeafFields == {Sub(2, Leaf(r)) : r \in Records}
LeafRecords(records) ==
  [i \in DOMAIN records |-> Maybe(records[i][2] \notin {"removed", "nameless"}, LeafRecord(records[i]))]

LEMMA LeafRecordsAre ==
  ASSUME NEW records, RecordsList(records)
  PROVE  /\ List(LeafRecords(records)) /\ Len(LeafRecords(records)) = Len(records)
         /\ \A i \in 1..Len(records) :
              LeafRecords(records)[i] =
                Maybe(records[i][2] \notin {"removed", "nameless"}, LeafRecord(records[i]))
  <1>1. PICK l \in Nat : l = Len(records) /\ DOMAIN records = 1..l
    BY RecordsAre
  <1> DEFINE s == LeafRecords(records)
  <1>2. /\ s = [i \in 1..l |-> s[i]]
        /\ \A i \in 1..l : s[i] = Maybe(records[i][2] \notin {"removed", "nameless"}, LeafRecord(records[i]))
    BY <1>1 DEF LeafRecords
  <1> HIDE DEF s
  <1>3. List(s) /\ Len(s) = l
    BY <1>2, ListMade
  <1>4. QED
    BY <1>1, <1>2, <1>3 DEF s

\* Values of X, at most one at each place.
Optional(s, X) ==
  /\ List(s)
  /\ \A i \in 1..Len(s) : s[i] = <<>> \/ \E x \in X : Just(s[i], x)

LEMMA OptionalIn ==
  ASSUME NEW X, NEW s, Optional(s, X)
  PROVE  FlattenSeq(s) \in Seq(X)
  <1>1. ASSUME NEW i \in 1..Len(s) PROVE s[i] \in Seq(X)
    <2>1. CASE s[i] = <<>>
      <3>1. <<>> \in Seq(X)
        OBVIOUS
      <3>2. QED
        BY <2>1, <3>1
    <2>2. CASE s[i] # <<>>
      <3>1. PICK x \in X : Just(s[i], x)
        BY <2>2 DEF Optional
      <3>2. <<x>> \in Seq(X)
        OBVIOUS
      <3>3. QED
        BY <3>1, <3>2 DEF Just
    <2>3. QED
      BY <2>1, <2>2
  <1>2. QED
    BY <1>1, FlattenIn DEF Optional

LEMMA MaybeOptional ==
  ASSUME NEW X, NEW x \in X, NEW cond, NEW s, s = Maybe(cond, x)
  PROVE  s = <<>> \/ \E y \in X : Just(s, y)
  BY DEF Maybe, Just

\* The leaves of a batch are read to the last, for none of them is malformed.
LEMMA LeavesDecoded ==
  ASSUME NEW records, RecordsList(records), NEW w, w = FlattenSeq(LeavesOf(records))
  PROVE  ReadLeaves(SubsOf(w)) = FlattenSeq(LeafRecords(records))
  <1> DEFINE s == LeavesOf(records)
             u == LeafRecords(records)
             t == SubsOf(w)
             g == [x \in LeafFields |-> decodeLeaf(x.sub)]
             d == [i \in DOMAIN t |-> decodeLeaf(t[i])]
  <1>1. PICK l \in Nat : l = Len(records) /\ \A i \in 1..l : records[i] \in Records
    BY RecordsAre
  <1>2. /\ List(s) /\ Len(s) = l
        /\ \A i \in 1..l : s[i] = Maybe(records[i][2] # "removed", Sub(2, Leaf(records[i])))
    BY <1>1, EndsAre
  <1>3. /\ List(u) /\ Len(u) = l
        /\ \A i \in 1..l : u[i] = Maybe(records[i][2] \notin {"removed", "nameless"}, LeafRecord(records[i]))
    BY <1>1, LeafRecordsAre
  <1>4. \A i \in 1..l : Sub(2, Leaf(records[i])) \in LeafFields
    BY <1>1 DEF LeafFields
  <1> HIDE DEF s, u
  <1>5. Optional(s, LeafFields)
    <2>1. ASSUME NEW i \in 1..l PROVE s[i] = <<>> \/ \E x \in LeafFields : Just(s[i], x)
      BY <1>2, <1>4, MaybeOptional
    <2>2. QED
      BY <1>2, <2>1 DEF Optional
  <1>6. w \in Seq(LeafFields)
    BY <1>5, OptionalIn DEF s
  <1>7. PICK k \in Nat : k = Len(w) /\ DOMAIN w = 1..k /\ \A i \in 1..k : w[i] \in LeafFields
    BY <1>6
  <1>8. \A x \in LeafFields : \E r \in Records : x = Sub(2, Leaf(r)) /\ x.sub = Leaf(r)
    BY SubIs DEF LeafFields
  <1>9. t = [i \in 1..k |-> t[i]] /\ \A i \in 1..k : t[i] = w[i].sub
    BY <1>7 DEF SubsOf
  <1> HIDE DEF t
  <1>10. List(t) /\ Len(t) = k /\ DOMAIN t = 1..k
    BY <1>9, ListMade, ListFacts
  <1>11. ASSUME NEW i \in 1..k PROVE Clean(t[i])
    <2>1. PICK r \in Records : w[i].sub = Leaf(r)
      BY <1>7, <1>8
    <2>2. QED
      BY <1>9, <2>1, LeafRead
  <1>12. SubSeq(t, 1, Start(t)) = t
    BY <1>10, <1>11, StartAll
  <1>13. ReadLeaves(t) = FlattenSeq(d)
    BY <1>12 DEF ReadLeaves, Gather
  <1>14. d = Mapped(g, w)
    BY <1>7, <1>9, <1>10 DEF Mapped
  <1>15. ASSUME NEW r \in Records
         PROVE  g[Sub(2, Leaf(r))] = Maybe(r[2] # "nameless", LeafRecord(r))
    <2>1. Sub(2, Leaf(r)) \in LeafFields /\ Sub(2, Leaf(r)).sub = Leaf(r)
      BY SubIs DEF LeafFields
    <2>2. g[Sub(2, Leaf(r))] = decodeLeaf(Leaf(r))
      BY <2>1
    <2>3. QED
      BY <2>2, LeafDecoded
  <1> HIDE DEF g, d
  <1>16. Images(g, s, u)
    <2>1. ASSUME NEW i \in 1..l
          PROVE  \/ s[i] = <<>> /\ u[i] = <<>>
                 \/ \E x : s[i] = <<x>> /\ u[i] = g[x] /\ List(u[i])
      <3>1. PICK r \in Records : r = records[i]
        BY <1>1
      <3>2. /\ s[i] = Maybe(r[2] # "removed", Sub(2, Leaf(r)))
            /\ u[i] = Maybe(r[2] \notin {"removed", "nameless"}, LeafRecord(r))
        BY <1>2, <1>3, <3>1
      <3>3. CASE r[2] = "removed"
        BY <3>2, <3>3 DEF Maybe
      <3>4. CASE r[2] # "removed"
        <4>1. s[i] = <<Sub(2, Leaf(r))>>
          BY <3>2, <3>4 DEF Maybe
        <4>2. u[i] = Maybe(r[2] # "nameless", LeafRecord(r))
          BY <3>2, <3>4 DEF Maybe
        <4>3. u[i] = g[Sub(2, Leaf(r))] /\ List(u[i])
          BY <1>15, <4>2, MaybeIs
        <4>4. QED
          BY <4>1, <4>3
      <3>5. QED
        BY <3>3, <3>4
    <2>2. QED
      BY <1>2, <1>3, <2>1 DEF Images
  <1>17. FlattenSeq(Mapped(g, w)) = FlattenSeq(u)
    BY <1>16, FlattenMap DEF s
  <1>18. QED
    BY <1>13, <1>14, <1>17 DEF t, u


-------------------------------------------------------------------------------
(*                       What the roster handler tells                      *)

Event(e) == IF e.state = Left THEN DeviceLeave(e.deviceId, e.deviceName) ELSE Device(e)
EventsOf(list) == Gather(list, LAMBDA e : Maybe(e.deviceId # "", Event(e)))
IdsRead(w) == Gather(w, LAMBDA f : Maybe(f.str # "", f.str))
Gone(ids) == [i \in DOMAIN ids |-> DeviceLeave(ids[i], "")]

LEMMA RosterToldIs ==
  ASSUME NEW m
  PROVE  /\ handleRoster(m) = EventsOf(decodeRoster(m)) \o Gone(decodeRosterLeave(m))
         /\ decodeRosterLeave(m) = IdsRead(walkPathAll(m, <<1, 2, 13, 1, 3>>))
  BY DEF handleRoster, EventsOf, Event, Gone, Each, decodeRosterLeave, IdsRead

JoinEvent(r) == IF r[2] = "left" THEN DeviceLeave(r[1].deviceId, r[1].deviceName) ELSE Device(r[1])
JoinedAll(records) ==
  [i \in DOMAIN records |-> Maybe(records[i][2] \in {"present", "guest", "left"}, JoinEvent(records[i]))]
BareIds(records) == [i \in DOMAIN records |-> Maybe(records[i][2] = "removed", records[i][1].deviceId)]
GoneAll(records) ==
  [i \in DOMAIN records |-> Maybe(records[i][2] = "removed", DeviceLeave(records[i][1].deviceId, ""))]

LEMMA KnownIs ==
  ASSUME NEW records
  PROVE  Known(records) = FlattenSeq(JoinedAll(records)) \o FlattenSeq(GoneAll(records))
  BY DEF Known, Gather, JoinedAll, GoneAll, JoinEvent

LEMMA ToldAre ==
  ASSUME NEW records, RecordsList(records)
  PROVE  /\ List(JoinedAll(records)) /\ Len(JoinedAll(records)) = Len(records)
         /\ List(BareIds(records)) /\ Len(BareIds(records)) = Len(records)
         /\ List(GoneAll(records)) /\ Len(GoneAll(records)) = Len(records)
         /\ \A i \in 1..Len(records) :
              /\ JoinedAll(records)[i] =
                   Maybe(records[i][2] \in {"present", "guest", "left"}, JoinEvent(records[i]))
              /\ BareIds(records)[i] = Maybe(records[i][2] = "removed", records[i][1].deviceId)
              /\ GoneAll(records)[i] =
                   Maybe(records[i][2] = "removed", DeviceLeave(records[i][1].deviceId, ""))
  <1>1. PICK l \in Nat : l = Len(records) /\ DOMAIN records = 1..l
    BY RecordsAre
  <1> DEFINE s == JoinedAll(records)
             t == BareIds(records)
             u == GoneAll(records)
  <1>2. /\ s = [i \in 1..l |-> s[i]]
        /\ \A i \in 1..l : s[i] = Maybe(records[i][2] \in {"present", "guest", "left"}, JoinEvent(records[i]))
    BY <1>1 DEF JoinedAll
  <1>3. /\ t = [i \in 1..l |-> t[i]]
        /\ \A i \in 1..l : t[i] = Maybe(records[i][2] = "removed", records[i][1].deviceId)
    BY <1>1 DEF BareIds
  <1>4. /\ u = [i \in 1..l |-> u[i]]
        /\ \A i \in 1..l : u[i] = Maybe(records[i][2] = "removed", DeviceLeave(records[i][1].deviceId, ""))
    BY <1>1 DEF GoneAll
  <1> HIDE DEF s, t, u
  <1>5. List(s) /\ Len(s) = l /\ List(t) /\ Len(t) = l /\ List(u) /\ Len(u) = l
    BY <1>2, <1>3, <1>4, ListMade
  <1>6. QED
    BY <1>1, <1>2, <1>3, <1>4, <1>5 DEF s, t, u

\* Every value of a list of optional ones, mapped.
LEMMA MapThrough ==
  ASSUME NEW X, NEW g, NEW s, Optional(s, X), NEW u, Images(g, s, u),
         NEW w, w = FlattenSeq(s), NEW d, d = [i \in DOMAIN w |-> g[w[i]]]
  PROVE  /\ FlattenSeq(d) = FlattenSeq(u)
         /\ \E k \in Nat : k = Len(w) /\ DOMAIN w = 1..k /\ \A i \in 1..k : w[i] \in X
  <1>1. w \in Seq(X)
    BY OptionalIn
  <1>2. PICK k \in Nat : k = Len(w) /\ DOMAIN w = 1..k /\ \A i \in 1..k : w[i] \in X
    BY <1>1
  <1>3. d = Mapped(g, w)
    BY <1>2 DEF Mapped
  <1>4. FlattenSeq(Mapped(g, FlattenSeq(s))) = FlattenSeq(u)
    BY FlattenMap
  <1>5. QED
    BY <1>2, <1>3, <1>4

LEMMA KnownStates ==
  ASSUME NEW r \in Records
  PROVE  r[2] \notin {"removed", "nameless"} <=> r[2] \in {"present", "guest", "left"}
  BY RecordIs DEF States

LEMMA EventOf ==
  ASSUME NEW r \in Records
  PROVE  LeafRecord(r).deviceId # "" /\ Event(LeafRecord(r)) = JoinEvent(r)
  <1> DEFINE e == LeafRecord(r)
  <1>1. e.deviceId = r[1].deviceId /\ e.deviceName = r[1].deviceName /\ e.state = StateOf(r)
    BY DEF LeafRecord
  <1>2. e.state = Left <=> r[2] = "left"
    BY <1>1 DEF StateOf, Left
  <1>3. r[1].deviceId # ""
    BY RecordIs, ParticipantIs
  <1> HIDE DEF e
  <1>4. Event(e) = JoinEvent(r)
    BY <1>1, <1>2 DEF Event, JoinEvent, Device
  <1>5. QED
    BY <1>1, <1>3, <1>4 DEF e

RecordFields == {LeafRecord(r) : r \in Records}

\* The events of the leaves are those of the records that carry a name.
LEMMA RosterJoined ==
  ASSUME NEW records, RecordsList(records), NEW w, w = FlattenSeq(LeafRecords(records))
  PROVE  EventsOf(w) = FlattenSeq(JoinedAll(records)) /\ w \in Seq(RecordFields)
  <1> DEFINE s == LeafRecords(records)
             u == JoinedAll(records)
             g == [e \in RecordFields |-> Maybe(e.deviceId # "", Event(e))]
             d == [i \in DOMAIN w |-> Maybe(w[i].deviceId # "", Event(w[i]))]
             c == [i \in DOMAIN w |-> g[w[i]]]
  <1>1. PICK l \in Nat : l = Len(records) /\ \A i \in 1..l : records[i] \in Records
    BY RecordsAre
  <1>2. /\ List(s) /\ Len(s) = l
        /\ \A i \in 1..l : s[i] = Maybe(records[i][2] \notin {"removed", "nameless"}, LeafRecord(records[i]))
    BY <1>1, LeafRecordsAre
  <1>3. /\ List(u) /\ Len(u) = l
        /\ \A i \in 1..l : u[i] = Maybe(records[i][2] \in {"present", "guest", "left"}, JoinEvent(records[i]))
    BY <1>1, ToldAre
  <1>4. \A i \in 1..l : LeafRecord(records[i]) \in RecordFields
    BY <1>1 DEF RecordFields
  <1>5. EventsOf(w) = FlattenSeq(d)
    BY DEF EventsOf, Gather
  <1> HIDE DEF s, u
  <1>6. Optional(s, RecordFields)
    <2>1. ASSUME NEW i \in 1..l PROVE s[i] = <<>> \/ \E x \in RecordFields : Just(s[i], x)
      BY <1>2, <1>4, MaybeOptional
    <2>2. QED
      BY <1>2, <2>1 DEF Optional
  <1>7. ASSUME NEW r \in Records PROVE g[LeafRecord(r)] = <<JoinEvent(r)>>
    <2>1. LeafRecord(r) \in RecordFields
      BY DEF RecordFields
    <2>2. g[LeafRecord(r)] = Maybe(LeafRecord(r).deviceId # "", Event(LeafRecord(r)))
      BY <2>1
    <2>3. QED
      BY <2>2, EventOf DEF Maybe
  <1>8. ASSUME DOMAIN w = 1..Len(w), \A i \in 1..Len(w) : w[i] \in RecordFields PROVE c = d
    BY <1>8
  <1> HIDE DEF g, d
  <1>9. Images(g, s, u)
    <2>1. ASSUME NEW i \in 1..l
          PROVE  \/ s[i] = <<>> /\ u[i] = <<>>
                 \/ \E x : s[i] = <<x>> /\ u[i] = g[x] /\ List(u[i])
      <3>1. PICK r \in Records : r = records[i]
        BY <1>1
      <3>2. /\ s[i] = Maybe(r[2] \notin {"removed", "nameless"}, LeafRecord(r))
            /\ u[i] = Maybe(r[2] \in {"present", "guest", "left"}, JoinEvent(r))
        BY <1>2, <1>3, <3>1
      <3>3. g[LeafRecord(r)] = <<JoinEvent(r)>>
        BY <1>7
      <3>4. CASE r[2] \in {"removed", "nameless"}
        BY <3>2, <3>4, KnownStates DEF Maybe
      <3>5. CASE r[2] \notin {"removed", "nameless"}
        <4>1. s[i] = <<LeafRecord(r)>> /\ u[i] = <<JoinEvent(r)>>
          BY <3>2, <3>5, KnownStates DEF Maybe
        <4>2. List(u[i])
          BY <4>1, One
        <4>3. QED
          BY <3>3, <4>1, <4>2
      <3>6. QED
        BY <3>4, <3>5
    <2>2. QED
      BY <1>2, <1>3, <2>1 DEF Images
  <1>10. w \in Seq(RecordFields)
    BY <1>6, OptionalIn DEF s
  <1>11. FlattenSeq(c) = FlattenSeq(u)
    <2>1. w = FlattenSeq(s)
      BY DEF s
    <2> HIDE DEF c
    <2>2. c = [i \in DOMAIN w |-> g[w[i]]]
      BY DEF c
    <2>3. QED
      BY <1>6, <1>9, <2>1, <2>2, MapThrough
  <1>12. c = d
    BY <1>8, <1>10
  <1>13. QED
    BY <1>5, <1>10, <1>11, <1>12 DEF u


IdFields == {Str(3, r[1].deviceId) : r \in Records}

LEMMA IdsOptional ==
  ASSUME NEW records, RecordsList(records)
  PROVE  Optional(IdsOf(records), IdFields)
  <1>1. ASSUME NEW i \in 1..Len(records)
        PROVE  IdsOf(records)[i] = <<>> \/ \E x \in IdFields : Just(IdsOf(records)[i], x)
    <2>1. Str(3, records[i][1].deviceId) \in IdFields
      BY DEF IdFields, RecordsList
    <2>2. IdsOf(records)[i] = Maybe(records[i][2] = "removed", Str(3, records[i][1].deviceId))
      BY EndsAre
    <2>3. QED
      BY <2>1, <2>2, MaybeOptional
  <1>2. QED
    BY <1>1, EndsAre DEF Optional

LEMMA IdsReadAre ==
  ASSUME NEW records, RecordsList(records), NEW w, w = FlattenSeq(IdsOf(records))
  PROVE  IdsRead(w) = FlattenSeq(BareIds(records))
  <1> DEFINE s == IdsOf(records)
             u == BareIds(records)
             g == [f \in IdFields |-> Maybe(f.str # "", f.str)]
             d == [i \in DOMAIN w |-> Maybe(w[i].str # "", w[i].str)]
             c == [i \in DOMAIN w |-> g[w[i]]]
  <1>1. PICK l \in Nat : l = Len(records) /\ \A i \in 1..l : records[i] \in Records
    BY RecordsAre
  <1>2. /\ List(s) /\ Len(s) = l
        /\ \A i \in 1..l : s[i] = Maybe(records[i][2] = "removed", Str(3, records[i][1].deviceId))
    BY <1>1, EndsAre
  <1>3. /\ List(u) /\ Len(u) = l
        /\ \A i \in 1..l : u[i] = Maybe(records[i][2] = "removed", records[i][1].deviceId)
    BY <1>1, ToldAre
  <1>4. IdsRead(w) = FlattenSeq(d)
    BY DEF IdsRead, Gather
  <1>5. Optional(s, IdFields)
    BY IdsOptional
  <1> HIDE DEF s, u
  <1>6. ASSUME NEW r \in Records PROVE g[Str(3, r[1].deviceId)] = <<r[1].deviceId>>
    <2>1. Str(3, r[1].deviceId) \in IdFields /\ Str(3, r[1].deviceId).str = r[1].deviceId
      BY StrIs DEF IdFields
    <2>2. r[1].deviceId # ""
      BY RecordIs, ParticipantIs
    <2>3. g[Str(3, r[1].deviceId)] = Maybe(r[1].deviceId # "", r[1].deviceId)
      BY <2>1
    <2>4. QED
      BY <2>2, <2>3 DEF Maybe
  <1>7. ASSUME DOMAIN w = 1..Len(w), \A i \in 1..Len(w) : w[i] \in IdFields PROVE c = d
    BY <1>7
  <1> HIDE DEF g, d
  <1>8. Images(g, s, u)
    <2>1. ASSUME NEW i \in 1..l
          PROVE  \/ s[i] = <<>> /\ u[i] = <<>>
                 \/ \E x : s[i] = <<x>> /\ u[i] = g[x] /\ List(u[i])
      <3>1. PICK r \in Records : r = records[i]
        BY <1>1
      <3>2. /\ s[i] = Maybe(r[2] = "removed", Str(3, r[1].deviceId))
            /\ u[i] = Maybe(r[2] = "removed", r[1].deviceId)
        BY <1>2, <1>3, <3>1
      <3>3. g[Str(3, r[1].deviceId)] = <<r[1].deviceId>>
        BY <1>6
      <3>4. CASE r[2] # "removed"
        BY <3>2, <3>4 DEF Maybe
      <3>5. CASE r[2] = "removed"
        <4>1. s[i] = <<Str(3, r[1].deviceId)>> /\ u[i] = <<r[1].deviceId>>
          BY <3>2, <3>5 DEF Maybe
        <4>2. List(u[i])
          BY <4>1, One
        <4>3. QED
          BY <3>3, <4>1, <4>2
      <3>6. QED
        BY <3>4, <3>5
    <2>2. QED
      BY <1>2, <1>3, <2>1 DEF Images
  <1>9. w \in Seq(IdFields)
    BY <1>5, OptionalIn DEF s
  <1>10. FlattenSeq(c) = FlattenSeq(u)
    <2>1. w = FlattenSeq(s)
      BY DEF s
    <2> HIDE DEF c
    <2>2. c = [i \in DOMAIN w |-> g[w[i]]]
      BY DEF c
    <2>3. QED
      BY <1>5, <1>8, <2>1, <2>2, MapThrough
  <1>11. c = d
    BY <1>7, <1>9
  <1>12. QED
    BY <1>4, <1>10, <1>11 DEF u

Ids == {r[1].deviceId : r \in Records}

\* The bare ids are told as leaves without a name.
LEMMA RosterGone ==
  ASSUME NEW records, RecordsList(records), NEW w, w = FlattenSeq(BareIds(records))
  PROVE  Gone(w) = FlattenSeq(GoneAll(records)) /\ List(Gone(w))
  <1> DEFINE s == BareIds(records)
             u == GoneAll(records)
             g == [x \in Ids |-> <<DeviceLeave(x, "")>>]
             c == [i \in DOMAIN w |-> g[w[i]]]
             e == [i \in DOMAIN w |-> DeviceLeave(w[i], "")]
  <1>1. PICK l \in Nat : l = Len(records) /\ \A i \in 1..l : records[i] \in Records
    BY RecordsAre
  <1>2. /\ List(s) /\ Len(s) = l
        /\ \A i \in 1..l : s[i] = Maybe(records[i][2] = "removed", records[i][1].deviceId)
    BY <1>1, ToldAre
  <1>3. /\ List(u) /\ Len(u) = l
        /\ \A i \in 1..l : u[i] = Maybe(records[i][2] = "removed", DeviceLeave(records[i][1].deviceId, ""))
    BY <1>1, ToldAre
  <1>4. \A i \in 1..l : records[i][1].deviceId \in Ids
    BY <1>1 DEF Ids
  <1> HIDE DEF s, u
  <1>5. Optional(s, Ids)
    <2>1. ASSUME NEW i \in 1..l PROVE s[i] = <<>> \/ \E x \in Ids : Just(s[i], x)
      BY <1>2, <1>4, MaybeOptional
    <2>2. QED
      BY <1>2, <2>1 DEF Optional
  <1>6. \A x \in Ids : g[x] = <<DeviceLeave(x, "")>>
    OBVIOUS
  <1> HIDE DEF g
  <1>7. Images(g, s, u)
    <2>1. ASSUME NEW i \in 1..l
          PROVE  \/ s[i] = <<>> /\ u[i] = <<>>
                 \/ \E x : s[i] = <<x>> /\ u[i] = g[x] /\ List(u[i])
      <3>1. PICK x \in Ids : x = records[i][1].deviceId
        BY <1>4
      <3>2. /\ s[i] = Maybe(records[i][2] = "removed", x)
            /\ u[i] = Maybe(records[i][2] = "removed", DeviceLeave(x, ""))
        BY <1>2, <1>3, <3>1
      <3>3. CASE records[i][2] # "removed"
        BY <3>2, <3>3 DEF Maybe
      <3>4. CASE records[i][2] = "removed"
        <4>1. s[i] = <<x>> /\ u[i] = <<DeviceLeave(x, "")>>
          BY <3>2, <3>4 DEF Maybe
        <4>2. List(u[i])
          BY <4>1, One
        <4>3. QED
          BY <1>6, <4>1, <4>2
      <3>5. QED
        BY <3>3, <3>4
    <2>2. QED
      BY <1>2, <1>3, <2>1 DEF Images
  <1>8. w = FlattenSeq(s)
    BY DEF s
  <1>9. FlattenSeq(c) = FlattenSeq(u)
    <2> HIDE DEF c
    <2>1. c = [i \in DOMAIN w |-> g[w[i]]]
      BY DEF c
    <2>2. QED
      BY <1>5, <1>7, <1>8, <2>1, MapThrough
  <1>10. w \in Seq(Ids)
    BY <1>5, <1>8, OptionalIn
  <1>11. PICK k \in Nat : k = Len(w) /\ DOMAIN w = 1..k /\ \A i \in 1..k : w[i] \in Ids
    BY <1>10
  <1>12. c = [i \in 1..k |-> <<e[i]>>]
    BY <1>6, <1>11
  <1>13. e = [i \in 1..k |-> e[i]]
    BY <1>11
  <1> HIDE DEF c, e
  <1>14. FlattenSeq(c) = [i \in 1..k |-> e[i]]
    BY <1>12, FlattenOnes
  <1>15. List(e)
    BY <1>13, ListMade
  <1>16. Gone(w) = e
    BY DEF Gone, e
  <1>17. QED
    BY <1>9, <1>13, <1>14, <1>15, <1>16 DEF u


\* The handler, once the walks have found the leaves and the ids.
LEMMA RosterTold ==
  ASSUME NEW records, RecordsList(records), NEW m,
         decodeRoster(m) = FlattenSeq(LeafRecords(records)),
         walkPathAll(m, <<1, 2, 13, 1, 3>>) = FlattenSeq(IdsOf(records))
  PROVE  handleRoster(m) = Known(records) /\ List(Known(records))
  <1>1. EventsOf(decodeRoster(m)) = FlattenSeq(JoinedAll(records))
    BY RosterJoined
  <1>2. decodeRosterLeave(m) = FlattenSeq(BareIds(records))
    BY IdsReadAre, RosterToldIs
  <1>3. Gone(decodeRosterLeave(m)) = FlattenSeq(GoneAll(records)) /\ List(Gone(decodeRosterLeave(m)))
    BY <1>2, RosterGone
  <1>4. handleRoster(m) = Known(records)
    BY <1>1, <1>3, RosterToldIs, KnownIs
  <1>5. List(FlattenSeq(JoinedAll(records)))
    <2>1. ASSUME NEW i \in 1..Len(records) PROVE List(JoinedAll(records)[i])
      <3>1. JoinedAll(records)[i] =
              Maybe(records[i][2] \in {"present", "guest", "left"}, JoinEvent(records[i]))
        BY ToldAre
      <3>2. QED
        BY <3>1, MaybeIs
    <2>3. Flat(JoinedAll(records))
      BY <2>1, ToldAre DEF Flat
    <2>4. QED
      BY <2>3, FlattenList
  <1>6. List(FlattenSeq(JoinedAll(records)) \o FlattenSeq(GoneAll(records)))
    BY <1>3, <1>5, Joined
  <1>7. QED
    BY <1>4, <1>6, KnownIs

LEMMA LeafRecordsList ==
  ASSUME NEW records, RecordsList(records)
  PROVE  List(FlattenSeq(LeafRecords(records)))
  <1>1. FlattenSeq(LeafRecords(records)) \in Seq(RecordFields)
    BY RosterJoined
  <1>2. QED
    BY <1>1, ListOf

LEMMA SingleRoster ==
  ASSUME NEW records, RecordsList(records), NEW messages, NEW repeated, NEW broken, NEW m,
         m = SingleForm(records, messages, repeated, broken)
  PROVE  handleRoster(m) = Known(records) /\ List(Known(records))
  <1>1. /\ walkPathAll(m, <<1, 2, 13, 1, 2>>) = FlattenSeq(LeavesOf(records))
        /\ walkPathAll(m, <<1, 2, 13, 1, 3>>) = FlattenSeq(IdsOf(records))
        /\ walkPathAll(m, <<2, 2, 2>>) = <<>>
    BY SingleWalks
  <1>2. ReadLeaves(SubsOf(FlattenSeq(LeavesOf(records)))) = FlattenSeq(LeafRecords(records))
    BY LeavesDecoded
  <1>3. decodeRoster(m) = <<>> \o FlattenSeq(LeafRecords(records))
    BY <1>1, <1>2, RosterIs, NoLeaves
  <1>4. decodeRoster(m) = FlattenSeq(LeafRecords(records))
    BY <1>3, LeafRecordsList, Empties
  <1>5. QED
    BY <1>1, <1>4, RosterTold

LEMMA CollectionRoster ==
  ASSUME NEW records, RecordsList(records), NEW broken, NEW m, m = CollectionForm(records, broken),
         \A i \in 1..Len(records) : records[i][2] # "removed"
  PROVE  handleRoster(m) = Known(records) /\ List(Known(records))
  <1>1. /\ walkPathAll(m, <<2, 2, 2>>) = FlattenSeq(LeavesOf(records))
        /\ \A a, b, c, d : walkPathAll(m, <<1, a, b, c, d>>) = <<>>
    BY CollectionWalks
  <1>2. ReadLeaves(SubsOf(FlattenSeq(LeavesOf(records)))) = FlattenSeq(LeafRecords(records))
    BY LeavesDecoded
  <1>3. decodeRoster(m) = FlattenSeq(LeafRecords(records)) \o <<>>
    BY <1>1, <1>2, RosterIs, NoLeaves
  <1>4. decodeRoster(m) = FlattenSeq(LeafRecords(records))
    BY <1>3, LeafRecordsList, Empties
  <1>5. \A i \in 1..Len(records) : IdsOf(records)[i] = <<>>
    BY EndsAre DEF Maybe
  <1>6. FlattenSeq(IdsOf(records)) = <<>>
    BY <1>5, EndsAre, FlattenNone
  <1>7. walkPathAll(m, <<1, 2, 13, 1, 3>>) = FlattenSeq(IdsOf(records))
    BY <1>1, <1>6
  <1>8. QED
    BY <1>4, <1>7, RosterTold

-------------------------------------------------------------------------------
(*                          The chat of a frame                             *)

MessagesList(messages) == List(messages) /\ \A i \in 1..Len(messages) : messages[i] \in Message

LEMMA MessageIs ==
  ASSUME NEW p \in Message
  PROVE  /\ p = [messageId |-> p.messageId, deviceId |-> p.deviceId, text |-> p.text,
                 sender |-> p.sender]
         /\ p.deviceId # "" /\ p.text # ""
  <1>1. p \in [messageId : STRING, deviceId : DevicePath, text : STRING \ {""}, sender : STRING]
    BY WireAssumption
  <1>2. p = [messageId |-> p.messageId, deviceId |-> p.deviceId, text |-> p.text,
             sender |-> p.sender]
    BY <1>1
  <1>3. p.deviceId \in DevicePath /\ p.text \in STRING \ {""}
    BY <1>1
  <1>4. QED
    BY <1>2, <1>3, StringAssumption

LEMMA FirstString ==
  ASSUME NEW m, NEW s, Just(m, Str(1, s))
  PROVE  List(m) /\ Clean(m) /\ firstSubString(m) = s
  <1>1. PICK f : f = Str(1, s)
    OBVIOUS
  <1>2. f.wire # "undefined" /\ Has(f, 1, "len") /\ f.str = s
    BY <1>1, HasOf, WiresDefined, StrIs
  <1>3. Just(m, f)
    BY <1>1
  <1>4. List(m) /\ Clean(m) /\ Just(Fields(m, 1, "len"), f)
    BY <1>2, <1>3, OneRead
  <1>5. Fields(m, 1, "len") # <<>> /\ Fields(m, 1, "len")[1] = f
    BY <1>4, JustIs
  <1>6. firstSubString(m) = f.str
    BY <1>5 DEF firstSubString
  <1>7. QED
    BY <1>2, <1>4, <1>6

LEMMA MessageRead ==
  ASSUME NEW p \in Message, NEW m, m = MessageNode(p)
  PROVE  /\ List(m) /\ Clean(m)
         /\ CleanAlong(m, <<5>>) /\ CleanAlong(m, <<8>>)
         /\ decodeChatMessage(m) = p
  <1> DEFINE a == Str(1, p.messageId)
             b == Str(2, p.deviceId)
             c == Sub(5, <<Str(1, p.text)>>)
             d == Sub(8, <<Str(1, p.sender)>>)
  <1>1. m = <<a, b, c, d>>
    BY DEF MessageNode
  <1>2. /\ a.wire # "undefined" /\ Has(a, 1, "len") /\ ~Has(a, 2, "len")
        /\ ~Has(a, 5, "len") /\ ~Has(a, 8, "len") /\ a.str = p.messageId
    BY HasOf, WiresDefined, StrIs
  <1>3. /\ b.wire # "undefined" /\ ~Has(b, 1, "len") /\ Has(b, 2, "len")
        /\ ~Has(b, 5, "len") /\ ~Has(b, 8, "len") /\ b.str = p.deviceId
    BY HasOf, WiresDefined, StrIs
  <1>4. /\ c.wire # "undefined" /\ ~Has(c, 1, "len") /\ ~Has(c, 2, "len")
        /\ Has(c, 5, "len") /\ ~Has(c, 8, "len") /\ c.sub = <<Str(1, p.text)>>
    BY HasOf, WiresDefined, SubIs
  <1>5. /\ d.wire # "undefined" /\ ~Has(d, 1, "len") /\ ~Has(d, 2, "len")
        /\ ~Has(d, 5, "len") /\ Has(d, 8, "len") /\ d.sub = <<Str(1, p.sender)>>
    BY HasOf, WiresDefined, SubIs
  <1> HIDE DEF a, b, c, d
  <1>6. List(m) /\ Len(m) = 4 /\ m[1] = a /\ m[2] = b /\ m[3] = c /\ m[4] = d
    BY <1>1, Four
  <1>7. \A i \in 1..4 : i = 1 \/ i = 2 \/ i = 3 \/ i = 4
    OBVIOUS
  <1>8. 1 \in 1..Len(m) /\ 2 \in 1..Len(m) /\ 3 \in 1..Len(m) /\ 4 \in 1..Len(m)
    BY <1>6
  <1>9. Clean(m)
    BY <1>2, <1>3, <1>4, <1>5, <1>6, <1>7, CleanIs
  <1>10. Sole(m, 1, "len", 1) /\ Sole(m, 2, "len", 2)
    BY <1>2, <1>3, <1>4, <1>5, <1>6, <1>7, <1>8 DEF Sole
  <1>11. Sole(m, 5, "len", 3) /\ Sole(m, 8, "len", 4)
    BY <1>2, <1>3, <1>4, <1>5, <1>6, <1>7, <1>8 DEF Sole
  <1>12. strOf(m, 1) = p.messageId /\ strOf(m, 2) = p.deviceId
    BY <1>2, <1>3, <1>6, <1>10, StringRead
  <1>13. PICK s, t : Just(s, Str(1, p.text)) /\ Just(t, Str(1, p.sender))
    BY DEF Just
  <1>14. Just(Subs(m, 5), s) /\ Just(Subs(m, 8), t)
    BY <1>4, <1>5, <1>6, <1>11, <1>13, StringRead DEF Just
  <1>15. /\ List(s) /\ Clean(s) /\ firstSubString(s) = p.text
         /\ List(t) /\ Clean(t) /\ firstSubString(t) = p.sender
    BY <1>13, FirstString
  <1>16. CleanAlong(m, <<5>>) /\ CleanAlong(m, <<8>>)
    BY <1>6, <1>9, <1>14, <1>15, JustClean, CleanAlongOne
  <1>17. /\ Subs(m, 5) # <<>> /\ Last(Subs(m, 5)) = s
         /\ Subs(m, 8) # <<>> /\ Last(Subs(m, 8)) = t
    BY <1>14, JustIs
  <1>18. decodeChatMessage(m) = [messageId |-> p.messageId, deviceId |-> p.deviceId,
                                 text |-> p.text, sender |-> p.sender]
    BY <1>12, <1>15, <1>17 DEF decodeChatMessage
  <1>19. QED
    BY <1>6, <1>9, <1>16, <1>18, MessageIs


Letters(messages) == [i \in 1..Len(messages) |-> MessageNode(messages[i])]

LEMMA LettersAre ==
  ASSUME NEW messages, MessagesList(messages)
  PROVE  /\ List(Letters(messages)) /\ Len(Letters(messages)) = Len(messages)
         /\ DOMAIN Letters(messages) = 1..Len(messages)
         /\ \A i \in 1..Len(messages) : Letters(messages)[i] = MessageNode(messages[i])
  <1> DEFINE s == Letters(messages)
             l == Len(messages)
  <1>1. l \in Nat
    BY ListFacts DEF MessagesList
  <1>2. s = [i \in 1..l |-> s[i]] /\ \A i \in 1..l : s[i] = MessageNode(messages[i])
    BY DEF Letters
  <1> HIDE DEF s, l
  <1>3. List(s) /\ Len(s) = l
    BY <1>1, <1>2, ListMade
  <1>4. DOMAIN s = 1..l
    BY <1>2
  <1>5. QED
    BY <1>2, <1>3, <1>4 DEF s, l

\* The messages of a chat beside which stands its header.
LEMMA ChatRead ==
  ASSUME NEW messages, MessagesList(messages), NEW m, m = ChatBody(messages)
  PROVE  Subs(UpToMalformed(m), 2) = Letters(messages)
  <1> DEFINE head == Sub(1, <<Num(1, 44)>>)
             s == [i \in DOMAIN messages |-> Sub(2, MessageNode(messages[i]))]
             t == Letters(messages)
  <1>1. PICK l \in Nat : l = Len(messages) /\ DOMAIN messages = 1..l
    BY ListFacts DEF MessagesList
  <1>2. head.wire # "undefined" /\ ~Has(head, 2, "len")
    BY HasOf, WiresDefined
  <1>3. PICK h : Just(h, head)
    BY DEF Just
  <1>4. m = h \o s
    BY <1>3 DEF ChatBody, Just
  <1>5. s = [i \in 1..l |-> s[i]] /\ \A i \in 1..l : s[i] = Sub(2, MessageNode(messages[i]))
    BY <1>1
  <1>6. List(t) /\ Len(t) = l /\ \A i \in 1..l : t[i] = MessageNode(messages[i])
    BY <1>1, LettersAre
  <1> HIDE DEF head, s, t
  <1>7. List(s) /\ Len(s) = l
    BY <1>5, ListMade
  <1>8. Packs(s, 2, t)
    BY <1>5, <1>6, <1>7 DEF Packs
  <1>9. List(s) /\ Clean(s) /\ Fields(s, 2, "len") = s
    BY <1>8, PacksRead
  <1>10. List(h) /\ Clean(h) /\ Fields(h, 2, "len") = <<>>
    BY <1>2, <1>3, OneRead
  <1>11. List(h \o s) /\ Fields(h \o s, 2, "len") = Fields(s, 2, "len")
    BY <1>9, <1>10, JoinRead
  <1>12. Clean(h \o s)
    BY <1>9, <1>10, CleanJoin
  <1>13. UpToMalformed(m) = m
    BY <1>4, <1>11, <1>12, ReadsAll
  <1>14. Fields(m, 2, "len") = s
    BY <1>4, <1>9, <1>11
  <1>15. Subs(m, 2) = t
    BY <1>8, <1>14, PacksSubs
  <1>16. QED
    BY <1>13, <1>15 DEF t

Parses(nodes) ==
  {i \in DOMAIN nodes : \A j \in 1..i : CleanAlong(nodes[j], <<5>>) /\ CleanAlong(nodes[j], <<8>>)}
Parsed(nodes) == [i \in 1..Cardinality(Parses(nodes)) |-> decodeChatMessage(nodes[i])]

LEMMA ChatIs ==
  ASSUME NEW m, NEW nodes, nodes = Subs(UpToMalformed(walkPath(m, <<1, 2, 13, 4>>)), 2)
  PROVE  decodeCollectionsChat(m) =
           Gather(Parsed(nodes), LAMBDA p : Maybe(p.deviceId # "" /\ p.text # "", p))
  BY DEF decodeCollectionsChat, Parsed, Parses

LEMMA LettersParsed ==
  ASSUME NEW messages, MessagesList(messages)
  PROVE  Parsed(Letters(messages)) = messages
  <1> DEFINE t == Letters(messages)
  <1>1. PICK l \in Nat : l = Len(messages) /\ messages = [i \in 1..l |-> messages[i]]
    BY ListFacts DEF MessagesList
  <1>2. \A i \in 1..l : messages[i] \in Message
    BY <1>1 DEF MessagesList
  <1>3. DOMAIN t = 1..l /\ \A i \in 1..l : t[i] = MessageNode(messages[i])
    BY <1>1, LettersAre
  <1> HIDE DEF t
  <1>4. ASSUME NEW i \in 1..l
        PROVE  /\ CleanAlong(t[i], <<5>>) /\ CleanAlong(t[i], <<8>>)
               /\ decodeChatMessage(t[i]) = messages[i]
    BY <1>2, <1>3, MessageRead
  <1>5. Parses(t) = 1..l
    BY <1>3, <1>4 DEF Parses
  <1>6. Cardinality(1..l) = l
    <2>1. 1 \in Int /\ l \in Int
      BY <1>1
    <2>2. Cardinality(1..l) = IF 1 > l THEN 0 ELSE l - 1 + 1
      BY <2>1, FS_Interval
    <2>3. QED
      BY <1>1, <2>2
  <1>7. Parsed(t) = [i \in 1..l |-> messages[i]]
    BY <1>4, <1>5, <1>6 DEF Parsed
  <1>8. QED
    BY <1>1, <1>7 DEF t

\* The chat of a frame is told message by message, whatever records stand beside it.
LEMMA ChatTold ==
  ASSUME NEW messages, MessagesList(messages), NEW m,
         messages = <<>> => walkPath(m, <<1, 2, 13, 4>>) = <<>>,
         messages # <<>> => walkPath(m, <<1, 2, 13, 4>>) = ChatBody(messages)
  PROVE  handleChat(m) = Each(messages, Chat)
  <1> DEFINE nodes == Subs(UpToMalformed(walkPath(m, <<1, 2, 13, 4>>)), 2)
             d == [i \in DOMAIN messages |->
                     Maybe(messages[i].deviceId # "" /\ messages[i].text # "", messages[i])]
  <1>1. PICK l \in Nat : /\ l = Len(messages) /\ DOMAIN messages = 1..l
                         /\ messages = [i \in 1..l |-> messages[i]]
    BY ListFacts DEF MessagesList
  <1>2. nodes = Letters(messages)
    <2>1. CASE messages = <<>>
      <3>1. PICK e : e = <<>>
        OBVIOUS
      <3>2. List(e) /\ Clean(e) /\ Fields(e, 2, "len") = <<>>
        BY <3>1, NilMessage
      <3>3. UpToMalformed(e) = e /\ Subs(e, 2) = <<>>
        BY <3>2, ReadsAll, NilRead
      <3>4. nodes = <<>>
        BY <2>1, <3>1, <3>3
      <3>5. Letters(messages) = <<>>
        BY <2>1, LettersAre, Empties
      <3>6. QED
        BY <3>4, <3>5
    <2>2. CASE messages # <<>>
      BY <2>2, ChatRead
    <2>3. QED
      BY <2>1, <2>2
  <1> HIDE DEF nodes
  <1>3. Parsed(nodes) = messages
    BY <1>2, LettersParsed
  <1>4. decodeCollectionsChat(m) = FlattenSeq(d)
    BY <1>3, ChatIs DEF Gather, nodes
  <1>5. d = [i \in 1..l |-> <<messages[i]>>]
    <2>1. ASSUME NEW i \in 1..l PROVE messages[i].deviceId # "" /\ messages[i].text # ""
      BY <1>1, MessageIs DEF MessagesList
    <2>2. QED
      BY <1>1, <2>1 DEF Maybe
  <1> HIDE DEF d
  <1>6. FlattenSeq(d) = [i \in 1..l |-> messages[i]]
    BY <1>5, FlattenOnes
  <1>7. decodeCollectionsChat(m) = messages
    BY <1>1, <1>4, <1>6
  <1>8. QED
    BY <1>7 DEF handleChat


-------------------------------------------------------------------------------
(*              The collections channel, and one nobody knows               *)

\* A frame without a caption the feed can use is dropped on an unknown channel.
LEMMA UnknownDropped ==
  ASSUME NEW m, decodeTranscriptV2(m) = <<>>,
         Subs(m, 1) # <<>> => intOf(Last(Subs(m, 1)), 2) = Absent
  PROVE  handleUnknown(m) = <<>>
  <1>1. decodeCaptions(m) = decodeTranscriptWrapper(m)
    BY DEF decodeCaptions
  <1>2. Unusable(decodeTranscriptWrapper(m))
    BY WrapperUnusable
  <1>3. ~carriesCaptions(decodeTranscriptWrapper(m))
    BY <1>2, UnusableDropped
  <1>4. QED
    BY <1>1, <1>3 DEF handleUnknown

LEMMA NoEntries ==
  ASSUME NEW m, Subs(m, 1) = <<>>
  PROVE  decodeV2Envelope(m) = <<>> /\ decodeTranscriptV2(m) = <<>>
  <1> DEFINE s == Subs(m, 1)
             d == [i \in DOMAIN s |-> decodeV2Entry(s[i])]
             e == [i \in DOMAIN s |-> decodeV2Envelope(s[i])]
  <1>1. List(s) /\ Len(s) = 0
    BY Empties
  <1>2. DOMAIN s = 1..0
    BY <1>1, ListFacts
  <1>3. decodeV2Envelope(m) = FlattenSeq(d)
    BY DEF decodeV2Envelope, Gather
  <1>4. decodeTranscriptV2(m) \in {FlattenSeq(e), <<>>}
    BY DEF decodeTranscriptV2, Gather
  <1> HIDE DEF s
  <1>5. d = [i \in 1..0 |-> d[i]] /\ e = [i \in 1..0 |-> e[i]]
    BY <1>2
  <1> HIDE DEF d, e
  <1>6. List(d) /\ Len(d) = 0 /\ List(e) /\ Len(e) = 0
    BY <1>5, ListMade
  <1>7. FlattenSeq(d) = <<>> /\ FlattenSeq(e) = <<>>
    BY <1>6, FlattenNone
  <1>8. QED
    BY <1>3, <1>4, <1>7

LEMMA SingleUnknown ==
  ASSUME NEW records, RecordsList(records), NEW messages, NEW repeated, NEW broken, NEW m,
         m = SingleForm(records, messages, repeated, broken)
  PROVE  handleUnknown(m) = <<>>
  <1>1. PICK inners : inners = Inners(records, messages, repeated)
    OBVIOUS
  <1>2. m = Packets(inners, broken) \o Also("frame", broken)
    BY <1>1, SingleIs
  <1>3. List(inners) /\ Len(inners) # 0
    BY <1>1, InnersAre
  <1> DEFINE t == Insides(inners, broken)
             d == [i \in DOMAIN t |-> decodeV2Envelope(t[i])]
  <1>4. Subs(m, 1) = t
    BY <1>2, <1>3, PacketsRead
  <1>5. PICK l \in Nat : l = Len(inners) /\ l # 0
    BY <1>3, ListFacts
  <1>6. /\ t = [i \in 1..l |-> t[i]]
        /\ \A i \in 1..l : t[i] = <<Second(inners[i], broken)>>
    BY <1>5 DEF Insides
  <1>7. DOMAIN t = 1..l
    BY <1>6
  <1>8. decodeTranscriptV2(m) \in {FlattenSeq(d), <<>>}
    BY <1>4 DEF decodeTranscriptV2, Gather
  <1> HIDE DEF t
  <1>9. List(t) /\ Len(t) = l
    BY <1>6, ListMade
  <1>10. ASSUME NEW i \in 1..l
         PROVE  decodeV2Envelope(t[i]) = <<>> /\ intOf(t[i], 2) = Absent
    <2>1. PICK f : f = Second(inners[i], broken)
      OBVIOUS
    <2>2. PICK x : x = t[i]
      OBVIOUS
    <2>3. Just(x, f)
      BY <1>6, <2>1, <2>2 DEF Just
    <2>4. ~Has(f, 1, "len") /\ ~Has(f, 2, "varint")
      BY <2>1, HasOf DEF Second
    <2>5. Fields(x, 1, "len") = <<>> /\ Fields(x, 2, "varint") = <<>>
      BY <2>3, <2>4, OneRead
    <2>6. Subs(x, 1) = <<>> /\ intOf(x, 2) = Absent
      BY <2>5, NilRead, NilNumber
    <2>7. QED
      BY <2>2, <2>6, NoEntries
  <1>11. d = [i \in 1..l |-> d[i]] /\ \A i \in 1..l : d[i] = <<>>
    BY <1>7, <1>10
  <1> HIDE DEF d
  <1>12. FlattenSeq(d) = <<>>
    BY <1>11, ListMade, FlattenNone
  <1>13. decodeTranscriptV2(m) = <<>>
    BY <1>8, <1>12
  <1>14. intOf(Last(Subs(m, 1)), 2) = Absent
    <2>1. Last(t) = t[l]
      BY <1>9 DEF Last
    <2>2. l \in 1..l
      BY <1>5
    <2>3. QED
      BY <1>4, <1>10, <2>1, <2>2
  <1>15. QED
    BY <1>13, <1>14, UnknownDropped

LEMMA CollectionUnknown ==
  ASSUME NEW records, RecordsList(records), NEW broken
  PROVE  handleUnknown(CollectionForm(records, broken)) = <<>>
  <1> DEFINE m == CollectionForm(records, broken)
  <1>1. Subs(m, 1) = <<>>
    BY CollectionRead
  <1> HIDE DEF m
  <1>2. decodeTranscriptV2(m) = <<>>
    BY <1>1, NoEntries
  <1>3. handleUnknown(m) = <<>>
    BY <1>1, <1>2, UnknownDropped
  <1>4. QED
    BY <1>3 DEF m

LEMMA SingleRight ==
  ASSUME NEW records, RecordsList(records), NEW messages, MessagesList(messages), NEW repeated,
         NEW broken, NEW m, m = SingleForm(records, messages, repeated, broken)
  PROVE  handleCollections(m) = Known(records) \o Each(messages, Chat)
  <1>1. handleRoster(m) = Known(records)
    BY SingleRoster
  <1>2. /\ messages = <<>> => walkPath(m, <<1, 2, 13, 4>>) = <<>>
        /\ messages # <<>> => walkPath(m, <<1, 2, 13, 4>>) = ChatBody(messages)
    BY SingleWalks
  <1>3. handleChat(m) = Each(messages, Chat)
    BY <1>2, ChatTold
  <1>4. QED
    BY <1>1, <1>3 DEF handleCollections

LEMMA CollectionRight ==
  ASSUME NEW records, RecordsList(records), NEW broken,
         \A i \in 1..Len(records) : records[i][2] # "removed"
  PROVE  handleCollections(CollectionForm(records, broken)) = Known(records)
  <1> DEFINE m == CollectionForm(records, broken)
  <1>1. handleRoster(m) = Known(records) /\ List(Known(records))
    BY CollectionRoster
  <1>2. walkLen(m, 1) = <<>>
    BY CollectionRead
  <1> HIDE DEF m
  <1>3. PICK e : e = <<>>
    OBVIOUS
  <1>4. List(e) /\ Clean(e) /\ \A k : Fields(e, k, "len") = <<>>
    BY <1>3, NilMessage
  <1>5. \A k : walkLen(e, k) = e
    <2>1. SUFFICES ASSUME NEW k PROVE walkLen(e, k) = e
      OBVIOUS
    <2>2. Fields(e, k, "len") = <<>>
      BY <1>4
    <2>3. Subs(e, k) = <<>>
      BY <2>2, NilRead
    <2>4. QED
      BY <1>3, <1>4, <2>3, WalkBody
  <1>6. walkPath(m, <<1, 2, 13, 4>>) = e
    BY <1>2, <1>3, <1>5, WalkPathFour
  <1>7. MessagesList(e) /\ Len(e) = 0
    BY <1>3, Empties DEF MessagesList
  <1>8. handleChat(m) = Each(e, Chat)
    BY <1>3, <1>6, <1>7, ChatTold
  <1>9. Each(e, Chat) = <<>>
    <2>1. PICK d : d = [i \in DOMAIN e |-> Chat(e[i])]
      OBVIOUS
    <2>2. DOMAIN e = 1..0
      BY <1>4, <1>7, ListFacts
    <2>3. d = [i \in 1..0 |-> d[i]]
      BY <2>1, <2>2
    <2>4. List(d) /\ Len(d) = 0
      BY <2>3, ListMade
    <2>5. d = <<>>
      BY <2>4, Empties
    <2>6. QED
      BY <2>1, <2>5 DEF Each
  <1>10. handleCollections(m) = Known(records)
    BY <1>1, <1>8, <1>9, Empties DEF handleCollections
  <1>11. QED
    BY <1>10 DEF m

\* On the collections channel, and on one nobody knows.
LEMMA CollectionsFrameRight == CollectionsFrame => ReadAsPacked'
  <1>1. SUFFICES ASSUME CollectionsFrame PROVE events' = packed'
    BY DEF ReadAsPacked
  <1>2. PICK broken \in Broken \ {"entry"}, handle \in {"collections", "unknown"} :
       \/ \E records \in UpTo(MaxBatch, Records), messages \in UpTo(MaxBatch, Message),
             repeated \in {"outer", "node"} :
            LET frame == SingleForm(records, messages, repeated, broken) IN
            /\ events' = IF handle = "collections" THEN handleCollections(frame)
                         ELSE handleUnknown(frame)
            /\ packed' = IF handle = "unknown" THEN <<>>
                         ELSE Known(records) \o Each(messages, Chat)
       \/ \E records \in UpTo(MaxBatch, {r \in Records : r[2] # "removed"}) :
            LET frame == CollectionForm(records, broken) IN
            /\ events' = IF handle = "collections" THEN handleCollections(frame)
                         ELSE handleUnknown(frame)
            /\ packed' = IF handle = "unknown" THEN <<>> ELSE Known(records)
    BY <1>1 DEF CollectionsFrame
  <1>3. ASSUME NEW records \in UpTo(MaxBatch, Records), NEW messages \in UpTo(MaxBatch, Message),
               NEW repeated, NEW frame, frame = SingleForm(records, messages, repeated, broken),
               events' = IF handle = "collections" THEN handleCollections(frame)
                         ELSE handleUnknown(frame),
               packed' = IF handle = "unknown" THEN <<>>
                         ELSE Known(records) \o Each(messages, Chat)
        PROVE  events' = packed'
    <2>1. RecordsList(records)
      BY WireAssumption, LinesAreList DEF RecordsList
    <2>2. MessagesList(messages)
      BY WireAssumption, LinesAreList DEF MessagesList
    <2>3. /\ handleCollections(frame) = Known(records) \o Each(messages, Chat)
          /\ handleUnknown(frame) = <<>>
      BY <1>3, <2>1, <2>2, SingleRight, SingleUnknown
    <2>4. QED
      BY <1>3, <2>3
  <1>4. ASSUME NEW records \in UpTo(MaxBatch, {r \in Records : r[2] # "removed"}),
               NEW frame, frame = CollectionForm(records, broken),
               events' = IF handle = "collections" THEN handleCollections(frame)
                         ELSE handleUnknown(frame),
               packed' = IF handle = "unknown" THEN <<>> ELSE Known(records)
        PROVE  events' = packed'
    <2>1. List(records) /\ \A i \in 1..Len(records) : records[i] \in {r \in Records : r[2] # "removed"}
      BY WireAssumption, LinesAreList
    <2>2. RecordsList(records) /\ \A i \in 1..Len(records) : records[i][2] # "removed"
      BY <2>1 DEF RecordsList
    <2>3. handleCollections(frame) = Known(records) /\ handleUnknown(frame) = <<>>
      BY <1>4, <2>2, CollectionRight, CollectionUnknown
    <2>4. QED
      BY <1>4, <2>3
  <1>5. QED
    BY <1>2, <1>3, <1>4


-------------------------------------------------------------------------------
(*                       What the local user sends                          *)

OwnNode(o) == <<Num(3, o.sentAt), Sub(5, <<Str(1, o.text)>>)>>

LEMMA OwnFollowed ==
  ASSUME NEW o
  PROVE  walkPath(OwnFrame(o), <<1, 1, 3, 1, 2>>) = OwnNode(o)
  <1>1. PICK e : e = OwnNode(o)
    OBVIOUS
  <1>2. PICK d : Just(d, Sub(2, e))
    BY DEF Just
  <1>3. PICK c : Just(c, Sub(1, d))
    BY DEF Just
  <1>4. PICK b : Just(b, Sub(3, c))
    BY DEF Just
  <1>5. PICK a : Just(a, Sub(1, b))
    BY DEF Just
  <1>6. PICK m : Just(m, Sub(1, a))
    BY DEF Just
  <1>7. OwnFrame(o) = m
    BY <1>1, <1>2, <1>3, <1>4, <1>5, <1>6 DEF OwnFrame, OwnNode, Just
  <1>8. walkLen(m, 1) = a
    BY <1>6, WalkSingle
  <1>9. walkLen(a, 1) = b
    BY <1>5, WalkSingle
  <1>10. walkLen(b, 3) = c
    BY <1>4, WalkSingle
  <1>11. walkLen(c, 1) = d
    BY <1>3, WalkSingle
  <1>12. walkLen(d, 2) = e
    BY <1>2, WalkSingle
  <1>13. QED
    BY <1>1, <1>7, <1>8, <1>9, <1>10, <1>11, <1>12, WalkPathFive

LEMMA OwnDecoded ==
  ASSUME NEW o \in Own
  PROVE  Just(decodeOutgoingChat(OwnFrame(o)), o)
  <1> DEFINE m == OwnNode(o)
             a == Num(3, o.sentAt)
             b == Sub(5, <<Str(1, o.text)>>)
  <1>1. /\ o = [text |-> o.text, sentAt |-> o.sentAt]
        /\ o.text # "" /\ o.sentAt \in Nat
    <2>1. o \in [text : STRING \ {""}, sentAt : Nat]
      BY WireAssumption
    <2>2. o = [text |-> o.text, sentAt |-> o.sentAt]
      BY <2>1
    <2>3. o.text \in STRING \ {""} /\ o.sentAt \in Nat
      BY <2>1
    <2>4. QED
      BY <2>2, <2>3
  <1>2. /\ a.wire # "undefined" /\ Has(a, 3, "varint") /\ ~Has(a, 5, "len")
    BY HasOf, WiresDefined
  <1>3. /\ b.wire # "undefined" /\ ~Has(b, 3, "varint") /\ Has(b, 5, "len")
        /\ b.sub = <<Str(1, o.text)>>
    BY HasOf, WiresDefined, SubIs
  <1>4. PICK s : Just(s, Str(1, o.text))
    BY DEF Just
  <1>5. m = <<a, b>>
    BY DEF OwnNode
  <1>6. a = Num(3, o.sentAt)
    OBVIOUS
  <1> HIDE DEF m, a, b
  <1>7. List(m) /\ Len(m) = 2 /\ m[1] = a /\ m[2] = b
    BY <1>5, Two
  <1>8. \A i \in 1..2 : i = 1 \/ i = 2
    OBVIOUS
  <1>9. 1 \in 1..Len(m) /\ 2 \in 1..Len(m)
    BY <1>7
  <1>10. Clean(m)
    BY <1>2, <1>3, <1>7, <1>8, CleanIs
  <1>11. Sole(m, 3, "varint", 1) /\ Sole(m, 5, "len", 2)
    BY <1>2, <1>3, <1>7, <1>8, <1>9 DEF Sole
  <1>12. intOf(m, 3) = o.sentAt
    BY <1>1, <1>6, <1>7, <1>11, NumberRead
  <1>13. Just(Subs(m, 5), s)
    BY <1>3, <1>4, <1>7, <1>11, StringRead DEF Just
  <1>14. List(s) /\ Clean(s) /\ firstSubString(s) = o.text
    BY <1>4, FirstString
  <1>15. Subs(m, 5) # <<>> /\ Last(Subs(m, 5)) = s
    BY <1>13, JustIs
  <1>16. CleanAlong(m, <<5>>)
    BY <1>7, <1>10, <1>13, <1>14, JustClean, CleanAlongOne
  <1>17. walkPath(OwnFrame(o), <<1, 1, 3, 1, 2>>) = m
    BY OwnFollowed DEF m
  <1>18. decodeOutgoingChat(OwnFrame(o)) = <<[text |-> o.text, sentAt |-> o.sentAt]>>
    BY <1>1, <1>12, <1>14, <1>15, <1>16, <1>17 DEF decodeOutgoingChat
  <1>19. QED
    BY <1>1, <1>18 DEF Just

\* What the local user sends.
LEMMA OwnChatRight == OwnChatSent => ReadAsPacked'
  <1>1. SUFFICES ASSUME OwnChatSent PROVE events' = packed'
    BY DEF ReadAsPacked
  <1>2. PICK o \in Own :
          /\ events' = IF decodeOutgoingChat(OwnFrame(o)) = <<>> THEN <<>>
                       ELSE SelfOut(decodeOutgoingChat(OwnFrame(o))[1])
          /\ packed' = SelfOut(o)
    BY <1>1 DEF OwnChatSent
  <1>3. decodeOutgoingChat(OwnFrame(o)) # <<>> /\ decodeOutgoingChat(OwnFrame(o))[1] = o
    BY OwnDecoded, JustIs
  <1>4. QED
    BY <1>2, <1>3

\* A packet with one body, and what is read off it.
LEMMA NestedRead ==
  ASSUME NEW k, NEW body, List(body), Clean(body), NEW m, NEW a, Just(m, Sub(1, a)),
         Just(a, Sub(k, body)), NEW inner
  PROVE  /\ \A v \in Nat : \A f : Just(Fields(body, inner, "varint"), f) /\ readVarint(f.int) = v
                                => readNested(m, k, inner) = v
         /\ \A outer : outer # k => readNested(m, outer, inner) = Absent
  <1>1. m # <<>> /\ m[1] = Sub(1, a)
    BY JustIs
  <1>2. m[1].n = 1 /\ m[1].sub = a
    BY <1>1, SubIs
  <1>3. PICK g : g = Sub(k, body)
    OBVIOUS
  <1>4. g.wire # "undefined" /\ g.sub = body /\ \A n : Has(g, n, "len") <=> n = k
    BY <1>3, HasOf, WiresDefined, SubIs
  <1>5. Just(a, g)
    BY <1>3
  <1>6. List(a) /\ Clean(a) /\ Just(Fields(a, k, "len"), g)
    BY <1>4, <1>5, OneRead
  <1>7. UpToMalformed(a) = a /\ UpToMalformed(body) = body
    BY <1>6, ReadsAll
  <1>8. Just(Subs(a, k), body)
    BY <1>4, <1>6, SubsJust
  <1>9. FlattenSeq(Subs(a, k)) = body
    BY <1>8, FlattenOfOne DEF Just
  <1>10. \A outer :
           readNested(m, outer, inner) =
             LET found == Fields(UpToMalformed(FlattenSeq(Subs(UpToMalformed(a), outer))), inner, "varint")
             IN  IF found = <<>> THEN Absent ELSE readVarint(found[1].int)
    BY <1>1, <1>2 DEF readNested
  <1>11. ASSUME NEW v \in Nat, NEW f, Just(Fields(body, inner, "varint"), f), readVarint(f.int) = v
         PROVE  readNested(m, k, inner) = v
    <2>1. Fields(body, inner, "varint") # <<>> /\ Fields(body, inner, "varint")[1] = f
      BY <1>11, JustIs
    <2>2. QED
      BY <1>7, <1>9, <1>10, <1>11, <2>1
  <1>12. ASSUME NEW outer, outer # k PROVE readNested(m, outer, inner) = Absent
    <2>1. Fields(a, outer, "len") = <<>>
      BY <1>4, <1>5, <1>12, OneRead
    <2>2. Subs(a, outer) = <<>>
      BY <2>1, NilRead
    <2>3. PICK e : e = <<>>
      OBVIOUS
    <2>4. List(e) /\ Clean(e) /\ Fields(e, inner, "varint") = <<>>
      BY <2>3, NilMessage
    <2>5. UpToMalformed(e) = e
      BY <2>4, ReadsAll
    <2>6. FlattenSeq(Subs(UpToMalformed(a), outer)) = e
      BY <1>7, <2>2, <2>3, FlattenNil
    <2>7. QED
      BY <1>10, <2>4, <2>5, <2>6
  <1>13. QED
    BY <1>11, <1>12

\* Two fields of a body: a number under 1 or 2, and something else.
LEMMA BodyRead ==
  ASSUME NEW n, NEW v \in Nat, NEW x, x.wire # "undefined", ~Has(x, n, "varint"),
         NEW body, body = <<Num(n, v), x>>
  PROVE  /\ List(body) /\ Clean(body)
         /\ \E f : Just(Fields(body, n, "varint"), f) /\ readVarint(f.int) = v
  <1>1. PICK f : f = Num(n, v)
    OBVIOUS
  <1>2. f.wire # "undefined" /\ Has(f, n, "varint")
    BY <1>1, HasOf, WiresDefined
  <1>3. List(body) /\ Len(body) = 2 /\ body[1] = f /\ body[2] = x
    BY <1>1, Two
  <1>4. \A i \in 1..2 : i = 1 \/ i = 2
    OBVIOUS
  <1>5. 1 \in 1..Len(body)
    BY <1>3
  <1>6. Clean(body)
    BY <1>2, <1>3, <1>4, CleanIs
  <1>7. Sole(body, n, "varint", 1)
    BY <1>2, <1>3, <1>4, <1>5 DEF Sole
  <1>8. Just(Fields(body, n, "varint"), f)
    BY <1>3, <1>7, FieldsJust
  <1>9. readVarint(f.int) = v
    BY <1>1, VarintRoundTrip DEF Num
  <1>10. QED
    BY <1>3, <1>6, <1>8, <1>9

LEMMA SubscribeRead ==
  ASSUME NEW v \in Nat, NEW lang
  PROVE  /\ readNestedOp(buildSubscribe(v, lang)) = v
         /\ readNestedSeq(buildSubscribe(v, lang)) = Absent
  <1> DEFINE x == Sub(3, <<Sub(1, <<Sub(9, <<Str(1, lang), Str(2, lang)>>)>>),
                           Sub(2, <<Str(1, "client_config.caption_config")>>)>>)
  <1>1. x.wire # "undefined" /\ ~Has(x, 1, "varint")
    BY HasOf, WiresDefined
  <1>2. PICK body : body = <<Num(1, v), x>>
    OBVIOUS
  <1>3. PICK a : Just(a, Sub(2, body))
    BY DEF Just
  <1>4. PICK m : Just(m, Sub(1, a))
    BY DEF Just
  <1>5. buildSubscribe(v, lang) = m
    BY <1>2, <1>3, <1>4 DEF buildSubscribe, Just
  <1> HIDE DEF x
  <1>6. List(body) /\ Clean(body)
    BY <1>1, <1>2, BodyRead
  <1>7. PICK f : Just(Fields(body, 1, "varint"), f) /\ readVarint(f.int) = v
    BY <1>1, <1>2, BodyRead
  <1>8. readNested(m, 2, 1) = v
    BY <1>3, <1>4, <1>6, <1>7, NestedRead
  <1>9. readNested(m, 1, 2) = Absent
    BY <1>3, <1>4, <1>6, NestedRead
  <1>10. QED
    BY <1>5, <1>8, <1>9 DEF readNestedOp, readNestedSeq

LEMMA AckRead ==
  ASSUME NEW v \in Nat
  PROVE  readNestedOp(buildAck(v)) = Absent /\ readNestedSeq(buildAck(v)) = v
  <1> DEFINE x == Num(3, 1)
  <1>1. x.wire # "undefined" /\ ~Has(x, 2, "varint")
    BY HasOf, WiresDefined
  <1>2. PICK body : body = <<Num(2, v), x>>
    OBVIOUS
  <1>3. PICK a : Just(a, Sub(1, body))
    BY DEF Just
  <1>4. PICK m : Just(m, Sub(1, a))
    BY DEF Just
  <1>5. buildAck(v) = m
    BY <1>2, <1>3, <1>4 DEF buildAck, Just
  <1> HIDE DEF x
  <1>6. List(body) /\ Clean(body)
    BY <1>1, <1>2, BodyRead
  <1>7. PICK f : Just(Fields(body, 2, "varint"), f) /\ readVarint(f.int) = v
    BY <1>1, <1>2, BodyRead
  <1>8. readNested(m, 1, 2) = v
    BY <1>3, <1>4, <1>6, <1>7, NestedRead
  <1>9. readNested(m, 2, 1) = Absent
    BY <1>3, <1>4, <1>6, NestedRead
  <1>10. QED
    BY <1>5, <1>8, <1>9 DEF readNestedOp, readNestedSeq

\* The part of the state the counters need.
CountersOK == session \in [op : Nat, seq : Nat]

\* A subscribe moves op and never seq, an ack seq and never op.
LEMMA MediaSessionRight ==
  CountersOK /\ MediaSessionSent => ReadAsPacked' /\ CountersOK'
  <1>1. SUFFICES ASSUME CountersOK, MediaSessionSent PROVE events' = packed' /\ CountersOK'
    BY DEF ReadAsPacked
  <1>2. PICK v \in Counter, big \in BOOLEAN :
          /\ CountersRead(IF big THEN buildSubscribe(v, "ru-RU") ELSE buildAck(v))
          /\ packed' = <<IF big THEN [session EXCEPT !.op = v] ELSE [session EXCEPT !.seq = v]>>
    BY <1>1 DEF MediaSessionSent
  <1>3. events' = <<session'>>
    BY <1>1 DEF MediaSessionSent
  <1>4. v \in Nat /\ v # Absent
    <2>1. v \in Nat
      BY WireAssumption
    <2>2. QED
      BY <2>1 DEF Absent
  <1>5. session.op \in Nat /\ session.seq \in Nat /\ session = [op |-> session.op, seq |-> session.seq]
    BY <1>1 DEF CountersOK
  <1>6. CASE big
    <2>1. PICK m : m = buildSubscribe(v, "ru-RU")
      OBVIOUS
    <2>2. readNestedOp(m) = v /\ readNestedSeq(m) = Absent
      BY <1>4, <2>1, SubscribeRead
    <2>3. session' = [op |-> v, seq |-> session.seq]
      BY <1>2, <1>4, <1>6, <2>1, <2>2 DEF CountersRead
    <2>4. packed' = <<[session EXCEPT !.op = v]>>
      BY <1>2, <1>6
    <2>5. [session EXCEPT !.op = v] = [op |-> v, seq |-> session.seq]
      BY <1>5
    <2>6. QED
      BY <1>3, <1>4, <1>5, <2>3, <2>4, <2>5 DEF CountersOK
  <1>7. CASE ~big
    <2>1. PICK m : m = buildAck(v)
      OBVIOUS
    <2>2. readNestedOp(m) = Absent /\ readNestedSeq(m) = v
      BY <1>4, <2>1, AckRead
    <2>3. session' = [op |-> session.op, seq |-> v]
      BY <1>2, <1>4, <1>7, <2>1, <2>2 DEF CountersRead
    <2>4. packed' = <<[session EXCEPT !.seq = v]>>
      BY <1>2, <1>7
    <2>5. [session EXCEPT !.seq = v] = [op |-> session.op, seq |-> v]
      BY <1>5
    <2>6. QED
      BY <1>3, <1>4, <1>5, <2>3, <2>4, <2>5 DEF CountersOK
  <1>8. QED
    BY <1>6, <1>7


-------------------------------------------------------------------------------
(*                        Names out of the RPCs                             *)

LEMMA MalformedReadsNothing == UpToMalformed(<<Malformed>>) = <<>>
  <1>1. PICK b : Just(b, Malformed)
    BY DEF Just
  <1>2. List(b) /\ Len(b) = 1 /\ b[1] = Malformed
    BY <1>1, JustIs
  <1>3. b[1].wire = "undefined"
    <2>1. Malformed.wire = "undefined"
      BY DEF Malformed
    <2>2. QED
      BY <1>2, <2>1
  <1>4. PICK n \in 0..Len(b) : n = 0
    BY <1>2
  <1>5. n < Len(b) => b[n + 1].wire = "undefined"
    BY <1>3, <1>4
  <1>6. \A i \in 1..n : b[i].wire # "undefined"
    BY <1>4
  <1>7. UpToMalformed(b) = [i \in 1..n |-> b[i]]
    BY <1>2, <1>5, <1>6, ReadsUpTo
  <1>8. PICK e : e = [i \in 1..n |-> b[i]]
    OBVIOUS
  <1>9. List(e) /\ Len(e) = 0
    BY <1>4, <1>8, ListMade
  <1>10. e = <<>>
    BY <1>9, Empties
  <1>11. QED
    BY <1>1, <1>7, <1>8, <1>10 DEF Just

\* The names of a message, and of one with a level below it.
NamesIn(x) == Gather(UpToMalformed(x), LAMBDA f : Maybe(f.str \in NameLike, f.str))
NamesAt(f) == IF f.str \in NameLike THEN <<f.str>> ELSE NamesIn(f.sub)
AllNames(m) == Gather(UpToMalformed(m), NamesAt)

LEMMA SelfNameIs ==
  ASSUME NEW m
  PROVE  extractSelfName(m) = IF AllNames(m) = <<>> THEN "" ELSE AllNames(m)[1]
  BY DEF extractSelfName, AllNames, NamesAt, NamesIn

UserBody(name) == <<Str(1, "users/me"), Str(2, name)>>

LEMMA UserBodyIs ==
  ASSUME NEW name, NEW m, m = UserBody(name)
  PROVE  /\ List(m) /\ Len(m) = 2 /\ UpToMalformed(m) = m /\ DOMAIN m = 1..2
         /\ m[1].str = "users/me" /\ m[1].sub = <<Malformed>>
         /\ m[2].str = name
  <1> DEFINE a == Str(1, "users/me")
             b == Str(2, name)
  <1>1. /\ a.wire # "undefined" /\ a.str = "users/me" /\ a.sub = <<Malformed>>
    BY WiresDefined, StrIs
  <1>2. b.wire # "undefined" /\ b.str = name
    BY WiresDefined, StrIs
  <1>3. m = <<a, b>>
    BY DEF UserBody
  <1> HIDE DEF a, b
  <1>4. List(m) /\ Len(m) = 2 /\ m[1] = a /\ m[2] = b
    BY <1>3, Two
  <1>5. \A i \in 1..2 : i = 1 \/ i = 2
    OBVIOUS
  <1>6. Clean(m)
    BY <1>1, <1>2, <1>4, <1>5, CleanIs
  <1>7. UpToMalformed(m) = m
    BY <1>4, <1>6, ReadsAll
  <1>8. DOMAIN m = 1..2
    BY <1>4, ListFacts
  <1>9. QED
    BY <1>1, <1>2, <1>4, <1>7, <1>8

\* A list of two, of which the second alone has a value.
LEMMA SecondOnly ==
  ASSUME NEW x, NEW d, d = [i \in 1..2 |-> d[i]], d[1] = <<>>, Just(d[2], x)
  PROVE  FlattenSeq(d) = <<x>>
  <1>1. PICK n \in Nat : n = 2
    OBVIOUS
  <1>2. List(d) /\ Len(d) = 2
    BY <1>1, ListMade
  <1>3. List(d[2])
    BY JustIs
  <1>4. \A j \in 1..2 : j # 2 => j = 1
    OBVIOUS
  <1>5. PICK i \in 1..Len(d) : i = 2
    BY <1>2
  <1>6. \A j \in 1..Len(d) : j # i => d[j] = <<>>
    BY <1>2, <1>4, <1>5
  <1>7. FlattenSeq(d) = d[i]
    BY <1>2, <1>3, <1>5, <1>6, FlattenOnly
  <1>8. QED
    BY <1>5, <1>7 DEF Just

LEMMA UserNamed ==
  ASSUME NEW p \in Participant, NEW m, m = UserBody(p.deviceName)
  PROVE  NamesIn(m) = <<p.deviceName>> /\ AllNames(m) = <<p.deviceName>>
  <1> DEFINE name == p.deviceName
             d == [i \in DOMAIN m |-> Maybe(m[i].str \in NameLike, m[i].str)]
             e == [i \in DOMAIN m |-> NamesAt(m[i])]
  <1>1. /\ List(m) /\ Len(m) = 2 /\ UpToMalformed(m) = m /\ DOMAIN m = 1..2
        /\ m[1].str = "users/me" /\ m[1].sub = <<Malformed>>
        /\ m[2].str = name
    BY UserBodyIs
  <1>2. "users/me" \notin NameLike /\ name \in NameLike
    BY StringAssumption, ParticipantIs
  <1>3. NamesIn(m) = FlattenSeq(d) /\ AllNames(m) = FlattenSeq(e)
    BY <1>1 DEF NamesIn, AllNames, Gather
  <1> HIDE DEF name
  <1>4. d = [i \in 1..2 |-> d[i]] /\ e = [i \in 1..2 |-> e[i]]
    BY <1>1
  <1>5. d[1] = <<>> /\ d[2] = <<name>>
    BY <1>1, <1>2 DEF Maybe
  <1>6. e[2] = <<name>>
    BY <1>1, <1>2 DEF NamesAt
  <1>7. e[1] = NamesIn(<<Malformed>>)
    BY <1>1, <1>2 DEF NamesAt
  <1>8. NamesIn(<<Malformed>>) = <<>>
    <2>1. PICK x : x = <<>>
      OBVIOUS
    <2>2. PICK c : c = [i \in DOMAIN x |-> Maybe(x[i].str \in NameLike, x[i].str)]
      OBVIOUS
    <2>3. NamesIn(<<Malformed>>) = FlattenSeq(c)
      BY <2>1, <2>2, MalformedReadsNothing DEF NamesIn, Gather
    <2>4. List(x) /\ Len(x) = 0
      BY <2>1, Empties
    <2>5. c = [i \in 1..0 |-> c[i]]
      BY <2>2, <2>4, ListFacts
    <2>6. List(c) /\ Len(c) = 0
      BY <2>5, ListMade
    <2>7. QED
      BY <2>3, <2>6, FlattenNone
  <1> HIDE DEF d, e
  <1>9. Just(d[2], name) /\ Just(e[2], name)
    BY <1>5, <1>6 DEF Just
  <1>10. FlattenSeq(d) = <<name>> /\ FlattenSeq(e) = <<name>>
    BY <1>4, <1>5, <1>7, <1>8, <1>9, SecondOnly
  <1>11. QED
    BY <1>3, <1>10 DEF name

LEMMA NestedNamed ==
  ASSUME NEW p \in Participant, NEW b, b = UserBody(p.deviceName), NEW m, Just(m, Sub(1, b))
  PROVE  AllNames(m) = <<p.deviceName>>
  <1> DEFINE f == Sub(1, b)
             e == [i \in DOMAIN m |-> NamesAt(m[i])]
  <1>1. f.wire # "undefined" /\ f.str = Garbage /\ f.sub = b
    BY WiresDefined, SubIs
  <1> HIDE DEF f
  <1>2. Just(m, f)
    BY DEF f
  <1>3. List(m) /\ Clean(m) /\ Len(m) = 1 /\ m[1] = f /\ DOMAIN m = 1..1
    BY <1>1, <1>2, OneRead, JustIs
  <1>4. UpToMalformed(m) = m
    BY <1>3, ReadsAll
  <1>5. AllNames(m) = FlattenSeq(e)
    BY <1>4 DEF AllNames, Gather
  <1>6. Garbage \notin NameLike
    BY StringAssumption
  <1>7. NamesAt(f) = <<p.deviceName>>
    <2>1. NamesAt(f) = NamesIn(b)
      BY <1>1, <1>6 DEF NamesAt
    <2>2. QED
      BY <2>1, UserNamed
  <1>8. e = [i \in 1..1 |-> e[i]] /\ e[1] = <<p.deviceName>>
    BY <1>3, <1>7
  <1> HIDE DEF e
  <1>9. PICK x : x = <<p.deviceName>>
    OBVIOUS
  <1>10. List(x)
    BY <1>9, One
  <1>11. List(e) /\ Len(e) = 1
    BY <1>8, ListMade
  <1>12. FlattenSeq(e) = x
    BY <1>8, <1>9, <1>10, <1>11, FlattenSingle
  <1>13. QED
    BY <1>5, <1>9, <1>12

\* The first name-like string of the local user's record is the name.
LEMMA SelfNamedRight == SelfNamed => ReadAsPacked'
  <1>1. SUFFICES ASSUME SelfNamed PROVE events' = packed'
    BY DEF ReadAsPacked
  <1>a. PICK p \in Participant, nested \in BOOLEAN : \E b, m, name :
          /\ b = UserBody(p.deviceName)
          /\ m = IF nested THEN <<Sub(1, b)>> ELSE b
          /\ name = extractSelfName(m)
          /\ events' = IF name \in {"", self.name} THEN <<>> ELSE <<[type |-> "self", name |-> name]>>
          /\ packed' = IF p.deviceName = self.name THEN <<>>
                       ELSE <<[type |-> "self", name |-> p.deviceName]>>
    BY <1>1 DEF SelfNamed, UserBody
  <1>2. PICK b, m, name :
          /\ b = UserBody(p.deviceName)
          /\ m = IF nested THEN <<Sub(1, b)>> ELSE b
          /\ name = extractSelfName(m)
          /\ events' = IF name \in {"", self.name} THEN <<>> ELSE <<[type |-> "self", name |-> name]>>
          /\ packed' = IF p.deviceName = self.name THEN <<>>
                       ELSE <<[type |-> "self", name |-> p.deviceName]>>
    BY <1>a
  <1>3. AllNames(m) = <<p.deviceName>>
    <2>1. CASE nested
      <3>1. Just(m, Sub(1, b))
        BY <1>2, <2>1 DEF Just
      <3>2. QED
        BY <1>2, <3>1, NestedNamed
    <2>2. CASE ~nested
      <3>1. m = b
        BY <1>2, <2>2
      <3>2. QED
        BY <1>2, <3>1, UserNamed
    <2>3. QED
      BY <2>1, <2>2
  <1>4. name = p.deviceName
    <2>1. Just(AllNames(m), p.deviceName)
      BY <1>3 DEF Just
    <2>2. AllNames(m) # <<>> /\ AllNames(m)[1] = p.deviceName
      BY <2>1, JustIs
    <2>3. QED
      BY <1>2, <2>2, SelfNameIs
  <1>5. p.deviceName # ""
    BY ParticipantIs
  <1>6. QED
    BY <1>2, <1>4, <1>5


\* The first of a field that a message has once.
LEMMA FirstRead ==
  ASSUME NEW m, List(m), Clean(m), NEW n
  PROVE  /\ \A f : Just(Fields(m, n, "len"), f) => firstOf(m, n) = f.str
         /\ Fields(m, n, "len") = <<>> => firstOf(m, n) = ""
  <1>1. UpToMalformed(m) = m
    BY ReadsAll
  <1>2. ASSUME NEW f, Just(Fields(m, n, "len"), f) PROVE firstOf(m, n) = f.str
    <2>1. Fields(m, n, "len") # <<>> /\ Fields(m, n, "len")[1] = f
      BY <1>2, JustIs
    <2>2. QED
      BY <1>1, <2>1 DEF firstOf
  <1>3. Fields(m, n, "len") = <<>> => firstOf(m, n) = ""
    BY <1>1 DEF firstOf
  <1>4. QED
    BY <1>2, <1>3

LEMMA OwnDeviceFound ==
  ASSUME NEW p \in Participant
  PROVE  extractSelfDevice(<<Str(1, p.deviceId), Str(2, p.deviceName), Num(3, 1)>>) = <<p>>
  <1> DEFINE a == Str(1, p.deviceId)
             b == Str(2, p.deviceName)
             c == Num(3, 1)
  <1>1. a.wire # "undefined" /\ Has(a, 1, "len") /\ ~Has(a, 2, "len") /\ a.str = p.deviceId
    BY HasOf, WiresDefined, StrIs
  <1>2. b.wire # "undefined" /\ ~Has(b, 1, "len") /\ Has(b, 2, "len") /\ b.str = p.deviceName
    BY HasOf, WiresDefined, StrIs
  <1>3. c.wire # "undefined" /\ ~Has(c, 1, "len") /\ ~Has(c, 2, "len")
    BY HasOf, WiresDefined
  <1>4. PICK m : m = <<a, b, c>>
    OBVIOUS
  <1> HIDE DEF a, b, c
  <1>5. List(m) /\ Len(m) = 3 /\ m[1] = a /\ m[2] = b /\ m[3] = c
    BY <1>4, Three
  <1>6. \A i \in 1..3 : i = 1 \/ i = 2 \/ i = 3
    OBVIOUS
  <1>7. 1 \in 1..Len(m) /\ 2 \in 1..Len(m)
    BY <1>5
  <1>8. Clean(m)
    BY <1>1, <1>2, <1>3, <1>5, <1>6, CleanIs
  <1>9. Sole(m, 1, "len", 1) /\ Sole(m, 2, "len", 2)
    BY <1>1, <1>2, <1>3, <1>5, <1>6, <1>7 DEF Sole
  <1>10. Just(Fields(m, 1, "len"), a) /\ Just(Fields(m, 2, "len"), b)
    BY <1>5, <1>9, FieldsJust
  <1>11. firstOf(m, 1) = p.deviceId /\ firstOf(m, 2) = p.deviceName
    BY <1>1, <1>2, <1>5, <1>8, <1>10, FirstRead
  <1>12. IsPair(m) /\ Pair(m) = p
    BY <1>11, ParticipantIs DEF IsPair, Pair
  <1>13. extractSelfDevice(m) = <<p>>
    BY <1>12 DEF extractSelfDevice
  <1>14. QED
    BY <1>4, <1>13 DEF a, b, c

\* The local user's device, told once.
LEMMA SelfDeviceRight == SelfDevice => ReadAsPacked'
  <1>1. SUFFICES ASSUME SelfDevice PROVE events' = packed'
    BY DEF ReadAsPacked
  <1>a. PICK p \in Participant : \E found, new :
          /\ found = extractSelfDevice(<<Str(1, p.deviceId), Str(2, p.deviceName), Num(3, 1)>>)
          /\ new = Gather(found, LAMBDA d : Maybe(d.deviceId # self.deviceId, d))
          /\ events' = Each(new, Device)
          /\ packed' = IF p.deviceId = self.deviceId THEN <<>> ELSE <<Device(p)>>
    BY <1>1 DEF SelfDevice
  <1>2. PICK found, new :
          /\ found = extractSelfDevice(<<Str(1, p.deviceId), Str(2, p.deviceName), Num(3, 1)>>)
          /\ new = Gather(found, LAMBDA d : Maybe(d.deviceId # self.deviceId, d))
          /\ events' = Each(new, Device)
          /\ packed' = IF p.deviceId = self.deviceId THEN <<>> ELSE <<Device(p)>>
    BY <1>a
  <1>3. Just(found, p)
    BY <1>2, OwnDeviceFound DEF Just
  <1>4. found[1] = p /\ DOMAIN found = 1..1
    BY <1>3, JustIs
  <1>5. PICK c : c = [i \in DOMAIN found |-> Maybe(found[i].deviceId # self.deviceId, found[i])]
    OBVIOUS
  <1>6. new = FlattenSeq(c)
    BY <1>2, <1>5 DEF Gather
  <1>7. PICK x : x = Maybe(p.deviceId # self.deviceId, p)
    OBVIOUS
  <1>8. c = [i \in 1..1 |-> c[i]] /\ c[1] = x
    BY <1>4, <1>5, <1>7
  <1>9. List(x)
    BY <1>7, MaybeIs
  <1>10. List(c) /\ Len(c) = 1
    BY <1>8, ListMade
  <1>11. new = x
    BY <1>6, <1>8, <1>9, <1>10, FlattenSingle
  <1>12. CASE p.deviceId = self.deviceId
    <2>1. x = <<>>
      BY <1>7, <1>12 DEF Maybe
    <2>2. List(x) /\ Len(x) = 0
      BY <2>1, Empties
    <2>3. PICK e : e = [i \in DOMAIN x |-> Device(x[i])]
      OBVIOUS
    <2>4. e = [i \in 1..0 |-> e[i]]
      BY <2>2, <2>3, ListFacts
    <2>5. List(e) /\ Len(e) = 0
      BY <2>4, ListMade
    <2>6. e = <<>>
      BY <2>5, Empties
    <2>7. events' = e
      BY <1>2, <1>11, <2>3 DEF Each
    <2>8. QED
      BY <1>2, <1>12, <2>6, <2>7
  <1>13. CASE p.deviceId # self.deviceId
    <2>1. Just(x, p)
      BY <1>7, <1>13 DEF Maybe, Just
    <2>2. DOMAIN x = 1..1 /\ x[1] = p
      BY <2>1, JustIs
    <2>3. PICK t : t = Device(p)
      OBVIOUS
    <2>4. Each(x, Device) = [i \in 1..1 |-> t]
      BY <2>2, <2>3 DEF Each
    <2>5. [i \in 1..1 |-> t] = <<t>>
      OBVIOUS
    <2>6. QED
      BY <1>2, <1>11, <1>13, <2>3, <2>4, <2>5
  <1>14. QED
    BY <1>12, <1>13


-------------------------------------------------------------------------------
(*                          The roster RPC's pairs                          *)

LEMMA PairsAre ==
  ASSUME NEW m
  PROVE  \E h : /\ ReachedUpTo(m, 12, h)
                /\ extractRosterPairs(m) = {Pair(x) : x \in {y \in h[12] : IsPair(y)}}
  <1> DEFINE h == CHOOSE f : f = [d \in 0..12 |-> IF d = 0 THEN {m} ELSE Wider(f[d - 1])]
  <1>1. PICK n \in Nat : n = 12
    OBVIOUS
  <1>2. \E f : ReachedUpTo(m, n, f)
    BY <1>1, ReachedExists
  <1>3. h = [d \in 0..12 |-> IF d = 0 THEN {m} ELSE Wider(h[d - 1])]
    BY <1>1, <1>2 DEF ReachedUpTo
  <1>4. extractRosterPairs(m) = {Pair(x) : x \in {y \in h[12] : IsPair(y)}}
    BY DEF extractRosterPairs, MaxDepth, Wider, Below
  <1> HIDE DEF h
  <1>5. ReachedUpTo(m, 12, h)
    BY <1>3 DEF ReachedUpTo
  <1>6. QED
    BY <1>4, <1>5

LEMMA ReachedAre ==
  ASSUME NEW m, NEW h, ReachedUpTo(m, 12, h)
  PROVE  h[0] = {m} /\ \A k \in 0..11 : h[k + 1] = h[k] \cup Below(h[k])
  <1>1. h = [k \in 0..12 |-> IF k = 0 THEN {m} ELSE Wider(h[k - 1])]
    BY DEF ReachedUpTo
  <1>2. \A k \in 0..12 : h[k] = IF k = 0 THEN {m} ELSE Wider(h[k - 1])
    BY <1>1
  <1>3. ASSUME NEW k \in 0..11 PROVE h[k + 1] = Wider(h[k])
    <2>1. PICK j \in 0..12 : j = k + 1
      OBVIOUS
    <2>2. h[j] = Wider(h[j - 1])
      BY <1>2, <2>1
    <2>3. j - 1 = k
      BY <2>1
    <2>4. QED
      BY <2>1, <2>2, <2>3
  <1>4. QED
    BY <1>2, <1>3 DEF Wider

\* What one level down from a message holds.
LEMMA BelowIs ==
  ASSUME NEW ms, NEW y
  PROVE  y \in Below(ms) <=>
           \E x \in ms : \E i \in DOMAIN UpToMalformed(x) : y = UpToMalformed(x)[i].sub
  <1>1. y \in Below(ms) <=>
          \E x \in ms : y \in ToSet([i \in DOMAIN UpToMalformed(x) |-> UpToMalformed(x)[i].sub])
    BY DEF Below
  <1>2. ASSUME NEW x
        PROVE  y \in ToSet([i \in DOMAIN UpToMalformed(x) |-> UpToMalformed(x)[i].sub])
                 <=> \E i \in DOMAIN UpToMalformed(x) : y = UpToMalformed(x)[i].sub
    <2> DEFINE c == [i \in DOMAIN UpToMalformed(x) |-> UpToMalformed(x)[i].sub]
    <2>1. ToSet(c) = {c[i] : i \in DOMAIN c}
      BY DEF ToSet
    <2>2. DOMAIN c = DOMAIN UpToMalformed(x) /\ \A i \in DOMAIN c : c[i] = UpToMalformed(x)[i].sub
      OBVIOUS
    <2> HIDE DEF c
    <2>3. QED
      BY <2>1, <2>2 DEF c
  <1>3. QED
    BY <1>1, <1>2

\* A set that holds all that is below it holds all that is reached from it.
Closed(Z) == \A x \in Z : \A i \in DOMAIN UpToMalformed(x) : UpToMalformed(x)[i].sub \in Z

\* What is reached from a message stays in a set closed under going down.
LEMMA ReachedWithin ==
  ASSUME NEW m, NEW h, ReachedUpTo(m, 12, h), NEW Z, m \in Z, Closed(Z)
  PROVE  h[12] \subseteq Z
  <1>1. h[0] = {m} /\ \A k \in 0..11 : h[k + 1] = h[k] \cup Below(h[k])
    BY ReachedAre
  <1> DEFINE S == {k \in Nat : k <= 12 => h[k] \subseteq Z}
  <1>2. 0 \in S
    BY <1>1
  <1>3. ASSUME NEW k \in Nat, k \in S PROVE k + 1 \in S
    <2>1. SUFFICES ASSUME k + 1 <= 12 PROVE h[k + 1] \subseteq Z
      OBVIOUS
    <2>2. k \in 0..11 /\ h[k] \subseteq Z
      BY <1>3, <2>1
    <2>3. Below(h[k]) \subseteq Z
      <3>1. SUFFICES ASSUME NEW y \in Below(h[k]) PROVE y \in Z
        OBVIOUS
      <3>2. PICK x \in h[k] : \E i \in DOMAIN UpToMalformed(x) : y = UpToMalformed(x)[i].sub
        BY <3>1, BelowIs
      <3>3. QED
        BY <2>2, <3>2 DEF Closed
    <2>4. QED
      BY <1>1, <2>2, <2>3
  <1> HIDE DEF S
  <1>4. Nat \subseteq S
    BY <1>2, <1>3, Induct
  <1>5. 12 \in S
    BY <1>4
  <1>6. QED
    BY <1>5 DEF S

\* What is two levels below a message it reaches, it reaches.
LEMMA ReachedGrows ==
  ASSUME NEW m, NEW h, ReachedUpTo(m, 12, h), NEW j \in 0..12
  PROVE  h[j] \subseteq h[12]
  <1>1. \A k \in 0..11 : h[k + 1] = h[k] \cup Below(h[k])
    BY ReachedAre
  <1> DEFINE S == {k \in Nat : j + k <= 12 => h[j] \subseteq h[j + k]}
  <1>2. 0 \in S
    BY DEF S
  <1>3. ASSUME NEW k \in Nat, k \in S PROVE k + 1 \in S
    <2>1. SUFFICES ASSUME j + (k + 1) <= 12 PROVE h[j] \subseteq h[j + (k + 1)]
      OBVIOUS
    <2>2. PICK l \in 0..11 : l = j + k
      BY <2>1
    <2>3. h[j] \subseteq h[l]
      BY <1>3, <2>1, <2>2
    <2>4. h[l] \subseteq h[l + 1]
      BY <1>1
    <2>5. l + 1 = j + (k + 1)
      BY <2>2
    <2>6. QED
      BY <2>3, <2>4, <2>5
  <1> HIDE DEF S
  <1>4. Nat \subseteq S
    BY <1>2, <1>3, Induct
  <1>5. PICK k \in Nat : j + k = 12
    <2>1. 12 - j \in Nat /\ j + (12 - j) = 12
      OBVIOUS
    <2>2. QED
      BY <2>1
  <1>6. h[j] \subseteq h[j + k]
    BY <1>4, <1>5 DEF S
  <1>7. QED
    BY <1>5, <1>6

LEMMA ReachedNext ==
  ASSUME NEW m, NEW h, ReachedUpTo(m, 12, h), NEW k \in 0..11, NEW x \in h[k],
         List(x), Clean(x), NEW i \in 1..Len(x)
  PROVE  x[i].sub \in h[k + 1]
  <1>1. h[k + 1] = h[k] \cup Below(h[k])
    BY ReachedAre
  <1>2. UpToMalformed(x) = x /\ DOMAIN x = 1..Len(x)
    BY ReadsAll, ListFacts
  <1>3. x[i].sub \in Below(h[k])
    BY <1>2, BelowIs
  <1>4. QED
    BY <1>1, <1>3


\* A message with no submessage of its own.
Nothings == {<<Malformed>>, <<>>}
Shallow(m) == List(m) /\ \A i \in 1..Len(m) : m[i].sub \in Nothings

LEMMA ShallowOne ==
  ASSUME NEW m, NEW f, Just(m, f), f.sub \in Nothings
  PROVE  Shallow(m)
  <1>1. List(m) /\ Len(m) = 1 /\ m[1] = f
    BY JustIs
  <1>2. \A i \in 1..Len(m) : m[i].sub \in Nothings
    BY <1>1
  <1>3. QED
    BY <1>1, <1>2 DEF Shallow

LEMMA ShallowJoin ==
  ASSUME NEW a, NEW b, Shallow(a), Shallow(b)
  PROVE  Shallow(a \o b)
  <1>1. PICK k \in Nat, l \in Nat : k = Len(a) /\ l = Len(b)
    BY ListFacts DEF Shallow
  <1>2. /\ List(a \o b) /\ Len(a \o b) = k + l
        /\ \A i \in 1..k : (a \o b)[i] = a[i]
        /\ \A i \in 1..l : (a \o b)[k + i] = b[i]
    BY <1>1, Joined DEF Shallow
  <1>3. ASSUME NEW i \in 1..(k + l) PROVE (a \o b)[i].sub \in Nothings
    <2>1. CASE i <= k
      <3>1. i \in 1..k
        BY <2>1
      <3>2. QED
        BY <1>1, <1>2, <3>1 DEF Shallow
    <2>2. CASE i > k
      <3>1. PICK j \in 1..l : i = k + j
        <4>1. i - k \in 1..l /\ i = k + (i - k)
          BY <2>2
        <4>2. QED
          BY <4>1
      <3>2. QED
        BY <1>1, <1>2, <3>1 DEF Shallow
    <2>3. i <= k \/ i > k
      OBVIOUS
    <2>4. QED
      BY <2>1, <2>2, <2>3
  <1>4. QED
    BY <1>2, <1>3 DEF Shallow

LEMMA LeafShallow ==
  ASSUME NEW r \in Records, r[2] \in {"present", "nameless"}
  PROVE  Shallow(Leaf(r))
  <1>1. PICK a, b, c : Just(a, Str(1, r[1].deviceId)) /\ b = NamePart(r) /\ Just(c, Num(4, StateOf(r)))
    BY DEF Just
  <1>2. Leaf(r) = (a \o b) \o c
    BY <1>1, LeafIs DEF Just
  <1>3. Shallow(a) /\ Shallow(c)
    <2>1. PICK f, g : f = Str(1, r[1].deviceId) /\ g = Num(4, StateOf(r))
      OBVIOUS
    <2>2. f.sub = <<Malformed>> /\ g.sub = <<>>
      BY <2>1, StrIs, NumIs
    <2>3. Just(a, f) /\ Just(c, g)
      BY <1>1, <2>1
    <2>4. f.sub \in Nothings /\ g.sub \in Nothings
      BY <2>2 DEF Nothings
    <2>5. QED
      BY <2>3, <2>4, ShallowOne
  <1>4. Shallow(b)
    <2>1. CASE r[2] = "nameless"
      <3>1. b = <<>>
        BY <1>1, <2>1 DEF NamePart
      <3>2. QED
        BY <3>1, Empties DEF Shallow
    <2>2. CASE r[2] = "present"
      <3>1. Just(b, Str(2, r[1].deviceName))
        BY <1>1, <2>2 DEF NamePart, Just
      <3>2. PICK f : f = Str(2, r[1].deviceName)
        OBVIOUS
      <3>3. f.sub = <<Malformed>> /\ Just(b, f)
        BY <3>1, <3>2, StrIs
      <3>4. f.sub \in Nothings
        BY <3>3 DEF Nothings
      <3>5. QED
        BY <3>3, <3>4, ShallowOne
    <2>3. QED
      BY <2>1, <2>2
  <1>5. QED
    BY <1>2, <1>3, <1>4, ShallowJoin

\* The one leaf that pairs a device with a name is that of a device present.
LEMMA LeafPaired ==
  ASSUME NEW r \in Records, r[2] \in {"present", "nameless"}
  PROVE  /\ IsPair(Leaf(r)) <=> r[2] = "present"
         /\ r[2] = "present" => Pair(Leaf(r)) = r[1]
  <1> DEFINE m == Leaf(r)
  <1>1. /\ List(m) /\ Clean(m) /\ Just(Fields(m, 1, "len"), Str(1, r[1].deviceId))
        /\ Fields(m, 2, "len") = Fields(NamePart(r), 2, "len")
    BY LeafRead
  <1> HIDE DEF m
  <1>2. firstOf(m, 1) = r[1].deviceId
    <2>1. firstOf(m, 1) = Str(1, r[1].deviceId).str
      BY <1>1, FirstRead
    <2>2. QED
      BY <2>1, StrIs
  <1>3. r[2] = "present" => firstOf(m, 2) = r[1].deviceName
    <2>1. SUFFICES ASSUME r[2] = "present" PROVE firstOf(m, 2) = r[1].deviceName
      OBVIOUS
    <2>2. Just(Fields(m, 2, "len"), Str(2, r[1].deviceName))
      BY <1>1, <2>1, NamePartRead
    <2>3. firstOf(m, 2) = Str(2, r[1].deviceName).str
      BY <1>1, <2>2, FirstRead
    <2>4. QED
      BY <2>3, StrIs
  <1>4. r[2] = "nameless" => firstOf(m, 2) = ""
    <2>1. SUFFICES ASSUME r[2] = "nameless" PROVE firstOf(m, 2) = ""
      OBVIOUS
    <2>2. Fields(m, 2, "len") = <<>>
      BY <1>1, <2>1, NamePartRead
    <2>3. QED
      BY <1>1, <2>2, FirstRead
  <1>5. "" \notin NameLike
    BY StringAssumption
  <1>6. r[2] = "present" => IsPair(m) /\ Pair(m) = r[1]
    BY <1>2, <1>3, RecordIs, ParticipantIs DEF IsPair, Pair
  <1>7. r[2] = "nameless" => ~IsPair(m)
    BY <1>4, <1>5 DEF IsPair
  <1>8. QED
    BY <1>6, <1>7 DEF m

LEMMA NoPair ==
  ASSUME NEW m, firstOf(m, 1) = ""
  PROVE  ~IsPair(m)
  <1>1. "" \notin DevicePath
    BY StringAssumption
  <1>2. QED
    BY <1>1 DEF IsPair

Page(r) == <<Sub(2, Leaf(r))>>
Around(records) ==
  {CollectionForm(records, "nowhere"), Pages(records)} \cup Nothings
    \cup {Page(records[i]) : i \in 1..Len(records)}
LeavesIn(records) == {Leaf(records[i]) : i \in 1..Len(records)}

LEMMA SyncIs ==
  ASSUME NEW records, RecordsList(records)
  PROVE  Just(CollectionForm(records, "nowhere"), Sub(2, Pages(records)))
  <1> DEFINE p == Pages(records)
             f == Sub(2, p)
  <1>1. List(p)
    BY PagesAre
  <1>2. PICK e : e = <<>>
    OBVIOUS
  <1>3. Also("envelope", "nowhere") = e /\ Also("frame", "nowhere") = e
    BY <1>2 DEF Also
  <1> HIDE DEF p
  <1>4. p \o e = p
    BY <1>1, <1>2, Empties
  <1>5. CollectionBody(records, "nowhere") = p
    BY <1>3, <1>4 DEF CollectionBody, p
  <1> HIDE DEF f
  <1>6. PICK b : Just(b, f)
    BY DEF Just
  <1>7. List(b)
    BY <1>6, JustIs
  <1>8. b \o e = b
    BY <1>2, <1>7, Empties
  <1>9. CollectionForm(records, "nowhere") = b \o e
    <2>1. CollectionForm(records, "nowhere") = <<f>> \o e
      BY <1>3, <1>5, CollectionIs DEF f
    <2>2. QED
      BY <1>6, <2>1 DEF Just
  <1>10. QED
    BY <1>6, <1>8, <1>9 DEF f, p

\* One submessage on its own: no pair, and what it leads to.
LEMMA WrapperIs ==
  ASSUME NEW b, NEW m, Just(b, Sub(2, m))
  PROVE  /\ List(b) /\ Clean(b) /\ Len(b) = 1 /\ b[1].sub = m
         /\ UpToMalformed(b) = b /\ DOMAIN b = 1..1 /\ firstOf(b, 1) = ""
  <1>1. PICK f : f = Sub(2, m)
    OBVIOUS
  <1>2. f.wire # "undefined" /\ ~Has(f, 1, "len") /\ f.sub = m
    BY <1>1, HasOf, WiresDefined, SubIs
  <1>3. Just(b, f)
    BY <1>1
  <1>4. List(b) /\ Clean(b) /\ Fields(b, 1, "len") = <<>>
    BY <1>2, <1>3, OneRead
  <1>5. Len(b) = 1 /\ b[1] = f /\ DOMAIN b = 1..1
    BY <1>3, JustIs
  <1>6. UpToMalformed(b) = b /\ firstOf(b, 1) = ""
    BY <1>4, ReadsAll, FirstRead
  <1>7. QED
    BY <1>2, <1>4, <1>5, <1>6

LEMMA PagesWrap ==
  ASSUME NEW records, RecordsList(records)
  PROVE  /\ UpToMalformed(Pages(records)) = Pages(records)
         /\ DOMAIN Pages(records) = 1..Len(records)
         /\ firstOf(Pages(records), 1) = ""
  <1> DEFINE p == Pages(records)
  <1>1. List(p) /\ Clean(p) /\ Len(p) = Len(records)
    BY PagesAre
  <1>2. Fields(p, 1, "len") = <<>>
    <2>1. ASSUME NEW i \in 1..Len(p) PROVE ~Has(p[i], 1, "len")
      <3>1. PICK l \in Nat : l = Len(records) /\ DOMAIN records = 1..l
        BY RecordsAre
      <3>2. p[i] = Sub(2, <<Sub(2, Leaf(records[i]))>>)
        BY <1>1, <3>1 DEF Pages
      <3>3. QED
        BY <3>2, HasOf
    <2> HIDE DEF p
    <2>2. QED
      BY <1>1, <2>1, FieldsNone
  <1> HIDE DEF p
  <1>3. UpToMalformed(p) = p /\ DOMAIN p = 1..Len(p) /\ firstOf(p, 1) = ""
    BY <1>1, <1>2, ReadsAll, ListFacts, FirstRead
  <1>4. QED
    BY <1>1, <1>3 DEF p


Synced(records) ==
  RecordsList(records) /\ \A i \in 1..Len(records) : records[i][2] \in {"present", "nameless"}

LEMMA SyncedLeaf ==
  ASSUME NEW records, Synced(records), NEW i \in 1..Len(records)
  PROVE  /\ records[i] \in Records /\ records[i][2] \in {"present", "nameless"}
         /\ Shallow(Leaf(records[i]))
         /\ UpToMalformed(Leaf(records[i])) = Leaf(records[i])
         /\ DOMAIN Leaf(records[i]) = 1..Len(Leaf(records[i]))
  <1>1. PICK r \in Records : r = records[i] /\ r[2] \in {"present", "nameless"}
    BY DEF Synced, RecordsList
  <1>2. PICK m : m = Leaf(r)
    OBVIOUS
  <1>3. List(m) /\ Clean(m) /\ Shallow(m)
    BY <1>1, <1>2, LeafRead, LeafShallow
  <1>4. UpToMalformed(m) = m /\ DOMAIN m = 1..Len(m)
    BY <1>3, ReadsAll, ListFacts
  <1>5. QED
    BY <1>1, <1>2, <1>3, <1>4

LEMMA AroundClosed ==
  ASSUME NEW records, Synced(records)
  PROVE  /\ CollectionForm(records, "nowhere") \in Around(records)
         /\ Closed(Around(records) \cup LeavesIn(records))
         /\ \A x \in Around(records) : ~IsPair(x)
  <1> DEFINE Z == Around(records) \cup LeavesIn(records)
             f == CollectionForm(records, "nowhere")
             p == Pages(records)
  <1>1. Just(f, Sub(2, p))
    BY SyncIs DEF Synced
  <1>2. /\ UpToMalformed(p) = p /\ DOMAIN p = 1..Len(records) /\ firstOf(p, 1) = ""
        /\ \A i \in 1..Len(records) : p[i].sub = Page(records[i])
    BY PagesWrap, PagesAre DEF Synced, Page
  <1>3. /\ f \in Around(records) /\ p \in Z /\ Nothings \subseteq Z
        /\ \A i \in 1..Len(records) : Page(records[i]) \in Z /\ Leaf(records[i]) \in Z
    BY DEF Around, LeavesIn
  <1>4. \A x \in Z : \/ x = f \/ x = p \/ x \in Nothings
                     \/ \E i \in 1..Len(records) : x = Page(records[i]) \/ x = Leaf(records[i])
    BY DEF Around, LeavesIn
  <1>5. \A x \in Around(records) : \/ x = f \/ x = p \/ x \in Nothings
                                   \/ \E i \in 1..Len(records) : x = Page(records[i])
    BY DEF Around
  <1> HIDE DEF Z, f, p
  <1>6. \A i \in 1..Len(records) : Just(Page(records[i]), Sub(2, Leaf(records[i])))
    BY DEF Page, Just
  <1>7. \A x \in Nothings : UpToMalformed(x) = <<>> /\ DOMAIN UpToMalformed(x) = {} /\ firstOf(x, 1) = ""
    <2>1. PICK e : e = <<>>
      OBVIOUS
    <2>2. List(e) /\ Clean(e) /\ Len(e) = 0
      BY <2>1, NilMessage, Empties
    <2>3. DOMAIN e = {}
      BY <2>2, ListFacts
    <2>4. \A x \in Nothings : UpToMalformed(x) = e
      BY <2>1, <2>2, MalformedReadsNothing, ReadsAll DEF Nothings
    <2>5. Fields(e, 1, "len") = <<>>
      BY <2>1, NilMessage
    <2>6. \A x \in Nothings : firstOf(x, 1) = ""
      BY <2>4, <2>5 DEF firstOf
    <2>7. QED
      BY <2>1, <2>3, <2>4, <2>6
  <1>8. ASSUME NEW x \in Z PROVE \A i \in DOMAIN UpToMalformed(x) : UpToMalformed(x)[i].sub \in Z
    <2>1. CASE x = f
      <3>1. UpToMalformed(f) = f /\ DOMAIN f = 1..1 /\ f[1].sub = p
        BY <1>1, WrapperIs
      <3>2. QED
        BY <1>3, <2>1, <3>1
    <2>2. CASE x = p
      BY <1>2, <1>3, <2>2
    <2>3. CASE x \in Nothings
      BY <1>7, <2>3
    <2>4. ASSUME NEW k \in 1..Len(records), x = Page(records[k])
          PROVE  \A i \in DOMAIN UpToMalformed(x) : UpToMalformed(x)[i].sub \in Z
      <3>1. Just(x, Sub(2, Leaf(records[k])))
        BY <1>6, <2>4
      <3>2. UpToMalformed(x) = x /\ DOMAIN x = 1..1 /\ x[1].sub = Leaf(records[k])
        BY <3>1, WrapperIs
      <3>3. QED
        BY <1>3, <3>2
    <2>5. ASSUME NEW k \in 1..Len(records), x = Leaf(records[k])
          PROVE  \A i \in DOMAIN UpToMalformed(x) : UpToMalformed(x)[i].sub \in Z
      <3>1. Shallow(x) /\ UpToMalformed(x) = x /\ DOMAIN x = 1..Len(x)
        BY <2>5, SyncedLeaf
      <3>2. QED
        BY <1>3, <3>1 DEF Shallow
    <2>6. QED
      BY <1>4, <2>1, <2>2, <2>3, <2>4, <2>5
  <1>9. ASSUME NEW x \in Around(records) PROVE firstOf(x, 1) = ""
    <2>1. CASE x = f
      BY <1>1, <2>1, WrapperIs
    <2>2. ASSUME NEW k \in 1..Len(records), x = Page(records[k]) PROVE firstOf(x, 1) = ""
      <3>1. Just(x, Sub(2, Leaf(records[k])))
        BY <1>6, <2>2
      <3>2. QED
        BY <3>1, WrapperIs
    <2>3. QED
      BY <1>2, <1>5, <1>7, <2>1, <2>2
  <1>10. QED
    BY <1>3, <1>8, <1>9, NoPair DEF Closed, Z, f

LEMMA LeavesReached ==
  ASSUME NEW records, Synced(records), NEW h,
         ReachedUpTo(CollectionForm(records, "nowhere"), 12, h), NEW i \in 1..Len(records)
  PROVE  Leaf(records[i]) \in h[12]
  <1> DEFINE f == CollectionForm(records, "nowhere")
             p == Pages(records)
             q == Page(records[i])
  <1>1. Just(f, Sub(2, p)) /\ Just(q, Sub(2, Leaf(records[i])))
    BY SyncIs DEF Synced, Page, Just
  <1>2. /\ List(p) /\ Clean(p) /\ i \in 1..Len(p) /\ p[i].sub = q
    BY PagesAre DEF Synced, Page
  <1>3. ReachedUpTo(f, 12, h)
    OBVIOUS
  <1> HIDE DEF f, p, q
  <1>4. List(f) /\ Clean(f) /\ 1 \in 1..Len(f) /\ f[1].sub = p
    <2>1. List(f) /\ Clean(f) /\ Len(f) = 1 /\ f[1].sub = p
      BY <1>1, WrapperIs
    <2>2. QED
      BY <2>1
  <1>5. List(q) /\ Clean(q) /\ 1 \in 1..Len(q) /\ q[1].sub = Leaf(records[i])
    <2>1. List(q) /\ Clean(q) /\ Len(q) = 1 /\ q[1].sub = Leaf(records[i])
      BY <1>1, WrapperIs
    <2>2. QED
      BY <2>1
  <1>6. PICK a \in 0..11, b \in 0..11, c \in 0..11, d \in 0..12 : a = 0 /\ b = 1 /\ c = 2 /\ d = 3
    OBVIOUS
  <1>7. f \in h[a]
    BY <1>3, <1>6, ReachedAre
  <1>8. f[1].sub \in h[a + 1]
    BY <1>3, <1>4, <1>7, ReachedNext
  <1>9. p \in h[b]
    BY <1>4, <1>6, <1>8
  <1>10. p[i].sub \in h[b + 1]
    BY <1>2, <1>3, <1>9, ReachedNext
  <1>11. q \in h[c]
    BY <1>2, <1>6, <1>10
  <1>12. q[1].sub \in h[c + 1]
    BY <1>3, <1>5, <1>11, ReachedNext
  <1>13. Leaf(records[i]) \in h[d]
    BY <1>5, <1>6, <1>12
  <1>14. h[d] \subseteq h[12]
    BY <1>3, ReachedGrows
  <1>15. QED
    BY <1>13, <1>14

\* The roster RPC finds the named devices: all, and nothing besides.
LEMMA PairsFound ==
  ASSUME NEW records, Synced(records)
  PROVE  extractRosterPairs(CollectionForm(records, "nowhere")) =
           {r[1] : r \in {x \in ToSet(records) : x[2] = "present"}}
  <1> DEFINE f == CollectionForm(records, "nowhere")
             known == {r[1] : r \in {x \in ToSet(records) : x[2] = "present"}}
  <1>1. PICK h : /\ ReachedUpTo(f, 12, h)
                 /\ extractRosterPairs(f) = {Pair(x) : x \in {y \in h[12] : IsPair(y)}}
    BY PairsAre
  <1>2. h[12] \subseteq Around(records) \cup LeavesIn(records)
    BY <1>1, AroundClosed, ReachedWithin
  <1>3. PICK l \in Nat : l = Len(records) /\ DOMAIN records = 1..l
    BY RecordsAre DEF Synced
  <1>4. ToSet(records) = {records[i] : i \in 1..l}
    BY <1>3 DEF ToSet
  <1>5. ASSUME NEW x \in h[12], IsPair(x) PROVE Pair(x) \in known
    <2>1. PICK i \in 1..l : x = Leaf(records[i])
      BY <1>2, <1>3, <1>5, AroundClosed DEF LeavesIn
    <2>2. PICK r \in Records : r = records[i] /\ r[2] \in {"present", "nameless"}
      BY <1>3, SyncedLeaf
    <2>3. r[2] = "present" /\ Pair(x) = r[1]
      BY <1>5, <2>1, <2>2, LeafPaired
    <2>4. r \in ToSet(records)
      BY <1>4, <2>2
    <2>5. QED
      BY <2>3, <2>4
  <1>6. ASSUME NEW r \in ToSet(records), r[2] = "present"
        PROVE  \E x \in h[12] : IsPair(x) /\ Pair(x) = r[1]
    <2>1. PICK i \in 1..l : r = records[i]
      BY <1>4
    <2>2. r \in Records
      BY <1>3, <2>1, SyncedLeaf
    <2>3. IsPair(Leaf(r)) /\ Pair(Leaf(r)) = r[1]
      BY <1>6, <2>2, LeafPaired
    <2>4. Leaf(r) \in h[12]
      BY <1>1, <1>3, <2>1, LeavesReached
    <2>5. QED
      BY <2>3, <2>4
  <1> HIDE DEF f
  <1>7. extractRosterPairs(f) \subseteq known
    BY <1>1, <1>5
  <1>8. known \subseteq extractRosterPairs(f)
    BY <1>1, <1>6
  <1>9. QED
    BY <1>7, <1>8 DEF f

\* Of the roster RPC, what was not dispatched before is dispatched.
LEMMA RosterSyncedRight == RosterSynced => ReadAsPacked'
  <1>1. SUFFICES ASSUME RosterSynced PROVE events' = packed'
    BY DEF ReadAsPacked
  <1>a. PICK records \in UpTo(MaxBatch, {r \in Records : r[2] \in {"present", "nameless"}}) : \E pairs, known :
          /\ pairs = extractRosterPairs(CollectionForm(records, "nowhere"))
          /\ known = {r[1] : r \in {x \in ToSet(records) : x[2] = "present"}}
          /\ events' = <<pairs \ dispatchedRoster>>
          /\ packed' = <<known \ dispatchedRoster>>
    BY <1>1 DEF RosterSynced
  <1>2. PICK pairs, known :
          /\ pairs = extractRosterPairs(CollectionForm(records, "nowhere"))
          /\ known = {r[1] : r \in {x \in ToSet(records) : x[2] = "present"}}
          /\ events' = <<pairs \ dispatchedRoster>>
          /\ packed' = <<known \ dispatchedRoster>>
    BY <1>a
  <1>3. List(records) /\ \A i \in 1..Len(records) :
                           records[i] \in {r \in Records : r[2] \in {"present", "nameless"}}
    BY WireAssumption, LinesAreList
  <1>4. Synced(records)
    BY <1>3 DEF Synced, RecordsList
  <1>5. pairs = known
    BY <1>2, <1>4, PairsFound
  <1>6. QED
    BY <1>2, <1>5

-------------------------------------------------------------------------------
(*                               The theorem                                *)

\* The counters stay numbers, and every frame is read as it was packed.
LEMMA WireInductive ==
  /\ WireInit => CountersOK /\ ReadAsPacked
  /\ CountersOK /\ ReadAsPacked /\ [WireNext]_wireVars => CountersOK' /\ ReadAsPacked'
  <1>1. WireInit => CountersOK /\ ReadAsPacked
    <2>1. SUFFICES ASSUME WireInit PROVE CountersOK /\ ReadAsPacked
      OBVIOUS
    <2>2. session = [op |-> 0, seq |-> 0]
      BY <2>1 DEF WireInit
    <2>3. CountersOK
      BY <2>2 DEF CountersOK
    <2>4. ReadAsPacked
      BY <2>1 DEF WireInit, ReadAsPacked
    <2>5. QED
      BY <2>3, <2>4
  <1>2. ASSUME CountersOK, ReadAsPacked, [WireNext]_wireVars PROVE CountersOK' /\ ReadAsPacked'
    <2>1. CASE CaptionsFrame
      BY <1>2, <2>1, CaptionsFrameRight DEF CaptionsFrame, Quiet, CountersOK
    <2>2. CASE CollectionsFrame
      BY <1>2, <2>2, CollectionsFrameRight DEF CollectionsFrame, Quiet, CountersOK
    <2>3. CASE OwnChatSent
      BY <1>2, <2>3, OwnChatRight DEF OwnChatSent, Quiet, CountersOK
    <2>4. CASE MediaSessionSent
      BY <1>2, <2>4, MediaSessionRight
    <2>5. CASE SelfNamed
      BY <1>2, <2>5, SelfNamedRight DEF SelfNamed, CountersOK
    <2>6. CASE SelfDevice
      BY <1>2, <2>6, SelfDeviceRight DEF SelfDevice, CountersOK
    <2>7. CASE RosterSynced
      BY <1>2, <2>7, RosterSyncedRight DEF RosterSynced, CountersOK
    <2>8. CASE UNCHANGED wireVars
      BY <1>2, <2>8 DEF wireVars, CountersOK, ReadAsPacked
    <2>9. QED
      BY <1>2, <2>1, <2>2, <2>3, <2>4, <2>5, <2>6, <2>7, <2>8 DEF WireNext
  <1>3. QED
    BY <1>1, <1>2

\* What Meet packed for a channel is what its consumer dispatches, all of it and in
\* order, for batches of any size and numbers of any width (the decoders of proto.ts
\* and identity.ts, and the consumers of meet-rtc/main.ts).
THEOREM ReadAsPackedHolds == WireSpec => []ReadAsPacked
  <1>1. WireInit => CountersOK /\ ReadAsPacked
    BY WireInductive
  <1>2. CountersOK /\ ReadAsPacked /\ [WireNext]_wireVars => (CountersOK /\ ReadAsPacked)'
    BY WireInductive
  <1>3. QED
    BY <1>1, <1>2, PTL DEF WireSpec

-------------------------------------------------------------------------------
(*                            The filename guard                            *)

Stages == {"new", "asked", "named", "failed"}

Once(s) == \A i, j \in 1..Len(s) : s[i] = s[j] => i = j
Waits(d, s) == \E i \in 1..Len(s) : s[i] = d

GuardType ==
  /\ pending \in Seq(Download)
  /\ stage \in [Download -> Stages]
  /\ given \in [Download -> Download \cup {NoName}]
  /\ stops \in Nat /\ told \in BOOLEAN

Queued ==
  /\ Once(pending)
  /\ \A d \in Download : Waits(d, pending) <=> stage[d] = "asked"
  /\ IsFiniteSet(Rounds) /\ Cardinality(Rounds) = Len(pending)

OwnNames == \A d \in Download : stage[d] = "named" => given[d] = d

GuardInv == told => GuardType /\ Queued /\ OwnNames

-----------------------------------------------------------------------------
LEMMA MinOfOne == ASSUME NEW i \in Nat PROVE Min({i}) = i
  BY DEF Min

\* What RemoveAt leaves.
LEMMA RemovedAt ==
  ASSUME NEW S, NEW s \in Seq(S), NEW i \in 1..Len(s)
  PROVE  /\ RemoveAt(s, i) \in Seq(S)
         /\ Len(RemoveAt(s, i)) = Len(s) - 1
         /\ \A j \in 1..(Len(s) - 1) : RemoveAt(s, i)[j] = s[IF j < i THEN j ELSE j + 1]
<1> DEFINE a == SubSeq(s, 1, i - 1)
           b == SubSeq(s, i + 1, Len(s))
<1>1. /\ a \in Seq(S) /\ Len(a) = i - 1
      /\ \A j \in 1..(i - 1) : a[j] = s[j]
  OBVIOUS
<1>2. /\ b \in Seq(S) /\ Len(b) = Len(s) - i
      /\ \A j \in 1..(Len(s) - i) : b[j] = s[i + j]
  OBVIOUS
<1> HIDE DEF a, b
<1>3. /\ a \o b \in Seq(S) /\ Len(a \o b) = Len(a) + Len(b)
      /\ \A j \in 1..(Len(a) + Len(b)) : (a \o b)[j] = IF j <= Len(a) THEN a[j] ELSE b[j - Len(a)]
  BY <1>1, <1>2, ConcatProperties
<1>4. ASSUME NEW j \in 1..(Len(s) - 1)
      PROVE  (a \o b)[j] = s[IF j < i THEN j ELSE j + 1]
  <2>1. CASE j < i
    BY <1>1, <1>2, <1>3, <2>1
  <2>2. CASE ~(j < i)
    <3>1. (a \o b)[j] = b[j - (i - 1)] /\ j - (i - 1) \in 1..(Len(s) - i)
      BY <1>1, <1>2, <1>3, <2>2
    <3>2. b[j - (i - 1)] = s[i + (j - (i - 1))] /\ i + (j - (i - 1)) = j + 1
      BY <1>2, <3>1
    <3> QED
      BY <3>1, <3>2, <2>2
  <2> QED
    BY <2>1, <2>2
<1>5. RemoveAt(s, i) = a \o b
  BY DEF RemoveAt, a, b
<1>6. Len(a) + Len(b) = Len(s) - 1
  BY <1>1, <1>2
<1> QED
  BY <1>3, <1>4, <1>5, <1>6

\* A queue without repetitions, less the entry at i: less that download.
LEMMA TakenOut ==
  ASSUME NEW s \in Seq(Download), Once(s), NEW i \in 1..Len(s)
  PROVE  /\ Once(RemoveAt(s, i))
         /\ \A d : Waits(d, RemoveAt(s, i)) <=> Waits(d, s) /\ d # s[i]
<1> DEFINE t == RemoveAt(s, i)
           from(j) == IF j < i THEN j ELSE j + 1
<1>1. Len(t) = Len(s) - 1 /\ \A j \in 1..(Len(s) - 1) : t[j] = s[from(j)]
  BY RemovedAt
<1>2. \A j \in 1..Len(t) : from(j) \in 1..Len(s) /\ from(j) # i
  BY <1>1
<1>3. Once(t)
  BY <1>1, <1>2 DEF Once
<1>4. ASSUME NEW d, Waits(d, t) PROVE Waits(d, s) /\ d # s[i]
  BY <1>1, <1>2, <1>4 DEF Waits, Once
<1>5. ASSUME NEW d, Waits(d, s), d # s[i] PROVE Waits(d, t)
  <2>1. PICK k \in 1..Len(s) : s[k] = d /\ k # i
    BY <1>5 DEF Waits
  <2>2. PICK j \in 1..(Len(s) - 1) : from(j) = k
    <3>1. CASE k < i
      BY <3>1
    <3>2. CASE k > i
      <4>1. k - 1 \in 1..(Len(s) - 1) /\ from(k - 1) = k
        BY <3>2
      <4> QED
        BY <4>1
    <3> QED
      BY <3>1, <3>2, <2>1
  <2> QED
    BY <1>1, <2>1, <2>2 DEF Waits
<1> QED
  BY <1>3, <1>4, <1>5

-----------------------------------------------------------------------------
\* The entry of a download whose round has come, or which failed, is taken out.
LEMMA LeavesQueue ==
  ASSUME GuardType, Queued, NEW d \in Download, stage[d] = "asked",
         NEW i \in 1..Len(pending), pending[i] = d, pending' = RemoveAt(pending, i),
         NEW to \in {"named", "failed"}, stage' = [stage EXCEPT ![d] = to]
  PROVE  pending' \in Seq(Download) /\ stage' \in [Download -> Stages] /\ Queued'
<1>1. pending' \in Seq(Download) /\ Len(pending') = Len(pending) - 1
  BY RemovedAt DEF GuardType
<1>2. stage' \in [Download -> Stages]
  BY DEF GuardType, Stages
<1>3. Once(pending') /\ \A o : Waits(o, pending') <=> Waits(o, pending) /\ o # d
  BY TakenOut DEF GuardType, Queued
<1>4. \A o \in Download : Waits(o, pending') <=> stage'[o] = "asked"
  BY <1>3 DEF GuardType, Queued
<1>5. Rounds' = Rounds \ {d} /\ d \in Rounds
  BY DEF GuardType, Rounds
<1>6. IsFiniteSet(Rounds') /\ Cardinality(Rounds') = Cardinality(Rounds) - 1
  BY <1>5, FS_RemoveElement DEF Queued
<1>7. Cardinality(Rounds') = Len(pending')
  BY <1>1, <1>6 DEF Queued
<1> QED
  BY <1>1, <1>2, <1>3, <1>4, <1>6, <1>7 DEF Queued

\* Where an asked download stands in the queue, and that nothing else stands there.
LEMMA Stands ==
  ASSUME GuardType, Queued, NEW d \in Download, stage[d] = "asked"
  PROVE  \E i \in 1..Len(pending) :
           pending[i] = d /\ SelectInSeq(pending, LAMBDA p : p = d) = i
<1>1. PICK i \in 1..Len(pending) : pending[i] = d
  BY DEF Queued, Waits
<1>2. {j \in 1..Len(pending) : pending[j] = d} = {i}
  BY <1>1 DEF Queued, Once
<1>3. i \in Nat
  BY DEF GuardType
<1>4. SelectInSeq(pending, LAMBDA p : p = d) = i
  BY <1>2, <1>3, MinOfOne DEF SelectInSeq
<1> QED
  BY <1>1, <1>4

LEMMA StartStepOfGuard ==
  ASSUME GuardInv, NEW d \in Download, StartDownload(d) PROVE GuardInv'
<1> SUFFICES ASSUME told' PROVE GuardType' /\ Queued' /\ OwnNames'
  BY DEF GuardInv
<1>1. told' = (told /\ Cardinality(Rounds) < MaxPending) /\ stage[d] = "new"
      /\ pending' = expect(d) /\ stage' = [stage EXCEPT ![d] = "asked"] /\ UNCHANGED <<given, stops>>
  BY DEF StartDownload
<1>2. told /\ Cardinality(Rounds) < MaxPending /\ GuardType /\ Queued /\ OwnNames
  BY <1>1 DEF GuardInv
<1>3. pending' = Append(pending, d)
  BY <1>1, <1>2, GuardAssumption DEF expect, GuardType, Queued
<1>4. /\ pending' \in Seq(Download) /\ Len(pending') = Len(pending) + 1
      /\ pending'[Len(pending) + 1] = d /\ \A i \in 1..Len(pending) : pending'[i] = pending[i]
  BY <1>2, <1>3 DEF GuardType
<1>5. GuardType'
  BY <1>1, <1>2, <1>4 DEF GuardType, Stages
<1>6. ~Waits(d, pending) /\ Len(pending) \in Nat
  BY <1>1, <1>2 DEF Queued, GuardType
<1>7. Once(pending')
  BY <1>2, <1>4, <1>6 DEF Once, Queued, Waits
<1>8. ASSUME NEW o \in Download PROVE Waits(o, pending') <=> Waits(o, pending) \/ o = d
  BY <1>4, <1>6 DEF Waits
<1>9. \A o \in Download : Waits(o, pending') <=> stage'[o] = "asked"
  BY <1>1, <1>2, <1>8 DEF Queued, GuardType
<1>10. Rounds' = Rounds \cup {d} /\ d \notin Rounds
  BY <1>1, <1>2 DEF Rounds, GuardType
<1>11. IsFiniteSet(Rounds') /\ Cardinality(Rounds') = Len(pending')
  BY <1>2, <1>4, <1>10, FS_AddElement DEF Queued
<1>12. OwnNames'
  BY <1>1, <1>2 DEF OwnNames, GuardType
<1> QED
  BY <1>5, <1>7, <1>9, <1>11, <1>12 DEF Queued

LEMMA ThrowStep ==
  ASSUME GuardInv, NEW d \in Download, DownloadThrows(d) PROVE GuardInv'
<1> SUFFICES ASSUME told' PROVE GuardType' /\ Queued' /\ OwnNames'
  BY DEF GuardInv
<1>1. stage[d] \in {"asked", "named"} /\ pending' = forget(d)
      /\ stage' = [stage EXCEPT ![d] = "failed"] /\ UNCHANGED <<given, stops, told>>
  BY DEF DownloadThrows
<1>2. GuardType /\ Queued /\ OwnNames
  BY <1>1 DEF GuardInv
<1>3. stage' \in [Download -> Stages] /\ OwnNames'
  BY <1>1, <1>2 DEF GuardType, OwnNames, Stages
<1>4. CASE stage[d] = "asked"
  <2>1. PICK i \in 1..Len(pending) :
          pending[i] = d /\ SelectInSeq(pending, LAMBDA p : p = d) = i
    BY <1>2, <1>4, Stands
  <2>2. i # 0
    BY <1>2 DEF GuardType
  <2>3. pending' = RemoveAt(pending, i)
    BY <1>1, <2>1, <2>2 DEF forget, Without
  <2>4. pending' \in Seq(Download) /\ Queued'
    BY <1>1, <1>2, <1>4, <2>1, <2>3, LeavesQueue
  <2> QED
    BY <1>1, <1>2, <1>3, <2>4 DEF GuardType
<1>5. CASE stage[d] = "named"
  <2>1. ~Waits(d, pending)
    BY <1>2, <1>5 DEF Queued
  <2>2. {j \in 1..Len(pending) : pending[j] = d} = {}
    BY <2>1 DEF Waits
  <2>3. SelectInSeq(pending, LAMBDA p : p = d) = 0
    BY <2>2 DEF SelectInSeq
  <2>4. pending' = pending
    BY <1>1, <2>3 DEF forget, Without
  <2>5. \A o \in Download : stage'[o] = "asked" <=> stage[o] = "asked"
    BY <1>1, <1>2, <1>5 DEF GuardType
  <2>6. Rounds' = Rounds
    BY <2>5 DEF Rounds
  <2>7. Queued'
    BY <1>2, <2>4, <2>5, <2>6 DEF Queued
  <2> QED
    BY <1>1, <1>2, <1>3, <2>4, <2>7 DEF GuardType
<1> QED
  BY <1>1, <1>4, <1>5

\* The round finds the entry of its own download, by whatever Chrome says of the URL.
LEMMA Claims ==
  ASSUME GuardType, Queued, NEW d \in Download, stage[d] = "asked",
         NEW heard \in {"whole", "cut", "mangled"},
         heard = "cut" => \A o \in Rounds \ {d} : Prefix[o] # Prefix[d],
         heard = "mangled" => Rounds = {d}
  PROVE  \E i \in 1..Len(pending) : pending[i] = d /\ claim(d, heard) = i
<1>1. PICK i \in 1..Len(pending) :
        pending[i] = d /\ SelectInSeq(pending, LAMBDA p : p = d) = i
  BY Stands
<1>2. i \in Nat /\ i > 0 /\ Len(pending) \in Nat
  BY DEF GuardType
<1>3. CASE heard = "whole"
  BY <1>1, <1>2, <1>3 DEF claim
<1>4. CASE heard = "cut"
  <2>1. ASSUME NEW j \in 1..Len(pending), Prefix[pending[j]] = Prefix[d] PROVE j = i
    <3>1. pending[j] \in Download /\ Waits(pending[j], pending)
      BY DEF GuardType, Waits
    <3>2. pending[j] \in Rounds
      BY <3>1 DEF Queued, Rounds
    <3>3. pending[j] = d
      BY <1>4, <2>1, <3>2
    <3> QED
      BY <1>1, <3>3 DEF Queued, Once
  <2>2. {j \in 1..Len(pending) : Prefix[pending[j]] = Prefix[d]} = {i}
    BY <1>1, <2>1
  <2>3. SelectInSeq(pending, LAMBDA p : Prefix[p] = Prefix[d]) = i
    BY <1>2, <2>2, MinOfOne DEF SelectInSeq
  <2>4. claim(d, heard) = i
    BY <1>2, <1>4, <2>3 DEF claim
  <2> QED
    BY <1>1, <2>4
<1>5. CASE heard = "mangled"
  <2>1. Cardinality(Rounds) = 1
    BY <1>5, FS_Singleton
  <2>2. Len(pending) = 1 /\ i = 1
    BY <1>2, <2>1 DEF Queued
  <2>3. pending # <<>>
    BY <2>2
  <2>4. claim(d, heard) = 1
    BY <1>5, <2>3 DEF claim
  <2> QED
    BY <1>1, <2>2, <2>4
<1> QED
  BY <1>3, <1>4, <1>5

LEMMA RoundStep ==
  ASSUME GuardInv, NEW d \in Download, NEW heard \in {"whole", "cut", "mangled"},
         Determined(d, heard)
  PROVE  GuardInv'
<1> SUFFICES ASSUME told' PROVE GuardType' /\ Queued' /\ OwnNames'
  BY DEF GuardInv
<1>1. /\ stage[d] = "asked" /\ UNCHANGED stops /\ stage' = [stage EXCEPT ![d] = "named"]
      /\ told /\ (heard = "cut" => \A o \in Rounds \ {d} : Prefix[o] # Prefix[d])
      /\ (heard = "mangled" => Rounds = {d})
  BY DEF Determined
<1>2. GuardType /\ Queued /\ OwnNames
  BY <1>1 DEF GuardInv
<1>3. PICK i \in 1..Len(pending) : pending[i] = d /\ claim(d, heard) = i
  BY <1>1, <1>2, Claims
<1>4. i # 0
  BY <1>2 DEF GuardType
<1>5. given' = [given EXCEPT ![d] = d] /\ pending' = RemoveAt(pending, i)
  BY <1>3, <1>4 DEF Determined, Without
<1>6. pending' \in Seq(Download) /\ stage' \in [Download -> Stages] /\ Queued'
  BY <1>1, <1>2, <1>3, <1>5, LeavesQueue
<1>7. given' \in [Download -> Download \cup {NoName}] /\ OwnNames'
  BY <1>1, <1>2, <1>5 DEF GuardType, OwnNames
<1> QED
  BY <1>1, <1>2, <1>6, <1>7 DEF GuardType

LEMMA StopStep == ASSUME GuardInv, WorkerStops PROVE GuardInv'
<1> SUFFICES ASSUME told' PROVE GuardType' /\ Queued' /\ OwnNames'
  BY DEF GuardInv
<1>1. /\ stops' = stops + 1 /\ pending' = <<>> /\ told' = (told /\ Rounds = {})
      /\ UNCHANGED <<stage, given>>
  BY DEF WorkerStops
<1>2. told /\ Rounds = {} /\ GuardType /\ Queued /\ OwnNames
  BY <1>1 DEF GuardInv
<1>3. GuardType' /\ OwnNames'
  BY <1>1, <1>2 DEF GuardType, OwnNames
<1>4. Queued'
  BY <1>1, <1>2, FS_EmptySet DEF Queued, Once, Waits, Rounds
<1> QED
  BY <1>3, <1>4

\* A download gets the name registered for it, while the rounds can be told apart
\* (FilenameGuard.expect, forget, claim).
THEOREM OwnNameGiven == GuardSpec => []ItsOwnName
<1>1. GuardInit => GuardInv
  <2> SUFFICES ASSUME GuardInit PROVE GuardType /\ Queued /\ OwnNames
    BY DEF GuardInv
  <2>1. GuardType /\ OwnNames
    BY DEF GuardInit, GuardType, OwnNames, Stages
  <2>2. Rounds = {} /\ pending = <<>>
    BY DEF GuardInit, Rounds
  <2> QED
    BY <2>1, <2>2, FS_EmptySet DEF GuardInit, Queued, Once, Waits
<1>2. GuardInv /\ [GuardNext]_guardVars => GuardInv'
  <2> SUFFICES ASSUME GuardInv, [GuardNext]_guardVars PROVE GuardInv'
    OBVIOUS
  <2>1. CASE UNCHANGED guardVars
    BY <2>1 DEF guardVars, GuardInv, GuardType, Queued, OwnNames, Once, Waits, Rounds
  <2> QED
    BY <2>1, StartStepOfGuard, ThrowStep, RoundStep, StopStep DEF GuardNext
<1>3. GuardInv => ItsOwnName
  BY DEF GuardInv, OwnNames, ItsOwnName
<1> QED
  BY <1>1, <1>2, <1>3, PTL DEF GuardSpec
===============================================================================
