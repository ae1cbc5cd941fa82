------------------------- MODULE SessionStoreProofs -------------------------
(***************************************************************************)
(* The theorems about SessionStore, for any number of sessions, locks and  *)
(* faults.  The first half is about the encoding: no encoding is the       *)
(* beginning of another, so a file that was cut off in a write is never    *)
(* read as a table that was not written.                                   *)
(***************************************************************************)
EXTENDS SessionStore, SequenceTheorems, FiniteSetTheorems, TLAPS

USE StoreAssumption

-----------------------------------------------------------------------------
(* Flattening.                                                             *)

\* A set of numbers that is not empty has a least one.
LEMMA LeastNumber ==
  ASSUME NEW S, S \subseteq Nat, S # {}
  PROVE  \E m \in S : \A k \in S : m <= k
<1>1. PICK m \in S : \A k \in S : <<k, m>> \notin OpToRel(<, Nat)
  BY NatLessThanWellFounded, WFMin
<1>2. ASSUME NEW k \in S PROVE m <= k
  <2>1. k \in Nat /\ m \in Nat
    OBVIOUS
  <2>2. k < m => <<k, m>> \in OpToRel(<, Nat)
    BY <2>1 DEF OpToRel
  <2>3. ~(k < m)
    BY <1>1, <2>2
  <2> QED BY <2>1, <2>3
<1> QED BY <1>2

\* The sequence after each of the n sequences of s that are appended.
Stages(F, s, n, T) ==
  /\ F \in [0..n -> Seq(T)]
  /\ F[0] = << >>
  /\ \A i \in 1..n : F[i] = F[i - 1] \o s[i]

\* There are such stages.
LEMMA StagesExist ==
  ASSUME NEW T, NEW n \in Nat, NEW s \in [1..n -> Seq(T)]
  PROVE  \E F : Stages(F, s, n, T)
<1> DEFINE Bad == {k \in 0..n : ~\E F : Stages(F, s, k, T)}
<1>1. SUFFICES ASSUME Bad # {} PROVE FALSE
  <2>1. n \in 0..n
    OBVIOUS
  <2> QED BY <2>1
<1>2. PICK m \in Bad : \A k \in Bad : m <= k
  <2>1. Bad \subseteq Nat
    OBVIOUS
  <2> HIDE DEF Bad
  <2> QED BY <1>1, <2>1, LeastNumber
<1> m \in 0..n /\ ~\E F : Stages(F, s, m, T)
  OBVIOUS
<1>3. CASE m = 0
  <2>1. Stages([i \in 0..0 |-> << >>], s, 0, T)
    BY DEF Stages
  <2> QED BY <1>2, <1>3, <2>1
<1>4. CASE m # 0
  <2>1. m - 1 \in 0..n /\ m \in 1..n /\ m - 1 < m
    BY <1>4
  <2>2. PICK F : Stages(F, s, m - 1, T)
    <3>1. m - 1 \notin Bad
      <4> HIDE DEF Bad
      <4> QED BY <1>2, <2>1
    <3> QED BY <2>1, <3>1
  <2> DEFINE G == [i \in 0..m |-> IF i = m THEN F[m - 1] \o s[m] ELSE F[i]]
  <2>3. F[m - 1] \o s[m] \in Seq(T)
    BY <2>1, <2>2, ConcatProperties DEF Stages
  <2>4. G \in [0..m -> Seq(T)]
    BY <2>1, <2>2, <2>3 DEF Stages
  <2>5. G[0] = << >>
    BY <2>1, <2>2 DEF Stages
  <2>6. ASSUME NEW i \in 1..m PROVE G[i] = G[i - 1] \o s[i]
    <3>1. i - 1 \in 0..m /\ i - 1 # m /\ i \in 0..m
      OBVIOUS
    <3>2. G[i - 1] = F[i - 1] /\ G[i] = IF i = m THEN F[m - 1] \o s[m] ELSE F[i]
      BY <3>1
    <3>3. i # m => F[i] = F[i - 1] \o s[i]
      <4>1. i # m => i \in 1..(m - 1)
        OBVIOUS
      <4> QED BY <2>2, <4>1 DEF Stages
    <3> QED BY <3>2, <3>3
  <2>7. Stages(G, s, m, T)
    BY <2>4, <2>5, <2>6 DEF Stages
  <2> QED BY <1>2, <2>7
<1> QED BY <1>3, <1>4

\* FlattenSeq returns the last of them.
LEMMA FlattenIsLastStage ==
  ASSUME NEW T, NEW n \in Nat, NEW s \in [1..n -> Seq(T)], NEW F, Stages(F, s, n, T)
  PROVE  FlattenSeq(s) = F[n]
<1>1. s \in Seq(Seq(T)) /\ Len(s) = n
  OBVIOUS
<1>2. CASE n = 0
  BY <1>1, <1>2, EmptySeq DEF FlattenSeq, Stages
<1>3. CASE n # 0
  <2> DEFINE Is(h) == h = [i \in 1..n |-> IF i = 1 THEN s[i] ELSE h[i - 1] \o s[i]]
             G == [i \in 1..n |-> F[i]]
             H == CHOOSE h : Is(h)
  <2>1. F[1] = s[1]
    <3>1. 1 \in 1..n /\ s[1] \in Seq(T)
      BY <1>3
    <3>2. F[1] = F[1 - 1] \o s[1] /\ F[0] = << >>
      BY <3>1, Zenon DEF Stages
    <3>3. F[1 - 1] = << >>
      BY <3>2
    <3> QED BY <3>1, <3>2, <3>3, ConcatEmptySeq
  <2>2. ASSUME NEW i \in 1..n
        PROVE  G[i] = IF i = 1 THEN s[i] ELSE G[i - 1] \o s[i]
    <3>1. F[i] = F[i - 1] \o s[i]
      BY DEF Stages
    <3>2. i # 1 => i - 1 \in 1..n
      OBVIOUS
    <3> QED BY <2>1, <3>1, <3>2
  <2>3. Is(G)
    BY <2>2
  <2>4. Is(H)
    BY <2>3
  <2>5. FlattenSeq(s) = H[n]
    BY <1>1, <1>3 DEF FlattenSeq
  <2>6. \A i \in 1..n : H[i] = IF i = 1 THEN s[i] ELSE H[i - 1] \o s[i]
    BY <2>4
  <2> HIDE DEF H, G
  <2> DEFINE Bad == {k \in 1..n : H[k] # G[k]}
  <2>7. Bad = {}
    <3>1. SUFFICES ASSUME Bad # {} PROVE FALSE
      OBVIOUS
    <3>2. PICK m \in Bad : \A k \in Bad : m <= k
      <4>1. Bad \subseteq Nat
        OBVIOUS
      <4> HIDE DEF Bad
      <4> QED BY <3>1, <4>1, LeastNumber
    <3>3. m # 1 => m - 1 \in 1..n /\ m - 1 \notin Bad
      BY <3>2
    <3> QED BY <2>2, <2>6, <3>2, <3>3
  <2>8. H[n] = G[n]
    BY <1>3, <2>7
  <2> QED BY <1>3, <2>5, <2>8 DEF G
<1> QED BY <1>2, <1>3

\* y begins with x.
Extends(y, x) == Len(x) <= Len(y) /\ \A k \in 1..Len(x) : y[k] = x[k]

\* Appending keeps what was there before.
LEMMA ExtendsMore ==
  ASSUME NEW T, NEW x \in Seq(T), NEW y \in Seq(T), NEW z \in Seq(T), Extends(y, x)
  PROVE  Extends(y \o z, x)
<1>1. /\ Len(x) \in Nat /\ Len(y) \in Nat /\ Len(z) \in Nat
      /\ Len(y \o z) = Len(y) + Len(z)
      /\ \A k \in 1..Len(y) : (y \o z)[k] = y[k]
  OBVIOUS
<1> QED BY <1>1 DEF Extends

\* No stage loses what an earlier one has.
LEMMA StagesGrow ==
  ASSUME NEW T, NEW n \in Nat, NEW s \in [1..n -> Seq(T)], NEW F, Stages(F, s, n, T),
         NEW i \in 0..n
  PROVE  Extends(F[n], F[i])
<1> DEFINE Bad == {k \in i..n : ~Extends(F[k], F[i])}
<1>1. SUFFICES ASSUME Bad # {} PROVE FALSE
  <2>1. n \in i..n
    OBVIOUS
  <2> QED BY <2>1
<1>2. PICK m \in Bad : \A k \in Bad : m <= k
  <2>1. Bad \subseteq Nat
    OBVIOUS
  <2> HIDE DEF Bad
  <2> QED BY <1>1, <2>1, LeastNumber
<1>3. m \in i..n /\ ~Extends(F[m], F[i])
  OBVIOUS
<1>4. m # i
  <2>1. F[i] \in Seq(T)
    BY DEF Stages
  <2>2. Extends(F[i], F[i])
    BY <2>1 DEF Extends
  <2> QED BY <1>3, <2>2
<1>5. m - 1 \in i..n /\ m \in 1..n /\ m - 1 < m /\ m - 1 \in 0..n
  BY <1>3, <1>4
<1>6. Extends(F[m - 1], F[i])
  <2>1. m - 1 \notin Bad
    <3> HIDE DEF Bad
    <3> QED BY <1>2, <1>5
  <2> QED BY <1>5, <2>1
<1>7. F[m] = F[m - 1] \o s[m] /\ F[m - 1] \in Seq(T) /\ s[m] \in Seq(T) /\ F[i] \in Seq(T)
  BY <1>5 DEF Stages
<1>8. Extends(F[m], F[i])
  BY <1>6, <1>7, ExtendsMore
<1> QED BY <1>3, <1>8

-----------------------------------------------------------------------------
(* Codes.                                                                  *)

\* x and y agree as far as both go.
Compatible(x, y) == \A k \in 1..Len(x) : k \in 1..Len(y) => x[k] = y[k]

PrefixFree(P) == \A x, y \in P : Compatible(x, y) => x = y

\* The beginnings of two sequences that agree agree.
LEMMA CompatibleParts ==
  ASSUME NEW x, NEW y, NEW v, NEW w, Compatible(v, w), Extends(v, x), Extends(w, y),
         Len(x) \in Nat, Len(y) \in Nat, Len(v) \in Nat, Len(w) \in Nat
  PROVE  Compatible(x, y)
<1>1. ASSUME NEW k \in 1..Len(x), k \in 1..Len(y) PROVE x[k] = y[k]
  <2>1. k \in 1..Len(v) /\ k \in 1..Len(w)
    BY <1>1 DEF Extends
  <2> QED BY <1>1, <2>1 DEF Extends, Compatible
<1> QED BY <1>1 DEF Compatible

\* What is appended to two equal sequences agrees if the results do.
LEMMA SameRest ==
  ASSUME NEW T, NEW p \in Seq(T), NEW x \in Seq(T), NEW y \in Seq(T),
         Compatible(p \o x, p \o y)
  PROVE  Compatible(x, y)
<1>1. /\ Len(p) \in Nat /\ Len(x) \in Nat /\ Len(y) \in Nat
      /\ Len(p \o x) = Len(p) + Len(x) /\ Len(p \o y) = Len(p) + Len(y)
      /\ \A k \in 1..Len(x) : (p \o x)[Len(p) + k] = x[k]
      /\ \A k \in 1..Len(y) : (p \o y)[Len(p) + k] = y[k]
  OBVIOUS
<1>2. ASSUME NEW k \in 1..Len(x), k \in 1..Len(y) PROVE x[k] = y[k]
  <2>1. Len(p) + k \in 1..Len(p \o x) /\ Len(p) + k \in 1..Len(p \o y)
    BY <1>1, <1>2
  <2>2. (p \o x)[Len(p) + k] = (p \o y)[Len(p) + k]
    BY <2>1 DEF Compatible
  <2> QED BY <1>1, <1>2, <2>2
<1> QED BY <1>2 DEF Compatible

\* Of two rows of code words of one length neither is, flattened, the
\* beginning of the other.
LEMMA RowsOfCodeWords ==
  ASSUME NEW T, NEW P, P \subseteq Seq(T), PrefixFree(P), NEW n \in Nat,
         NEW a \in [1..n -> P], NEW b \in [1..n -> P],
         Compatible(FlattenSeq(a), FlattenSeq(b))
  PROVE  a = b
<1>1. a \in [1..n -> Seq(T)] /\ b \in [1..n -> Seq(T)]
  OBVIOUS
<1>2. PICK F : Stages(F, a, n, T)
  BY <1>1, StagesExist
<1>3. PICK G : Stages(G, b, n, T)
  BY <1>1, StagesExist
<1>4. Compatible(F[n], G[n])
  BY <1>1, <1>2, <1>3, FlattenIsLastStage
<1> DEFINE Bad == {k \in 0..n : F[k] # G[k] \/ (k # 0 /\ a[k] # b[k])}
<1>5. Bad = {}
  <2>1. SUFFICES ASSUME Bad # {} PROVE FALSE
    OBVIOUS
  <2>2. PICK m \in Bad : \A k \in Bad : m <= k
    <3>1. Bad \subseteq Nat
      OBVIOUS
    <3> HIDE DEF Bad
    <3> QED BY <2>1, <3>1, LeastNumber
  <2>3. m \in 0..n /\ (F[m] # G[m] \/ (m # 0 /\ a[m] # b[m]))
    OBVIOUS
  <2>4. m # 0
    BY <1>2, <1>3, <2>3 DEF Stages
  <2>5. m \in 1..n /\ m - 1 \in 0..n /\ m - 1 < m
    BY <2>3, <2>4
  <2>6. F[m - 1] = G[m - 1]
    <3>1. m - 1 \notin Bad
      <4> HIDE DEF Bad
      <4> QED BY <2>2, <2>5
    <3> QED BY <2>5, <3>1
  <2>7. /\ F[m] = F[m - 1] \o a[m] /\ F[m - 1] \in Seq(T) /\ a[m] \in Seq(T)
        /\ G[m] = F[m - 1] \o b[m] /\ b[m] \in Seq(T) /\ F[m] \in Seq(T) /\ G[m] \in Seq(T)
        /\ a[m] \in P /\ b[m] \in P
    BY <1>1, <1>2, <1>3, <2>5, <2>6 DEF Stages
  <2>8. Compatible(F[m], G[m])
    <3>1. Extends(F[n], F[m]) /\ Extends(G[n], G[m])
      BY <1>1, <1>2, <1>3, <2>3, StagesGrow
    <3>2. F[n] \in Seq(T) /\ G[n] \in Seq(T)
      BY <1>2, <1>3 DEF Stages
    <3>3. Len(F[n]) \in Nat /\ Len(G[n]) \in Nat /\ Len(F[m]) \in Nat /\ Len(G[m]) \in Nat
      BY <2>7, <3>2, LenProperties
    <3> QED BY <1>4, <3>1, <3>3, CompatibleParts
  <2>9. Compatible(a[m], b[m])
    BY <2>7, <2>8, SameRest
  <2>10. a[m] = b[m]
    BY <2>7, <2>9 DEF PrefixFree
  <2>11. F[m] = G[m]
    BY <2>7, <2>10
  <2> QED BY <2>3, <2>10, <2>11
<1>6. \A k \in 1..n : a[k] = b[k]
  <2>1. \A k \in 1..n : k \in 0..n /\ k # 0
    OBVIOUS
  <2> QED BY <1>5, <2>1
<1> QED BY <1>6

-----------------------------------------------------------------------------
(* The encoding.                                                           *)

Token == Nat \cup Sessions \cup Locks

\* The entries of all sessions with all sets of locks.
Entries == UNION {EntryTokens(s, L) : s \in Sessions, L \in SUBSET Locks}

\* SetToSeqs lists every element.
LEMMA Listing ==
  ASSUME NEW S, IsFiniteSet(S), NEW q \in SetToSeqs(S)
  PROVE  /\ Cardinality(S) \in Nat
         /\ q \in Seq(S) /\ q \in [1..Cardinality(S) -> S] /\ Len(q) = Cardinality(S)
         /\ S = {q[i] : i \in 1..Cardinality(S)}
<1>1. Cardinality(S) \in Nat
  BY FS_CardinalityType
<1>2. q \in [1..Cardinality(S) -> S]
  BY DEF SetToSeqs
<1>3. \A i, j \in 1..Cardinality(S) : i # j => q[i] # q[j]
  BY DEF SetToSeqs
<1>4. q \in Injection(1..Cardinality(S), S)
  BY <1>2, <1>3 DEF Injection, IsInjective
<1>5. IsFiniteSet(1..Cardinality(S)) /\ Cardinality(1..Cardinality(S)) = Cardinality(S)
  BY <1>1, FS_Interval
<1>6. q \in Surjection(1..Cardinality(S), S)
  BY <1>4, <1>5, FS_Injection
<1>7. \A x \in S : \E i \in 1..Cardinality(S) : q[i] = x
  BY <1>6 DEF Surjection
<1>8. q \in Seq(S) /\ Len(q) = Cardinality(S)
  BY <1>1, <1>2
<1> QED BY <1>1, <1>2, <1>7, <1>8

\* An entry names the session, counts its locks and lists them.
LEMMA EntryShape ==
  ASSUME NEW s \in Sessions, NEW L \in SUBSET Locks, NEW x \in EntryTokens(s, L)
  PROVE  /\ x \in Seq(Token)
         /\ Cardinality(L) \in Nat /\ Len(x) = Cardinality(L) + 2
         /\ x[1] = s /\ x[2] = Cardinality(L)
         /\ L = {x[k] : k \in 3..Len(x)}
<1>1. IsFiniteSet(L)
  BY FS_Subset
<1>2. PICK q \in SetToSeqs(L) : x = <<s, Cardinality(L)>> \o q
  BY DEF EntryTokens
<1> DEFINE n == Cardinality(L)
<1>3. n \in Nat /\ q \in Seq(L) /\ Len(q) = n /\ L = {q[i] : i \in 1..n}
  BY <1>1, Listing
<1>4. q \in Seq(Token) /\ <<s, n>> \in Seq(Token)
  BY <1>3 DEF Token
<1> HIDE DEF n
<1>5. /\ x \in Seq(Token) /\ Len(x) = n + 2 /\ x[1] = s /\ x[2] = n
      /\ \A i \in 1..n : x[i + 2] = q[i]
  <2>1. x = <<s, n>> \o q
    BY <1>2 DEF n
  <2> QED BY <1>3, <1>4, <2>1
<1>6. L = {x[k] : k \in 3..Len(x)}
  <2>1. \A i \in 1..n : i + 2 \in 3..Len(x) /\ x[i + 2] = q[i]
    BY <1>3, <1>5
  <2>2. \A k \in 3..Len(x) : k - 2 \in 1..n /\ x[k] = q[k - 2]
    <3>1. \A k \in 3..Len(x) : k - 2 \in 1..n /\ (k - 2) + 2 = k
      BY <1>3, <1>5
    <3> QED BY <1>5, <3>1
  <2>3. ASSUME NEW l \in L PROVE \E k \in 3..Len(x) : x[k] = l
    BY <1>3, <2>1
  <2>4. ASSUME NEW k \in 3..Len(x) PROVE x[k] \in L
    BY <1>3, <2>2
  <2> QED BY <2>3, <2>4
<1> QED BY <1>3, <1>5, <1>6 DEF n

\* No entry is the beginning of another: its second token is its length.
LEMMA EntriesAreCode == Entries \subseteq Seq(Token) /\ PrefixFree(Entries)
<1>1. Entries \subseteq Seq(Token)
  BY EntryShape DEF Entries
<1>2. ASSUME NEW x \in Entries, NEW y \in Entries, Compatible(x, y)
      PROVE  x = y
  <2>1. /\ x \in Seq(Token) /\ x[2] \in Nat /\ Len(x) = x[2] + 2
        /\ y \in Seq(Token) /\ y[2] \in Nat /\ Len(y) = y[2] + 2
    BY EntryShape DEF Entries
  <2>2. x[2] = y[2]
    <3>1. 2 \in 1..Len(x) /\ 2 \in 1..Len(y)
      BY <2>1
    <3> QED BY <1>2, <3>1 DEF Compatible
  <2>3. Len(x) = Len(y)
    BY <2>1, <2>2
  <2>4. \A k \in 1..Len(x) : x[k] = y[k]
    BY <1>2, <2>3 DEF Compatible
  <2> QED BY <2>1, <2>3, <2>4, SeqEqual
<1> QED BY <1>1, <1>2 DEF PrefixFree

\* e is the encoding with the entries a.
IsCoded(f, e, n, a) ==
  /\ n \in Nat /\ a \in [1..n -> Entries]
  /\ e = <<n>> \o FlattenSeq(a)
  /\ DOMAIN f = {a[i][1] : i \in 1..n}
  /\ \A i \in 1..n : f[a[i][1]] = {a[i][k] : k \in 3..Len(a[i])}

\* An encoding counts the sessions and has one entry for each.
LEMMA EncodingShape ==
  ASSUME NEW f \in Tables, NEW e \in Encodings[f]
  PROVE  \E n, a : IsCoded(f, e, n, a)
<1>1. PICK D \in SUBSET Sessions : f \in [D -> SUBSET Locks]
  BY DEF Tables
<1>2. DOMAIN f = D /\ IsFiniteSet(D)
  BY <1>1, FS_Subset
<1> DEFINE n == Cardinality(D)
<1>3. PICK q \in SetToSeqs(D), t \in EntryChoices(f) : e = MarshalMap(f, q, t)
  BY <1>2 DEF Encodings, marshalLocks
<1>4. n \in Nat /\ q \in [1..n -> D] /\ Len(q) = n /\ D = {q[i] : i \in 1..n}
  BY <1>2, Listing
<1> DEFINE a == [i \in 1..n |-> t[q[i]]]
<1>5. e = <<n>> \o FlattenSeq(a)
  BY <1>2, <1>3, <1>4 DEF MarshalMap
<1> HIDE DEF n
<1>6. ASSUME NEW i \in 1..n
      PROVE  /\ a[i] \in Entries /\ a[i][1] = q[i]
             /\ f[q[i]] = {a[i][k] : k \in 3..Len(a[i])}
  <2>1. q[i] \in D /\ q[i] \in Sessions /\ f[q[i]] \in SUBSET Locks
    BY <1>1, <1>4
  <2>2. a[i] \in EntryTokens(q[i], f[q[i]])
    BY <1>2, <2>1 DEF EntryChoices
  <2> HIDE DEF a
  <2> DEFINE x == a[i]
             L == f[q[i]]
  <2>3. x \in EntryTokens(q[i], L) /\ q[i] \in Sessions /\ L \in SUBSET Locks
    BY <2>1, <2>2
  <2> HIDE DEF x, L
  <2>4. x[1] = q[i] /\ L = {x[k] : k \in 3..Len(x)}
    BY <2>3, EntryShape
  <2>5. x \in Entries
    BY <2>3 DEF Entries
  <2> QED BY <2>4, <2>5 DEF x, L
<1>7. a \in [1..n -> Entries]
  BY <1>6
<1> HIDE DEF a
<1>8. /\ D = {a[i][1] : i \in 1..n}
      /\ \A i \in 1..n : f[a[i][1]] = {a[i][k] : k \in 3..Len(a[i])}
  <2>1. \A i \in 1..n : a[i][1] = q[i]
    BY <1>6
  <2>2. {a[i][1] : i \in 1..n} = {q[i] : i \in 1..n}
    BY <2>1
  <2> QED BY <1>4, <1>6, <2>1, <2>2
<1>9. IsCoded(f, e, n, a)
  BY <1>2, <1>4, <1>5, <1>7, <1>8 DEF IsCoded
<1> QED BY <1>9

\* It is a sequence of tokens that begins with that number.
LEMMA CodedIsSeq ==
  ASSUME NEW f, NEW e, NEW n, NEW a, IsCoded(f, e, n, a)
  PROVE  /\ FlattenSeq(a) \in Seq(Token)
         /\ e \in Seq(Token) /\ Len(e) = 1 + Len(FlattenSeq(a)) /\ e[1] = n
         /\ 1 \in 1..Len(e)
<1>1. n \in Nat /\ a \in [1..n -> Seq(Token)] /\ e = <<n>> \o FlattenSeq(a)
  BY EntriesAreCode DEF IsCoded
<1>2. PICK F : Stages(F, a, n, Token)
  BY <1>1, StagesExist
<1>3. FlattenSeq(a) = F[n] /\ F[n] \in Seq(Token)
  <2>1. FlattenSeq(a) = F[n]
    BY <1>1, <1>2, FlattenIsLastStage
  <2>2. n \in 0..n
    BY <1>1
  <2> QED BY <1>2, <2>1, <2>2 DEF Stages
<1> DEFINE p == <<n>>
           r == FlattenSeq(a)
<1>4. p \in Seq(Token) /\ Len(p) = 1 /\ p[1] = n
  BY <1>1 DEF Token
<1>5. r \in Seq(Token) /\ e = p \o r
  BY <1>1, <1>3
<1> HIDE DEF p, r
<1>6. e \in Seq(Token) /\ Len(e) = 1 + Len(r) /\ e[1] = n /\ Len(r) \in Nat
  <2>1. Len(r) \in Nat
    BY <1>5
  <2>2. /\ p \o r \in Seq(Token) /\ Len(p \o r) = Len(p) + Len(r)
        /\ \A i \in 1..(Len(p) + Len(r)) : i <= Len(p) => (p \o r)[i] = p[i]
    BY <1>4, <1>5, ConcatProperties
  <2>3. 1 \in 1..(Len(p) + Len(r)) /\ 1 <= Len(p)
    BY <1>4, <2>1
  <2> QED BY <1>4, <1>5, <2>1, <2>2, <2>3
<1> QED BY <1>5, <1>6 DEF r

\* An encoding of one table is neither one of another table nor the beginning
\* of any other encoding.
LEMMA Decoding ==
  ASSUME NEW f \in Tables, NEW e \in Encodings[f],
         NEW g \in Tables, NEW d \in Encodings[g], Compatible(e, d)
  PROVE  f = g /\ e = d
<1>1. PICK n, a : IsCoded(f, e, n, a)
  BY EncodingShape
<1>2. PICK m, b : IsCoded(g, d, m, b)
  BY EncodingShape
<1>3. n = m
  <2>1. 1 \in 1..Len(e) /\ 1 \in 1..Len(d) /\ e[1] = n /\ d[1] = m
    BY <1>1, <1>2, CodedIsSeq
  <2> QED BY <2>1 DEF Compatible
<1>4. n \in Nat /\ a \in [1..n -> Entries] /\ b \in [1..n -> Entries]
  BY <1>1, <1>2, <1>3 DEF IsCoded
<1>5. Compatible(FlattenSeq(a), FlattenSeq(b))
  <2>1. FlattenSeq(a) \in Seq(Token) /\ FlattenSeq(b) \in Seq(Token)
    BY <1>1, <1>2, CodedIsSeq
  <2>2. <<n>> \in Seq(Token)
    BY <1>4 DEF Token
  <2>3. e = <<n>> \o FlattenSeq(a) /\ d = <<n>> \o FlattenSeq(b)
    BY <1>1, <1>2, <1>3 DEF IsCoded
  <2> QED BY <2>1, <2>2, <2>3, SameRest
<1>6. a = b
  BY <1>4, <1>5, EntriesAreCode, RowsOfCodeWords
<1>7. e = d
  BY <1>1, <1>2, <1>3, <1>6 DEF IsCoded
<1>8. DOMAIN f = DOMAIN g
  BY <1>1, <1>2, <1>3, <1>6 DEF IsCoded
<1>9. ASSUME NEW s \in DOMAIN f PROVE f[s] = g[s]
  <2>1. PICK i \in 1..n : s = a[i][1]
    BY <1>1 DEF IsCoded
  <2>2. f[s] = {a[i][k] : k \in 3..Len(a[i])}
    BY <1>1, <2>1 DEF IsCoded
  <2>3. g[s] = {a[i][k] : k \in 3..Len(a[i])}
    BY <1>2, <1>3, <1>6, <2>1 DEF IsCoded
  <2> QED BY <2>2, <2>3
<1>10. f = [s \in DOMAIN f |-> f[s]] /\ g = [s \in DOMAIN g |-> g[s]]
  BY DEF Tables
<1> QED BY <1>7, <1>8, <1>9, <1>10

-----------------------------------------------------------------------------
(* Reading.                                                                *)

\* What is written is read back.
LEMMA ReadBack ==
  ASSUME NEW f \in Tables, NEW e \in Encodings[f]
  PROVE  Readable(e) /\ TableIn(e) = f
<1>1. PICK n, a : IsCoded(f, e, n, a)
  BY EncodingShape
<1>2. e # << >> /\ e \in Seq(Token)
  BY <1>1, CodedIsSeq
<1>3. \A g \in Tables : e \in Encodings[g] => g = f
  <2>1. Compatible(e, e)
    BY DEF Compatible
  <2> QED BY <2>1, Decoding
<1>4. (CHOOSE g \in Tables : e \in Encodings[g]) = f
  BY <1>3
<1> QED BY <1>2, <1>4 DEF Readable, TableIn

\* A file that was cut off is empty, or not readable.
LEMMA CutOff ==
  ASSUME NEW f \in Tables, NEW e \in Encodings[f], NEW k \in 0..Len(e),
         Readable(SubSeq(e, 1, k)), k # Len(e)
  PROVE  SubSeq(e, 1, k) = << >>
<1> DEFINE c == SubSeq(e, 1, k)
<1>1. SUFFICES ASSUME c # << >> PROVE FALSE
  OBVIOUS
<1>2. PICK g \in Tables : c \in Encodings[g]
  BY <1>1 DEF Readable
<1>3. e \in Seq(Token)
  BY EncodingShape, CodedIsSeq
<1>4. Len(c) = k /\ \A i \in 1..k : c[i] = e[i]
  BY <1>3
<1>5. Compatible(c, e)
  BY <1>4 DEF Compatible
<1>6. c = e
  <2> HIDE DEF c
  <2> QED BY <1>2, <1>5, Decoding
<1> QED BY <1>4, <1>6

\* The table without sessions is encoded by the number 0.
LEMMA EmptyEncoding ==
  /\ SM!EmptyTable \in Tables
  /\ Encodings[SM!EmptyTable] = {<<0>>}
<1> DEFINE f == SM!EmptyTable
<1>1. f \in Tables
  <2>1. f \in [{} -> SUBSET Locks] /\ {} \in SUBSET Sessions
    BY DEF SM!EmptyTable
  <2> QED BY <2>1 DEF Tables
<1>2. DOMAIN f = {} /\ Cardinality(DOMAIN f) = 0
  BY FS_EmptySet DEF SM!EmptyTable
<1>3. ASSUME NEW q \in SetToSeqs({}), NEW t \in EntryChoices(f)
      PROVE  MarshalMap(f, q, t) = <<0>>
  <2>1. Len(q) = 0
    BY FS_EmptySet, Listing
  <2>2. [i \in 1..Len(q) |-> t[q[i]]] = << >>
    BY <2>1
  <2>3. FlattenSeq(<< >>) = << >>
    BY DEF FlattenSeq
  <2>4. MarshalMap(f, q, t) = <<0>> \o << >>
    BY <1>2, <2>2, <2>3 DEF MarshalMap
  <2> QED BY <2>4
<1>4. << >> \in SetToSeqs({})
  BY FS_EmptySet DEF SetToSeqs
<1>5. \E t : t \in EntryChoices(f)
  <2>1. [s \in {} |-> << >>] \in EntryChoices(f)
    BY <1>2 DEF EntryChoices
  <2> QED BY <2>1
<1>6. marshalLocks(f) = {<<0>>}
  <2> HIDE DEF f
  <2>1. marshalLocks(f) = {MarshalMap(f, q, t) : q \in SetToSeqs({}), t \in EntryChoices(f)}
    BY <1>2 DEF marshalLocks
  <2> QED BY <1>3, <1>4, <1>5, <2>1
<1> QED BY <1>1, <1>6 DEF Encodings

-----------------------------------------------------------------------------
(* The inductive invariant.                                                *)

Saving == pc \in {"truncate", "write", "sync"}

\* A file that may be found is an encoding of a durable table, or the
\* beginning of one while "no locks" is to be reckoned with.
Cut(c) == \E f \in durable : \E e \in Encodings[f] : \E k \in 0..Len(e) :
            c = SubSeq(e, 1, k) /\ (k # Len(e) => SM!EmptyTable \in durable)

DiskInv ==
  /\ durable \subseteq Tables
  /\ content \in onDisk
  /\ \A c \in onDisk : Cut(c)

\* How far Write has got.
WriteInv ==
  /\ Saving => target \in durable /\ SM!EmptyTable \in durable
  /\ pc \in {"truncate", "write"} => data \in Encodings[target]
  /\ pc = "write" => pos \in 0..Len(data) /\ content = SubSeq(data, 1, pos)
  /\ pc # "write" => pos = 0
  /\ pc = "sync" => content \in Encodings[target]

\* What was handed to Write last has the locks that are in memory.
TableInv ==
  /\ sessionLocks \in Tables /\ target \in Tables
  /\ Running => Records(target) = Records(sessionLocks)

ModeInv ==
  /\ pc \in {"idle", "truncate", "write", "sync", "down", "unreadable"}
  /\ faults \in 0..MaxFaults

IndInv == DiskInv /\ WriteInv /\ TableInv /\ ModeInv

\* Tables is what SessionManager calls a table.
LEMMA TablesAreTables == \A f : f \in Tables <=> SM!IsTable(f)
<1>1. ASSUME NEW f, f \in Tables PROVE SM!IsTable(f)
  <2>1. PICK D \in SUBSET Sessions : f \in [D -> SUBSET Locks]
    BY <1>1 DEF Tables
  <2> QED BY <2>1 DEF SM!IsTable
<1>2. ASSUME NEW f, SM!IsTable(f) PROVE f \in Tables
  BY <1>2 DEF SM!IsTable, Tables
<1> QED BY <1>1, <1>2

\* An operation on the table makes an entry without a write, or writes it all.
EntryMade ==
  /\ Records(sessionLocks') = Records(sessionLocks)
  /\ UNCHANGED <<target, pc, data, pos, content, onDisk, durable, faults>>

SaveBegun == target' = sessionLocks' /\ BeginWrite

\* So the four operations are of two kinds, and the new table is a table.
LEMMA TableStepKinds ==
  ASSUME TableInv, TableStep
  PROVE  pc = "idle" /\ sessionLocks' \in Tables /\ (EntryMade \/ SaveBegun)
<1>0. SM!IsTable(sessionLocks)
  BY TablesAreTables DEF TableInv
<1>1. ASSUME NEW s \in Sessions, CreateSession(s)
      PROVE  pc = "idle" /\ sessionLocks' \in Tables /\ EntryMade
  <2>1. /\ pc = "idle" /\ sessionLocks' = SM!WithEntry(s, SM!LocksOf(s))
        /\ UNCHANGED <<target, pc, data, pos, content, onDisk, durable, faults>>
    BY <1>1 DEF CreateSession, SM!CreateSession
  <2>2. SM!IsTable(sessionLocks')
    BY <1>0, <2>1 DEF SM!IsTable, SM!WithEntry, SM!LocksOf, SM!HasEntry
  <2>3. Records(sessionLocks') = Records(sessionLocks)
    <3>1. \A x \in DOMAIN sessionLocks :
            x \in DOMAIN sessionLocks' /\ sessionLocks'[x] = sessionLocks[x]
      BY <1>0, <2>1 DEF SM!IsTable, SM!WithEntry, SM!LocksOf, SM!HasEntry
    <3>2. \A x \in DOMAIN sessionLocks' : x \in DOMAIN sessionLocks \/ sessionLocks'[x] = {}
      BY <1>0, <2>1 DEF SM!IsTable, SM!WithEntry, SM!LocksOf, SM!HasEntry
    <3> QED BY <3>1, <3>2 DEF Records
  <2> QED BY <2>1, <2>2, <2>3, TablesAreTables DEF EntryMade
<1>2. ASSUME NEW s \in Sessions, DestroySession(s)
      PROVE  pc = "idle" /\ sessionLocks' \in Tables /\ SaveBegun
  <2>1. /\ pc = "idle" /\ sessionLocks' = SM!WithoutEntry(s)
        /\ target' = sessionLocks' /\ BeginWrite
    BY <1>2 DEF DestroySession, SM!DestroySession, SM!Save
  <2>2. SM!IsTable(sessionLocks')
    BY <1>0, <2>1 DEF SM!IsTable, SM!WithoutEntry
  <2> QED BY <2>1, <2>2, TablesAreTables DEF SaveBegun
<1>3. ASSUME NEW s \in Sessions, NEW l \in Locks, AddLock(s, l)
      PROVE  pc = "idle" /\ sessionLocks' \in Tables /\ SaveBegun
  <2>1. /\ pc = "idle" /\ sessionLocks' = SM!WithEntry(s, SM!LocksOf(s) \cup {l})
        /\ target' = sessionLocks' /\ BeginWrite
    BY <1>3 DEF AddLock, SM!AddLock, SM!Save
  <2>2. SM!IsTable(sessionLocks')
    BY <1>0, <2>1 DEF SM!IsTable, SM!WithEntry, SM!LocksOf, SM!HasEntry
  <2> QED BY <2>1, <2>2, TablesAreTables DEF SaveBegun
<1>4. ASSUME NEW s \in Sessions, NEW l \in Locks, RemoveLock(s, l)
      PROVE  pc = "idle" /\ sessionLocks' \in Tables /\ SaveBegun
  <2>1. /\ pc = "idle" /\ sessionLocks' = SM!WithEntry(s, SM!LocksOf(s) \ {l})
        /\ target' = sessionLocks' /\ BeginWrite
    BY <1>4 DEF RemoveLock, SM!RemoveLock, SM!Save
  <2>2. SM!IsTable(sessionLocks')
    BY <1>0, <2>1 DEF SM!IsTable, SM!WithEntry, SM!LocksOf, SM!HasEntry
  <2> QED BY <2>1, <2>2, TablesAreTables DEF SaveBegun
<1> QED BY <1>1, <1>2, <1>3, <1>4 DEF TableStep

\* A file is Cut still if durable tables are added and none is taken.
LEMMA CutStays ==
  ASSUME durable \subseteq durable', NEW c, Cut(c)
  PROVE  Cut(c)'
BY DEF Cut

\* An encoding of a durable table, or a part of it, may be found.
LEMMA CutOf ==
  ASSUME NEW f \in durable, NEW e \in Encodings[f], NEW k \in 0..Len(e),
         SM!EmptyTable \in durable
  PROVE  Cut(SubSeq(e, 1, k))
BY DEF Cut

\* Encodings are sequences.
LEMMA EncodingIsSeq ==
  ASSUME NEW f \in Tables, NEW e \in Encodings[f]
  PROVE  e \in Seq(Token) /\ Len(e) \in Nat /\ SubSeq(e, 1, Len(e)) = e /\ SubSeq(e, 1, 0) = << >>
<1>1. e \in Seq(Token)
  BY EncodingShape, CodedIsSeq
<1> QED BY <1>1

-----------------------------------------------------------------------------
(* The steps.                                                              *)

\* The beginning of a save: the new table, and none, are to be reckoned with.
LEMMA SaveBegunStep ==
  ASSUME IndInv, pc = "idle", sessionLocks' \in Tables, SaveBegun
  PROVE  IndInv'
<1>1. /\ pc' = "truncate" /\ target' = sessionLocks' /\ data' \in Encodings[target']
      /\ durable' = durable \cup {target', SM!EmptyTable}
      /\ UNCHANGED <<pos, content, onDisk, faults>>
  BY DEF SaveBegun, BeginWrite
<1>2. DiskInv'
  <2>1. \A c \in onDisk : Cut(c)'
    BY <1>1, CutStays DEF IndInv, DiskInv
  <2>2. durable' \subseteq Tables
    BY <1>1, EmptyEncoding DEF IndInv, DiskInv
  <2> QED BY <1>1, <2>1, <2>2 DEF IndInv, DiskInv
<1>3. WriteInv'
  BY <1>1 DEF IndInv, WriteInv, Saving
<1>4. TableInv'
  BY <1>1 DEF TableInv
<1>5. ModeInv'
  BY <1>1 DEF IndInv, ModeInv
<1> QED BY <1>2, <1>3, <1>4, <1>5 DEF IndInv

\* An entry without locks changes no record.
LEMMA EntryMadeStep ==
  ASSUME IndInv, pc = "idle", sessionLocks' \in Tables, EntryMade
  PROVE  IndInv'
<1>1. DiskInv'
  BY DEF IndInv, DiskInv, EntryMade, Cut
<1>2. WriteInv'
  BY DEF IndInv, WriteInv, EntryMade, Saving
<1>3. TableInv'
  BY DEF IndInv, TableInv, EntryMade, Running, Records
<1>4. ModeInv'
  BY DEF IndInv, ModeInv, EntryMade
<1> QED BY <1>1, <1>2, <1>3, <1>4 DEF IndInv

\* The file becomes c, which is a part of what is being written.
LEMMA FileStep ==
  ASSUME DiskInv, UNCHANGED durable, NEW c, Cut(c), FileBecomes(c)
  PROVE  DiskInv'
<1>1. \A d \in onDisk' : Cut(d)
  BY DEF DiskInv, FileBecomes
<1>2. \A d \in onDisk' : Cut(d)'
  BY <1>1, CutStays
<1> QED BY <1>2 DEF DiskInv, FileBecomes

\* An empty file is the beginning of what is going to be written.
LEMMA TruncateStep ==
  ASSUME IndInv, Truncate
  PROVE  IndInv'
<1>1. /\ pc = "truncate" /\ pc' = "write" /\ FileBecomes(<< >>) /\ content' = << >>
      /\ UNCHANGED <<sessionLocks, target, data, pos, durable, faults>>
  BY DEF Truncate, FileBecomes, tableVars
<1>2. target \in durable /\ target \in Tables /\ data \in Encodings[target] /\ pos = 0
      /\ SM!EmptyTable \in durable
  BY <1>1 DEF IndInv, WriteInv, TableInv, Saving
<1>3. data \in Seq(Token) /\ Len(data) \in Nat /\ SubSeq(data, 1, 0) = << >>
  BY <1>2, EncodingIsSeq
<1>4. DiskInv'
  <2>1. 0 \in 0..Len(data)
    BY <1>3
  <2>2. Cut(<< >>)
    BY <1>2, <1>3, <2>1, CutOf
  <2> QED BY <1>1, <2>2, FileStep DEF IndInv
<1>5. WriteInv'
  BY <1>1, <1>2, <1>3 DEF WriteInv, Saving
<1>6. TableInv' /\ ModeInv'
  BY <1>1 DEF IndInv, TableInv, ModeInv, Running, Records
<1> QED BY <1>4, <1>5, <1>6 DEF IndInv

\* After the truncation nothing of the old content is behind the position of
\* the write.
LEMMA WriteTokenStep ==
  ASSUME IndInv, WriteToken
  PROVE  IndInv'
<1>1. /\ pc = "write" /\ pos < Len(data) /\ pos' = pos + 1
      /\ FileBecomes(SubSeq(data, 1, pos + 1) \o SubSeq(content, pos + 2, Len(content)))
      /\ UNCHANGED <<sessionLocks, target, pc, data, durable, faults>>
  <2>1. (pos + 1) + 1 = pos + 2
    BY DEF WriteToken, IndInv, WriteInv
  <2> QED BY <2>1 DEF WriteToken, tableVars
<1>2. /\ target \in durable /\ target \in Tables /\ data \in Encodings[target]
      /\ SM!EmptyTable \in durable
      /\ pos \in 0..Len(data) /\ content = SubSeq(data, 1, pos)
  BY <1>1 DEF IndInv, WriteInv, TableInv, Saving
<1>3. data \in Seq(Token) /\ Len(data) \in Nat
  BY <1>2, EncodingIsSeq
<1>4. pos + 1 \in 0..Len(data) /\ Len(content) = pos /\ content \in Seq(Token)
  BY <1>1, <1>2, <1>3
<1>5. SubSeq(content, pos + 2, Len(content)) = << >>
  BY <1>2, <1>4
<1>6. SubSeq(data, 1, pos + 1) \in Seq(Token)
  BY <1>3, <1>4
<1>7. FileBecomes(SubSeq(data, 1, pos + 1))
  BY <1>1, <1>5, <1>6, ConcatEmptySeq
<1>8. DiskInv'
  <2>1. Cut(SubSeq(data, 1, pos + 1))
    BY <1>2, <1>3, <1>4, CutOf
  <2> QED BY <1>1, <1>7, <2>1, FileStep DEF IndInv
<1>9. WriteInv'
  <2>1. content' = SubSeq(data, 1, pos + 1)
    BY <1>7 DEF FileBecomes
  <2> QED BY <1>1, <1>2, <1>4, <2>1 DEF WriteInv, Saving
<1>10. TableInv' /\ ModeInv'
  BY <1>1 DEF IndInv, TableInv, ModeInv, Running, Records
<1> QED BY <1>8, <1>9, <1>10 DEF IndInv

\* The data has been written as a whole.
LEMMA WriteDoneStep ==
  ASSUME IndInv, WriteDone
  PROVE  IndInv'
<1>1. /\ pc = "write" /\ pos = Len(data) /\ pc' = "sync" /\ pos' = 0
      /\ UNCHANGED <<sessionLocks, target, content, onDisk, durable, faults>>
  BY DEF WriteDone, Forget, tableVars
<1>2. target \in Tables /\ data \in Encodings[target] /\ content = SubSeq(data, 1, Len(data))
  BY <1>1 DEF IndInv, WriteInv, TableInv
<1>3. content \in Encodings[target]
  BY <1>2, EncodingIsSeq
<1>4. DiskInv'
  BY <1>1 DEF IndInv, DiskInv, Cut
<1>5. WriteInv'
  BY <1>1, <1>3 DEF IndInv, WriteInv, Saving
<1>6. TableInv' /\ ModeInv'
  BY <1>1 DEF IndInv, TableInv, ModeInv, Running, Records
<1> QED BY <1>4, <1>5, <1>6 DEF IndInv

\* After a good sync only the table that was saved can be found.
LEMMA SyncStep ==
  ASSUME IndInv, Sync
  PROVE  IndInv'
<1>1. /\ pc = "sync" /\ pc' = "idle" /\ onDisk' = {content} /\ durable' = {target}
      /\ UNCHANGED <<sessionLocks, target, data, pos, content, faults>>
  BY DEF Sync, tableVars
<1>2. target \in Tables /\ content \in Encodings[target] /\ pos = 0
  BY <1>1 DEF IndInv, WriteInv, TableInv
<1>3. Len(content) \in Nat /\ SubSeq(content, 1, Len(content)) = content
  BY <1>2, EncodingIsSeq
<1>4. DiskInv'
  <2>1. Len(content) \in 0..Len(content)
    BY <1>3
  <2>2. \E k \in 0..Len(content) : content = SubSeq(content, 1, k) /\ k = Len(content)
    BY <1>3, <2>1
  <2>3. Cut(content)'
    BY <1>1, <1>2, <2>2 DEF Cut
  <2> QED BY <1>1, <1>2, <2>3 DEF DiskInv
<1>5. WriteInv'
  BY <1>1, <1>2 DEF WriteInv, Saving
<1>6. TableInv' /\ ModeInv'
  BY <1>1 DEF IndInv, TableInv, ModeInv, Running, Records
<1> QED BY <1>4, <1>5, <1>6 DEF IndInv

\* A failure leaves what may be found.
LEMMA FaultStep ==
  ASSUME IndInv, WriteFails \/ SyncFails \/ Crash \/ PowerLoss
  PROVE  IndInv'
<1>1. /\ pc' \in {"idle", "down"} /\ pos' = 0
      /\ pc' = "idle" => Running
      /\ content' \in onDisk
      /\ faults < MaxFaults /\ faults' = faults + 1
      /\ UNCHANGED <<sessionLocks, target, onDisk, durable>>
  BY DEF WriteFails, SyncFails, Crash, PowerLoss, Fault, Forget, Running, tableVars,
         IndInv, DiskInv
<1>2. DiskInv'
  BY <1>1 DEF IndInv, DiskInv, Cut
<1>3. WriteInv'
  BY <1>1 DEF WriteInv, Saving
<1>4. TableInv'
  BY <1>1 DEF IndInv, TableInv, Running, Records
<1>5. ModeInv'
  BY <1>1 DEF IndInv, ModeInv
<1> QED BY <1>2, <1>3, <1>4, <1>5 DEF IndInv

\* What is found after a crash, if it can be read, is a durable table.
LEMMA FoundIsDurable ==
  ASSUME DiskInv, NEW c \in onDisk, Readable(c)
  PROVE  TableIn(c) \in durable
<1>1. PICK f \in durable : \E e \in Encodings[f] : \E k \in 0..Len(e) :
        c = SubSeq(e, 1, k) /\ (k # Len(e) => SM!EmptyTable \in durable)
  BY DEF DiskInv, Cut
<1>2. PICK e \in Encodings[f] : \E k \in 0..Len(e) :
        c = SubSeq(e, 1, k) /\ (k # Len(e) => SM!EmptyTable \in durable)
  BY <1>1
<1>3. PICK k \in 0..Len(e) :
        c = SubSeq(e, 1, k) /\ (k # Len(e) => SM!EmptyTable \in durable)
  BY <1>2
<1>4. f \in Tables
  BY DEF DiskInv
<1>5. CASE k = Len(e)
  <2>1. c = e
    BY <1>3, <1>4, <1>5, EncodingIsSeq
  <2> QED BY <1>4, <2>1, ReadBack
<1>6. CASE k # Len(e)
  <2>1. c = << >>
    BY <1>3, <1>4, <1>6, CutOff
  <2> QED BY <1>3, <1>6, <2>1 DEF TableIn
<1> QED BY <1>5, <1>6

\* New loads a durable table, or refuses the file.
LEMMA RestartStep ==
  ASSUME IndInv, Restart \/ RestartFails
  PROVE  IndInv'
<1>1. CASE Restart
  <2>1. /\ pc = "down" /\ pc' = "idle" /\ target' = TableIn(content) /\ sessionLocks' = target'
        /\ Readable(content)
        /\ UNCHANGED <<data, pos, content, onDisk, durable, faults>>
    BY <1>1 DEF Restart
  <2>2. target' \in Tables
    BY <2>1, FoundIsDurable DEF IndInv, DiskInv
  <2>3. DiskInv'
    BY <2>1 DEF IndInv, DiskInv, Cut
  <2>4. WriteInv'
    BY <2>1 DEF IndInv, WriteInv, Saving
  <2>5. TableInv' /\ ModeInv'
    BY <2>1, <2>2 DEF IndInv, TableInv, ModeInv
  <2> QED BY <2>3, <2>4, <2>5 DEF IndInv
<1>2. CASE RestartFails
  <2>1. /\ pc = "down" /\ pc' = "unreadable"
        /\ UNCHANGED <<sessionLocks, target, data, pos, content, onDisk, durable, faults>>
    BY <1>2 DEF RestartFails, tableVars
  <2>2. DiskInv'
    BY <2>1 DEF IndInv, DiskInv, Cut
  <2>3. WriteInv'
    BY <2>1 DEF IndInv, WriteInv, Saving
  <2>4. TableInv' /\ ModeInv'
    BY <2>1 DEF IndInv, TableInv, ModeInv, Running
  <2> QED BY <2>2, <2>3, <2>4 DEF IndInv
<1> QED BY <1>1, <1>2

\* Every step preserves the invariant.
LEMMA NextInd == IndInv /\ [Next]_vars => IndInv'
<1> SUFFICES ASSUME IndInv, [Next]_vars PROVE IndInv'
  OBVIOUS
<1>1. CASE TableStep
  <2>1. TableInv
    BY DEF IndInv
  <2> QED BY <1>1, <2>1, TableStepKinds, SaveBegunStep, EntryMadeStep
<1>2. CASE WriteStep
  BY <1>2, TruncateStep, WriteTokenStep, WriteDoneStep, SyncStep, FaultStep DEF WriteStep
<1>3. CASE Crash \/ PowerLoss
  BY <1>3, FaultStep
<1>4. CASE Restart \/ RestartFails
  BY <1>4, RestartStep
<1>5. CASE UNCHANGED vars
  <2>1. DiskInv'
    BY <1>5 DEF IndInv, DiskInv, Cut, vars
  <2>2. WriteInv'
    BY <1>5 DEF IndInv, WriteInv, Saving, vars
  <2>3. TableInv' /\ ModeInv'
    BY <1>5 DEF IndInv, TableInv, ModeInv, Running, Records, vars
  <2> QED BY <2>1, <2>2, <2>3 DEF IndInv
<1> QED BY <1>1, <1>2, <1>3, <1>4, <1>5 DEF Next

\* The empty file of the first start is the beginning of the encoding of no
\* sessions.
LEMMA InitInd == Init => IndInv
<1> SUFFICES ASSUME Init PROVE IndInv
  OBVIOUS
<1>1. /\ sessionLocks = SM!EmptyTable /\ target = SM!EmptyTable
      /\ pc = "idle" /\ pos = 0 /\ faults = 0
      /\ content = << >> /\ onDisk = {<< >>} /\ durable = {SM!EmptyTable}
  BY DEF Init, SM!Init
<1>2. <<0>> \in Encodings[SM!EmptyTable] /\ SM!EmptyTable \in Tables
  BY EmptyEncoding
<1>3. Cut(<< >>)
  <2>1. <<0>> \in Seq(Token) /\ Len(<<0>>) \in Nat /\ SubSeq(<<0>>, 1, 0) = << >>
    BY <1>2, EncodingIsSeq
  <2>2. 0 \in 0..Len(<<0>>)
    BY <2>1
  <2> QED BY <1>1, <1>2, <2>1, <2>2, CutOf
<1>4. DiskInv
  BY <1>1, <1>2, <1>3 DEF DiskInv
<1>5. WriteInv
  BY <1>1 DEF WriteInv, Saving
<1>6. TableInv /\ ModeInv
  BY <1>1, <1>2 DEF TableInv, ModeInv
<1> QED BY <1>4, <1>5, <1>6 DEF IndInv

-----------------------------------------------------------------------------
(* Theorems.                                                               *)

\* IndInv: what may be found in the file, how far Write has got and what the
\* table in memory has to do with both fit together in every reachable state.
THEOREM Inductive == Spec => []IndInv
<1> QED BY InitInd, NextInd, PTL DEF Spec

\* TypeOK: Write never leaves anything in the file that is not the beginning
\* of an encoding, as it truncates first (store.go:66).
THEOREM TypeCorrect == Spec => []TypeOK
<1>1. IndInv => TypeOK
  <2> SUFFICES ASSUME IndInv PROVE TypeOK
    OBVIOUS
  <2>1. SM!TypeOK
    BY TablesAreTables DEF IndInv, TableInv, SM!TypeOK
  <2>2. ASSUME NEW c \in onDisk
        PROVE  \E f \in Tables : \E e \in Encodings[f] : IsPrefix(c, e)
    <3>1. PICK f \in durable : \E e \in Encodings[f] : \E k \in 0..Len(e) : c = SubSeq(e, 1, k)
      BY DEF IndInv, DiskInv, Cut
    <3>2. PICK e \in Encodings[f] : \E k \in 0..Len(e) : c = SubSeq(e, 1, k)
      BY <3>1
    <3>3. PICK k \in 0..Len(e) : c = SubSeq(e, 1, k)
      BY <3>2
    <3>4. f \in Tables /\ e \in Seq(Token) /\ Len(e) \in Nat
      BY EncodingIsSeq DEF IndInv, DiskInv
    <3>5. c \in Seq(Token) /\ Len(c) = k /\ SubSeq(c, 1, k) = c
      BY <3>3, <3>4
    <3>6. IsPrefix(c, e)
      BY <3>3, <3>4, <3>5 DEF IsPrefix
    <3> QED BY <3>4, <3>6
  <2> QED BY <2>1, <2>2 DEF TypeOK, IndInv, DiskInv, ModeInv
<1> QED BY <1>1, Inductive, PTL

\* When only the table that was saved last can be found, any file that may be
\* there can be read and is read as that table.
LEMMA OnlyOneTable ==
  ASSUME IndInv, durable = {target}, NEW c \in onDisk
  PROVE  Readable(c) /\ TableIn(c) = target
<1>1. PICK e \in Encodings[target] : \E k \in 0..Len(e) :
        c = SubSeq(e, 1, k) /\ (k # Len(e) => SM!EmptyTable = target)
  BY DEF IndInv, DiskInv, Cut
<1>2. PICK k \in 0..Len(e) :
        c = SubSeq(e, 1, k) /\ (k # Len(e) => SM!EmptyTable = target)
  BY <1>1
<1>3. target \in Tables /\ Len(e) \in Nat /\ SubSeq(e, 1, Len(e)) = e /\ SubSeq(e, 1, 0) = << >>
  BY EncodingIsSeq DEF IndInv, TableInv
<1>4. CASE k = Len(e)
  BY <1>2, <1>3, <1>4, ReadBack
<1>5. CASE k # Len(e)
  <2>1. e = <<0>>
    BY <1>2, <1>5, EmptyEncoding
  <2>2. k = 0
    BY <1>5, <2>1
  <2>3. c = << >>
    BY <1>2, <1>3, <2>2
  <2> QED BY <1>2, <1>5, <2>3 DEF Readable, TableIn
<1> QED BY <1>4, <1>5

\* QuietRestartKeepsAll: between two writes that did not fail, the file has
\* the locks that are in memory, whatever becomes of the process or the machine.
THEOREM QuietRestart == Spec => []QuietRestartKeepsAll
<1>1. IndInv => QuietRestartKeepsAll
  <2> SUFFICES ASSUME IndInv, pc = "idle", durable = {target},
                      NEW c \in onDisk \cup {content}
               PROVE  Readable(c) /\ Records(TableIn(c)) = Records(sessionLocks)
    BY DEF QuietRestartKeepsAll
  <2>1. c \in onDisk
    BY DEF IndInv, DiskInv
  <2>2. Readable(c) /\ TableIn(c) = target
    BY <2>1, OnlyOneTable
  <2>3. Records(target) = Records(sessionLocks)
    BY DEF IndInv, TableInv, Running
  <2> QED BY <2>2, <2>3
<1> QED BY <1>1, Inductive, PTL

-----------------------------------------------------------------------------
(* The refinement.                                                         *)

phase == IF pc = "idle" THEN "ready"
         ELSE IF pc \in {"truncate", "write", "sync"} THEN "saving" ELSE pc

FileNext == [StateFileOf!Next]_(StateFileOf!fileVars)

\* A step that neither the table, nor the phase, nor what may be found shows.
LEMMA UnseenMap ==
  ASSUME UNCHANGED <<target, durable, phase>>
  PROVE  FileNext
BY DEF FileNext, StateFileOf!fileVars, phase

\* An operation that writes is a Save of the new table.
LEMMA SaveMap ==
  ASSUME pc = "idle", sessionLocks' \in Tables, SaveBegun
  PROVE  FileNext
<1>1. PICK t \in Tables : t = sessionLocks'
  OBVIOUS
<1>2. StateFileOf!Save(t)
  BY <1>1 DEF StateFileOf!Save, SaveBegun, BeginWrite
<1> QED BY <1>2 DEF FileNext, StateFileOf!Next

\* Every step is one of StateFile, or one that it does not see.
LEMMA StepMap ==
  ASSUME IndInv, [Next]_vars
  PROVE  FileNext
<1>1. CASE TableStep
  <2>1. pc = "idle" /\ sessionLocks' \in Tables /\ (EntryMade \/ SaveBegun)
    BY <1>1, TableStepKinds DEF IndInv
  <2>2. CASE EntryMade
    BY <2>2, UnseenMap DEF EntryMade, phase
  <2> QED BY <2>1, <2>2, SaveMap
<1>2. CASE Truncate \/ WriteToken \/ WriteDone \/ UNCHANGED vars
  <2>1. UNCHANGED <<target, durable, phase>>
    BY <1>2 DEF Truncate, WriteToken, WriteDone, tableVars, vars, phase
  <2> QED BY <2>1, UnseenMap
<1>3. CASE Sync
  <2>1. StateFileOf!Saved
    BY <1>3 DEF Sync, StateFileOf!Saved, tableVars
  <2> QED BY <2>1 DEF FileNext, StateFileOf!Next
<1>4. CASE SyncFails \/ (WriteFails /\ pc' = "idle")
  <2>1. StateFileOf!NotSaved
    BY <1>4 DEF SyncFails, WriteFails, StateFileOf!NotSaved, tableVars
  <2> QED BY <2>1 DEF FileNext, StateFileOf!Next
<1>5. CASE Crash \/ (WriteFails /\ pc' = "down") \/ (PowerLoss /\ Running)
  <2>1. StateFileOf!Crash
    BY <1>5 DEF Crash, WriteFails, PowerLoss, Running, StateFileOf!Crash, tableVars
  <2> QED BY <2>1 DEF FileNext, StateFileOf!Next
<1>6. CASE PowerLoss /\ ~Running
  <2>1. UNCHANGED <<target, durable, phase>>
    BY <1>6 DEF PowerLoss, Running, IndInv, ModeInv, tableVars, phase
  <2> QED BY <2>1, UnseenMap
<1>7. CASE Restart
  <2>1. TableIn(content) \in durable
    BY <1>7, FoundIsDurable DEF Restart, IndInv, DiskInv
  <2>2. StateFileOf!Recover
    BY <1>7, <2>1 DEF Restart, StateFileOf!Recover
  <2> QED BY <2>2 DEF FileNext, StateFileOf!Next
<1>8. CASE RestartFails
  <2>1. durable # {target}
    BY <1>8, OnlyOneTable DEF RestartFails, IndInv, DiskInv
  <2>2. StateFileOf!CannotRead
    BY <1>8, <2>1 DEF RestartFails, StateFileOf!CannotRead, tableVars
  <2> QED BY <2>2 DEF FileNext, StateFileOf!Next
<1>9. WriteFails => pc' \in {"idle", "down"}
  BY DEF WriteFails
<1> QED BY <1>1, <1>2, <1>3, <1>4, <1>5, <1>6, <1>7, <1>8, <1>9 DEF Next, WriteStep

\* Both start with no sessions.
LEMMA StartMap == Init => StateFileOf!Init
BY DEF Init, SM!Init, StateFileOf!Init

\* ImplementsStateFile: a restart finds the table saved last; after a crash
\* inside Write, or a failed write or sync, one of the tables since the last
\* good save, no locks or an unreadable file, and never a mixture of two.
THEOREM Implements == Spec => ImplementsStateFile
<1>1. IndInv /\ [Next]_vars => [StateFileOf!Next]_(StateFileOf!fileVars)
  BY StepMap DEF FileNext
<1> QED
  BY <1>1, StartMap, Inductive, PTL DEF Spec, ImplementsStateFile, StateFileOf!Spec
=============================================================================
