------------------------- MODULE SecureStreamProofs -------------------------
(***************************************************************************)
(* Every value of the constants: any set of goroutines that write, any     *)
(* lengths of blocks, records and Reads. As long as ReadFrom runs in one   *)
(* goroutine at a time, every record opens (NoncesAgree), and what the     *)
(* other end reads is the blocks, each in one piece (ArriveWhole).         *)
(*                                                                         *)
(* The first section is about Joined, the bytes of a sequence of           *)
(* sequences. It is defined by recursion, and its laws need an induction:  *)
(* SetInduction is that of the naturals for a set, in place of an          *)
(* operator.                                                               *)
(***************************************************************************)
EXTENDS SecureStream, SequenceTheorems, WellFoundedInduction, TLAPS

-----------------------------------------------------------------------------
(* The bytes of a sequence of sequences.                                   *)

\* Laws of sequences that the induction over records needs.
Assoc(a, b, c) == (a \o b) \o c = a \o (b \o c)
AppendLaw(a, b, x) == a \o Append(b, x) = Append(a \o b, x)

LEMMA ConcatLaws ==
  ASSUME NEW S, NEW a \in Seq(S), NEW b \in Seq(S)
  PROVE  /\ a \o b \in Seq(S)
         /\ \A c \in Seq(S) : Assoc(a, b, c)
         /\ \A x \in S : AppendLaw(a, b, x)
BY DEF Assoc, AppendLaw

\* A set of naturals that is not empty has a least element.
LEMMA LeastNat ==
  ASSUME NEW T \in SUBSET Nat, T # {}
  PROVE  \E x \in T : \A y \in T : ~(y < x)
<1>1. \E x \in T : \A y \in T : ~ (<<y, x>> \in OpToRel(<, Nat))
  BY NatLessThanWellFounded, WFMin, Zenon
<1> QED
  BY <1>1, Zenon DEF OpToRel

\* Induction, with a set in the place of a predicate.
LEMMA SetInduction ==
  ASSUME NEW S, 0 \in S, \A n \in Nat : n \in S => n + 1 \in S
  PROVE  Nat \subseteq S
<1>1. SUFFICES ASSUME Nat \ S # {} PROVE FALSE
  OBVIOUS
<1>2. PICK x \in Nat \ S : \A y \in Nat \ S : ~(y < x)
  BY <1>1, LeastNat, Zenon
<1>3. x - 1 \in Nat /\ x - 1 < x
  BY <1>2
<1> QED
  BY <1>2, <1>3

\* f[i] is the first i sequences of s in one.
Joins(s, f, n) == f[0] = <<>> /\ \A i \in 1 .. n : f[i] = f[i - 1] \o s[i]

\* The recursive function by which Joined is defined exists.
LEMMA JoinsExist ==
  ASSUME NEW s, NEW m \in Nat
  PROVE  \E f : Joins(s, f, m)
<1> DEFINE P == {n \in Nat : \E f : Joins(s, f, n)}
<1>1. 0 \in P
  <2> DEFINE f == [i \in {0} |-> <<>>]
  <2>1. Joins(s, f, 0)
    BY DEF Joins
  <2> QED
    BY <2>1
<1>2. ASSUME NEW n \in Nat, n \in P PROVE n + 1 \in P
  <2>1. PICK f : Joins(s, f, n)
    BY <1>2
  <2> DEFINE g == [i \in 0 .. n + 1 |-> IF i <= n THEN f[i] ELSE f[i - 1] \o s[i]]
  <2>2. ASSUME NEW i \in 1 .. n + 1 PROVE g[i] = g[i - 1] \o s[i]
    <3>1. i <= n => i \in 1 .. n
      OBVIOUS
    <3>2. i <= n => f[i] = f[i - 1] \o s[i]
      BY <2>1, <3>1, Zenon DEF Joins
    <3>3. i \in 0 .. n + 1 /\ i - 1 \in 0 .. n + 1 /\ i - 1 <= n
      OBVIOUS
    <3> QED
      BY <3>2, <3>3, Zenon
  <2>3. g[0] = <<>>
    BY <2>1 DEF Joins
  <2> HIDE DEF g
  <2>4. Joins(s, g, n + 1)
    BY <2>2, <2>3, Zenon DEF Joins
  <2> QED
    BY <2>4
<1> HIDE DEF P
<1>3. Nat \subseteq P
  BY <1>1, <1>2, SetInduction
<1> QED
  BY <1>3 DEF P

\* What it gives for n depends on the first n sequences only.
LEMMA JoinsAgree ==
  ASSUME NEW s, NEW t, NEW f, NEW g, NEW n \in Nat, NEW m \in Nat, m = n + 1,
         Joins(s, f, n), Joins(t, g, m), \A i \in 1 .. n : t[i] = s[i]
  PROVE  f[n] = g[n]
<1> DEFINE P == {j \in Nat : j <= n => f[j] = g[j]}
<1>1. 0 \in P
  BY DEF Joins
<1>2. ASSUME NEW j \in Nat, j \in P PROVE j + 1 \in P
  <2>1. ASSUME j + 1 <= n PROVE f[j + 1] = g[j + 1]
    <3>0. j + 1 \in 1 .. n /\ j + 1 \in 1 .. m /\ (j + 1) - 1 = j
      BY <2>1
    <3>1. f[j] = g[j] /\ s[j + 1] = t[j + 1]
      BY <1>2, <2>1
    <3>2. f[j + 1] = f[j] \o s[j + 1]
      BY <3>0, Zenon DEF Joins
    <3>3. g[j + 1] = g[j] \o t[j + 1]
      BY <3>0, Zenon DEF Joins
    <3> QED
      BY <3>1, <3>2, <3>3, Zenon
  <2> QED
    BY <2>1
<1> HIDE DEF P
<1>3. Nat \subseteq P
  BY <1>1, <1>2, SetInduction
<1>4. n \in P
  BY <1>3
<1> QED
  BY <1>4 DEF P

\* Joined, by that function.
LEMMA JoinedBy ==
  ASSUME NEW s, Len(s) \in Nat
  PROVE  \E f : Joins(s, f, Len(s)) /\ Joined(s) = f[Len(s)]
<1> DEFINE E(f) == f = [n \in 0 .. Len(s) |-> IF n = 0 THEN <<>> ELSE f[n - 1] \o s[n]]
           h == CHOOSE f : E(f)
<1>1. Joined(s) = h[Len(s)]
  BY Zenon DEF Joined
<1>2. \E f : E(f)
  <2>1. PICK g : Joins(s, g, Len(s))
    BY JoinsExist
  <2> DEFINE f == [n \in 0 .. Len(s) |-> g[n]]
  <2>2. ASSUME NEW n \in 0 .. Len(s) PROVE f[n] = IF n = 0 THEN <<>> ELSE f[n - 1] \o s[n]
    <3>1. n # 0 => n \in 1 .. Len(s) /\ n - 1 \in 0 .. Len(s)
      OBVIOUS
    <3>2. n # 0 => g[n] = g[n - 1] \o s[n]
      BY <2>1, <3>1, Zenon DEF Joins
    <3>3. g[0] = <<>>
      BY <2>1, Zenon DEF Joins
    <3> QED
      BY <3>1, <3>2, <3>3, Zenon
  <2>3. E(f)
    BY <2>2, Zenon
  <2> HIDE DEF f, E
  <2> QED
    BY <2>3, Zenon
<1>3. E(h)
  BY <1>2, Zenon
<1>4. Joins(s, h, Len(s))
  <2> HIDE DEF h
  <2>1. h = [n \in 0 .. Len(s) |-> IF n = 0 THEN <<>> ELSE h[n - 1] \o s[n]]
    BY <1>3, Zenon
  <2>2. ASSUME NEW n \in 0 .. Len(s) PROVE h[n] = IF n = 0 THEN <<>> ELSE h[n - 1] \o s[n]
    BY <2>1, Zenon
  <2>3. h[0] = <<>>
    BY <2>2
  <2>4. ASSUME NEW n \in 1 .. Len(s) PROVE h[n] = h[n - 1] \o s[n]
    <3>1. n \in 0 .. Len(s) /\ n # 0
      OBVIOUS
    <3> QED
      BY <2>2, <3>1, Zenon
  <2> QED
    BY <2>3, <2>4, Zenon DEF Joins
<1> HIDE DEF h
<1> QED
  BY <1>1, <1>4, Zenon

\* One more sequence: its bytes come last.
LEMMA JoinedAppend ==
  ASSUME NEW S, NEW s \in Seq(Seq(S)), NEW e \in Seq(S)
  PROVE  Joined(Append(s, e)) = Joined(s) \o e
<1> DEFINE t == Append(s, e)
           n == Len(s)
           m == n + 1
<1>0. n \in Nat /\ m \in Nat /\ n <= m /\ m \in 1 .. m /\ m - 1 = n
      /\ Len(t) = m /\ t[m] = e /\ \A i \in 1 .. n : t[i] = s[i]
  OBVIOUS
<1> HIDE DEF t, n, m
<1>1. PICK g : Joins(t, g, m) /\ Joined(t) = g[m]
  BY <1>0, JoinedBy
<1>2. PICK f : Joins(s, f, n) /\ Joined(s) = f[n]
  <2>1. Len(s) \in Nat
    BY <1>0 DEF n
  <2> QED
    BY <2>1, JoinedBy, Zenon DEF n
<1>3. f[n] = g[n]
  <2>1. n \in Nat /\ m \in Nat /\ m = n + 1 /\ Joins(s, f, n) /\ Joins(t, g, m)
    BY <1>0, <1>1, <1>2 DEF m
  <2>2. \A i \in 1 .. n : t[i] = s[i]
    BY <1>0, Zenon
  <2> QED
    BY ONLY <2>1, <2>2, JoinsAgree
<1>4. g[m] = g[n] \o e
  BY <1>0, <1>1, Zenon DEF Joins
<1> QED
  BY <1>1, <1>2, <1>3, <1>4, Zenon DEF t

\* Without sequences there are no bytes.
LEMMA JoinedNone == Joined(<<>>) = <<>>
<1>1. Len(<<>>) = 0
  OBVIOUS
<1>2. PICK f : Joins(<<>>, f, Len(<<>>)) /\ Joined(<<>>) = f[Len(<<>>)]
  BY <1>1, JoinedBy
<1> QED
  BY <1>1, <1>2, Zenon DEF Joins

\* The first n + 1 elements are the first n, and one more.
LEMMA PrefixNext ==
  ASSUME NEW S, NEW s \in Seq(S), NEW n \in Nat, n + 1 <= Len(s)
  PROVE  /\ SubSeq(s, 1, n + 1) = Append(SubSeq(s, 1, n), s[n + 1])
         /\ SubSeq(s, 1, n) \in Seq(S) /\ s[n + 1] \in S
OBVIOUS

\* The bytes of sequences over S are a sequence over S.
LEMMA JoinedType ==
  ASSUME NEW S, NEW s \in Seq(Seq(S))
  PROVE  Joined(s) \in Seq(S)
<1> DEFINE P == {n \in Nat : n <= Len(s) => Joined(SubSeq(s, 1, n)) \in Seq(S)}
<1>1. 0 \in P
  <2>1. SubSeq(s, 1, 0) = <<>> /\ <<>> \in Seq(S)
    OBVIOUS
  <2> QED
    BY <2>1, JoinedNone, Zenon
<1>2. ASSUME NEW n \in Nat, n \in P PROVE n + 1 \in P
  <2>1. ASSUME n + 1 <= Len(s) PROVE Joined(SubSeq(s, 1, n + 1)) \in Seq(S)
    <3> DEFINE p == SubSeq(s, 1, n)
               e == s[n + 1]
    <3>1. SubSeq(s, 1, n + 1) = Append(p, e) /\ p \in Seq(Seq(S)) /\ e \in Seq(S)
      BY <2>1, PrefixNext
    <3>2. Joined(p) \in Seq(S)
      BY <1>2, <2>1
    <3> HIDE DEF p, e
    <3>3. Joined(Append(p, e)) = Joined(p) \o e
      BY <3>1, JoinedAppend, Zenon
    <3>4. Joined(p) \o e \in Seq(S)
      BY <3>1, <3>2
    <3> QED
      BY <3>1, <3>3, <3>4, Zenon
  <2> QED
    BY <2>1
<1> HIDE DEF P
<1>3. Nat \subseteq P
  BY <1>1, <1>2, SetInduction, Zenon
<1>4. Len(s) \in P
  BY <1>3
<1>5. SubSeq(s, 1, Len(s)) = s
  OBVIOUS
<1>6. Len(s) <= Len(s)
  OBVIOUS
<1> QED
  BY <1>4, <1>5, <1>6, Zenon DEF P

\* The bytes of two sequences of sequences are those of the first, then those
\* of the second: where a queue is cut makes no difference to its bytes.
LEMMA JoinedConcat ==
  ASSUME NEW S, NEW s \in Seq(Seq(S)), NEW t \in Seq(Seq(S))
  PROVE  Joined(s \o t) = Joined(s) \o Joined(t)
<1> DEFINE P == {n \in Nat : n <= Len(t) =>
                   Joined(s \o SubSeq(t, 1, n)) = Joined(s) \o Joined(SubSeq(t, 1, n))}
<1>0. Joined(s) \in Seq(S)
  BY JoinedType
<1>1. 0 \in P
  <2>1. SubSeq(t, 1, 0) = <<>> /\ s \o <<>> = s
    OBVIOUS
  <2>2. Joined(s) \o <<>> = Joined(s)
    BY <1>0
  <2> QED
    BY <2>1, <2>2, JoinedNone, Zenon
<1>2. ASSUME NEW n \in Nat, n \in P PROVE n + 1 \in P
  <2>1. ASSUME n + 1 <= Len(t)
        PROVE  Joined(s \o SubSeq(t, 1, n + 1)) = Joined(s) \o Joined(SubSeq(t, 1, n + 1))
    <3> DEFINE p == SubSeq(t, 1, n)
               e == t[n + 1]
               q == s \o p
    <3>1. SubSeq(t, 1, n + 1) = Append(p, e) /\ p \in Seq(Seq(S)) /\ e \in Seq(S)
      BY <2>1, PrefixNext
    <3>2. Joined(q) = Joined(s) \o Joined(p)
      BY <1>2, <2>1
    <3> HIDE DEF p, e
    <3>3. q \in Seq(Seq(S)) /\ s \o Append(p, e) = Append(q, e)
      <4>1. s \o p \in Seq(Seq(S)) /\ AppendLaw(s, p, e)
        BY <3>1, ConcatLaws, Zenon
      <4> QED
        BY <4>1, Zenon DEF AppendLaw
    <3> HIDE DEF q
    <3>4. Joined(Append(p, e)) = Joined(p) \o e
      BY <3>1, JoinedAppend
    <3>5. Joined(Append(q, e)) = Joined(q) \o e
      BY <3>1, <3>3, JoinedAppend, Zenon
    <3>6. Joined(p) \in Seq(S)
      BY <3>1, JoinedType
    <3>7. (Joined(s) \o Joined(p)) \o e = Joined(s) \o (Joined(p) \o e)
      <4>1. Assoc(Joined(s), Joined(p), e)
        BY <1>0, <3>1, <3>6, ConcatLaws, Zenon
      <4> QED
        BY <4>1, Zenon DEF Assoc
    <3> QED
      BY <3>1, <3>2, <3>3, <3>4, <3>5, <3>7, Zenon
  <2> QED
    BY <2>1
<1> HIDE DEF P
<1>3. Nat \subseteq P
  BY <1>1, <1>2, SetInduction, Zenon
<1>4. Len(t) \in P
  BY <1>3
<1>5. SubSeq(t, 1, Len(t)) = t
  OBVIOUS
<1>6. Len(t) <= Len(t)
  OBVIOUS
<1> QED
  BY <1>4, <1>5, <1>6, Zenon DEF P

\* Empty sequences have no bytes.
LEMMA JoinedNothing ==
  ASSUME NEW S, NEW s \in Seq(Seq(S)), \A i \in 1 .. Len(s) : s[i] = <<>>
  PROVE  Joined(s) = <<>>
<1> DEFINE P == {n \in Nat : n <= Len(s) => Joined(SubSeq(s, 1, n)) = <<>>}
<1>1. 0 \in P
  <2>1. SubSeq(s, 1, 0) = <<>>
    OBVIOUS
  <2> QED
    BY <2>1, JoinedNone, Zenon
<1>2. ASSUME NEW n \in Nat, n \in P PROVE n + 1 \in P
  <2>1. ASSUME n + 1 <= Len(s) PROVE Joined(SubSeq(s, 1, n + 1)) = <<>>
    <3> DEFINE p == SubSeq(s, 1, n)
    <3>1. SubSeq(s, 1, n + 1) = Append(p, s[n + 1]) /\ p \in Seq(Seq(S)) /\ s[n + 1] = <<>> /\ s[n + 1] \in Seq(S)
      BY <2>1, PrefixNext
    <3>2. Joined(p) = <<>>
      BY <1>2, <2>1
    <3> HIDE DEF p
    <3>3. Joined(Append(p, s[n + 1])) = Joined(p) \o s[n + 1]
      BY <3>1, JoinedAppend, Zenon
    <3>4. <<>> \o <<>> = <<>>
      OBVIOUS
    <3> QED
      BY <3>1, <3>2, <3>3, <3>4, Zenon
  <2> QED
    BY <2>1
<1> HIDE DEF P
<1>3. Nat \subseteq P
  BY <1>1, <1>2, SetInduction, Zenon
<1>4. Len(s) \in P
  BY <1>3
<1>5. SubSeq(s, 1, Len(s)) = s
  OBVIOUS
<1>6. Len(s) <= Len(s)
  OBVIOUS
<1> QED
  BY <1>4, <1>5, <1>6, Zenon DEF P

-----------------------------------------------------------------------------
(* The wire.                                                               *)

\* Bytes, whatever the lengths of the blocks.
U == Writers \X Nat \X Nat

\* What the writer puts on the wire: records, or messages.
Records == [size : Nat, sizeNonce : Nat, payload : Seq(U), payloadNonce : Nat]

\* The payloads of the records w.
Payloads(w) == [i \in DOMAIN w |-> w[i].payload]

\* The bytes that the records w carry.
Carried(w) == Joined(Payloads(w))

\* The payloads are as many as the records, in their order.
LEMMA PayloadsOf ==
  ASSUME NEW w \in Seq(Records)
  PROVE  /\ Payloads(w) \in Seq(Seq(U)) /\ Len(Payloads(w)) = Len(w)
         /\ \A i \in 1 .. Len(w) : Payloads(w)[i] = w[i].payload
<1>0. \A b \in Records : b.payload \in Seq(U)
  BY DEF Records
<1>1. Payloads(w) \in Seq(Seq(U))
  BY <1>0 DEF Payloads
<1>2. Len(Payloads(w)) = Len(w)
  BY DEF Payloads
<1>3. \A i \in 1 .. Len(w) : Payloads(w)[i] = w[i].payload
  BY DEF Payloads
<1> QED
  BY <1>1, <1>2, <1>3

\* Sequences of records: a record written comes last, the first is read.
LEMMA RecordSeqs ==
  /\ \A b \in Records : b.payload \in Seq(U) /\ b.size \in Nat /\ b.sizeNonce \in Nat /\ b.payloadNonce \in Nat
  /\ \A w \in Seq(Records) : Len(w) \in Nat /\ DOMAIN w = 1 .. Len(w)
  /\ \A w \in Seq(Records) : \A b \in Records :
       /\ Append(w, b) \in Seq(Records) /\ Len(Append(w, b)) = Len(w) + 1
       /\ Append(w, b)[Len(w) + 1] = b /\ \A i \in 1 .. Len(w) : Append(w, b)[i] = w[i]
  /\ \A w \in Seq(Records) : w # <<>> =>
       /\ Head(w) \in Records /\ Head(w) = w[1] /\ Len(w) # 0
       /\ Tail(w) \in Seq(Records) /\ Len(Tail(w)) = Len(w) - 1
       /\ \A i \in 1 .. Len(w) - 1 : Tail(w)[i] = w[i + 1]
<1>1. \A b \in Records : b.payload \in Seq(U) /\ b.size \in Nat /\ b.sizeNonce \in Nat /\ b.payloadNonce \in Nat
  BY DEF Records
<1>2. \A w \in Seq(Records) : Len(w) \in Nat /\ DOMAIN w = 1 .. Len(w)
  OBVIOUS
<1>3. ASSUME NEW w \in Seq(Records), NEW b \in Records
      PROVE /\ Append(w, b) \in Seq(Records) /\ Len(Append(w, b)) = Len(w) + 1
            /\ Append(w, b)[Len(w) + 1] = b /\ \A i \in 1 .. Len(w) : Append(w, b)[i] = w[i]
  OBVIOUS
<1>4. ASSUME NEW w \in Seq(Records), w # <<>>
      PROVE /\ Head(w) \in Records /\ Head(w) = w[1] /\ Len(w) # 0
            /\ Tail(w) \in Seq(Records) /\ Len(Tail(w)) = Len(w) - 1
            /\ \A i \in 1 .. Len(w) - 1 : Tail(w)[i] = w[i + 1]
  BY <1>4
<1> QED
  BY <1>1, <1>2, <1>3, <1>4

\* A record written puts its payload after what the wire carries.
LEMMA CarriedAppend ==
  ASSUME NEW w \in Seq(Records), NEW b \in Records
  PROVE  Carried(Append(w, b)) = Carried(w) \o b.payload
<1> DEFINE x == Append(w, b)
           p == Payloads(w)
           q == Payloads(x)
           e == b.payload
           r == Append(p, e)
<1>1. /\ x \in Seq(Records) /\ Len(x) = Len(w) + 1 /\ x[Len(w) + 1] = b
      /\ \A i \in 1 .. Len(w) : x[i] = w[i]
      /\ e \in Seq(U) /\ Len(w) \in Nat
  BY RecordSeqs
<1> HIDE DEF x
<1>2. p \in Seq(Seq(U)) /\ Len(p) = Len(w) /\ \A i \in 1 .. Len(w) : p[i] = w[i].payload
  BY PayloadsOf, Zenon
<1>3. q \in Seq(Seq(U)) /\ Len(q) = Len(x) /\ \A i \in 1 .. Len(x) : q[i] = x[i].payload
  BY <1>1, PayloadsOf, Zenon
<1> HIDE DEF p, q, e
<1>4. /\ r \in Seq(Seq(U)) /\ Len(r) = Len(w) + 1 /\ r[Len(w) + 1] = e
      /\ \A i \in 1 .. Len(w) : r[i] = p[i]
  BY <1>1, <1>2
<1> HIDE DEF r
<1>5. ASSUME NEW i \in 1 .. Len(q) PROVE q[i] = r[i]
  <2>1. CASE i = Len(w) + 1
    BY <1>1, <1>3, <1>4, <2>1 DEF e
  <2>2. CASE i \in 1 .. Len(w)
    BY <1>1, <1>2, <1>3, <1>4, <2>2, Zenon
  <2> QED
    BY <1>1, <1>3, <2>1, <2>2
<1>6. q = r
  <2>1. Len(q) = Len(r)
    BY <1>1, <1>3, <1>4
  <2> QED
    BY <1>3, <1>4, <1>5, <2>1, SeqEqual, Zenon
<1>7. Joined(Append(p, e)) = Joined(p) \o e
  BY <1>1, <1>2, JoinedAppend, Zenon
<1> QED
  BY <1>6, <1>7, Zenon DEF Carried, p, q, r, e, x

\* The first record on the wire holds the first bytes that it carries.
LEMMA CarriedHead ==
  ASSUME NEW w \in Seq(Records), w # <<>>
  PROVE  Carried(w) = Head(w).payload \o Carried(Tail(w))
<1> DEFINE t == Tail(w)
           e == Head(w).payload
           p == Payloads(w)
           q == Payloads(t)
           r == <<e>> \o q
<1>1. /\ t \in Seq(Records) /\ Len(t) = Len(w) - 1 /\ \A i \in 1 .. Len(w) - 1 : t[i] = w[i + 1]
      /\ e = w[1].payload /\ e \in Seq(U) /\ Len(w) \in Nat /\ Len(w) # 0
  <2>1. /\ t \in Seq(Records) /\ Len(t) = Len(w) - 1 /\ \A i \in 1 .. Len(w) - 1 : t[i] = w[i + 1]
        /\ Head(w) = w[1] /\ Head(w) \in Records /\ Len(w) \in Nat /\ Len(w) # 0
    BY RecordSeqs, Zenon
  <2> QED
    BY <2>1, RecordSeqs, Zenon
<1>2. p \in Seq(Seq(U)) /\ Len(p) = Len(w) /\ \A i \in 1 .. Len(w) : p[i] = w[i].payload
  BY PayloadsOf, Zenon
<1>3. q \in Seq(Seq(U)) /\ Len(q) = Len(t) /\ \A i \in 1 .. Len(t) : q[i] = t[i].payload
  BY <1>1, PayloadsOf, Zenon
<1> HIDE DEF p, q, e, t
<1>4. <<e>> \in Seq(Seq(U)) /\ Len(<<e>>) = 1 /\ <<e>>[1] = e
  BY <1>1
<1>5. /\ r \in Seq(Seq(U)) /\ Len(r) = 1 + Len(q)
      /\ \A i \in 1 .. 1 + Len(q) : r[i] = IF i <= 1 THEN <<e>>[i] ELSE q[i - 1]
  <2> DEFINE d == <<e>>
  <2>1. d \in Seq(Seq(U)) /\ Len(d) = 1
    BY <1>4
  <2> HIDE DEF d
  <2>2. /\ d \o q \in Seq(Seq(U)) /\ Len(d \o q) = Len(d) + Len(q)
        /\ \A i \in 1 .. Len(d) + Len(q) : (d \o q)[i] = IF i <= Len(d) THEN d[i] ELSE q[i - Len(d)]
    <3>1. d \in Seq(Seq(U)) /\ q \in Seq(Seq(U))
      BY <1>3, <2>1, Zenon
    <3> QED
      BY ONLY <3>1, ConcatProperties, Zenon
  <2> QED
    BY <2>1, <2>2, Zenon DEF d
<1> HIDE DEF r
<1>6. ASSUME NEW i \in 1 .. Len(p) PROVE p[i] = r[i]
  <2>1. CASE i = 1
    BY <1>1, <1>2, <1>3, <1>4, <1>5, <2>1
  <2>2. CASE i # 1
    <3>1. i - 1 \in 1 .. Len(t) /\ (i - 1) + 1 = i /\ i - 1 \in 1 .. Len(w) - 1 /\ i \in 1 .. 1 + Len(q) /\ ~(i <= 1)
      BY <1>1, <1>2, <1>3, <2>2
    <3>2. r[i] = q[i - 1]
      BY <1>5, <3>1, Zenon
    <3>3. q[i - 1] = w[i].payload
      BY <1>1, <1>3, <3>1, Zenon
    <3> QED
      BY <1>2, <3>2, <3>3
  <2> QED
    BY <2>1, <2>2
<1>7. p = r
  <2>1. Len(p) = Len(r)
    BY <1>1, <1>2, <1>3, <1>5
  <2> QED
    BY <1>2, <1>5, <1>6, <2>1, SeqEqual, Zenon
<1>8. Joined(<<e>> \o q) = Joined(<<e>>) \o Joined(q)
  BY <1>3, <1>4, JoinedConcat, Zenon
<1>9. Joined(<<e>>) = e
  <2>1. Joined(Append(<<>>, e)) = Joined(<<>>) \o e
    <3>1. <<>> \in Seq(Seq(U))
      OBVIOUS
    <3> QED
      BY <1>1, <3>1, JoinedAppend, Zenon
  <2>2. \A y \in Seq(U) : Append(<<>>, y) = <<y>> /\ <<>> \o y = y
    OBVIOUS
  <2> QED
    BY <1>1, <2>1, <2>2, JoinedNone, Zenon
<1> QED
  BY <1>7, <1>8, <1>9, Zenon DEF Carried, p, q, r, e, t

\* What the wire carries are bytes.
LEMMA CarriedType == \A w \in Seq(Records) : Carried(w) \in Seq(U)
BY PayloadsOf, JoinedType, Zenon DEF Carried

\* An empty wire carries nothing.
LEMMA CarriedNone == Carried(<<>>) = <<>>
<1>1. Payloads(<<>>) = <<>>
  BY DEF Payloads
<1> QED
  BY <1>1, JoinedNone, Zenon DEF Carried

-----------------------------------------------------------------------------
(* Reads.                                                                  *)

\* The smaller of two numbers, the length of a record and of a copy.
LEMMA MinOfTwo ==
  ASSUME NEW a \in Nat, NEW b \in Nat
  PROVE  Min({a, b}) = IF a <= b THEN a ELSE b
<1> DEFINE m == IF a <= b THEN a ELSE b
<1>1. m \in {a, b} /\ \A y \in {a, b} : m <= y
  OBVIOUS
<1>2. \A x \in {a, b} : (\A y \in {a, b} : x <= y) => x = m
  OBVIOUS
<1> HIDE DEF m
<1>3. Min({a, b}) = m
  BY <1>1, <1>2, Zenon DEF Min
<1> QED
  BY <1>3 DEF m

\* A sequence is its first k elements and the others.
LEMMA CutSeq ==
  ASSUME NEW S, NEW s \in Seq(S), NEW k \in Nat, k <= Len(s)
  PROVE  /\ SubSeq(s, 1, k) \o SubSeq(s, k + 1, Len(s)) = s
         /\ SubSeq(s, 1, k) \in Seq(S) /\ SubSeq(s, k + 1, Len(s)) \in Seq(S)
         /\ Len(SubSeq(s, 1, k)) = k /\ Len(SubSeq(s, k + 1, Len(s))) = Len(s) - k
<1> DEFINE a == SubSeq(s, 1, k)
           b == SubSeq(s, k + 1, Len(s))
<1>1. a \in Seq(S) /\ Len(a) = k
  OBVIOUS
<1>2. b \in Seq(S) /\ Len(b) = Len(s) - k
  OBVIOUS
<1>3. a \o b = SubSeq(s, 1, Len(s))
  <2>1. 1 \in 1 .. Len(s) + 1 /\ k \in 1 - 1 .. Len(s) /\ Len(s) \in k .. Len(s)
    OBVIOUS
  <2> QED
    BY <2>1, ConcatAdjacentSubSeq, Zenon
<1>4. a \o b = s
  BY <1>3, SubSeqFull, Zenon
<1> HIDE DEF a, b
<1> QED
  BY <1>1, <1>2, <1>4, Zenon DEF a, b

\* A Read of n bytes and what it leaves.
LEMMA CutAt ==
  ASSUME NEW s \in Seq(U), NEW n \in Nat
  PROVE  /\ SubSeq(s, 1, Min({n, Len(s)})) \in Seq(U) /\ SubSeq(s, n + 1, Len(s)) \in Seq(U)
         /\ SubSeq(s, 1, Min({n, Len(s)})) \o SubSeq(s, n + 1, Len(s)) = s
<1>0. Len(s) \in Nat
  OBVIOUS
<1>1. CASE n <= Len(s)
  <2>1. Min({n, Len(s)}) = n
    BY <1>0, <1>1, MinOfTwo
  <2> QED
    BY <1>1, <2>1, CutSeq, Zenon
<1>2. CASE ~(n <= Len(s))
  <2>1. Min({n, Len(s)}) = Len(s)
    BY <1>0, <1>2, MinOfTwo
  <2>2. SubSeq(s, n + 1, Len(s)) = <<>>
    BY <1>0, <1>2, SubSeqEmpty
  <2>3. SubSeq(s, 1, Len(s)) = s
    BY SubSeqFull, Zenon
  <2>4. s \o <<>> = s /\ <<>> \in Seq(U)
    OBVIOUS
  <2> QED
    BY <2>1, <2>2, <2>3, <2>4, Zenon
<1> QED
  BY <1>1, <1>2, Zenon

\* Sequences of bytes can be joined, and an empty one adds nothing.
LEMMA USeqs ==
  /\ \A a, b \in Seq(U) : a \o b \in Seq(U)
  /\ \A a \in Seq(U) : a \o <<>> = a /\ <<>> \o a = a
  /\ <<>> \in Seq(U)
OBVIOUS

\* In which order pieces are joined makes no difference.
LEMMA UAssoc == \A a, b, c \in Seq(U) : Assoc(a, b, c)
BY ConcatLaws, Zenon

-----------------------------------------------------------------------------
(* The types of the state.                                                 *)

\* The types of the state that the arguments below need.
SecTypes ==
  /\ encrypted \in BOOLEAN
  /\ overlapped \in BOOLEAN
  /\ blocks \in [Writers -> Nat]
  /\ step \in [Writers -> {"idle", "fill", "sealSize", "sealPayload", "write"}]
  /\ rest \in [Writers -> Seq(U)]
  /\ first \in [Writers -> BOOLEAN]
  /\ chunk \in [Writers -> Nat]
  /\ buf \in Records
  /\ nonce \in Nat
  /\ wire \in Seq(Records)
  /\ rnonce \in Nat
  /\ leftover \in Seq(U)
  /\ out \in Seq(U)
  /\ failed \in BOOLEAN
  /\ order \in Seq(Seq(U))

\* A packed block is a sequence of bytes.
LEMMA BlockType ==
  ASSUME NEW g \in Writers, NEW k \in Nat, NEW n \in Nat
  PROVE  Block(g, k, n) \in Seq(U)
BY DEF Block, U

\* What a Read of a record, or of the rest of one, gives.
LEMMA Delivered ==
  ASSUME NEW s \in Seq(U), NEW n \in ReadSizes, out \in Seq(U),
         out' = out \o SubSeq(s, 1, Min({n, Len(s)})), leftover' = SubSeq(s, n + 1, Len(s))
  PROVE  out' \in Seq(U) /\ leftover' \in Seq(U) /\ out' \o leftover' = out \o s
<1> DEFINE f == SubSeq(s, 1, Min({n, Len(s)}))
           r == SubSeq(s, n + 1, Len(s))
<1>1. n \in Nat
  BY SecureAssumption
<1>2. f \in Seq(U) /\ r \in Seq(U) /\ f \o r = s
  BY <1>1, CutAt, Zenon
<1> HIDE DEF f, r
<1>3. (out \o f) \o r = out \o (f \o r)
  <2>1. out \in Seq(U) /\ f \in Seq(U) /\ r \in Seq(U)
    BY <1>2
  <2>2. Assoc(out, f, r)
    BY ONLY <2>1, UAssoc, Zenon
  <2> QED
    BY <2>2, Zenon DEF Assoc
<1>4. out \o f \in Seq(U)
  BY <1>2, USeqs, Zenon
<1> QED
  BY <1>2, <1>3, <1>4, Zenon DEF f, r

\* Every step of a writer and of the reader keeps the types.
LEMMA SecTypesStep == ASSUME SecTypes, SecureNext PROVE SecTypes'
<1> USE DEF SecTypes, writing, readingVars
<1>0. encrypted' = encrypted
  BY Zenon DEF SecureNext
<1>1. ASSUME NEW g \in Writers, NEW n \in BlockSizes, Begin(g, n) PROVE SecTypes'
  <2>1. n \in Nat
    BY SecureAssumption
  <2>2. Block(g, blocks[g] + 1, n) \in Seq(U)
    BY <2>1, BlockType
  <2>3. overlapped' \in BOOLEAN
    BY <1>1, Zenon DEF Begin
  <2>4. /\ blocks' = [blocks EXCEPT ![g] = blocks[g] + 1]
        /\ rest' = [rest EXCEPT ![g] = Block(g, blocks[g] + 1, n)]
        /\ first' = [first EXCEPT ![g] = TRUE]
        /\ (step' = [step EXCEPT ![g] = "fill"] \/ step' = [step EXCEPT ![g] = "write"])
        /\ UNCHANGED <<chunk, buf, nonce, wire, readingVars, order>>
    BY <1>1, Zenon DEF Begin
  <2>5. blocks' \in [Writers -> Nat]
    BY <2>4
  <2>6. step' \in [Writers -> {"idle", "fill", "sealSize", "sealPayload", "write"}]
    BY <2>4, Zenon
  <2>7. rest' \in [Writers -> Seq(U)] /\ first' \in [Writers -> BOOLEAN]
    BY <2>2, <2>4
  <2>8. UNCHANGED <<chunk, buf, nonce, wire, rnonce, leftover, out, failed, order>>
    BY <2>4, Zenon
  <2> QED
    BY <1>0, <2>3, <2>5, <2>6, <2>7, <2>8, Zenon
<1>2. ASSUME NEW g \in Writers, Fill(g), overlapped' = overlapped PROVE SecTypes'
  <2> DEFINE n == Min({PayloadMax, Len(rest[g])})
  <2>1. rest[g] \in Seq(U) /\ Len(rest[g]) \in Nat /\ PayloadMax \in Nat
    BY SecureAssumption
  <2>2. n \in Nat /\ SubSeq(rest[g], 1, n) \in Seq(U)
    <3>1. n = IF PayloadMax <= Len(rest[g]) THEN PayloadMax ELSE Len(rest[g])
      BY <2>1, MinOfTwo, Zenon
    <3> HIDE DEF n
    <3>2. n \in Nat /\ n <= Len(rest[g])
      BY <2>1, <3>1
    <3> QED
      BY <2>1, <3>2, CutSeq, Zenon
  <2>3. /\ buf' = [size |-> n, sizeNonce |-> Plain, payloadNonce |-> Plain, payload |-> SubSeq(rest[g], 1, n)]
        /\ chunk' = [chunk EXCEPT ![g] = n]
        /\ step' = [step EXCEPT ![g] = "sealSize"]
        /\ UNCHANGED <<blocks, rest, first, nonce, wire, readingVars, order>>
    BY <1>2, Zenon DEF Fill
  <2> HIDE DEF n
  <2>4. buf' \in Records
    BY <2>2, <2>3 DEF Records, Plain
  <2> QED
    BY <1>0, <1>2, <2>2, <2>3, <2>4
<1>3. ASSUME NEW g \in Writers, SealSize(g) \/ SealPayload(g), overlapped' = overlapped PROVE SecTypes'
  <2>1. /\ (buf' = [buf EXCEPT !.sizeNonce = nonce] \/ buf' = [buf EXCEPT !.payloadNonce = nonce])
        /\ nonce' = nonce + 1
        /\ (step' = [step EXCEPT ![g] = "sealPayload"] \/ step' = [step EXCEPT ![g] = "write"])
        /\ UNCHANGED <<blocks, rest, first, chunk, wire, rnonce, leftover, out, failed, order>>
    BY <1>3, Zenon DEF SealSize, SealPayload
  <2>2. buf' \in Records
    BY <2>1, Zenon DEF Records
  <2>3. step' \in [Writers -> {"idle", "fill", "sealSize", "sealPayload", "write"}]
    BY <2>1, Zenon
  <2>4. nonce' \in Nat
    BY <2>1
  <2> QED
    BY <1>0, <1>3, <2>1, <2>2, <2>3, <2>4, Zenon
<1>4. ASSUME NEW g \in Writers, NoteOrder(g) PROVE first' \in [Writers -> BOOLEAN] /\ order' \in Seq(Seq(U))
  <2>1. /\ first' = [first EXCEPT ![g] = FALSE]
        /\ order' = Append(order, rest[g]) \/ order' = order
    BY <1>4 DEF NoteOrder
  <2>2. rest[g] \in Seq(U)
    OBVIOUS
  <2>3. Append(order, rest[g]) \in Seq(Seq(U))
    BY <2>2
  <2> QED
    BY <2>1, <2>3, Zenon
<1>5. ASSUME NEW g \in Writers, WriteRecord(g), overlapped' = overlapped PROVE SecTypes'
  <2>1. /\ wire' = Append(wire, buf) /\ NoteOrder(g)
        /\ rest' = [rest EXCEPT ![g] = SubSeq(rest[g], chunk[g] + 1, Len(rest[g]))]
        /\ step' = [step EXCEPT ![g] = "fill"]
        /\ UNCHANGED <<blocks, chunk, buf, nonce, rnonce, leftover, out, failed>>
    BY <1>5, Zenon DEF WriteRecord
  <2>2. SubSeq(rest[g], chunk[g] + 1, Len(rest[g])) \in Seq(U)
    <3>1. rest[g] \in Seq(U) /\ chunk[g] \in Nat
      OBVIOUS
    <3> QED
      BY <3>1, CutAt, Zenon
  <2> DEFINE t == SubSeq(rest[g], chunk[g] + 1, Len(rest[g]))
  <2> HIDE DEF t
  <2>3. rest' \in [Writers -> Seq(U)]
    BY <2>1, <2>2, Zenon DEF t
  <2>4. step' \in [Writers -> {"idle", "fill", "sealSize", "sealPayload", "write"}]
    BY <2>1
  <2>5. wire' \in Seq(Records)
    BY <2>1, RecordSeqs, Zenon
  <2> QED
    BY <1>0, <1>4, <1>5, <2>1, <2>3, <2>4, <2>5, Zenon
<1>6. ASSUME NEW g \in Writers, WriteMessage(g), overlapped' = overlapped PROVE SecTypes'
  <2> DEFINE m == [size |-> Len(rest[g]), sizeNonce |-> Plain, payload |-> rest[g], payloadNonce |-> Plain]
  <2>1. /\ wire' = Append(wire, m) /\ NoteOrder(g)
        /\ rest' = [rest EXCEPT ![g] = <<>>]
        /\ step' = [step EXCEPT ![g] = "idle"]
        /\ UNCHANGED <<blocks, chunk, buf, nonce, rnonce, leftover, out, failed>>
    BY <1>6, Zenon DEF WriteMessage
  <2>2. m \in Records
    BY DEF Records, Plain
  <2> HIDE DEF m
  <2>3. rest' \in [Writers -> Seq(U)]
    BY <2>1
  <2>4. step' \in [Writers -> {"idle", "fill", "sealSize", "sealPayload", "write"}]
    BY <2>1
  <2>5. wire' \in Seq(Records)
    BY <2>1, <2>2, RecordSeqs, Zenon
  <2> QED
    BY <1>0, <1>4, <1>6, <2>1, <2>3, <2>4, <2>5, Zenon
<1>7. ASSUME NEW g \in Writers, WriteEnds(g), overlapped' = overlapped PROVE SecTypes'
  BY <1>0, <1>7 DEF WriteEnds
<1>8. ASSUME NEW n \in ReadSizes, ReadLeftover(n), overlapped' = overlapped PROVE SecTypes'
  <2>1. /\ out' = out \o SubSeq(leftover, 1, Min({n, Len(leftover)})) /\ leftover' = SubSeq(leftover, n + 1, Len(leftover))
        /\ UNCHANGED <<blocks, step, rest, first, chunk, buf, nonce, wire, rnonce, failed, order>>
    BY <1>8, Zenon DEF ReadLeftover
  <2>2. out' \in Seq(U) /\ leftover' \in Seq(U)
    BY <2>1, Delivered, Zenon
  <2> QED
    BY <1>0, <1>8, <2>1, <2>2, Zenon
<1>9. ASSUME NEW n \in ReadSizes, ReadRecord(n) \/ ReadMessage(n), overlapped' = overlapped PROVE SecTypes'
  <2>1. wire # <<>> /\ wire' = Tail(wire) /\ UNCHANGED <<blocks, step, rest, first, chunk, buf, nonce, order>>
    BY <1>9, Zenon DEF ReadRecord, ReadMessage
  <2>2. Head(wire) \in Records /\ Head(wire).payload \in Seq(U) /\ wire' \in Seq(Records)
    BY <2>1, RecordSeqs, Zenon
  <2>3. out' \in Seq(U) /\ leftover' \in Seq(U)
    <3>1. CASE Delivers(Head(wire), n)
      BY <2>2, <3>1, Delivered, Zenon DEF Delivers
    <3>2. CASE out' = out /\ leftover' = leftover
      BY <3>2
    <3> QED
      BY <1>9, <3>1, <3>2, Zenon DEF ReadRecord, ReadMessage
  <2>4. rnonce' = rnonce + 2 \/ rnonce' = rnonce
    BY <1>9, Zenon DEF ReadRecord, ReadMessage
  <2>5. failed' = failed \/ failed' = TRUE
    BY <1>9, Zenon DEF ReadRecord, ReadMessage
  <2>6. rnonce' \in Nat
    BY <2>4
  <2> QED
    BY <1>0, <1>9, <2>1, <2>2, <2>3, <2>5, <2>6, Zenon
<1> QED
  BY <1>1, <1>2, <1>3, <1>5, <1>6, <1>7, <1>8, <1>9, Zenon DEF SecureNext

-----------------------------------------------------------------------------
(* One goroutine at a time.                                                *)

\* Who writes.  Without a cipher Begin is followed by the one Write of the
\* message.  With a cipher, and until two goroutines have been in ReadFrom at
\* the same time, at most one is.
Turns ==
  /\ ~encrypted => ~overlapped
  /\ ~encrypted => \A g \in Writers : step[g] = "idle" \/ (step[g] = "write" /\ first[g] = TRUE)
  /\ encrypted /\ ~overlapped =>
       \A g, h \in Writers : step[g] # "idle" /\ step[h] # "idle" => g = h

\* A step of one goroutine, which is in ReadFrom before.
GoesOn(g, a) ==
  /\ step[g] # "idle" /\ (~encrypted => a = "idle")
  /\ step' = [step EXCEPT ![g] = a]
  /\ (first' = first \/ first' = [first EXCEPT ![g] = FALSE])

\* Only Begin lets a goroutine in, and notes when another one is there.
LEMMA TurnsStep == ASSUME SecTypes, Turns, SecureNext PROVE Turns'
<1> USE DEF writing, readingVars
<1>0. /\ encrypted' = encrypted
      /\ step \in [Writers -> {"idle", "fill", "sealSize", "sealPayload", "write"}]
      /\ first \in [Writers -> BOOLEAN] /\ encrypted \in BOOLEAN /\ overlapped \in BOOLEAN
  BY Zenon DEF SecureNext, SecTypes
<1>1. ASSUME NEW g \in Writers, NEW n \in BlockSizes, Begin(g, n) PROVE Turns'
  <2>1. /\ step[g] = "idle"
        /\ step' = [step EXCEPT ![g] = IF encrypted THEN "fill" ELSE "write"]
        /\ first' = [first EXCEPT ![g] = TRUE]
        /\ (overlapped' <=> (overlapped \/ (encrypted /\ \E h \in Writers : step[h] # "idle")))
    BY <1>1, Zenon DEF Begin
  <2> QED
    BY ONLY <1>0, <2>1, Turns DEF Turns
<1>2. ASSUME NEW g \in Writers, NEW a, GoesOn(g, a), UNCHANGED overlapped PROVE Turns'
  <2>1. ASSUME NEW h \in Writers PROVE step'[h] = IF h = g THEN a ELSE step[h]
    BY <1>0, <1>2, Zenon DEF GoesOn
  <2>2. ASSUME NEW h \in Writers, h # g PROVE first'[h] = first[h]
    BY <1>0, <1>2, <2>2, Zenon DEF GoesOn
  <2>3. step[g] # "idle" /\ (~encrypted => a = "idle") /\ (overlapped' <=> overlapped) /\ (encrypted' <=> encrypted)
    BY <1>0, <1>2, Zenon DEF GoesOn
  <2> QED
    BY ONLY <2>1, <2>2, <2>3, Turns DEF Turns
<1>3. ASSUME UNCHANGED <<overlapped, step, first>> PROVE Turns'
  BY <1>0, <1>3, Zenon DEF Turns
<1>4. ASSUME NEW g \in Writers,
             Fill(g) \/ SealSize(g) \/ SealPayload(g) \/ WriteRecord(g) \/ WriteEnds(g) \/ WriteMessage(g)
      PROVE  \E a \in {"idle", "fill", "sealSize", "sealPayload", "write"} : GoesOn(g, a)
  <2>0. ~encrypted => step[g] \in {"idle", "write"}
    BY Zenon DEF Turns
  <2>1. CASE Fill(g)
    <3>1. GoesOn(g, "sealSize")
      BY <2>0, <2>1 DEF Fill, GoesOn
    <3> QED
      BY <3>1
  <2>2. CASE SealSize(g)
    <3>1. GoesOn(g, "sealPayload")
      BY <2>0, <2>2 DEF SealSize, GoesOn
    <3> QED
      BY <3>1
  <2>3. CASE SealPayload(g)
    <3>1. GoesOn(g, "write")
      BY <2>0, <2>3 DEF SealPayload, GoesOn
    <3> QED
      BY <3>1
  <2>4. CASE WriteRecord(g)
    <3>1. GoesOn(g, "fill")
      BY <2>4 DEF WriteRecord, NoteOrder, GoesOn
    <3> QED
      BY <3>1
  <2>5. CASE WriteEnds(g)
    <3>1. GoesOn(g, "idle")
      BY <2>5 DEF WriteEnds, GoesOn
    <3> QED
      BY <3>1
  <2>6. CASE WriteMessage(g)
    <3>1. GoesOn(g, "idle")
      BY <2>6 DEF WriteMessage, NoteOrder, GoesOn
    <3> QED
      BY <3>1
  <2> QED
    BY <1>4, <2>1, <2>2, <2>3, <2>4, <2>5, <2>6, Zenon
<1>5. ASSUME NEW n \in ReadSizes, ReadLeftover(n) \/ ReadRecord(n) \/ ReadMessage(n) PROVE UNCHANGED <<step, first>>
  BY <1>5, Zenon DEF ReadLeftover, ReadRecord, ReadMessage
<1> QED
  BY <1>1, <1>2, <1>3, <1>4, <1>5, Zenon DEF SecureNext

-----------------------------------------------------------------------------
(* The bytes on their way.                                                 *)

\* The reader's steps: what has come and will come stays what it is.
Total == (out \o leftover) \o Carried(wire)

\* All of these are bytes.
LEMMA TotalType == ASSUME SecTypes PROVE Total \in Seq(U) /\ out \o leftover \in Seq(U) /\ Carried(wire) \in Seq(U)
<1>1. out \in Seq(U) /\ leftover \in Seq(U) /\ wire \in Seq(Records)
  BY Zenon DEF SecTypes
<1> QED
  BY <1>1, USeqs, CarriedType, Zenon DEF Total

\* A Read that succeeds only moves bytes: from the wire or from leftover to
\* what it returns, what does not fit to leftover.
LEMMA ReadsTotal ==
  ASSUME SecTypes, NEW n \in ReadSizes,
         ReadLeftover(n) \/ (ReadRecord(n) /\ failed' = failed /\ ~failed) \/ ReadMessage(n)
  PROVE  Total' = Total
<1> USE DEF writing, readingVars
<1>0. out \in Seq(U) /\ leftover \in Seq(U) /\ wire \in Seq(Records)
  BY Zenon DEF SecTypes
<1>1. CASE ReadLeftover(n)
  <2>1. wire' = wire /\ out' = out \o SubSeq(leftover, 1, Min({n, Len(leftover)})) /\ leftover' = SubSeq(leftover, n + 1, Len(leftover))
    BY <1>1, Zenon DEF ReadLeftover
  <2>2. out' \o leftover' = out \o leftover
    BY <1>0, <2>1, Delivered, Zenon
  <2> QED
    BY <2>1, <2>2, Zenon DEF Total
<1>2. CASE (ReadRecord(n) /\ failed' = failed /\ ~failed) \/ ReadMessage(n)
  <2> DEFINE e == Head(wire).payload
             t == Carried(Tail(wire))
  <2>1. wire # <<>> /\ leftover = <<>> /\ wire' = Tail(wire) /\ Delivers(Head(wire), n)
    <3>1. CASE ReadMessage(n)
      BY <3>1, Zenon DEF ReadMessage
    <3>2. CASE ReadRecord(n) /\ failed' = failed /\ ~failed
      <4>1. Delivers(Head(wire), n) \/ failed' = TRUE
        BY <3>2, Zenon DEF ReadRecord
      <4>2. Delivers(Head(wire), n)
        BY <3>2, <4>1, Zenon
      <4> QED
        BY <3>2, <4>2, Zenon DEF ReadRecord
    <3> QED
      BY <1>2, <3>1, <3>2
  <2>2. e \in Seq(U) /\ t \in Seq(U) /\ Carried(wire) = e \o t
    BY <1>0, <2>1, RecordSeqs, CarriedHead, CarriedType, Zenon
  <2>3. out' \o leftover' = out \o e
    BY <1>0, <2>1, <2>2, Delivered, Zenon DEF Delivers
  <2>4. out \o leftover = out
    BY <1>0, <2>1, USeqs, Zenon
  <2>5. Total' = (out \o e) \o t /\ Total = out \o (e \o t)
    BY <2>1, <2>2, <2>3, <2>4, Zenon DEF Total
  <2> HIDE DEF e, t
  <2>6. (out \o e) \o t = out \o (e \o t)
    <3>1. out \in Seq(U) /\ e \in Seq(U) /\ t \in Seq(U)
      BY <1>0, <2>2, Zenon
    <3>2. Assoc(out, e, t)
      BY ONLY <3>1, UAssoc, Zenon
    <3> QED
      BY <3>2, Zenon DEF Assoc
  <2> QED
    BY <2>5, <2>6, Zenon
<1> QED
  BY <1>1, <1>2

\* A record written comes after the others.
LEMMA WritesTotal ==
  ASSUME SecTypes, NEW b \in Records, wire' = Append(wire, b), UNCHANGED <<out, leftover>>
  PROVE  Total' = Total \o b.payload
<1> DEFINE p == out \o leftover
           c == Carried(wire)
           e == b.payload
<1>1. wire \in Seq(Records) /\ p \in Seq(U) /\ c \in Seq(U) /\ e \in Seq(U)
  BY TotalType, RecordSeqs, Zenon DEF SecTypes
<1>2. Total = p \o c /\ Total' = p \o (c \o e)
  BY <1>1, CarriedAppend, Zenon DEF Total
<1> HIDE DEF p, c, e
<1>3. (p \o c) \o e = p \o (c \o e)
  <2>1. p \in Seq(U) /\ c \in Seq(U) /\ e \in Seq(U)
    BY <1>1, Zenon
  <2>2. Assoc(p, c, e)
    BY ONLY <2>1, UAssoc, Zenon
  <2> QED
    BY <2>2, Zenon DEF Assoc
<1> QED
  BY <1>2, <1>3, Zenon DEF e

-----------------------------------------------------------------------------
(* The buffer.                                                             *)

\* The goroutine has filled the buffer and has not yet written it.
Filled(g) == step[g] \in {"sealSize", "sealPayload", "write"}

\* The buffer holds the next bytes of the goroutine's block.
Holding(g) ==
  /\ chunk[g] <= Len(rest[g]) /\ buf.size = chunk[g]
  /\ buf.payload = SubSeq(rest[g], 1, chunk[g])

\* A lone goroutine finds in the buffer what it has put there.
FillInv == encrypted /\ ~overlapped => \A g \in Writers : Filled(g) => Holding(g)

\* Another goroutine's Fill would need a second one in ReadFrom.
LEMMA FillStep == ASSUME SecTypes, SecTypes', Turns, Turns', FillInv, SecureNext PROVE FillInv'
<1> USE DEF writing, readingVars
<1>0. /\ encrypted' = encrypted
      /\ step \in [Writers -> {"idle", "fill", "sealSize", "sealPayload", "write"}]
      /\ chunk \in [Writers -> Nat] /\ rest \in [Writers -> Seq(U)] /\ buf \in Records
  BY Zenon DEF SecureNext, SecTypes
<1> SUFFICES ASSUME encrypted, ~overlapped' PROVE \A g \in Writers : Filled(g)' => Holding(g)'
  BY <1>0, Zenon DEF FillInv
<1>a. ASSUME NEW g \in Writers, step'[g] # "idle" PROVE \A h \in Writers : h # g => ~Filled(h)'
  BY <1>0, <1>a DEF Turns, Filled
<1>1. ASSUME NEW g \in Writers, NEW n \in BlockSizes, Begin(g, n) PROVE \A h \in Writers : ~Filled(h)'
  <2>1. step' = [step EXCEPT ![g] = "fill"]
    BY <1>1, Zenon DEF Begin
  <2>2. step'[g] = "fill"
    BY <1>0, <2>1, Zenon
  <2> QED
    BY <1>a, <2>2 DEF Filled
<1>2. ASSUME NEW g \in Writers, Fill(g) PROVE \A h \in Writers : Filled(h)' => Holding(h)'
  <2> DEFINE n == Min({PayloadMax, Len(rest[g])})
  <2>1. rest[g] \in Seq(U) /\ Len(rest[g]) \in Nat /\ PayloadMax \in Nat
    BY <1>0, SecureAssumption
  <2>2. n = IF PayloadMax <= Len(rest[g]) THEN PayloadMax ELSE Len(rest[g])
    BY <2>1, MinOfTwo
  <2>3. /\ buf' = [size |-> n, sizeNonce |-> Plain, payloadNonce |-> Plain, payload |-> SubSeq(rest[g], 1, n)]
        /\ chunk' = [chunk EXCEPT ![g] = n] /\ rest' = rest
        /\ step' = [step EXCEPT ![g] = "sealSize"]
    BY <1>2, Zenon DEF Fill
  <2> HIDE DEF n
  <2>4. n <= Len(rest[g])
    BY <2>1, <2>2
  <2>5. chunk'[g] = n /\ step'[g] = "sealSize" /\ rest'[g] = rest[g]
    BY <1>0, <2>3, Zenon
  <2>6. buf'.size = n /\ buf'.payload = SubSeq(rest[g], 1, n)
    BY <2>3, Zenon
  <2>7. Holding(g)'
    BY <2>4, <2>5, <2>6, Zenon DEF Holding
  <2> QED
    BY <1>a, <2>5, <2>7
<1>3. ASSUME NEW g \in Writers, SealSize(g) \/ SealPayload(g), ~overlapped PROVE \A h \in Writers : Filled(h)' => Holding(h)'
  <2>1. /\ (buf' = [buf EXCEPT !.sizeNonce = nonce] \/ buf' = [buf EXCEPT !.payloadNonce = nonce])
        /\ (step[g] = "sealSize" \/ step[g] = "sealPayload")
        /\ (step' = [step EXCEPT ![g] = "sealPayload"] \/ step' = [step EXCEPT ![g] = "write"])
        /\ UNCHANGED <<rest, chunk>>
    BY <1>3, Zenon DEF SealSize, SealPayload
  <2>2. buf'.size = buf.size /\ buf'.payload = buf.payload
    BY <1>0, <2>1 DEF Records
  <2>3. Filled(g) /\ step'[g] # "idle"
    BY <1>0, <2>1 DEF Filled
  <2>4. Holding(g)
    BY <1>3, <2>3, Zenon DEF FillInv
  <2>5. Holding(g)'
    BY <2>1, <2>2, <2>4, Zenon DEF Holding
  <2> QED
    BY <1>a, <2>3, <2>5, Zenon
<1>4. ASSUME NEW g \in Writers, WriteRecord(g) PROVE \A h \in Writers : ~Filled(h)'
  <2>1. step' = [step EXCEPT ![g] = "fill"]
    BY <1>4, Zenon DEF WriteRecord
  <2>2. step'[g] = "fill"
    BY <1>0, <2>1, Zenon
  <2> QED
    BY <1>a, <2>2 DEF Filled
<1>5. ASSUME NEW g \in Writers, WriteEnds(g), ~overlapped PROVE \A h \in Writers : ~Filled(h)'
  <2>1. step' = [step EXCEPT ![g] = "idle"] /\ step[g] = "fill"
    BY <1>5, Zenon DEF WriteEnds
  <2>2. \A h \in Writers : h # g => step[h] = "idle"
    BY <1>5, <2>1 DEF Turns
  <2> QED
    BY <1>0, <2>1, <2>2 DEF Filled
<1>6. ASSUME NEW g \in Writers, WriteMessage(g) PROVE FALSE
  BY <1>6, Zenon DEF WriteMessage
<1>7. ASSUME NEW n \in ReadSizes, ReadLeftover(n) \/ ReadRecord(n) \/ ReadMessage(n), ~overlapped
      PROVE  \A h \in Writers : Filled(h)' => Holding(h)'
  <2>1. UNCHANGED <<step, chunk, rest, buf>>
    BY <1>7, Zenon DEF ReadLeftover, ReadRecord, ReadMessage
  <2> QED
    BY <1>7, <2>1, Zenon DEF FillInv, Filled, Holding
<1>8. \/ \E g \in Writers, n \in BlockSizes : Begin(g, n)
      \/ ~overlapped
  BY Zenon DEF SecureNext
<1>9. \/ \E g \in Writers, n \in BlockSizes : Begin(g, n)
      \/ \E g \in Writers : \/ Fill(g) \/ SealSize(g) \/ SealPayload(g) \/ WriteRecord(g)
                            \/ WriteEnds(g) \/ WriteMessage(g)
      \/ \E n \in ReadSizes : ReadLeftover(n) \/ ReadRecord(n) \/ ReadMessage(n)
  BY Zenon DEF SecureNext
<1> QED
  BY <1>1, <1>2, <1>3, <1>4, <1>5, <1>6, <1>7, <1>8, <1>9, Zenon

-----------------------------------------------------------------------------
(* The nonces.                                                             *)

\* The nonces of the two ends.
Base == rnonce + 2 * Len(wire)

\* The i-th record on the wire opens when its turn comes: each record takes two
\* nonces.
Numbered(i) ==
  /\ wire[i].sizeNonce = rnonce + 2 * (i - 1)
  /\ wire[i].payloadNonce = rnonce + 2 * (i - 1) + 1
  /\ wire[i].size = Len(wire[i].payload)

\* The writer's nonce is ahead of the reader's by two for each record on the
\* wire, and by those of the record in the making.
NonceInv ==
  ~overlapped =>
    /\ failed = FALSE
    /\ encrypted =>
         /\ (\A g \in Writers : step[g] \notin {"sealPayload", "write"}) => nonce = Base
         /\ \A g \in Writers : step[g] = "sealPayload" => nonce = Base + 1 /\ buf.sizeNonce = Base
         /\ \A g \in Writers : step[g] = "write" =>
              nonce = Base + 2 /\ buf.sizeNonce = Base /\ buf.payloadNonce = Base + 1
         /\ \A i \in 1 .. Len(wire) : Numbered(i)

\* Sealing counts the writer's nonce, opening the reader's: a record sealed by
\* a lone goroutine opens at the reader.
LEMMA NonceStep == ASSUME SecTypes, SecTypes', Turns, Turns', FillInv, NonceInv, SecureNext PROVE NonceInv'
<1> USE DEF writing, readingVars
<1>0. /\ (encrypted' <=> encrypted)
      /\ step \in [Writers -> {"idle", "fill", "sealSize", "sealPayload", "write"}]
      /\ chunk \in [Writers -> Nat] /\ rest \in [Writers -> Seq(U)] /\ buf \in Records
      /\ nonce \in Nat /\ rnonce \in Nat /\ wire \in Seq(Records)
      /\ (overlapped' <=> overlapped) \/ overlapped'
  <2>1. (encrypted' <=> encrypted)
    BY Zenon DEF SecureNext
  <2>2. (overlapped' <=> overlapped) \/ overlapped'
    BY Zenon DEF SecureNext, Begin
  <2> QED
    BY <2>1, <2>2, Zenon DEF SecTypes
<1> SUFFICES ASSUME ~overlapped', ~overlapped PROVE NonceInv'
  BY <1>0, Zenon DEF NonceInv
<1>b. Len(wire) \in Nat /\ Base \in Nat
  BY <1>0 DEF Base
<1>f. failed = FALSE
  BY Zenon DEF NonceInv
<1>a. ASSUME NEW g \in Writers, encrypted, step'[g] # "idle" PROVE \A h \in Writers : h # g => step'[h] = "idle"
  BY <1>0, <1>a DEF Turns
<1>c. ASSUME NEW g \in Writers, encrypted, step[g] # "idle" PROVE \A h \in Writers : h # g => step[h] = "idle"
  BY <1>0, <1>c DEF Turns
\* Steps that leave the nonces alone.
<1>d. ASSUME NEW g \in Writers, encrypted, step[g] \in {"idle", "fill", "sealSize"},
             step'[g] \in {"idle", "fill", "sealSize"},
             \A h \in Writers : h # g => step[h] = "idle" /\ step'[h] = "idle",
             UNCHANGED <<nonce, rnonce, wire, failed>>
      PROVE  NonceInv'
  <2>1. \A h \in Writers : step[h] \notin {"sealPayload", "write"} /\ step'[h] \notin {"sealPayload", "write"}
    BY <1>d
  <2>2. nonce = Base /\ \A i \in 1 .. Len(wire) : Numbered(i)
    BY <1>d, <2>1, Zenon DEF NonceInv
  <2>3. Base' = Base /\ nonce' = nonce /\ Len(wire)' = Len(wire)
        /\ \A i : Numbered(i)' <=> Numbered(i)
    BY <1>d, Zenon DEF Base, Numbered
  <2>4. failed' = FALSE
    BY <1>d, <1>f, Zenon
  <2>5. \A h \in Writers : step'[h] # "sealPayload" /\ step'[h] # "write"
    BY <2>1
  <2> QED
    BY <2>2, <2>3, <2>4, <2>5, Zenon DEF NonceInv
<1>e. ASSUME ~encrypted, failed' = failed PROVE NonceInv'
  BY <1>0, <1>e, <1>f, Zenon DEF NonceInv
<1>1. ASSUME NEW g \in Writers, NEW n \in BlockSizes, Begin(g, n) PROVE NonceInv'
  <2>1. CASE ~encrypted
    BY <1>1, <1>e, <2>1, Zenon DEF Begin
  <2>2. CASE encrypted
    <3>1. /\ \A h \in Writers : step[h] = "idle"
          /\ step' = [step EXCEPT ![g] = "fill"]
          /\ UNCHANGED <<nonce, rnonce, wire, failed>>
      BY <1>1, <2>2, Zenon DEF Begin
    <3>2. step[g] = "idle" /\ step'[g] = "fill" /\ \A h \in Writers : h # g => step[h] = "idle" /\ step'[h] = "idle"
      BY <1>0, <3>1, Zenon
    <3> QED
      BY <1>d, <2>2, <3>1, <3>2
  <2> QED
    BY <2>1, <2>2
<1>2. ASSUME NEW g \in Writers, Fill(g) \/ WriteEnds(g) PROVE NonceInv'
  <2>1. CASE ~encrypted
    BY <1>2, <1>e, <2>1, Zenon DEF Fill, WriteEnds
  <2>2. CASE encrypted
    <3>1. /\ step[g] = "fill"
          /\ (step' = [step EXCEPT ![g] = "sealSize"] \/ step' = [step EXCEPT ![g] = "idle"])
          /\ UNCHANGED <<nonce, rnonce, wire, failed>>
      BY <1>2, Zenon DEF Fill, WriteEnds
    <3>2. \A h \in Writers : h # g => step[h] = "idle"
      BY <1>c, <2>2, <3>1
    <3>3. (step'[g] = "sealSize" \/ step'[g] = "idle") /\ \A h \in Writers : h # g => step'[h] = "idle"
      BY <1>0, <3>1, <3>2, Zenon
    <3> QED
      BY <1>d, <2>2, <3>1, <3>2, <3>3
  <2> QED
    BY <2>1, <2>2
<1>3. ASSUME NEW g \in Writers, SealSize(g) PROVE NonceInv'
  <2>1. CASE ~encrypted
    BY <1>3, <1>e, <2>1, Zenon DEF SealSize
  <2>2. CASE encrypted
    <3>1. /\ step[g] = "sealSize" /\ step' = [step EXCEPT ![g] = "sealPayload"]
          /\ buf' = [buf EXCEPT !.sizeNonce = nonce] /\ nonce' = nonce + 1
          /\ UNCHANGED <<rnonce, wire, failed>>
      BY <1>3, Zenon DEF SealSize
    <3>2. \A h \in Writers : h # g => step[h] = "idle"
      BY <1>c, <2>2, <3>1
    <3>3. step'[g] = "sealPayload" /\ \A h \in Writers : h # g => step'[h] = "idle"
      BY <1>0, <3>1, <3>2, Zenon
    <3>4. \A h \in Writers : step[h] \notin {"sealPayload", "write"}
      BY <3>1, <3>2
    <3>5. nonce = Base /\ \A i \in 1 .. Len(wire) : Numbered(i)
      BY <2>2, <3>4, Zenon DEF NonceInv
    <3>6. Base' = Base /\ Len(wire)' = Len(wire) /\ \A i : Numbered(i)' <=> Numbered(i)
      BY <3>1, Zenon DEF Base, Numbered
    <3>7. buf'.sizeNonce = nonce
      BY <1>0, <3>1 DEF Records
    <3>8. failed' = FALSE /\ nonce' = Base' + 1 /\ buf'.sizeNonce = Base'
      BY <1>f, <3>1, <3>5, <3>6, <3>7, Zenon
    <3>9. \A h \in Writers : step'[h] # "write"
      BY <3>3
    <3> QED
      BY <3>3, <3>5, <3>6, <3>8, <3>9, Zenon DEF NonceInv
  <2> QED
    BY <2>1, <2>2
<1>4. ASSUME NEW g \in Writers, SealPayload(g) PROVE NonceInv'
  <2>1. CASE ~encrypted
    BY <1>4, <1>e, <2>1, Zenon DEF SealPayload
  <2>2. CASE encrypted
    <3>1. /\ step[g] = "sealPayload" /\ step' = [step EXCEPT ![g] = "write"]
          /\ buf' = [buf EXCEPT !.payloadNonce = nonce] /\ nonce' = nonce + 1
          /\ UNCHANGED <<rnonce, wire, failed>>
      BY <1>4, Zenon DEF SealPayload
    <3>2. \A h \in Writers : h # g => step[h] = "idle"
      BY <1>c, <2>2, <3>1
    <3>3. step'[g] = "write" /\ \A h \in Writers : h # g => step'[h] = "idle"
      BY <1>0, <3>1, <3>2, Zenon
    <3>5. nonce = Base + 1 /\ buf.sizeNonce = Base /\ \A i \in 1 .. Len(wire) : Numbered(i)
      BY <2>2, <3>1, Zenon DEF NonceInv
    <3>6. Base' = Base /\ Len(wire)' = Len(wire) /\ \A i : Numbered(i)' <=> Numbered(i)
      BY <3>1, Zenon DEF Base, Numbered
    <3>7. buf'.payloadNonce = nonce /\ buf'.sizeNonce = buf.sizeNonce
      BY <1>0, <3>1 DEF Records
    <3>8. nonce' = Base' + 2 /\ buf'.sizeNonce = Base' /\ buf'.payloadNonce = Base' + 1
      BY <1>b, <3>1, <3>5, <3>6, <3>7
    <3>9. (\A h \in Writers : step'[h] # "sealPayload") /\ failed' = FALSE
      BY <1>f, <3>1, <3>3
    <3>a. \E h \in Writers : ~(step'[h] \notin {"sealPayload", "write"})
      BY <3>3
    <3> QED
      BY <3>3, <3>5, <3>6, <3>8, <3>9, <3>a, Zenon DEF NonceInv
  <2> QED
    BY <2>1, <2>2
<1>5. ASSUME NEW g \in Writers, WriteMessage(g) PROVE NonceInv'
  BY <1>5, <1>e, Zenon DEF WriteMessage
<1>6. ASSUME NEW g \in Writers, WriteRecord(g) PROVE NonceInv'
  <2>1. /\ encrypted /\ step[g] = "write" /\ step' = [step EXCEPT ![g] = "fill"]
        /\ wire' = Append(wire, buf)
        /\ UNCHANGED <<nonce, rnonce, failed>>
    BY <1>6, Zenon DEF WriteRecord
  <2>2. \A h \in Writers : h # g => step[h] = "idle"
    BY <1>c, <2>1
  <2>3. \A h \in Writers : step'[h] = "idle" \/ step'[h] = "fill"
    BY <1>0, <2>1, <2>2, Zenon
  <2>4. /\ nonce = Base + 2 /\ buf.sizeNonce = Base /\ buf.payloadNonce = Base + 1
        /\ \A i \in 1 .. Len(wire) : Numbered(i)
    BY <2>1, Zenon DEF NonceInv
  <2>5. /\ Len(wire') = Len(wire) + 1 /\ wire'[Len(wire) + 1] = buf
        /\ \A i \in 1 .. Len(wire) : wire'[i] = wire[i]
    BY <1>0, <2>1, RecordSeqs, Zenon
  <2>6. Base' = Base + 2
    BY <1>0, <1>b, <2>1, <2>5 DEF Base
  <2>7. buf.size = Len(buf.payload)
    <3>1. Holding(g)
      BY <2>1 DEF FillInv, Filled
    <3>2. rest[g] \in Seq(U) /\ chunk[g] \in Nat
      BY <1>0
    <3>3. Len(SubSeq(rest[g], 1, chunk[g])) = chunk[g]
      BY <3>1, <3>2, CutSeq, Zenon DEF Holding
    <3> QED
      BY <3>1, <3>3, Zenon DEF Holding
  <2>8. ASSUME NEW i \in 1 .. Len(wire') PROVE Numbered(i)'
    <3>1. CASE i = Len(wire) + 1
      <4>1. wire'[i] = buf /\ rnonce' = rnonce
        BY <2>1, <2>5, <3>1
      <4>2. Base = rnonce + 2 * (i - 1)
        BY <1>0, <1>b, <3>1 DEF Base
      <4> QED
        BY <2>4, <2>7, <4>1, <4>2, Zenon DEF Numbered
    <3>2. CASE i \in 1 .. Len(wire)
      BY <2>1, <2>4, <2>5, <3>2, Zenon DEF Numbered
    <3> QED
      BY <1>b, <2>5, <3>1, <3>2
  <2>9. nonce' = Base' /\ failed' = FALSE
    BY <1>f, <2>1, <2>4, <2>6
  <2>a. \A h \in Writers : step'[h] # "sealPayload" /\ step'[h] # "write"
    BY <2>3
  <2> QED
    BY <2>8, <2>9, <2>a, Zenon DEF NonceInv
<1>7. ASSUME NEW n \in ReadSizes, ReadMessage(n) PROVE NonceInv'
  BY <1>7, <1>e, Zenon DEF ReadMessage
<1>8. ASSUME NEW n \in ReadSizes, ReadLeftover(n) PROVE NonceInv'
  <2>1. UNCHANGED <<step, buf, nonce, wire, rnonce, failed>>
    BY <1>8, Zenon DEF ReadLeftover
  <2> QED
    BY <1>0, <2>1, Zenon DEF NonceInv, Base, Numbered
<1>9. ASSUME NEW n \in ReadSizes, ReadRecord(n) PROVE NonceInv'
  <2>1. encrypted /\ wire # <<>> /\ wire' = Tail(wire) /\ UNCHANGED <<step, buf, nonce>>
    BY <1>9, Zenon DEF ReadRecord
  <2>2. /\ Len(wire) # 0 /\ Head(wire) = wire[1] /\ Len(wire') = Len(wire) - 1
        /\ \A i \in 1 .. Len(wire) - 1 : wire'[i] = wire[i + 1]
    BY <1>0, <2>1, RecordSeqs, Zenon
  <2>3. \A i \in 1 .. Len(wire) : Numbered(i)
    BY <2>1, Zenon DEF NonceInv
  <2>4. Opens(Head(wire))
    <3>1. 1 \in 1 .. Len(wire) /\ rnonce + 2 * (1 - 1) = rnonce
      BY <1>0, <1>b, <2>2
    <3>2. Numbered(1)
      BY <2>3, <3>1
    <3> QED
      BY <2>2, <3>1, <3>2, Zenon DEF Numbered, Opens
  <2>5. rnonce' = rnonce + 2 /\ failed' = failed
    BY <1>9, <2>4, Zenon DEF ReadRecord
  <2>6. Base' = Base
    BY <1>0, <1>b, <2>2, <2>5 DEF Base
  <2>7. ASSUME NEW i \in 1 .. Len(wire') PROVE Numbered(i)'
    <3>1. i + 1 \in 1 .. Len(wire) /\ i \in 1 .. Len(wire) - 1
      BY <1>b, <2>2
    <3>2. wire'[i] = wire[i + 1]
      BY <2>2, <3>1
    <3>3. rnonce + 2 * ((i + 1) - 1) = rnonce' + 2 * (i - 1)
      BY <1>0, <2>5
    <3>4. Numbered(i + 1)
      BY <2>3, <3>1
    <3> QED
      BY <3>2, <3>3, <3>4, Zenon DEF Numbered
  <2> QED
    BY <1>f, <2>1, <2>5, <2>6, <2>7, Zenon DEF NonceInv
<1> QED
  BY <1>1, <1>2, <1>3, <1>4, <1>5, <1>6, <1>7, <1>8, <1>9, Zenon DEF SecureNext

-----------------------------------------------------------------------------
(* The blocks.                                                             *)

\* Some of the goroutine's block is on the wire, or all of it, and its ReadFrom
\* has not returned.
Midway(g) == step[g] # "idle" /\ first[g] = FALSE

\* What has been read and what is on its way, with the rest of the block that
\* is being written, is the blocks in the order they began.
WholeInv ==
  ~overlapped =>
    /\ \A g \in Writers : Midway(g) => Total \o rest[g] = Joined(order)
    /\ (\A g \in Writers : ~Midway(g)) => Total = Joined(order)

\* A step that neither puts anything on the wire nor begins or ends a block.
LEMMA WholeStays ==
  ASSUME WholeInv, UNCHANGED <<overlapped, rest, order>>, Total' = Total,
         \A g \in Writers : Midway(g)' <=> Midway(g)
  PROVE  WholeInv'
BY Zenon DEF WholeInv

\* A record moves the first bytes of the rest to the wire; the first record of
\* a block appends the block to the order.
LEMMA RecordStep ==
  ASSUME SecTypes, Turns, FillInv, WholeInv, ~overlapped, NEW g \in Writers, WriteRecord(g)
  PROVE  Total' \o rest'[g] = Joined(order')
<1> USE DEF writing, readingVars
<1> DEFINE r == rest[g]
           p == SubSeq(r, 1, chunk[g])
           q == SubSeq(r, chunk[g] + 1, Len(r))
<1>1. /\ encrypted /\ step[g] = "write" /\ NoteOrder(g)
      /\ rest' = [rest EXCEPT ![g] = SubSeq(rest[g], chunk[g] + 1, Len(rest[g]))]
      /\ wire' = Append(wire, buf) /\ UNCHANGED <<out, leftover>>
  BY Zenon DEF WriteRecord
<1>2. Holding(g)
  BY <1>1 DEF FillInv, Filled
<1>3. r \in Seq(U) /\ chunk[g] \in Nat /\ order \in Seq(Seq(U)) /\ buf \in Records /\ rest'[g] = q
  BY <1>1, Zenon DEF SecTypes
<1>4. p \in Seq(U) /\ q \in Seq(U) /\ p \o q = r
  BY <1>2, <1>3, CutSeq, Zenon DEF Holding
<1>5. Total' = Total \o p
  <2>1. Total' = Total \o buf.payload
    BY <1>1, <1>3, WritesTotal, Zenon
  <2> QED
    BY <1>2, <2>1, Zenon DEF Holding
<1>6. Total \o r = Joined(order')
  <2>1. CASE first[g] = FALSE
    <3>1. Midway(g)
      BY <1>1, <2>1 DEF Midway
    <3>2. order' = order
      BY <1>1, <2>1 DEF NoteOrder
    <3> QED
      BY <3>1, <3>2, Zenon DEF WholeInv
  <2>2. CASE first[g] = TRUE
    <3>1. order' = Append(order, r)
      BY <1>1, <2>2 DEF NoteOrder
    <3>2. \A h \in Writers : step[h] # "idle" => h = g
      BY <1>1 DEF Turns
    <3>3. \A h \in Writers : ~Midway(h)
      BY <2>2, <3>2 DEF Midway
    <3>4. Total = Joined(order)
      BY <3>3, Zenon DEF WholeInv
    <3>5. Joined(Append(order, r)) = Joined(order) \o r
      BY <1>3, JoinedAppend, Zenon
    <3> QED
      BY <3>1, <3>4, <3>5, Zenon
  <2>3. first[g] \in BOOLEAN
    BY Zenon DEF SecTypes
  <2> QED
    BY <2>1, <2>2, <2>3, Zenon
<1>7. Total \in Seq(U)
  BY TotalType
<1> HIDE DEF p, q, r
<1>8. (Total \o p) \o q = Total \o (p \o q)
  <2> DEFINE t == Total
  <2> HIDE DEF t
  <2>1. t \in Seq(U) /\ p \in Seq(U) /\ q \in Seq(U)
    BY <1>4, <1>7, Zenon DEF t
  <2>2. (t \o p) \o q = t \o (p \o q)
    <3>1. Assoc(t, p, q)
      BY ONLY <2>1, UAssoc, Zenon
    <3> QED
      BY <3>1, Zenon DEF Assoc
  <2> QED
    BY <2>2, Zenon DEF t
<1> QED
  BY <1>3, <1>4, <1>5, <1>6, <1>8, Zenon

\* A message moves the whole block to the wire.
LEMMA MessageStep ==
  ASSUME SecTypes, Turns, WholeInv, ~overlapped, NEW g \in Writers, WriteMessage(g)
  PROVE  Total' = Joined(order')
<1> USE DEF writing, readingVars
<1> DEFINE r == rest[g]
           m == [size |-> Len(r), sizeNonce |-> Plain, payload |-> r, payloadNonce |-> Plain]
<1>1. /\ ~encrypted /\ step[g] = "write" /\ NoteOrder(g)
      /\ wire' = Append(wire, m) /\ UNCHANGED <<out, leftover>>
  BY Zenon DEF WriteMessage
<1>2. r \in Seq(U) /\ order \in Seq(Seq(U))
  BY Zenon DEF SecTypes
<1>3. m \in Records /\ m.payload = r
  BY <1>2 DEF Records, Plain
<1> HIDE DEF m
<1>4. Total' = Total \o r
  BY <1>1, <1>3, WritesTotal, Zenon
<1>5. \A h \in Writers : ~Midway(h)
  BY <1>1 DEF Turns, Midway
<1>6. first[g] = TRUE
  BY <1>1 DEF Turns
<1>7. order' = Append(order, r)
  BY <1>1, <1>6 DEF NoteOrder
<1>8. Total = Joined(order)
  BY <1>5, Zenon DEF WholeInv
<1>9. Joined(Append(order, r)) = Joined(order) \o r
  BY <1>2, JoinedAppend, Zenon
<1> QED
  BY <1>4, <1>7, <1>8, <1>9, Zenon

\* Every step keeps the blocks whole.
LEMMA WholeStep ==
  ASSUME SecTypes, SecTypes', Turns, Turns', FillInv, NonceInv, NonceInv', WholeInv, SecureNext
  PROVE  WholeInv'
<1> USE DEF writing, readingVars
<1>0. /\ step \in [Writers -> {"idle", "fill", "sealSize", "sealPayload", "write"}]
      /\ first \in [Writers -> BOOLEAN] /\ rest \in [Writers -> Seq(U)]
      /\ (encrypted' <=> encrypted)
      /\ (overlapped' <=> overlapped) \/ overlapped'
  <2>1. (encrypted' <=> encrypted)
    BY Zenon DEF SecureNext
  <2>2. (overlapped' <=> overlapped) \/ overlapped'
    BY Zenon DEF SecureNext, Begin
  <2> QED
    BY <2>1, <2>2, Zenon DEF SecTypes
<1> SUFFICES ASSUME ~overlapped', ~overlapped PROVE WholeInv'
  BY <1>0, Zenon DEF WholeInv
<1>a. ASSUME \A g \in Writers : ~Midway(g)', Total' = Joined(order') PROVE WholeInv'
  BY <1>a, Zenon DEF WholeInv
<1>b. ASSUME ~encrypted PROVE \A g \in Writers : ~Midway(g) /\ ~Midway(g)'
  BY <1>0, <1>b DEF Turns, Midway
<1>1. ASSUME NEW g \in Writers, NEW n \in BlockSizes, Begin(g, n) PROVE WholeInv'
  <2>1. /\ UNCHANGED <<out, leftover, wire, order>>
        /\ (encrypted => \A h \in Writers : step[h] = "idle")
        /\ first' = [first EXCEPT ![g] = TRUE]
        /\ step' = [step EXCEPT ![g] = IF encrypted THEN "fill" ELSE "write"]
    BY <1>1, Zenon DEF Begin
  <2>2. \A h \in Writers : ~Midway(h) /\ ~Midway(h)'
    BY <1>0, <1>b, <2>1, Zenon DEF Midway
  <2>3. Total' = Total /\ order' = order
    BY <2>1, Zenon DEF Total
  <2>4. Total = Joined(order)
    BY <2>2, Zenon DEF WholeInv
  <2> QED
    BY <1>a, <2>2, <2>3, <2>4, Zenon
<1>2. ASSUME NEW g \in Writers, Fill(g) \/ SealSize(g) \/ SealPayload(g), UNCHANGED overlapped PROVE WholeInv'
  <2>1. /\ UNCHANGED <<out, leftover, wire, order, rest, first>>
        /\ step[g] # "idle"
        /\ \E a \in {"sealSize", "sealPayload", "write"} : step' = [step EXCEPT ![g] = a]
    BY <1>2 DEF Fill, SealSize, SealPayload
  <2>2. \A h \in Writers : Midway(h)' <=> Midway(h)
    BY <1>0, <2>1 DEF Midway
  <2>3. Total' = Total
    BY <2>1, Zenon DEF Total
  <2> QED
    BY <1>2, <2>1, <2>2, <2>3, WholeStays, Zenon
<1>3. ASSUME NEW g \in Writers, WriteRecord(g) PROVE WholeInv'
  <2>1. encrypted /\ step[g] = "write" /\ NoteOrder(g) /\ step' = [step EXCEPT ![g] = "fill"]
    BY <1>3, Zenon DEF WriteRecord
  <2>2. \A h \in Writers : h # g => step[h] = "idle"
    BY <2>1 DEF Turns
  <2>3. /\ \A h \in Writers : h # g => ~Midway(h)'
        /\ Midway(g)'
    BY <1>0, <2>1, <2>2 DEF Midway, NoteOrder
  <2>4. Total' \o rest'[g] = Joined(order')
    BY <1>3, RecordStep, Zenon
  <2> QED
    BY <2>3, <2>4, Zenon DEF WholeInv
<1>4. ASSUME NEW g \in Writers, WriteEnds(g) PROVE WholeInv'
  <2>1. /\ step[g] = "fill" /\ rest[g] = <<>> /\ step' = [step EXCEPT ![g] = "idle"]
        /\ UNCHANGED <<out, leftover, wire, order>>
    BY <1>4, Zenon DEF WriteEnds
  <2>2. \A h \in Writers : h # g => step[h] = "idle"
    BY <2>1 DEF Turns
  <2>3. \A h \in Writers : ~Midway(h)' /\ (h # g => ~Midway(h))
    BY <1>0, <2>1, <2>2 DEF Midway
  <2>4. Total \o <<>> = Total
    BY TotalType, USeqs, Zenon
  <2>5. Total = Joined(order)
    <3>1. CASE Midway(g)
      BY <2>1, <2>4, <3>1, Zenon DEF WholeInv
    <3>2. CASE ~Midway(g)
      BY <2>3, <3>2, Zenon DEF WholeInv
    <3> QED
      BY <3>1, <3>2
  <2>6. Total' = Total /\ order' = order
    BY <2>1, Zenon DEF Total
  <2> QED
    BY <1>a, <2>3, <2>5, <2>6, Zenon
<1>5. ASSUME NEW g \in Writers, WriteMessage(g) PROVE WholeInv'
  <2>1. \A h \in Writers : ~Midway(h)'
    BY <1>5, <1>b, Zenon DEF WriteMessage
  <2> QED
    BY <1>5, <1>a, <2>1, MessageStep, Zenon
<1>6. ASSUME NEW n \in ReadSizes, ReadLeftover(n) \/ ReadRecord(n) \/ ReadMessage(n), UNCHANGED overlapped
      PROVE  WholeInv'
  <2>1. failed' = FALSE /\ failed = FALSE
    BY Zenon DEF NonceInv
  <2>2. UNCHANGED <<step, first, rest, order>>
    BY <1>6, Zenon DEF ReadLeftover, ReadRecord, ReadMessage
  <2>3. Total' = Total
    <3>1. failed' = failed /\ ~failed
      BY <2>1, Zenon
    <3> QED
      BY <1>6, <3>1, ReadsTotal, Zenon
  <2>4. \A h \in Writers : Midway(h)' <=> Midway(h)
    BY <2>2, Zenon DEF Midway
  <2> QED
    BY <1>6, <2>2, <2>3, <2>4, WholeStays, Zenon
<1> QED
  BY <1>1, <1>2, <1>3, <1>4, <1>5, <1>6, Zenon DEF SecureNext

-----------------------------------------------------------------------------
(* The theorems.                                                           *)

\* The inductive invariant.
SecureInv == SecTypes /\ Turns /\ FillInv /\ NonceInv /\ WholeInv

\* It holds when the handshake has ended.
LEMMA SecureStart == SecureInit => SecureInv
<1> SUFFICES ASSUME SecureInit PROVE SecureInv
  OBVIOUS
<1>0. /\ encrypted \in BOOLEAN /\ overlapped = FALSE
      /\ blocks = [g \in Writers |-> 0] /\ step = [g \in Writers |-> "idle"]
      /\ rest = [g \in Writers |-> <<>>] /\ first = [g \in Writers |-> FALSE]
      /\ chunk = [g \in Writers |-> 0]
      /\ buf = [size |-> 0, sizeNonce |-> Plain, payload |-> <<>>, payloadNonce |-> Plain]
      /\ nonce = 1 /\ rnonce = 1
      /\ wire = <<>> /\ leftover = <<>> /\ out = <<>> /\ failed = FALSE
      /\ order = <<>>
  BY Zenon DEF SecureInit
<1>1. SecTypes
  <2>1. buf \in Records
    BY <1>0 DEF Records, Plain
  <2>2. blocks \in [Writers -> Nat] /\ first \in [Writers -> BOOLEAN] /\ chunk \in [Writers -> Nat]
    BY <1>0
  <2>3. rest \in [Writers -> Seq(U)]
    BY <1>0, USeqs
  <2>4. step \in [Writers -> {"idle", "fill", "sealSize", "sealPayload", "write"}]
    BY <1>0
  <2>5. nonce \in Nat /\ rnonce \in Nat /\ wire \in Seq(Records) /\ leftover \in Seq(U) /\ out \in Seq(U) /\ order \in Seq(Seq(U))
    BY <1>0
  <2>6. failed \in BOOLEAN /\ encrypted \in BOOLEAN /\ overlapped \in BOOLEAN
    BY <1>0, Zenon
  <2> QED
    BY <2>1, <2>2, <2>3, <2>4, <2>5, <2>6, Zenon DEF SecTypes
<1>2. \A g \in Writers : step[g] = "idle"
  BY <1>0
<1>3. Turns
  BY <1>0, <1>2 DEF Turns
<1>4. FillInv
  BY <1>2 DEF FillInv, Filled
<1>5. NonceInv
  <2>1. Len(wire) = 0 /\ Base = nonce
    BY <1>0 DEF Base
  <2> QED
    BY <1>0, <1>2, <2>1 DEF NonceInv
<1>6. WholeInv
  <2>1. Total = <<>>
    BY <1>0, CarriedNone, USeqs, Zenon DEF Total
  <2> QED
    BY <1>0, <1>2, <2>1, JoinedNone, Zenon DEF WholeInv, Midway
<1> QED
  BY <1>1, <1>3, <1>4, <1>5, <1>6, Zenon DEF SecureInv

\* It depends on nothing but the variables.
LEMMA SecureStutter == ASSUME SecureInv, UNCHANGED secureVars PROVE SecureInv'
<1>1. UNCHANGED <<encrypted, overlapped, blocks, step, rest, first, chunk, buf, nonce, wire, rnonce, leftover, out, failed, order>>
  BY Zenon DEF secureVars, writing, readingVars
<1>2. SecTypes'
  BY <1>1, Zenon DEF SecureInv, SecTypes
<1>3. Turns' /\ FillInv'
  BY <1>1, Zenon DEF SecureInv, Turns, FillInv, Filled, Holding
<1>4. NonceInv'
  BY <1>1, Zenon DEF SecureInv, NonceInv, Base, Numbered
<1>5. WholeInv'
  BY <1>1, Zenon DEF SecureInv, WholeInv, Midway, Total
<1> QED
  BY <1>2, <1>3, <1>4, <1>5, Zenon DEF SecureInv

\* The writer's buffer and nonces, the wire and the reader agree in every
\* reachable state, until two goroutines are in ReadFrom at the same time.
THEOREM SecureKept == SecureSpec => []SecureInv
<1>1. SecureInv /\ [SecureNext]_secureVars => SecureInv'
  <2>1. ASSUME SecureInv, SecureNext PROVE SecureInv'
    <3>1. SecTypes'
      BY <2>1, SecTypesStep, Zenon DEF SecureInv
    <3>2. Turns'
      BY <2>1, TurnsStep, Zenon DEF SecureInv
    <3>3. FillInv'
      BY <2>1, <3>1, <3>2, FillStep, Zenon DEF SecureInv
    <3>4. NonceInv'
      BY <2>1, <3>1, <3>2, NonceStep, Zenon DEF SecureInv
    <3>5. WholeInv'
      BY <2>1, <3>1, <3>2, <3>4, WholeStep, Zenon DEF SecureInv
    <3> QED
      BY <3>1, <3>2, <3>3, <3>4, <3>5, Zenon DEF SecureInv
  <2> QED
    BY <2>1, SecureStutter, Zenon
<1> QED
  BY <1>1, SecureStart, PTL DEF SecureSpec

\* For any number of goroutines and any lengths, a record that does not open at
\* the reader needs two goroutines in ReadFrom at the same time: sealing and
\* opening keep their nonces in step.
THEOREM NoncesAgree == SecureSpec => []RecordsOpen
<1>1. SecureInv => RecordsOpen
  <2> SUFFICES ASSUME SecureInv, ~overlapped PROVE ~failed
    BY Zenon DEF RecordsOpen
  <2>1. failed = FALSE
    BY Zenon DEF SecureInv, NonceInv
  <2> QED
    BY <2>1
<1> QED
  BY <1>1, SecureKept, PTL

\* For any lengths of blocks, records and Reads, what Read returns is the
\* blocks written, each in one piece and unchanged, as long as no two
\* goroutines are in ReadFrom at the same time.
THEOREM ArriveWhole == SecureSpec => []BlocksArriveWhole
<1>1. SecureInv => BlocksArriveWhole
  <2> SUFFICES ASSUME SecureInv, ~overlapped PROVE IsPrefix(Total, Joined(order))
    BY Zenon DEF BlocksArriveWhole, Total, Carried, Payloads
  <2>1. Total \in Seq(U) /\ \A g \in Writers : rest[g] \in Seq(U)
    BY TotalType, Zenon DEF SecureInv, SecTypes
  <2>2. \E z \in Seq(U) : Total \o z = Joined(order)
    <3>1. CASE \E g \in Writers : Midway(g)
      BY <2>1, <3>1, Zenon DEF SecureInv, WholeInv
    <3>2. CASE \A g \in Writers : ~Midway(g)
      <4>1. Total \o <<>> = Total /\ <<>> \in Seq(U)
        BY <2>1, USeqs, Zenon
      <4> QED
        BY <3>2, <4>1, Zenon DEF SecureInv, WholeInv
    <3> QED
      BY <3>1, <3>2, Zenon
  <2>3. PICK z \in Seq(U) : Total \o z = Joined(order)
    BY <2>2
  <2> DEFINE t == Total
  <2> HIDE DEF t
  <2>4. t \in Seq(U)
    BY <2>1 DEF t
  <2>5. IsPrefix(t, t \o z)
    <3>1. Len(t) <= Len(t \o z) /\ SubSeq(t \o z, 1, Len(t)) = t
      BY <2>4
    <3>2. \A i \in 1 .. Len(t) : (t \o z)[i] = t[i]
      BY <2>4
    <3> QED
      BY <2>4, <3>1, <3>2 DEF IsPrefix
  <2> QED
    BY <2>3, <2>5, Zenon DEF t
<1> QED
  BY <1>1, SecureKept, PTL
=============================================================================
