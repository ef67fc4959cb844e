------------------------------- MODULE Lemmas -------------------------------
(***************************************************************************)
(* Facts the proofs of the components share: what a queue held as a        *)
(* sequence contains, and the accounting of one well, which any arrival    *)
(* keeps exact.                                                            *)
(***************************************************************************)
EXTENDS WellGaps, SequencesExt, SequenceTheorems, FiniteSetTheorems, TLAPS

(* What appending, prepending and taking the head do to the set of frames   *)
(* a queue holds.                                                           *)

LEMMA RangeAppend ==
  ASSUME NEW S, NEW s \in Seq(S), NEW e \in S
  PROVE  Range(Append(s, e)) = Range(s) \cup {e}
<1>1. /\ Append(s, e) \in Seq(S) /\ Len(Append(s, e)) = Len(s) + 1
      /\ Len(s) \in Nat
      /\ \A i \in 1 .. Len(s) : Append(s, e)[i] = s[i]
      /\ Append(s, e)[Len(s) + 1] = e
  BY AppendProperties, LenProperties
<1>2. /\ Range(s) = {s[i] : i \in 1 .. Len(s)}
      /\ Range(Append(s, e)) = {Append(s, e)[i] : i \in 1 .. Len(s) + 1}
  BY <1>1, RangeEquality
<1>3. \A i \in 1 .. Len(s) + 1 : i \in 1 .. Len(s) \/ i = Len(s) + 1
  BY <1>1
<1> QED BY <1>1, <1>2, <1>3

LEMMA RangeHeadTail ==
  ASSUME NEW S, NEW s \in Seq(S), s # <<>>
  PROVE  Range(s) = {Head(s)} \cup Range(Tail(s))
<1>1. Range(s) = {s[i] : i \in 1 .. Len(s)}
  BY RangeEquality
<1>2. /\ Tail(s) \in Seq(S) /\ Len(Tail(s)) = Len(s) - 1 /\ Len(s) \in Nat \ {0}
      /\ \A i \in 1 .. Len(Tail(s)) : Tail(s)[i] = s[i + 1]
      /\ Head(s) = s[1]
  BY HeadTailProperties, EmptySeq
<1>3. Range(Tail(s)) = {Tail(s)[i] : i \in 1 .. Len(Tail(s))}
  BY <1>2, RangeEquality
<1>4. \A i \in 1 .. Len(s) : s[i] \in {Head(s)} \cup Range(Tail(s))
  <2> SUFFICES ASSUME NEW i \in 1 .. Len(s), i # 1
               PROVE  s[i] \in Range(Tail(s))
    BY <1>2
  <2>1. i - 1 \in 1 .. Len(Tail(s)) /\ Tail(s)[i - 1] = s[i]
    BY <1>2
  <2> QED BY <2>1, <1>3
<1>5. \A i \in 1 .. Len(Tail(s)) : Tail(s)[i] \in Range(s)
  BY <1>1, <1>2
<1> QED BY <1>1, <1>2, <1>3, <1>4, <1>5

LEMMA RangeCons ==
  ASSUME NEW S, NEW s \in Seq(S), NEW e \in S
  PROVE  /\ <<e>> \o s \in Seq(S)
         /\ Len(<<e>> \o s) = Len(s) + 1
         /\ Range(<<e>> \o s) = {e} \cup Range(s)
<1>1. <<e>> \in Seq(S) /\ Len(<<e>>) = 1 /\ <<e>>[1] = e /\ Len(s) \in Nat
  BY LenProperties
<1>2. /\ <<e>> \o s \in Seq(S)
      /\ Len(<<e>> \o s) = Len(s) + 1
  BY <1>1, ConcatProperties
<1>3. Range(<<e>> \o s) = Range(<<e>>) \cup Range(s)
  BY <1>1, RangeConcatenation
<1>4. Range(<<e>>) = {<<e>>[i] : i \in 1 .. 1}
  BY <1>1, RangeEquality
<1>5. Range(<<e>>) = {e}
  BY <1>1, <1>4
<1> QED BY <1>2, <1>3, <1>5

\* Taking one element out of a queue, wherever it is.
LEMMA TakeOut ==
  ASSUME NEW S, NEW s \in Seq(S), NEW i \in 1 .. Len(s)
  PROVE  /\ RemoveAt(s, i) \in Seq(S) /\ Len(RemoveAt(s, i)) = Len(s) - 1
         /\ \A j \in 1 .. Len(s) - 1 :
              RemoveAt(s, i)[j] = IF j < i THEN s[j] ELSE s[j + 1]
         /\ Range(s) = Range(RemoveAt(s, i)) \cup {s[i]}
<1> DEFINE a == SubSeq(s, 1, i - 1)
           b == SubSeq(s, i + 1, Len(s))
           u == a \o b
<1>1. Len(s) \in Nat /\ i \in Nat /\ \A j \in 1 .. Len(s) : s[j] \in S
  BY LenProperties, ElementOfSeq
<1>2. /\ a \in Seq(S) /\ Len(a) = i - 1
      /\ \A j \in 1 .. i - 1 : a[j] = s[j]
  <2>1. \A j \in 1 .. i - 1 : s[j] \in S
    BY <1>1
  <2>2. /\ a \in Seq(S) /\ Len(a) = (IF 1 <= i - 1 THEN (i - 1) - 1 + 1 ELSE 0)
        /\ \A j \in 1 .. (i - 1) - 1 + 1 : a[j] = s[1 + j - 1]
    BY <1>1, <2>1, SubSeqProperties
  <2> QED BY <1>1, <2>2
<1>3. /\ b \in Seq(S) /\ Len(b) = Len(s) - i
      /\ \A j \in 1 .. Len(s) - i : b[j] = s[i + j]
  <2>1. \A j \in i + 1 .. Len(s) : s[j] \in S
    BY <1>1
  <2>2. /\ b \in Seq(S)
        /\ Len(b) = (IF i + 1 <= Len(s) THEN Len(s) - (i + 1) + 1 ELSE 0)
        /\ \A j \in 1 .. Len(s) - (i + 1) + 1 : b[j] = s[(i + 1) + j - 1]
    BY <1>1, <2>1, SubSeqProperties
  <2> QED BY <1>1, <2>2
<1> HIDE DEF a, b
<1>4. /\ u \in Seq(S) /\ Len(u) = Len(s) - 1
      /\ \A j \in 1 .. Len(s) - 1 : u[j] = IF j <= i - 1 THEN a[j] ELSE b[j - (i - 1)]
  <2>1. /\ u \in Seq(S) /\ Len(u) = Len(a) + Len(b)
        /\ \A j \in 1 .. Len(a) + Len(b) : u[j] = IF j <= Len(a) THEN a[j] ELSE b[j - Len(a)]
    BY <1>2, <1>3, ConcatProperties
  <2>2. Len(a) + Len(b) = Len(s) - 1
    BY <1>1, <1>2, <1>3
  <2> QED BY <1>2, <2>1, <2>2
<1> HIDE DEF u
<1>5. \A j \in 1 .. Len(s) - 1 : u[j] = IF j < i THEN s[j] ELSE s[j + 1]
  <2> TAKE j \in 1 .. Len(s) - 1
  <2>1. CASE j < i
    <3>1. j \in 1 .. i - 1 /\ j <= i - 1
      BY <1>1, <2>1
    <3> QED BY <1>2, <1>4, <2>1, <3>1
  <2>2. CASE ~(j < i)
    <3>1. j - (i - 1) \in 1 .. Len(s) - i /\ i + (j - (i - 1)) = j + 1 /\ ~(j <= i - 1)
      BY <1>1, <2>2
    <3> QED BY <1>3, <1>4, <2>2, <3>1
  <2> QED BY <2>1, <2>2
<1>6. Range(s) = {s[j] : j \in 1 .. Len(s)} /\ Range(u) = {u[j] : j \in 1 .. Len(s) - 1}
  BY <1>4, RangeEquality
<1>7. \A j \in 1 .. Len(s) : s[j] \in Range(u) \cup {s[i]}
  <2> TAKE j \in 1 .. Len(s)
  <2>1. CASE j < i
    BY <1>1, <1>5, <1>6, <2>1
  <2>2. CASE j = i
    BY <2>2
  <2>3. CASE i < j
    <3>1. j - 1 \in 1 .. Len(s) - 1 /\ ~(j - 1 < i) /\ (j - 1) + 1 = j
      BY <1>1, <2>3
    <3>2. u[j - 1] = s[j]
      BY <1>5, <3>1
    <3> QED BY <1>6, <3>1, <3>2
  <2> QED BY <1>1, <2>1, <2>2, <2>3
<1>8. \A j \in 1 .. Len(s) - 1 : u[j] \in Range(s)
  BY <1>1, <1>5, <1>6
<1>9. Range(s) = Range(u) \cup {s[i]}
  BY <1>6, <1>7, <1>8
<1>10. RemoveAt(s, i) = u
  BY DEF RemoveAt, u, a, b
<1> QED BY <1>4, <1>5, <1>9, <1>10

\* Dropping the first n elements of a queue.
LEMMA DropFirst ==
  ASSUME NEW S, NEW s \in Seq(S), NEW n \in 0 .. Len(s)
  PROVE  LET t == SubSeq(s, n + 1, Len(s))
         IN /\ t \in Seq(S) /\ Len(t) = Len(s) - n
            /\ \A j \in 1 .. Len(s) - n : t[j] = s[n + j]
            /\ Range(s) = Range(t) \cup {s[j] : j \in 1 .. n}
<1> DEFINE u == SubSeq(s, n + 1, Len(s))
<1>1. Len(s) \in Nat /\ n \in Nat /\ \A j \in n + 1 .. Len(s) : s[j] \in S
  BY LenProperties, ElementOfSeq
<1>2. /\ u \in Seq(S) /\ Len(u) = Len(s) - n
      /\ \A j \in 1 .. Len(s) - n : u[j] = s[n + j]
  <2>1. /\ u \in Seq(S)
        /\ Len(u) = (IF n + 1 <= Len(s) THEN Len(s) - (n + 1) + 1 ELSE 0)
        /\ \A j \in 1 .. Len(s) - (n + 1) + 1 : u[j] = s[(n + 1) + j - 1]
    BY <1>1, SubSeqProperties
  <2> QED BY <1>1, <2>1
<1> HIDE DEF u
<1>3. Range(s) = {s[j] : j \in 1 .. Len(s)} /\ Range(u) = {u[j] : j \in 1 .. Len(s) - n}
  BY <1>2, RangeEquality
<1>4. \A j \in 1 .. Len(s) : j \in 1 .. n \/ s[j] \in Range(u)
  <2> SUFFICES ASSUME NEW j \in 1 .. Len(s), n < j PROVE s[j] \in Range(u)
    BY <1>1
  <2>1. j - n \in 1 .. Len(s) - n /\ n + (j - n) = j
    BY <1>1
  <2>2. u[j - n] = s[j]
    BY <1>2, <2>1
  <2> QED BY <1>3, <2>1, <2>2
<1>5. \A j \in 1 .. Len(s) - n : u[j] \in Range(s)
  BY <1>1, <1>2, <1>3
<1>6. Range(s) = Range(u) \cup {s[j] : j \in 1 .. n}
  <2>1. \A j \in 1 .. n : s[j] \in Range(s)
    BY <1>1, <1>3
  <2>2. \A x \in Range(s) : x \in Range(u) \cup {s[j] : j \in 1 .. n}
    BY <1>3, <1>4
  <2>3. \A x \in Range(u) : x \in Range(s)
    BY <1>3, <1>5
  <2> QED BY <2>1, <2>2, <2>3
<1> QED BY <1>2, <1>6 DEF u

-----------------------------------------------------------------------------
(* Queues that hold nothing twice.                                          *)

\* The first n elements of a queue.
LEMMA TakeFirst ==
  ASSUME NEW S, NEW s \in Seq(S), NEW n \in 0 .. Len(s)
  PROVE  /\ SubSeq(s, 1, n) \in Seq(S) /\ Len(SubSeq(s, 1, n)) = n
         /\ \A j \in 1 .. n : SubSeq(s, 1, n)[j] = s[j]
<1>1. n \in Nat /\ n <= Len(s) /\ \A j \in 1 .. n : s[j] \in S
  BY LenProperties, ElementOfSeq
<1>2. /\ SubSeq(s, 1, n) \in Seq(S)
      /\ Len(SubSeq(s, 1, n)) = (IF 1 <= n THEN n - 1 + 1 ELSE 0)
      /\ \A j \in 1 .. n - 1 + 1 : SubSeq(s, 1, n)[j] = s[1 + j - 1]
  BY <1>1, SubSeqProperties
<1> QED BY <1>1, <1>2

\* The two parts of a split hold what the queue holds, each once.
LEMMA Split ==
  ASSUME NEW S, NEW s \in Seq(S), NEW n \in 0 .. Len(s)
  PROVE  LET a == SubSeq(s, 1, n)
             b == SubSeq(s, n + 1, Len(s))
         IN /\ a \in Seq(S) /\ Len(a) = n /\ b \in Seq(S) /\ Len(b) = Len(s) - n
            /\ Range(s) = Range(a) \cup Range(b)
            /\ IsInjective(s) =>
                 IsInjective(a) /\ IsInjective(b) /\ Range(a) \cap Range(b) = {}
<1> DEFINE a == SubSeq(s, 1, n)
           b == SubSeq(s, n + 1, Len(s))
<1>1. Len(s) \in Nat /\ n \in Nat /\ n <= Len(s) /\ DOMAIN s = 1 .. Len(s)
  BY LenProperties
<1>2. a \in Seq(S) /\ Len(a) = n /\ \A j \in 1 .. n : a[j] = s[j]
  BY TakeFirst
<1>3. /\ b \in Seq(S) /\ Len(b) = Len(s) - n /\ \A j \in 1 .. Len(s) - n : b[j] = s[n + j]
      /\ Range(s) = Range(b) \cup {s[j] : j \in 1 .. n}
  BY DropFirst
<1> HIDE DEF a, b
<1>4. Range(a) = {a[j] : j \in 1 .. n} /\ Range(b) = {b[j] : j \in 1 .. Len(s) - n}
  <2>1. Range(a) = {a[j] : j \in 1 .. Len(a)}
    BY <1>2, RangeEquality
  <2>2. Range(b) = {b[j] : j \in 1 .. Len(b)}
    BY <1>3, RangeEquality
  <2> QED BY <1>2, <1>3, <2>1, <2>2
<1>5. Range(a) = {s[j] : j \in 1 .. n}
  BY <1>2, <1>4
<1>6. DOMAIN a = 1 .. n /\ DOMAIN b = 1 .. Len(s) - n
  BY <1>2, <1>3, LenProperties
<1>7. ASSUME IsInjective(s)
      PROVE  IsInjective(a) /\ IsInjective(b) /\ Range(a) \cap Range(b) = {}
  <2>1. \A i, j \in 1 .. Len(s) : s[i] = s[j] => i = j
    BY <1>1, <1>7 DEF IsInjective
  <2>2. \A j \in 1 .. n : j \in 1 .. Len(s)
    BY <1>1
  <2>3. \A j \in 1 .. Len(s) - n : n + j \in 1 .. Len(s) /\ n + j \notin 1 .. n
    BY <1>1
  <2>4. IsInjective(a)
    BY <1>2, <1>6, <2>1, <2>2 DEF IsInjective
  <2>5. IsInjective(b)
    <3>1. ASSUME NEW i \in 1 .. Len(s) - n, NEW j \in 1 .. Len(s) - n, b[i] = b[j]
          PROVE  i = j
      <4>1. n + i = n + j
        BY <1>3, <2>1, <2>3, <3>1
      <4> QED BY <1>1, <4>1
    <3> QED BY <1>6, <3>1 DEF IsInjective
  <2>6. ASSUME NEW x \in Range(a), x \in Range(b) PROVE FALSE
    <3>1. PICK i \in 1 .. n : x = s[i]
      BY <1>5
    <3>2. PICK j \in 1 .. Len(s) - n : x = s[n + j]
      BY <1>3, <1>4, <2>6
    <3>3. i = n + j
      BY <2>1, <2>2, <2>3, <3>1, <3>2
    <3> QED BY <2>3, <3>3
  <2> QED BY <2>4, <2>5, <2>6
<1>8. /\ a \in Seq(S) /\ Len(a) = n /\ b \in Seq(S) /\ Len(b) = Len(s) - n
      /\ Range(s) = Range(a) \cup Range(b)
      /\ IsInjective(s) => IsInjective(a) /\ IsInjective(b) /\ Range(a) \cap Range(b) = {}
  BY <1>2, <1>3, <1>5, <1>7
<1> QED BY <1>8 DEF a, b

LEMMA ConcatAt ==
  ASSUME NEW S, NEW a \in Seq(S), NEW b \in Seq(S)
  PROVE  /\ \A i \in 1 .. Len(a) : (a \o b)[i] = a[i]
         /\ \A i \in 1 .. Len(b) : (a \o b)[Len(a) + i] = b[i]
<1> DEFINE t == a \o b
<1>1. Len(a) \in Nat /\ Len(b) \in Nat
  BY LenProperties
<1>2. \A i \in 1 .. Len(a) + Len(b) : t[i] = IF i <= Len(a) THEN a[i] ELSE b[i - Len(a)]
  BY ConcatProperties
<1> HIDE DEF t
<1>3. \A i \in 1 .. Len(a) : t[i] = a[i]
  <2>1. ASSUME NEW i \in 1 .. Len(a) PROVE t[i] = a[i]
    <3>1. i \in 1 .. Len(a) + Len(b) /\ i <= Len(a)
      BY <1>1
    <3> QED
      BY <1>2, <3>1
  <2> QED
    BY <2>1
<1>4. \A i \in 1 .. Len(b) : t[Len(a) + i] = b[i]
  <2>1. ASSUME NEW i \in 1 .. Len(b) PROVE t[Len(a) + i] = b[i]
    <3>1. Len(a) + i \in 1 .. Len(a) + Len(b) /\ ~(Len(a) + i <= Len(a))
          /\ Len(a) + i - Len(a) = i
      BY <1>1
    <3> QED
      BY <1>2, <3>1
  <2> QED
    BY <2>1
<1> QED
  BY <1>3, <1>4 DEF t

LEMMA ConcatRange ==
  ASSUME NEW S, NEW a \in Seq(S), NEW b \in Seq(S)
  PROVE  /\ a \o b \in Seq(S) /\ Len(a \o b) = Len(a) + Len(b)
         /\ Range(a \o b) = Range(a) \cup Range(b)
<1> DEFINE t == a \o b
<1>1. Len(a) \in Nat /\ Len(b) \in Nat
  BY LenProperties
<1>2. /\ t \in Seq(S) /\ Len(t) = Len(a) + Len(b)
      /\ \A i \in 1 .. Len(a) + Len(b) : t[i] = IF i <= Len(a) THEN a[i] ELSE b[i - Len(a)]
  BY ConcatProperties
<1>3. /\ Range(t) = {t[i] : i \in 1 .. Len(t)}
      /\ Range(a) = {a[i] : i \in 1 .. Len(a)}
      /\ Range(b) = {b[i] : i \in 1 .. Len(b)}
  BY <1>2, RangeEquality
<1> HIDE DEF t
<1>4. /\ \A i \in 1 .. Len(a) : t[i] = a[i]
      /\ \A i \in 1 .. Len(b) : t[Len(a) + i] = b[i]
  BY ConcatAt DEF t
<1>5. Range(a) \subseteq Range(t) /\ Range(b) \subseteq Range(t)
  <2>1. ASSUME NEW i \in 1 .. Len(a) PROVE a[i] \in Range(t)
    <3>1. i \in 1 .. Len(t)
      BY <1>1, <1>2
    <3> QED
      BY <1>3, <1>4, <3>1
  <2>2. ASSUME NEW i \in 1 .. Len(b) PROVE b[i] \in Range(t)
    <3>1. Len(a) + i \in 1 .. Len(t)
      BY <1>1, <1>2
    <3> QED
      BY <1>3, <1>4, <3>1
  <2> QED
    BY <1>3, <2>1, <2>2
<1>6. ASSUME NEW i \in 1 .. Len(t) PROVE t[i] \in Range(a) \cup Range(b)
  <2>1. CASE i <= Len(a)
    <3>1. i \in 1 .. Len(a) /\ t[i] = a[i]
      BY <1>1, <1>2, <2>1
    <3> QED
      BY <1>3, <3>1
  <2>2. CASE ~(i <= Len(a))
    <3>1. i - Len(a) \in 1 .. Len(b) /\ t[i] = b[i - Len(a)]
      BY <1>1, <1>2, <2>2
    <3> QED
      BY <1>3, <3>1
  <2> QED
    BY <2>1, <2>2
<1>7. Range(t) = Range(a) \cup Range(b)
  BY <1>3, <1>5, <1>6
<1> QED
  BY <1>2, <1>7 DEF t

LEMMA ConcatInjective ==
  ASSUME NEW S, NEW a \in Seq(S), NEW b \in Seq(S)
  PROVE  IsInjective(a \o b) <=>
           IsInjective(a) /\ IsInjective(b) /\ Range(a) \cap Range(b) = {}
<1> DEFINE t == a \o b
<1>1. /\ Len(a) \in Nat /\ Len(b) \in Nat /\ DOMAIN a = 1 .. Len(a) /\ DOMAIN b = 1 .. Len(b)
      /\ Range(a) = {a[i] : i \in 1 .. Len(a)} /\ Range(b) = {b[i] : i \in 1 .. Len(b)}
  BY LenProperties, RangeEquality
<1>2. /\ t \in Seq(S) /\ Len(t) = Len(a) + Len(b)
      /\ \A i \in 1 .. Len(a) + Len(b) : t[i] = IF i <= Len(a) THEN a[i] ELSE b[i - Len(a)]
  BY ConcatProperties
<1>3. DOMAIN t = 1 .. Len(a) + Len(b)
  BY <1>2, LenProperties
<1> HIDE DEF t
<1>4. \A i \in 1 .. Len(a) : i \in 1 .. Len(a) + Len(b) /\ t[i] = a[i]
  BY <1>1, <1>2
<1>5. \A i \in 1 .. Len(b) : Len(a) + i \in 1 .. Len(a) + Len(b) /\ t[Len(a) + i] = b[i]
  <2> TAKE i \in 1 .. Len(b)
  <2>1. /\ Len(a) + i \in 1 .. Len(a) + Len(b) /\ ~(Len(a) + i <= Len(a))
        /\ (Len(a) + i) - Len(a) = i
    BY <1>1
  <2> QED BY <1>2, <2>1
<1>6. ASSUME IsInjective(t)
      PROVE  IsInjective(a) /\ IsInjective(b) /\ Range(a) \cap Range(b) = {}
  <2>1. \A i, j \in 1 .. Len(a) + Len(b) : t[i] = t[j] => i = j
    BY <1>3, <1>6 DEF IsInjective
  <2>2. IsInjective(a)
    BY <1>1, <1>4, <2>1 DEF IsInjective
  <2>3. IsInjective(b)
    <3>1. ASSUME NEW i \in 1 .. Len(b), NEW j \in 1 .. Len(b), b[i] = b[j] PROVE i = j
      <4>1. Len(a) + i = Len(a) + j
        BY <1>5, <2>1, <3>1
      <4> QED BY <1>1, <4>1
    <3> QED BY <1>1, <3>1 DEF IsInjective
  <2>4. ASSUME NEW x \in Range(a), x \in Range(b) PROVE FALSE
    <3>1. PICK i \in 1 .. Len(a) : x = a[i]
      BY <1>1
    <3>2. PICK j \in 1 .. Len(b) : x = b[j]
      BY <1>1, <2>4
    <3>3. i = Len(a) + j
      BY <1>4, <1>5, <2>1, <3>1, <3>2, ZenonT(30)
    <3> QED BY <1>1, <3>3
  <2> QED BY <2>2, <2>3, <2>4
<1>7. ASSUME IsInjective(a), IsInjective(b), Range(a) \cap Range(b) = {}
      PROVE  IsInjective(t)
  <2>1. ASSUME NEW i \in 1 .. Len(a) + Len(b), NEW j \in 1 .. Len(a) + Len(b), t[i] = t[j]
        PROVE  i = j
    <3>1. ASSUME NEW k \in 1 .. Len(a) + Len(b), ~(k <= Len(a))
          PROVE  k - Len(a) \in 1 .. Len(b) /\ t[k] = b[k - Len(a)] /\ t[k] \in Range(b)
      <4>1. k - Len(a) \in 1 .. Len(b)
        BY <1>1, <3>1
      <4> QED BY <1>1, <1>2, <3>1, <4>1
    <3>2. ASSUME NEW k \in 1 .. Len(a) + Len(b), k <= Len(a)
          PROVE  k \in 1 .. Len(a) /\ t[k] = a[k] /\ t[k] \in Range(a)
      <4>1. k \in 1 .. Len(a)
        BY <1>1, <3>2
      <4> QED BY <1>1, <1>4, <4>1
    <3>3. CASE i <= Len(a) /\ j <= Len(a)
      BY <1>1, <1>7, <2>1, <3>2, <3>3 DEF IsInjective
    <3>4. CASE ~(i <= Len(a)) /\ ~(j <= Len(a))
      <4>1. i - Len(a) = j - Len(a)
        BY <1>1, <1>7, <2>1, <3>1, <3>4 DEF IsInjective
      <4> QED BY <1>1, <4>1
    <3>5. CASE (i <= Len(a)) # (j <= Len(a))
      BY <1>7, <2>1, <3>1, <3>2, <3>5
    <3> QED BY <3>3, <3>4, <3>5
  <2> QED BY <1>3, <2>1 DEF IsInjective
<1> QED BY <1>6, <1>7 DEF t

\* A queue with an element added at the end, or at the front, has no repetition
\* exactly when it had none and the element is new.
LEMMA AppendFresh ==
  ASSUME NEW S, NEW s \in Seq(S), NEW e \in S
  PROVE  IsInjective(Append(s, e)) <=> IsInjective(s) /\ e \notin Range(s)
<1> DEFINE n == Len(s)
           t == Append(s, e)
<1>1. /\ n \in Nat /\ DOMAIN s = 1 .. n /\ Range(s) = {s[i] : i \in 1 .. n}
  BY LenProperties, RangeEquality
<1>2. /\ t \in Seq(S) /\ Len(t) = n + 1 /\ t[n + 1] = e
      /\ \A i \in 1 .. n : t[i] = s[i]
  BY AppendProperties
<1>3. DOMAIN t = 1 .. n + 1
  BY <1>2, LenProperties
<1> HIDE DEF n, t
<1>4. /\ n + 1 \in 1 .. n + 1 /\ \A i \in 1 .. n : i \in 1 .. n + 1 /\ i # n + 1
      /\ \A i \in 1 .. n + 1 : i \in 1 .. n \/ i = n + 1
  BY <1>1
<1>5. ASSUME IsInjective(t) PROVE IsInjective(s) /\ e \notin Range(s)
  <2>1. IsInjective(s)
    BY <1>1, <1>2, <1>3, <1>4, <1>5 DEF IsInjective
  <2>2. \A i \in 1 .. n : s[i] # e
    BY <1>2, <1>3, <1>4, <1>5 DEF IsInjective
  <2> QED BY <1>1, <2>1, <2>2
<1>6. ASSUME IsInjective(s), e \notin Range(s) PROVE IsInjective(t)
  <2>1. ASSUME NEW i \in 1 .. n + 1, NEW j \in 1 .. n + 1, t[i] = t[j] PROVE i = j
    <3>1. CASE i \in 1 .. n /\ j \in 1 .. n
      BY <1>1, <1>2, <1>6, <2>1, <3>1 DEF IsInjective
    <3>2. CASE i = n + 1 \/ j = n + 1
      BY <1>1, <1>2, <1>4, <1>6, <2>1, <3>2
    <3> QED BY <1>4, <3>1, <3>2
  <2> QED BY <1>3, <2>1 DEF IsInjective
<1>7. IsInjective(t) <=> IsInjective(s) /\ e \notin Range(s)
  BY <1>5, <1>6
<1> QED BY <1>7 DEF t

LEMMA ConsFresh ==
  ASSUME NEW S, NEW s \in Seq(S), NEW e \in S
  PROVE  IsInjective(<<e>> \o s) <=> IsInjective(s) /\ e \notin Range(s)
<1> DEFINE t == <<e>>
<1>1. t \in Seq(S) /\ Range(t) = {e} /\ IsInjective(t)
  BY DEF Range, IsInjective
<1> HIDE DEF t
<1>2. IsInjective(t \o s) <=>
        IsInjective(t) /\ IsInjective(s) /\ Range(t) \cap Range(s) = {}
  BY <1>1, ConcatInjective
<1> QED BY <1>1, <1>2 DEF t

\* The head of a queue without repetition is not in its tail.
LEMMA HeadTailFresh ==
  ASSUME NEW S, NEW s \in Seq(S), s # <<>>, IsInjective(s)
  PROVE  IsInjective(Tail(s)) /\ Head(s) \notin Range(Tail(s))
<1> DEFINE h == Head(s)
           t == Tail(s)
<1>1. h \in S /\ t \in Seq(S) /\ s = <<h>> \o t
  BY HeadTailProperties
<1> HIDE DEF h, t
<1>2. IsInjective(t) /\ h \notin Range(t)
  BY <1>1, ConsFresh
<1> QED BY <1>2 DEF h, t

LEMMA ReverseSame ==
  ASSUME NEW S, NEW s \in Seq(S)
  PROVE  /\ Reverse(s) \in Seq(S) /\ Len(Reverse(s)) = Len(s) /\ Range(Reverse(s)) = Range(s)
         /\ IsInjective(s) => IsInjective(Reverse(s))
<1> DEFINE n == Len(s)
           r == Reverse(s)
<1>1. n \in Nat /\ DOMAIN s = 1 .. n /\ (\A i \in 1 .. n : s[i] \in S)
      /\ Range(s) = {s[i] : i \in 1 .. n}
  BY LenProperties, ElementOfSeq, RangeEquality
<1>2. r = [i \in 1 .. n |-> s[(n - i) + 1]]
  BY DEF Reverse
<1> HIDE DEF n, r
<1>3. \A i \in 1 .. n : (n - i) + 1 \in 1 .. n /\ (n - ((n - i) + 1)) + 1 = i
  BY <1>1
<1>4. r \in [1 .. n -> S] /\ \A i \in 1 .. n : r[i] = s[(n - i) + 1]
  BY <1>1, <1>2, <1>3
<1>5. r \in Seq(S)
  BY <1>1, <1>4, SeqDef
<1>6. DOMAIN r = 1 .. n
  BY <1>2
<1>7. Len(r) = n
  BY <1>1, <1>5, <1>6, LenProperties
<1>8. Range(r) = {r[i] : i \in 1 .. n}
  BY <1>5, <1>7, RangeEquality
<1>9. \A i \in 1 .. n : s[i] \in Range(r) /\ r[i] \in Range(s)
  BY <1>1, <1>3, <1>4, <1>8
<1>10. Range(r) = Range(s)
  BY <1>1, <1>8, <1>9
<1>11. ASSUME IsInjective(s) PROVE IsInjective(r)
  <2>1. ASSUME NEW i \in 1 .. n, NEW j \in 1 .. n, r[i] = r[j] PROVE i = j
    <3>1. (n - i) + 1 = (n - j) + 1
      BY <1>1, <1>3, <1>4, <1>11, <2>1 DEF IsInjective
    <3> QED BY <1>1, <3>1
  <2> QED BY <1>6, <2>1 DEF IsInjective
<1> QED BY <1>5, <1>7, <1>10, <1>11 DEF r, n

\* What a queue holds, put in some other order.
LEMMA InSomeOrder ==
  ASSUME NEW S, NEW s \in Seq(S), NEW T \in SUBSET Range(s), NEW o \in SetToSeqs(T)
  PROVE  /\ o \in Seq(T) /\ o \in Seq(S) /\ IsInjective(o) /\ Range(o) = T
         /\ Len(o) <= Len(s)
<1> DEFINE n == Len(s)
           k == Cardinality(T)
<1>1. n \in Nat /\ Range(s) = {s[i] : i \in 1 .. n} /\ \A i \in 1 .. n : s[i] \in S
  BY LenProperties, RangeEquality, ElementOfSeq
<1>2. \A m \in Nat : IsFiniteSet(1 .. m) /\ Cardinality(1 .. m) = m
  <2>1. \A m \in Nat : Cardinality(1 .. m) = IF 1 > m THEN 0 ELSE m - 1 + 1
    BY FS_Interval
  <2>2. \A m \in Nat : IsFiniteSet(1 .. m)
    BY FS_Interval
  <2> QED BY <2>1, <2>2
<1>3. IsFiniteSet(T) /\ k \in Nat /\ k <= n
  <2>1. PICK f : f \in [1 .. n -> Range(s)] /\ \A i \in 1 .. n : f[i] = s[i]
    <3> DEFINE g == [i \in 1 .. n |-> s[i]]
    <3>1. g \in [1 .. n -> Range(s)] /\ \A i \in 1 .. n : g[i] = s[i]
      BY <1>1
    <3> QED BY <3>1
  <2>2. f \in Surjection(1 .. n, Range(s))
    BY <1>1, <2>1 DEF Surjection
  <2>3. IsFiniteSet(Range(s)) /\ Cardinality(Range(s)) <= n
    BY <1>1, <1>2, <2>2, FS_Surjection
  <2>4. IsFiniteSet(T) /\ Cardinality(T) <= Cardinality(Range(s))
    BY <2>3, FS_Subset
  <2>5. k \in Nat /\ Cardinality(Range(s)) \in Nat
    BY <2>3, <2>4, FS_CardinalityType
  <2> QED BY <1>1, <2>3, <2>4, <2>5
<1>4. o \in [1 .. k -> T] /\ \A i, j \in 1 .. k : i # j => o[i] # o[j]
  BY DEF SetToSeqs
<1>5. o \in Seq(T) /\ DOMAIN o = 1 .. k
  BY <1>3, <1>4, SeqDef
<1>6. Len(o) = k
  BY <1>3, <1>5, LenProperties
<1>7. IsInjective(o)
  BY <1>4, <1>5 DEF IsInjective
<1>8. o \in Injection(1 .. k, T)
  BY <1>4, <1>7 DEF Injection
<1>9. o \in Surjection(1 .. k, T)
  <2>1. Cardinality(1 .. k) = Cardinality(T)
    BY <1>2, <1>3
  <2> QED BY <1>3, <1>8, <2>1, FS_Injection
<1>10. Range(o) = T
  <2>1. Range(o) = {o[i] : i \in 1 .. k}
    BY <1>5, <1>6, RangeEquality
  <2> QED BY <1>9, <2>1 DEF Surjection
<1>11. o \in Seq(S)
  <2>1. T \subseteq S
    BY <1>1
  <2> QED BY <1>5, <2>1, SeqMonotonic
<1> QED BY <1>3, <1>5, <1>6, <1>7, <1>10, <1>11

-----------------------------------------------------------------------------
(* The accounting of a well.                                                *)

\* The accounting w measured against S, the frames of its generation it knows
\* to have landed: the open ranges are the maximal runs of missing frames.
Shaped(w) ==
  \A r \in w.open :
    /\ 1 <= r.from /\ r.from <= r.to /\ r.to < w.next
    /\ \A q \in w.open : q # r => r.to + 1 < q.from \/ q.to + 1 < r.from
Sound(w, S) == \A r \in w.open : \A n \in S : n < r.from \/ r.to < n
Complete(w, S) ==
  w.untracked = 0 =>
    \A n \in Nat : 1 <= n /\ n < w.next => n \in S \/ \E r \in w.open : r.from <= n /\ n <= r.to
Watermarked(w, S) ==
  /\ \A n \in S : 1 <= n /\ n < w.next
  /\ w.next > 1 => w.next - 1 \in S
WellInv(w, S) ==
  /\ w \in Well /\ S \subseteq Nat
  /\ Shaped(w) /\ Sound(w, S) /\ Complete(w, S) /\ Watermarked(w, S)

LEMMA FreshWell ==
  ASSUME NEW e \in Nat
  PROVE  WellInv(NewWell(e, 1), {}) /\ NewWell(e, 1).next = 1
BY DEF NewWell, WellInv, Well, GapRange, Shaped, Sound, Complete, Watermarked

LEMMA SeededWell ==
  ASSUME NEW e \in Nat, NEW m \in Nat
  PROVE  WellInv(NewWell(e, m + 1), 1 .. m)
BY DEF NewWell, WellInv, Well, GapRange, Shaped, Sound, Complete, Watermarked

\* An arrival above the watermark: the gap it opens ends below it, and does
\* not touch the older ranges, because the frame under the watermark has
\* been seen.
LEMMA OpenKeeps ==
  ASSUME NEW w, NEW S, NEW s \in Nat, WellInv(w, S), w.next >= 1, s > w.next
  PROVE  WellInv(OpenGap(w, s), S \cup {s})
<1> DEFINE v == OpenGap(w, s)
           g == Span(w.next, s - 1)
<1>1. w \in Well /\ w.next \in Nat /\ w.open \subseteq GapRange /\ w.untracked \in Nat
  BY DEF WellInv, Well
<1>2. g \in GapRange /\ g.from = w.next /\ g.to = s - 1
  BY <1>1 DEF Span, GapRange
<1>3. \A r \in w.open : r.from \in Nat /\ r.to \in Nat /\ r.to + 1 < w.next
  <2>1. \A r \in w.open : r.from \in Nat /\ r.to \in Nat /\ r.from >= 1 /\ r.from <= r.to /\ r.to < w.next
    BY <1>1 DEF WellInv, Shaped, GapRange
  <2>2. w.next > 1 => w.next - 1 \in S
    BY DEF WellInv, Watermarked
  <2>3. \A r \in w.open : \A n \in S : n < r.from \/ r.to < n
    BY DEF WellInv, Sound
  <2> QED BY <1>1, <2>1, <2>2, <2>3
<1>4. CASE Cardinality(w.open) < MaxOpen
  <2>1. /\ v.epoch = w.epoch /\ v.untracked = w.untracked
        /\ v.open = w.open \cup {g} /\ v.next = s + 1
    BY <1>1, <1>4 DEF OpenGap, Well
  <2>2. v = [epoch |-> w.epoch, next |-> s + 1,
             open |-> w.open \cup {g}, untracked |-> w.untracked]
    BY <1>1, <1>4 DEF OpenGap, Well
  <2> HIDE DEF v, g
  <2>7. v \in Well
    BY <1>1, <1>2, <2>2 DEF Well
  <2>3. Shaped(v)
    BY <1>1, <1>2, <1>3, <2>1 DEF WellInv, Shaped
  <2>4. Sound(v, S \cup {s})
    <3>1. \A n \in S : n \in Nat /\ n < w.next
      BY DEF WellInv, Watermarked
    <3>2. ASSUME NEW r \in v.open, NEW n \in S \cup {s} PROVE n < r.from \/ r.to < n
      <4>1. CASE r = g
        BY <1>1, <1>2, <3>1, <4>1
      <4>2. CASE r \in w.open /\ n \in S
        BY <4>2 DEF WellInv, Sound
      <4>3. CASE r \in w.open /\ n = s
        BY <1>1, <1>3, <4>3
      <4> QED BY <2>1, <4>1, <4>2, <4>3
    <3> QED BY <3>2 DEF Sound
  <2>5. Complete(v, S \cup {s})
    <3>1. SUFFICES ASSUME v.untracked = 0, NEW n \in Nat, 1 <= n, n < v.next
                   PROVE  n \in S \cup {s} \/ \E r \in v.open : r.from <= n /\ n <= r.to
      BY DEF Complete
    <3>2. CASE n < w.next
      BY <2>1, <3>1, <3>2 DEF WellInv, Complete
    <3>3. CASE w.next <= n /\ n < s
      BY <1>1, <1>2, <2>1, <3>3
    <3> QED BY <1>1, <2>1, <3>1, <3>2, <3>3
  <2>6. Watermarked(v, S \cup {s})
    BY <1>1, <2>1 DEF WellInv, Watermarked
  <2>8. S \cup {s} \subseteq Nat
    BY DEF WellInv
  <2> QED BY <2>3, <2>4, <2>5, <2>6, <2>7, <2>8 DEF WellInv, v
<1>5. CASE ~(Cardinality(w.open) < MaxOpen)
  <2>1. /\ v.epoch = w.epoch /\ v.untracked = w.untracked + 1
        /\ v.open = w.open /\ v.next = s + 1
    BY <1>1, <1>5 DEF OpenGap, Well
  <2>2. v = [epoch |-> w.epoch, next |-> s + 1,
             open |-> w.open, untracked |-> w.untracked + 1]
    BY <1>1, <1>5 DEF OpenGap, Well
  <2> HIDE DEF v, g
  <2>7. v \in Well
    BY <1>1, <2>2 DEF Well
  <2>3. Shaped(v)
    BY <1>1, <1>3, <2>1 DEF WellInv, Shaped
  <2>4. Sound(v, S \cup {s})
    <3>1. ASSUME NEW r \in w.open, NEW n \in S \cup {s} PROVE n < r.from \/ r.to < n
      <4>1. CASE n \in S
        BY <4>1 DEF WellInv, Sound
      <4>2. CASE n = s
        BY <1>1, <1>3, <4>2
      <4> QED BY <4>1, <4>2
    <3> QED BY <2>1, <3>1 DEF Sound
  <2>5. Complete(v, S \cup {s})
    BY <1>1, <2>1 DEF Complete
  <2>6. Watermarked(v, S \cup {s})
    BY <1>1, <2>1 DEF WellInv, Watermarked
  <2>8. S \cup {s} \subseteq Nat
    BY DEF WellInv
  <2> QED BY <2>3, <2>4, <2>5, <2>6, <2>7, <2>8 DEF WellInv, v
<1> QED BY <1>4, <1>5

\* The range found is the one that holds s, if there is one.
LEMMA ContainingIsThe ==
  ASSUME NEW w, NEW S, NEW s \in Nat, WellInv(w, S)
  PROVE  /\ \A r \in w.open : r.from <= s /\ s <= r.to => Containing(w.open, s) = {r}
         /\ \A r \in Containing(w.open, s) : r \in w.open /\ r.from <= s /\ s <= r.to
<1>1. w.open \subseteq GapRange
  BY DEF WellInv, Well
<1>2. \A r, q \in w.open : q # r => r.to + 1 < q.from \/ q.to + 1 < r.from
  BY DEF WellInv, Shaped
<1>3. \A r \in w.open : r.from \in Nat /\ r.to \in Nat /\ r.from <= r.to
  BY <1>1 DEF WellInv, Shaped, GapRange
<1>4. ASSUME NEW r \in w.open, r.from <= s, s <= r.to
      PROVE  Containing(w.open, s) = {r}
  <2>1. ASSUME NEW q \in w.open, q.from <= s PROVE q.from <= r.from
    BY <1>2, <1>3, <1>4, <2>1
  <2>2. r \in Containing(w.open, s)
    BY <1>4, <2>1 DEF Containing
  <2>3. ASSUME NEW q \in Containing(w.open, s) PROVE q = r
    BY <1>2, <1>3, <1>4 DEF Containing
  <2> QED BY <2>2, <2>3
<1> QED BY <1>4 DEF Containing

\* A late arrival: the range that holds it is split around it.
LEMMA FillKeeps ==
  ASSUME NEW w, NEW S, NEW s \in Nat, WellInv(w, S), 1 <= s, s < w.next
  PROVE  WellInv(FillGap(w, s), S \cup {s})
<1> DEFINE v == FillGap(w, s)
<1>1. w \in Well /\ w.next \in Nat /\ w.open \subseteq GapRange /\ w.untracked \in Nat
  BY DEF WellInv, Well
<1>2. \A r \in w.open : /\ r.from \in Nat /\ r.to \in Nat /\ 1 <= r.from
                        /\ r.from <= r.to /\ r.to < w.next
  BY <1>1 DEF WellInv, Shaped, GapRange
<1>3. \A r, q \in w.open : q # r => r.to + 1 < q.from \/ q.to + 1 < r.from
  BY DEF WellInv, Shaped
<1>4. CASE \E r \in w.open : r.from <= s /\ s <= r.to
  <2>1. PICK r \in w.open : r.from <= s /\ s <= r.to
    BY <1>4
  <2> DEFINE a == Span(r.from, s - 1)
             b == Span(s + 1, r.to)
             parts == {p \in {a, b} : p.from <= p.to}
  <2>2. Containing(w.open, s) = {r}
    BY <2>1, ContainingIsThe
  <2>3. r.from \in Nat /\ r.to \in Nat /\ 1 <= r.from
    BY <1>2
  <2>4. /\ a.from = r.from /\ a.to = s - 1 /\ b.from = s + 1 /\ b.to = r.to
        /\ (r.from < s => a \in GapRange) /\ b \in GapRange
    BY <2>1, <2>3 DEF Span, GapRange
  <2>5. v.open = (w.open \ {r}) \cup parts
    <3>1. v.open = (w.open \ {r})
                   \cup {Span(q.from, s - 1) : q \in {p \in {r} : p.from < s}}
                   \cup {Span(s + 1, q.to) : q \in {p \in {r} : s < p.to}}
      BY <1>1, <2>2 DEF FillGap, Well
    <3>2. {Span(q.from, s - 1) : q \in {p \in {r} : p.from < s}}
            = IF r.from < s THEN {a} ELSE {}
      BY <2>3
    <3>3. {Span(s + 1, q.to) : q \in {p \in {r} : s < p.to}}
            = IF s < r.to THEN {b} ELSE {}
      BY <2>3
    <3>4. (a.from <= a.to <=> r.from < s) /\ (b.from <= b.to <=> s < r.to)
      BY <2>3, <2>4
    <3> HIDE DEF a, b, v
    <3> QED BY <3>1, <3>2, <3>3, <3>4
  <2>6. v.epoch = w.epoch /\ v.untracked = w.untracked /\ v.next = w.next
    BY <1>1 DEF FillGap, Well
  <2> HIDE DEF a, b
  <2>7. \A p \in parts :
          /\ p \in GapRange /\ r.from <= p.from /\ p.from <= p.to /\ p.to <= r.to
          /\ s < p.from \/ p.to < s
    BY <2>1, <2>3, <2>4 DEF GapRange
  <2>8. \A p, q \in parts : p # q => p.to + 1 < q.from \/ q.to + 1 < p.from
    BY <2>1, <2>3, <2>4
  <2>9. v \in Well
    <3>1. v.open \subseteq GapRange
      BY <1>1, <2>5, <2>7
    <3>2. v = [w EXCEPT !.open = v.open]
      BY <1>1 DEF FillGap, Well
    <3> HIDE DEF v, parts
    <3> QED BY <1>1, <3>1, <3>2 DEF Well
  <2>10. \A n \in Nat : r.from <= n /\ n <= r.to =>
           n = s \/ \E p \in parts : p.from <= n /\ n <= p.to
    BY <2>1, <2>3, <2>4
  <2> HIDE DEF v, parts
  <2>11. Shaped(v)
    <3>1. ASSUME NEW p \in v.open PROVE 1 <= p.from /\ p.from <= p.to /\ p.to < v.next
      BY <1>1, <1>2, <2>3, <2>5, <2>6, <2>7 DEF GapRange
    <3>2. ASSUME NEW p \in v.open, NEW q \in v.open, q # p
          PROVE  p.to + 1 < q.from \/ q.to + 1 < p.from
      <4>1. CASE p \in parts /\ q \in parts
        BY <2>8, <3>2, <4>1
      <4>2. CASE p \in w.open \ {r} /\ q \in w.open \ {r}
        BY <1>3, <3>2, <4>2
      <4>3. CASE p \in parts /\ q \in w.open \ {r}
        BY <1>2, <1>3, <2>3, <2>7, <4>3 DEF GapRange
      <4>4. CASE p \in w.open \ {r} /\ q \in parts
        BY <1>2, <1>3, <2>3, <2>7, <4>4 DEF GapRange
      <4> QED BY <2>5, <4>1, <4>2, <4>3, <4>4
    <3> QED BY <3>1, <3>2 DEF Shaped
  <2>12. Sound(v, S \cup {s})
    <3>1. \A q \in w.open : \A n \in S : n < q.from \/ q.to < n
      BY DEF WellInv, Sound
    <3>2. S \subseteq Nat
      BY DEF WellInv
    <3>3. ASSUME NEW p \in v.open, NEW n \in S \cup {s} PROVE n < p.from \/ p.to < n
      <4>1. CASE p \in parts
        <5>1. /\ p.from \in Nat /\ p.to \in Nat /\ r.from <= p.from /\ p.to <= r.to
              /\ s < p.from \/ p.to < s
          BY <2>7, <4>1 DEF GapRange
        <5>2. n \in Nat /\ (n = s \/ n < r.from \/ r.to < n)
          BY <2>1, <3>1, <3>2
        <5> QED BY <2>3, <5>1, <5>2
      <4>2. CASE p \in w.open \ {r} /\ n \in S
        BY <3>1, <4>2
      <4>3. CASE p \in w.open \ {r} /\ n = s
        <5>1. p.to + 1 < r.from \/ r.to + 1 < p.from
          BY <1>3, <4>3
        <5>2. p.from \in Nat /\ p.to \in Nat /\ r.to \in Nat
          BY <1>2, <4>3
        <5> QED BY <2>1, <2>3, <4>3, <5>1, <5>2
      <4> QED BY <2>5, <4>1, <4>2, <4>3
    <3> QED BY <3>3 DEF Sound
  <2>13. Complete(v, S \cup {s})
    <3>1. SUFFICES ASSUME w.untracked = 0, NEW n \in Nat, 1 <= n, n < w.next
                   PROVE  n \in S \cup {s} \/ \E p \in v.open : p.from <= n /\ n <= p.to
      BY <2>6 DEF Complete
    <3>2. n \in S \/ \E q \in w.open : q.from <= n /\ n <= q.to
      BY <3>1 DEF WellInv, Complete
    <3> QED BY <2>5, <2>10, <3>2
  <2>14. Watermarked(v, S \cup {s})
    BY <1>1, <2>6 DEF WellInv, Watermarked
  <2> QED BY <2>9, <2>11, <2>12, <2>13, <2>14 DEF WellInv, v
<1>5. CASE ~\E r \in w.open : r.from <= s /\ s <= r.to
  <2>1. Containing(w.open, s) = {}
    BY <1>5, ContainingIsThe
  <2>2. v = [w EXCEPT !.open = w.open]
    BY <2>1 DEF FillGap
  <2>3. v = w
    BY <1>1, <2>2 DEF Well
  <2>4. Sound(w, S \cup {s})
    BY <1>2, <1>5 DEF WellInv, Sound
  <2>5. Complete(w, S \cup {s}) /\ Watermarked(w, S \cup {s})
    BY DEF WellInv, Complete, Watermarked
  <2> QED BY <2>3, <2>4, <2>5 DEF WellInv
<1> QED BY <1>4, <1>5

LEMMA AccountKeeps ==
  ASSUME NEW w, NEW S, NEW s \in Nat \ {0}, WellInv(w, S), w.next >= 1
  PROVE  WellInv(Account(w, s), S \cup {s})
<1>1. w \in Well /\ w.next \in Nat
  BY DEF WellInv, Well
<1>2. CASE s = w.next
  <2> DEFINE v == Account(w, s)
  <2>1. /\ v \in Well /\ v.epoch = w.epoch /\ v.untracked = w.untracked
        /\ v.open = w.open /\ v.next = s + 1
    BY <1>1, <1>2 DEF Account, Well
  <2> HIDE DEF v
  <2>2. \A r \in w.open : r.from \in Nat /\ r.to \in Nat /\ r.to < w.next
    BY DEF WellInv, Shaped, Well, GapRange
  <2>3. Shaped(v) /\ Sound(v, S \cup {s})
    BY <1>1, <1>2, <2>1, <2>2 DEF WellInv, Shaped, Sound
  <2>4. Complete(v, S \cup {s})
    BY <1>1, <1>2, <2>1 DEF WellInv, Complete
  <2>5. Watermarked(v, S \cup {s})
    BY <1>1, <1>2, <2>1 DEF WellInv, Watermarked
  <2> QED BY <2>1, <2>3, <2>4, <2>5 DEF WellInv, v
<1>3. CASE s > w.next
  BY <1>1, <1>3, OpenKeeps DEF Account
<1>4. CASE s < w.next
  BY <1>1, <1>4, FillKeeps DEF Account
<1> QED BY <1>1, <1>2, <1>3, <1>4

\* Any arrival of the entry's generation or a newer one: a newer producer
\* starts the accounting afresh, and what it then knows is the one frame.
LEMMA ObserveKeeps ==
  ASSUME NEW w, NEW S, NEW e \in Nat, NEW s \in Nat \ {0},
         WellInv(w, S), ~Straggler(w, e)
  PROVE  /\ Known(w) /\ e = w.epoch => WellInv(ObserveWell(w, e, s), S \cup {s})
         /\ ~(Known(w) /\ e = w.epoch) => WellInv(ObserveWell(w, e, s), {s})
<1>1. w \in Well /\ w.next \in Nat /\ w.epoch \in Nat
  BY DEF WellInv, Well
<1>2. ObserveWell(w, e, s) = Account(Generation(w, e), s)
  BY DEF ObserveWell
<1>3. CASE Known(w) /\ e = w.epoch
  <2>1. Generation(w, e) = w /\ w.next >= 1
    BY <1>1, <1>3 DEF Generation, Known
  <2> QED BY <1>2, <1>3, <2>1, AccountKeeps
<1>4. CASE ~(Known(w) /\ e = w.epoch)
  <2>1. Generation(w, e) = NewWell(e, 1)
    BY <1>1, <1>4 DEF Generation, Straggler
  <2>2. WellInv(NewWell(e, 1), {}) /\ NewWell(e, 1).next >= 1
    BY FreshWell
  <2>3. WellInv(Account(NewWell(e, 1), s), {} \cup {s})
    BY <2>2, AccountKeeps
  <2>4. {} \cup {s} = {s}
    OBVIOUS
  <2> QED BY <1>2, <1>4, <2>1, <2>3, <2>4
<1> QED BY <1>3, <1>4

\* An entry, once there, stays: its watermark is never 0 again.
LEMMA ObserveKnown ==
  ASSUME NEW w \in Well, NEW e \in Nat, NEW s \in Nat \ {0}
  PROVE  Known(ObserveWell(w, e, s))
<1>1. CASE Straggler(w, e)
  BY <1>1 DEF ObserveWell, Straggler, Known
<1>2. CASE ~Straggler(w, e)
  <2> DEFINE g == Generation(w, e)
  <2>1. g \in Well /\ g.next >= 1 /\ g.next \in Nat
    BY <1>2 DEF Generation, Known, NewWell, Well, Straggler
  <2>2. ObserveWell(w, e, s) = Account(g, s)
    BY <1>2 DEF ObserveWell
  <2> HIDE DEF g
  <2>3. CASE s = g.next
    BY <2>1, <2>2, <2>3 DEF Account, Known, Well
  <2>4. CASE s > g.next
    BY <2>1, <2>2, <2>4 DEF Account, OpenGap, Known, Well
  <2>5. CASE s < g.next
    BY <2>1, <2>2, <2>5 DEF Account, FillGap, Known, Well
  <2> QED BY <2>1, <2>3, <2>4, <2>5
<1> QED BY <1>1, <1>2

-----------------------------------------------------------------------------
(* What an arrival does to what is reported.                                *)

\* A late arrival leaves the watermark and only takes from what is reported.
LEMMA FillShrinks ==
  ASSUME NEW w, NEW S, NEW s \in Nat, WellInv(w, S)
  PROVE  /\ FillGap(w, s).next = w.next /\ FillGap(w, s).epoch = w.epoch
         /\ ReportedMissing(FillGap(w, s)) \subseteq ReportedMissing(w)
<1> DEFINE v == FillGap(w, s)
           hit == Containing(w.open, s)
<1>1. w \in Well /\ w.open \subseteq GapRange
  BY DEF WellInv, Well
<1>2. \A q \in hit : q \in w.open /\ q.from <= s /\ s <= q.to
  BY ContainingIsThe
<1>3. /\ v.next = w.next /\ v.epoch = w.epoch
      /\ v.open = (w.open \ hit)
           \cup {Span(r.from, s - 1) : r \in {q \in hit : q.from < s}}
           \cup {Span(s + 1, r.to) : r \in {q \in hit : s < q.to}}
  BY <1>1 DEF FillGap, Well
<1>4. ASSUME NEW r \in v.open, NEW n \in r.from .. r.to
      PROVE  \E q \in w.open : n \in q.from .. q.to
  <2>1. CASE r \in w.open
    BY <2>1
  <2>2. CASE r \in {Span(q.from, s - 1) : q \in {q \in hit : q.from < s}}
    <3>1. PICK q \in hit : r = Span(q.from, s - 1)
      BY <2>2
    <3>2. q \in w.open /\ q.from \in Nat /\ q.to \in Nat /\ s <= q.to
      BY <1>1, <1>2 DEF GapRange
    <3>3. r.from = q.from /\ r.to = s - 1
      BY <3>1 DEF Span
    <3> QED BY <3>2, <3>3
  <2>3. CASE r \in {Span(s + 1, q.to) : q \in {q \in hit : s < q.to}}
    <3>1. PICK q \in hit : r = Span(s + 1, q.to)
      BY <2>3
    <3>2. q \in w.open /\ q.from \in Nat /\ q.to \in Nat /\ q.from <= s
      BY <1>1, <1>2 DEF GapRange
    <3>3. r.from = s + 1 /\ r.to = q.to
      BY <3>1 DEF Span
    <3> QED BY <3>2, <3>3
  <2> QED BY <1>3, <2>1, <2>2, <2>3
<1>5. ReportedMissing(v) \subseteq ReportedMissing(w)
  BY <1>4 DEF ReportedMissing
<1> QED BY <1>3, <1>5

\* An arrival above the watermark reports nothing new below it.
LEMMA OpenAbove ==
  ASSUME NEW w \in Well, NEW s \in Nat, w.next < s
  PROVE  /\ OpenGap(w, s).next = s + 1 /\ OpenGap(w, s).epoch = w.epoch
         /\ ReportedMissing(OpenGap(w, s)) \cap (1 .. w.next - 1)
              \subseteq ReportedMissing(w)
<1> DEFINE v == OpenGap(w, s)
<1>1. w.next \in Nat /\ w.open \subseteq GapRange
  BY DEF Well
<1>2. /\ v.next = s + 1 /\ v.epoch = w.epoch
      /\ v.open \subseteq w.open \cup {Span(w.next, s - 1)}
  BY DEF OpenGap, Well
<1>3. ASSUME NEW r \in v.open, NEW n \in r.from .. r.to, n \in 1 .. w.next - 1
      PROVE  \E q \in w.open : n \in q.from .. q.to
  <2>1. CASE r \in w.open
    BY <2>1
  <2>2. CASE r = Span(w.next, s - 1)
    <3>1. r.from = w.next /\ r.to = s - 1
      BY <2>2 DEF Span
    <3> QED BY <1>1, <1>3, <3>1
  <2> QED BY <1>2, <2>1, <2>2
<1>4. ReportedMissing(v) \cap (1 .. w.next - 1) \subseteq ReportedMissing(w)
  BY <1>3 DEF ReportedMissing
<1> QED BY <1>2, <1>4

\* A generation is never left for an older one, and what is accounted stays so.
Kept(w, v) ==
  Known(w) =>
    \/ w.epoch < v.epoch
    \/ /\ w.epoch = v.epoch /\ w.next <= v.next
       /\ ReportedMissing(v) \cap (1 .. w.next - 1) \subseteq ReportedMissing(w)

LEMMA SameKept == ASSUME NEW w \in Well PROVE Kept(w, w)
BY DEF Kept, Well

LEMMA ObserveKept ==
  ASSUME NEW w, NEW S, NEW e \in Nat, NEW s \in Nat \ {0}, WellInv(w, S), Known(w)
  PROVE  Kept(w, ObserveWell(w, e, s))
<1>1. w \in Well /\ w.next \in Nat /\ w.epoch \in Nat
  BY DEF WellInv, Well
<1>2. CASE e < w.epoch
  BY <1>1, <1>2, SameKept DEF ObserveWell, Straggler
<1>3. CASE e = w.epoch
  <2> DEFINE v == ObserveWell(w, e, s)
  <2>1. v = Account(w, s)
    BY <1>1, <1>3 DEF ObserveWell, Straggler, Generation
  <2>2. CASE s = w.next
    <3>1. v.epoch = w.epoch /\ v.next = s + 1 /\ v.open = w.open
      BY <1>1, <2>1, <2>2 DEF Account, Well
    <3> QED BY <1>1, <2>2, <3>1 DEF Kept, ReportedMissing
  <2>3. CASE w.next < s
    <3>1. v = OpenGap(w, s)
      BY <1>1, <2>1, <2>3 DEF Account
    <3> QED BY <1>1, <2>3, <3>1, OpenAbove DEF Kept
  <2>4. CASE s < w.next
    <3>1. v = FillGap(w, s)
      BY <1>1, <2>1, <2>4 DEF Account
    <3> QED BY <1>1, <3>1, FillShrinks DEF Kept
  <2> QED BY <1>1, <2>2, <2>3, <2>4
<1>4. CASE w.epoch < e
  <2> DEFINE v == ObserveWell(w, e, s)
             g == NewWell(e, 1)
  <2>1. v = Account(g, s)
    BY <1>1, <1>4 DEF ObserveWell, Straggler, Generation
  <2>2. g \in Well /\ g.epoch = e /\ g.next = 1
    BY DEF NewWell, Well, GapRange
  <2>3. v.epoch = e
    BY <2>1, <2>2 DEF Account, OpenGap, FillGap, Well
  <2> QED BY <1>4, <2>3 DEF Kept
<1> QED BY <1>1, <1>2, <1>3, <1>4

\* The generation of an entry after an arrival.
LEMMA ObserveEpoch ==
  ASSUME NEW w \in Well, NEW e \in Nat, NEW s \in Nat
  PROVE  ObserveWell(w, e, s).epoch = IF ~Known(w) \/ e > w.epoch THEN e ELSE w.epoch
<1>1. CASE Straggler(w, e)
  BY <1>1 DEF ObserveWell, Straggler, Well
<1>2. CASE ~Straggler(w, e)
  <2> DEFINE g == Generation(w, e)
  <2>1. g \in Well /\ g.epoch = IF ~Known(w) \/ e > w.epoch THEN e ELSE w.epoch
    BY DEF Generation, NewWell, Well, GapRange
  <2>2. ObserveWell(w, e, s) = Account(g, s)
    BY <1>2 DEF ObserveWell
  <2> HIDE DEF g
  <2>3. Account(g, s).epoch = g.epoch
    BY <2>1 DEF Account, OpenGap, FillGap, Well
  <2> QED BY <2>1, <2>2, <2>3
<1> QED BY <1>1, <1>2

\* The history of an entry: what it knows to have landed grows by the arrival,
\* or is the arrival alone when a newer generation begins.
LEMMA ObserveHistory ==
  ASSUME NEW w, NEW S, WellInv(w, S), NEW e \in Nat, NEW s \in Nat \ {0}
  PROVE  \E T \in SUBSET Nat :
           /\ WellInv(ObserveWell(w, e, s), T)
           /\ \A n \in T :
                \/ Known(w) /\ ObserveWell(w, e, s).epoch = w.epoch /\ n \in S
                \/ n = s /\ ObserveWell(w, e, s).epoch = e
<1>1. w \in Well /\ w.epoch \in Nat /\ S \in SUBSET Nat
  BY DEF WellInv, Well
<1>2. CASE Straggler(w, e)
  <2>1. ObserveWell(w, e, s) = w /\ Known(w)
    BY <1>2 DEF ObserveWell, Straggler
  <2> QED BY <1>1, <2>1
<1>3. CASE ~Straggler(w, e) /\ Known(w) /\ e = w.epoch
  <2>1. WellInv(ObserveWell(w, e, s), S \cup {s})
    BY <1>3, ObserveKeeps
  <2>2. ObserveWell(w, e, s).epoch = w.epoch
    BY <1>1, <1>3, ObserveEpoch
  <2>3. S \cup {s} \in SUBSET Nat
    BY <1>1
  <2> QED BY <1>3, <2>1, <2>2, <2>3
<1>4. CASE ~Straggler(w, e) /\ ~(Known(w) /\ e = w.epoch)
  <2>1. WellInv(ObserveWell(w, e, s), {s})
    BY <1>4, ObserveKeeps
  <2>2. ObserveWell(w, e, s).epoch = e
    BY <1>1, <1>4, ObserveEpoch DEF Straggler
  <2>3. {s} \in SUBSET Nat
    OBVIOUS
  <2> QED BY <2>1, <2>2, <2>3
<1> QED BY <1>2, <1>3, <1>4

-----------------------------------------------------------------------------
(* The accounting measured against R, the frames that have landed: what it  *)
(* knows of its generation has landed, or is no newer than fl, what the     *)
(* process was seeded with.                                                 *)

History(w, fl, R) ==
  \E S \in SUBSET Nat :
    /\ WellInv(w, S)
    /\ \A n \in S : n <= fl \/ [epoch |-> w.epoch, seq |-> n] \in R

LEMMA NoHistory == ASSUME NEW R PROVE History(NoWell, 0, R)
<1>1. WellInv(NoWell, {})
  BY DEF NoWell, NewWell, WellInv, Well, GapRange, Shaped, Sound, Complete, Watermarked
<1> QED BY <1>1 DEF History

LEMMA SeededHistory ==
  ASSUME NEW R, NEW e \in Nat, NEW m \in Nat
  PROVE  History(NewWell(e, m + 1), m, R)
<1>1. WellInv(NewWell(e, m + 1), 1 .. m)
  BY SeededWell
<1> QED BY <1>1 DEF History

LEMMA HistoryType ==
  ASSUME NEW w, NEW fl, NEW R, History(w, fl, R)
  PROVE  w \in Well
BY DEF History, WellInv

\* Accounting a frame that has landed.
LEMMA AccountHistory ==
  ASSUME NEW w, NEW fl \in Nat, NEW R, History(w, fl, R),
         NEW e \in Nat, NEW s \in Nat \ {0}, [epoch |-> e, seq |-> s] \in R
  PROVE  History(ObserveWell(w, e, s),
                 IF ObserveWell(w, e, s).epoch > w.epoch THEN 0 ELSE fl, R)
<1>1. PICK S \in SUBSET Nat :
        /\ WellInv(w, S)
        /\ \A n \in S : n <= fl \/ [epoch |-> w.epoch, seq |-> n] \in R
  BY DEF History
<1> DEFINE v == ObserveWell(w, e, s)
           nfl == IF v.epoch > w.epoch THEN 0 ELSE fl
<1>2. PICK T \in SUBSET Nat :
        /\ WellInv(v, T)
        /\ \A n \in T :
             \/ Known(w) /\ v.epoch = w.epoch /\ n \in S
             \/ n = s /\ v.epoch = e
  BY <1>1, ObserveHistory
<1> HIDE DEF v
<1>3. w.epoch \in Nat
  BY <1>1 DEF WellInv, Well
<1>4. ASSUME NEW n \in T PROVE n <= nfl \/ [epoch |-> v.epoch, seq |-> n] \in R
  <2>1. CASE v.epoch = w.epoch /\ n \in S
    <3>1. nfl = fl
      BY <1>3, <2>1
    <3> QED BY <1>1, <2>1, <3>1
  <2>2. CASE n = s /\ v.epoch = e
    BY <2>2
  <2> QED BY <1>2, <2>1, <2>2
<1>5. History(v, nfl, R)
  BY <1>2, <1>4 DEF History
<1> QED BY <1>5 DEF v

\* Below the watermark everything has landed, is reported missing or is old.
LEMMA HistoryReports ==
  ASSUME NEW w, NEW fl \in Nat, NEW R, History(w, fl, R),
         w.untracked = 0, NEW s \in fl + 1 .. w.next - 1
  PROVE  [epoch |-> w.epoch, seq |-> s] \in R \/ s \in ReportedMissing(w)
<1>1. PICK S \in SUBSET Nat :
        /\ WellInv(w, S)
        /\ \A n \in S : n <= fl \/ [epoch |-> w.epoch, seq |-> n] \in R
  BY DEF History
<1>2. w.next \in Nat /\ w.open \subseteq GapRange
  BY <1>1 DEF WellInv, Well
<1>3. s \in Nat /\ 1 <= s /\ s < w.next /\ ~(s <= fl)
  BY <1>2
<1>4. s \in S \/ \E r \in w.open : r.from <= s /\ s <= r.to
  BY <1>1, <1>3 DEF WellInv, Complete
<1>5. CASE \E r \in w.open : r.from <= s /\ s <= r.to
  <2>1. PICK r \in w.open : r.from <= s /\ s <= r.to
    BY <1>5
  <2>2. s \in r.from .. r.to
    BY <1>2, <1>3, <2>1 DEF GapRange
  <2> QED BY <2>1, <2>2 DEF ReportedMissing
<1> QED BY <1>1, <1>3, <1>4, <1>5

\* What is reported missing is of a well that is known.
LEMMA ReportedKnown ==
  ASSUME NEW w, NEW S, WellInv(w, S), ReportedMissing(w) # {}
  PROVE  Known(w)
<1>1. PICK r \in w.open : r.from .. r.to # {}
  BY DEF ReportedMissing
<1>2. 1 <= r.from /\ r.from <= r.to /\ r.to < w.next
  BY <1>1 DEF WellInv, Shaped
<1>3. r.from \in Nat /\ r.to \in Nat /\ w.next \in Nat
  BY <1>1 DEF WellInv, Well, GapRange
<1> QED BY <1>2, <1>3 DEF Known

-----------------------------------------------------------------------------
(* Frames the accounting has yet to see: ahead of the watermark, or         *)
(* reported missing below it.                                               *)

Pending(w, e, s) ==
  \/ ~Known(w)
  \/ e > w.epoch
  \/ e = w.epoch /\ (s >= w.next \/ s \in ReportedMissing(w))

\* Once accounted, an arrival is not pending.
LEMMA ObserveSettles ==
  ASSUME NEW w, NEW S, WellInv(w, S), NEW e \in Nat, NEW s \in Nat \ {0}
  PROVE  ~Pending(ObserveWell(w, e, s), e, s)
<1> DEFINE v == ObserveWell(w, e, s)
<1>1. w \in Well /\ w.epoch \in Nat
  BY DEF WellInv, Well
<1>2. CASE Straggler(w, e)
  BY <1>1, <1>2 DEF ObserveWell, Straggler, Pending
<1>3. CASE ~Straggler(w, e)
  <2>1. \E T : s \in T /\ WellInv(v, T)
    BY <1>3, ObserveKeeps
  <2>2. PICK T : s \in T /\ WellInv(v, T)
    BY <2>1
  <2>3. Known(v) /\ v.epoch = e
    BY <1>1, <1>3, ObserveKnown, ObserveEpoch DEF Straggler
  <2> HIDE DEF v
  <2>4. v \in Well /\ v.next \in Nat /\ v.open \subseteq GapRange /\ s < v.next
    BY <2>2 DEF WellInv, Well, Watermarked
  <2>5. \A r \in v.open : s \notin r.from .. r.to
    BY <2>2, <2>4 DEF WellInv, Sound, GapRange
  <2>6. s \notin ReportedMissing(v)
    BY <2>5 DEF ReportedMissing
  <2> QED BY <2>3, <2>4, <2>6 DEF Pending, v
<1> QED BY <1>2, <1>3

\* And it does not become pending again.
LEMMA PendingShrinks ==
  ASSUME NEW w, NEW S, WellInv(w, S), NEW e \in Nat, NEW s \in Nat \ {0},
         NEW d \in Nat, NEW n \in Nat \ {0}, Pending(ObserveWell(w, e, s), d, n)
  PROVE  Pending(w, d, n)
<1> DEFINE v == ObserveWell(w, e, s)
<1>1. w \in Well /\ w.epoch \in Nat /\ w.next \in Nat
  BY DEF WellInv, Well
<1>2. CASE ~Known(w)
  BY <1>2 DEF Pending
<1>3. CASE Known(w)
  <2>1. Kept(w, v) /\ Known(v)
    BY <1>1, <1>3, ObserveKept, ObserveKnown
  <2>2. \E T : WellInv(v, T)
    BY ObserveHistory
  <2> HIDE DEF v
  <2>3. v.epoch \in Nat /\ v.next \in Nat
    BY <2>2 DEF WellInv, Well
  <2>4. CASE w.epoch < v.epoch
    BY <1>1, <2>1, <2>3, <2>4 DEF Pending, v
  <2>5. CASE /\ w.epoch = v.epoch /\ w.next <= v.next
             /\ ReportedMissing(v) \cap (1 .. w.next - 1) \subseteq ReportedMissing(w)
    <3>1. d > w.epoch \/ (d = w.epoch /\ (n >= v.next \/ n \in ReportedMissing(v)))
      BY <2>1, <2>5 DEF Pending, v
    <3>2. n \in ReportedMissing(v) => n >= w.next \/ n \in ReportedMissing(w)
      BY <1>1, <2>5
    <3> QED BY <1>1, <2>3, <2>5, <3>1, <3>2 DEF Pending
  <2> QED BY <1>3, <2>1, <2>4, <2>5 DEF Kept
<1> QED BY <1>2, <1>3

\* The table of a well is finite: its ranges have different starts.
LEMMA OpenFinite ==
  ASSUME NEW w, NEW S, WellInv(w, S)
  PROVE  IsFiniteSet(w.open)
<1>1. w \in Well /\ w.next \in Nat /\ w.open \subseteq GapRange /\ Shaped(w)
  BY DEF WellInv, Well
<1> DEFINE f == [r \in w.open |-> r.from]
<1>2. \A r \in w.open : r.from \in 1 .. w.next /\ r.to \in Nat /\ r.from <= r.to
  BY <1>1 DEF Shaped, GapRange
<1>3. \A r, q \in w.open : r.from = q.from => r = q
  BY <1>1, <1>2 DEF Shaped
<1>4. f \in Injection(w.open, 1 .. w.next)
  BY <1>2, <1>3 DEF Injection, IsInjective
<1>5. IsFiniteSet(1 .. w.next)
  BY <1>1, FS_Interval
<1> QED BY <1>4, <1>5, FS_Injection

-----------------------------------------------------------------------------
(* The changes an arrival reports, against what becomes and stops missing.  *)

\* The ranges of an entry of which nothing is missing any more afterwards.
ClosedBy(w, v) == {r \in w.open : (r.from .. r.to) \cap ReportedMissing(v) = {}}

LEMMA KeptOpen ==
  ASSUME NEW w, NEW S, WellInv(w, S), NEW v, w.open \subseteq v.open
  PROVE  ClosedBy(w, v) = {}
<1>1. ASSUME NEW r \in w.open PROVE r.from \in (r.from .. r.to) \cap ReportedMissing(v)
  <2>1. r.from \in Nat /\ r.to \in Nat /\ r.from <= r.to
    BY DEF WellInv, Well, Shaped, GapRange
  <2>2. r.from \in r.from .. r.to
    BY <2>1
  <2> QED BY <2>2 DEF ReportedMissing
<1> QED BY <1>1 DEF ClosedBy

\* A late arrival closes a range only as the one number missing from it.
LEMMA FillCloses ==
  ASSUME NEW w, NEW S, NEW s \in Nat, WellInv(w, S)
  PROVE  ClosedBy(w, FillGap(w, s))
           = IF Span(s, s) \in Containing(w.open, s) THEN {Span(s, s)} ELSE {}
<1> DEFINE v == FillGap(w, s)
           hit == Containing(w.open, s)
           below == {Span(r.from, s - 1) : r \in {q \in hit : q.from < s}}
           above == {Span(s + 1, r.to) : r \in {q \in hit : s < q.to}}
<1>1. w \in Well /\ w.open \subseteq GapRange
  BY DEF WellInv, Well
<1>2. v.open = (w.open \ hit) \cup below \cup above
  BY <1>1 DEF FillGap, Well
<1>3. CASE hit = {}
  <2>1. w.open \subseteq v.open
    BY <1>2, <1>3
  <2>2. ClosedBy(w, v) = {}
    BY <2>1, KeptOpen
  <2> QED BY <1>3, <2>2
<1>4. ASSUME hit # {}
      PROVE  ClosedBy(w, v) = IF Span(s, s) \in hit THEN {Span(s, s)} ELSE {}
  <2>1. PICK r \in w.open : hit = {r} /\ r.from <= s /\ s <= r.to
    BY <1>4, ContainingIsThe
  <2>2. r.from \in Nat /\ r.to \in Nat /\ r = Span(r.from, r.to)
    BY <1>1 DEF GapRange, Span
  <2>3. \A q \in w.open \ {r} : /\ q.from \in Nat /\ q.to \in Nat /\ q.from <= q.to
                               /\ (r.to + 1 < q.from \/ q.to + 1 < r.from)
    BY <1>1 DEF WellInv, Shaped, GapRange
  <2>4. ASSUME NEW q \in w.open \ {r} PROVE q \notin ClosedBy(w, v)
    <3>1. q \in v.open
      BY <1>2, <2>1
    <3>2. q.from \in q.from .. q.to
      BY <2>3
    <3> QED BY <3>1, <3>2 DEF ClosedBy, ReportedMissing
  <2>5. CASE r.from = s /\ r.to = s
    <3>1. r = Span(s, s)
      BY <2>2, <2>5
    <3>2. v.open = w.open \ {r}
      <4>1. below = {} /\ above = {}
        BY <2>1, <2>5
      <4> QED BY <1>2, <2>1, <4>1
    <3>3. s \notin ReportedMissing(v)
      BY <2>3, <2>5, <3>2 DEF ReportedMissing
    <3>4. r \in ClosedBy(w, v)
      <4>1. r.from .. r.to = {s}
        BY <2>5
      <4> QED BY <3>3, <4>1 DEF ClosedBy
    <3>5. ClosedBy(w, v) = {r}
      BY <2>4, <3>4 DEF ClosedBy
    <3> QED BY <2>1, <3>1, <3>5
  <2>6. CASE ~(r.from = s /\ r.to = s)
    <3>1. Span(s, s) \notin hit
      BY <2>1, <2>6 DEF Span
    <3>2. \E x \in v.open : \E n \in x.from .. x.to : n \in r.from .. r.to
      <4>1. CASE r.from < s
        <5>1. Span(r.from, s - 1) \in v.open
          BY <1>2, <2>1, <4>1
        <5>2. /\ r.from \in Span(r.from, s - 1).from .. Span(r.from, s - 1).to
              /\ r.from \in r.from .. r.to
          BY <2>1, <2>2, <4>1 DEF Span
        <5> QED BY <5>1, <5>2
      <4>2. CASE s < r.to
        <5>1. Span(s + 1, r.to) \in v.open
          BY <1>2, <2>1, <4>2
        <5>2. /\ r.to \in Span(s + 1, r.to).from .. Span(s + 1, r.to).to
              /\ r.to \in r.from .. r.to
          BY <2>1, <2>2, <4>2 DEF Span
        <5> QED BY <5>1, <5>2
      <4> QED BY <2>1, <2>2, <2>6, <4>1, <4>2
    <3>3. r \notin ClosedBy(w, v)
      BY <3>2 DEF ClosedBy, ReportedMissing
    <3> QED BY <2>4, <3>1, <3>3 DEF ClosedBy
  <2> QED BY <2>5, <2>6
<1> QED BY <1>3, <1>4

\* A heal is reported when, and only when, the arrival closes a range.
LEMMA ObserveCloses ==
  ASSUME NEW w, NEW S, NEW e \in Nat, NEW s \in Nat \ {0}, WellInv(w, S),
         Known(w) => ObserveWell(w, e, s).epoch = w.epoch,
         ~Known(w) => w.open = {}
  PROVE  ClosedBy(w, ObserveWell(w, e, s))
           = IF Heals(w, e, s) THEN {Span(s, s)} ELSE {}
<1> DEFINE v == ObserveWell(w, e, s)
<1>1. w \in Well /\ w.next \in Nat /\ w.epoch \in Nat
  BY DEF WellInv, Well
<1>2. CASE Straggler(w, e)
  <2>1. v = w /\ ~Heals(w, e, s)
    BY <1>2 DEF ObserveWell, Heals
  <2> QED BY <2>1, KeptOpen
<1>3. CASE ~Known(w)
  <2>1. Containing(NewWell(e, 1).open, s) = {} /\ Generation(w, e) = NewWell(e, 1)
    BY <1>3 DEF Containing, NewWell, Generation
  <2>2. ~Heals(w, e, s)
    BY <2>1 DEF Heals
  <2> QED BY <1>3, <2>2 DEF ClosedBy
<1>4. CASE ~Straggler(w, e) /\ Known(w)
  <2>1. Generation(w, e) = w
    <3>1. v.epoch = IF e > w.epoch THEN e ELSE w.epoch
      BY <1>1, <1>4, ObserveEpoch
    <3> QED BY <1>1, <1>4, <3>1 DEF Generation
  <2>2. v = Account(w, s)
    BY <1>4, <2>1 DEF ObserveWell
  <2>3. Heals(w, e, s) <=> s < w.next /\ Span(s, s) \in Containing(w.open, s)
    BY <1>4, <2>1 DEF Heals
  <2>4. CASE s >= w.next
    <3>1. w.open \subseteq v.open
      BY <1>1, <2>2, <2>4 DEF Account, OpenGap, Well
    <3> QED BY <1>1, <2>3, <2>4, <3>1, KeptOpen
  <2>5. CASE s < w.next
    <3>1. v = FillGap(w, s)
      BY <1>1, <2>2, <2>5 DEF Account
    <3> QED BY <2>3, <2>5, <3>1, FillCloses
  <2> QED BY <1>1, <2>4, <2>5
<1> QED BY <1>2, <1>3, <1>4

\* A gap is reported opened when, and only when, the watermark passes a number
\* that has not arrived; T is what has, the arrival included.
LEMMA ObserveOpens ==
  ASSUME NEW w, NEW S, NEW T, NEW e \in Nat, NEW s \in Nat \ {0}, WellInv(w, S),
         Known(w) => ObserveWell(w, e, s).epoch = w.epoch,
         T = IF Straggler(w, e) THEN S ELSE IF Known(w) THEN S \cup {s} ELSE {s}
  PROVE  Opens(w, e, s) <=>
           \E n \in (1 .. ObserveWell(w, e, s).next - 1) \ T : w.next <= n
<1> DEFINE v == ObserveWell(w, e, s)
           g == Generation(w, e)
<1> SUFFICES Opens(w, e, s) <=> \E n \in (1 .. v.next - 1) \ T : w.next <= n
  OBVIOUS
<1>1. /\ w \in Well /\ w.next \in Nat /\ w.epoch \in Nat
      /\ \A n \in S : n < w.next
  BY DEF WellInv, Well, Watermarked
<1>2. CASE Straggler(w, e)
  <2>1. v = w /\ ~Opens(w, e, s)
    BY <1>2 DEF ObserveWell, Opens
  <2> QED BY <1>1, <2>1
<1>3. CASE ~Straggler(w, e)
  <2>1. /\ g \in Well /\ g.next \in Nat /\ 1 <= g.next /\ w.next <= g.next
        /\ s \in T /\ \A n \in T \ {s} : n < g.next
        /\ \A n \in Nat : 1 <= n /\ w.next <= n => g.next <= n
    <3>1. CASE Known(w)
      <4>1. v.epoch = IF e > w.epoch THEN e ELSE w.epoch
        BY <1>1, <3>1, ObserveEpoch
      <4>2. g = w
        BY <1>1, <1>3, <3>1, <4>1 DEF Generation
      <4>3. T = S \cup {s} /\ w.next # 0
        BY <1>3, <3>1 DEF Known
      <4> HIDE DEF g, v
      <4> QED BY <1>1, <4>2, <4>3
    <3>2. CASE ~Known(w)
      <4>1. g = NewWell(e, 1) /\ T = {s} /\ w.next = 0
        BY <1>3, <3>2 DEF Generation, Known
      <4>2. g \in Well /\ g.next = 1
        BY <4>1, FreshWell DEF NewWell, WellInv
      <4> HIDE DEF g, v
      <4> QED BY <4>1, <4>2
    <3> QED BY <3>1, <3>2
  <2>2. v = Account(g, s)
    BY <1>3 DEF ObserveWell
  <2>3. Opens(w, e, s) <=> s > g.next
    BY <1>3 DEF Opens
  <2> HIDE DEF g
  <2>4. v.next = IF s < g.next THEN g.next ELSE s + 1
    BY <2>1, <2>2 DEF Account, OpenGap, FillGap, Well
  <2> HIDE DEF v
  <2>5. CASE s > g.next
    <3>1. g.next \in (1 .. v.next - 1) \ T
      BY <2>1, <2>4, <2>5
    <3> QED BY <2>1, <2>3, <2>5, <3>1
  <2>6. CASE s <= g.next
    <3>1. ASSUME NEW n \in (1 .. v.next - 1) \ T, w.next <= n PROVE FALSE
      <4>1. n \in Nat /\ 1 <= n /\ n < v.next /\ n # s
        BY <2>1, <2>4, <3>1
      <4>2. g.next <= n
        BY <2>1, <3>1, <4>1
      <4> QED BY <2>1, <2>4, <2>6, <4>1, <4>2
    <3> QED BY <2>1, <2>3, <2>6, <3>1
  <2> QED BY <2>1, <2>5, <2>6
<1> QED BY <1>2, <1>3
=============================================================================
