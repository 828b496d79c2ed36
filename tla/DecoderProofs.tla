--------------------------- MODULE DecoderProofs ---------------------------
(***************************************************************************)
(* Proofs about Decoder, for any bytes, cap and look-back: what its        *)
(* operators on sequences return, that the recursive functions of the      *)
(* reference and of the loop of feed are what their equations say, and     *)
(* that a decoder which is fed a stream in any pieces has let out the      *)
(* plaintext from its first keyframe on.                                   *)
(*                                                                         *)
(* Induction over numbers and over what a recursive function computes is   *)
(* by sets: a set of numbers with 0 and the successor of each of its       *)
(* members is Nat (Induction).                                             *)
(***************************************************************************)
EXTENDS Decoder, TLAPS, SequenceTheorems, WellFoundedInduction

Bytes    == Seq(Nat)
Decoders == [buf : Bytes, keys : {"awaited", "derived", "failed"}, started : BOOLEAN,
             pending : Bytes, out : Bytes]
Framed   == Nat \X Bytes

-----------------------------------------------------------------------------
(* Numbers *)

\* A nonempty set of numbers has a least one.
LEMMA HasMinimum ==
    ASSUME NEW S \in SUBSET Nat, S # {}
    PROVE  Min(S) \in S /\ \A y \in S : Min(S) <= y
<1> DEFINE R == OpToRel(<, Nat)
<1>1. \E x \in S : \A y \in S : <<y, x>> \notin R
  BY NatLessThanWellFounded, WFMin
<1>2. \A x, y \in Nat : <<y, x>> \in R <=> y < x
  BY DEF OpToRel
<1>3. PICK x \in S : \A y \in S : ~ (y < x)
  BY <1>1, <1>2
<1>4. \A y \in S : x <= y
  BY <1>3
<1> QED
  BY <1>4 DEF Min

LEMMA Induction ==
    ASSUME NEW S, 0 \in S, \A n \in Nat : n \in S => n + 1 \in S
    PROVE  \A n \in Nat : n \in S
<1> SUFFICES ASSUME \E n \in Nat : n \notin S PROVE FALSE
  OBVIOUS
<1> DEFINE T == {n \in Nat : n \notin S}
<1>1. T \in SUBSET Nat /\ T # {}
  OBVIOUS
<1>2. Min(T) \in T /\ \A y \in T : Min(T) <= y
  BY <1>1, HasMinimum
<1>3. PICK m \in T : \A y \in T : m <= y
  BY <1>2
<1>4. m \in Nat /\ m \notin S /\ m # 0
  BY <1>3
<1>5. m - 1 \in Nat /\ (m - 1) + 1 = m /\ ~ (m <= m - 1)
  BY <1>4
<1>6. m - 1 \in S
  BY <1>3, <1>5
<1> QED
  BY <1>4, <1>5, <1>6

\* A nonempty set of numbers that has a bound has a greatest one.
LEMMA HasMaximum ==
    ASSUME NEW S \in SUBSET Nat, S # {}, NEW b \in Nat, \A x \in S : x <= b
    PROVE  Max(S) \in S /\ \A y \in S : y <= Max(S)
<1> DEFINE T == {n \in Nat : \E x \in S : n = b - x}
<1>1. T \in SUBSET Nat /\ T # {}
  <2>1. \A x \in S : b - x \in Nat
    OBVIOUS
  <2> QED
    BY <2>1
<1>2. PICK t \in T : \A u \in T : t <= u
  BY <1>1, HasMinimum
<1>3. PICK x \in S : t = b - x
  BY <1>2
<1>4. \A y \in S : x >= y
  <2> TAKE y \in S
  <2>1. b - y \in T
    OBVIOUS
  <2> QED
    BY <1>2, <1>3, <2>1
<1> QED
  BY <1>3, <1>4 DEF Max

-----------------------------------------------------------------------------
(* Suffixes *)

LEMMA FromProperties ==
    ASSUME NEW s \in Bytes, NEW i \in 1 .. Len(s) + 1
    PROVE  /\ From(s, i) \in Bytes
           /\ Len(From(s, i)) = Len(s) - i + 1
           /\ \A j \in 1 .. Len(s) - i + 1 : From(s, i)[j] = s[i + j - 1]
<1>1. Len(s) \in Nat /\ \A j \in i .. Len(s) : s[j] \in Nat
  BY ElementOfSeq, LenProperties DEF Bytes
<1> QED
  BY <1>1, SubSeqProperties DEF From, Bytes

LEMMA FromAll ==
    ASSUME NEW s \in Bytes PROVE From(s, 1) = s
BY SubSeqFull DEF From, Bytes

LEMMA FromFrom ==
    ASSUME NEW s \in Bytes, NEW i \in 1 .. Len(s) + 1,
           NEW j \in 1 .. Len(s) - i + 2
    PROVE  From(From(s, i), j) = From(s, i + j - 1)
<1>1. Len(s) \in Nat
  BY LenProperties DEF Bytes
<1>2. From(s, i) \in Bytes /\ Len(From(s, i)) = Len(s) - i + 1
  BY FromProperties
<1>3. i + j - 1 \in 1 .. Len(s) + 1 /\ j \in 1 .. Len(From(s, i)) + 1
  BY <1>1, <1>2
<1>a. /\ From(From(s, i), j) \in Bytes
      /\ Len(From(From(s, i), j)) = Len(From(s, i)) - j + 1
      /\ \A k \in 1 .. Len(From(s, i)) - j + 1 :
             From(From(s, i), j)[k] = From(s, i)[j + k - 1]
  BY <1>2, <1>3, FromProperties
<1>b. /\ From(s, i + j - 1) \in Bytes
      /\ Len(From(s, i + j - 1)) = Len(s) - (i + j - 1) + 1
      /\ \A k \in 1 .. Len(s) - (i + j - 1) + 1 :
             From(s, i + j - 1)[k] = s[(i + j - 1) + k - 1]
  BY <1>3, FromProperties
<1>4. /\ From(From(s, i), j) \in Bytes /\ From(s, i + j - 1) \in Bytes
      /\ Len(From(From(s, i), j)) = Len(s) - i - j + 2
      /\ Len(From(s, i + j - 1)) = Len(s) - i - j + 2
  BY <1>1, <1>2, <1>a, <1>b
<1>5. \A k \in 1 .. Len(s) - i - j + 2 :
          From(From(s, i), j)[k] = From(s, i + j - 1)[k]
  <2> TAKE k \in 1 .. Len(s) - i - j + 2
  <2>1. From(From(s, i), j)[k] = From(s, i)[j + k - 1]
    BY <1>1, <1>2, <1>a
  <2>2. From(s, i)[j + k - 1] = s[i + (j + k - 1) - 1]
    BY <1>1, FromProperties
  <2>3. From(s, i + j - 1)[k] = s[(i + j - 1) + k - 1]
    BY <1>1, <1>b
  <2> QED
    BY <1>1, <2>1, <2>2, <2>3
<1> QED
  BY <1>4, <1>5, SeqEqual DEF Bytes

LEMMA FromConcat ==
    ASSUME NEW s \in Bytes, NEW t \in Bytes, NEW i \in 1 .. Len(s) + 1
    PROVE  From(s \o t, i) = From(s, i) \o t
<1>1. /\ Len(s) \in Nat /\ Len(t) \in Nat
      /\ s \o t \in Bytes /\ Len(s \o t) = Len(s) + Len(t)
      /\ \A j \in 1 .. Len(s) + Len(t) :
             (s \o t)[j] = IF j <= Len(s) THEN s[j] ELSE t[j - Len(s)]
  BY LenProperties, ConcatProperties DEF Bytes
<1>2. /\ From(s, i) \in Bytes /\ Len(From(s, i)) = Len(s) - i + 1
      /\ \A j \in 1 .. Len(s) - i + 1 : From(s, i)[j] = s[i + j - 1]
  BY FromProperties
<1>a. i \in 1 .. Len(s \o t) + 1
  BY <1>1
<1>3. /\ From(s \o t, i) \in Bytes
      /\ Len(From(s \o t, i)) = Len(s) + Len(t) - i + 1
      /\ \A j \in 1 .. Len(s) + Len(t) - i + 1 :
             From(s \o t, i)[j] = (s \o t)[i + j - 1]
  <2> DEFINE u == s \o t
             n == Len(s) + Len(t)
  <2>1. u \in Bytes /\ Len(u) = n /\ i \in 1 .. Len(u) + 1
    BY <1>1, <1>a
  <2> HIDE DEF u, n
  <2>2. /\ From(u, i) \in Bytes
        /\ Len(From(u, i)) = Len(u) - i + 1
        /\ \A j \in 1 .. Len(u) - i + 1 : From(u, i)[j] = u[i + j - 1]
    BY <2>1, FromProperties
  <2>3. /\ From(u, i) \in Bytes
        /\ Len(From(u, i)) = n - i + 1
        /\ \A j \in 1 .. n - i + 1 : From(u, i)[j] = u[i + j - 1]
    BY <2>1, <2>2
  <2> QED
    BY <2>3 DEF u, n
<1>4. /\ From(s, i) \o t \in Bytes
      /\ Len(From(s, i) \o t) = Len(s) - i + 1 + Len(t)
      /\ \A j \in 1 .. Len(s) - i + 1 + Len(t) :
             (From(s, i) \o t)[j] = IF j <= Len(s) - i + 1 THEN From(s, i)[j]
                                     ELSE t[j - (Len(s) - i + 1)]
  <2>1. /\ From(s, i) \o t \in Seq(Nat)
        /\ Len(From(s, i) \o t) = Len(From(s, i)) + Len(t)
        /\ \A j \in 1 .. Len(From(s, i)) + Len(t) :
               (From(s, i) \o t)[j] = IF j <= Len(From(s, i)) THEN From(s, i)[j]
                                        ELSE t[j - Len(From(s, i))]
    BY <1>2, ConcatProperties DEF Bytes
  <2> QED
    BY <1>2, <2>1 DEF Bytes
<1>5. \A j \in 1 .. Len(s) + Len(t) - i + 1 :
          From(s \o t, i)[j] = (From(s, i) \o t)[j]
  <2> TAKE j \in 1 .. Len(s) + Len(t) - i + 1
  <2>1. CASE j <= Len(s) - i + 1
    BY <1>1, <1>2, <1>3, <1>4, <2>1
  <2>2. CASE ~ (j <= Len(s) - i + 1)
    <3>1. i + j - 1 \in 1 .. Len(s) + Len(t) /\ ~ (i + j - 1 <= Len(s))
      BY <1>1, <2>2
    <3>2. (s \o t)[i + j - 1] = t[(i + j - 1) - Len(s)]
      BY <1>1, <3>1
    <3>3. (From(s, i) \o t)[j] = t[j - (Len(s) - i + 1)]
      BY <1>1, <1>4, <2>2
    <3>4. (i + j - 1) - Len(s) = j - (Len(s) - i + 1)
      BY <1>1
    <3> QED
      BY <1>3, <3>2, <3>3, <3>4
  <2> QED
    BY <2>1, <2>2
<1>6. Len(From(s \o t, i)) = Len(From(s, i) \o t)
  BY <1>1, <1>3, <1>4
<1> QED
  BY <1>3, <1>4, <1>5, <1>6, SeqEqual DEF Bytes

-----------------------------------------------------------------------------
(* Markers *)

Markers == {Pack, Keyframe}

LEMMA OccursAt ==
    ASSUME NEW s \in Bytes, NEW m \in Markers
    PROVE  Occurrences(m, s) =
               {i \in 1 .. Len(s) : i + 1 <= Len(s) /\ s[i] = m[1] /\ s[i + 1] = m[2]}
<1>1. /\ Len(m) = 2 /\ m = <<m[1], m[2]>>
      /\ Len(s) \in Nat
  BY LenProperties DEF Markers, Pack, Keyframe, Bytes
<1>2. ASSUME NEW i \in 1 .. Len(s), i + 1 <= Len(s)
      PROVE  SubSeq(s, i, i + 1) = m <=> s[i] = m[1] /\ s[i + 1] = m[2]
  <2> DEFINE u == SubSeq(s, i, i + 1)
  <2>1. \A j \in i .. i + 1 : s[j] \in Nat
    BY <1>1, <1>2, ElementOfSeq DEF Bytes
  <2>2. /\ u \in Seq(Nat) /\ Len(u) = i + 1 - i + 1
        /\ \A j \in 1 .. i + 1 - i + 1 : u[j] = s[i + j - 1]
    BY <2>1, SubSeqProperties
  <2>3. Len(u) = 2 /\ u[1] = s[i] /\ u[2] = s[i + 1]
    BY <2>2
  <2>4. m \in Seq(Nat)
    <3>1. <<0, 1>> \in Seq(Nat) /\ <<0, 2>> \in Seq(Nat)
      OBVIOUS
    <3> QED
      BY <3>1 DEF Markers, Pack, Keyframe
  <2> HIDE DEF u
  <2>5. u[1] = m[1] /\ u[2] = m[2] => u = m
    <3> SUFFICES ASSUME u[1] = m[1], u[2] = m[2] PROVE u = m
      OBVIOUS
    <3>1. \A j \in 1 .. Len(u) : j = 1 \/ j = 2
      BY <2>3
    <3>2. \A j \in 1 .. Len(u) : u[j] = m[j]
      BY <3>1
    <3> QED
      BY <1>1, <2>2, <2>3, <2>4, <3>2, SeqEqual
  <2> QED
    BY <2>3, <2>5 DEF u
<1>3. \A i : i + Len(m) - 1 = i + 2 - 1
  BY <1>1
<1>4. \A i \in 1 .. Len(s) : i + 2 - 1 = i + 1
  BY <1>1
<1> QED
  BY <1>2, <1>3, <1>4 DEF Occurrences

LEMMA LastBeforeIs ==
    ASSUME NEW s \in Bytes, NEW m \in Markers, NEW end \in Nat
    PROVE  /\ LastBefore(m, s, end) \in Nat
           /\ LastBefore(m, s, end) # 0 =>
                  /\ LastBefore(m, s, end) \in Occurrences(m, s)
                  /\ LastBefore(m, s, end) + 2 <= end
           /\ \A i \in Occurrences(m, s) :
                  i + 2 <= end => i <= LastBefore(m, s, end)
<1> DEFINE S == {0} \cup {i \in Occurrences(m, s) : i + Len(m) <= end}
<1>1. Len(m) = 2
  BY DEF Markers, Pack, Keyframe
<1>2. Occurrences(m, s) \subseteq 1 .. Len(s) /\ Len(s) \in Nat
  BY LenProperties DEF Occurrences, Bytes
<1>3. S \in SUBSET Nat /\ S # {} /\ \A x \in S : x <= Len(s)
  BY <1>2
<1>4. Max(S) \in S /\ \A y \in S : y <= Max(S)
  BY <1>2, <1>3, HasMaximum
<1>5. LastBefore(m, s, end) = Max(S)
  BY DEF LastBefore
<1> QED
  BY <1>1, <1>2, <1>3, <1>4, <1>5

\* A last occurrence is the only one.
LEMMA LastBeforeOnly ==
    ASSUME NEW s \in Bytes, NEW m \in Markers, NEW end \in Nat, NEW p \in Nat,
           p # 0 => p \in Occurrences(m, s) /\ p + 2 <= end,
           \A i \in Occurrences(m, s) : i + 2 <= end => i <= p
    PROVE  LastBefore(m, s, end) = p
<1> DEFINE q == LastBefore(m, s, end)
<1>1. /\ q \in Nat
      /\ q # 0 => q \in Occurrences(m, s) /\ q + 2 <= end
      /\ \A i \in Occurrences(m, s) : i + 2 <= end => i <= q
  BY LastBeforeIs
<1> HIDE DEF q
<1>2. p <= q /\ q <= p
  BY <1>1
<1> QED
  BY <1>1, <1>2 DEF q

LEMMA OccursInSuffix ==
    ASSUME NEW s \in Bytes, NEW m \in Markers, NEW i \in 1 .. Len(s) + 1,
           NEW j \in Nat \ {0}
    PROVE  j \in Occurrences(m, From(s, i)) <=> i + j - 1 \in Occurrences(m, s)
<1> DEFINE t == From(s, i)
<1>1. Len(s) \in Nat
  BY LenProperties DEF Bytes
<1>2. /\ From(s, i) \in Bytes
      /\ Len(From(s, i)) = Len(s) - i + 1
      /\ \A k \in 1 .. Len(s) - i + 1 : From(s, i)[k] = s[i + k - 1]
  BY FromProperties
<1>3. CASE j + 1 <= Len(s) - i + 1
  <2>1. From(s, i)[j] = s[i + j - 1]
    BY <1>1, <1>2, <1>3
  <2>2. From(s, i)[j + 1] = s[i + (j + 1) - 1] /\ i + (j + 1) - 1 = (i + j - 1) + 1
    BY <1>1, <1>2, <1>3
  <2>3. j \in 1 .. Len(From(s, i)) /\ j + 1 <= Len(From(s, i))
    BY <1>1, <1>2, <1>3
  <2>4. i + j - 1 \in 1 .. Len(s) /\ (i + j - 1) + 1 <= Len(s)
    BY <1>1, <1>3
  <2>5. j \in Occurrences(m, t) <=> t[j] = m[1] /\ t[j + 1] = m[2]
    BY <1>2, <2>3, OccursAt
  <2>6. i + j - 1 \in Occurrences(m, s) <=>
            s[i + j - 1] = m[1] /\ s[(i + j - 1) + 1] = m[2]
    BY <2>4, OccursAt
  <2> QED
    BY <2>1, <2>2, <2>5, <2>6
<1>4. CASE ~ (j + 1 <= Len(s) - i + 1)
  <2>1. ~ (j + 1 <= Len(From(s, i))) /\ ~ ((i + j - 1) + 1 <= Len(s))
    BY <1>1, <1>2, <1>4
  <2> QED
    BY <1>2, <2>1, OccursAt
<1> QED
  BY <1>3, <1>4

LEMMA OccursInPrefix ==
    ASSUME NEW s \in Bytes, NEW t \in Bytes, NEW m \in Markers, NEW j \in Nat
    PROVE  /\ j \in Occurrences(m, s) <=> j \in Occurrences(m, s \o t) /\ j + 1 <= Len(s)
<1>1. /\ Len(s) \in Nat /\ Len(t) \in Nat
      /\ s \o t \in Bytes /\ Len(s \o t) = Len(s) + Len(t)
      /\ \A k \in 1 .. Len(s) + Len(t) :
             (s \o t)[k] = IF k <= Len(s) THEN s[k] ELSE t[k - Len(s)]
  BY LenProperties, ConcatProperties DEF Bytes
<1>2. CASE j \in 1 .. Len(s) /\ j + 1 <= Len(s)
  <2>1. (s \o t)[j] = s[j] /\ (s \o t)[j + 1] = s[j + 1]
    BY <1>1, <1>2
  <2>2. j \in 1 .. Len(s \o t) /\ j + 1 <= Len(s \o t)
    BY <1>1, <1>2
  <2>3. j \in Occurrences(m, s) <=> s[j] = m[1] /\ s[j + 1] = m[2]
    BY <1>2, OccursAt
  <2>4. j \in Occurrences(m, s \o t) <=> (s \o t)[j] = m[1] /\ (s \o t)[j + 1] = m[2]
    <3>1. \A u \in Bytes : j \in 1 .. Len(u) /\ j + 1 <= Len(u) =>
              (j \in Occurrences(m, u) <=> u[j] = m[1] /\ u[j + 1] = m[2])
      BY OccursAt
    <3> QED
      BY <1>1, <2>2, <3>1
  <2> QED
    BY <1>2, <2>1, <2>3, <2>4
<1>3. CASE ~ (j \in 1 .. Len(s) /\ j + 1 <= Len(s))
  <2>1. j \notin Occurrences(m, s)
    BY <1>3, OccursAt
  <2>2. j \in Occurrences(m, s \o t) => j >= 1
    BY <1>1, OccursAt
  <2> QED
    BY <1>1, <1>3, <2>1, <2>2
<1> QED
  BY <1>2, <1>3

LEMMA LastBeforeInPrefix ==
    ASSUME NEW s \in Bytes, NEW t \in Bytes, NEW m \in Markers,
           NEW end \in Nat, end <= Len(s) + 1
    PROVE  LastBefore(m, s \o t, end) = LastBefore(m, s, end)
<1>1. s \o t \in Bytes /\ Len(s) \in Nat
  BY LenProperties, ConcatProperties DEF Bytes
<1> DEFINE p == LastBefore(m, s, end)
<1>2. /\ p \in Nat
      /\ p # 0 => p \in Occurrences(m, s) /\ p + 2 <= end
      /\ \A i \in Occurrences(m, s) : i + 2 <= end => i <= p
  BY LastBeforeIs
<1> HIDE DEF p
<1>3. p # 0 => p \in Occurrences(m, s \o t)
  BY <1>2, OccursInPrefix
<1>4. \A i \in Occurrences(m, s \o t) : i + 2 <= end => i <= p
  <2> TAKE i \in Occurrences(m, s \o t)
  <2>1. i \in Nat
    BY <1>1, OccursAt
  <2>2. i + 2 <= end => i + 1 <= Len(s)
    BY <1>1, <2>1
  <2> QED
    BY <1>2, <2>1, <2>2, OccursInPrefix
<1> QED
  BY <1>1, <1>2, <1>3, <1>4, LastBeforeOnly DEF p

LEMMA LastBeforeInSuffix ==
    ASSUME NEW s \in Bytes, NEW m \in Markers, NEW i \in 1 .. Len(s) + 1,
           NEW end \in Nat
    PROVE  LastBefore(m, From(s, i), end) =
               LET p == LastBefore(m, s, end + i - 1)
               IN  IF p >= i THEN p - i + 1 ELSE 0
<1>1. /\ From(s, i) \in Bytes /\ end + i - 1 \in Nat /\ Len(s) \in Nat
      /\ Len(From(s, i)) \in Nat
  BY FromProperties, LenProperties DEF Bytes
<1> DEFINE p == LastBefore(m, s, end + i - 1)
           q == IF p >= i THEN p - i + 1 ELSE 0
<1>2. /\ p \in Nat
      /\ p # 0 => p \in Occurrences(m, s) /\ p + 2 <= end + i - 1
      /\ \A k \in Occurrences(m, s) : k + 2 <= end + i - 1 => k <= p
  BY <1>1, LastBeforeIs
<1> HIDE DEF p
<1>3. q \in Nat /\ (q # 0 => p # 0 /\ q = p - i + 1 /\ i + q - 1 = p)
  BY <1>2
<1> HIDE DEF q
<1>4. q # 0 => q \in Occurrences(m, From(s, i)) /\ q + 2 <= end
  BY <1>2, <1>3, OccursInSuffix
<1>5. \A k \in Occurrences(m, From(s, i)) : k + 2 <= end => k <= q
  <2> TAKE k \in Occurrences(m, From(s, i))
  <2>1. k \in Nat \ {0}
    BY <1>1, OccursAt
  <2>2. i + k - 1 \in Occurrences(m, s)
    BY <2>1, OccursInSuffix
  <2>3. k + 2 <= end => i + k - 1 <= p
    BY <1>1, <1>2, <2>1, <2>2
  <2> QED
    BY <1>2, <2>1, <2>3 DEF q
<1>6. LastBefore(m, From(s, i), end) = q
  BY <1>1, <1>3, <1>4, <1>5, LastBeforeOnly
<1> QED
  BY <1>6 DEF p, q

-----------------------------------------------------------------------------
(* What _absorb_plain makes of the plaintext *)

FirstKeyframe(s) == Min(Occurrences(Keyframe, s))

LEMMA FirstKeyframeIs ==
    ASSUME NEW s \in Bytes, Occurrences(Keyframe, s) # {}
    PROVE  /\ FirstKeyframe(s) \in Occurrences(Keyframe, s)
           /\ FirstKeyframe(s) \in 1 .. Len(s)
           /\ \A i \in Occurrences(Keyframe, s) : FirstKeyframe(s) <= i
<1>1. Occurrences(Keyframe, s) \in SUBSET Nat
  BY DEF Occurrences
<1> QED
  BY <1>1, HasMinimum DEF FirstKeyframe, Occurrences

LEMMA StartAtIs ==
    ASSUME NEW s \in Bytes, NEW k \in 1 .. Len(s)
    PROVE  StartAt(s, k) \in 1 .. k
<1>1. k \in Nat /\ Len(s) \in Nat /\ Pack \in Markers
  BY LenProperties DEF Bytes, Markers
<1> DEFINE p == LastBefore(Pack, s, k)
<1>2. p \in Nat /\ (p # 0 => p + 2 <= k)
  BY <1>1, LastBeforeIs
<1> HIDE DEF p
<1>3. StartAt(s, k) = IF p # 0 /\ k - p <= Lookback THEN p ELSE k
  BY DEF StartAt, p
<1> QED
  BY <1>1, <1>2, <1>3

\* The output of a stream that has a keyframe grows with it.
LEMMA SyncedGrows ==
    ASSUME NEW s \in Bytes, NEW t \in Bytes, Occurrences(Keyframe, s) # {}
    PROVE  /\ Occurrences(Keyframe, s \o t) # {}
           /\ Synced(s \o t) = Synced(s) \o t
<1>1. /\ s \o t \in Bytes /\ Len(s) \in Nat
      /\ Keyframe \in Markers /\ Pack \in Markers
  BY LenProperties, ConcatProperties DEF Bytes, Markers
<1> DEFINE k == FirstKeyframe(s)
<1>2. /\ k \in Occurrences(Keyframe, s) /\ k \in 1 .. Len(s)
      /\ \A i \in Occurrences(Keyframe, s) : k <= i
  BY FirstKeyframeIs
<1>3. k \in Occurrences(Keyframe, s \o t) /\ k + 1 <= Len(s)
  BY <1>1, <1>2, OccursInPrefix
<1>4. /\ FirstKeyframe(s \o t) \in Occurrences(Keyframe, s \o t)
      /\ \A i \in Occurrences(Keyframe, s \o t) : FirstKeyframe(s \o t) <= i
      /\ FirstKeyframe(s \o t) \in Nat
  BY <1>1, <1>3, FirstKeyframeIs
<1> HIDE DEF k
<1>5. FirstKeyframe(s \o t) = k
  <2> DEFINE l == FirstKeyframe(s \o t)
  <2> HIDE DEF l
  <2>1. /\ l \in Occurrences(Keyframe, s \o t) /\ l \in Nat /\ l <= k
    BY <1>3, <1>4 DEF l
  <2>2. l \in Occurrences(Keyframe, s)
    BY <1>1, <1>2, <1>3, <2>1, OccursInPrefix
  <2>3. l = k
    BY <1>2, <2>1, <2>2
  <2> QED
    BY <2>3 DEF l
<1>6. StartAt(s \o t, k) = StartAt(s, k)
  BY <1>1, <1>2, LastBeforeInPrefix DEF StartAt
<1>7. StartAt(s, k) \in 1 .. Len(s) + 1
  BY <1>1, <1>2, StartAtIs
<1>8. From(s \o t, StartAt(s, k)) = From(s, StartAt(s, k)) \o t
  BY <1>7, FromConcat
<1>9. Synced(s) = From(s, StartAt(s, k))
  BY DEF Synced, k, FirstKeyframe
<1>10. Synced(s \o t) = From(s \o t, StartAt(s \o t, k))
  BY <1>3, <1>5 DEF Synced, FirstKeyframe
<1> QED
  BY <1>3, <1>6, <1>8, <1>9, <1>10

\* What a decoder holds of the plaintext it was given: the output it has let
\* out, or the end of what it is still looking for a keyframe in, cut, if at
\* all, where a pack header near to a keyframe yet to come cannot lie.
Holds(d, plain) ==
    /\ d.started <=> Occurrences(Keyframe, plain) # {}
    /\ d.out = Synced(plain)
    /\ IF d.started
       THEN d.pending = <<>>
       ELSE \E c \in 1 .. Len(plain) + 1 :
                /\ d.pending = From(plain, c)
                /\ Len(d.pending) <= MaxPending
                /\ c = 1 \/ Len(d.pending) >= MaxPending \div 2

LEMMA HalfIsEnough ==
    /\ MaxPending \div 2 \in Nat /\ MaxPending \div 2 <= MaxPending
    /\ Lookback \in Nat /\ MaxPending \in Nat /\ Lookback + 2 <= MaxPending \div 2
<1>1. Len(Keyframe) = 2
  BY DEF Keyframe
<1> QED
  BY <1>1, LookbackAssumption

\* Nothing is lost in what was cut off before the first keyframe.
LEMMA CutIsHarmless ==
    ASSUME NEW plain \in Bytes, NEW x \in Bytes, NEW c \in 1 .. Len(plain) + 1,
           Occurrences(Keyframe, plain) = {},
           c = 1 \/ Len(plain) - c + 1 >= MaxPending \div 2
    PROVE  LET q == plain \o x
               s == From(q, c)
           IN  /\ Occurrences(Keyframe, s) = {} <=> Occurrences(Keyframe, q) = {}
               /\ Synced(s) = Synced(q)
<1> DEFINE q == plain \o x
           s == From(q, c)
<1>1. /\ Len(plain) \in Nat /\ Len(x) \in Nat
      /\ q \in Bytes /\ Len(q) = Len(plain) + Len(x)
      /\ Keyframe \in Markers /\ Pack \in Markers
  BY LenProperties, ConcatProperties DEF Bytes, Markers
<1> HIDE DEF q
<1>2. c \in 1 .. Len(q) + 1
  BY <1>1
<1>3. s \in Bytes /\ Len(s) = Len(q) - c + 1
  BY <1>1, <1>2, FromProperties
<1>4. \A i \in Occurrences(Keyframe, q) : i \in Nat /\ i >= Len(plain) /\ i >= c
  <2> TAKE i \in Occurrences(Keyframe, q)
  <2>1. i \in 1 .. Len(q)
    BY DEF Occurrences
  <2>2. ~ (i + 1 <= Len(plain))
    BY <1>1, <2>1, OccursInPrefix DEF q
  <2> QED
    BY <1>1, <2>1, <2>2, HalfIsEnough
<1>5. \A j \in Nat \ {0} : j \in Occurrences(Keyframe, s) <=>
                            c + j - 1 \in Occurrences(Keyframe, q)
  BY <1>1, <1>2, OccursInSuffix
<1>6. \A j \in Occurrences(Keyframe, s) : j \in Nat \ {0}
  BY DEF Occurrences
<1> HIDE DEF s
<1>7. CASE Occurrences(Keyframe, q) = {}
  <2>1. Occurrences(Keyframe, s) = {}
    BY <1>5, <1>6, <1>7
  <2> QED
    BY <1>7, <2>1 DEF Synced, q, s
<1>8. CASE Occurrences(Keyframe, q) # {}
  <2> DEFINE k == FirstKeyframe(q)
             l == FirstKeyframe(s)
  <2>1. /\ k \in Occurrences(Keyframe, q) /\ k \in 1 .. Len(q)
        /\ \A i \in Occurrences(Keyframe, q) : k <= i
    BY <1>1, <1>8, FirstKeyframeIs
  <2> HIDE DEF k
  <2>2. k - c + 1 \in Nat \ {0} /\ c + (k - c + 1) - 1 = k
    BY <1>2, <1>4, <2>1
  <2>3. k - c + 1 \in Occurrences(Keyframe, s)
    BY <1>5, <2>1, <2>2
  <2>4. /\ l \in Occurrences(Keyframe, s) /\ l \in 1 .. Len(s)
        /\ \A j \in Occurrences(Keyframe, s) : l <= j
    BY <1>3, <2>3, FirstKeyframeIs
  <2> HIDE DEF l
  <2>5. l \in Nat \ {0} /\ c + l - 1 \in Occurrences(Keyframe, q)
    BY <1>5, <1>6, <2>4
  <2>6. k = c + l - 1
    BY <1>2, <2>1, <2>2, <2>3, <2>4, <2>5
  <2> DEFINE p == LastBefore(Pack, q, k)
  <2>7. p \in Nat
    BY <1>1, <2>1, LastBeforeIs
  <2>8. l + c - 1 = k
    BY <2>5, <2>6
  <2>9. LastBefore(Pack, s, l) = IF p >= c THEN p - c + 1 ELSE 0
    BY <1>1, <1>2, <2>5, <2>8, LastBeforeInSuffix DEF s
  <2> HIDE DEF p
  <2>10. StartAt(q, k) = IF p # 0 /\ k - p <= Lookback THEN p ELSE k
    BY DEF StartAt, p
  <2>11. StartAt(s, l) = IF p >= c /\ k - p <= Lookback THEN p - c + 1 ELSE l
    <3>1. CASE p >= c
      <4>1. p - c + 1 # 0 /\ l - (p - c + 1) = k - p
        BY <2>6, <2>5, <2>7, <3>1
      <4> QED
        BY <2>9, <3>1, <4>1 DEF StartAt
    <3>2. CASE ~ (p >= c)
      BY <2>9, <3>2 DEF StartAt
    <3> QED
      BY <3>1, <3>2
  <2>12. p # 0 /\ k - p <= Lookback => p >= c
    <3>1. k >= Len(plain) /\ k \in Nat
      BY <1>4, <2>1
    <3> QED
      BY <1>1, <2>7, <3>1, HalfIsEnough
  <2>13. StartAt(q, k) = c + StartAt(s, l) - 1
    BY <2>5, <2>6, <2>7, <2>10, <2>11, <2>12
  <2>14. StartAt(s, l) \in 1 .. Len(q) - c + 2
    <3>1. StartAt(s, l) \in 1 .. l
      BY <1>3, <2>4, StartAtIs
    <3> QED
      BY <1>1, <1>3, <2>4, <3>1
  <2>15. From(s, StartAt(s, l)) = From(q, StartAt(q, k))
    BY <1>1, <1>2, <2>13, <2>14, FromFrom DEF s
  <2>16. Synced(s) = From(s, StartAt(s, l)) /\ Synced(q) = From(q, StartAt(q, k))
    BY <1>8, <2>4 DEF Synced, FirstKeyframe, k, l
  <2> QED
    BY <1>8, <2>4, <2>15, <2>16 DEF q, s
<1> QED
  BY <1>7, <1>8

LEMMA SyncedTyped ==
    ASSUME NEW s \in Bytes PROVE Synced(s) \in Bytes
<1>1. CASE Occurrences(Keyframe, s) = {}
  BY <1>1, EmptySeq DEF Synced, Bytes
<1>2. CASE Occurrences(Keyframe, s) # {}
  <2>1. FirstKeyframe(s) \in 1 .. Len(s) /\ Len(s) \in Nat
    BY <1>2, FirstKeyframeIs, LenProperties DEF Bytes
  <2>2. StartAt(s, FirstKeyframe(s)) \in 1 .. Len(s) + 1
    BY <2>1, StartAtIs
  <2> QED
    BY <1>2, <2>2, FromProperties DEF Synced, FirstKeyframe
<1> QED
  BY <1>1, <1>2

\* _absorb_plain.
LEMMA AbsorbHolds ==
    ASSUME NEW d \in Decoders, NEW plain \in Bytes, NEW x \in Bytes, Holds(d, plain)
    PROVE  /\ Absorb(d, x) \in Decoders
           /\ Absorb(d, x).buf = d.buf /\ Absorb(d, x).keys = d.keys
           /\ Holds(Absorb(d, x), plain \o x)
<1> DEFINE e == Absorb(d, x)
           q == plain \o x
           s == d.pending \o x
           ks == Occurrences(Keyframe, s)
<1>1. /\ q \in Bytes /\ s \in Bytes /\ d.out \o x \in Bytes
      /\ Len(q) = Len(plain) + Len(x) /\ Len(s) = Len(d.pending) + Len(x)
      /\ Len(plain) \in Nat /\ Len(x) \in Nat /\ Len(d.pending) \in Nat
      /\ <<>> \in Bytes
  BY LenProperties, ConcatProperties, EmptySeq DEF Bytes, Decoders
<1>2. CASE d.started
  <2>1. e = [d EXCEPT !.out = @ \o x]
    BY <1>2 DEF Absorb
  <2>2. /\ e \in Decoders /\ e.buf = d.buf /\ e.keys = d.keys
        /\ e.started /\ e.pending = <<>> /\ e.out = d.out \o x
    BY <1>1, <1>2, <2>1 DEF Decoders, Holds
  <2>3. Occurrences(Keyframe, q) # {} /\ Synced(q) = Synced(plain) \o x
    BY <1>2, SyncedGrows DEF Holds
  <2> HIDE DEF e
  <2>4. Holds(e, q)
    BY <2>2, <2>3 DEF Holds
  <2> QED
    BY <2>2, <2>4 DEF e
<1>3. CASE ~ d.started
  <2>1. PICK c \in 1 .. Len(plain) + 1 :
            /\ d.pending = From(plain, c)
            /\ Len(d.pending) <= MaxPending
            /\ c = 1 \/ Len(d.pending) >= MaxPending \div 2
    BY <1>3 DEF Holds
  <2>2. /\ Occurrences(Keyframe, plain) = {}
        /\ Len(d.pending) = Len(plain) - c + 1
    BY <1>3, <2>1, FromProperties DEF Holds
  <2>3. s = From(q, c)
    BY <2>1, FromConcat
  <2>4. ks = {} <=> Occurrences(Keyframe, q) = {}
    BY <2>1, <2>2, <2>3, CutIsHarmless
  <2>5. Synced(s) = Synced(q)
    BY <2>1, <2>2, <2>3, CutIsHarmless
  <2>6. CASE ks # {}
    <3>1. e = [d EXCEPT !.started = TRUE, !.pending = <<>>,
                        !.out = From(s, StartAt(s, Min(ks)))]
      BY <1>3, <2>6 DEF Absorb
    <3>2. From(s, StartAt(s, Min(ks))) = Synced(s)
      BY <2>6 DEF Synced
    <3>3. Synced(s) \in Bytes
      BY <1>1, SyncedTyped
    <3>4. /\ e \in Decoders /\ e.buf = d.buf /\ e.keys = d.keys
          /\ e.started /\ e.pending = <<>> /\ e.out = Synced(q)
      BY <1>1, <2>5, <3>1, <3>2, <3>3 DEF Decoders
    <3> HIDE DEF e
    <3>5. Holds(e, q)
      BY <2>4, <2>6, <3>4 DEF Holds
    <3> QED
      BY <3>4, <3>5 DEF e
  <2>7. CASE ks = {}
    <3> DEFINE h == MaxPending \div 2
               c2 == IF Len(s) > MaxPending THEN Len(q) - h + 1 ELSE c
    <3>1. e = [d EXCEPT !.pending = IF Len(s) > MaxPending
                                    THEN From(s, Len(s) - h + 1) ELSE s]
      BY <1>3, <2>7 DEF Absorb
    <3>2. /\ h \in Nat /\ h <= MaxPending /\ MaxPending \in Nat
      BY HalfIsEnough
    <3> HIDE DEF h
    <3>3. c2 \in 1 .. Len(q) + 1
      BY <1>1, <2>2, <3>2
    <3>4. e.pending = From(q, c2)
      <4>1. CASE Len(s) > MaxPending
        <5>1. Len(s) - h + 1 \in 1 .. Len(q) - c + 2 /\ c \in 1 .. Len(q) + 1
          BY <1>1, <2>2, <3>2, <4>1
        <5>2. From(s, Len(s) - h + 1) = From(q, c + (Len(s) - h + 1) - 1)
          BY <1>1, <2>3, <5>1, FromFrom
        <5>3. c + (Len(s) - h + 1) - 1 = c2
          BY <1>1, <2>2, <3>2, <4>1
        <5> QED
          BY <3>1, <4>1, <5>2, <5>3 DEF Decoders
      <4>2. CASE ~ (Len(s) > MaxPending)
        BY <2>3, <3>1, <4>2 DEF Decoders
      <4> QED
        BY <4>1, <4>2
    <3>5. e.pending \in Bytes /\ Len(e.pending) = Len(q) - c2 + 1
      BY <1>1, <3>3, <3>4, FromProperties
    <3>6. /\ Len(e.pending) <= MaxPending
          /\ c2 = 1 \/ Len(e.pending) >= h
      <4>1. CASE Len(s) > MaxPending
        <5>1. Len(e.pending) = h
          BY <1>1, <3>2, <3>5, <4>1
        <5> QED
          BY <3>2, <5>1
      <4>2. CASE ~ (Len(s) > MaxPending)
        <5> HIDE DEF e, q
        <5>1. Len(e.pending) = Len(d.pending) + Len(x)
          BY <1>1, <2>1, <2>2, <3>5, <4>2
        <5>2. c2 = c /\ (c = 1 \/ Len(d.pending) >= h)
          BY <2>1, <4>2 DEF h
        <5> QED
          BY <1>1, <3>2, <4>2, <5>1, <5>2
      <4> QED
        BY <4>1, <4>2
    <3>7. d.out = <<>> /\ Synced(q) = <<>>
      BY <1>3, <2>2, <2>4, <2>7 DEF Holds, Synced
    <3>8. /\ e \in Decoders /\ e.buf = d.buf /\ e.keys = d.keys
          /\ ~ e.started /\ e.out = <<>>
      BY <1>3, <3>1, <3>5, <3>7 DEF Decoders
    <3> HIDE DEF e, c2
    <3>9. Holds(e, q)
      BY <2>4, <2>7, <3>3, <3>4, <3>6, <3>7, <3>8 DEF Holds, h
    <3> QED
      BY <3>8, <3>9 DEF e
  <2> QED
    BY <2>6, <2>7
<1> QED
  BY <1>2, <1>3

-----------------------------------------------------------------------------
(* What recursive functions are *)

\* The runs of n steps from v0.
Runs(V, v0, step, n) ==
    {g \in [0 .. n -> V] : g[0] = v0 /\ \A m \in 1 .. n : g[m] = step[m][g[m - 1]]}

LEMMA Recursion ==
    ASSUME NEW V, NEW v0 \in V, NEW step \in [Nat -> [V -> V]]
    PROVE  \A n \in Nat : Runs(V, v0, step, n) # {}
<1> DEFINE S == {n \in Nat : Runs(V, v0, step, n) # {}}
<1>1. 0 \in S
  <2> DEFINE g == [m \in 0 .. 0 |-> v0]
  <2>1. g \in [0 .. 0 -> V] /\ g[0] = v0 /\ 1 .. 0 = {}
    OBVIOUS
  <2> HIDE DEF g
  <2>2. g \in Runs(V, v0, step, 0)
    BY <2>1 DEF Runs
  <2> QED
    BY <2>2
<1>2. ASSUME NEW n \in Nat, n \in S PROVE n + 1 \in S
  <2>1. PICK g \in Runs(V, v0, step, n) : TRUE
    BY <1>2
  <2>2. g \in [0 .. n -> V] /\ g[0] = v0 /\ \A m \in 1 .. n : g[m] = step[m][g[m - 1]]
    BY <2>1 DEF Runs
  <2> DEFINE h == [m \in 0 .. n + 1 |-> IF m = n + 1 THEN step[n + 1][g[n]] ELSE g[m]]
  <2>3. g[n] \in V /\ n + 1 \in Nat
    BY <2>2
  <2>4. step[n + 1][g[n]] \in V
    BY <2>3
  <2>5. h \in [0 .. n + 1 -> V]
    BY <2>2, <2>4
  <2>6. \A m \in 0 .. n : h[m] = g[m]
    OBVIOUS
  <2>7. h[n + 1] = step[n + 1][g[n]]
    OBVIOUS
  <2> HIDE DEF h
  <2>8. h[0] = v0
    BY <2>2, <2>6
  <2>9. \A m \in 1 .. n + 1 : h[m] = step[m][h[m - 1]]
    <3> TAKE m \in 1 .. n + 1
    <3>1. CASE m = n + 1
      <4>1. m - 1 = n /\ h[n] = g[n]
        BY <2>6, <3>1
      <4> QED
        BY <2>7, <3>1, <4>1
    <3>2. CASE m \in 1 .. n
      <4>1. h[m] = g[m] /\ h[m - 1] = g[m - 1]
        BY <2>6, <3>2
      <4> QED
        BY <2>2, <3>2, <4>1
    <3> QED
      BY <3>1, <3>2
  <2>10. h \in Runs(V, v0, step, n + 1)
    BY <2>5, <2>8, <2>9 DEF Runs
  <2> QED
    BY <2>3, <2>10
<1> HIDE DEF S
<1>3. \A n \in Nat : n \in S
  BY <1>1, <1>2, Induction
<1> QED
  BY <1>3 DEF S

\* PlainUpTo is what its equation says.
LEMMA PlainUpToIs ==
    ASSUME NEW F \in Seq(Framed)
    PROVE  /\ PlainUpTo(F) \in [0 .. Len(F) -> Bytes]
           /\ \A n \in 0 .. Len(F) : PlainUpTo(F)[n] =
                  IF n < 2 THEN <<>> ELSE PlainUpTo(F)[n - 1] \o PlainOf(F[n])
<1>1. Len(F) \in Nat /\ <<>> \in Bytes
  BY LenProperties, EmptySeq DEF Bytes
<1>2. \A n \in 1 .. Len(F) : PlainOf(F[n]) \in Bytes
  <2> TAKE n \in 1 .. Len(F)
  <2>1. F[n][2] \in Bytes
    BY ElementOfSeq DEF Framed
  <2>2. IsData(F[n][1], F[n][2]) => F[n][2] # <<>>
    BY <1>1, EmptySeq DEF IsData
  <2> QED
    BY <1>1, <2>1, <2>2, HeadTailProperties DEF PlainOf, Bytes
<1> DEFINE step == [m \in Nat |-> [v \in Bytes |->
                IF m < 2 \/ m > Len(F) THEN <<>> ELSE v \o PlainOf(F[m])]]
<1>3. step \in [Nat -> [Bytes -> Bytes]]
  <2> SUFFICES ASSUME NEW m \in Nat, NEW v \in Bytes, ~ (m < 2 \/ m > Len(F))
               PROVE  v \o PlainOf(F[m]) \in Bytes
    BY <1>1
  <2>1. PlainOf(F[m]) \in Bytes
    BY <1>1, <1>2
  <2> QED
    BY <2>1, ConcatProperties DEF Bytes
<1>4. \A m \in 1 .. Len(F), v \in Bytes :
          step[m][v] = IF m < 2 THEN <<>> ELSE v \o PlainOf(F[m])
  BY <1>1
<1> HIDE DEF step
<1>a. Runs(Bytes, <<>>, step, Len(F)) # {}
  BY <1>1, <1>3, Recursion
<1>b. PICK g \in Runs(Bytes, <<>>, step, Len(F)) : TRUE
  BY <1>a
<1>5. /\ g \in [0 .. Len(F) -> Bytes] /\ g[0] = <<>>
      /\ \A m \in 1 .. Len(F) : g[m] = step[m][g[m - 1]]
  BY <1>b DEF Runs
<1>6. g = [n \in 0 .. Len(F) |-> IF n < 2 THEN <<>> ELSE g[n - 1] \o PlainOf(F[n])]
  <2>1. \A n \in 0 .. Len(F) :
            g[n] = IF n < 2 THEN <<>> ELSE g[n - 1] \o PlainOf(F[n])
    <3> TAKE n \in 0 .. Len(F)
    <3>1. CASE n = 0
      BY <1>5, <3>1
    <3>2. CASE n # 0
      <4>1. n - 1 \in 0 .. Len(F) /\ g[n - 1] \in Bytes
        BY <1>1, <1>5, <3>2
      <4>2. g[n] = step[n][g[n - 1]]
        BY <1>5, <3>2
      <4> QED
        BY <1>4, <4>1, <4>2
    <3> QED
      BY <3>1, <3>2
  <2> QED
    BY <1>5, <2>1, Zenon
<1>7. PlainUpTo(F) = [n \in 0 .. Len(F) |->
          IF n < 2 THEN <<>> ELSE PlainUpTo(F)[n - 1] \o PlainOf(F[n])]
  BY <1>6, Zenon DEF PlainUpTo
<1> DEFINE f == PlainUpTo(F)
<1> HIDE DEF f
<1>8. f = [n \in 0 .. Len(F) |-> IF n < 2 THEN <<>> ELSE f[n - 1] \o PlainOf(F[n])]
  BY <1>7 DEF f
<1>9. \A n \in 0 .. Len(F) : f[n] = IF n < 2 THEN <<>> ELSE f[n - 1] \o PlainOf(F[n])
  BY <1>8
<1> DEFINE S == {n \in Nat : n <= Len(F) => f[n] \in Bytes}
<1>10. 0 \in S
  BY <1>1, <1>9
<1>11. ASSUME NEW n \in Nat, n \in S PROVE n + 1 \in S
  <2> SUFFICES ASSUME n + 1 <= Len(F) PROVE f[n + 1] \in Bytes
    OBVIOUS
  <2>1. f[n] \in Bytes
    BY <1>1, <1>11
  <2>2. PlainOf(F[n + 1]) \in Bytes
    BY <1>1, <1>2
  <2>3. f[n] \o PlainOf(F[n + 1]) \in Bytes
    BY <2>1, <2>2, ConcatProperties DEF Bytes
  <2>4. f[n + 1] = IF n + 1 < 2 THEN <<>> ELSE f[n] \o PlainOf(F[n + 1])
    BY <1>1, <1>9
  <2> QED
    BY <1>1, <2>3, <2>4
<1> HIDE DEF S
<1>12. \A n \in Nat : n \in S
  BY <1>10, <1>11, Induction
<1>13. \A n \in 0 .. Len(F) : f[n] \in Bytes
  BY <1>1, <1>12 DEF S
<1>14. f \in [0 .. Len(F) -> Bytes]
  BY <1>8, <1>13
<1> QED
  BY <1>9, <1>14 DEF f

LEMMA PlainOfAllTyped ==
    ASSUME NEW F \in Seq(Framed) PROVE PlainOfAll(F) \in Bytes
<1>1. Len(F) \in Nat /\ <<>> \in Bytes
  BY LenProperties, EmptySeq DEF Bytes
<1>2. PlainUpTo(F)[Len(F)] \in Bytes
  BY <1>1, PlainUpToIs
<1> QED
  BY <1>1, <1>2 DEF PlainOfAll

\* The next frame adds its own plaintext, unless it is the handshake or the
\* handshake gave no key.
LEMMA PlainOfAllGrows ==
    ASSUME NEW F \in Seq(Framed), NEW f \in Framed
    PROVE  PlainOfAll(Append(F, f)) =
               IF F # <<>> /\ GivesKey(F[1]) THEN PlainOfAll(F) \o PlainOf(f) ELSE <<>>
<1> DEFINE G == Append(F, f)
           a == PlainUpTo(F)
           b == PlainUpTo(G)
<1>1. /\ Len(F) \in Nat
      /\ G \in Seq(Framed) /\ G # <<>> /\ Len(G) = Len(F) + 1
      /\ \A n \in 1 .. Len(F) : G[n] = F[n]
      /\ G[Len(F) + 1] = f
  BY LenProperties, AppendProperties
<1> HIDE DEF G
<1>2. \A n \in 0 .. Len(F) : a[n] = IF n < 2 THEN <<>> ELSE a[n - 1] \o PlainOf(F[n])
  BY PlainUpToIs
<1>3. \A n \in 0 .. Len(F) + 1 :
          b[n] = IF n < 2 THEN <<>> ELSE b[n - 1] \o PlainOf(G[n])
  BY <1>1, PlainUpToIs
<1>4. PlainOfAll(F) = IF F # <<>> /\ GivesKey(F[1]) THEN a[Len(F)] ELSE <<>>
  BY DEF PlainOfAll
<1>5. PlainOfAll(G) = IF GivesKey(G[1]) THEN b[Len(F) + 1] ELSE <<>>
  BY <1>1 DEF PlainOfAll
<1> HIDE DEF a, b
<1> DEFINE S == {n \in Nat : n <= Len(F) => a[n] = b[n]}
<1>6. 0 \in S
  BY <1>1, <1>2, <1>3
<1>7. ASSUME NEW n \in Nat, n \in S PROVE n + 1 \in S
  <2> SUFFICES ASSUME n + 1 <= Len(F) PROVE a[n + 1] = b[n + 1]
    OBVIOUS
  <2>1. a[n] = b[n] /\ G[n + 1] = F[n + 1]
    BY <1>1, <1>7
  <2>2. a[n + 1] = IF n + 1 < 2 THEN <<>> ELSE a[n] \o PlainOf(F[n + 1])
    BY <1>1, <1>2
  <2>3. b[n + 1] = IF n + 1 < 2 THEN <<>> ELSE b[n] \o PlainOf(G[n + 1])
    BY <1>1, <1>3
  <2> QED
    BY <2>1, <2>2, <2>3
<1> HIDE DEF S
<1>8. \A n \in Nat : n \in S
  BY <1>6, <1>7, Induction
<1>9. a[Len(F)] = b[Len(F)]
  BY <1>1, <1>8 DEF S
<1>10. CASE F = <<>>
  <2>1. Len(F) = 0
    BY <1>10
  <2>2. b[1] = <<>>
    BY <1>3, <2>1
  <2> QED
    BY <1>5, <1>10, <2>1, <2>2 DEF G
<1>11. CASE F # <<>>
  <2>1. Len(F) >= 1 /\ G[1] = F[1]
    BY <1>1, <1>11, EmptySeq
  <2>2. b[Len(F) + 1] =
            IF Len(F) + 1 < 2 THEN <<>> ELSE b[Len(F)] \o PlainOf(G[Len(F) + 1])
    BY <1>1, <1>3
  <2>3. ~ (Len(F) + 1 < 2)
    BY <1>1, <2>1
  <2>4. b[Len(F) + 1] = b[Len(F)] \o PlainOf(f)
    BY <1>1, <2>2, <2>3
  <2> QED
    BY <1>4, <1>5, <1>9, <1>11, <2>1, <2>4 DEF G
<1> QED
  BY <1>10, <1>11

-----------------------------------------------------------------------------
(* What _handle_chunk makes of the frames *)

\* What a decoder is after the frames F.
Follows(d, F) ==
    /\ d.keys = IF F = <<>> THEN "awaited"
                ELSE IF GivesKey(F[1]) THEN "derived" ELSE "failed"
    /\ Holds(d, PlainOfAll(F))

\* Before any bytes.
LEMMA FreshFollows == Fresh \in Decoders /\ Follows(Fresh, <<>>)
<1>1. <<>> \in Bytes /\ Len(<<>>) = 0
  BY EmptySeq DEF Bytes
<1>2. Fresh \in Decoders
  BY <1>1 DEF Fresh, Decoders
<1>3. PlainOfAll(<<>>) = <<>>
  BY DEF PlainOfAll
<1>4. Occurrences(Keyframe, <<>>) = {}
  BY <1>1 DEF Occurrences
<1>5. Synced(<<>>) = <<>>
  BY <1>4 DEF Synced
<1>6. From(<<>>, 1) = <<>>
  BY <1>1, FromAll
<1>7. 1 \in 1 .. Len(<<>>) + 1 /\ 0 <= MaxPending
  BY <1>1, HalfIsEnough
<1> DEFINE none == <<>>
           d == Fresh
<1>8. d.keys = "awaited" /\ ~ d.started /\ d.out = none /\ d.pending = none
  BY DEF Fresh
<1> HIDE DEF none, d
<1>9. Holds(d, none)
  BY <1>1, <1>4, <1>5, <1>6, <1>7, <1>8 DEF Holds, none
<1> QED
  BY <1>2, <1>3, <1>8, <1>9 DEF Follows, none, d

\* _handle_chunk.
LEMMA HandleChunkFollows ==
    ASSUME NEW d \in Decoders, NEW F \in Seq(Framed), NEW f \in Framed, Follows(d, F)
    PROVE  /\ HandleChunk(d, f[1], f[2]) \in Decoders
           /\ HandleChunk(d, f[1], f[2]).buf = d.buf
           /\ Follows(HandleChunk(d, f[1], f[2]), Append(F, f))
<1> DEFINE e == HandleChunk(d, f[1], f[2])
           G == Append(F, f)
<1>1. f[2] \in Bytes /\ PlainOfAll(F) \in Bytes
  BY PlainOfAllTyped DEF Framed
<1>2. G # <<>> /\ (F # <<>> => G[1] = F[1]) /\ (F = <<>> => G[1] = f)
  <2>1. /\ G # <<>> /\ \A i \in 1 .. Len(F) : G[i] = F[i]
        /\ G[Len(F) + 1] = f
    BY AppendProperties
  <2>2. F # <<>> => 1 \in 1 .. Len(F)
    BY EmptySeq
  <2>3. F = <<>> => Len(F) + 1 = 1
    OBVIOUS
  <2> QED
    BY <2>1, <2>2, <2>3
<1>3. PlainOfAll(G) =
          IF F # <<>> /\ GivesKey(F[1]) THEN PlainOfAll(F) \o PlainOf(f) ELSE <<>>
  BY PlainOfAllGrows
<1>4. /\ d.keys = IF F = <<>> THEN "awaited"
                  ELSE IF GivesKey(F[1]) THEN "derived" ELSE "failed"
      /\ Holds(d, PlainOfAll(F))
  BY DEF Follows
<1> HIDE DEF G
<1>5. CASE F = <<>>
  <2>1. e = [d EXCEPT !.keys = IF GivesKey(f) THEN "derived" ELSE "failed"]
    BY <1>4, <1>5 DEF HandleChunk, GivesKey
  <2>2. /\ e \in Decoders /\ e.buf = d.buf /\ e.started = d.started
        /\ e.pending = d.pending /\ e.out = d.out
        /\ e.keys = IF GivesKey(f) THEN "derived" ELSE "failed"
    BY <2>1 DEF Decoders
  <2>3. PlainOfAll(G) = PlainOfAll(F)
    BY <1>3, <1>5 DEF PlainOfAll
  <2> HIDE DEF e
  <2>4. Holds(e, PlainOfAll(G))
    BY <1>4, <2>2, <2>3 DEF Holds
  <2>5. Follows(e, G)
    BY <1>2, <1>5, <2>2, <2>4 DEF Follows
  <2> QED
    BY <2>2, <2>5 DEF e, G
<1>6. CASE F # <<>> /\ GivesKey(F[1]) /\ IsData(f[1], f[2])
  <2>1. e = Absorb(d, Tail(f[2])) /\ PlainOf(f) = Tail(f[2])
    BY <1>4, <1>6 DEF HandleChunk, PlainOf
  <2>2. f[2] # <<>>
    BY <1>6 DEF IsData
  <2>3. Tail(f[2]) \in Bytes
    BY <1>1, <2>2, HeadTailProperties DEF Bytes
  <2>4. /\ e \in Decoders /\ e.buf = d.buf /\ e.keys = d.keys
        /\ Holds(e, PlainOfAll(F) \o Tail(f[2]))
    BY <1>1, <1>4, <2>1, <2>3, AbsorbHolds
  <2> HIDE DEF e
  <2>5. Follows(e, G)
    BY <1>2, <1>3, <1>4, <1>6, <2>1, <2>4 DEF Follows
  <2> QED
    BY <2>4, <2>5 DEF e, G
<1>7. CASE F # <<>> /\ ~ (GivesKey(F[1]) /\ IsData(f[1], f[2]))
  <2>1. e = d
    BY <1>4, <1>7 DEF HandleChunk
  <2>2. PlainOfAll(G) = PlainOfAll(F)
    <3>1. CASE GivesKey(F[1])
      <4>1. PlainOf(f) = <<>>
        BY <1>7, <3>1 DEF PlainOf
      <4>2. PlainOfAll(F) \o <<>> = PlainOfAll(F)
        BY <1>1, ConcatEmptySeq DEF Bytes
      <4> QED
        BY <1>3, <1>7, <3>1, <4>1, <4>2
    <3>2. CASE ~ GivesKey(F[1])
      BY <1>3, <3>2 DEF PlainOfAll
    <3> QED
      BY <3>1, <3>2
  <2> HIDE DEF e
  <2>3. Follows(e, G)
    BY <1>2, <1>4, <1>7, <2>1, <2>2 DEF Follows
  <2> QED
    BY <2>1, <2>3 DEF e, G
<1> QED
  BY <1>5, <1>6, <1>7

-----------------------------------------------------------------------------
(* What the frames of a stream are *)

LEMMA SubSeqTyped ==
    ASSUME NEW s \in Bytes, NEW m \in Nat \ {0}, NEW n \in Nat, n <= Len(s)
    PROVE  SubSeq(s, m, n) \in Bytes
<1>1. \A i \in m .. n : s[i] \in Nat
  <2>1. \A i \in m .. n : i \in 1 .. Len(s)
    BY LenProperties DEF Bytes
  <2> QED
    BY <2>1, ElementOfSeq DEF Bytes
<1> QED
  BY <1>1, SubSeqProperties DEF Bytes

LEMMA SubSeqOfFrom ==
    ASSUME NEW s \in Bytes, NEW i \in 1 .. Len(s) + 1, NEW m \in Nat \ {0}, NEW n \in Nat,
           n <= Len(s) - i + 1
    PROVE  SubSeq(From(s, i), m, n) = SubSeq(s, i + m - 1, i + n - 1)
<1>1. Len(s) \in Nat
  BY LenProperties DEF Bytes
<1>2. CASE m <= n
  <2>1. i \in 1 .. Len(s) /\ Len(s) \in 1 .. Len(s)
    BY <1>1, <1>2
  <2>2. m \in 1 .. Len(s) - i + 1 /\ n \in 1 .. Len(s) - i + 1
    BY <1>1, <1>2
  <2> QED
    BY <2>1, <2>2, SubSeqOfSubSeq DEF From, Bytes
<1>3. CASE n < m
  <2>1. i + n - 1 < i + m - 1 /\ i + n - 1 \in Int /\ i + m - 1 \in Int /\ m \in Int /\ n \in Int
    BY <1>1, <1>3
  <2>2. SubSeq(From(s, i), m, n) = <<>>
    BY <1>3, <2>1, SubSeqEmpty
  <2>3. SubSeq(s, i + m - 1, i + n - 1) = <<>>
    BY <2>1, SubSeqEmpty
  <2> QED
    BY <2>2, <2>3
<1> QED
  BY <1>2, <1>3

\* The frame that w starts with, if it starts with one.
FirstFrame(w) == <<w[2], SubSeq(w, 4, 3 + w[3])>>

\* The right hand side of FramesFrom's equation.
FramesAt(w, from, i) ==
    IF i + 2 > Len(w) THEN <<>>
    ELSE IF w[i] # Dollar THEN from[i + 1]
    ELSE IF i + 2 + w[i + 2] > Len(w) THEN <<>>
    ELSE <<<<w[i + 1], SubSeq(w, i + 3, i + 2 + w[i + 2])>>>> \o from[i + 3 + w[i + 2]]

LEMMA FramesAtTyped ==
    ASSUME NEW w \in Bytes, NEW i \in 1 .. Len(w) + 1, NEW g,
           \A k \in i + 1 .. Len(w) + 1 : g[k] \in Seq(Framed)
    PROVE  FramesAt(w, g, i) \in Seq(Framed)
<1>1. Len(w) \in Nat /\ <<>> \in Seq(Framed)
  BY LenProperties, EmptySeq DEF Bytes
<1>2. CASE ~ (i + 2 > Len(w))
  <2>1. w[i + 1] \in Nat /\ w[i + 2] \in Nat
    BY <1>1, <1>2, ElementOfSeq DEF Bytes
  <2>2. g[i + 1] \in Seq(Framed)
    BY <1>1, <1>2
  <2>3. CASE ~ (i + 2 + w[i + 2] > Len(w))
    <3>1. SubSeq(w, i + 3, i + 2 + w[i + 2]) \in Bytes
      BY <1>1, <2>1, <2>3, SubSeqTyped
    <3> DEFINE f == <<w[i + 1], SubSeq(w, i + 3, i + 2 + w[i + 2])>>
    <3>2. f \in Framed
      BY <2>1, <3>1 DEF Framed
    <3> HIDE DEF f
    <3>3. <<f>> \in Seq(Framed)
      BY <3>2
    <3>4. i + 3 + w[i + 2] \in i + 1 .. Len(w) + 1
      BY <1>1, <2>1, <2>3
    <3>5. <<f>> \o g[i + 3 + w[i + 2]] \in Seq(Framed)
      BY <3>3, <3>4, ConcatProperties
    <3> QED
      BY <1>2, <2>2, <2>3, <3>5 DEF FramesAt, f
  <2> QED
    BY <1>1, <1>2, <2>2, <2>3 DEF FramesAt
<1> QED
  BY <1>1, <1>2 DEF FramesAt

LEMMA FramesAtSame ==
    ASSUME NEW w \in Bytes, NEW i \in 1 .. Len(w) + 1, NEW g, NEW h,
           \A k \in i + 1 .. Len(w) + 1 : g[k] = h[k]
    PROVE  FramesAt(w, g, i) = FramesAt(w, h, i)
<1>1. Len(w) \in Nat
  BY LenProperties DEF Bytes
<1>2. CASE ~ (i + 2 > Len(w))
  <2>1. w[i + 2] \in Nat
    BY <1>1, <1>2, ElementOfSeq DEF Bytes
  <2>2. g[i + 1] = h[i + 1]
    BY <1>1, <1>2
  <2>3. ~ (i + 2 + w[i + 2] > Len(w)) => g[i + 3 + w[i + 2]] = h[i + 3 + w[i + 2]]
    BY <1>1, <2>1
  <2> QED
    BY <2>2, <2>3 DEF FramesAt
<1> QED
  BY <1>2 DEF FramesAt

\* The equation's solutions over the last m bytes of w and its end.
Tables(w, m) ==
    {g \in [Len(w) + 1 - m .. Len(w) + 1 -> Seq(Framed)] :
        \A i \in Len(w) + 1 - m .. Len(w) + 1 : g[i] = FramesAt(w, g, i)}

LEMMA TablesExist ==
    ASSUME NEW w \in Bytes PROVE Tables(w, Len(w)) # {}
<1> DEFINE S == {m \in Nat : m <= Len(w) => Tables(w, m) # {}}
<1>1. Len(w) \in Nat /\ <<>> \in Seq(Framed)
  BY LenProperties, EmptySeq DEF Bytes
<1>2. 0 \in S
  <2> DEFINE N == Len(w) + 1
             g == [i \in N - 0 .. N |-> <<>>]
  <2>1. N - 0 = N /\ N \in Nat /\ N + 2 > Len(w)
    BY <1>1
  <2>2. g \in [N - 0 .. N -> Seq(Framed)] /\ \A i \in N - 0 .. N : i = N /\ g[i] = <<>>
    BY <1>1, <2>1
  <2> HIDE DEF g
  <2>3. \A i \in N - 0 .. N : g[i] = FramesAt(w, g, i)
    BY <2>1, <2>2 DEF FramesAt
  <2>4. g \in Tables(w, 0)
    BY <2>2, <2>3 DEF Tables
  <2> QED
    BY <2>4
<1>3. ASSUME NEW m \in Nat, m \in S PROVE m + 1 \in S
  <2> SUFFICES ASSUME m + 1 <= Len(w) PROVE Tables(w, m + 1) # {}
    OBVIOUS
  <2>1. PICK g \in Tables(w, m) : TRUE
    BY <1>1, <1>3
  <2> DEFINE N == Len(w) + 1
             j == Len(w) - m
  <2>2. /\ N \in Nat /\ j \in 1 .. Len(w) + 1 /\ Len(w) + 1 = N
        /\ Len(w) + 1 - m = j + 1 /\ Len(w) + 1 - (m + 1) = j
    BY <1>1
  <2>a. /\ g \in [Len(w) + 1 - m .. Len(w) + 1 -> Seq(Framed)]
        /\ \A i \in Len(w) + 1 - m .. Len(w) + 1 : g[i] = FramesAt(w, g, i)
    BY <2>1 DEF Tables
  <2> HIDE DEF N, j
  <2>3. /\ g \in [j + 1 .. N -> Seq(Framed)]
        /\ \A i \in j + 1 .. N : g[i] = FramesAt(w, g, i)
    BY <2>2, <2>a, Zenon
  <2> DEFINE h == [i \in j .. N |-> IF i = j THEN FramesAt(w, g, j) ELSE g[i]]
  <2>4. FramesAt(w, g, j) \in Seq(Framed)
    BY <2>2, <2>3, FramesAtTyped
  <2>5. h \in [j .. N -> Seq(Framed)]
    BY <2>2, <2>3, <2>4
  <2>6. h[j] = FramesAt(w, g, j) /\ \A i \in j + 1 .. N : h[i] = g[i]
    BY <2>2
  <2> HIDE DEF h
  <2>7. \A i \in j .. N : h[i] = FramesAt(w, h, i)
    <3> TAKE i \in j .. N
    <3>1. \A k \in i + 1 .. Len(w) + 1 : g[k] = h[k]
      BY <2>2, <2>6
    <3>2. i \in 1 .. Len(w) + 1
      BY <2>2
    <3>3. FramesAt(w, g, i) = FramesAt(w, h, i)
      BY <3>1, <3>2, FramesAtSame
    <3>4. h[i] = FramesAt(w, g, i)
      BY <2>2, <2>3, <2>6
    <3> QED
      BY <3>3, <3>4
  <2>b. /\ h \in [Len(w) + 1 - (m + 1) .. Len(w) + 1 -> Seq(Framed)]
        /\ \A i \in Len(w) + 1 - (m + 1) .. Len(w) + 1 : h[i] = FramesAt(w, h, i)
    BY <2>2, <2>5, <2>7, Zenon
  <2>8. h \in Tables(w, m + 1)
    BY <2>b DEF Tables
  <2> QED
    BY <2>8
<1> HIDE DEF S
<1>4. \A m \in Nat : m \in S
  BY <1>2, <1>3, Induction
<1> QED
  BY <1>1, <1>4 DEF S

\* FramesFrom is what its equation says.
LEMMA FramesFromIs ==
    ASSUME NEW w \in Bytes
    PROVE  /\ FramesFrom(w) \in [1 .. Len(w) + 1 -> Seq(Framed)]
           /\ \A i \in 1 .. Len(w) + 1 :
                  FramesFrom(w)[i] = FramesAt(w, FramesFrom(w), i)
<1>1. Len(w) \in Nat /\ Len(w) + 1 - Len(w) = 1
  BY LenProperties DEF Bytes
<1>2. PICK g \in Tables(w, Len(w)) : TRUE
  BY TablesExist
<1>3. /\ g \in [1 .. Len(w) + 1 -> Seq(Framed)]
      /\ \A i \in 1 .. Len(w) + 1 : g[i] = FramesAt(w, g, i)
  BY <1>1, <1>2 DEF Tables
<1>4. g = [i \in 1 .. Len(w) + 1 |-> FramesAt(w, g, i)]
  BY <1>3
<1>5. FramesFrom(w) = [i \in 1 .. Len(w) + 1 |-> FramesAt(w, FramesFrom(w), i)]
  BY <1>4, Zenon DEF FramesFrom, FramesAt
<1> DEFINE f == FramesFrom(w)
<1> HIDE DEF f
<1>6. f = [i \in 1 .. Len(w) + 1 |-> FramesAt(w, f, i)]
  BY <1>5 DEF f
<1>7. \A i \in 1 .. Len(w) + 1 : f[i] = FramesAt(w, f, i)
  BY <1>6
<1> DEFINE S == {m \in Nat : \A i \in 1 .. Len(w) + 1 :
                    i + m >= Len(w) + 1 => f[i] \in Seq(Framed)}
<1>8. ASSUME NEW i \in 1 .. Len(w) + 1,
             \A k \in i + 1 .. Len(w) + 1 : f[k] \in Seq(Framed)
      PROVE  f[i] \in Seq(Framed)
  BY <1>7, <1>8, FramesAtTyped
<1>9. 0 \in S
  <2>1. \A i \in 1 .. Len(w) + 1 :
            i + 0 >= Len(w) + 1 => i + 1 .. Len(w) + 1 = {}
    BY <1>1
  <2> QED
    BY <1>8, <2>1
<1>10. ASSUME NEW m \in Nat, m \in S PROVE m + 1 \in S
  <2> SUFFICES ASSUME NEW i \in 1 .. Len(w) + 1, i + (m + 1) >= Len(w) + 1
               PROVE  f[i] \in Seq(Framed)
    OBVIOUS
  <2>1. \A k \in i + 1 .. Len(w) + 1 : k \in 1 .. Len(w) + 1 /\ k + m >= Len(w) + 1
    BY <1>1
  <2>2. \A k \in i + 1 .. Len(w) + 1 : f[k] \in Seq(Framed)
    BY <1>10, <2>1
  <2> QED
    BY <1>8, <2>2
<1> HIDE DEF S
<1>11. \A m \in Nat : m \in S
  BY <1>9, <1>10, Induction
<1>12. \A i \in 1 .. Len(w) + 1 : f[i] \in Seq(Framed)
  <2>1. \A i \in 1 .. Len(w) + 1 : i + Len(w) >= Len(w) + 1
    BY <1>1
  <2> QED
    BY <1>1, <1>11, <2>1 DEF S
<1>13. f \in [1 .. Len(w) + 1 -> Seq(Framed)]
  BY <1>6, <1>12
<1> QED
  BY <1>7, <1>13 DEF f

\* The frames from a byte on are those of the stream that starts there.
LEMMA FramesOfSuffix ==
    ASSUME NEW w \in Bytes, NEW k \in 1 .. Len(w) + 1
    PROVE  FramesFrom(w)[k] = Frames(From(w, k))
<1> DEFINE u == From(w, k)
           f == FramesFrom(w)
           g == FramesFrom(u)
<1>1. Len(w) \in Nat
  BY LenProperties DEF Bytes
<1>2. /\ u \in Bytes /\ Len(u) = Len(w) - k + 1 /\ Len(u) \in Nat
      /\ \A j \in 1 .. Len(w) - k + 1 : u[j] = w[k + j - 1]
  BY <1>1, FromProperties
<1>3. \A i \in 1 .. Len(w) + 1 : f[i] = FramesAt(w, f, i)
  BY FramesFromIs
<1>4. \A j \in 1 .. Len(u) + 1 : g[j] = FramesAt(u, g, j)
  BY <1>2, FramesFromIs
<1>5. \A m \in Nat \ {0}, n \in Nat :
          n <= Len(w) - k + 1 => SubSeq(u, m, n) = SubSeq(w, k + m - 1, k + n - 1)
  BY SubSeqOfFrom
<1> HIDE DEF u, f, g
<1>6. ASSUME NEW j \in 1 .. Len(u) + 1,
             \A l \in j + 1 .. Len(u) + 1 : g[l] = f[k + l - 1]
      PROVE  g[j] = f[k + j - 1]
  <2> DEFINE i == k + j - 1
  <2>1. /\ i \in 1 .. Len(w) + 1 /\ (i + 2 > Len(w) <=> j + 2 > Len(u))
        /\ k + (j + 1) - 1 = i + 1 /\ k + (j + 2) - 1 = i + 2
        /\ k + (j + 3) - 1 = i + 3
    BY <1>1, <1>2
  <2>2. f[i] = FramesAt(w, f, i) /\ g[j] = FramesAt(u, g, j)
    BY <1>3, <1>4, <2>1
  <2>a. i = k + j - 1 /\ i \in Nat
    BY <2>1
  <2> HIDE DEF i
  <2>3. CASE j + 2 > Len(u)
    BY <2>1, <2>2, <2>3 DEF FramesAt, i
  <2>4. CASE ~ (j + 2 > Len(u))
    <3>1. u[j] = w[i] /\ u[j + 1] = w[i + 1] /\ u[j + 2] = w[i + 2] /\ w[i + 2] \in Nat
      <4>1. j \in 1 .. Len(w) - k + 1 /\ j + 1 \in 1 .. Len(w) - k + 1
            /\ j + 2 \in 1 .. Len(w) - k + 1
        BY <1>1, <1>2, <2>4
      <4>2. u[j] = w[k + j - 1] /\ u[j + 1] = w[k + (j + 1) - 1]
            /\ u[j + 2] = w[k + (j + 2) - 1]
        BY <1>2, <4>1
      <4>3. i + 2 \in 1 .. Len(w)
        BY <1>1, <2>1, <2>4
      <4> QED
        BY <2>1, <2>a, <4>2, <4>3, ElementOfSeq DEF Bytes
    <3>2. g[j + 1] = f[i + 1]
      <4>1. j + 1 \in j + 1 .. Len(u) + 1
        BY <1>2, <2>4
      <4>2. g[j + 1] = f[k + (j + 1) - 1]
        BY <1>6, <4>1
      <4> QED
        BY <2>1, <4>2
    <3> DEFINE n == w[i + 2]
    <3>a. n \in Nat /\ u[j + 2] = n /\ w[i + 2] = n
      BY <3>1
    <3> HIDE DEF n
    <3>3. i + 2 + n > Len(w) <=> j + 2 + n > Len(u)
      BY <1>1, <1>2, <2>a, <3>a
    <3>4. CASE w[i] # Dollar
      BY <2>1, <2>2, <2>4, <3>1, <3>2, <3>4 DEF FramesAt
    <3>5. CASE w[i] = Dollar /\ i + 2 + n > Len(w)
      <4>1. f[i] = <<>>
        BY <2>1, <2>2, <2>4, <3>a, <3>5 DEF FramesAt
      <4>2. g[j] = <<>>
        BY <2>2, <2>4, <3>1, <3>a, <3>3, <3>5 DEF FramesAt
      <4> QED
        BY <2>a, <4>1, <4>2
    <3>6. CASE w[i] = Dollar /\ ~ (i + 2 + n > Len(w))
      <4>1. SubSeq(u, j + 3, j + 2 + n) = SubSeq(w, i + 3, i + 2 + n)
        <5>1. j + 2 + n <= Len(w) - k + 1 /\ j + 3 \in Nat \ {0} /\ j + 2 + n \in Nat
          BY <1>1, <1>2, <3>a, <3>3, <3>6
        <5>2. SubSeq(u, j + 3, j + 2 + n) = SubSeq(w, k + (j + 3) - 1, k + (j + 2 + n) - 1)
          BY <1>5, <5>1
        <5>3. k + (j + 2 + n) - 1 = i + 2 + n
          BY <2>a, <3>a
        <5> QED
          BY <2>1, <5>2, <5>3
      <4>2. g[j + 3 + n] = f[i + 3 + n]
        <5>1. j + 3 + n \in j + 1 .. Len(u) + 1 /\ k + (j + 3 + n) - 1 = i + 3 + n
          BY <1>1, <1>2, <2>a, <3>a, <3>3, <3>6
        <5>2. g[j + 3 + n] = f[k + (j + 3 + n) - 1]
          BY <1>6, <5>1
        <5> QED
          BY <5>1, <5>2
      <4>3. f[i] = <<<<w[i + 1], SubSeq(w, i + 3, i + 2 + n)>>>> \o f[i + 3 + n]
        BY <2>1, <2>2, <2>4, <3>a, <3>6 DEF FramesAt
      <4>4. g[j] = <<<<u[j + 1], SubSeq(u, j + 3, j + 2 + n)>>>> \o g[j + 3 + n]
        BY <2>2, <2>4, <3>1, <3>a, <3>3, <3>6 DEF FramesAt
      <4> QED
        BY <2>a, <3>1, <4>1, <4>2, <4>3, <4>4
    <3> QED
      BY <3>4, <3>5, <3>6
  <2> QED
    BY <2>3, <2>4
<1> DEFINE S == {m \in Nat : \A j \in 1 .. Len(u) + 1 :
                    j + m >= Len(u) + 1 => g[j] = f[k + j - 1]}
<1>7. 0 \in S
  <2>1. \A j \in 1 .. Len(u) + 1 : j + 0 >= Len(u) + 1 => j + 1 .. Len(u) + 1 = {}
    BY <1>2
  <2> QED
    BY <1>6, <2>1
<1>8. ASSUME NEW m \in Nat, m \in S PROVE m + 1 \in S
  <2> SUFFICES ASSUME NEW j \in 1 .. Len(u) + 1, j + (m + 1) >= Len(u) + 1
               PROVE  g[j] = f[k + j - 1]
    OBVIOUS
  <2>1. \A l \in j + 1 .. Len(u) + 1 : l \in 1 .. Len(u) + 1 /\ l + m >= Len(u) + 1
    BY <1>2
  <2>2. \A l \in j + 1 .. Len(u) + 1 : g[l] = f[k + l - 1]
    BY <1>8, <2>1
  <2> QED
    BY <1>6, <2>2
<1> HIDE DEF S
<1>9. \A m \in Nat : m \in S
  BY <1>7, <1>8, Induction
<1>10. g[1] = f[k + 1 - 1]
  <2>1. 1 \in 1 .. Len(u) + 1 /\ 1 + Len(u) >= Len(u) + 1
    BY <1>2
  <2> QED
    BY <1>2, <1>9, <2>1 DEF S
<1>11. k + 1 - 1 = k
  BY <1>1
<1> QED
  BY <1>10, <1>11 DEF Frames, f, g, u

\* How the frames of a stream come from its first bytes.
LEMMA FramesUnfold ==
    ASSUME NEW w \in Bytes
    PROVE  /\ Frames(w) \in Seq(Framed)
           /\ ~ CanConsume(w) => Frames(w) = <<>>
           /\ CanConsume(w) /\ w[1] # Dollar => Frames(w) = Frames(From(w, 2))
           /\ CanConsume(w) /\ w[1] = Dollar =>
                  /\ FirstFrame(w) \in Framed
                  /\ Frames(w) = <<FirstFrame(w)>> \o Frames(From(w, 4 + w[3]))
<1> DEFINE f == FramesFrom(w)
<1>1. Len(w) \in Nat /\ 1 \in 1 .. Len(w) + 1
  BY LenProperties DEF Bytes
<1>2. f[1] \in Seq(Framed) /\ f[1] = FramesAt(w, f, 1) /\ Frames(w) = f[1]
  BY <1>1, FramesFromIs DEF Frames
<1>3. \A k \in 1 .. Len(w) + 1 : f[k] = Frames(From(w, k))
  BY FramesOfSuffix
<1> HIDE DEF f
<1>4. CASE Len(w) < 3
  <2>1. 1 + 2 > Len(w) /\ ~ (Len(w) >= 3)
    BY <1>1, <1>4
  <2> QED
    BY <1>2, <2>1 DEF FramesAt, CanConsume
<1>5. CASE Len(w) >= 3
  <2> DEFINE n == w[3]
  <2>1. n \in Nat /\ w[2] \in Nat
    BY <1>1, <1>5, ElementOfSeq DEF Bytes
  <2> HIDE DEF n
  <2>2. ~ (1 + 2 > Len(w)) /\ 1 + 1 = 2 /\ 1 + 2 = 3 /\ 1 + 3 = 4
        /\ 1 + 2 + n = 3 + n /\ 1 + 3 + n = 4 + n
    BY <1>1, <1>5, <2>1
  <2>3. CanConsume(w) <=> (w[1] = Dollar => ~ (3 + n > Len(w)))
    BY <1>1, <1>5, <2>1 DEF CanConsume, n
  <2>4. f[1] = IF w[1] # Dollar THEN f[2]
               ELSE IF 3 + n > Len(w) THEN <<>>
               ELSE <<<<w[2], SubSeq(w, 4, 3 + n)>>>> \o f[4 + n]
    BY <1>2, <2>2 DEF FramesAt, n
  <2>5. CASE w[1] # Dollar
    <3>1. f[2] = Frames(From(w, 2))
      BY <1>1, <1>3, <1>5
    <3> QED
      BY <1>2, <2>3, <2>4, <2>5, <3>1
  <2>6. CASE w[1] = Dollar /\ 3 + n > Len(w)
    BY <1>2, <2>3, <2>4, <2>6
  <2>7. CASE w[1] = Dollar /\ ~ (3 + n > Len(w))
    <3>1. 4 + n \in 1 .. Len(w) + 1
      BY <1>1, <2>1, <2>7
    <3>2. f[4 + n] = Frames(From(w, 4 + n))
      BY <1>3, <3>1
    <3>3. SubSeq(w, 4, 3 + n) \in Bytes
      BY <1>1, <2>1, <2>7, SubSeqTyped
    <3> DEFINE t == <<w[2], SubSeq(w, 4, 3 + n)>>
    <3>4. t \in Framed
      BY <2>1, <3>3 DEF Framed
    <3>5. t = FirstFrame(w)
      BY DEF FirstFrame, n
    <3>6. f[1] = <<t>> \o f[4 + n]
      BY <2>4, <2>7
    <3> HIDE DEF t
    <3> QED
      BY <1>2, <2>3, <2>7, <3>2, <3>4, <3>5, <3>6 DEF n
  <2> QED
    BY <2>5, <2>6, <2>7
<1> QED
  BY <1>1, <1>4, <1>5

-----------------------------------------------------------------------------
(* One round of feed *)

\* e has consumed the frames that the bytes W hold so far, and those still to
\* come are in its buffer and what follows.
HasRead(e, W) ==
    \E F \in Seq(Framed) :
        /\ Follows(e, F)
        /\ \A x \in Bytes : Frames(W \o x) = F \o Frames(e.buf \o x)

LEMMA FreshHasRead == HasRead(Fresh, <<>>) /\ ~ CanConsume(Fresh.buf)
<1>1. <<>> \in Seq(Framed) /\ Follows(Fresh, <<>>)
  BY FreshFollows, EmptySeq
<1>2. Fresh.buf = <<>>
  BY DEF Fresh
<1>3. \A x \in Bytes : <<>> \o x = x /\ <<>> \o Frames(x) = Frames(x)
  <2> TAKE x \in Bytes
  <2>1. Frames(x) \in Seq(Framed)
    BY FramesUnfold
  <2> QED
    BY <2>1, ConcatEmptySeq DEF Bytes
<1>4. \A x \in Bytes : Frames(<<>> \o x) = <<>> \o Frames(Fresh.buf \o x)
  BY <1>2, <1>3
<1>5. ~ (Len(<<>>) >= 3)
  BY EmptySeq
<1> QED
  BY <1>1, <1>2, <1>4, <1>5 DEF HasRead, CanConsume

\* The output of e is that of d and something more.
Extends(e, d) == \E u \in Bytes : e.out = d.out \o u

LEMMA ExtendsItself == ASSUME NEW d \in Decoders PROVE Extends(d, d)
<1>1. d.out \in Seq(Nat) /\ <<>> \in Bytes
  BY EmptySeq DEF Decoders, Bytes
<1>2. d.out \o <<>> = d.out
  BY <1>1, ConcatEmptySeq
<1> QED
  BY <1>1, <1>2 DEF Extends

LEMMA ExtendsFurther ==
    ASSUME NEW d \in Decoders, NEW e, NEW g, Extends(e, d), Extends(g, e)
    PROVE  Extends(g, d)
<1>1. PICK u \in Bytes : e.out = d.out \o u
  BY DEF Extends
<1>2. PICK v \in Bytes : g.out = e.out \o v
  BY DEF Extends
<1>3. u \o v \in Bytes /\ (d.out \o u) \o v = d.out \o (u \o v)
  BY ConcatProperties, ConcatAssociative DEF Decoders, Bytes
<1> QED
  BY <1>1, <1>2, <1>3 DEF Extends

LEMMA FollowsExtends ==
    ASSUME NEW d \in Decoders, NEW e \in Decoders,
           NEW F \in Seq(Framed), NEW f \in Framed,
           Follows(d, F), Follows(e, Append(F, f))
    PROVE  Extends(e, d)
<1> DEFINE p == PlainOfAll(F)
           q == PlainOfAll(Append(F, f))
<1>1. p \in Bytes
  BY PlainOfAllTyped
<1>2. d.out = Synced(p) /\ e.out = Synced(q) /\ e.out \in Bytes
  BY DEF Follows, Holds, Decoders
<1>3. q = IF F # <<>> /\ GivesKey(F[1]) THEN p \o PlainOf(f) ELSE <<>>
  BY PlainOfAllGrows
<1>4. ~ (F # <<>> /\ GivesKey(F[1])) => p = <<>>
  BY DEF PlainOfAll
<1>5. PlainOf(f) \in Bytes /\ <<>> \in Bytes
  <2>1. f[2] \in Bytes /\ <<>> \in Bytes
    BY EmptySeq DEF Framed, Bytes
  <2>2. IsData(f[1], f[2]) => f[2] # <<>>
    BY DEF IsData
  <2> QED
    BY <2>1, <2>2, HeadTailProperties DEF PlainOf, Bytes
<1> HIDE DEF p, q
<1>6. CASE q = p
  <2>1. e.out = d.out
    BY <1>2, <1>6
  <2> QED
    BY <2>1, ExtendsItself DEF Extends
<1>7. CASE q = p \o PlainOf(f) /\ Occurrences(Keyframe, p) # {}
  <2>1. Synced(q) = Synced(p) \o PlainOf(f)
    BY <1>1, <1>5, <1>7, SyncedGrows
  <2> QED
    BY <1>2, <1>5, <2>1 DEF Extends
<1>8. CASE Occurrences(Keyframe, p) = {}
  <2>1. d.out = <<>>
    BY <1>2, <1>8 DEF Synced
  <2>2. <<>> \o e.out = e.out
    BY <1>2, ConcatEmptySeq DEF Bytes
  <2> QED
    BY <1>2, <2>1, <2>2 DEF Extends
<1> QED
  BY <1>3, <1>4, <1>6, <1>7, <1>8

\* What can be consumed does not change with what arrives behind it.
LEMMA ConsumedAlike ==
    ASSUME NEW b \in Bytes, NEW x \in Bytes, CanConsume(b)
    PROVE  /\ b \o x \in Bytes
           /\ CanConsume(b \o x)
           /\ (b \o x)[1] = b[1] /\ (b \o x)[3] = b[3] /\ b[3] \in Nat
           /\ From(b \o x, 2) = From(b, 2) \o x
           /\ b[1] = Dollar =>
                  /\ 4 + b[3] \in 1 .. Len(b) + 1
                  /\ FirstFrame(b \o x) = FirstFrame(b)
                  /\ From(b \o x, 4 + b[3]) = From(b, 4 + b[3]) \o x
<1>1. /\ b \o x \in Bytes /\ Len(b \o x) = Len(b) + Len(x)
      /\ Len(b) \in Nat /\ Len(x) \in Nat /\ Len(b) >= 3
      /\ \A i \in 1 .. Len(b) + Len(x) :
             (b \o x)[i] = IF i <= Len(b) THEN b[i] ELSE x[i - Len(b)]
  BY LenProperties, ConcatProperties DEF Bytes, CanConsume
<1>2. (b \o x)[1] = b[1] /\ (b \o x)[2] = b[2] /\ (b \o x)[3] = b[3]
  BY <1>1
<1> DEFINE n == b[3]
<1>3. n \in Nat /\ n = b[3]
  BY <1>1, ElementOfSeq DEF Bytes
<1> HIDE DEF n
<1>4. b[1] = Dollar => Len(b) >= 3 + n
  BY <1>3 DEF CanConsume
<1>5. CanConsume(b \o x)
  BY <1>1, <1>2, <1>3, <1>4 DEF CanConsume
<1>6. From(b \o x, 2) = From(b, 2) \o x
  BY <1>1, FromConcat
<1>7. ASSUME b[1] = Dollar
      PROVE  /\ 4 + n \in 1 .. Len(b) + 1
             /\ FirstFrame(b \o x) = FirstFrame(b)
             /\ From(b \o x, 4 + n) = From(b, 4 + n) \o x
  <2>1. 4 + n \in 1 .. Len(b) + 1
    BY <1>1, <1>3, <1>4, <1>7
  <2>2. From(b \o x, 4 + n) = From(b, 4 + n) \o x
    BY <2>1, FromConcat
  <2>3. SubSeq(b \o x, 4, 3 + n) = SubSeq(b, 4, 3 + n)
    <3>1. CASE n = 0
      <4>1. 3 + n < 4 /\ 4 \in Int /\ 3 + n \in Int
        BY <3>1
      <4> QED
        BY <4>1, SubSeqEmpty
    <3>2. CASE n # 0
      <4>1. 4 \in 1 .. Len(b) /\ 3 + n \in 1 .. Len(b)
        BY <1>1, <1>3, <1>4, <1>7, <3>2
      <4> QED
        BY <4>1, SubSeqOfConcat1 DEF Bytes
    <3> QED
      BY <3>1, <3>2
  <2> QED
    BY <1>2, <1>3, <2>1, <2>2, <2>3 DEF FirstFrame
<1> QED
  BY <1>1, <1>2, <1>3, <1>5, <1>6, <1>7

\* _consume_one_chunk.
LEMMA RoundHasRead ==
    ASSUME NEW e \in Decoders, NEW W \in Bytes, HasRead(e, W), CanConsume(e.buf)
    PROVE  /\ ConsumeOneChunk(e) \in Decoders
           /\ HasRead(ConsumeOneChunk(e), W)
           /\ Extends(ConsumeOneChunk(e), e)
           /\ Len(ConsumeOneChunk(e).buf) < Len(e.buf)
<1> DEFINE b == e.buf
           c == ConsumeOneChunk(e)
<1>1. b \in Bytes /\ Len(b) \in Nat /\ Len(b) >= 3 /\ b # <<>>
  BY LenProperties, EmptySeq DEF Decoders, Bytes, CanConsume
<1>2. PICK F \in Seq(Framed) :
          /\ Follows(e, F)
          /\ \A x \in Bytes : Frames(W \o x) = F \o Frames(b \o x)
  BY DEF HasRead
<1> HIDE DEF b
<1>a. e.buf = b /\ CanConsume(b)
  BY DEF b
<1>3. \A x \in Bytes :
          /\ b \o x \in Bytes
          /\ CanConsume(b \o x)
          /\ (b \o x)[1] = b[1] /\ (b \o x)[3] = b[3]
          /\ From(b \o x, 2) = From(b, 2) \o x
          /\ b[1] = Dollar => /\ FirstFrame(b \o x) = FirstFrame(b)
                              /\ From(b \o x, 4 + b[3]) = From(b, 4 + b[3]) \o x
  BY <1>1, <1>a, ConsumedAlike
<1>4. CASE b[1] # Dollar
  <2>1. Tail(b) = From(b, 2)
    BY <1>1, TailIsSubSeq DEF From, Bytes
  <2>2. c = [e EXCEPT !.buf = From(b, 2)]
    BY <1>4, <2>1 DEF ConsumeOneChunk, b
  <2>3. From(b, 2) \in Bytes /\ Len(From(b, 2)) = Len(b) - 2 + 1
    BY <1>1, FromProperties
  <2>4. /\ c \in Decoders /\ c.buf = From(b, 2) /\ c.keys = e.keys
        /\ c.started = e.started /\ c.pending = e.pending /\ c.out = e.out
    BY <2>2, <2>3 DEF Decoders
  <2> HIDE DEF c
  <2>5. Follows(c, F)
    BY <1>2, <2>4 DEF Follows, Holds
  <2>6. \A x \in Bytes : Frames(W \o x) = F \o Frames(c.buf \o x)
    <3> TAKE x \in Bytes
    <3>1. Frames(b \o x) = Frames(From(b \o x, 2))
      BY <1>3, <1>4, FramesUnfold
    <3> QED
      BY <1>2, <1>3, <2>4, <3>1
  <2>7. HasRead(c, W)
    BY <2>5, <2>6 DEF HasRead
  <2>8. Extends(c, e)
    BY <2>4, ExtendsItself DEF Extends
  <2>9. Len(c.buf) < Len(b)
    BY <1>1, <2>3, <2>4
  <2> QED
    BY <1>a, <2>4, <2>7, <2>8, <2>9 DEF c
<1>5. CASE b[1] = Dollar
  <2> DEFINE f == FirstFrame(b)
             n == 4 + b[3]
             d == [e EXCEPT !.buf = From(b, n)]
  <2>1. f \in Framed
    BY <1>1, <1>5, <1>a, FramesUnfold
  <2>2. n \in 1 .. Len(b) + 1 /\ n >= 4
    <3>1. n \in 1 .. Len(b) + 1 /\ b[3] \in Nat
      BY <1>1, <1>5, <1>a, ConsumedAlike
    <3> QED
      BY <3>1
  <2>3. f[1] = b[2] /\ f[2] = SubSeq(b, 4, 3 + b[3])
    BY DEF FirstFrame
  <2>4. c = HandleChunk(d, f[1], f[2])
    BY <1>5, <2>3 DEF ConsumeOneChunk, b
  <2>a. \A x \in Bytes : /\ FirstFrame(b \o x) = f
                         /\ From(b \o x, 4 + (b \o x)[3]) = From(b, n) \o x
    BY <1>3, <1>5
  <2> HIDE DEF f, n
  <2>5. From(b, n) \in Bytes /\ Len(From(b, n)) = Len(b) - n + 1
    BY <1>1, <2>2, FromProperties
  <2>6. /\ d \in Decoders /\ d.buf = From(b, n) /\ d.keys = e.keys
        /\ d.started = e.started /\ d.pending = e.pending /\ d.out = e.out
    BY <2>5 DEF Decoders
  <2> HIDE DEF d, c
  <2>7. Follows(d, F)
    BY <1>2, <2>6 DEF Follows, Holds
  <2>8. c \in Decoders /\ c.buf = From(b, n) /\ Follows(c, Append(F, f))
    BY <2>1, <2>4, <2>6, <2>7, HandleChunkFollows
  <2>9. Append(F, f) \in Seq(Framed) /\ Append(F, f) = F \o <<f>> /\ <<f>> \in Seq(Framed)
    BY <2>1, AppendProperties, AppendIsConcat
  <2>10. \A x \in Bytes : Frames(W \o x) = Append(F, f) \o Frames(c.buf \o x)
    <3> TAKE x \in Bytes
    <3> DEFINE r == Frames(From(b, n) \o x)
    <3>1. Frames(b \o x) = <<f>> \o r
      <4>1. b \o x \in Bytes /\ CanConsume(b \o x) /\ (b \o x)[1] = Dollar
        BY <1>3, <1>5
      <4>2. Frames(b \o x) = <<FirstFrame(b \o x)>> \o Frames(From(b \o x, 4 + (b \o x)[3]))
        BY <4>1, FramesUnfold
      <4> QED
        BY <2>a, <4>2
    <3>2. r \in Seq(Framed)
      <4>1. From(b, n) \o x \in Bytes
        BY <2>5, ConcatProperties DEF Bytes
      <4> QED
        BY <4>1, FramesUnfold
    <3>3. Frames(W \o x) = F \o (<<f>> \o r)
      BY <1>2, <3>1
    <3>4. (F \o <<f>>) \o r = F \o (<<f>> \o r)
      BY <2>9, <3>2, ConcatAssociative
    <3> QED
      BY <2>8, <2>9, <3>3, <3>4
  <2>11. HasRead(c, W)
    BY <2>8, <2>9, <2>10 DEF HasRead
  <2>12. Extends(c, d)
    BY <2>1, <2>6, <2>7, <2>8, FollowsExtends
  <2>13. Extends(c, e)
    BY <2>6, <2>12 DEF Extends
  <2>14. Len(c.buf) < Len(b)
    BY <1>1, <2>2, <2>5, <2>8
  <2> QED
    BY <1>a, <2>8, <2>11, <2>13, <2>14 DEF c
<1> QED
  BY <1>4, <1>5

-----------------------------------------------------------------------------
(* All rounds of feed *)

\* The loop of feed stays in every set that a round stays in.
LEMMA RoundsWithin ==
    ASSUME NEW G, NEW d \in G, Len(d.buf) \in Nat,
           \A e \in G : CanConsume(e.buf) => ConsumeOneChunk(e) \in G
    PROVE  /\ Rounds(d) \in [0 .. Len(d.buf) -> G]
           /\ Rounds(d)[0] = d
           /\ \A n \in 1 .. Len(d.buf) : Rounds(d)[n] =
                  IF CanConsume(Rounds(d)[n - 1].buf)
                  THEN ConsumeOneChunk(Rounds(d)[n - 1]) ELSE Rounds(d)[n - 1]
<1> DEFINE N == Len(d.buf)
           round == [e \in G |-> IF CanConsume(e.buf) THEN ConsumeOneChunk(e) ELSE e]
           step == [m \in Nat |-> round]
<1>1. round \in [G -> G]
  OBVIOUS
<1>2. \A e \in G : round[e] = IF CanConsume(e.buf) THEN ConsumeOneChunk(e) ELSE e
  OBVIOUS
<1> HIDE DEF round
<1>3. step \in [Nat -> [G -> G]] /\ \A m \in Nat : step[m] = round
  BY <1>1
<1> HIDE DEF step
<1>4. Runs(G, d, step, N) # {}
  BY <1>3, Recursion
<1>5. PICK g \in Runs(G, d, step, N) : TRUE
  BY <1>4
<1>6. /\ g \in [0 .. N -> G] /\ g[0] = d
      /\ \A m \in 1 .. N : g[m] = step[m][g[m - 1]]
  BY <1>5 DEF Runs
<1>7. \A m \in 1 .. N : g[m] = IF CanConsume(g[m - 1].buf)
                               THEN ConsumeOneChunk(g[m - 1]) ELSE g[m - 1]
  <2> TAKE m \in 1 .. N
  <2>1. m \in Nat /\ m - 1 \in 0 .. N
    OBVIOUS
  <2>2. g[m - 1] \in G
    BY <1>6, <2>1
  <2>3. step[m] = round
    BY <1>3, <2>1
  <2> QED
    BY <1>2, <1>6, <2>2, <2>3
<1>8. g = [n \in 0 .. N |-> IF n = 0 THEN d
               ELSE IF CanConsume(g[n - 1].buf)
                    THEN ConsumeOneChunk(g[n - 1]) ELSE g[n - 1]]
  <2>1. \A n \in 0 .. N : n # 0 => n \in 1 .. N
    OBVIOUS
  <2> QED
    BY <1>6, <1>7, <2>1, Zenon
<1>9. Rounds(d) = [n \in 0 .. N |-> IF n = 0 THEN d
               ELSE IF CanConsume(Rounds(d)[n - 1].buf)
                    THEN ConsumeOneChunk(Rounds(d)[n - 1]) ELSE Rounds(d)[n - 1]]
  BY <1>8, Zenon DEF Rounds
<1> DEFINE r == Rounds(d)
<1> HIDE DEF N, r
<1>a. N \in Nat
  BY DEF N
<1>10. r = [n \in 0 .. N |-> IF n = 0 THEN d
               ELSE IF CanConsume(r[n - 1].buf)
                    THEN ConsumeOneChunk(r[n - 1]) ELSE r[n - 1]]
  BY <1>9 DEF r
<1>11. r[0] = d
  BY <1>a, <1>10
<1>12. \A n \in 1 .. N : r[n] = IF CanConsume(r[n - 1].buf)
                                THEN ConsumeOneChunk(r[n - 1]) ELSE r[n - 1]
  BY <1>a, <1>10
<1> DEFINE S == {n \in Nat : n <= N => r[n] \in G}
<1>13. 0 \in S
  BY <1>11
<1>14. ASSUME NEW n \in Nat, n \in S PROVE n + 1 \in S
  <2> SUFFICES ASSUME n + 1 <= N PROVE r[n + 1] \in G
    OBVIOUS
  <2>1. r[n] \in G /\ n + 1 \in 1 .. N /\ n + 1 - 1 = n
    BY <1>a, <1>14
  <2>2. r[n + 1] = IF CanConsume(r[n].buf) THEN ConsumeOneChunk(r[n]) ELSE r[n]
    BY <1>12, <2>1
  <2> QED
    BY <2>1, <2>2
<1> HIDE DEF S
<1>15. \A n \in Nat : n \in S
  BY <1>13, <1>14, Induction
<1>16. \A n \in 0 .. N : r[n] \in G
  BY <1>a, <1>15 DEF S
<1>17. r \in [0 .. N -> G]
  BY <1>10, <1>16
<1> QED
  BY <1>11, <1>12, <1>17 DEF N, r

\* feed, given any piece of the stream at any moment.
LEMMA FeedHasRead ==
    ASSUME NEW d \in Decoders, NEW W \in Bytes, NEW data \in Bytes, HasRead(d, W)
    PROVE  /\ Feed(d, data) \in Decoders
           /\ HasRead(Feed(d, data), W \o data)
           /\ Extends(Feed(d, data), d)
           /\ ~ CanConsume(Feed(d, data).buf)
<1> DEFINE e == [d EXCEPT !.buf = @ \o data]
           G == {g \in Decoders : HasRead(g, W \o data) /\ Extends(g, d)}
           r == Rounds(e)
           N == Len(e.buf)
<1>1. /\ d.buf \in Bytes /\ d.buf \o data \in Bytes /\ W \o data \in Bytes
      /\ Len(d.buf \o data) \in Nat
  BY LenProperties, ConcatProperties DEF Decoders, Bytes
<1>2. /\ e \in Decoders /\ e.buf = d.buf \o data /\ e.keys = d.keys
      /\ e.started = d.started /\ e.pending = d.pending /\ e.out = d.out
  BY <1>1 DEF Decoders
<1>3. HasRead(e, W \o data)
  <2>1. PICK F \in Seq(Framed) :
            /\ Follows(d, F)
            /\ \A x \in Bytes : Frames(W \o x) = F \o Frames(d.buf \o x)
    BY DEF HasRead
  <2> HIDE DEF e
  <2>2. Follows(e, F)
    BY <1>2, <2>1 DEF Follows, Holds
  <2>3. \A x \in Bytes : Frames((W \o data) \o x) = F \o Frames(e.buf \o x)
    <3> TAKE x \in Bytes
    <3>1. data \o x \in Bytes
      BY ConcatProperties DEF Bytes
    <3>2. (W \o data) \o x = W \o (data \o x)
      BY ConcatAssociative DEF Bytes
    <3>3. (d.buf \o data) \o x = d.buf \o (data \o x)
      <4>1. \A s \in Bytes : (s \o data) \o x = s \o (data \o x)
        BY ConcatAssociative DEF Bytes
      <4> QED
        BY <1>1, <4>1
    <3> QED
      BY <1>2, <2>1, <3>1, <3>2, <3>3
  <2> QED
    BY <2>2, <2>3 DEF HasRead
<1>4. e \in G
  <2>1. Extends(e, d)
    BY <1>2, ExtendsItself DEF Extends
  <2> QED
    BY <1>2, <1>3, <2>1
<1>5. \A g \in G : CanConsume(g.buf) =>
          ConsumeOneChunk(g) \in G /\ Len(ConsumeOneChunk(g).buf) < Len(g.buf)
  <2> TAKE g \in G
  <2> HAVE CanConsume(g.buf)
  <2>1. /\ ConsumeOneChunk(g) \in Decoders
        /\ HasRead(ConsumeOneChunk(g), W \o data)
        /\ Extends(ConsumeOneChunk(g), g)
        /\ Len(ConsumeOneChunk(g).buf) < Len(g.buf)
    BY <1>1, RoundHasRead
  <2>2. Extends(ConsumeOneChunk(g), d)
    BY <2>1, ExtendsFurther
  <2> QED
    BY <2>1, <2>2
<1>6. N \in Nat /\ Feed(d, data) = r[N]
  BY <1>1, <1>2 DEF Feed
<1>7. \A g \in G : /\ g \in Decoders /\ HasRead(g, W \o data) /\ Extends(g, d)
                   /\ Len(g.buf) \in Nat
  BY LenProperties DEF Decoders, Bytes
<1> HIDE DEF e, G
<1>8. /\ r \in [0 .. N -> G]
      /\ r[0] = e
      /\ \A n \in 1 .. N : r[n] = IF CanConsume(r[n - 1].buf)
                                  THEN ConsumeOneChunk(r[n - 1]) ELSE r[n - 1]
  BY <1>4, <1>5, <1>6, RoundsWithin
<1>a. r[0].buf = e.buf /\ Len(e.buf) = N
  BY <1>8
<1> HIDE DEF r, N
<1> DEFINE S == {n \in Nat : n <= N =>
                    ~ CanConsume(r[n].buf) \/ Len(r[n].buf) <= N - n}
<1>9. 0 \in S
  BY <1>6, <1>a
<1>10. ASSUME NEW n \in Nat, n \in S PROVE n + 1 \in S
  <2> SUFFICES ASSUME n + 1 <= N
               PROVE  ~ CanConsume(r[n + 1].buf) \/ Len(r[n + 1].buf) <= N - (n + 1)
    OBVIOUS
  <2>1. n \in 0 .. N /\ n + 1 \in 1 .. N /\ n + 1 - 1 = n
    BY <1>6
  <2>2. r[n] \in G
    BY <1>8, <2>1
  <2>3. r[n + 1] = IF CanConsume(r[n].buf) THEN ConsumeOneChunk(r[n]) ELSE r[n]
    BY <1>8, <2>1
  <2>4. CASE CanConsume(r[n].buf)
    <3>1. Len(r[n].buf) <= N - n
      BY <1>10, <2>1, <2>4
    <3>2. r[n + 1] \in G /\ Len(r[n + 1].buf) < Len(r[n].buf)
      BY <1>5, <2>2, <2>3, <2>4
    <3> QED
      BY <1>6, <1>7, <2>2, <3>1, <3>2
  <2>5. CASE ~ CanConsume(r[n].buf)
    BY <2>3, <2>5
  <2> QED
    BY <2>4, <2>5
<1> HIDE DEF S
<1>11. \A n \in Nat : n \in S
  BY <1>9, <1>10, Induction
<1>12. r[N] \in G
  BY <1>6, <1>8
<1>13. ~ CanConsume(r[N].buf)
  <2>1. ~ CanConsume(r[N].buf) \/ Len(r[N].buf) <= N - N
    BY <1>6, <1>11 DEF S
  <2>2. Len(r[N].buf) <= N - N => ~ (Len(r[N].buf) >= 3)
    BY <1>6, <1>7, <1>12
  <2> QED
    BY <2>1, <2>2 DEF CanConsume
<1> QED
  BY <1>6, <1>7, <1>12, <1>13

\* Between two reads a decoder has consumed the frames of the bytes read so far.
LEMMA HasReadFollows ==
    ASSUME NEW d \in Decoders, NEW W \in Bytes, HasRead(d, W), ~ CanConsume(d.buf)
    PROVE  Follows(d, Frames(W))
<1>1. PICK F \in Seq(Framed) :
          /\ Follows(d, F)
          /\ \A x \in Bytes : Frames(W \o x) = F \o Frames(d.buf \o x)
  BY DEF HasRead
<1>2. d.buf \in Bytes /\ <<>> \in Bytes
  BY EmptySeq DEF Decoders, Bytes
<1>3. W \o <<>> = W /\ d.buf \o <<>> = d.buf /\ F \o <<>> = F
  BY <1>2, ConcatEmptySeq DEF Bytes
<1>4. Frames(d.buf) = <<>>
  BY <1>2, FramesUnfold
<1>5. Frames(W) = F
  BY <1>1, <1>2, <1>3, <1>4
<1> QED
  BY <1>1, <1>5

\* It has let out what these make it let out, however they were cut, and holds
\* back no more than the cap.
LEMMA HasReadOneShot ==
    ASSUME NEW d \in Decoders, NEW W \in Bytes, HasRead(d, W), ~ CanConsume(d.buf)
    PROVE  /\ d.out = Synced(Plaintext(W))
           /\ Len(d.pending) <= MaxPending
<1>1. Holds(d, Plaintext(W))
  BY HasReadFollows DEF Follows, Plaintext
<1>2. d.out = Synced(Plaintext(W))
  BY <1>1 DEF Holds
<1>3. CASE d.started
  <2>1. Len(d.pending) = 0
    BY <1>1, <1>3, EmptySeq DEF Holds
  <2> QED
    BY <1>2, <2>1, HalfIsEnough
<1>4. CASE ~ d.started
  BY <1>1, <1>2, <1>4 DEF Holds
<1> QED
  BY <1>3, <1>4

\* feed of two pieces one after the other makes the decoder let out what feed
\* of both at once does, and leaves it with the same key, whatever it has been
\* fed before.
THEOREM FeedInPieces ==
    ASSUME NEW d \in Decoders, NEW W \in Bytes, HasRead(d, W),
           NEW s \in Bytes, NEW t \in Bytes
    PROVE  /\ Feed(Feed(d, s), t).out = Feed(d, s \o t).out
           /\ Feed(Feed(d, s), t).keys = Feed(d, s \o t).keys
<1> DEFINE a == Feed(d, s)
           b == Feed(a, t)
           e == Feed(d, s \o t)
           U == W \o (s \o t)
<1>1. s \o t \in Bytes /\ W \o s \in Bytes /\ U \in Bytes /\ (W \o s) \o t = U
  BY ConcatProperties, ConcatAssociative DEF Bytes
<1>2. a \in Decoders /\ HasRead(a, W \o s)
  BY FeedHasRead
<1>3. e \in Decoders /\ HasRead(e, U) /\ ~ CanConsume(e.buf)
  BY <1>1, FeedHasRead
<1> HIDE DEF a, e
<1>4. b \in Decoders /\ HasRead(b, (W \o s) \o t) /\ ~ CanConsume(b.buf)
  BY <1>1, <1>2, FeedHasRead
<1> HIDE DEF b, U
<1>5. b.out = Synced(Plaintext(U)) /\ e.out = Synced(Plaintext(U))
  BY <1>1, <1>3, <1>4, HasReadOneShot
<1>6. Follows(b, Frames(U)) /\ Follows(e, Frames(U))
  BY <1>1, <1>3, <1>4, HasReadFollows
<1>7. b.keys = e.keys
  BY <1>6 DEF Follows
<1> QED
  BY <1>5, <1>7 DEF a, b, e
=============================================================================
