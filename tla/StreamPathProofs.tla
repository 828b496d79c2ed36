-------------------------- MODULE StreamPathProofs --------------------------
(***************************************************************************)
(* Theorems about StreamPath, for any bytes that the doorbell sends, any   *)
(* size of the reads, of the caps and of the trims.  What a decoder makes  *)
(* of the bytes is DecoderProofs'; what is shown here is that the pump     *)
(* keeps the decoder there, and that the buffer is always the output from  *)
(* its start or from a place where a snapshot once began.                  *)
(***************************************************************************)
EXTENDS StreamPath, DecoderProofs

-----------------------------------------------------------------------------
(* The inductive invariant *)

TypeOK ==
    /\ wire \in Bytes
    /\ read \in 0 .. Len(wire)
    /\ decoder \in Decoders
    /\ buffer \in Bytes
    /\ seen \in BOOLEAN

\* The decoder has read all that was fed to it and has consumed what it could.
UpToDate == HasRead(decoder, Fed) /\ ~ CanConsume(decoder.buf)

\* Where a trim may have cut the output: nowhere, or where a snapshot of it
\* began when its last keyframe was the one at k.
IsCut(out, c) == c = 1 \/ \E k \in Occurrences(Keyframe, out) : c = CutAt(out, k)

IsTrimmed(out, b) == \E c \in 1 .. Len(out) + 1 : IsCut(out, c) /\ b = From(out, c)

Aligned == IsTrimmed(decoder.out, buffer)

IInv ==
    /\ TypeOK
    /\ UpToDate
    /\ Aligned
    /\ BufferIsTight
    /\ SeenIsComplete

-----------------------------------------------------------------------------
(* Cuts of the output *)

LEMMA LastKeyframeIs ==
    ASSUME NEW s \in Bytes
    PROVE  /\ LastKeyframe(s) \in Nat
           /\ LastKeyframe(s) # 0 =>
                  /\ LastKeyframe(s) \in Occurrences(Keyframe, s)
                  /\ LastKeyframe(s) \in 1 .. Len(s)
           /\ \A k \in Occurrences(Keyframe, s) : k \in 1 .. Len(s) /\ k <= LastKeyframe(s)
<1>1. Len(s) \in Nat /\ Keyframe \in Markers
  BY LenProperties DEF Bytes, Markers
<1>2. Len(s) + 1 \in Nat
  BY <1>1
<1>3. /\ LastKeyframe(s) \in Nat
      /\ LastKeyframe(s) # 0 => LastKeyframe(s) \in Occurrences(Keyframe, s)
      /\ \A k \in Occurrences(Keyframe, s) : k + 2 <= Len(s) + 1 => k <= LastKeyframe(s)
  BY <1>1, <1>2, LastBeforeIs DEF LastKeyframe
<1>4. \A k \in Occurrences(Keyframe, s) : k \in 1 .. Len(s) /\ k + 1 <= Len(s)
  BY <1>1, OccursAt
<1>5. \A k \in Occurrences(Keyframe, s) : k + 2 <= Len(s) + 1
  BY <1>1, <1>4
<1> QED
  BY <1>3, <1>4, <1>5

LEMMA CutAtIs ==
    ASSUME NEW s \in Bytes, NEW k \in Occurrences(Keyframe, s)
    PROVE  /\ k \in 1 .. Len(s)
           /\ CutAt(s, k) \in 1 .. k
           /\ CutAt(s, k) = IF LastBefore(Pack, s, k) # 0
                            THEN LastBefore(Pack, s, k) ELSE k
<1>1. k \in 1 .. Len(s) /\ k \in Nat /\ Pack \in Markers
  BY DEF Occurrences, Markers
<1>2. /\ LastBefore(Pack, s, k) \in Nat
      /\ LastBefore(Pack, s, k) # 0 => LastBefore(Pack, s, k) + 2 <= k
  BY <1>1, LastBeforeIs
<1> QED
  BY <1>1, <1>2 DEF CutAt

\* A cut for one keyframe loses no pack header before a later one.
LEMMA LaterPackIsKept ==
    ASSUME NEW s \in Bytes, NEW j \in Occurrences(Keyframe, s),
           NEW k \in Occurrences(Keyframe, s), j <= k, LastBefore(Pack, s, k) # 0
    PROVE  LastBefore(Pack, s, k) >= CutAt(s, j)
<1> DEFINE p == LastBefore(Pack, s, k)
           q == LastBefore(Pack, s, j)
<1>1. j \in 1 .. Len(s) /\ k \in 1 .. Len(s) /\ Len(s) \in Nat
  BY LenProperties DEF Occurrences, Bytes
<1>2. j \in Nat /\ k \in Nat /\ Pack \in Markers /\ Keyframe \in Markers
  BY <1>1 DEF Markers
<1>3. p \in Occurrences(Pack, s) /\ p \in Nat /\ p + 2 <= k
      /\ \A i \in Occurrences(Pack, s) : i + 2 <= k => i <= p
  BY <1>2, LastBeforeIs
<1>4. q \in Nat /\ (q # 0 => q \in Occurrences(Pack, s) /\ q + 2 <= j)
      /\ \A i \in Occurrences(Pack, s) : i + 2 <= j => i <= q
  BY <1>2, LastBeforeIs
<1>5. CutAt(s, j) = IF q # 0 THEN q ELSE j
  BY CutAtIs
<1>6. s[p + 1] = 1 /\ s[j] = 0 /\ p # 0
  <2>1. s[p + 1] = Pack[2] /\ s[j] = Keyframe[1]
    BY <1>2, <1>3, OccursAt
  <2> QED
    BY <2>1 DEF Pack, Keyframe
<1> HIDE DEF p, q
<1>7. CASE q # 0
  <2>1. q \in Occurrences(Pack, s) /\ q + 2 <= k
    BY <1>2, <1>4, <1>7
  <2>2. q <= p
    BY <1>3, <2>1
  <2> QED
    BY <1>3, <1>4, <1>5, <1>7, <2>2 DEF p
<1>8. CASE q = 0
  <2>1. p + 2 > j
    BY <1>2, <1>3, <1>4, <1>6, <1>8
  <2>2. p + 1 # j
    BY <1>6
  <2>3. p >= j
    BY <1>2, <1>3, <2>1, <2>2
  <2> QED
    BY <1>5, <1>8, <2>3 DEF p
<1> QED
  BY <1>4, <1>7, <1>8

\* After a cut the last keyframe and the start of its snapshot are where they
\* were.
LEMMA CutAlike ==
    ASSUME NEW s \in Bytes, NEW c \in 1 .. Len(s) + 1, IsCut(s, c)
    PROVE  LET b == From(s, c)
               k == LastKeyframe(s)
               l == LastKeyframe(b)
           IN  /\ k = 0 => c = 1
               /\ k = 0 <=> l = 0
               /\ k # 0 => /\ l = k - c + 1
                           /\ CutAt(s, k) \in c .. k
                           /\ CutAt(b, l) = CutAt(s, k) - c + 1
<1> DEFINE b == From(s, c)
           k == LastKeyframe(s)
           l == LastKeyframe(b)
<1>1. Len(s) \in Nat /\ b \in Bytes /\ Len(b) = Len(s) - c + 1
      /\ Keyframe \in Markers /\ Pack \in Markers
  BY FromProperties, LenProperties DEF Bytes, Markers
<1>2. k \in Nat /\ (k # 0 => k \in Occurrences(Keyframe, s) /\ k \in 1 .. Len(s))
      /\ \A i \in Occurrences(Keyframe, s) : i \in 1 .. Len(s) /\ i <= k
  BY LastKeyframeIs
<1>3. CASE c = 1
  <2>1. b = s
    BY <1>3, FromAll
  <2>2. k # 0 => CutAt(s, k) \in 1 .. k
    BY <1>2, CutAtIs
  <2> HIDE DEF b, k
  <2>3. l = k
    BY <2>1 DEF k
  <2> HIDE DEF l
  <2>4. k # 0 => l = k - c + 1 /\ CutAt(s, k) \in c .. k /\ CutAt(b, l) = CutAt(s, k) - c + 1
    BY <1>2, <1>3, <2>1, <2>2, <2>3
  <2> QED
    BY <1>3, <2>3, <2>4 DEF b, k, l
<1>4. CASE c # 1
  <2>1. PICK j \in Occurrences(Keyframe, s) : c = CutAt(s, j)
    BY <1>4 DEF IsCut
  <2>2. c \in 1 .. j /\ j \in 1 .. Len(s) /\ j <= k
    BY <1>2, <2>1, CutAtIs
  <2>3. k # 0 /\ k \in Occurrences(Keyframe, s) /\ k \in 1 .. Len(s) /\ k >= c
    BY <1>1, <1>2, <2>2
  <2>4. l = k - c + 1
    <3>1. Len(b) + 1 \in Nat /\ (Len(b) + 1) + c - 1 = Len(s) + 1
      BY <1>1
    <3>2. LastBefore(Keyframe, b, Len(b) + 1) =
              LET p == LastBefore(Keyframe, s, (Len(b) + 1) + c - 1)
              IN  IF p >= c THEN p - c + 1 ELSE 0
      BY <1>1, <3>1, LastBeforeInSuffix
    <3> HIDE DEF b
    <3>3. l = IF k >= c THEN k - c + 1 ELSE 0
      BY <3>1, <3>2 DEF LastKeyframe
    <3> QED
      BY <2>3, <3>3
  <2> DEFINE p == LastBefore(Pack, s, k)
  <2>5. CutAt(s, k) \in 1 .. k /\ CutAt(s, k) = IF p # 0 THEN p ELSE k
    BY <2>3, CutAtIs
  <2>6. p # 0 => p >= c
    BY <2>1, <2>2, <2>3, LaterPackIsKept
  <2>7. p \in Nat
    BY <1>1, <1>2, LastBeforeIs
  <2>8. LastBefore(Pack, b, l) = IF p >= c THEN p - c + 1 ELSE 0
    <3>1. l \in Nat /\ l + c - 1 = k
      BY <1>1, <2>3, <2>4
    <3> HIDE DEF l, k
    <3>2. LastBefore(Pack, b, l) =
              LET r == LastBefore(Pack, s, l + c - 1)
              IN  IF r >= c THEN r - c + 1 ELSE 0
      BY <1>1, <3>1, LastBeforeInSuffix
    <3> QED
      BY <3>1, <3>2
  <2> HIDE DEF b, k, l, p
  <2>9. CutAt(b, l) = IF LastBefore(Pack, b, l) # 0 THEN LastBefore(Pack, b, l) ELSE l
    BY DEF CutAt
  <2>10. CutAt(s, k) \in c .. k
    BY <1>2, <2>3, <2>5, <2>6, <2>7
  <2>11. CutAt(b, l) = CutAt(s, k) - c + 1
    <3>1. CASE p # 0
      <4>1. LastBefore(Pack, b, l) = p - c + 1 /\ p - c + 1 # 0
        BY <2>6, <2>7, <2>8, <3>1
      <4> QED
        BY <2>5, <2>9, <3>1, <4>1
    <3>2. CASE p = 0
      BY <2>4, <2>5, <2>8, <2>9, <3>2
    <3> QED
      BY <3>1, <3>2
  <2>12. l # 0
    BY <1>2, <2>3, <2>4
  <2> QED
    BY <2>3, <2>4, <2>10, <2>11, <2>12 DEF b, k, l
<1> QED
  BY <1>3, <1>4

\* _snapshot_buffer_for_new_client.
LEMMA SnapshotAlike ==
    ASSUME NEW s \in Bytes, NEW b, IsTrimmed(s, b)
    PROVE  Snapshot(b) = Snapshot(s)
<1>1. PICK c \in 1 .. Len(s) + 1 : IsCut(s, c) /\ b = From(s, c)
  BY DEF IsTrimmed
<1> DEFINE k == LastKeyframe(s)
           l == LastKeyframe(b)
<1>2. /\ k = 0 => c = 1
      /\ k = 0 <=> l = 0
      /\ k # 0 => /\ l = k - c + 1
                  /\ CutAt(s, k) \in c .. k
                  /\ CutAt(b, l) = CutAt(s, k) - c + 1
  BY <1>1, CutAlike
<1>3. Len(s) \in Nat /\ k \in Nat /\ (k # 0 => k \in 1 .. Len(s))
  BY LastKeyframeIs, LenProperties DEF Bytes
<1>4. Snapshot(s) = IF k = 0 THEN s ELSE From(s, CutAt(s, k))
  BY DEF Snapshot
<1>5. Snapshot(b) = IF l = 0 THEN b ELSE From(b, CutAt(b, l))
  BY DEF Snapshot
<1> HIDE DEF k, l
<1>6. CASE k = 0
  <2>1. b = s
    BY <1>1, <1>2, <1>6, FromAll
  <2> QED
    BY <1>2, <1>4, <1>5, <1>6, <2>1
<1>7. CASE k # 0
  <2> DEFINE a == CutAt(s, k)
             j == a - c + 1
  <2>1. a \in c .. k
    BY <1>2, <1>7
  <2> HIDE DEF a
  <2>2. j \in 1 .. Len(s) - c + 2 /\ c + j - 1 = a
    BY <1>3, <1>7, <2>1
  <2> HIDE DEF j
  <2>3. From(From(s, c), j) = From(s, c + j - 1)
    BY <2>2, FromFrom
  <2>4. Snapshot(b) = From(b, j)
    BY <1>2, <1>5, <1>7 DEF a, j
  <2>5. Snapshot(s) = From(s, a)
    BY <1>4, <1>7 DEF a
  <2> QED
    BY <1>1, <2>2, <2>3, <2>4, <2>5
<1> QED
  BY <1>6, <1>7

\* What a trim leaves is a cut again, of which a snapshot takes off little.
LEMMA TrimAlike ==
    ASSUME NEW s \in Bytes, NEW b, IsTrimmed(s, b)
    PROVE  /\ IsTrimmed(s, Trim(b))
           /\ Trim(b) \in Bytes
           /\ Len(Trim(b)) - Len(Snapshot(Trim(b))) <= MinOffset
<1>1. PICK c \in 1 .. Len(s) + 1 : IsCut(s, c) /\ b = From(s, c)
  BY DEF IsTrimmed
<1> DEFINE k == LastKeyframe(s)
           l == LastKeyframe(b)
<1>2. /\ k = 0 => c = 1
      /\ k = 0 <=> l = 0
      /\ k # 0 => /\ l = k - c + 1
                  /\ CutAt(s, k) \in c .. k
                  /\ CutAt(b, l) = CutAt(s, k) - c + 1
  BY <1>1, CutAlike
<1>3. /\ Len(s) \in Nat /\ k \in Nat
      /\ k # 0 => k \in Occurrences(Keyframe, s) /\ k \in 1 .. Len(s)
  BY LastKeyframeIs, LenProperties DEF Bytes
<1>4. b \in Bytes /\ Len(b) = Len(s) - c + 1
  BY <1>1, FromProperties
<1>5. l \in Nat
  BY <1>4, LastKeyframeIs
<1>6. MinOffset \in Nat
  BY BufferAssumption
<1>7. Trim(b) = IF l <= MinOffset THEN b ELSE From(b, CutAt(b, l))
  BY DEF Trim
<1>8. Snapshot(b) = IF l = 0 THEN b ELSE From(b, CutAt(b, l))
  BY DEF Snapshot
<1>a. ASSUME k # 0 PROVE CutAt(s, k) \in 1 .. Len(s) + 1 /\ IsCut(s, CutAt(s, k))
  <2>1. CutAt(s, k) \in 1 .. Len(s) + 1
    BY <1>2, <1>3, <1>a
  <2> QED
    BY <1>3, <1>a, <2>1 DEF IsCut
<1> HIDE DEF k, l
<1>9. CASE l <= MinOffset
  <2>1. Trim(b) = b
    BY <1>7, <1>9
  <2>2. Len(b) - Len(Snapshot(b)) <= MinOffset
    <3>1. CASE l = 0
      BY <1>3, <1>4, <1>6, <1>8, <3>1
    <3>2. CASE l # 0
      <4>1. CutAt(b, l) \in 1 .. Len(b) + 1 /\ CutAt(b, l) <= l /\ CutAt(b, l) \in Nat
        BY <1>2, <1>3, <1>4, <3>2
      <4>2. Len(Snapshot(b)) = Len(b) - CutAt(b, l) + 1
        BY <1>4, <1>8, <3>2, <4>1, FromProperties
      <4> QED
        BY <1>3, <1>4, <1>5, <1>6, <1>9, <4>1, <4>2
    <3> QED
      BY <3>1, <3>2
  <2> QED
    BY <1>4, <2>1, <2>2
<1>10. CASE ~ (l <= MinOffset)
  <2>1. l # 0 /\ k # 0
    BY <1>2, <1>5, <1>6, <1>10
  <2> DEFINE a == CutAt(s, k)
             j == a - c + 1
  <2>2. a \in c .. k
    BY <1>2, <2>1
  <2> HIDE DEF a
  <2>3. j \in 1 .. Len(s) - c + 2 /\ c + j - 1 = a
    BY <1>3, <2>1, <2>2
  <2> HIDE DEF j
  <2>4. From(From(s, c), j) = From(s, c + j - 1)
    BY <2>3, FromFrom
  <2>5. Trim(b) = From(b, j)
    BY <1>2, <1>7, <1>10, <2>1 DEF a, j
  <2>6. Trim(b) = From(s, a)
    BY <1>1, <2>3, <2>4, <2>5
  <2>7. a \in 1 .. Len(s) + 1 /\ IsCut(s, a)
    BY <1>a, <2>1 DEF a
  <2>8. IsTrimmed(s, Trim(b)) /\ Trim(b) \in Bytes
    BY <2>6, <2>7, FromProperties DEF IsTrimmed
  <2>9. Snapshot(Trim(b)) = Snapshot(s) /\ Snapshot(b) = Snapshot(s)
    BY <2>8, SnapshotAlike
  <2>10. Snapshot(b) = Trim(b)
    BY <1>7, <1>8, <1>10, <2>1
  <2>11. Len(Trim(b)) \in Nat
    BY <2>8, LenProperties DEF Bytes
  <2> QED
    BY <1>6, <2>8, <2>9, <2>10, <2>11
<1> QED
  BY <1>9, <1>10

\* What is cut stays cut when more is let out.
LEMMA CutGrows ==
    ASSUME NEW s \in Bytes, NEW b, NEW x \in Bytes, IsTrimmed(s, b)
    PROVE  IsTrimmed(s \o x, b \o x) /\ b \in Bytes
<1>1. PICK c \in 1 .. Len(s) + 1 : IsCut(s, c) /\ b = From(s, c)
  BY DEF IsTrimmed
<1>2. /\ s \o x \in Bytes /\ Len(s \o x) = Len(s) + Len(x)
      /\ Len(s) \in Nat /\ Len(x) \in Nat
      /\ Keyframe \in Markers /\ Pack \in Markers
  BY LenProperties, ConcatProperties DEF Bytes, Markers
<1>3. c \in 1 .. Len(s \o x) + 1
  BY <1>2
<1>4. From(s \o x, c) = b \o x /\ b \in Bytes
  BY <1>1, FromConcat, FromProperties
<1>5. IsCut(s \o x, c)
  <2>1. CASE c = 1
    BY <2>1 DEF IsCut
  <2>2. CASE c # 1
    <3>1. PICK k \in Occurrences(Keyframe, s) : c = CutAt(s, k)
      BY <1>1, <2>2 DEF IsCut
    <3>2. k \in Nat /\ k <= Len(s) + 1
      BY <1>2 DEF Occurrences
    <3>3. k \in Occurrences(Keyframe, s \o x)
      BY <1>2, <3>2, OccursInPrefix
    <3>4. LastBefore(Pack, s \o x, k) = LastBefore(Pack, s, k)
      BY <1>2, <3>2, LastBeforeInPrefix
    <3>5. CutAt(s \o x, k) = CutAt(s, k)
      BY <3>4 DEF CutAt
    <3> QED
      BY <3>1, <3>3, <3>5 DEF IsCut
  <2> QED
    BY <2>1, <2>2
<1> QED
  BY <1>3, <1>4, <1>5 DEF IsTrimmed

\* A keyframe of s from whose start on there are MinTail bytes.
HasComplete(s) == \E k \in Occurrences(Keyframe, s) : Len(s) - k + 1 >= MinTail

LEMMA CompleteIs ==
    ASSUME NEW s \in Bytes, NEW b, IsTrimmed(s, b), Complete(b)
    PROVE  HasComplete(s)
<1>1. PICK c \in 1 .. Len(s) + 1 : IsCut(s, c) /\ b = From(s, c)
  BY DEF IsTrimmed
<1> DEFINE k == LastKeyframe(s)
           l == LastKeyframe(b)
<1>2. (k = 0 <=> l = 0) /\ (k # 0 => l = k - c + 1)
  BY <1>1, CutAlike
<1>3. Len(s) \in Nat /\ k \in Nat /\ (k # 0 => k \in Occurrences(Keyframe, s))
  BY LastKeyframeIs, LenProperties DEF Bytes
<1>4. Len(b) = Len(s) - c + 1
  BY <1>1, FromProperties
<1>5. l # 0 /\ Len(b) - l + 1 >= MinTail
  BY DEF Complete
<1> HIDE DEF k, l
<1>6. Len(b) - l + 1 = Len(s) - k + 1
  BY <1>2, <1>3, <1>4, <1>5
<1> QED
  BY <1>2, <1>3, <1>5, <1>6 DEF HasComplete

LEMMA HasCompleteGrows ==
    ASSUME NEW s \in Bytes, NEW x \in Bytes, HasComplete(s)
    PROVE  HasComplete(s \o x)
<1>1. PICK k \in Occurrences(Keyframe, s) : Len(s) - k + 1 >= MinTail
  BY DEF HasComplete
<1>2. /\ Len(s \o x) = Len(s) + Len(x) /\ Len(s) \in Nat /\ Len(x) \in Nat
      /\ Keyframe \in Markers /\ k \in Nat
  BY LenProperties, ConcatProperties DEF Bytes, Markers, Occurrences
<1>3. k \in Occurrences(Keyframe, s \o x)
  BY <1>2, OccursInPrefix
<1>4. Len(s \o x) - k + 1 >= MinTail
  <2>1. MinTail \in Nat
    BY BufferAssumption
  <2> QED
    BY <1>1, <1>2, <2>1
<1> QED
  BY <1>3, <1>4 DEF HasComplete

-----------------------------------------------------------------------------
(* The invariant is inductive *)

LEMMA InitInv == Init => IInv
<1> SUFFICES ASSUME Init PROVE IInv
  OBVIOUS
<1>1. /\ wire \in Seq(Nat) /\ read = 0 /\ decoder = Fresh
      /\ buffer = <<>> /\ seen = FALSE
  BY BufferAssumption DEF Init
<1>2. Len(wire) \in Nat /\ <<>> \in Bytes /\ Len(<<>>) = 0
  BY <1>1, LenProperties, EmptySeq DEF Bytes
<1>3. TypeOK
  <2>1. read \in 0 .. Len(wire) /\ wire \in Bytes /\ buffer \in Bytes
    BY <1>1, <1>2 DEF Bytes
  <2>2. decoder \in Decoders /\ seen \in BOOLEAN
    BY <1>1, FreshFollows
  <2> QED
    BY <2>1, <2>2 DEF TypeOK
<1>4. decoder.buf = <<>> /\ decoder.out = <<>>
  BY <1>1 DEF Fresh
<1>5. UpToDate
  <2>1. Fed = <<>>
    BY <1>1, SubSeqEmpty DEF Fed
  <2> QED
    BY <1>1, <2>1, FreshHasRead DEF UpToDate
<1>6. Aligned
  <2>1. From(<<>>, 1) = <<>> /\ 1 \in 1 .. Len(<<>>) + 1
    BY <1>2, FromAll
  <2> QED
    BY <1>1, <1>4, <2>1 DEF Aligned, IsTrimmed, IsCut
<1>7. BufferIsTight
  <2>1. TrimTarget \in Nat /\ Len(buffer) = 0
    BY <1>1, <1>2, BufferAssumption
  <2>2. ~ (Len(buffer) > TrimTarget)
    BY <2>1
  <2> QED
    BY <2>2 DEF BufferIsTight
<1>8. SeenIsComplete
  BY <1>1 DEF SeenIsComplete
<1> QED
  BY <1>3, <1>5, <1>6, <1>7, <1>8 DEF IInv

\* One read: what it makes of the decoder, and the plaintext that take()
\* returns.
LEMMA PumpFeeds ==
    ASSUME TypeOK, UpToDate, NEW n \in 1 .. MaxRead, read + n <= Len(wire), Pump(n)
    PROVE  /\ wire' = wire /\ read' \in 0 .. Len(wire)
           /\ decoder' \in Decoders
           /\ UpToDate'
           /\ Extends(decoder', decoder)
<1> DEFINE data == SubSeq(wire, read + 1, read + n)
<1>1. /\ wire \in Bytes /\ wire \in Seq(Nat) /\ Len(wire) \in Nat
      /\ read \in 0 .. Len(wire) /\ n \in Nat \ {0} /\ decoder \in Decoders
  BY LenProperties, BufferAssumption DEF TypeOK, Bytes
<1>2. wire' = wire /\ read' = read + n /\ decoder' = Feed(decoder, data)
  BY DEF Pump
<1>3. read + n \in Nat /\ read + n \in 0 .. Len(wire) /\ read + 1 \in Nat \ {0}
      /\ read \in Nat /\ read <= Len(wire)
  BY <1>1
<1>4. data \in Bytes /\ Fed \in Bytes
  BY <1>1, <1>3, SubSeqTyped DEF Fed
<1>5. Fed' = Fed \o data
  <2>1. 1 \in 1 .. Len(wire) + 1 /\ read \in 1 - 1 .. Len(wire)
        /\ read + n \in read .. Len(wire)
    BY <1>1
  <2>2. SubSeq(wire, 1, read) \o SubSeq(wire, read + 1, read + n) =
            SubSeq(wire, 1, read + n)
    BY <1>1, <2>1, ConcatAdjacentSubSeq
  <2>3. Fed' = SubSeq(wire, 1, read + n)
    BY <1>2 DEF Fed
  <2> QED
    BY <2>2, <2>3 DEF Fed
<1> HIDE DEF data
<1>6. HasRead(decoder, Fed)
  BY DEF UpToDate
<1>7. /\ Feed(decoder, data) \in Decoders
      /\ HasRead(Feed(decoder, data), Fed \o data)
      /\ Extends(Feed(decoder, data), decoder)
      /\ ~ CanConsume(Feed(decoder, data).buf)
  BY <1>1, <1>4, <1>6, FeedHasRead
<1> HIDE DEF Fed
<1>8. UpToDate'
  BY <1>2, <1>5, <1>7 DEF UpToDate
<1> QED
  BY <1>2, <1>3, <1>7, <1>8

LEMMA PumpInv ==
    ASSUME IInv, NEW n \in 1 .. MaxRead, read + n <= Len(wire), Pump(n)
    PROVE  IInv'
<1> DEFINE d == decoder'
           o == decoder.out
           plain == From(d.out, Len(o) + 1)
           b == buffer \o plain
<1>1. TypeOK /\ UpToDate /\ Aligned /\ BufferIsTight /\ SeenIsComplete
  BY DEF IInv
<1>2. /\ wire' = wire /\ read' \in 0 .. Len(wire)
      /\ d \in Decoders /\ UpToDate' /\ Extends(d, decoder)
  BY <1>1, PumpFeeds
<1>3. o \in Bytes /\ Len(o) \in Nat /\ d.out \in Bytes
  <2>1. o \in Bytes /\ d.out \in Bytes
    BY <1>1, <1>2 DEF TypeOK, Decoders
  <2> HIDE DEF o
  <2> QED
    BY <2>1, LenProperties DEF Bytes
<1>4. plain \in Bytes /\ d.out = o \o plain
  <2>1. PICK u \in Bytes : d.out = o \o u
    BY <1>2 DEF Extends
  <2>2. From(o, Len(o) + 1) = <<>>
    BY <1>3, SubSeqEmpty DEF From
  <2>3. From(o \o u, Len(o) + 1) = <<>> \o u
    <3>1. Len(o) + 1 \in 1 .. Len(o) + 1
      BY <1>3
    <3> HIDE DEF o
    <3> QED
      BY <1>3, <2>2, <3>1, FromConcat
  <2>4. plain = u
    BY <2>1, <2>3, ConcatEmptySeq DEF Bytes
  <2> QED
    BY <2>1, <2>4
<1>5. IF plain = <<>>
      THEN UNCHANGED <<buffer, seen>>
      ELSE /\ buffer' = IF Len(b) > TrimTarget THEN Trim(b) ELSE b
           /\ seen' = (seen \/ Complete(buffer'))
  BY DEF Pump
<1>6. IsTrimmed(o, buffer) /\ buffer \in Bytes /\ wire \in Bytes /\ seen \in BOOLEAN
  BY <1>1 DEF Aligned, TypeOK
<1>7. (seen => HasComplete(o)) /\ (SeenIsComplete' <=> (seen' => HasComplete(d.out)))
  BY <1>1 DEF SeenIsComplete, HasComplete
<1> HIDE DEF d, o, plain
<1>8. CASE plain = <<>>
  <2>1. d.out = o
    BY <1>3, <1>4, <1>8, ConcatEmptySeq DEF Bytes
  <2>2. buffer' = buffer /\ seen' = seen
    BY <1>5, <1>8
  <2>3. Aligned'
    BY <1>6, <2>1, <2>2 DEF Aligned, d
  <2>4. TypeOK'
    BY <1>2, <1>6, <2>2 DEF TypeOK, d
  <2>5. BufferIsTight'
    BY <1>1, <2>2 DEF BufferIsTight
  <2>6. SeenIsComplete'
    BY <1>7, <2>1, <2>2
  <2> QED
    BY <1>2, <2>3, <2>4, <2>5, <2>6 DEF IInv
<1>9. CASE plain # <<>>
  <2>1. IsTrimmed(d.out, b)
    BY <1>3, <1>4, <1>6, CutGrows
  <2>2. b \in Bytes
    BY <1>4, <1>6, ConcatProperties DEF Bytes
  <2> HIDE DEF b
  <2>3. /\ buffer' = IF Len(b) > TrimTarget THEN Trim(b) ELSE b
        /\ seen' = (seen \/ Complete(buffer'))
    BY <1>5, <1>9
  <2>4. /\ IsTrimmed(d.out, Trim(b)) /\ Trim(b) \in Bytes
        /\ Len(Trim(b)) - Len(Snapshot(Trim(b))) <= MinOffset
    BY <1>3, <2>1, TrimAlike
  <2>5. IsTrimmed(d.out, buffer') /\ buffer' \in Bytes
    BY <2>1, <2>2, <2>3, <2>4
  <2>6. Aligned'
    BY <2>5 DEF Aligned, d
  <2>7. TypeOK'
    BY <1>2, <1>6, <2>3, <2>5 DEF TypeOK, d, Complete
  <2>8. BufferIsTight'
    <3>1. CASE Len(b) > TrimTarget
      <4>1. buffer' = Trim(b)
        BY <2>3, <3>1
      <4> QED
        BY <2>4, <4>1 DEF BufferIsTight
    <3>2. CASE ~ (Len(b) > TrimTarget)
      <4>1. buffer' = b
        BY <2>3, <3>2
      <4> QED
        BY <3>2, <4>1 DEF BufferIsTight
    <3> QED
      BY <3>1, <3>2
  <2>9. SeenIsComplete'
    <3>1. CASE Complete(buffer')
      <4>1. HasComplete(d.out)
        BY <1>3, <2>5, <3>1, CompleteIs
      <4> QED
        BY <1>7, <4>1
    <3>2. CASE seen
      <4>1. HasComplete(d.out)
        BY <1>3, <1>4, <1>7, <3>2, HasCompleteGrows
      <4> QED
        BY <1>7, <4>1
    <3> QED
      BY <1>7, <2>3, <3>1, <3>2
  <2> QED
    BY <1>2, <2>6, <2>7, <2>8, <2>9 DEF IInv
<1> QED
  BY <1>8, <1>9

LEMMA NextInv == IInv /\ [Next]_vars => IInv'
<1> SUFFICES ASSUME IInv, [Next]_vars PROVE IInv'
  OBVIOUS
<1>1. CASE Next
  BY <1>1, PumpInv DEF Next
<1>2. CASE UNCHANGED vars
  BY <1>2 DEF vars, IInv, TypeOK, UpToDate, Fed, Aligned, BufferIsTight, SeenIsComplete
<1> QED
  BY <1>1, <1>2

LEMMA Invariance == Spec => []IInv
BY InitInv, NextInv, PTL DEF Spec

-----------------------------------------------------------------------------
(* What follows from it *)

\* StreamDecoder.feed: however the stream is cut into reads, what has been let
\* out is the plaintext of the bytes read so far from its first keyframe on.
THEOREM OneShot == Spec => []FeedIsOneShot
<1>1. IInv => FeedIsOneShot
  <2> SUFFICES ASSUME IInv PROVE FeedIsOneShot
    OBVIOUS
  <2>1. decoder \in Decoders /\ wire \in Bytes /\ read \in Nat /\ read <= Len(wire)
    BY LenProperties DEF IInv, TypeOK, Bytes
  <2>2. Fed \in Bytes
    BY <2>1, SubSeqTyped DEF Fed
  <2>3. HasRead(decoder, Fed) /\ ~ CanConsume(decoder.buf)
    BY DEF IInv, UpToDate
  <2> QED
    BY <2>1, <2>2, <2>3, HasReadOneShot DEF FeedIsOneShot
<1> QED
  BY <1>1, Invariance, PTL

\* _absorb_plain and _trim_buffer_to_last_keyframe keep what they hold within
\* MAX_PRE_KEYFRAME_BUF and near a snapshot.
THEOREM Bounded == Spec => []BuffersBounded
<1>1. IInv => BuffersBounded
  <2> SUFFICES ASSUME IInv PROVE BuffersBounded
    OBVIOUS
  <2>1. decoder \in Decoders /\ wire \in Bytes /\ read \in Nat /\ read <= Len(wire)
    BY LenProperties DEF IInv, TypeOK, Bytes
  <2>2. Fed \in Bytes
    BY <2>1, SubSeqTyped DEF Fed
  <2>3. HasRead(decoder, Fed) /\ ~ CanConsume(decoder.buf)
    BY DEF IInv, UpToDate
  <2>4. PendingBounded
    BY <2>1, <2>2, <2>3, HasReadOneShot DEF PendingBounded
  <2> QED
    BY <2>4 DEF IInv, BuffersBounded
<1> QED
  BY <1>1, Invariance, PTL

\* _snapshot_buffer_for_new_client: no trim has cost a viewer anything.
THEOREM Untrimmed == Spec => []SnapshotUntrimmed
<1>1. IInv => SnapshotUntrimmed
  <2> SUFFICES ASSUME IInv PROVE SnapshotUntrimmed
    OBVIOUS
  <2>1. decoder.out \in Bytes /\ IsTrimmed(decoder.out, buffer)
    BY DEF IInv, TypeOK, Decoders, Aligned
  <2> QED
    BY <2>1, SnapshotAlike DEF SnapshotUntrimmed
<1> QED
  BY <1>1, Invariance, PTL

\* _keyframe_seen is set only for a keyframe with MinTail bytes behind it.
THEOREM CompleteSeen == Spec => []SeenIsComplete
<1>1. IInv => SeenIsComplete
  BY DEF IInv
<1> QED
  BY <1>1, Invariance, PTL

\* The rounds that Feed counts are all that feed's loop makes: none is left that
\* would consume anything.
THEOREM LoopEnds == Spec => []~ CanConsume(decoder.buf)
<1>1. IInv => ~ CanConsume(decoder.buf)
  BY DEF IInv, UpToDate
<1> QED
  BY <1>1, Invariance, PTL

\* The pump's take() is what has been added to the output: nothing that was
\* let out is changed by a later read.
THEOREM OutputGrows == Spec => [][Extends(decoder', decoder)]_vars
<1>1. IInv /\ [Next]_vars => [Extends(decoder', decoder)]_vars
  BY PumpFeeds DEF IInv, Next
<1> QED
  BY <1>1, Invariance, PTL DEF Spec
=============================================================================
