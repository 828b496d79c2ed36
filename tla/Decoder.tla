------------------------------ MODULE Decoder ------------------------------
(***************************************************************************)
(* StreamDecoder of custom_components/ezviz_hp7/cpd7/decoder.py: it is fed *)
(* the bytes of the PLAY socket as they arrive, cuts them into frames,     *)
(* takes the key from the first frame and decrypts the others, and lets    *)
(* the plaintext out from its first keyframe on.                           *)
(*                                                                         *)
(* A byte is a number of a small alphabet.  A frame is "$", a channel, a   *)
(* length (one byte here, two in the program) and a payload; any byte can  *)
(* be read as a channel or a length once the framing is lost.  Hello marks *)
(* the handshake packet that yields the key, Data a packet that decrypts.  *)
(* Encryption is abstracted to the Data mark: what follows it is the body, *)
(* which nobody looks into before it is decrypted.                         *)
(***************************************************************************)
EXTENDS Naturals, Sequences, FiniteSetsExt

CONSTANTS
    MaxPending,   \* MAX_PRE_KEYFRAME_BUF
    Lookback      \* _MAX_PACK_LOOKBACK_BEFORE_KF

Dollar == 3
Hello  == 4
Data   == 5
Video  == 1                    \* the channel of the stream

Pack     == <<0, 1>>           \* MPEG_PS_PACK
Keyframe == <<0, 2>>           \* a HEVC VPS or H.264 SPS start code

\* The part of the pending buffer that a trim keeps holds every pack header
\* that is near enough to a keyframe which is yet to come.
ASSUME LookbackAssumption ==
    /\ MaxPending \in Nat /\ Lookback \in Nat
    /\ Lookback + Len(Keyframe) <= MaxPending \div 2
-----------------------------------------------------------------------------
(* Markers in a sequence of bytes *)

Occurrences(m, s) ==
    {i \in 1 .. Len(s) : i + Len(m) - 1 <= Len(s)
                           /\ SubSeq(s, i, i + Len(m) - 1) = m}

\* s.rfind(m, 0, end): the last one that lies before position end, or 0.
LastBefore(m, s, end) ==
    Max({0} \cup {i \in Occurrences(m, s) : i + Len(m) <= end})

From(s, i) == SubSeq(s, i, Len(s))
-----------------------------------------------------------------------------
(* The decoder *)

\* keys: nothing of the stream consumed yet, or what the first frame gave.
Fresh == [buf |-> <<>>, keys |-> "awaited", started |-> FALSE,
          pending |-> <<>>, out |-> <<>>]

\* Where the output starts when its first keyframe is at k.
StartAt(s, k) ==
    LET p == LastBefore(Pack, s, k)
    IN  IF p # 0 /\ k - p <= Lookback THEN p ELSE k

AbsorbUnbounded(d, plain) ==                    \* seeded fault
    LET s  == d.pending \o plain
        ks == Occurrences(Keyframe, s)
    IN  IF d.started
        THEN [d EXCEPT !.out = @ \o plain]
        ELSE IF ks # {}
        THEN [d EXCEPT !.started = TRUE, !.pending = <<>>,
                       !.out = From(s, StartAt(s, Min(ks)))]
        ELSE [d EXCEPT !.pending = s]

\* _absorb_plain
Absorb(d, plain) ==
    LET s  == d.pending \o plain
        ks == Occurrences(Keyframe, s)
    IN  IF d.started
        THEN [d EXCEPT !.out = @ \o plain]
        ELSE IF ks # {}
        THEN [d EXCEPT !.started = TRUE, !.pending = <<>>,
                       !.out = From(s, StartAt(s, Min(ks)))]
        ELSE [d EXCEPT !.pending =
                IF Len(s) > MaxPending
                THEN From(s, Len(s) - MaxPending \div 2 + 1)
                ELSE s]

IsData(chan, payload) ==
    chan = Video /\ Len(payload) > 1 /\ Head(payload) = Data

\* _handle_chunk: the first frame is the handshake, whatever its channel, and
\* is used up even if it yields no key.
HandleChunk(d, chan, payload) ==
    IF d.keys = "awaited"
    THEN [d EXCEPT !.keys = IF \E i \in DOMAIN payload : payload[i] = Hello
                            THEN "derived" ELSE "failed"]
    ELSE IF d.keys = "derived" /\ IsData(chan, payload)
    THEN Absorb(d, Tail(payload))
    ELSE d

\* _consume_one_chunk: what its answer True or False says, and what it does.
CanConsume(buf) ==
    /\ Len(buf) >= 3
    /\ buf[1] = Dollar => Len(buf) >= 3 + buf[3]

ConsumeOneChunkHasty(d) ==                      \* seeded fault
    IF d.buf[1] # Dollar
    THEN [d EXCEPT !.buf = Tail(@)]
    ELSE HandleChunk([d EXCEPT !.buf = <<>>], d.buf[2],
                     SubSeq(d.buf, 4, 3 + d.buf[3]))

ConsumeOneChunk(d) ==
    IF d.buf[1] # Dollar
    THEN [d EXCEPT !.buf = Tail(@)]
    ELSE HandleChunk([d EXCEPT !.buf = From(@, 4 + d.buf[3])], d.buf[2],
                     SubSeq(d.buf, 4, 3 + d.buf[3]))

\* The loop of feed, by the number of its rounds; each but the last uses up a
\* byte at least.
Rounds(d) ==
    LET after[n \in 0 .. Len(d.buf)] ==
            IF n = 0 THEN d
            ELSE LET e == after[n - 1]
                 IN  IF CanConsume(e.buf) THEN ConsumeOneChunk(e) ELSE e
    IN  after

\* feed
Feed(d, data) ==
    LET e == [d EXCEPT !.buf = @ \o data] IN Rounds(e)[Len(e.buf)]
-----------------------------------------------------------------------------
(* What the decoder should let out of a given stream of bytes, without     *)
(* buffers that are trimmed nor pieces that arrive one after the other.    *)

\* The frames of a stream from each of its bytes on, as <<channel, payload>>.
FramesFrom(wire) ==
    LET from[i \in 1 .. Len(wire) + 1] ==
            IF i + 2 > Len(wire) THEN <<>>
            ELSE IF wire[i] # Dollar THEN from[i + 1]
            ELSE IF i + 2 + wire[i + 2] > Len(wire) THEN <<>>
            ELSE <<<<wire[i + 1], SubSeq(wire, i + 3, i + 2 + wire[i + 2])>>>>
                    \o from[i + 3 + wire[i + 2]]
    IN  from

Frames(wire) == FramesFrom(wire)[1]

GivesKey(frame) == \E i \in DOMAIN frame[2] : frame[2][i] = Hello

PlainOf(frame) == IF IsData(frame[1], frame[2]) THEN Tail(frame[2]) ELSE <<>>

\* The plaintext of the first frames after the handshake, by their number.
PlainUpTo(frames) ==
    LET upto[n \in 0 .. Len(frames)] ==
            IF n < 2 THEN <<>> ELSE upto[n - 1] \o PlainOf(frames[n])
    IN  upto

\* All the plaintext of the frames after a handshake that yields the key.
PlainOfAll(frames) ==
    IF frames # <<>> /\ GivesKey(frames[1]) THEN PlainUpTo(frames)[Len(frames)] ELSE <<>>

Plaintext(wire) == PlainOfAll(Frames(wire))

\* The plaintext from its first keyframe on, with the pack header near it.
Synced(plain) ==
    LET ks == Occurrences(Keyframe, plain)
    IN  IF ks = {} THEN <<>> ELSE From(plain, StartAt(plain, Min(ks)))
=============================================================================
