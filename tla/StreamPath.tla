----------------------------- MODULE StreamPath -----------------------------
(***************************************************************************)
(* The way of a session's bytes through the relay: the pump of             *)
(* tcp_relay.py (_pump_upstream) reads them from the PLAY socket in pieces *)
(* of any size, feeds them to the decoder of the session (Decoder) and     *)
(* keeps the plaintext in a buffer that starts at a keyframe.  A viewer    *)
(* that attaches is handed a snapshot of the buffer and then what follows. *)
(* Relay takes the buffer's contents to be the session's chunks since the  *)
(* last keyframe; what it relies on is what is checked here.               *)
(***************************************************************************)
EXTENDS Decoder

CONSTANTS
    Wires,        \* what a doorbell may send in a session
    MaxRead,      \* bound: bytes that one read returns (65536)
    TrimTarget,   \* _BUFFER_TRIM_TARGET
    MinOffset,    \* the 1024 of _trim_buffer_to_last_keyframe
    MinTail       \* _KEYFRAME_MIN_TAIL_BYTES

ASSUME BufferAssumption ==
    /\ \A w \in Wires : w \in Seq(Nat)
    /\ {MaxRead, TrimTarget, MinOffset, MinTail} \subseteq Nat

VARIABLES
    wire,      \* all that the doorbell sends in this session
    read,      \* how many bytes of it the pump has read
    decoder,   \* _decoder
    buffer,    \* _buffer
    seen       \* _keyframe_seen

vars == <<wire, read, decoder, buffer, seen>>

Init ==
    /\ wire \in Wires
    /\ read = 0
    /\ decoder = Fresh
    /\ buffer = <<>>
    /\ seen = FALSE
-----------------------------------------------------------------------------
\* _rfind_last_keyframe, 0 if there is none.
LastKeyframe(b) == LastBefore(Keyframe, b, Len(b) + 1)

\* Where a snapshot begins, and what a trim leaves: at any distance from it,
\* the last pack header before the keyframe at k.
CutAt(b, k) ==
    LET p == LastBefore(Pack, b, k) IN IF p # 0 THEN p ELSE k

\* _snapshot_buffer_for_new_client
Snapshot(b) ==
    LET k == LastKeyframe(b) IN IF k = 0 THEN b ELSE From(b, CutAt(b, k))

\* _trim_buffer_to_last_keyframe
TrimToKeyframe(b) ==                            \* seeded fault
    LET k == LastKeyframe(b) IN IF k <= MinOffset THEN b ELSE From(b, k)

TrimFirst(b) ==                                 \* seeded fault
    LET k == Min({Len(b)} \cup Occurrences(Keyframe, b))
    IN  IF k <= MinOffset THEN b ELSE From(b, CutAt(b, k))

Trim(b) ==
    LET k == LastKeyframe(b)
    IN  IF k <= MinOffset THEN b ELSE From(b, CutAt(b, k))

\* A keyframe with enough of the stream behind it.
CompleteAny(b) == LastKeyframe(b) # 0           \* seeded fault

Complete(b) ==
    LastKeyframe(b) # 0 /\ Len(b) - LastKeyframe(b) + 1 >= MinTail

\* One round of the pump: take() empties the decoder's output, which is kept
\* here to compare with.
Pump(n) ==
    LET d     == Feed(decoder, SubSeq(wire, read + 1, read + n))
        plain == From(d.out, Len(decoder.out) + 1)
        b     == buffer \o plain
    IN  /\ read' = read + n
        /\ decoder' = d
        /\ IF plain = <<>>
           THEN UNCHANGED <<buffer, seen>>
           ELSE /\ buffer' = IF Len(b) > TrimTarget THEN Trim(b) ELSE b
                /\ seen' = (seen \/ Complete(buffer'))
        /\ UNCHANGED wire

Next == \E n \in 1 .. MaxRead : read + n <= Len(wire) /\ Pump(n)

Spec == Init /\ [][Next]_vars
-----------------------------------------------------------------------------
(* Safety *)

Fed == SubSeq(wire, 1, read)

\* What the decoder lets out depends on the bytes of the stream alone: not on
\* how they were cut into reads, nor on the trims of its pending buffer.
FeedIsOneShot == decoder.out = Synced(Plaintext(Fed))

\* "Hard cap on the pre-keyframe buffer" (decoder.py:63): between two reads,
\* what is held back is within it.
PendingBounded == Len(decoder.pending) <= MaxPending

\* A viewer is handed the same snapshot as if the buffer had never been
\* trimmed.
SnapshotUntrimmed == Snapshot(buffer) = Snapshot(decoder.out)

\* Beyond the trim target the buffer holds no more than a snapshot, but for
\* the little that is not worth a trim.
BufferIsTight ==
    Len(buffer) > TrimTarget => Len(buffer) - Len(Snapshot(buffer)) <= MinOffset

\* Neither buffer outgrows what the code says of it, however the stream is cut
\* into reads.
BuffersBounded == PendingBounded /\ BufferIsTight

\* The event that ends a viewer's wait is set only after some keyframe of the
\* session had MinTail bytes from its start on.
SeenIsComplete ==
    seen => \E k \in Occurrences(Keyframe, decoder.out) :
                Len(decoder.out) - k + 1 >= MinTail
=============================================================================
