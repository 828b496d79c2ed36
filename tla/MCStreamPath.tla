---------------------------- MODULE MCStreamPath ----------------------------
(* Instances of StreamPath: a handshake, good or not, and some frames or   *)
(* stray bytes after it, with markers that straddle the frames.            *)
EXTENDS StreamPath, SequencesExt

CONSTANT Length

Frame(chan, payload) == <<Dollar, chan, Len(payload)>> \o payload
Of(plain) == Frame(Video, <<Data>> \o plain)

\* A pack header far from, near to and just before a keyframe's start, the
\* second halves of both, and a whole keyframe.
Stream == {Of(<<0, 1, 0, 0>>), Of(<<1, 0, 1, 0>>), Of(<<2, 1, 0>>), Of(<<0, 2>>)}

\* A stray byte, a stray "$" that breaks the framing, another channel's frame.
Noise == {<<1>>, <<Dollar>>, Frame(0, <<Data, 0, 2>>)}

Wanted == Stream \cup {Of(<<0, 2, 1, 0>>), <<1>>}
Noisy  == {Of(<<0, 1, 0>>), Of(<<2, 0, 2>>)} \cup Noise

Handshakes == {Frame(0, <<Hello>>), Frame(Video, <<0>>), <<>>}

Clean == {Frame(0, <<Hello>>) \o FlattenSeq(s) : s \in [1 .. Length -> Wanted]}
Dirty == {h \o FlattenSeq(s) : h \in Handshakes, s \in [1 .. Length -> Noisy]}

MCWires == Clean \cup Dirty
=============================================================================
