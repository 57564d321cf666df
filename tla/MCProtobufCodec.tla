-------------------------- MODULE MCProtobufCodec --------------------------
(* ProtobufCodec for TLC: all streams of up to MaxFrames frames.  The good  *)
(* frames are the smallest, an ordinary and the largest one; the others are *)
(* damaged in one place each.                                               *)
EXTENDS ProtobufCodec

CONSTANT MaxFrames

Good == {fillEmptyBuffer(1, 0), fillEmptyBuffer(2, 3), fillEmptyBuffer(1, kMaxMessageLen - 10)}

Base == fillEmptyBuffer(2, 3)

Bad ==
    LET damaged == [Base EXCEPT !.intact = FALSE] IN
    {[damaged EXCEPT !.sum = FALSE],
     [damaged EXCEPT !.known = FALSE],
     [damaged EXCEPT !.body = 4],
     [damaged EXCEPT !.nameLen = 1],
     [damaged EXCEPT !.nameLen = damaged.len - 2 * kHeaderLen + 1],
     [damaged EXCEPT !.len = kMinMessageLen - 1],
     [damaged EXCEPT !.len = kMaxMessageLen + 1],
     [damaged EXCEPT !.len = -1]}

MCStreams == UNION {[1 .. n -> Good \cup Bad] : n \in 1 .. MaxFrames}

=============================================================================
