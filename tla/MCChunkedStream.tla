--------------------------- MODULE MCChunkedStream ---------------------------
(* Instances of ChunkedStream and ImgText for TLC. *)
EXTENDS ImgText

\* An empty chunk, one within the buffer, one of three buffers that crosses the
\* cache, the longest, and one too long.
SomeLens == {0, 1, 3, 5, 6}

\* Every string of up to four characters, and of five of Latin-1: below, at and
\* above both escapes, across the cache and over three pieces.
SomeTexts == UNION {[1 .. n -> {"latin", "wide", "pair"}] : n \in 0 .. 4} \union [1 .. 5 -> {"latin"}]
I8Min == -4
=============================================================================
