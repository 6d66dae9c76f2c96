---------------------------- MODULE MCChunkStream ----------------------------
(* Instances of ChunkStream with a header of two bytes, pairs of one byte    *)
(* and a buffer of six: the largest message that fits fills the buffer.      *)
EXTENDS ChunkStream

Shape(p, b) == [pairs |-> p, body |-> b]

\* A QUIT, a log, a log as large as the buffer, and one of a byte more.
SomeShapes == {Shape(0, 0), Shape(1, 1), Shape(2, 2), Shape(2, 3)}
==============================================================================
