----------------------------- MODULE MCChunkWalk ----------------------------
(* Ints of one byte, five bits wide, and a file with room for one header of six bytes, or for four
   that overlap. *)
EXTENDS ChunkWalk

\* Before the file, back by one byte, to the same header, to the next byte, to the header's end, past
\* the file, and past the largest int.
MCPackedSizes == {-16, -7, -6, -5, -4, 0, 15}

\* Sums of these are negative, wrap to zero, and wrap to what some chunk has.
MCSizes == {-16, 0, 2, 15}
=============================================================================
