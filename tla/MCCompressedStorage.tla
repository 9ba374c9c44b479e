------------------------- MODULE MCCompressedStorage -------------------------
(* Small instances of CompressedStorage. *)
EXTENDS CompressedStorage

(* What tells states apart: not numSegments, which only grows, and not the *)
(* old bytes in free segments, which are overwritten before they are read  *)
(* as contents.                                                            *)
Visible ==
  LET free == {List(top)[i] : i \in DOMAIN List(top)}
  IN <<top, made, next, [s \in Segments \ free |-> data[s]],
       cursors, bytes, mode, reader, streams, file>>
=============================================================================
