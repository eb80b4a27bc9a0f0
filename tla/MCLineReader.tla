---------------------------- MODULE MCLineReader ----------------------------
(***************************************************************************)
(* A small instance of LineReader: two files of a few bytes each, read in   *)
(* pieces of up to BUFFER_SIZE.                                             *)
(***************************************************************************)
EXTENDS LineReader

CONSTANTS f, g, MaxFirst, MaxSecond

MCContents ==
  LET texts(n) == BoundedSeq({"text", "newline"}, n)
  IN  {[h \in Fd |-> IF h = f THEN a ELSE b] : a \in texts(MaxFirst), b \in texts(MaxSecond)}

=============================================================================
