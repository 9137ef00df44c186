---------------------------- MODULE OutputBuffer ----------------------------
(***************************************************************************)
(* The bounded byte buffer between the PTY reader and the HTTP pollers of  *)
(* the PTY bridge (type OutputBuffer of pty-bridge/main.go). Both methods  *)
(* run under the buffer's own mutex, so each is one atomic function of the *)
(* buffer's content.                                                       *)
(***************************************************************************)
EXTENDS Integers, Sequences

CONSTANT BufCap     \* 1024*1024 in the code: how many bytes Write keeps

ASSUME BufCapAssumption == BufCap \in Nat \ {0}

\* Seeded fault: the cut keeps one byte too few.
BufWriteShort(data, more) ==
  LET all == data \o more
  IN  IF Len(all) > BufCap
      THEN SubSeq(all, Len(all) - BufCap + 2, Len(all))
      ELSE all

\* The content after Write(more): everything, or its last BufCap bytes.
BufWrite(data, more) ==
  LET all == data \o more
  IN  IF Len(all) > BufCap
      THEN SubSeq(all, Len(all) - BufCap + 1, Len(all))
      ELSE all

\* The content after Read, which hands the caller everything there was.
BufAfterRead == << >>
=============================================================================
