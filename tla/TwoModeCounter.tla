--------------------------- MODULE TwoModeCounter ---------------------------
(***************************************************************************)
(* The wrap-around counter shared by the reorder buffer, the free list and *)
(* the two-in two-out FIFOs (configurable_2mode_counter).  mode_i is a pair *)
(* of enable bits; the counter only looks at how many of them are set, so  *)
(* the operators below take that number n \in 0..2.                        *)
(***************************************************************************)
EXTENDS Integers

\* The number of enable bits set in mode_i.
Ones(b1, b2) == (IF b1 THEN 1 ELSE 0) + (IF b2 THEN 1 ELSE 0)

\* cnt_precise_end | cnt_overflow_end: this step leaves the last line.
CntEnd(cnt, n, size) ==
  \/ n = 2 /\ cnt = size - 2
  \/ n = 1 /\ cnt = size - 1
  \/ n = 2 /\ cnt = size - 1

\* A plausible slip: the two-step overflow restarts at 0, skipping no line.
CntAddSkewed(cnt, n, size) ==
  IF CntEnd(cnt, n, size) THEN 0 ELSE cnt + n

\* A plausible slip: only the exact end of the lap is recognised.
CntAddPreciseOnly(cnt, n, size) ==
  IF (n = 2 /\ cnt = size - 2) \/ (n = 1 /\ cnt = size - 1) THEN 0 ELSE cnt + n

\* The value of cnt_r after the clock edge (the reset is the caller's).
CntAdd(cnt, n, size) ==
  CASE n = 2 /\ cnt = size - 1 -> 1
    [] CntEnd(cnt, n, size) /\ ~(n = 2 /\ cnt = size - 1) -> 0
    [] OTHER -> cnt + n

\* The line after cnt: wr_second_line, rd_second_line, wr_rob_index_second...
CntNext(cnt, size) == IF cnt = size - 1 THEN 0 ELSE cnt + 1
=============================================================================
