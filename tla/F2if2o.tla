------------------------------- MODULE F2if2o -------------------------------
(***************************************************************************)
(* The FIFO with two write and two read ports (f2if2o) together with the    *)
(* request gating its users put in front of it: the MD queue and the LSU    *)
(* queue of the RCU and the decode FIFO.  One step is one clock edge.       *)
(*                                                                         *)
(* The FIFO itself refuses nothing: a write when full or a read when empty  *)
(* would corrupt it, so the gating is what keeps it correct.                *)
(***************************************************************************)
EXTENDS TwoModeCounter, Sequences

CONSTANTS
  FIFO_SIZE,  \* number of lines
  Data,       \* payloads
  Zero        \* the payload all of whose bits are 0

ASSUME FifoSizeAssumption == FIFO_SIZE \in Nat /\ FIFO_SIZE >= 2
ASSUME DataAssumption == Zero \in Data

VARIABLES fifo_queue, wr_line, rd_line, fifo_recount

vars == <<fifo_queue, wr_line, rd_line, fifo_recount>>

Lines == 0..(FIFO_SIZE - 1)

-----------------------------------------------------------------------------
\* A plausible slip: equal pointers always mean an empty FIFO.
FifoNumNoRecount ==
  IF wr_line >= rd_line THEN wr_line - rd_line
                        ELSE FIFO_SIZE + wr_line - rd_line

\* The fill level, from the two pointers and the wrapped-once flag.
fifo_num ==
  CASE wr_line > rd_line -> wr_line - rd_line
    [] wr_line = rd_line -> IF fifo_recount THEN FIFO_SIZE ELSE 0
    [] wr_line < rd_line -> FIFO_SIZE + wr_line - rd_line

fifo_full == fifo_num = FIFO_SIZE
fifo_almost_full == fifo_num >= FIFO_SIZE - 1
fifo_empty == fifo_num = 0
fifo_almost_empty == fifo_num <= 1

\* The enables of the two ports as every user computes them: one request goes
\* to the first port, two requests take both ports if there is room for both
\* and the first alone if there is room for one.
Granted(do1, do2, none, almost_none) ==
  [first  |-> (do1 \/ do2) /\ ~none,
   second |-> do1 /\ do2 /\ ~almost_none]

\* A plausible slip: the second write is gated by "full" instead of
\* "almost full".
WriteEnableLoose(do1, do2) == Granted(do1, do2, fifo_full, fifo_full)

WriteEnable(do1, do2) == Granted(do1, do2, fifo_full, fifo_almost_full)
ReadEnable(do1, do2) == Granted(do1, do2, fifo_empty, fifo_almost_empty)

-----------------------------------------------------------------------------
Reset ==
  /\ fifo_queue' = [i \in Lines |-> Zero]
  /\ wr_line' = 0
  /\ rd_line' = 0
  /\ fifo_recount' = FALSE

\* One clock edge without reset.  d1 and d2 are the payloads of the two
\* requesters; a lone second requester is moved to the first port.
Clock(do_w1, do_w2, d1, d2, do_r1, do_r2) ==
  LET we == WriteEnable(do_w1, do_w2)
      re == ReadEnable(do_r1, do_r2)
      nw == Ones(we.first, we.second)
      nr == Ones(re.first, re.second)
      wdata_first == IF do_w1 THEN d1 ELSE d2
      wr_second_line == CntNext(wr_line, FIFO_SIZE)
  IN /\ fifo_queue' = [i \in Lines |->
           IF we.second /\ i = wr_second_line THEN d2
           ELSE IF we.first /\ i = wr_line THEN wdata_first
           ELSE fifo_queue[i]]
     /\ wr_line' = CntAdd(wr_line, nw, FIFO_SIZE)
     /\ rd_line' = CntAdd(rd_line, nr, FIFO_SIZE)
     /\ fifo_recount' =
          IF CntEnd(wr_line, nw, FIFO_SIZE) THEN TRUE
          ELSE IF fifo_recount /\ CntEnd(rd_line, nr, FIFO_SIZE) THEN FALSE
          ELSE fifo_recount

Init ==
  /\ fifo_queue = [i \in Lines |-> Zero]
  /\ wr_line = 0
  /\ rd_line = 0
  /\ fifo_recount = FALSE

Next ==
  \/ Reset
  \/ \E do_w1, do_w2, do_r1, do_r2 \in BOOLEAN, d1, d2 \in Data :
       Clock(do_w1, do_w2, d1, d2, do_r1, do_r2)

Spec == Init /\ [][Next]_vars

-----------------------------------------------------------------------------
(* What is checked.                                                        *)

\* The type invariant: the pointers stay on the lines of the FIFO.
TypeOK ==
  /\ fifo_queue \in [Lines -> Data]
  /\ wr_line \in Lines
  /\ rd_line \in Lines
  /\ fifo_recount \in BOOLEAN

\* The wrapped-once flag says exactly whether the write pointer is a lap ahead
\* of the read pointer.  The set of fifo_recount has priority over its clear,
\* so the two counters must never finish a lap in the same cycle unless the
\* flag keeps its meaning (f2if2o.v, "fifo recount").
RecountIsLap ==
  /\ fifo_recount => wr_line <= rd_line
  /\ ~fifo_recount => rd_line <= wr_line

\* The items in the FIFO, oldest first.
Contents ==
  [i \in 1..fifo_num |->
     fifo_queue[IF rd_line + i - 1 >= FIFO_SIZE
                THEN rd_line + i - 1 - FIFO_SIZE ELSE rd_line + i - 1]]

Abstract == INSTANCE BoundedQueue WITH q <- Contents, Capacity <- FIFO_SIZE

\* The FIFO with its users' gating never loses, duplicates, reorders or
\* invents an item and never holds more than FIFO_SIZE of them: every clock edge
\* is a transfer of the abstract queue, and only a reset empties it.  This
\* implies Abstract!Spec, which alone would let any edge empty the queue.
QueueSpec ==
  Abstract!Init /\ [][(Reset /\ Abstract!Flush) \/ Abstract!Transfer]_vars
=============================================================================
