------------------------------ MODULE FreeList ------------------------------
(***************************************************************************)
(* The free list of physical registers (f2if2o_freelist): a FIFO of         *)
(* FRLIST_DEPTH lines with one write pointer and two read pointers.  The     *)
(* fast pointer fl_rd_line moves when an instruction is renamed, the slow    *)
(* one, fl_rd_excep_line, when it commits; on a speculation fault the fast   *)
(* pointer jumps back to the slow one, which takes every register handed to  *)
(* a squashed instruction back.                                             *)
(*                                                                         *)
(* The module has no guard against reading an empty list: nothing in the    *)
(* RCU looks at free_list_empty.                                            *)
(***************************************************************************)
EXTENDS TwoModeCounter, Sequences

CONSTANT FRLIST_DEPTH

ASSUME FrlistDepthAssumption == FRLIST_DEPTH \in Nat /\ FRLIST_DEPTH >= 2

VARIABLES
  fl_queue,           \* fifo_queue
  fl_wr_line,
  fl_rd_line,
  fl_rd_excep_line,
  fl_recount,         \* fifo_recount: wr is a lap ahead of rd
  fl_recount_fault    \* fifo_recount_fault: wr is a lap ahead of rd_excep

flVars == <<fl_queue, fl_wr_line, fl_rd_line, fl_rd_excep_line,
            fl_recount, fl_recount_fault>>

FlLines == 0..(FRLIST_DEPTH - 1)

\* Every physical register but p0 is free after reset, in ascending order.
FreeListInit ==
  /\ fl_queue = [i \in FlLines |-> i + 1]
  /\ fl_wr_line = 0
  /\ fl_rd_line = 0
  /\ fl_rd_excep_line = 0
  /\ fl_recount = TRUE
  /\ fl_recount_fault = TRUE

\* fifo_num_o, as a function of a read pointer and its lap flag.
FlNum(rd, recount) ==
  CASE fl_wr_line > rd -> fl_wr_line - rd
    [] fl_wr_line = rd -> IF recount THEN FRLIST_DEPTH ELSE 0
    [] fl_wr_line < rd -> FRLIST_DEPTH + fl_wr_line - rd

\* The line i places after line l.
FlLine(l, i) == IF l + i >= FRLIST_DEPTH THEN l + i - FRLIST_DEPTH ELSE l + i

\* rdata_first_o and rdata_second_o when the ports are enabled: a lone second
\* reader is served from the first line.
FlRdataFirst == fl_queue[fl_rd_line]
FlRdataSecond(rd_first_en) ==
  fl_queue[IF rd_first_en THEN CntNext(fl_rd_line, FRLIST_DEPTH) ELSE fl_rd_line]

\* A lap flag after an edge: set by the writer's wrap, cleared by the reader's.
FlRecount(recount, rd, nwr, nrd) ==
  IF CntEnd(fl_wr_line, nwr, FRLIST_DEPTH) THEN TRUE
  ELSE IF recount /\ CntEnd(rd, nrd, FRLIST_DEPTH) THEN FALSE
  ELSE recount

\* A clock edge without fault: wdata is the sequence of (at most two) registers
\* written back, nrd and nrds the number of enabled fast and slow reads.
FreeListClock(wdata, nrd, nrds) ==
  LET nwr == Len(wdata) IN
  /\ fl_queue' = [i \in FlLines |->
        IF nwr = 2 /\ i = CntNext(fl_wr_line, FRLIST_DEPTH) THEN wdata[2]
        ELSE IF nwr >= 1 /\ i = fl_wr_line THEN wdata[1]
        ELSE fl_queue[i]]
  /\ fl_wr_line' = CntAdd(fl_wr_line, nwr, FRLIST_DEPTH)
  /\ fl_rd_line' = CntAdd(fl_rd_line, nrd, FRLIST_DEPTH)
  /\ fl_rd_excep_line' = CntAdd(fl_rd_excep_line, nrds, FRLIST_DEPTH)
  /\ fl_recount' = FlRecount(fl_recount, fl_rd_line, nwr, nrd)
  /\ fl_recount_fault' =
       FlRecount(fl_recount_fault, fl_rd_excep_line, nwr, nrds)

\* A clock edge with excep_rst_i.  The RCU masks the write and slow-read
\* enables with the same fault, so nothing else moves.
FreeListRollback ==
  /\ fl_rd_line' = fl_rd_excep_line
  /\ fl_recount' = fl_recount_fault
  /\ UNCHANGED <<fl_queue, fl_wr_line, fl_rd_excep_line, fl_recount_fault>>
=============================================================================
