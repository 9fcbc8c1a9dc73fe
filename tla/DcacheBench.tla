----------------------------- MODULE DcacheBench -----------------------------
(***************************************************************************)
(* The random test of an LSU with its data cache (sim/selfcheck/lsu_dcache.cpp)  *)
(* over a Wishbone bus to a memory of class PerfectMem in its plain mode.  After  *)
(* the requests come loads of other addresses that are to push every dirty word    *)
(* out of the cache; then the memory must equal the one that was written when       *)
(* stores were done.                                                               *)
(*                                                                               *)
(* The device under test (unrelated_file/lsu_dcache.v) is an LSU of LSQ_DEPTH         *)
(* requests in order, whose queue is not in the repository, over a write-back cache    *)
(* with one word per set, and a bus master that holds a transfer until its             *)
(* acknowledge.  The cache is that of dcache.v: tag and dirty bit of a set, write-back   *)
(* before refill, a refill that leaves the dirty bit.  That file is an older state of    *)
(* the cache, without the index ports lsu_dcache.v connects; it never takes a second      *)
(* request (req_ready is not raised again) and its reset marks every set dirty.  Here     *)
(* the cache takes requests one after the other and starts empty.                       *)
(*                                                                               *)
(* Address a and its alias a + 2^16 share set and memory word.  A step is one odd     *)
(* value of main_time, the rising edge.                                              *)
(***************************************************************************)
EXTENDS Naturals, Sequences, SequencesExt

CONSTANTS
  Sets,        \* number of words of the memory = sets of the cache
  TestNum,     \* RANDOM_TEST_NUM
  LSQ_DEPTH,
  DELAY,
  None

DcacheAssumption ==
  /\ Sets \in Nat \ {0} /\ TestNum \in Nat \ {0} /\ DELAY \in Nat \ {0}
  /\ LSQ_DEPTH \in 2..Sets    \* the last loads in flight do not reach round the cache

VARIABLES
  front, made, wait_que,      \* as in the test of the non-blocking LSU
  flushed,                    \* loads taken from flush_que
  lock, delay, addr,          \* the memory: a read in progress
  resp_valid, wb_ack,
  mem, correct_mem,
  lsq, cache, xfer,           \* the device: requests, sets, bus transfer or None
  status

pmVars == <<lock, delay, addr, resp_valid, wb_ack, mem>>
dutVars == <<lsq, cache, xfer>>
vars == <<front, made, wait_que, flushed, pmVars, correct_mem, dutVars, status>>

Addrs == 0..(Sets - 1)

\* n = 0: a load.  alias: the address has bit 16 set.
Request(op, a, n) == [opcode |-> op, addr |-> a, alias |-> FALSE, data |-> n]
Requests(n) == {Request("load", a, 0) : a \in Addrs} \union {Request("store", a, n) : a \in Addrs}

\* One load per word of the array, which has twice as many words as a 16-bit
\* address tells apart: the loads go over the addresses twice.
FlushNum == 2 * Sets
FlushReq(k) == [opcode |-> "load", addr |-> k % Sets, alias |-> TRUE, data |-> 0]

-----------------------------------------------------------------------------
(* The memory *)

ack == resp_valid \/ wb_ack = 2
resp32 == IF delay = 0 THEN mem[addr] ELSE 0

\* write32(): the write that is still on the bus with its acknowledge changes
\* nothing.
WbAckOnWrite == IF wb_ack = 0 THEN 1 ELSE wb_ack

\* eval() with the clock high, after the accesses of the edge.
PlainEval(locked, del, wack) ==
  LET held == locked /\ ~resp_valid
  IN /\ lock' = held
     /\ resp_valid' = (del = 0 /\ held)
     /\ wb_ack' = IF wack \in {0, 2} THEN 0 ELSE wack + 1
     /\ delay' = IF del > 0 THEN del - 1 ELSE 0

MemEdge ==
  LET go == xfer # None /\ ~lock
      wr == go /\ xfer.we
      rd == go /\ ~xfer.we
  IN /\ mem' = IF wr THEN [mem EXCEPT ![xfer.adr] = xfer.dat] ELSE mem
     /\ addr' = IF rd THEN xfer.adr ELSE addr
     /\ PlainEval(lock \/ rd, IF rd THEN DELAY ELSE delay, IF wr THEN WbAckOnWrite ELSE wb_ack)

-----------------------------------------------------------------------------
(* The device under test *)

lsu_ready(q) == Len(q) < LSQ_DEPTH

\* What the test shows the LSU.
Shown ==
  IF front # None THEN front
  ELSE IF wait_que = << >> /\ flushed < FlushNum THEN FlushReq(flushed) ELSE None

\* The oldest request that is not complete.
Pos == SelectInSeq(lsq, LAMBDA e : ~e.complete)
Cur == lsq[Pos]
Line == cache[Cur.addr]
Hit == Pos # 0 /\ Line.valid /\ Line.alias = Cur.alias

\* A miss writes a dirty word back, once (dirty_data_has_write_back), then reads; a
\* hit completes the request.
NeededXfer ==
  IF Line.valid /\ Line.dirty /\ ~Cur.written THEN [we |-> TRUE, adr |-> Cur.addr, dat |-> Line.data]
  ELSE [we |-> FALSE, adr |-> Cur.addr, dat |-> 0]

Complete(e) == [e EXCEPT !.complete = TRUE, !.data = IF e.opcode = "load" THEN Line.data ELSE @]

\* act: the device does its next internal step, if there is one.  The dirty bit is
\* set by stores and never cleared: the mask of a refill leaves it out.
DutEdge(act, done) ==
  LET works == act /\ Pos # 0 /\ xfer = None
      hits == works /\ Hit
      acked == xfer # None /\ ack
      stepped == IF hits THEN [lsq EXCEPT ![Pos] = Complete(@)]
                 ELSE IF acked /\ xfer.we THEN [lsq EXCEPT ![Pos].written = TRUE] ELSE lsq
      kept == IF done THEN Tail(stepped) ELSE stepped
  IN /\ lsq' = IF Shown # None /\ lsu_ready(lsq)
               THEN Append(kept, Shown @@ [complete |-> FALSE, written |-> FALSE]) ELSE kept
     /\ xfer' = IF xfer # None THEN (IF ack THEN None ELSE xfer)
                ELSE IF works /\ ~Hit THEN NeededXfer ELSE None
     /\ cache' = IF acked /\ ~xfer.we
                 THEN [cache EXCEPT ![xfer.adr] =
                         [@ EXCEPT !.valid = TRUE, !.alias = Cur.alias, !.data = resp32]]
                 ELSE IF hits /\ Cur.opcode = "store"
                 THEN [cache EXCEPT ![Cur.addr].data = Cur.data, ![Cur.addr].dirty = TRUE]
                 ELSE cache

MayBeDone == lsq # << >> /\ Head(lsq).complete

-----------------------------------------------------------------------------
(* The test *)

Init ==
  /\ front \in Requests(1) /\ made = 1 /\ wait_que = << >> /\ flushed = 0
  /\ lock = FALSE /\ delay = 0 /\ addr = 0 /\ resp_valid = FALSE /\ wb_ack = 0
  /\ mem = [a \in Addrs |-> 0] /\ correct_mem = [a \in Addrs |-> 0]
  /\ lsq = << >> /\ xfer = None
  /\ cache = [a \in Addrs |-> [valid |-> FALSE, dirty |-> FALSE, alias |-> FALSE, data |-> 0]]
  /\ status = "run"

Testing == front # None \/ wait_que # << >>
Running == status = "run" /\ (Testing \/ flushed < FlushNum)

\* A load that is done against the second memory; the flushing loads are not
\* looked at.
DoneAlarm ==
  /\ Testing /\ Head(wait_que).opcode = "load"
  /\ Head(lsq).data # correct_mem[Head(wait_que).addr]

CorrectMemNext(done) ==
  IF done /\ Testing /\ Head(wait_que).opcode = "store"
  THEN [correct_mem EXCEPT ![Head(wait_que).addr] = Head(wait_que).data] ELSE correct_mem

\* "req in": after the edge, the request shown counts as taken when the LSU is
\* ready; then, in the same edge, a flushing load when nothing is left to test.
ReqIn(done) ==
  LET left == IF done /\ Testing THEN Tail(wait_que) ELSE wait_que
      ready == lsu_ready(lsq')
      in == front # None /\ ready
  IN /\ wait_que' = IF in THEN Append(left, front) ELSE left
     /\ IF ~in THEN UNCHANGED <<front, made>>
        ELSE IF made < TestNum THEN front' \in Requests(made + 1) /\ made' = made + 1
        ELSE front' = None /\ UNCHANGED made
     /\ flushed' = IF front' = None /\ wait_que' = << >> /\ flushed < FlushNum /\ ready
                   THEN flushed + 1 ELSE flushed

Edge(act, done) ==
  /\ Running
  /\ done => MayBeDone
  /\ IF done /\ Testing /\ (wait_que = << >> \/ DoneAlarm)
     THEN status' = "alarm"
          /\ UNCHANGED <<front, made, wait_que, flushed, pmVars, correct_mem, dutVars>>
     ELSE /\ MemEdge
          /\ DutEdge(act, done)
          /\ correct_mem' = CorrectMemNext(done)
          /\ ReqIn(done)
          /\ UNCHANGED status

Tick == \E act, done \in BOOLEAN : Edge(act, done)

\* main_time has come to MAX_TIME: the assertion after the loop fails.
TimeOut ==
  /\ status = "run" /\ status' = "timeout"
  /\ UNCHANGED <<front, made, wait_que, flushed, pmVars, correct_mem, dutVars>>

\* final_check().
Finish ==
  /\ status = "run" /\ ~Running
  /\ status' = IF mem = correct_mem THEN "done" ELSE "mismatch"
  /\ UNCHANGED <<front, made, wait_que, flushed, pmVars, correct_mem, dutVars>>

Exited == status # "run" /\ UNCHANGED vars

Next == Tick \/ TimeOut \/ Finish \/ Exited

Spec == Init /\ [][Next]_vars

-----------------------------------------------------------------------------
(* Properties *)

\* An acknowledge belongs to the transfer on the bus: none comes when there is
\* none, a write's does not come with a read's, and the data of a read is the word
\* as it is in memory, although every write is done twice, a second time in the
\* cycle of its acknowledge.
AckOfThisTransfer ==
  /\ ack => xfer # None
  /\ resp_valid => ~xfer.we /\ addr = xfer.adr /\ resp32 = mem[xfer.adr]
  /\ wb_ack = 2 => xfer.we /\ ~resp_valid /\ mem[xfer.adr] = xfer.dat

\* A device that keeps its contract passes, the comparison at the end included:
\* the loads that flush the cache have written back every dirty word although the
\* test ends when the last of them is taken and not when it is done.  (Time may still
\* run out.)
RightDevicePasses == status \in {"run", "done", "timeout"}
=============================================================================
