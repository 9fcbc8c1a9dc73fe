------------------------------ MODULE LsuBench ------------------------------
(***************************************************************************)
(* The random unit test of the load/store unit (sim/lsu_ut): the monitor,     *)
(* which makes requests and checks the answers against its own memory, and     *)
(* the fake RCU, around an LSU.  A step is one rising clock edge of the main    *)
(* loop: the ports are wired with the values before the edge, then monitor,     *)
(* RCU and LSU take their step.                                                *)
(*                                                                             *)
(* The LSU with the cache, TLB and bus behind it is the device under test.      *)
(* Here it is its contract, read off lsu_lsq.v: a queue that takes requests in   *)
(* order, performs them in order, a store only when it was woken up, a fenced    *)
(* store only at the head and nothing past a fenced store, answers one request   *)
(* per edge, a load at any time after it was performed and a store when it        *)
(* leaves the queue.  The question is whether the bench is right about every       *)
(* LSU of that kind.                                                              *)
(***************************************************************************)
EXTENDS FakeRcu, FiniteSets

CONSTANTS
  Addrs,          \* addresses the monitor draws from
  Delays,         \* wake-up delays it draws from
  testcase_max,   \* number of requests of a test
  RdRegs,         \* destination registers 1..RdRegs of the free list
  LSQ_DEPTH       \* entries of the LSU

BenchAssumption ==
  /\ Delays \subseteq Nat \ {0}
  /\ testcase_max \in Nat /\ RdRegs \in Nat
  /\ LSQ_DEPTH \in Nat \ {0} /\ None \notin Nat

VARIABLES
  mon_req,        \* _req of the monitor, or None
  iss_que,        \* _iss_que: requests handed to the RCU, not yet committed
  req_iss_num, resp_comm_num,
  rd_free_list,
  fenced,         \* _fenced_lsq_index, or None
  perfect_mem,    \* _perfect_mem, written in commit order
  lsq, head,      \* the LSU: its queue and the index of its first entry
  real_mem,       \* the memory behind the LSU
  status          \* how the test stands

monVars == <<mon_req, iss_que, req_iss_num, resp_comm_num, rd_free_list, fenced,
             perfect_mem>>
vars == <<rcuVars, monVars, lsq, head, real_mem, status>>

-----------------------------------------------------------------------------
(* The LSU *)

\* The oldest entry that was not performed, or 0.
IssuePos == SelectInSeq(lsq, LAMBDA e : ~e.exec)

\* It may go: a store is awake, a fenced store is at the head, and no fenced
\* store is ahead of it.
MayIssue(k) ==
  /\ k # 0
  /\ lsq[k].load_or_store => lsq[k].awake
  /\ lsq[k].is_fenced => k = 1
  /\ \A j \in 1..(k - 1) : ~lsq[j].is_fenced

\* A request that shows on the debug ports: tried and performed, or tried and
\* killed (a TLB miss), or nothing.
IssueChoices == {"none"} \union (IF MayIssue(IssuePos) THEN {"killed", "performed"} ELSE {})

\* The entries that may be answered at this edge.
AnswerChoices ==
  {0} \union {k \in DOMAIN lsq : lsq[k].exec /\ ~lsq[k].answered
                                 /\ (lsq[k].load_or_store => k = 1)}

Leaves(ans) == lsq # << >> /\ (Head(lsq).answered \/ ans = 1)
lsu_rdy(ans) == Len(lsq) < LSQ_DEPTH \/ Leaves(ans)

Comm(ans) ==
  IF ans = 0 THEN None
  ELSE [rob_index |-> lsq[ans].rob_index, data |-> lsq[ans].data,
        rd_addr |-> IF lsq[ans].load_or_store THEN 0 ELSE lsq[ans].rd_addr]

Accepted(e) ==
  [rob_index |-> e.rob_index, rd_addr |-> e.rd_addr, paddr |-> e.paddr, data |-> e.data,
   load_or_store |-> e.load_or_store, is_fenced |-> e.is_fenced,
   awake |-> FALSE, exec |-> FALSE, answered |-> FALSE]

\* The clock edge of the LSU, with the request on its port.
LsuStep(iss, ans, req) ==
  LET Stepped(k) ==
        [lsq[k] EXCEPT
           !.awake = @ \/ lsq[k].rob_index = wake_up,
           !.exec = @ \/ (iss = "performed" /\ k = IssuePos),
           !.answered = @ \/ k = ans,
           !.data = IF iss = "performed" /\ k = IssuePos /\ ~lsq[k].load_or_store
                    THEN real_mem[lsq[k].paddr] ELSE @]
      stepped == [k \in DOMAIN lsq |-> Stepped(k)]
      kept == IF Leaves(ans) THEN Tail(stepped) ELSE stepped
  IN /\ lsq' = IF req # None /\ lsu_rdy(ans) THEN Append(kept, Accepted(req)) ELSE kept
     /\ head' = IF Leaves(ans) THEN (head + 1) % LSQ_DEPTH ELSE head
     /\ real_mem' = IF iss = "performed" /\ lsq[IssuePos].load_or_store
                    THEN [real_mem EXCEPT ![lsq[IssuePos].paddr] = lsq[IssuePos].data]
                    ELSE real_mem

-----------------------------------------------------------------------------
(* The monitor *)

\* A plausible slip: the index behind the last one is not wrapped.
FenceNowNoWrap == IF fenced # None /\ fenced + 1 = head THEN None ELSE fenced

\* The fence is lifted when the head has moved past the fenced store.
FenceNow ==
  IF fenced # None /\ (fenced + 1) % LSQ_DEPTH = head THEN None ELSE fenced

IssueIndex == (head + IssuePos - 1) % LSQ_DEPTH

\* The two fence checks, on the debug ports of the LSU.
FenceAlarm(iss) ==
  /\ iss # "none"
  /\ \/ FenceNow # None /\ IssueIndex # FenceNow
     \/ lsq[IssuePos].is_fenced /\ head # IssueIndex

FenceNext(iss) ==
  IF iss # "none" /\ lsq[IssuePos].is_fenced THEN IssueIndex ELSE FenceNow

Handshake == rcu_rdy /\ mon_req # None

FreeAfterHandshake ==
  IF Handshake /\ ~mon_req.load_or_store THEN Tail(rd_free_list) ELSE rd_free_list

IssNumNext == req_iss_num + (IF Handshake THEN 1 ELSE 0)

\* What rand() may make: nothing, or a load, a store or a fenced store.  A store
\* writes a value of its own.  The request replaces one the RCU has not taken.
Requests ==
  {RcuEntry(FALSE, FALSE, a, 0, Head(FreeAfterHandshake), d) : a \in Addrs, d \in Delays}
  \union {RcuEntry(TRUE, f, a, IssNumNext + 1, 0, d) : f \in BOOLEAN, a \in Addrs, d \in Delays}

GenChoices == {None} \union (IF IssNumNext < testcase_max THEN Requests ELSE {})

\* The commit of the RCU against the queue and the memory of the monitor.
CommitAlarm ==
  /\ new_comm # None
  /\ \/ Head(iss_que).paddr # new_comm.paddr
     \/ ~new_comm.load_or_store /\ new_comm.data # perfect_mem[new_comm.paddr]

PerfectMemNext ==
  IF new_comm # None /\ new_comm.load_or_store
  THEN [perfect_mem EXCEPT ![new_comm.paddr] = new_comm.data] ELSE perfect_mem

\* The requests and answers of an edge, where eval() does not throw.
TrafficEval(gen) ==
  /\ mon_req' = IF gen # None THEN gen ELSE IF Handshake THEN None ELSE mon_req
  /\ req_iss_num' = IssNumNext
  /\ iss_que' = LET q == IF Handshake THEN Append(iss_que, mon_req) ELSE iss_que
                IN IF new_comm # None THEN Tail(q) ELSE q
  /\ rd_free_list' = IF new_comm # None /\ ~new_comm.load_or_store
                     THEN Append(FreeAfterHandshake, new_comm.rd_addr)
                     ELSE FreeAfterHandshake
  /\ resp_comm_num' = resp_comm_num + (IF new_comm # None THEN 1 ELSE 0)
  /\ perfect_mem' = PerfectMemNext

\* eval() of the monitor.
MonitorEval(iss, gen) == fenced' = FenceNext(iss) /\ TrafficEval(gen)

-----------------------------------------------------------------------------
(* The main loop *)

ut_done == req_iss_num = testcase_max /\ resp_comm_num = testcase_max

\* reset() and the constructors: the state when rst is released.
Init ==
  /\ RcuInit
  /\ mon_req = None /\ iss_que = << >> /\ fenced = None
  /\ req_iss_num = 0 /\ resp_comm_num = 0
  /\ rd_free_list = [i \in 1..RdRegs |-> i]
  /\ perfect_mem = [a \in Addrs |-> 0]
  /\ lsq = << >> /\ head = 0 /\ real_mem = [a \in Addrs |-> 0]
  /\ status = "run"

\* An edge: what the LSU does (iss, ans) and what rand() says (gen).
Edge(iss, ans, gen) ==
  /\ status = "run" /\ ~ut_done
  /\ IF FenceAlarm(iss) \/ CommitAlarm
     THEN status' = "alarm" /\ UNCHANGED <<rcuVars, monVars, lsq, head, real_mem>>
     ELSE /\ MonitorEval(iss, gen)
          /\ RcuEval(lsu_rdy(ans), mon_req, Comm(ans))
          /\ LsuStep(iss, ans, lsu_req)
          /\ UNCHANGED status

Tick == \E iss \in IssueChoices, ans \in AnswerChoices, gen \in GenChoices : Edge(iss, ans, gen)

\* MAX_TIME has come before the end of the test.
TimeOut ==
  /\ status = "run" /\ status' = "timeout"
  /\ UNCHANGED <<rcuVars, monVars, lsq, head, real_mem>>

\* mem_check() after the loop.
Finish ==
  /\ status = "run" /\ ut_done
  /\ status' = IF perfect_mem = real_mem THEN "done" ELSE "mismatch"
  /\ UNCHANGED <<rcuVars, monVars, lsq, head, real_mem>>

Exited == status # "run" /\ UNCHANGED vars

Next == Tick \/ TimeOut \/ Finish \/ Exited

Spec == Init /\ [][Next]_vars

\* The loop runs, the LSU performs what may go and answers what was performed:
\* the delays of the fake cache, TLB and bus are bounded.
Performed == ~MayIssue(IssuePos)
Responded(k) == k \notin AnswerChoices

\* rand() does not refuse for ever to make the next request.
Drawn == mon_req # None \/ req_iss_num = testcase_max

FairSpec == /\ Spec /\ WF_vars(Next) /\ []<>Drawn
            /\ []<>Performed /\ \A k \in 1..LSQ_DEPTH : []<>Responded(k)

-----------------------------------------------------------------------------
(* Properties *)

BenchTypeOK ==
  /\ Len(rcu) \in 0..RCU_MAX_SIZE /\ Len(lsq) \in 0..LSQ_DEPTH
  /\ \A k \in DOMAIN rcu : rcu[k].rob_index \in FirstIndex..(RCU_MAX_SIZE - 1)
  /\ req_iss_num \in 0..testcase_max /\ resp_comm_num \in 0..testcase_max
  /\ fenced \in {None} \union 0..(LSQ_DEPTH - 1)
  /\ wake_up \in {None} \union FirstIndex..(RCU_MAX_SIZE - 1)
  /\ perfect_mem \in [Addrs -> Nat] /\ real_mem \in [Addrs -> Nat]
  /\ status \in {"run", "alarm", "mismatch", "done", "timeout"}

\* The test raises no alarm about an LSU that keeps its contract: none of the
\* four checks of the monitor (beyond the fence, fence before the head, commit
\* order, load data) and not the final comparison of the memories, although the
\* LSU performs loads long before they commit and the monitor only then.
NoFalseAlarm == status \notin {"alarm", "mismatch"}

\* The scoreboard and the fake RCU, which learn of a request in two different
\* handshakes, hold the same requests in the same order; the one that has just
\* left the RCU is checked at the next edge.
ScoreboardFollowsRcu ==
  LET Req(e) == [paddr |-> e.paddr, load_or_store |-> e.load_or_store]
      pending == IF new_comm = None THEN rcu ELSE <<new_comm>> \o rcu
  IN [k \in DOMAIN iss_que |-> Req(iss_que[k])] = [k \in DOMAIN pending |-> Req(pending[k])]

\* The LSU holds exactly the requests the RCU has issued and not seen answered,
\* in order: nothing is issued twice or lost, although the RCU finds its entries
\* by a ROB index of which it has one less than entries.
LsqMirrorsRcu ==
  LET inRcu == SelectSeq(rcu, LAMBDA e : e.issued /\ ~e.done)
      inLsq == SelectSeq(lsq, LAMBDA e : ~e.answered)
  IN [k \in DOMAIN inRcu |-> <<inRcu[k].rob_index, inRcu[k].paddr>>]
     = [k \in DOMAIN inLsq |-> <<inLsq[k].rob_index, inLsq[k].paddr>>]

\* A destination register is free or belongs to one load in flight, never both
\* and never to two, and there is always one to give to the next request.
RegistersConserved ==
  LET loads == SelectSeq(IF new_comm = None THEN rcu ELSE <<new_comm>> \o rcu,
                         LAMBDA e : ~e.load_or_store)
      held == rd_free_list \o [k \in DOMAIN loads |-> loads[k].rd_addr]
  IN /\ Len(held) = RdRegs /\ ToSet(held) = 1..RdRegs
     /\ rd_free_list # << >>

\* The test comes to its end and passes, unless its time is up before: no wake-up,
\* answer or commit is lost on the way.
TestEnds == <>(status \in {"done", "timeout"})
=============================================================================
