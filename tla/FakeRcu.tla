------------------------------ MODULE FakeRcu ------------------------------
(***************************************************************************)
(* The reorder buffer that the unit-test benches put in front of a           *)
(* load/store unit (class FakeRCU of sim/lsu_ut and sim/l1d): a list of      *)
(* requests, oldest first.  A clock edge runs eval(), whose parts are the     *)
(* operators below, in the order of the code: note the handshake of the       *)
(* request offered to the LSU, enqueue, answer, wake up, offer, commit.       *)
(***************************************************************************)
EXTENDS Naturals, Sequences, SequencesExt

CONSTANTS
  RCU_MAX_SIZE,   \* entries of the list, and modulus of the ROB index
  FirstIndex,     \* first ROB index: 1 in lsu_ut, which skips 0; 0 in l1d
  None            \* the value of a port whose valid bit is 0

RcuSizeAssumption == RCU_MAX_SIZE \in Nat /\ RCU_MAX_SIZE >= 2
FirstIndexAssumption == FirstIndex \in {0, 1}

VARIABLES
  rcu,        \* _rcu
  lsu_req,    \* _lsu_req, or None: the request offered to the LSU
  new_comm,   \* _new_comm, or None: the request committed at the last edge
  wake_up     \* _wake_up_rob_index, or None

rcuVars == <<rcu, lsu_req, new_comm, wake_up>>

\* A request as the monitor makes it; the list adds its progress.
RcuEntry(ls, fenced, paddr, data, rd_addr, delay) ==
  [load_or_store |-> ls, is_fenced |-> fenced, paddr |-> paddr, data |-> data,
   rd_addr |-> rd_addr, delay |-> delay, rob_index |-> FirstIndex,
   issued |-> FALSE, done |-> FALSE, awake |-> FALSE]

rcu_rdy == Len(rcu) < RCU_MAX_SIZE

-----------------------------------------------------------------------------
\* A plausible slip: the handshake is noted on the youngest entry.
HandleOldIssueBack(q, rdy) ==
  IF rdy /\ lsu_req # None /\ q # << >>
  THEN [q EXCEPT ![Len(q)].issued = TRUE] ELSE q

\* The LSU took the offered request.
HandleOldIssue(q, rdy) ==
  LET k == SelectInSeq(q, LAMBDA e : e.rob_index = lsu_req.rob_index)
  IN IF rdy /\ lsu_req # None /\ k # 0 THEN [q EXCEPT ![k].issued = TRUE] ELSE q

\* A plausible slip: the reserved index 0 is not skipped at the wrap-around.
NextRobIndexNoSkip(q) ==
  IF q = << >> THEN FirstIndex ELSE (Last(q).rob_index + 1) % RCU_MAX_SIZE

NextRobIndex(q) ==
  IF q = << >> THEN FirstIndex
  ELSE LET n == (Last(q).rob_index + 1) % RCU_MAX_SIZE
       IN IF n = 0 THEN FirstIndex ELSE n

Enqueue(q, new_req) ==
  IF new_req # None /\ Len(q) < RCU_MAX_SIZE
  THEN Append(q, [new_req EXCEPT !.rob_index = NextRobIndex(q)]) ELSE q

\* An answer of the LSU: a load brings data, a store has rd_addr 0.
HandleResp(q, resp) ==
  LET k == SelectInSeq(q, LAMBDA e : e.rob_index = resp.rob_index)
  IN IF resp = None \/ k = 0 THEN q
     ELSE [q EXCEPT ![k].rd_addr = resp.rd_addr, ![k].done = TRUE,
                    ![k].data = IF resp.rd_addr # 0 THEN resp.data ELSE @]

WakePos(q) == SelectInSeq(q, LAMBDA e : e.delay = 0 /\ ~e.awake)

\* A plausible slip: the delay runs from the enqueue, so that a request may be
\* woken up before the LSU has it.
WakeUpEarly(q) ==
  [k \in DOMAIN q |-> IF q[k].delay > 0 THEN [q[k] EXCEPT !.delay = @ - 1]
                      ELSE [q[k] EXCEPT !.awake = @ \/ k = WakePos(q)]]

\* One entry is woken up per edge, the oldest whose delay is over; the delay
\* counts from the issue.
WakeUp(q) ==
  [k \in DOMAIN q |-> IF q[k].delay = 0 THEN [q[k] EXCEPT !.awake = @ \/ k = WakePos(q)]
                      ELSE IF q[k].issued THEN [q[k] EXCEPT !.delay = @ - 1] ELSE q[k]]

Offer(q, req) ==
  LET k == SelectInSeq(q, LAMBDA e : ~e.issued)
  IN IF req # None THEN req ELSE IF k = 0 THEN None ELSE q[k]

\* lsu_ut reads front() of a possibly empty list; what it reads there is the
\* list's size, 0, so that nothing is committed.
MayCommit(q) == q # << >> /\ Head(q).issued /\ Head(q).done /\ Head(q).awake

-----------------------------------------------------------------------------
RcuInit == rcu = << >> /\ lsu_req = None /\ new_comm = None /\ wake_up = None

\* eval(), with the ports as they were wired before the edge.
RcuEval(rdy, new_req, resp) ==
  LET q3 == HandleResp(Enqueue(HandleOldIssue(rcu, rdy), new_req), resp)
      q4 == WakeUp(q3)
  IN /\ wake_up' = IF WakePos(q3) = 0 THEN None ELSE q3[WakePos(q3)].rob_index
     /\ lsu_req' = Offer(q4, IF rdy THEN None ELSE lsu_req)
     /\ new_comm' = IF MayCommit(q4) THEN Head(q4) ELSE None
     /\ rcu' = IF MayCommit(q4) THEN Tail(q4) ELSE q4
=============================================================================
