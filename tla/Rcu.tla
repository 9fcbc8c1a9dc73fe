-------------------------------- MODULE Rcu --------------------------------
(***************************************************************************)
(* The whole register and commit unit: the allocation, renaming and commit   *)
(* of RobRename together with the issue logic, the pipeline registers of the *)
(* two ALUs and the CSR unit, the multiply/divide and load/store queues, and *)
(* the functional units as far as the RCU can see them.  One step is one      *)
(* clock edge; the completions RobRename leaves open are computed here.       *)
(*                                                                         *)
(* Instructions have the further fields rs1 and rs2; a source that is not     *)
(* used is x0.  The two queues are sequences: F2if2o shows that the FIFO with *)
(* this gating is one.                                                      *)
(***************************************************************************)
EXTENDS RobRename, Functions

(* Classes of instructions, as the decoder's flags.  A CSR access keeps      *)
(* is_alu = 1; a wfi and a return have no unit at all.                       *)

MemOps == {"load", "store"}
CsrOps == {"csr"}
MdOps == {"md"}
AluOps == {"alu", "jump", "csr"}

IsMem(i) == i.op \in MemOps
IsCsr(i) == i.op \in CsrOps
IsMd(i) == i.op \in MdOps

CONSTANTS
  MD_QUEUE_DEPTH, LSU_QUEUE_DEPTH,
  LSQ_DEPTH          \* requests the load/store unit can hold

ASSUME RcuAssumption ==
  /\ MD_QUEUE_DEPTH \in Nat /\ MD_QUEUE_DEPTH >= 2
  /\ LSU_QUEUE_DEPTH \in Nat /\ LSU_QUEUE_DEPTH >= 2
  /\ LSQ_DEPTH \in Nat /\ LSQ_DEPTH >= 1
  /\ \A i \in Insns : /\ i.rs1 \in ARegs /\ i.rs2 \in ARegs
                      /\ i.op \in AluOps \cup MdOps \cup MemOps
                                   \cup {"mret", "sret", "wfi"}

VARIABLES
  rob_selected, rob_prs1, rob_prs2,
  available_table,
  alu1, alu2, csru,  \* issue registers: << >> or one request
  mdq, lsuq,         \* md_queue and lsu_queue, oldest request first
  md_active,         \* the request in the multiplier/divider: << >> or one
  lsq                \* requests accepted by the load/store unit

issueVars == <<rob_selected, rob_prs1, rob_prs2, available_table, alu1, alu2,
               csru, mdq, lsuq, md_active, lsq>>
rcuVars == <<robVars, issueVars>>

Arb == INSTANCE OldestTwo WITH SEL_WIDTH <- ROB_SIZE

-----------------------------------------------------------------------------
(* Completions.                                                            *)

Units == Range(alu1) \cup Range(alu2) \cup Range(csru) \cup Range(md_active) \cup lsq

\* The one-cycle units: they answer in the cycle after issue.
Immediate == Range(alu1) \cup Range(alu2) \cup Range(csru)

\* A load may finish at any time, a store only once the RCU has woken it up,
\* which it does when the store is the oldest instruction (rcu_lsu_wakeup_o).
\* An exception of either is answered without a wake-up.
LsuMayFinish(p) ==
  p.op = "store" => p.idx = cmt_rob_index /\ rob_used[cmt_rob_index]

OutcomesOf(op) ==
  CASE op \in {"alu", "jump"} -> {"ok", "miss"}
    [] op \in {"load", "store", "csr"} -> {"ok", "exp"}
    [] OTHER -> {"ok"}

\* The sets of requests that can be answered in one cycle: every one-cycle unit
\* answers, the multiplier/divider may, and the load/store unit answers at most
\* once.
Responding ==
  {Immediate \cup m \cup l : m \in SUBSET Range(md_active),
                             l \in {{}} \cup {{p} : p \in lsq}}

\* The answers R can give, as the completions of RobRename.
Answers(R) ==
  {d \in [{p.idx : p \in R} -> Outcomes] :
     \A p \in R : /\ d[p.idx] \in OutcomesOf(p.op)
                  /\ p \in lsq /\ ~LsuMayFinish(p) => d[p.idx] = "exp"}

-----------------------------------------------------------------------------
(* Selection.                                                              *)

\* Plausible slips: the level is off by one, either way.
AlmostFullLate(q, depth) == Len(q) >= depth
AlmostFullEarly(q, depth) == Len(q) >= depth - 2

almost_full(q, depth) == Len(q) >= depth - 1

\* The registers cleared in the available table by this cycle's allocations.
Allocated(p, dec) == \/ do_rob_write_first(dec) /\ p = prd_first(dec)
                     \/ do_rob_write_second(dec) /\ p = prd_second(dec)

\* A plausible slip: the write-backs of this cycle also cover a register that
\* was only just allocated, because the allocation is not masked out.
RealAvailableStale(p, R, dec) ==
  available_table[p] \/ (p # 0 /\ \E r \in R : r.prd = p)

real_available(p, R, dec) ==
  \/ available_table[p] /\ ~Allocated(p, dec)
  \/ p # 0 /\ \E r \in R : r.prd = p

\* p0 is allocated, in this sense, by every instruction without a destination;
\* the source p0 is then not available for one cycle.
SourcesReady(prs1, prs2, R, dec) ==
  real_available(prs1, R, dec) /\ real_available(prs2, R, dec)

HasRoom(i) ==
  /\ ~(IsMem(i) /\ almost_full(lsuq, LSU_QUEUE_DEPTH))
  /\ ~(IsMd(i) /\ almost_full(mdq, MD_QUEUE_DEPTH))

\* A plausible slip: a CSR access need not be the oldest instruction.
RobSelectReadyCsrEarly(s, R, dec) ==
  /\ rob_used[s]
  /\ ~rob_selected[s]
  /\ SourcesReady(rob_prs1[s], rob_prs2[s], R, dec)
  /\ HasRoom(rob_op[s])
  /\ ~rob_exp[s]
  /\ ~Returns(rob_op[s])

rob_select_ready(s, R, dec) ==
  /\ rob_used[s]
  /\ ~rob_selected[s]
  /\ SourcesReady(rob_prs1[s], rob_prs2[s], R, dec)
  /\ HasRoom(rob_op[s])
  /\ IsCsr(rob_op[s]) => cmt_rob_index = s
  /\ ~rob_exp[s]
  /\ ~Returns(rob_op[s])

prs_first(dec, r) == rename_reg[r]

\* A plausible slip: the second instruction reads the rename table only.
PrsSecondNotForwarded(dec, r) == rename_reg[r]

prs_second(dec, r) == SecondMapping(dec, r)

\* An instruction issued in the cycle in which it is allocated.
bypass_ready(k, R, dec) ==
  IF k = 1
  THEN /\ do_rob_write_first(dec)
       /\ SourcesReady(prs_first(dec, dec[1].rs1), prs_first(dec, dec[1].rs2), R, dec)
       /\ HasRoom(dec[1])
       /\ IsCsr(dec[1]) => cmt_rob_index = wr_rob_index
       /\ ~Skipped(dec[1])
  ELSE /\ do_rob_write_second(dec)
       /\ SourcesReady(prs_second(dec, dec[2].rs1), prs_second(dec, dec[2].rs2), R, dec)
       /\ HasRoom(dec[2])
       /\ IsCsr(dec[2]) => cmt_rob_index = wr_rob_index_second
       /\ ~Skipped(dec[2])

\* A plausible slip: loads are not kept in order.
RobOpLsStoresOnly(s) ==
  (rob_op[s].op = "store" \/ IsCsr(rob_op[s])) /\ ~rob_selected[s]

\* The load/store flags of the entries do not look at rob_used: a freed entry
\* keeps its flag until it is reused.  Those of new instructions leave out CSR
\* accesses.
rob_op_ls(s) == (IsMem(rob_op[s]) \/ IsCsr(rob_op[s])) /\ ~rob_selected[s]

ArbiterInput(R, dec) ==
  [prio |-> cmt_rob_index,
   req |-> [s \in Slots |-> rob_select_ready(s, R, dec)],
   req_ls |-> [s \in Slots |-> rob_op_ls(s)],
   new_req |-> <<bypass_ready(1, R, dec), bypass_ready(2, R, dec)>>,
   new_req_ls |-> <<Len(dec) >= 1 /\ IsMem(dec[1]), Len(dec) >= 2 /\ IsMem(dec[2])>>]

\* What the granted age issues: slot, destination, class.
RequestOfAge(dec, j) ==
  IF j < ROB_SIZE
  THEN LET s == Arb!EntryOfAge(cmt_rob_index, j)
       IN [idx |-> s, prd |-> rob_prd[s], op |-> rob_op[s].op]
  ELSE IF j = ROB_SIZE
  THEN [idx |-> wr_rob_index, prd |-> prd_first(dec), op |-> dec[1].op]
  ELSE [idx |-> wr_rob_index_second, prd |-> prd_second(dec), op |-> dec[2].op]

\* The requests on the issue ports: the first valid grant goes to port one, the
\* last to port two, and port two is valid when the number of grants is even.
Ports(R, dec) ==
  LET g == Arb!TwoOldest(ArbiterInput(R, dec))
  IN IF g = << >> THEN << >>
     ELSE IF Len(g) % 2 = 1 THEN <<RequestOfAge(dec, g[1])>>
     ELSE <<RequestOfAge(dec, g[1]), RequestOfAge(dec, g[Len(g)])>>

-----------------------------------------------------------------------------
(* Issue: the registers and queues after the edge.                          *)

\* A queue after an edge: its head leaves if `taken', and the requests that come
\* from the two ports enter, both if there was room for both before the edge,
\* the first one if there was room for one.
NextQueue(q, depth, reqs, taken) ==
  (IF taken THEN Tail(q) ELSE q)
    \o SubSeq(reqs, 1, IF Len(reqs) = 2 /\ Len(q) < depth - 1 THEN 2
                        ELSE IF Len(reqs) >= 1 /\ Len(q) < depth THEN 1 ELSE 0)

\* Whether the load/store unit takes the head of the queue is its own choice; it
\* cannot when there is nothing to take or no place to put it.  A request that
\* leaves in this cycle makes place.
LsuHandshakes(R) ==
  IF lsuq # << >> /\ Cardinality(lsq \ R) < LSQ_DEPTH THEN BOOLEAN ELSE {FALSE}

\* The request on port k if there is one and it is for one of the operations ops;
\* those of both ports, the first one first.
FromPort(ports, k, ops) ==
  IF k <= Len(ports) /\ ports[k].op \in ops THEN <<ports[k]>> ELSE << >>
FromPorts(ports, ops) == FromPort(ports, 1, ops) \o FromPort(ports, 2, ops)

AdvanceSelected(ports) ==
  rob_selected' = [s \in Slots |->
     /\ s \notin Committing
     /\ rob_selected[s] \/ s \in {p.idx : p \in Range(ports)}]

AdvanceSources(dec) ==
  /\ rob_prs1' = Allocate(rob_prs1, dec, prs_first(dec, dec[1].rs1),
                                         prs_second(dec, dec[2].rs1))
  /\ rob_prs2' = Allocate(rob_prs2, dec, prs_first(dec, dec[1].rs2),
                                         prs_second(dec, dec[2].rs2))

AdvanceAvailable(R, dec) ==
  available_table' = [p \in PRegs |->
     IF Allocated(p, dec) THEN p = 0
     ELSE available_table[p] \/ \E r \in R : r.prd = p]

AdvanceAlus(ports) ==
  /\ alu1' = FromPort(ports, 1, AluOps \ CsrOps)
  /\ alu2' = FromPort(ports, 2, AluOps)

AdvanceCsru(ports) == csru' = FromPort(ports, 1, CsrOps)

AdvanceMd(R, ports) ==
  LET md_takes == md_active = << >> /\ mdq # << >>
  IN /\ mdq' = NextQueue(mdq, MD_QUEUE_DEPTH, FromPorts(ports, MdOps), md_takes)
     /\ md_active' = IF md_takes THEN <<Head(mdq)>>
                     ELSE IF Range(md_active) \subseteq R THEN << >> ELSE md_active

AdvanceLsu(R, ports, lsu_takes) ==
  /\ lsuq' = NextQueue(lsuq, LSU_QUEUE_DEPTH, FromPorts(ports, MemOps), lsu_takes)
  /\ lsq' = (lsq \ R) \cup (IF lsu_takes THEN {Head(lsuq)} ELSE {})

AdvanceIssue(R, dec, lsu_takes) ==
  LET ports == Ports(R, dec)
  IN /\ AdvanceSelected(ports)
     /\ AdvanceSources(dec)
     /\ AdvanceAvailable(R, dec)
     /\ AdvanceAlus(ports)
     /\ AdvanceCsru(ports)
     /\ AdvanceMd(R, ports)
     /\ AdvanceLsu(R, ports, lsu_takes)

\* A plausible slip: the trap does not reach the multiplier/divider.
FlushIssueKeepsMd ==
  /\ rob_selected' = [s \in Slots |-> FALSE]
  /\ available_table' = [p \in PRegs |->
        available_table[p] \/ p \in {r.prd : r \in Range(csru)}]
  /\ alu1' = << >> /\ alu2' = << >> /\ csru' = << >>
  /\ mdq' = << >> /\ lsuq' = << >> /\ lsq' = {}
  /\ UNCHANGED <<rob_prs1, rob_prs2, md_active>>

\* A speculation fault empties every register, queue and unit.  Only the CSR
\* unit does not look at the fault: an access in flight still writes back.
FlushIssue ==
  /\ rob_selected' = [s \in Slots |-> FALSE]
  /\ available_table' = [p \in PRegs |->
        available_table[p] \/ p \in {r.prd : r \in Range(csru)}]
  /\ alu1' = << >> /\ alu2' = << >> /\ csru' = << >>
  /\ mdq' = << >> /\ lsuq' = << >>
  /\ md_active' = << >> /\ lsq' = {}
  /\ UNCHANGED <<rob_prs1, rob_prs2>>

-----------------------------------------------------------------------------
RcuInit ==
  /\ RobInit
  /\ rob_selected = [s \in Slots |-> FALSE]
  /\ rob_prs1 = [s \in Slots |-> 0]
  /\ rob_prs2 = [s \in Slots |-> 0]
  /\ available_table = [p \in PRegs |-> p = 0]
  /\ alu1 = << >> /\ alu2 = << >> /\ csru = << >>
  /\ mdq = << >> /\ lsuq = << >>
  /\ md_active = << >> /\ lsq = {}

\* A fault raised at commit, or an interrupt, which may come in any cycle.
RcuFlush == Flush /\ FlushIssue

RcuAdvance(R, dec, lsu_takes) ==
  /\ ~CommitFault
  /\ AdvanceIssue(R, dec, lsu_takes)
  /\ \E done \in Answers(R) : Advance(dec, done)

RcuNext ==
  \/ RcuFlush
  \/ \E R \in Responding, dec \in DecodeWindows : \E lsu_takes \in LsuHandshakes(R) :
       RcuAdvance(R, dec, lsu_takes)

RcuSpec == RcuInit /\ [][RcuNext]_rcuVars

-----------------------------------------------------------------------------
(* What is checked.                                                        *)

Requests == [idx : Slots, prd : PRegs, op : {i.op : i \in Insns}]

\* The type invariant: what every register, queue and unit of the RCU can hold.
RcuTypeOK ==
  /\ RobTypeOK
  /\ rob_selected \in [Slots -> BOOLEAN]
  /\ rob_prs1 \in [Slots -> PRegs]
  /\ rob_prs2 \in [Slots -> PRegs]
  /\ available_table \in [PRegs -> BOOLEAN]
  /\ Range(alu1) \cup Range(alu2) \cup Range(csru) \subseteq Requests
  /\ Range(mdq) \cup Range(lsuq) \cup Range(md_active) \cup lsq \subseteq Requests
  /\ Len(alu1) <= 1 /\ Len(alu2) <= 1 /\ Len(csru) <= 1 /\ Len(md_active) <= 1
  /\ Len(mdq) <= MD_QUEUE_DEPTH /\ Len(lsuq) <= LSU_QUEUE_DEPTH

\* The requests for slot s that are queued or in a unit, with their place.
Outstanding(s) ==
  {<<1, p>> : p \in {q \in Range(alu1) : q.idx = s}}
    \cup {<<2, p>> : p \in {q \in Range(alu2) : q.idx = s}}
    \cup {<<3, p>> : p \in {q \in Range(csru) : q.idx = s}}
    \cup {<<4, p>> : p \in {q \in Range(md_active) : q.idx = s}}
    \cup {<<5, p>> : p \in {q \in lsq : q.idx = s}}
    \cup {<<6, i>> : i \in {k \in DOMAIN mdq : mdq[k].idx = s}}
    \cup {<<7, i>> : i \in {k \in DOMAIN lsuq : lsuq[k].idx = s}}

\* An entry that was issued and has not finished has exactly one request on its
\* way: the port multiplexing, the queues' gating and the almost-full tests
\* neither drop nor double an issue.  Every other entry has none, and a request
\* carries the destination of its entry: no unit can answer for an entry that
\* was squashed, freed or reused, or mark another instruction's register.
IssuedExactlyOnce ==
  /\ \A s \in Slots :
       Cardinality(Outstanding(s)) =
         IF rob_used[s] /\ rob_selected[s] /\ ~rob_finish[s] THEN 1 ELSE 0
  /\ \A p \in Units \cup Range(mdq) \cup Range(lsuq) :
       p.prd = rob_prd[p.idx] /\ p.op = rob_op[p.idx].op

\* The sources of an entry are the mappings left by the instructions older than
\* it, also for the second instruction of a window and after older ones commit:
\* an instruction reads its true producers.
SourcesFollowProgramOrder ==
  \A s \in InFlight :
    /\ rob_prs1[s] = MappingAfter(rob_op[s].rs1, Older(s))
    /\ rob_prs2[s] = MappingAfter(rob_op[s].rs2, Older(s))

\* An entry is issued only when the producers of its sources have finished, and as
\* long as it is in flight its sources stay marked as available, so that none of
\* them is allocated again: the available table, which is cleared at allocation,
\* set at write-back and never touched by a rollback, is never stale when it is
\* used.
IssuedWithOperands ==
  \A s \in InFlight :
    rob_selected[s] /\ ~Skipped(rob_op[s]) =>
      \A p \in {rob_prs1[s], rob_prs2[s]} \ {0} :
        /\ available_table[p]
        /\ \A t \in InFlight : rob_prd[t] = p => rob_finish[t]

\* Loads and stores leave the ROB in program order: none is issued before an
\* older one, and the load/store queue holds them oldest first.
MemoryIssuedInOrder ==
  /\ \A s, t \in InFlight :
       /\ IsMem(rob_op[s]) /\ IsMem(rob_op[t])
       /\ Pos(t) < Pos(s) /\ rob_selected[s]
       => rob_selected[t]
  /\ \A i, j \in DOMAIN lsuq : i < j => Pos(lsuq[i].idx) < Pos(lsuq[j].idx)

\* A CSR access takes effect only as the oldest instruction, and never in a
\* cycle in which the commit logic discovers that it is on a wrong path (only
\* an interrupt can squash it there).
CsrNotSpeculative ==
  csru # << >> => csru[1].idx = cmt_rob_index /\ ~CommitFault

\* What rcu_spec.md states of the issue policy: an entry that is a return or a
\* wfi is not issued.
NoWfiIssued ==
  \A s \in InFlight : rob_selected[s] => rob_op[s].op \notin {"mret", "sret", "wfi"}
=============================================================================
