------------------------------ MODULE RobRename ------------------------------
(***************************************************************************)
(* Allocation, renaming, write-back, commit and rollback in the RCU: the    *)
(* reorder buffer's control bits, the rename table and its committed backup, *)
(* and the free list.  One step is one clock edge.  Which instructions        *)
(* complete in a cycle, and how, is an input here (`done'); module Rcu        *)
(* computes it from the issue logic and the functional units.                *)
(***************************************************************************)
EXTENDS FreeList, FiniteSets

CONSTANTS
  ROB_SIZE,   \* entries of the reorder buffer
  AREGS,      \* architectural registers, x0 included
  Insns       \* decoded instructions: records with at least the fields
              \* op, exception, uses_rd, rd

Slots == 0..(ROB_SIZE - 1)
ARegs == 0..(AREGS - 1)
PRegs == 0..FRLIST_DEPTH       \* p0 is the constant zero and never free

\* params.vh sizes the free list as the 31 renamable registers plus one per
\* reorder buffer entry.
ASSUME RobAssumption ==
  /\ ROB_SIZE \in Nat /\ ROB_SIZE >= 2
  /\ AREGS \in Nat /\ AREGS >= 2
  /\ FRLIST_DEPTH = AREGS - 1 + ROB_SIZE

ASSUME InsnAssumption ==
  \A i \in Insns : /\ i.rd \in ARegs
                   /\ i.uses_rd \in BOOLEAN
                   /\ i.exception \in BOOLEAN

VARIABLES
  rob_used, rob_finish, rob_exp, rob_predict_miss,
  rob_op,              \* the decode fields of an entry (rob_op_*)
  rob_rd, rob_prd, rob_lprd,
  wr_rob_index, cmt_rob_index,
  rename_reg, rename_reg_backup,
  dff_cmt_miss_delay   \* a mispredicted jump committed in the last cycle

robVars == <<rob_used, rob_finish, rob_exp, rob_predict_miss, rob_op, rob_rd,
             rob_prd, rob_lprd, wr_rob_index, cmt_rob_index, rename_reg,
             rename_reg_backup, dff_cmt_miss_delay, flVars>>

-----------------------------------------------------------------------------
(* Commit control.                                                         *)

Returns(i) == i.op \in {"mret", "sret"}

wr_rob_index_second == CntNext(wr_rob_index, ROB_SIZE)
cmt_rob_index_second == CntNext(cmt_rob_index, ROB_SIZE)

do_rob_commit_first ==
  /\ rob_used[cmt_rob_index]
  /\ rob_finish[cmt_rob_index]
  /\ ~dff_cmt_miss_delay

\* A plausible slip: the younger instruction's commit forgets that the older
\* one was mispredicted.
CommitSecondIgnoresMiss ==
  /\ do_rob_commit_first
  /\ rob_used[cmt_rob_index_second]
  /\ rob_finish[cmt_rob_index_second]
  /\ ~rob_predict_miss[cmt_rob_index_second]
  /\ \A s \in {cmt_rob_index, cmt_rob_index_second} :
       ~rob_exp[s] /\ ~Returns(rob_op[s]) /\ rob_op[s].op # "wfi"

do_rob_commit_second ==
  /\ do_rob_commit_first
  /\ rob_used[cmt_rob_index_second]
  /\ rob_finish[cmt_rob_index_second]
  /\ \A s \in {cmt_rob_index, cmt_rob_index_second} :
       /\ ~rob_predict_miss[s]
       /\ ~rob_exp[s]
       /\ ~Returns(rob_op[s])
       /\ rob_op[s].op # "wfi"

\* The entries that commit in this cycle.
Committing ==
  {s \in Slots : \/ do_rob_commit_first /\ s = cmt_rob_index
                 \/ do_rob_commit_second /\ s = cmt_rob_index_second}

\* A mispredicted branch, or any other mispredicted instruction that is not a
\* jump, at the head.
cmt_miss == rob_op[cmt_rob_index].op # "jump" /\ rob_predict_miss[cmt_rob_index]

predict_miss_o == dff_cmt_miss_delay \/ cmt_miss

\* The part of excep_ctrl that looks at the head: an exception or a return
\* commits.  (Its third output, global_wfi_o, is the constant 0.)
exception == do_rob_commit_first /\ rob_exp[cmt_rob_index]
global_ret_o == do_rob_commit_first /\ Returns(rob_op[cmt_rob_index])

\* global_speculate_fault, as far as it comes from the ROB itself; the rest is
\* an interrupt.
CommitFault == exception \/ global_ret_o \/ predict_miss_o

-----------------------------------------------------------------------------
(* Allocation and renaming of the decode window, a sequence of at most two   *)
(* instructions.                                                           *)

do_rob_write_first(dec) == Len(dec) >= 1 /\ ~rob_used[wr_rob_index]
do_rob_write_second(dec) == Len(dec) >= 2 /\ ~rob_used[wr_rob_index_second]

\* The instruction is written and finishes without being executed.
Skipped(i) == i.exception \/ Returns(i) \/ i.op = "wfi"

Renames(i) == i.uses_rd /\ i.rd # 0

free_list_rd_first_en(dec) == do_rob_write_first(dec) /\ Renames(dec[1])
free_list_rd_second_en(dec) == do_rob_write_second(dec) /\ Renames(dec[2])

prd_first(dec) == IF free_list_rd_first_en(dec) THEN FlRdataFirst ELSE 0
prd_second(dec) ==
  IF free_list_rd_second_en(dec)
  THEN FlRdataSecond(free_list_rd_first_en(dec)) ELSE 0

\* What the second instruction of the window sees as the mapping of r: the
\* first one's new register if that one writes r.
SecondMapping(dec, r) ==
  IF r = dec[1].rd /\ dec[1].uses_rd THEN prd_first(dec) ELSE rename_reg[r]

lprd_first(dec) == IF dec[1].uses_rd THEN rename_reg[dec[1].rd] ELSE 0

\* A plausible slip: no forwarding inside the window.
LprdSecondNotForwarded(dec) ==
  IF dec[2].uses_rd THEN rename_reg[dec[2].rd] ELSE 0

lprd_second(dec) ==
  IF dec[2].uses_rd THEN SecondMapping(dec, dec[2].rd) ELSE 0

\* f with the entries allocated in this cycle set to v1 and v2.
Allocate(f, dec, v1, v2) ==
  [s \in Slots |->
     IF do_rob_write_second(dec) /\ s = wr_rob_index_second THEN v2
     ELSE IF do_rob_write_first(dec) /\ s = wr_rob_index THEN v1
     ELSE f[s]]

\* The slots among the allocated ones that skip execution.
SkippedSlots(dec) ==
  {s \in Slots :
     \/ do_rob_write_first(dec) /\ s = wr_rob_index /\ Skipped(dec[1])
     \/ do_rob_write_second(dec) /\ s = wr_rob_index_second /\ Skipped(dec[2])}

RdOf(i) == IF i.uses_rd THEN i.rd ELSE 0

-----------------------------------------------------------------------------
(* A clock edge with a speculation fault: trap, return or misprediction.     *)

\* A plausible slip: the rename table is not restored.
FlushKeepsRename ==
  /\ rob_used' = [s \in Slots |-> FALSE]
  /\ rob_finish' = [s \in Slots |-> FALSE]
  /\ rob_exp' = [s \in Slots |-> FALSE]
  /\ rob_predict_miss' = [s \in Slots |-> FALSE]
  /\ wr_rob_index' = 0
  /\ cmt_rob_index' = 0
  /\ dff_cmt_miss_delay' = FALSE
  /\ FreeListRollback
  /\ UNCHANGED <<rob_op, rob_rd, rob_prd, rob_lprd, rename_reg,
                 rename_reg_backup>>

Flush ==
  /\ rob_used' = [s \in Slots |-> FALSE]
  /\ rob_finish' = [s \in Slots |-> FALSE]
  /\ rob_exp' = [s \in Slots |-> FALSE]
  /\ rob_predict_miss' = [s \in Slots |-> FALSE]
  /\ wr_rob_index' = 0
  /\ cmt_rob_index' = 0
  /\ dff_cmt_miss_delay' = FALSE
  /\ rename_reg' = rename_reg_backup
  /\ FreeListRollback
  /\ UNCHANGED <<rob_op, rob_rd, rob_prd, rob_lprd, rename_reg_backup>>

-----------------------------------------------------------------------------
(* A clock edge without fault.  `done' maps the entries whose functional     *)
(* unit answers in this cycle to the outcome: "ok", "miss" (mispredicted) or *)
(* "exp" (exception).                                                       *)

Outcomes == {"ok", "miss", "exp"}

Done(done, s, o) == s \in DOMAIN done /\ done[s] = o

AdvanceUsed(dec) ==
  rob_used' = [s \in Slots |->
     s \notin Committing /\ Allocate(rob_used, dec, TRUE, TRUE)[s]]

AdvanceFinish(dec, done) ==
  rob_finish' = [s \in Slots |->
     \/ s \in SkippedSlots(dec)
     \/ s \notin Committing /\ (rob_finish[s] \/ s \in DOMAIN done)]

\* A commit does not clear the exception bit; the next allocation does.
AdvanceExp(dec, done) ==
  rob_exp' = [s \in Slots |->
     \/ Done(done, s, "exp")
     \/ Allocate(rob_exp, dec, dec[1].exception, dec[2].exception)[s]]

AdvanceMiss(done) ==
  rob_predict_miss' = [s \in Slots |->
     s \notin Committing /\ (rob_predict_miss[s] \/ Done(done, s, "miss"))]

AdvanceEntry(dec) ==
  /\ rob_op' = Allocate(rob_op, dec, dec[1], dec[2])
  /\ rob_rd' = Allocate(rob_rd, dec, RdOf(dec[1]), RdOf(dec[2]))
  /\ rob_prd' = Allocate(rob_prd, dec, prd_first(dec), prd_second(dec))
  /\ rob_lprd' = Allocate(rob_lprd, dec, lprd_first(dec), lprd_second(dec))

AdvanceWriteIndex(dec) ==
  wr_rob_index' =
    CntAdd(wr_rob_index,
           Ones(do_rob_write_first(dec), do_rob_write_second(dec)), ROB_SIZE)

AdvanceCommitIndex ==
  cmt_rob_index' =
    CntAdd(cmt_rob_index,
           Ones(do_rob_commit_first, do_rob_commit_second), ROB_SIZE)

AdvanceRob(dec, done) ==
  /\ AdvanceUsed(dec)
  /\ AdvanceFinish(dec, done)
  /\ AdvanceExp(dec, done)
  /\ AdvanceMiss(done)
  /\ AdvanceEntry(dec)
  /\ AdvanceWriteIndex(dec)
  /\ AdvanceCommitIndex

\* rename_reg: the youngest allocation of a register wins.
AdvanceRename(dec) ==
  rename_reg' = [r \in ARegs |->
     IF free_list_rd_second_en(dec) /\ r = dec[2].rd THEN prd_second(dec)
     ELSE IF free_list_rd_first_en(dec) /\ r = dec[1].rd THEN prd_first(dec)
     ELSE rename_reg[r]]

\* rename_reg_backup: the younger of two commits wins.
AdvanceBackup ==
  rename_reg_backup' = [r \in ARegs |->
     IF do_rob_commit_second /\ r = rob_rd[cmt_rob_index_second]
     THEN rob_prd[cmt_rob_index_second]
     ELSE IF do_rob_commit_first /\ r = rob_rd[cmt_rob_index]
     THEN rob_prd[cmt_rob_index]
     ELSE rename_reg_backup[r]]

\* A plausible slip: the second commit frees nothing when both free a register.
FreedRegsFirstOnly ==
  IF do_rob_commit_first /\ rob_lprd[cmt_rob_index] # 0
  THEN <<rob_lprd[cmt_rob_index]>>
  ELSE IF do_rob_commit_second /\ rob_lprd[cmt_rob_index_second] # 0
  THEN <<rob_lprd[cmt_rob_index_second]>>
  ELSE << >>

\* The registers the committing entries overwrite, first entry first.
FreedRegs ==
  LET Freed(do, s) == IF do /\ rob_lprd[s] # 0 THEN <<rob_lprd[s]>> ELSE << >>
  IN Freed(do_rob_commit_first, cmt_rob_index)
       \o Freed(do_rob_commit_second, cmt_rob_index_second)

\* A plausible slip: the slow pointer moves for every commit, also one without
\* a destination.
AdvanceFreeListSlowAlways(dec) ==
  FreeListClock(
    FreedRegs,
    Ones(free_list_rd_first_en(dec), free_list_rd_second_en(dec)),
    Ones(do_rob_commit_first, do_rob_commit_second))

AdvanceFreeList(dec) ==
  FreeListClock(
    FreedRegs,
    Ones(free_list_rd_first_en(dec), free_list_rd_second_en(dec)),
    Ones(do_rob_commit_first /\ rob_prd[cmt_rob_index] # 0,
         do_rob_commit_second /\ rob_prd[cmt_rob_index_second] # 0))

\* dff_cmt_jump and dff_predict_miss, registered together.
AdvanceMissDelay ==
  dff_cmt_miss_delay' =
    (rob_op[cmt_rob_index].op = "jump" /\ rob_predict_miss[cmt_rob_index])

Advance(dec, done) ==
  /\ AdvanceRob(dec, done)
  /\ AdvanceRename(dec)
  /\ AdvanceBackup
  /\ AdvanceFreeList(dec)
  /\ AdvanceMissDelay

-----------------------------------------------------------------------------
(* rob_op, rob_rd, rob_prd and rob_lprd have no reset in the code; nothing   *)
(* here reads them for an entry that is not in use.                          *)
RobInit ==
  /\ rob_used = [s \in Slots |-> FALSE]
  /\ rob_finish = [s \in Slots |-> FALSE]
  /\ rob_exp = [s \in Slots |-> FALSE]
  /\ rob_predict_miss = [s \in Slots |-> FALSE]
  /\ rob_op \in [Slots -> Insns]
  /\ rob_rd = [s \in Slots |-> 0]
  /\ rob_prd = [s \in Slots |-> 0]
  /\ rob_lprd = [s \in Slots |-> 0]
  /\ wr_rob_index = 0
  /\ cmt_rob_index = 0
  /\ rename_reg = [r \in ARegs |-> 0]
  /\ rename_reg_backup = [r \in ARegs |-> 0]
  /\ dff_cmt_miss_delay = FALSE
  /\ FreeListInit

DecodeWindows == {<< >>} \cup {<<i>> : i \in Insns} \cup (Insns \X Insns)

\* A functional unit only ever answers for an entry it was given and has not
\* answered for yet (module Rcu shows that the units do this).
Completions ==
  UNION {[D -> Outcomes] : D \in SUBSET {s \in Slots : rob_used[s] /\ ~rob_finish[s]}}

\* An interrupt may flush in any cycle; the ROB's own faults must flush.
RobNext ==
  \/ Flush
  \/ /\ ~CommitFault
     /\ \E dec \in DecodeWindows, done \in Completions : Advance(dec, done)

RobSpec == RobInit /\ [][RobNext]_robVars

-----------------------------------------------------------------------------
(* Program order.  Pos(s) is the age of slot s, 0 for the head.              *)

Pos(s) == IF s >= cmt_rob_index THEN s - cmt_rob_index
                                ELSE s - cmt_rob_index + ROB_SIZE

InFlight == {s \in Slots : rob_used[s]}
Writers(r) == {s \in InFlight : rob_rd[s] = r /\ rob_prd[s] # 0}
Older(s) == {t \in InFlight : Pos(t) < Pos(s)}
Youngest(S) == CHOOSE s \in S : \A t \in S : Pos(t) <= Pos(s)

\* The mapping of r that instructions in S, all in flight, leave behind.
MappingAfter(r, S) ==
  IF S \cap Writers(r) = {} THEN rename_reg_backup[r]
  ELSE rob_prd[Youngest(S \cap Writers(r))]

\* How many instructions a decode FIFO holding n hands over in this cycle, and
\* how many the ROB takes: two sides computed by two modules from the same
\* ready bits.
DecodePops(n) ==
  LET ready1 == ~rob_used[wr_rob_index]
      ready2 == ~rob_used[wr_rob_index_second]
  IN Ones((ready1 \/ ready2) /\ n > 0, ready1 /\ ready2 /\ n > 1)
RobTakes(n) ==
  Ones(n >= 1 /\ ~rob_used[wr_rob_index], n >= 2 /\ ~rob_used[wr_rob_index_second])

-----------------------------------------------------------------------------
(* What is checked.                                                        *)

\* The type invariant of the reorder buffer, rename tables and free list.
RobTypeOK ==
  /\ rob_used \in [Slots -> BOOLEAN]
  /\ rob_finish \in [Slots -> BOOLEAN]
  /\ rob_exp \in [Slots -> BOOLEAN]
  /\ rob_predict_miss \in [Slots -> BOOLEAN]
  /\ rob_op \in [Slots -> Insns]
  /\ rob_rd \in [Slots -> ARegs]
  /\ rob_prd \in [Slots -> PRegs]
  /\ rob_lprd \in [Slots -> PRegs]
  /\ wr_rob_index \in Slots
  /\ cmt_rob_index \in Slots
  /\ rename_reg \in [ARegs -> PRegs]
  /\ rename_reg_backup \in [ARegs -> PRegs]
  /\ dff_cmt_miss_delay \in BOOLEAN
  /\ fl_queue \in [FlLines -> PRegs]
  /\ fl_wr_line \in FlLines
  /\ fl_rd_line \in FlLines
  /\ fl_rd_excep_line \in FlLines
  /\ fl_recount \in BOOLEAN
  /\ fl_recount_fault \in BOOLEAN

\* The entries in use are exactly those from the commit index up to the write
\* index: rob_used, written by two allocation and two commit ports, stays one
\* circular interval (rcu.sv, "rob use signal").
RobContiguous ==
  /\ cmt_rob_index < wr_rob_index =>
       \A s \in Slots : rob_used[s] <=> (cmt_rob_index <= s /\ s < wr_rob_index)
  /\ wr_rob_index < cmt_rob_index =>
       \A s \in Slots : rob_used[s] <=> (s < wr_rob_index \/ cmt_rob_index <= s)
  /\ wr_rob_index = cmt_rob_index =>
       \A s \in Slots : rob_used[s] <=> rob_used[cmt_rob_index]

\* The decode FIFO removes exactly the instructions the ROB writes.  The ROB
\* does not look at the first write when it decides the second
\* (do_rob_write_second), and the FIFO pops by its own reading of the two ready
\* bits, so an instruction could be written twice or lost if only the second
\* slot were free.
HandshakeAgrees == \A n \in 0..2 : DecodePops(n) = RobTakes(n)

\* rename_reg is the committed mapping updated by the instructions in flight,
\* in program order, and the register an entry will free at commit (rob_lprd)
\* is the mapping left by the instructions older than it.
RenameFollowsProgramOrder ==
  /\ \A r \in ARegs : rename_reg[r] = MappingAfter(r, InFlight)
  /\ \A s \in InFlight :
       rob_prd[s] # 0 => rob_lprd[s] = MappingAfter(rob_rd[s], Older(s))

\* The registers in the free list, those allocated to instructions in flight
\* and those of the committed mapping.
FreeNum == FlNum(fl_rd_line, fl_recount)
FreeRegs == {fl_queue[FlLine(fl_rd_line, i)] : i \in 0..(FreeNum - 1)}
InFlightRegs == {rob_prd[s] : s \in InFlight} \ {0}
CommittedRegs == {rename_reg_backup[r] : r \in ARegs} \ {0}

\* No physical register is lost, duplicated or owned twice: the free list, the
\* instructions in flight and the committed mapping partition p1..pN.
PhysicalRegistersConserved ==
  /\ FreeRegs \cup InFlightRegs \cup CommittedRegs = 1..FRLIST_DEPTH
  /\ FreeNum + Cardinality({s \in InFlight : rob_prd[s] # 0})
       + Cardinality({r \in ARegs : rename_reg_backup[r] # 0}) = FRLIST_DEPTH

\* The lines between the slow and the fast read pointer hold the registers of
\* the instructions in flight, in program order: moving the fast pointer back
\* to the slow one takes back exactly the registers of squashed instructions.
RollbackWindow ==
  LET Alloc == {s \in InFlight : rob_prd[s] # 0}
      Rank(s) == Cardinality({t \in Alloc : Pos(t) < Pos(s)})
  IN /\ FlNum(fl_rd_excep_line, fl_recount_fault) = FreeNum + Cardinality(Alloc)
     /\ \A s \in Alloc : rob_prd[s] = fl_queue[FlLine(fl_rd_excep_line, Rank(s))]

\* There is a free register for every free ROB entry, so that renaming, which
\* never looks at free_list_empty, never reads an empty list.
FreeListNeverUnderflows ==
  FreeNum >= ROB_SIZE - Cardinality(InFlight)

\* A mapping becomes architectural only when its instruction and all older ones
\* have finished without exception and are not returns, none of the older ones
\* was mispredicted, and the instruction itself was mispredicted only if it is
\* a jump; never in the cycle after a mispredicted jump committed.
CommitIsPrecise ==
  \A r \in ARegs :
    rename_reg_backup'[r] # rename_reg_backup[r] =>
      /\ ~dff_cmt_miss_delay
      /\ \E s \in InFlight :
           /\ rob_rd[s] = r /\ rob_prd[s] = rename_reg_backup'[r]
           /\ rob_predict_miss[s] => rob_op[s].op = "jump"
           /\ \A t \in Older(s) : ~rob_predict_miss[t]
           /\ \A t \in Older(s) \cup {s} :
                rob_finish[t] /\ ~rob_exp[t] /\ ~Returns(rob_op[t])

\* Every step commits precisely (rcu.sv, the commit ports and the backup table).
PreciseCommit == [][CommitIsPrecise]_robVars
=============================================================================
