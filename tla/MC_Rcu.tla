------------------------------- MODULE MC_Rcu -------------------------------
(***************************************************************************)
(* Instances of Rcu.                                                        *)
(***************************************************************************)
EXTENDS Rcu

Insn(op, rd, rs1) ==
  [op |-> op, exception |-> FALSE, uses_rd |-> rd # 0, rd |-> rd,
   rs1 |-> rs1, rs2 |-> 0]

\* Every unit.
InsnsUnits ==
  {Insn("alu", 1, 1), Insn("jump", 1, 0), Insn("md", 1, 1),
   Insn("load", 1, 1), Insn("store", 0, 1), Insn("csr", 1, 0)}

\* The instructions that wait in queues.
InsnsQueued == {Insn("md", 1, 0), Insn("load", 1, 0), Insn("store", 0, 1)}

\* With a wfi.
InsnsWfi == {Insn("alu", 1, 1), Insn("load", 1, 0), Insn("wfi", 0, 0)}

\* The free list lines that can still be read.
LiveLine(l) ==
  LET d == IF l >= fl_rd_excep_line THEN l - fl_rd_excep_line
                                    ELSE l - fl_rd_excep_line + FRLIST_DEPTH
  IN d < FlNum(fl_rd_excep_line, fl_recount_fault)

\* The load/store flag of a freed entry is still read by the arbiter; its other
\* fields are not.
EntryView(s) ==
  IF rob_used[s]
  THEN <<rob_op[s], rob_rd[s], rob_prd[s], rob_lprd[s], rob_prs1[s], rob_prs2[s],
         rob_selected[s], rob_finish[s], rob_exp[s], rob_predict_miss[s]>>
  ELSE <<IsMem(rob_op[s]) \/ IsCsr(rob_op[s]), rob_selected[s], rob_finish[s],
         rob_exp[s], rob_predict_miss[s]>>

View ==
  <<[s \in Slots |-> EntryView(s)],
    wr_rob_index, cmt_rob_index, rename_reg, rename_reg_backup,
    dff_cmt_miss_delay,
    [l \in FlLines |-> IF LiveLine(l) THEN fl_queue[l] ELSE 0],
    fl_wr_line, fl_rd_line, fl_rd_excep_line, fl_recount, fl_recount_fault,
    [p \in PRegs |-> available_table[p]],
    alu1, alu2, csru, mdq, lsuq, md_active, lsq>>
=============================================================================
