---------------------------- MODULE MC_RobRename ----------------------------
(***************************************************************************)
(* Instances of RobRename: an instruction set that has every kind of entry  *)
(* the ROB tells apart, and a view that identifies states which differ only  *)
(* in fields nothing reads (those of unused entries, and the free list lines *)
(* outside the window between the slow read and the write pointer).          *)
(***************************************************************************)
EXTENDS RobRename

Insn(op, uses_rd, rd) ==
  [op |-> op, exception |-> FALSE, uses_rd |-> uses_rd, rd |-> rd]

\* Two registers to rename, a jump with x0 as its destination, a return and an
\* instruction that traps at decode.
InsnsTwoRegs ==
  {Insn("alu", TRUE, 1), Insn("alu", TRUE, 2), Insn("jump", TRUE, 0),
   Insn("mret", FALSE, 0), [Insn("alu", TRUE, 1) EXCEPT !.exception = TRUE]}

\* One register to rename, no destination, a linking jump and a wfi: for a
\* longer reorder buffer.
InsnsOneReg ==
  {Insn("alu", TRUE, 1), Insn("alu", FALSE, 0), Insn("jump", TRUE, 1),
   Insn("wfi", FALSE, 0)}

\* The free list lines that can still be read.
LiveLine(l) ==
  LET d == IF l >= fl_rd_excep_line THEN l - fl_rd_excep_line
                                    ELSE l - fl_rd_excep_line + FRLIST_DEPTH
  IN d < FlNum(fl_rd_excep_line, fl_recount_fault)

View ==
  <<[s \in Slots |-> IF rob_used[s]
                     THEN <<rob_op[s].op, rob_rd[s], rob_prd[s], rob_lprd[s],
                            rob_finish[s], rob_exp[s], rob_predict_miss[s]>>
                     ELSE <<rob_finish[s], rob_exp[s], rob_predict_miss[s]>>],
    wr_rob_index, cmt_rob_index, rename_reg, rename_reg_backup,
    dff_cmt_miss_delay,
    [l \in FlLines |-> IF LiveLine(l) THEN fl_queue[l] ELSE 0],
    fl_wr_line, fl_rd_line, fl_rd_excep_line, fl_recount, fl_recount_fault>>
=============================================================================
