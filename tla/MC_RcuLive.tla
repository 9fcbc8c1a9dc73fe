----------------------------- MODULE MC_RcuLive -----------------------------
(***************************************************************************)
(* An instance of RcuLive: the units that can be slow or refuse a request.   *)
(***************************************************************************)
EXTENDS RcuLive

Insn(op, rd, rs1) ==
  [op |-> op, exception |-> FALSE, uses_rd |-> rd # 0, rd |-> rd,
   rs1 |-> rs1, rs2 |-> 0]

InsnsLive ==
  {Insn("md", 1, 1), Insn("load", 1, 1), Insn("store", 0, 0), Insn("csr", 1, 1)}
=============================================================================
