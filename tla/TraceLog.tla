------------------------------ MODULE TraceLog ------------------------------
(***************************************************************************)
(* The trace of the simulator (sim/tracelog.cpp).  The core calls          *)
(* preg_sync with its write ports, csr_monitor with its CSR writes and     *)
(* log_print with its commit and its CSR issue; log_print writes the trace *)
(* that is compared with a reference simulator.  A copy of the physical    *)
(* registers supplies the value of a committed register, and the CSR value *)
(* noted after the issue is printed with the commit it belongs to.         *)
(***************************************************************************)
EXTENDS CommitStream

VARIABLES preg,             \* the C++ copy of the physical registers
          csr_monitor_read, \* a CSR access whose CSR is traced was issued
          csr_need_print,   \* its write was seen
          csr_name, csr_value,
          logged,           \* what log_print wrote at the last edge
          due,              \* what the trace should have gained at that edge
          orphan            \* the CSR write noted is that of an access thrown out

logVars == <<preg, csr_monitor_read, csr_need_print, csr_name, csr_value>>
vars == <<coreVars, logVars, logged, due, orphan>>

Traced == {"mtvec", "mscratch", "mepc", "mcause"}

(* The bits of a write the trace keeps: & 0xfff...c and & 0x800...f.       *)
Masked(csr, v) == CASE csr = "mtvec" -> v - (v % 4)
                    [] csr = "mcause" -> v % 16
                    [] OTHER -> v

--------------------------------------------------------------------------
(* preg_sync, ports in the order of the code: the ALU, then the LSU.       *)
Sync(old, S, n) ==
  LET w == [u \in Units |-> Writer(S, n, u)]
      alu == IF w["alu"] = 0 THEN old ELSE [old EXCEPT ![rob[w["alu"]].prd] = rob[w["alu"]].val]
  IN  IF w["lsu"] = 0 THEN alu ELSE [alu EXCEPT ![rob[w["lsu"]].prd] = rob[w["lsu"]].val]

(* A plausible slip: the copy is read under the architectural number.      *)
RegisterByRd(e) == preg[e.rd]

Register(e) == preg[e.prd]

(* The entry log_print writes for a committed instruction: its pc, the CSR *)
(* line and the register line.                                             *)
Entry(e) ==
  [pc  |-> e.pc,
   csr |-> IF e.kind = "csr" /\ csr_need_print THEN <<csr_name, csr_value>> ELSE <<>>,
   x   |-> IF \/ e.kind \in {"alu", "load"} /\ e.rd # 0
              \/ e.kind = "csr" /\ e.rd # 0 /\ csr_monitor_read
           THEN <<Register(e)>> ELSE <<>>]

(* The part of log_print for an issued CSR access.                         *)
Issue(csr) == /\ csr_monitor_read' = (csr \in Traced)
              /\ csr_name' = IF csr \in Traced THEN csr ELSE csr_name

(* log_print for the commit of the oldest n instructions (0 or 1), then    *)
(* for the issue.                                                          *)
CommitsCsr(n) == n = 1 /\ rob[1].kind = "csr"

ReadAfter(n) == csr_monitor_read /\ ~CommitsCsr(n)

log_print(n) ==
  /\ logged' = [k \in 1 .. n |-> Entry(rob[k])]
  /\ IF CsrIssues(n) THEN Issue(rob[1].csr)
     ELSE csr_monitor_read' = ReadAfter(n) /\ UNCHANGED csr_name

(* csr_monitor, called for a CSR write: kept only while it is monitored.   *)
Seen(n) == CsrWrites(n) /\ rob[1].writes /\ csr_monitor_read

csr_monitor(n) ==
  /\ csr_need_print' = (Seen(n) \/ (csr_need_print /\ ~CommitsCsr(n)))
  /\ csr_value' = IF Seen(n) /\ rob[1].csr \in Traced THEN Masked(rob[1].csr, rob[1].wval)
                  ELSE csr_value

--------------------------------------------------------------------------
(* What a CSR holds after a write of v, from the CSRs' definition.         *)
Held(csr, v) == CASE csr = "mtvec" -> CHOOSE x \in 0 .. v : x % 4 = 0 /\ v - x < 4
                  [] csr = "mcause" -> CHOOSE x \in 0 .. 15 : \E q \in 0 .. v : v = 16 * q + x
                  [] OTHER -> v

(* The trace of an instruction: its pc, the traced CSR it wrote and the    *)
(* register it wrote, but for reads of CSRs that are not traced.  Of the   *)
(* CSR one can be sure unless an access thrown out has left its write.     *)
Expected(e) ==
  [pc   |-> e.pc,
   csr  |-> IF e.writes /\ e.csr \in Traced THEN <<e.csr, Held(e.csr, e.wval)>> ELSE <<>>,
   x    |-> IF e.rd # 0 /\ (e.kind = "csr" => e.csr \in Traced) THEN <<e.val>> ELSE <<>>,
   sure |-> ~orphan]

(* A fault leaves what is noted without its access; the next note or the   *)
(* next commit of a CSR access ends that.                                  *)
LeavesOrphan(n, fault) == orphan' = (csr_need_print' /\ (fault \/ (orphan /\ ~Seen(n))))

Init == /\ CoreInit
        /\ preg = [p \in PRegs \cup {0} |-> 0]
        /\ csr_monitor_read = FALSE /\ csr_need_print = FALSE
        /\ csr_name = "" /\ csr_value = 0
        /\ logged = <<>> /\ due = <<>> /\ orphan = FALSE

Edge == \E S \in WriteBacks, n \in Commits, new \in Allocations, fault \in BOOLEAN :
          /\ CoreEdge(S, n, new, fault)
          /\ preg' = Sync(preg, S, n)
          /\ csr_monitor(n)
          /\ log_print(n)
          /\ due' = [k \in 1 .. n |-> Expected(rob[k])]
          /\ LeavesOrphan(n, fault)

Finished == CoreDone /\ UNCHANGED vars

Next == Edge \/ Finished

Spec == Init /\ [][Next]_vars

Agree(entry, wanted) == /\ entry.pc = wanted.pc /\ entry.x = wanted.x
                        /\ wanted.sure => entry.csr = wanted.csr

(* Every commit adds exactly its own lines to the trace, with the value    *)
(* its instruction computed and the CSR it wrote, in whatever order the    *)
(* instructions wrote back, however registers were reused and whatever was *)
(* thrown out.  The exception is in the code: a traced CSR write of an     *)
(* access that is thrown out leaves csr_need_print set, although a comment *)
(* says the write is sure to be the next commit's (tracelog.cpp:41), and   *)
(* the next CSR commit prints it unless it has noted a write of its own.   *)
TraceIsProgram == /\ Len(logged) = Len(due)
                  /\ \A k \in 1 .. Len(due) : Agree(logged[k], due[k])

(* The C++ copy of the physical registers is the core's.                   *)
CopyInSync == \A p \in PRegs : preg[p] = prf[p]
=============================================================================
