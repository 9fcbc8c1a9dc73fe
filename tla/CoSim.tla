------------------------------- MODULE CoSim -------------------------------
(***************************************************************************)
(* The co-simulation log of the two-wide core (src/dpi_file/co_sim.cpp):   *)
(* the functions of TraceLog for five write ports and two commits in a     *)
(* cycle.  The program is that of module CommitStream.                     *)
(***************************************************************************)
EXTENDS CommitStream

CONSTANT IdleShows  \* what the address wires of an idle write port show

VARIABLES preg,             \* the C++ copy of the physical registers
          csr_monitor_read, \* CSR writes are being noted
          csr_need_print,   \* a CSR write was noted
          csr_name, csr_value,
          logged            \* what log_print wrote at the last edge

logVars == <<preg, csr_monitor_read, csr_need_print, csr_name, csr_value>>
vars == <<coreVars, logVars, logged>>

Ports == <<"alu1", "alu2", "md", "lsu", "csru">>

(* What a port shows: the write of this edge, or leftovers without valid.  *)
Wires(S, n, u, idle) ==
  LET k == IF u \in Units THEN Writer(S, n, u) ELSE 0
  IN  IF k # 0 THEN [valid |-> TRUE, address |-> rob[k].prd, data |-> rob[k].val]
      ELSE [valid |-> FALSE, address |-> idle, data |-> 0]

(* Which ports preg_sync copies: the code tests alu1_valid for the second  *)
(* ALU, the multiplier and the CSR unit.                                   *)
Takes(ports, k) == /\ ports[k].address # 0
                   /\ IF k = 4 THEN ports[4].valid ELSE ports[1].valid

Copy(old, ports, k) ==
  IF Takes(ports, k) THEN [old EXCEPT ![ports[k].address] = ports[k].data] ELSE old

preg_sync(old, ports) == Copy(Copy(Copy(Copy(Copy(old, ports, 1), ports, 2), ports, 3),
                                   ports, 4), ports, 5)

(* The bits of a write the log keeps.  The masks of the delegation CSRs    *)
(* are left out: the program of the model does not write these.            *)
Masked(csr, v) == CASE csr \in {"mtvec", "stvec"} -> v - (v % 4)
                    [] csr \in {"mcause", "scause"} -> v % 16
                    [] OTHER -> v

(* A CSR write is noted only while csr_monitor_read is set.                *)
csr_monitor(n) ==
  LET seen == CsrWrites(n) /\ rob[1].writes /\ csr_monitor_read
  IN  /\ csr_value' = IF seen THEN Masked(rob[1].csr, rob[1].wval) ELSE csr_value
      /\ csr_need_print' = (seen \/ (csr_need_print
                                       /\ ~(n # 0 /\ rob[1].kind = "csr")))

Entry(e) == [pc  |-> e.pc,
             csr |-> IF e.kind = "csr" /\ csr_need_print THEN <<csr_name, csr_value>> ELSE <<>>,
             x   |-> IF e.kind \in {"csr", "alu", "load"} /\ e.rd # 0
                     THEN <<preg[e.prd]>> ELSE <<>>]

(* What a call of log_print writes: only the first commit is looked at.    *)
Logged(n) == IF n = 0 THEN <<>> ELSE <<Entry(rob[1])>>

(* A CSR commit names the CSR and sets csr_monitor_read, and clears it at  *)
(* the end of the same branch.                                             *)
log_print(n) ==
  /\ logged' = Logged(n)
  /\ csr_name' = IF n # 0 /\ rob[1].kind = "csr" /\ rob[1].rd # 0
                    /\ rob[1].csr \in {"mtvec", "mscratch", "mepc", "mcause"}
                 THEN rob[1].csr ELSE csr_name
  /\ csr_monitor_read' = (csr_monitor_read /\ ~(n # 0 /\ rob[1].kind = "csr"))

(* init_cosim.                                                             *)
Init == /\ CoreInit
        /\ preg = [p \in PRegs \cup {0} |-> 0]
        /\ csr_monitor_read = FALSE /\ csr_need_print = FALSE
        /\ csr_name = "" /\ csr_value = 0
        /\ logged = <<>>

Edge == \E S \in WriteBacks, n \in Commits, new \in Allocations,
           fault \in BOOLEAN, idle \in IdleShows :
          /\ CoreEdge(S, n, new, fault)
          /\ preg' = preg_sync(preg, [k \in 1 .. 5 |-> Wires(S, n, Ports[k], idle)])
          /\ csr_monitor(n)
          /\ log_print(n)

Finished == CoreDone /\ UNCHANGED vars

Next == Edge \/ Finished

Spec == Init /\ [][Next]_vars

--------------------------------------------------------------------------
(* "insert into phsical_regfile.v to sync preg in C++": the copy is the    *)
(* core's register file.  The code does not keep it: the second ALU, the   *)
(* multiplier and the CSR unit are copied when the first ALU is valid.     *)
CopyInSync == \A p \in PRegs : preg[p] = prf[p]
============================================================================
