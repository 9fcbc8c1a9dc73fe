---------------------------- MODULE CommitStream ----------------------------
(***************************************************************************)
(* The core as the tracing functions see it (rcu.sv, csr.sv and the        *)
(* physical register file): instructions are allocated in program order    *)
(* with a physical register of their own, write back in any order and      *)
(* commit in program order; a misprediction, a trap or a return throws out *)
(* all that are in flight.  A CSR instruction is issued when it is the     *)
(* oldest one, writes at a later edge and commits after that, unless it is *)
(* thrown out between the two: its CSR write stays.                        *)
(*   How the core calls the tracing functions is commented out in this     *)
(* commit of the repository; the write ports and the commits per cycle are *)
(* those of the functions' signatures.                                     *)
(***************************************************************************)
EXTENDS Integers, Sequences

CONSTANTS PRegs,      \* physical registers without register 0
          RobSize,    \* instructions in flight
          Length,     \* instructions of the program
          Units,      \* write ports of the physical register file
          CsrUnit,    \* the port of CSR results
          Csrs,       \* addresses of CSRs the program uses
          Values,     \* register and CSR values
          Kinds,      \* kinds of instructions besides CSR accesses
          Width,      \* commits per cycle
          None        \* no CSR; an idle port

StreamAssumption == 0 \notin PRegs /\ None \notin Csrs /\ 0 \in Values /\ Values \subseteq Nat

VARIABLES rob,    \* instructions in flight, oldest first
          pc,     \* instructions fetched so far, on whichever path
          prf,    \* the physical registers of the core
          mapped  \* physical register the last committed write of x1 is in

coreVars == <<rob, pc, prf, mapped>>

WritesRd(e) == e.prd # 0

(* Instruction number m; those without a destination have rd and prd 0.    *)
Instructions(m, prd) ==
  {e \in [pc : {m}, kind : Kinds \cup {"csr"}, rd : {0, 1}, prd : {0, prd}, unit : Units,
          csr : Csrs \cup {None}, writes : BOOLEAN, val : Values, wval : Values,
          st : {"wait"}] :
     /\ e.rd = 0 <=> e.prd = 0
     /\ e.prd = 0 => e.val = 0
     /\ e.kind \in {"store", "fence"} => e.rd = 0 /\ e.unit = "lsu"
     /\ e.kind = "load" => e.unit = "lsu"
     /\ e.kind = "alu" => e.unit \notin {"lsu", "csru"}
     /\ IF e.kind = "csr" THEN e.csr # None /\ e.unit = CsrUnit
        ELSE e.csr = None /\ ~e.writes
     /\ ~e.writes => e.wval = 0}

FreePRegs == PRegs \ ({mapped} \cup {rob[k].prd : k \in DOMAIN rob})

(* Room for m more instructions, the last one with a register of free.     *)
Room(m, free) == Len(rob) + m <= RobSize /\ pc + m <= Length /\ free # {}

(* What may be allocated at an edge: up to two instructions, one if one    *)
(* commits per cycle.                                                      *)
Allocations ==
  LET p == CHOOSE r \in FreePRegs : TRUE
      rest == FreePRegs \ {p}
      q == CHOOSE r \in rest : TRUE
  IN  {<<>>}
      \cup (IF Room(1, FreePRegs) THEN {<<e>> : e \in Instructions(pc, p)} ELSE {})
      \cup (IF Width > 1 /\ Room(2, rest)
            THEN Instructions(pc, p) \X Instructions(pc + 1, q) ELSE {})

CsrAtHead(st) == rob # <<>> /\ rob[1].kind = "csr" /\ rob[1].st = st

(* Instructions that may write back together: one per port.                *)
WriteBacks ==
  {S \in SUBSET {k \in DOMAIN rob : rob[k].st = "wait" /\ rob[k].kind # "csr"} :
     /\ \A x, y \in S : rob[x].unit = rob[y].unit => x = y
     /\ CsrAtHead("issued") => \A x \in S : rob[x].unit # CsrUnit}

(* How many commit: the oldest ones that are done, a CSR access alone.     *)
Commits == {n \in 0 .. Width : /\ n <= Len(rob)
                               /\ \A k \in 1 .. n : rob[k].st = "done"
                               /\ n > 1 => \A k \in 1 .. n : rob[k].kind # "csr"}

CsrIssues(n) == n = 0 /\ CsrAtHead("wait")
CsrWrites(n) == n = 0 /\ CsrAtHead("issued")

(* Position of the instruction that uses a write port at this edge, or 0.  *)
Writer(S, n, u) ==
  LET W == S \cup (IF CsrWrites(n) THEN {1} ELSE {})
      P == {k \in W : rob[k].unit = u /\ WritesRd(rob[k])}
  IN  IF P = {} THEN 0 ELSE CHOOSE k \in P : TRUE

Progress(e, k, S, n) == CASE k \in S -> [e EXCEPT !.st = "done"]
                          [] k = 1 /\ CsrIssues(n) -> [e EXCEPT !.st = "issued"]
                          [] k = 1 /\ CsrWrites(n) -> [e EXCEPT !.st = "done"]
                          [] OTHER -> e

LastWrite(n) == LET P == {k \in 1 .. n : WritesRd(rob[k])}
                IN  IF P = {} THEN mapped ELSE rob[CHOOSE k \in P : \A x \in P : x <= k].prd

(* global_speculate_fault: an interrupt comes in any cycle.  What commits  *)
(* with it is a mispredicted branch or nothing, and nothing is allocated.  *)
Faults(n, new) == new = <<>> /\ (n = 0 \/ (n = 1 /\ rob[1].kind = "alu" /\ ~WritesRd(rob[1])))

(* An edge at which S write back, n commit and new ones enter.             *)
CoreEdge(S, n, new, fault) ==
  /\ fault => Faults(n, new)
  /\ rob' = IF fault THEN <<>>
            ELSE SubSeq([k \in DOMAIN rob |-> Progress(rob[k], k, S, n)], n + 1, Len(rob)) \o new
  /\ pc' = pc + Len(new)
  /\ prf' = [p \in PRegs |->
               IF \E u \in Units : Writer(S, n, u) # 0 /\ rob[Writer(S, n, u)].prd = p
               THEN rob[CHOOSE k \in DOMAIN rob : rob[k].prd = p].val ELSE prf[p]]
  /\ mapped' = LastWrite(n)

CoreInit == rob = <<>> /\ pc = 0 /\ prf = [p \in PRegs |-> 0] /\ mapped = 0

CoreDone == pc = Length /\ rob = <<>>
=============================================================================
