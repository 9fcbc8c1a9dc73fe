-------------------------- MODULE MC_ProgramProofs --------------------------
(***************************************************************************)
(* What ProgramProofs shows of a program holds of MC_Programs, which runs it. *)
(***************************************************************************)
EXTENDS MC_Programs, ProgramProofs

\* A step of the programs is a step of the memory behind the L1D cache if that is the
\* program that runs.
LEMMA AxiRuns ==
  /\ Init /\ bench = "axi" => Axi!Init
  /\ [Next]_vars /\ bench' = "axi" => bench = "axi" /\ (Axi!Next \/ UNCHANGED Axi!vars)
<1>1. Init /\ bench = "axi" => Axi!Init
  BY DEF Init
<1>2. ASSUME Next PROVE bench' = bench /\ (bench = "axi" => Axi!Next)
  BY <1>2 DEF Next, Runs
<1>3. ASSUME UNCHANGED vars PROVE bench' = bench /\ UNCHANGED Axi!vars
  BY <1>3 DEF vars, Axi!vars, Axi!memVars, axiVars
<1> QED
  BY <1>1, <1>2, <1>3

\* The memory behind the L1D cache answers in order and with the data of that order,
\* and its eval() never throws, for every set of lines, delays and identifiers, every
\* burst length, every number of requests and whatever the ready bits do.
THEOREM AxiMemoryInOrder == Spec => []AxiInOrder
<1> DEFINE Inv == bench = "axi" => AxiInv
<1>1. Init => Inv
  BY AxiRuns, AxiInvInductive
<1>2. Inv /\ [Next]_vars => Inv'
  BY AxiRuns, AxiInvInductive
<1>3. Inv => AxiInOrder
  BY AxiInvSuffices DEF AxiInOrder
<1> QED
  BY <1>1, <1>2, <1>3, PTL DEF Spec

\* A step of the programs is a step of the unit test of the back end if that runs.
LEMMA UtRuns ==
  /\ Init /\ bench = "backend" => Ut!Init
  /\ [Next]_vars /\ bench' = "backend" => bench = "backend" /\ (Ut!Next \/ UNCHANGED Ut!vars)
<1>1. Init /\ bench = "backend" => Ut!Init
  BY DEF Init
<1>2. ASSUME Next PROVE bench' = bench /\ (bench = "backend" => Ut!Next)
  BY <1>2 DEF Next, Runs
<1>3. ASSUME UNCHANGED vars PROVE bench' = bench /\ UNCHANGED Ut!vars
  BY <1>3 DEF vars, Ut!vars, Ut!benchVars, utVars
<1> QED
  BY <1>1, <1>2, <1>3

\* The back end takes the lines of the CSV file once and in order, an answer is that
\* of the request accepted with it, and loads from the start of a memory line get their
\* bytes, for every file, every size of the ROB and of the memory image.
THEOREM BackendIsServed == Spec => []BackendServed
<1> DEFINE Inv == bench = "backend" => UtInv
<1>1. Init => Inv
  BY UtRuns, UtInvInductive
<1>2. Inv /\ [Next]_vars => Inv'
  BY UtRuns, UtInvInductive
<1>3. Inv => BackendServed
  BY UtInvSuffices DEF BackendServed
<1> QED
  BY <1>1, <1>2, <1>3, PTL DEF Spec

\* A step of the programs is a step of the core and of its trace if that program runs.
LEMMA TraceRuns ==
  /\ Init /\ bench = "tracelog" => Trace!Init
  /\ [Next]_vars /\ bench' = "tracelog"
       => bench = "tracelog" /\ (Trace!Next \/ UNCHANGED Trace!vars)
<1>1. Init /\ bench = "tracelog" => Trace!Init
  BY DEF Init
<1>2. ASSUME Next PROVE bench' = bench /\ (bench = "tracelog" => Trace!Next)
  BY <1>2 DEF Next, Runs
<1>3. ASSUME UNCHANGED vars PROVE bench' = bench /\ UNCHANGED Trace!vars
  BY <1>3 DEF vars, Trace!vars, Trace!coreVars, Trace!logVars, logVars
<1> QED
  BY <1>1, <1>2, <1>3

\* The trace has every commit, with the value its instruction computed and, but for the
\* first CSR commit after a squashed CSR write, the CSR write that belongs to it; the C++
\* copy of the register file is the core's.  For every set of registers, CSRs and values,
\* every number of instructions, every size of the ROB and faults at any edge.
THEOREM LogsFollowProgram == Spec => []LogsAreProgram
<1> DEFINE Inv == bench = "tracelog" => TraceInv
<1>1. Init => Inv
  BY TraceRuns, TraceInvInductive
<1>2. Inv /\ [Next]_vars => Inv'
  BY TraceRuns, TraceInvInductive
<1>3. Inv => LogsAreProgram
  BY DEF LogsAreProgram, TraceInv, TraceFiles
<1> QED
  BY <1>1, <1>2, <1>3, PTL DEF Spec
=============================================================================
