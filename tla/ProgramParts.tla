---------------------------- MODULE ProgramParts ----------------------------
(***************************************************************************)
(* Four of the programs of MC_Programs with their parameters: the memory of *)
(* the simulator (MagicMemory), the memory behind the L1D cache, the trace *)
(* and the unit test of the back end.  Their variables and bounds are here, apart    *)
(* from those of the other programs, for the proofs about them.              *)
(***************************************************************************)
EXTENDS MagicMemory, Sequences

CONSTANTS AxiRequests,    \* requests to the memory behind the L1D cache
          AxiDataLines,   \* its lines of data,
          AxiPageLines,   \* of the page table,
          AxiIds,         \* read identifiers,
          AxiDelays,      \* delays
          AxiBurst,       \* and beats of a line
          CsvLines,       \* instructions for the back end,
          CsvLength,      \* how many of them,
          UtRobSize,      \* size of its ROB
          UtMemLines,     \* and of the memory image
          LogPRegs,       \* physical registers of the core that is logged,
          LogCsrs,        \* its CSRs,
          LogValues,      \* what they hold,
          LogLength,      \* instructions of its program
          TraceRobSize    \* and instructions in flight

VARIABLES
  wait_q, resp_q, port, popped, w_todo, latest, sent,
  half, nread, shown, resp, pend, req, taken,
  prf, mapped, preg, csr_monitor_read, csr_need_print, csr_name, csr_value, logged,
  orphan,
  status, mem, rob, pc, due   \* shared with other programs

Axi == INSTANCE AxiMem WITH
  DataLines <- AxiDataLines, PageLines <- AxiPageLines, Ids <- AxiIds, Delays <- AxiDelays,
  BURST_NUM <- AxiBurst, MaxRequests <- AxiRequests
Ut == INSTANCE BackendUt WITH
  MaxLines <- CsvLength, ROB_SIZE <- UtRobSize, MemLines <- UtMemLines
Trace == INSTANCE TraceLog WITH
  PRegs <- LogPRegs, RobSize <- TraceRobSize, Length <- LogLength, Units <- {"alu", "lsu"},
  CsrUnit <- "alu", Csrs <- LogCsrs, Values <- LogValues,
  Kinds <- {"alu", "load", "store", "fence"}, Width <- 1

\* The bounds satisfy what the models assume of their parameters.
ASSUME PartsAssumption ==
  /\ Axi!AxiAssumption /\ Ut!BackendAssumption /\ Ut!AnswerAssumption
  /\ Trace!StreamAssumption
=============================================================================
