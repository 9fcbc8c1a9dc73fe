--------------------------- MODULE RobRenameProofs ---------------------------
(***************************************************************************)
(* The reorder buffer and renaming for every ROB size, register file and     *)
(* instruction set.  First the control: types, and the shape of the occupied *)
(* part of the buffer.                                                     *)
(***************************************************************************)
EXTENDS RobRename, CounterProofs, FiniteSetTheorems

-----------------------------------------------------------------------------
(* Operators.                                                              *)

\* The sizes, and that index 0 is in every range.
LEMMA Sizes ==
  /\ ROB_SIZE \in Nat /\ ROB_SIZE >= 2
  /\ FRLIST_DEPTH \in Nat /\ FRLIST_DEPTH >= 2
  /\ AREGS \in Nat /\ AREGS >= 2
  /\ 0 \in Slots /\ 0 \in ARegs /\ 0 \in PRegs /\ 0 \in FlLines
BY RobAssumption, FrlistDepthAssumption DEF Slots, ARegs, PRegs, FlLines

\* A decode window holds at most two instructions.
LEMMA DecWindow ==
  ASSUME NEW dec \in DecodeWindows
  PROVE  /\ Len(dec) \in 0..2
         /\ Len(dec) >= 1 => dec[1] \in Insns
         /\ Len(dec) >= 2 => dec[2] \in Insns
<1>1. CASE dec = << >>
  BY <1>1
<1>2. ASSUME NEW i \in Insns, dec = <<i>>
      PROVE  Len(dec) = 1 /\ dec[1] \in Insns
  BY <1>2
<1>3. ASSUME dec \in Insns \X Insns
      PROVE  Len(dec) = 2 /\ dec[1] \in Insns /\ dec[2] \in Insns
  BY <1>3
<1> QED
  BY <1>1, <1>2, <1>3 DEF DecodeWindows

\* The first and second write and commit index are different entries.
LEMMA Indices ==
  ASSUME RobTypeOK
  PROVE  /\ wr_rob_index \in Slots /\ wr_rob_index_second \in Slots
         /\ cmt_rob_index \in Slots /\ cmt_rob_index_second \in Slots
         /\ wr_rob_index_second # wr_rob_index
         /\ cmt_rob_index_second # cmt_rob_index
BY Sizes, CounterIterates
DEF RobTypeOK, Slots, wr_rob_index_second, cmt_rob_index_second

\* The ports are Boolean.
LEMMA CommitBoolean ==
  do_rob_commit_first \in BOOLEAN /\ do_rob_commit_second \in BOOLEAN
BY DEF do_rob_commit_first, do_rob_commit_second

\* The enables of the write and rename ports are Boolean.
LEMMA PortsBoolean ==
  ASSUME NEW dec
  PROVE  /\ do_rob_write_first(dec) \in BOOLEAN
         /\ do_rob_write_second(dec) \in BOOLEAN
         /\ free_list_rd_first_en(dec) \in BOOLEAN
         /\ free_list_rd_second_en(dec) \in BOOLEAN
BY DEF do_rob_write_first, do_rob_write_second, free_list_rd_first_en,
       free_list_rd_second_en

\* A value written by a port that is enabled keeps the array's type.
LEMMA AllocateType ==
  ASSUME NEW S, NEW f \in [Slots -> S], NEW dec, NEW v1, NEW v2,
         do_rob_write_first(dec) => v1 \in S,
         do_rob_write_second(dec) => v2 \in S
  PROVE  Allocate(f, dec, v1, v2) \in [Slots -> S]
BY DEF Allocate

\* What the window's instructions are given.
LEMMA RenamingTypes ==
  ASSUME RobTypeOK, NEW dec \in DecodeWindows
  PROVE  /\ prd_first(dec) \in PRegs
         /\ prd_second(dec) \in PRegs
         /\ do_rob_write_first(dec) => lprd_first(dec) \in PRegs /\ RdOf(dec[1]) \in ARegs
         /\ do_rob_write_second(dec) => lprd_second(dec) \in PRegs /\ RdOf(dec[2]) \in ARegs
<1>1. /\ fl_rd_line \in FlLines
      /\ CntNext(fl_rd_line, FRLIST_DEPTH) \in FlLines
  BY Sizes, CounterIterates DEF RobTypeOK, FlLines
<1>2. /\ FlRdataFirst \in PRegs
      /\ FlRdataSecond(free_list_rd_first_en(dec)) \in PRegs
  BY <1>1 DEF RobTypeOK, FlRdataFirst, FlRdataSecond
<1>3. prd_first(dec) \in PRegs /\ prd_second(dec) \in PRegs
  BY <1>2, Sizes DEF prd_first, prd_second
<1>4. ASSUME do_rob_write_first(dec)
      PROVE  dec[1] \in Insns /\ dec[1].rd \in ARegs
  BY <1>4, DecWindow, InsnAssumption DEF do_rob_write_first
<1>5. ASSUME do_rob_write_second(dec)
      PROVE  dec[2] \in Insns /\ dec[2].rd \in ARegs
  BY <1>5, DecWindow, InsnAssumption DEF do_rob_write_second
<1>6. ASSUME do_rob_write_first(dec)
      PROVE  lprd_first(dec) \in PRegs /\ RdOf(dec[1]) \in ARegs
  BY <1>4, <1>6, Sizes DEF lprd_first, RdOf, RobTypeOK
<1>7. ASSUME do_rob_write_second(dec)
      PROVE  lprd_second(dec) \in PRegs /\ RdOf(dec[2]) \in ARegs
  BY <1>3, <1>5, <1>7, Sizes DEF lprd_second, SecondMapping, RdOf, RobTypeOK
<1> QED
  BY <1>3, <1>6, <1>7

\* What the committing entries give back.
LEMMA FreedTypes ==
  ASSUME RobTypeOK
  PROVE  /\ Len(FreedRegs) \in 0..2
         /\ Len(FreedRegs) >= 1 => FreedRegs[1] \in PRegs
         /\ Len(FreedRegs) = 2 => FreedRegs[2] \in PRegs
<1> DEFINE p == rob_lprd[cmt_rob_index]
           q == rob_lprd[cmt_rob_index_second]
<1>1. p \in PRegs /\ q \in PRegs
  BY Indices DEF RobTypeOK
<1>2. \/ FreedRegs = << >> \o << >>
      \/ FreedRegs = <<p>> \o << >>
      \/ FreedRegs = << >> \o <<q>>
      \/ FreedRegs = <<p>> \o <<q>>
  BY Zenon DEF FreedRegs
<1>3. FreedRegs \in {<< >>, <<p>>, <<q>>, <<p, q>>}
  BY <1>1, <1>2
<1> HIDE DEF p, q
<1> QED
  BY <1>1, <1>3

-----------------------------------------------------------------------------
(* Types.                                                                  *)

\* The reset state is well typed.
LEMMA InitTypes == RobInit => RobTypeOK
<1> SUFFICES ASSUME RobInit PROVE RobTypeOK
  OBVIOUS
<1>1. /\ rob_used \in [Slots -> BOOLEAN] /\ rob_finish \in [Slots -> BOOLEAN]
      /\ rob_exp \in [Slots -> BOOLEAN] /\ rob_predict_miss \in [Slots -> BOOLEAN]
      /\ dff_cmt_miss_delay \in BOOLEAN
      /\ fl_recount \in BOOLEAN /\ fl_recount_fault \in BOOLEAN
  BY Zenon DEF RobInit, FreeListInit
<1>2. /\ rob_op \in [Slots -> Insns] /\ rob_rd \in [Slots -> ARegs]
      /\ rob_prd \in [Slots -> PRegs] /\ rob_lprd \in [Slots -> PRegs]
      /\ wr_rob_index \in Slots /\ cmt_rob_index \in Slots
      /\ rename_reg \in [ARegs -> PRegs] /\ rename_reg_backup \in [ARegs -> PRegs]
      /\ fl_wr_line \in FlLines /\ fl_rd_line \in FlLines /\ fl_rd_excep_line \in FlLines
  BY Sizes DEF RobInit, FreeListInit
<1>3. fl_queue \in [FlLines -> PRegs]
  BY Sizes DEF RobInit, FreeListInit, FlLines, PRegs
<1> QED
  BY <1>1, <1>2, <1>3 DEF RobTypeOK

\* A speculation fault keeps the types.
LEMMA FlushTypes ==
  ASSUME RobTypeOK, Flush
  PROVE  RobTypeOK'
<1>1. /\ rob_used' \in [Slots -> BOOLEAN] /\ rob_finish' \in [Slots -> BOOLEAN]
      /\ rob_exp' \in [Slots -> BOOLEAN] /\ rob_predict_miss' \in [Slots -> BOOLEAN]
      /\ dff_cmt_miss_delay' \in BOOLEAN
  BY Zenon DEF Flush
<1>2. /\ wr_rob_index' \in Slots /\ cmt_rob_index' \in Slots
      /\ rename_reg' \in [ARegs -> PRegs] /\ rename_reg_backup' \in [ARegs -> PRegs]
      /\ rob_op' \in [Slots -> Insns] /\ rob_rd' \in [Slots -> ARegs]
      /\ rob_prd' \in [Slots -> PRegs] /\ rob_lprd' \in [Slots -> PRegs]
  BY Sizes, Zenon DEF Flush, RobTypeOK
<1>3. /\ fl_queue' \in [FlLines -> PRegs]
      /\ fl_wr_line' \in FlLines /\ fl_rd_line' \in FlLines /\ fl_rd_excep_line' \in FlLines
      /\ fl_recount' \in BOOLEAN /\ fl_recount_fault' \in BOOLEAN
  BY Zenon DEF Flush, FreeListRollback, RobTypeOK
<1> QED
  BY <1>1, <1>2, <1>3 DEF RobTypeOK

\* An edge without fault keeps the types.
LEMMA AdvanceTypes ==
  ASSUME RobTypeOK, NEW dec \in DecodeWindows, NEW done \in Completions,
         Advance(dec, done)
  PROVE  RobTypeOK'
<1>1. /\ rob_used' \in [Slots -> BOOLEAN] /\ rob_finish' \in [Slots -> BOOLEAN]
      /\ rob_predict_miss' \in [Slots -> BOOLEAN]
      /\ dff_cmt_miss_delay' \in BOOLEAN
  <2>1. /\ Allocate(rob_used, dec, TRUE, TRUE) \in [Slots -> BOOLEAN]
    BY AllocateType DEF RobTypeOK
  <2> QED
    BY <2>1, Zenon DEF Advance, AdvanceRob, AdvanceUsed, AdvanceFinish,
                      AdvanceMiss, AdvanceMissDelay, RobTypeOK
<1>2. rob_exp' \in [Slots -> BOOLEAN]
  <2>1. /\ do_rob_write_first(dec) => dec[1].exception \in BOOLEAN
        /\ do_rob_write_second(dec) => dec[2].exception \in BOOLEAN
    BY DecWindow, InsnAssumption DEF do_rob_write_first, do_rob_write_second
  <2>2. Allocate(rob_exp, dec, dec[1].exception, dec[2].exception) \in [Slots -> BOOLEAN]
    BY <2>1, AllocateType DEF RobTypeOK
  <2> QED
    BY <2>2, Zenon DEF Advance, AdvanceRob, AdvanceExp, Done
<1>3. /\ rob_op' \in [Slots -> Insns] /\ rob_rd' \in [Slots -> ARegs]
      /\ rob_prd' \in [Slots -> PRegs] /\ rob_lprd' \in [Slots -> PRegs]
  <2>1. /\ do_rob_write_first(dec) => dec[1] \in Insns
        /\ do_rob_write_second(dec) => dec[2] \in Insns
    BY DecWindow DEF do_rob_write_first, do_rob_write_second
  <2> QED
    BY <2>1, AllocateType, RenamingTypes
    DEF RobTypeOK, Advance, AdvanceRob, AdvanceEntry
<1>4. wr_rob_index' \in Slots /\ cmt_rob_index' \in Slots
  BY Sizes, PortsBoolean, CommitBoolean, OnesCases, CounterStep
  DEF RobTypeOK, Advance, AdvanceRob, AdvanceWriteIndex, AdvanceCommitIndex, Slots
<1>5. rename_reg' \in [ARegs -> PRegs]
  BY RenamingTypes DEF RobTypeOK, Advance, AdvanceRename
<1>6. rename_reg_backup' \in [ARegs -> PRegs]
  BY Indices DEF RobTypeOK, Advance, AdvanceBackup
<1>7. /\ fl_queue' \in [FlLines -> PRegs]
      /\ fl_wr_line' \in FlLines /\ fl_rd_line' \in FlLines /\ fl_rd_excep_line' \in FlLines
      /\ fl_recount' \in BOOLEAN /\ fl_recount_fault' \in BOOLEAN
  <2> DEFINE nrd == Ones(free_list_rd_first_en(dec), free_list_rd_second_en(dec))
             nrds == Ones(do_rob_commit_first /\ rob_prd[cmt_rob_index] # 0,
                          do_rob_commit_second /\ rob_prd[cmt_rob_index_second] # 0)
  <2>1. FreeListClock(FreedRegs, nrd, nrds)
    BY DEF Advance, AdvanceFreeList
  <2>2. nrd \in 0..2 /\ nrds \in 0..2
    BY PortsBoolean, CommitBoolean, OnesCases
  <2> HIDE DEF nrd, nrds
  <2>3. fl_queue' \in [FlLines -> PRegs]
    BY <2>1, FreedTypes DEF FreeListClock, RobTypeOK
  <2>4. fl_wr_line' \in FlLines /\ fl_rd_line' \in FlLines /\ fl_rd_excep_line' \in FlLines
    BY <2>1, <2>2, FreedTypes, CounterStep, Sizes DEF FreeListClock, RobTypeOK, FlLines
  <2>5. fl_recount' \in BOOLEAN /\ fl_recount_fault' \in BOOLEAN
    BY <2>1, Zenon DEF FreeListClock, FlRecount, RobTypeOK
  <2> QED
    BY <2>3, <2>4, <2>5
<1> QED
  BY <1>1, <1>2, <1>3, <1>4, <1>5, <1>6, <1>7 DEF RobTypeOK

-----------------------------------------------------------------------------
(* The occupied entries.                                                   *)

\* RobContiguous, in the words of CounterProofs.
LEMMA ContiguousIsInterval ==
  RobContiguous <=> Interval(rob_used, cmt_rob_index, wr_rob_index, ROB_SIZE)
BY DEF RobContiguous, Interval, Slots

\* If only one of the two entries at the write index is free it is the first:
\* the second port never writes alone.
LEMMA SecondNeedsFirst ==
  ASSUME RobTypeOK, RobContiguous, rob_used[wr_rob_index]
  PROVE  rob_used[wr_rob_index_second]
BY Indices DEF RobTypeOK, RobContiguous, Slots

\* The pair of writes, as two additions at the end of the interval.
LEMMA WritesKeepInterval ==
  ASSUME RobTypeOK, RobContiguous, NEW dec
  PROVE  LET V == Allocate(rob_used, dec, TRUE, TRUE)
             w == CntAdd(wr_rob_index,
                         Ones(do_rob_write_first(dec), do_rob_write_second(dec)), ROB_SIZE)
         IN /\ V \in [Slots -> BOOLEAN]
            /\ w \in Slots
            /\ Interval(V, cmt_rob_index, w, ROB_SIZE)
            /\ \A s \in Slots : rob_used[s] => V[s]
<1> DEFINE V == Allocate(rob_used, dec, TRUE, TRUE)
           w == CntAdd(wr_rob_index,
                       Ones(do_rob_write_first(dec), do_rob_write_second(dec)), ROB_SIZE)
           U1 == [rob_used EXCEPT ![wr_rob_index] = TRUE]
           U2 == [U1 EXCEPT ![wr_rob_index_second] = TRUE]
<1>1. Interval(rob_used, cmt_rob_index, wr_rob_index, ROB_SIZE)
  BY ContiguousIsInterval
<1>2. V \in [Slots -> BOOLEAN]
  BY AllocateType DEF RobTypeOK
<1>3. \A s \in Slots : rob_used[s] => V[s]
  BY DEF Allocate
<1>4. CASE ~do_rob_write_first(dec) /\ ~do_rob_write_second(dec)
  <2>1. V = rob_used
    BY <1>4 DEF Allocate, RobTypeOK
  <2>2. w = wr_rob_index
    BY <1>4, OnesCases, PortsBoolean, CounterIterates, Sizes DEF RobTypeOK, Slots
  <2> QED
    BY <1>1, <1>2, <1>3, <2>1, <2>2 DEF RobTypeOK
<1>5. CASE do_rob_write_first(dec) /\ ~do_rob_write_second(dec)
  <2>1. V = U1
    BY <1>5 DEF Allocate, RobTypeOK
  <2>2. w = wr_rob_index_second
    BY <1>5, OnesCases, PortsBoolean, CounterIterates, Sizes
    DEF RobTypeOK, Slots, wr_rob_index_second
  <2>3. Interval(U1, cmt_rob_index, wr_rob_index_second, ROB_SIZE)
    BY <1>1, <1>5, IntervalPush, Sizes
    DEF do_rob_write_first, RobTypeOK, Slots, wr_rob_index_second
  <2> QED
    BY <1>2, <1>3, <2>1, <2>2, <2>3, Indices
<1>6. CASE do_rob_write_first(dec) /\ do_rob_write_second(dec)
  <2>1. V = U2
    BY <1>6, Indices DEF Allocate, RobTypeOK
  <2>2. w = CntNext(wr_rob_index_second, ROB_SIZE)
    BY <1>6, OnesCases, PortsBoolean, CounterIterates, Sizes
    DEF RobTypeOK, Slots, wr_rob_index_second
  <2>3. /\ U1 \in [Slots -> BOOLEAN]
        /\ Interval(U1, cmt_rob_index, wr_rob_index_second, ROB_SIZE)
    BY <1>1, <1>6, IntervalPush, Sizes
    DEF do_rob_write_first, RobTypeOK, Slots, wr_rob_index_second
  <2>4. ~U1[wr_rob_index_second]
    BY <1>6, Indices DEF do_rob_write_second, RobTypeOK
  <2>5. /\ Interval(U2, cmt_rob_index, CntNext(wr_rob_index_second, ROB_SIZE), ROB_SIZE)
        /\ CntNext(wr_rob_index_second, ROB_SIZE) \in Slots
    <3> HIDE DEF U1
    <3> QED
      BY <2>3, <2>4, IntervalPush, CounterIterates, Indices, Sizes DEF RobTypeOK, Slots
  <2> QED
    BY <1>2, <1>3, <2>1, <2>2, <2>5
<1>7. do_rob_write_second(dec) => do_rob_write_first(dec)
  BY SecondNeedsFirst DEF do_rob_write_first, do_rob_write_second
<1> QED
  BY <1>4, <1>5, <1>6, <1>7

\* The pair of commits, as two removals at the start.
LEMMA CommitsKeepInterval ==
  ASSUME RobTypeOK, NEW V \in [Slots -> BOOLEAN], NEW w \in Slots,
         Interval(V, cmt_rob_index, w, ROB_SIZE),
         \A s \in Slots : rob_used[s] => V[s]
  PROVE  LET c == CntAdd(cmt_rob_index,
                         Ones(do_rob_commit_first, do_rob_commit_second), ROB_SIZE)
         IN Interval([s \in Slots |-> s \notin Committing /\ V[s]], c, w, ROB_SIZE)
<1> DEFINE c == CntAdd(cmt_rob_index,
                       Ones(do_rob_commit_first, do_rob_commit_second), ROB_SIZE)
           X == [s \in Slots |-> s \notin Committing /\ V[s]]
           V1 == [V EXCEPT ![cmt_rob_index] = FALSE]
           V2 == [V1 EXCEPT ![cmt_rob_index_second] = FALSE]
<1>1. CASE ~do_rob_commit_first /\ ~do_rob_commit_second
  <2>1. X = V
    BY <1>1 DEF Committing
  <2>2. c = cmt_rob_index
    BY <1>1, OnesCases, CommitBoolean, CounterIterates, Sizes DEF RobTypeOK, Slots
  <2> QED
    BY <2>1, <2>2
<1>2. CASE do_rob_commit_first /\ ~do_rob_commit_second
  <2>1. X = V1
    BY <1>2 DEF Committing
  <2>2. c = cmt_rob_index_second
    BY <1>2, OnesCases, CommitBoolean, CounterIterates, Sizes
    DEF RobTypeOK, Slots, cmt_rob_index_second
  <2>3. Interval(V1, cmt_rob_index_second, w, ROB_SIZE)
    BY <1>2, IntervalPop, Sizes
    DEF do_rob_commit_first, RobTypeOK, Slots, cmt_rob_index_second
  <2> QED
    BY <2>1, <2>2, <2>3
<1>3. CASE do_rob_commit_first /\ do_rob_commit_second
  <2>1. X = V2
    BY <1>3, Indices DEF Committing
  <2>2. c = CntNext(cmt_rob_index_second, ROB_SIZE)
    BY <1>3, OnesCases, CommitBoolean, CounterIterates, Sizes
    DEF RobTypeOK, Slots, cmt_rob_index_second
  <2>3. /\ V1 \in [Slots -> BOOLEAN]
        /\ Interval(V1, cmt_rob_index_second, w, ROB_SIZE)
    BY <1>3, IntervalPop, Sizes
    DEF do_rob_commit_first, RobTypeOK, Slots, cmt_rob_index_second
  <2>4. V1[cmt_rob_index_second]
    BY <1>3, Indices DEF do_rob_commit_second
  <2>5. Interval(V2, CntNext(cmt_rob_index_second, ROB_SIZE), w, ROB_SIZE)
    <3> HIDE DEF V1
    <3> QED
      BY <2>3, <2>4, IntervalPop, Indices, Sizes DEF Slots
  <2> QED
    BY <2>1, <2>2, <2>5
<1>4. do_rob_commit_second => do_rob_commit_first
  BY DEF do_rob_commit_second
<1> QED
  BY <1>1, <1>2, <1>3, <1>4

\* Two allocations and two commits in one edge keep the interval.
LEMMA AdvanceContiguous ==
  ASSUME RobTypeOK, RobContiguous, NEW dec, NEW done, Advance(dec, done)
  PROVE  RobContiguous'
<1> DEFINE V == Allocate(rob_used, dec, TRUE, TRUE)
           w == CntAdd(wr_rob_index,
                       Ones(do_rob_write_first(dec), do_rob_write_second(dec)), ROB_SIZE)
           c == CntAdd(cmt_rob_index,
                       Ones(do_rob_commit_first, do_rob_commit_second), ROB_SIZE)
<1>1. /\ V \in [Slots -> BOOLEAN]
      /\ w \in Slots
      /\ Interval(V, cmt_rob_index, w, ROB_SIZE)
      /\ \A s \in Slots : rob_used[s] => V[s]
  BY WritesKeepInterval
<1>2. /\ rob_used' = [s \in Slots |-> s \notin Committing /\ V[s]]
      /\ wr_rob_index' = w
      /\ cmt_rob_index' = c
  BY DEF Advance, AdvanceRob, AdvanceUsed, AdvanceWriteIndex, AdvanceCommitIndex
<1> HIDE DEF V, w
<1>3. Interval([s \in Slots |-> s \notin Committing /\ V[s]], c, w, ROB_SIZE)
  BY <1>1, CommitsKeepInterval
<1>4. Interval(rob_used', cmt_rob_index', wr_rob_index', ROB_SIZE)
  BY <1>2, <1>3
<1> QED
  BY <1>4 DEF RobContiguous, Interval, Slots

-----------------------------------------------------------------------------
(* Theorems.  RobTypeOK and RobContiguous are inductive together.            *)

RobControl == RobTypeOK /\ RobContiguous

\* The inductive invariant: the types and the interval need each other.
LEMMA RobControlInductive ==
  /\ RobInit => RobControl
  /\ RobControl /\ [RobNext]_robVars => RobControl'
<1>1. RobInit => RobControl
  <2> SUFFICES ASSUME RobInit PROVE RobContiguous
    BY InitTypes DEF RobControl
  <2>1. cmt_rob_index = 0 /\ wr_rob_index = 0 /\ \A s \in Slots : ~rob_used[s]
    BY DEF RobInit
  <2> QED
    BY <2>1, Sizes DEF RobContiguous
<1>2. ASSUME RobControl, [RobNext]_robVars
      PROVE  RobControl'
  <2>1. CASE Flush
    <3>1. /\ cmt_rob_index' = 0 /\ wr_rob_index' = 0
          /\ \A s \in Slots : ~rob_used'[s]
      BY <2>1 DEF Flush
    <3>2. RobContiguous'
      BY <3>1, Sizes DEF RobContiguous, Slots
    <3> QED
      BY <1>2, <2>1, <3>2, FlushTypes DEF RobControl
  <2>2. ASSUME NEW dec \in DecodeWindows, NEW done \in Completions, Advance(dec, done)
        PROVE  RobControl'
    BY <1>2, <2>2, AdvanceTypes, AdvanceContiguous DEF RobControl
  <2>3. CASE UNCHANGED robVars
    BY <1>2, <2>3 DEF robVars, flVars, RobControl, RobTypeOK, RobContiguous
  <2> QED
    BY <1>2, <2>1, <2>2, <2>3 DEF RobNext
<1> QED
  BY <1>1, <1>2

\* Every variable of the reorder buffer, the rename tables and the free list
\* keeps its type, whatever is decoded, completed or interrupted.
THEOREM RobTypesCorrect == RobSpec => []RobTypeOK
<1>1. RobControl => RobTypeOK
  BY DEF RobControl
<1> QED
  BY RobControlInductive, <1>1, PTL DEF RobSpec

\* The entries in use are always one circular interval, from the commit index
\* to the write index, with two allocations and two commits in one cycle.
THEOREM RobStaysContiguous == RobSpec => []RobContiguous
<1>1. RobControl => RobContiguous
  BY DEF RobControl
<1> QED
  BY RobControlInductive, <1>1, PTL DEF RobSpec

\* The decode FIFO always removes exactly the instructions the ROB writes,
\* although the ROB decides the second write without looking at the first.
THEOREM HandshakeAlwaysAgrees == RobSpec => []HandshakeAgrees
<1>1. RobControl => HandshakeAgrees
  <2> SUFFICES ASSUME RobControl, NEW n \in 0..2
               PROVE  DecodePops(n) = RobTakes(n)
    BY DEF HandshakeAgrees
  <2>1. rob_used[wr_rob_index] => rob_used[wr_rob_index_second]
    BY SecondNeedsFirst DEF RobControl
  <2>2. CASE n = 0
    BY <2>1, <2>2 DEF DecodePops, RobTakes, Ones
  <2>3. CASE n = 1
    BY <2>1, <2>3 DEF DecodePops, RobTakes, Ones
  <2>4. CASE n = 2
    BY <2>1, <2>4 DEF DecodePops, RobTakes, Ones
  <2> QED
    BY <2>2, <2>3, <2>4
<1> QED
  BY RobControlInductive, <1>1, PTL DEF RobSpec

-----------------------------------------------------------------------------
(* Precise commit.                                                         *)

\* The head is the oldest entry, and only the head is older than the next one.
LEMMA OldestTwoEntries ==
  ASSUME RobTypeOK
  PROVE  /\ Older(cmt_rob_index) = {}
         /\ Older(cmt_rob_index_second) \subseteq {cmt_rob_index}
<1>1. \A s \in Slots : Pos(s) \in 0..(ROB_SIZE - 1) /\ (Pos(s) = 0 => s = cmt_rob_index)
  BY Sizes DEF Pos, RobTypeOK, Slots
<1>2. Pos(cmt_rob_index) = 0 /\ Pos(cmt_rob_index_second) = 1
  BY Sizes DEF Pos, RobTypeOK, Slots, cmt_rob_index_second, CntNext
<1> QED
  BY <1>1, <1>2, Sizes DEF Older, InFlight

\* An edge without fault commits only what the head and its successor allow.
LEMMA AdvancePrecise ==
  ASSUME RobTypeOK, ~CommitFault, NEW dec, NEW done, Advance(dec, done)
  PROVE  CommitIsPrecise
<1> SUFFICES ASSUME NEW r \in ARegs, rename_reg_backup'[r] # rename_reg_backup[r]
             PROVE  /\ ~dff_cmt_miss_delay
                    /\ \E s \in InFlight :
                         /\ rob_rd[s] = r /\ rob_prd[s] = rename_reg_backup'[r]
                         /\ rob_predict_miss[s] => rob_op[s].op = "jump"
                         /\ \A t \in Older(s) : ~rob_predict_miss[t]
                         /\ \A t \in Older(s) \cup {s} :
                              rob_finish[t] /\ ~rob_exp[t] /\ ~Returns(rob_op[t])
  BY DEF CommitIsPrecise
<1>1. ~dff_cmt_miss_delay
  BY DEF CommitFault, predict_miss_o
<1>2. rename_reg_backup'[r] =
        IF do_rob_commit_second /\ r = rob_rd[cmt_rob_index_second]
        THEN rob_prd[cmt_rob_index_second]
        ELSE IF do_rob_commit_first /\ r = rob_rd[cmt_rob_index]
        THEN rob_prd[cmt_rob_index]
        ELSE rename_reg_backup[r]
  BY DEF Advance, AdvanceBackup
<1>3. CASE do_rob_commit_second /\ r = rob_rd[cmt_rob_index_second]
  <2>1. rob_prd[cmt_rob_index_second] = rename_reg_backup'[r]
    BY <1>2, <1>3
  <2>2. cmt_rob_index_second \in InFlight
    BY <1>3, Indices DEF do_rob_commit_second, InFlight
  <2>3. \A t \in {cmt_rob_index, cmt_rob_index_second} :
          ~rob_predict_miss[t] /\ rob_finish[t] /\ ~rob_exp[t] /\ ~Returns(rob_op[t])
    BY <1>3 DEF do_rob_commit_first, do_rob_commit_second
  <2> QED
    BY <1>1, <1>3, <2>1, <2>2, <2>3, OldestTwoEntries
<1>4. CASE do_rob_commit_first /\ r = rob_rd[cmt_rob_index]
           /\ ~(do_rob_commit_second /\ r = rob_rd[cmt_rob_index_second])
  <2>1. rob_prd[cmt_rob_index] = rename_reg_backup'[r]
    BY <1>2, <1>4
  <2>2. cmt_rob_index \in InFlight
    BY <1>4, Indices DEF do_rob_commit_first, InFlight
  <2>3. /\ rob_finish[cmt_rob_index]
        /\ ~rob_exp[cmt_rob_index]
        /\ ~Returns(rob_op[cmt_rob_index])
        /\ rob_predict_miss[cmt_rob_index] => rob_op[cmt_rob_index].op = "jump"
    BY <1>4 DEF do_rob_commit_first, CommitFault, exception, global_ret_o,
           predict_miss_o, cmt_miss
  <2> QED
    BY <1>1, <1>4, <2>1, <2>2, <2>3, OldestTwoEntries
<1> QED
  BY <1>2, <1>3, <1>4

\* A mapping becomes architectural only if its instruction and every older one
\* have finished without trap and none of the older ones was mispredicted.
THEOREM CommitsArePrecise == RobSpec => PreciseCommit
<1>1. RobControl /\ [RobNext]_robVars => [CommitIsPrecise]_robVars
  <2> SUFFICES ASSUME RobControl, RobNext PROVE CommitIsPrecise
    OBVIOUS
  <2>1. CASE Flush
    BY <2>1 DEF Flush, CommitIsPrecise
  <2>2. ASSUME ~CommitFault, NEW dec \in DecodeWindows, NEW done \in Completions,
               Advance(dec, done)
        PROVE  CommitIsPrecise
    BY <2>2, AdvancePrecise DEF RobControl
  <2> QED
    BY <2>1, <2>2 DEF RobNext
<1> QED
  BY RobControlInductive, <1>1, PTL DEF RobSpec, PreciseCommit

-----------------------------------------------------------------------------
(***************************************************************************)
(* Renaming, the free list and rollback: RenameInv, the inductive invariant  *)
(* under the four properties of RobRename that relate the rename tables, the *)
(* reorder buffer and the two read pointers of the free list, for every size *)
(* of the reorder buffer and every instruction set.                          *)
(*                                                                         *)
(* One edge allocates up to two entries, commits up to two and moves three    *)
(* pointers of a circular list.  The argument separates these: Owned says who *)
(* holds each register in terms of a set of entries with ages and a window of *)
(* free-list lines; allocating (OwnedPush), committing the oldest (OwnedPop)  *)
(* and squashing all (OwnedFlush) keep it; and an edge is at most two pushes  *)
(* followed by at most two pops (AdvanceOwned).                              *)
(***************************************************************************)

-----------------------------------------------------------------------------
(* The free list's pointers.                                               *)

\* FlNum for a given write pointer.
NumOf(wr, rd, recount) ==
  IF wr > rd THEN wr - rd
  ELSE IF wr < rd THEN FRLIST_DEPTH + wr - rd
  ELSE IF recount THEN FRLIST_DEPTH ELSE 0

\* The lap flag says whether the write pointer is a lap ahead of a read pointer.
LapOK(wr, rd, recount) == IF recount THEN wr <= rd ELSE rd <= wr

\* FlNum is NumOf the write pointer.
LEMMA FlNumIs ==
  ASSUME NEW rd \in FlLines, NEW recount \in BOOLEAN, fl_wr_line \in FlLines
  PROVE  FlNum(rd, recount) = NumOf(fl_wr_line, rd, recount)
BY FrlistDepthAssumption DEF FlNum, NumOf, FlLines

\* The fill level is at most the depth, and with the flag exact a difference.
LEMMA NumOfIs ==
  ASSUME NEW wr \in FlLines, NEW rd \in FlLines, NEW recount \in BOOLEAN
  PROVE  /\ NumOf(wr, rd, recount) \in 0..FRLIST_DEPTH
         /\ LapOK(wr, rd, recount) =>
              NumOf(wr, rd, recount)
                = IF recount THEN FRLIST_DEPTH + wr - rd ELSE wr - rd
BY FrlistDepthAssumption DEF NumOf, LapOK, FlLines

\* A line of the list.
LEMMA FlLineIs ==
  ASSUME NEW l \in FlLines, NEW i \in 0..FRLIST_DEPTH
  PROVE  FlLine(l, i) \in FlLines
BY FrlistDepthAssumption DEF FlLine, FlLines

\* An edge that reads and writes no more than the list allows moves the fill
\* level by the difference and keeps the lap flag exact, also when both pointers
\* wrap in the same cycle.
LEMMA NumStep ==
  ASSUME NEW rd \in FlLines, NEW recount \in BOOLEAN, fl_wr_line \in FlLines,
         LapOK(fl_wr_line, rd, recount), NEW nw \in 0..2, NEW nr \in 0..2,
         nr <= NumOf(fl_wr_line, rd, recount),
         NumOf(fl_wr_line, rd, recount) - nr + nw <= FRLIST_DEPTH
  PROVE  LET wr2 == CntAdd(fl_wr_line, nw, FRLIST_DEPTH)
             rd2 == CntAdd(rd, nr, FRLIST_DEPTH)
             rc2 == FlRecount(recount, rd, nw, nr)
         IN /\ wr2 \in FlLines /\ rd2 \in FlLines /\ rc2 \in BOOLEAN
            /\ LapOK(wr2, rd2, rc2)
            /\ NumOf(wr2, rd2, rc2) = NumOf(fl_wr_line, rd, recount) - nr + nw
<1> DEFINE wr2 == CntAdd(fl_wr_line, nw, FRLIST_DEPTH)
           rd2 == CntAdd(rd, nr, FRLIST_DEPTH)
           rc2 == FlRecount(recount, rd, nw, nr)
<1>1. /\ wr2 \in FlLines
      /\ wr2 = IF fl_wr_line + nw >= FRLIST_DEPTH THEN fl_wr_line + nw - FRLIST_DEPTH
                                                  ELSE fl_wr_line + nw
      /\ CntEnd(fl_wr_line, nw, FRLIST_DEPTH) <=> fl_wr_line + nw >= FRLIST_DEPTH
  BY CounterStep, FrlistDepthAssumption DEF FlLines
<1>2. /\ rd2 \in FlLines
      /\ rd2 = IF rd + nr >= FRLIST_DEPTH THEN rd + nr - FRLIST_DEPTH ELSE rd + nr
      /\ CntEnd(rd, nr, FRLIST_DEPTH) <=> rd + nr >= FRLIST_DEPTH
  BY CounterStep, FrlistDepthAssumption DEF FlLines
<1>3. rc2 \in BOOLEAN
  BY DEF FlRecount
<1>4. rc2 <=> \/ fl_wr_line + nw >= FRLIST_DEPTH
              \/ recount /\ rd + nr < FRLIST_DEPTH
  BY <1>1, <1>2, FrlistDepthAssumption DEF FlRecount, FlLines
<1> DEFINE num == NumOf(fl_wr_line, rd, recount)
           num2 == NumOf(wr2, rd2, rc2)
<1>n. /\ num \in 0..FRLIST_DEPTH
      /\ num = IF recount THEN FRLIST_DEPTH + fl_wr_line - rd ELSE fl_wr_line - rd
  BY NumOfIs
<1> HIDE DEF wr2, rd2, rc2, num
<1>5. LapOK(wr2, rd2, rc2)
  <2>1. CASE recount
    BY <1>1, <1>2, <1>4, <1>n, <2>1, FrlistDepthAssumption DEF LapOK, FlLines, num
  <2>2. CASE ~recount
    BY <1>1, <1>2, <1>4, <1>n, <2>2, FrlistDepthAssumption DEF LapOK, FlLines, num
  <2> QED
    BY <2>1, <2>2
<1>m. num2 = IF rc2 THEN FRLIST_DEPTH + wr2 - rd2 ELSE wr2 - rd2
  BY <1>1, <1>2, <1>3, <1>5, NumOfIs
<1> HIDE DEF num2
<1>6. num2 = num - nr + nw
  <2>1. CASE recount
    BY <1>1, <1>2, <1>4, <1>5, <1>n, <1>m, <2>1, FrlistDepthAssumption
    DEF FlLines, num, LapOK
  <2>2. CASE ~recount
    BY <1>1, <1>2, <1>4, <1>5, <1>n, <1>m, <2>2, FrlistDepthAssumption
    DEF FlLines, num, LapOK
  <2> QED
    BY <2>1, <2>2
<1> QED
  BY <1>1, <1>2, <1>3, <1>5, <1>6 DEF wr2, rd2, rc2, num, num2

\* The queue from a read pointer on, after the edge: what was not read, then
\* what was written.
LEMMA QueueStep ==
  ASSUME NEW rd \in FlLines, NEW recount \in BOOLEAN, fl_wr_line \in FlLines,
         LapOK(fl_wr_line, rd, recount), NEW wdata, Len(wdata) \in 0..2, NEW nr \in 0..2,
         nr <= NumOf(fl_wr_line, rd, recount),
         NumOf(fl_wr_line, rd, recount) - nr + Len(wdata) <= FRLIST_DEPTH,
         NEW nrd, NEW nrds, FreeListClock(wdata, nrd, nrds)
  PROVE  LET num == NumOf(fl_wr_line, rd, recount)
             rd2 == CntAdd(rd, nr, FRLIST_DEPTH)
         IN /\ \A i \in 0..(num - nr - 1) :
                 fl_queue'[FlLine(rd2, i)] = fl_queue[FlLine(rd, nr + i)]
            /\ \A k \in 1..Len(wdata) :
                 fl_queue'[FlLine(rd2, num - nr + k - 1)] = wdata[k]
<1> DEFINE num == NumOf(fl_wr_line, rd, recount)
           rd2 == CntAdd(rd, nr, FRLIST_DEPTH)
<1>1. /\ rd2 \in FlLines
      /\ rd2 = IF rd + nr >= FRLIST_DEPTH THEN rd + nr - FRLIST_DEPTH ELSE rd + nr
  BY CounterStep, FrlistDepthAssumption DEF FlLines
<1>2. /\ num \in 0..FRLIST_DEPTH
      /\ num = IF recount THEN FRLIST_DEPTH + fl_wr_line - rd ELSE fl_wr_line - rd
  BY NumOfIs
<1>3. \A l \in FlLines :
        fl_queue'[l] = IF Len(wdata) = 2 /\ l = CntNext(fl_wr_line, FRLIST_DEPTH)
                       THEN wdata[2]
                       ELSE IF Len(wdata) >= 1 /\ l = fl_wr_line THEN wdata[1]
                       ELSE fl_queue[l]
  BY DEF FreeListClock
<1> DEFINE nw == Len(wdata)
<1>4. nw \in 0..2 /\ nr <= num /\ num - nr + nw <= FRLIST_DEPTH
  OBVIOUS
<1> HIDE DEF num, rd2, nw
<1>5. ASSUME NEW i \in 0..(num - nr + nw - 1)
      PROVE  /\ FlLine(rd2, i) \in FlLines
             /\ i < num - nr => FlLine(rd2, i) = FlLine(rd, nr + i)
             /\ nw >= 1 => ((FlLine(rd2, i) = fl_wr_line) <=> (i = num - nr))
             /\ nw = 2 => ((FlLine(rd2, i) = CntNext(fl_wr_line, FRLIST_DEPTH))
                             <=> (i = num - nr + 1))
  <2>1. CASE recount
    BY <1>1, <1>2, <1>4, <2>1, FrlistDepthAssumption DEF FlLine, FlLines, CntNext, LapOK
  <2>2. CASE ~recount
    BY <1>1, <1>2, <1>4, <2>2, FrlistDepthAssumption DEF FlLine, FlLines, CntNext, LapOK
  <2> QED
    BY <2>1, <2>2
<1>6. ASSUME NEW i \in 0..(num - nr - 1)
      PROVE  fl_queue'[FlLine(rd2, i)] = fl_queue[FlLine(rd, nr + i)]
  <2>1. i \in 0..(num - nr + nw - 1) /\ i < num - nr
    BY <1>2, <1>4
  <2> QED
    BY <1>2, <1>3, <1>5, <2>1 DEF nw
<1>7. ASSUME NEW k \in 1..nw
      PROVE  fl_queue'[FlLine(rd2, num - nr + k - 1)] = wdata[k]
  <2> DEFINE i == num - nr + k - 1
  <2>1. i \in 0..(num - nr + nw - 1) /\ (i = num - nr <=> k = 1)
        /\ (i = num - nr + 1 <=> k = 2)
    BY <1>2, <1>4
  <2> HIDE DEF i
  <2>2. CASE k = 1
    BY <1>3, <1>4, <1>5, <2>1, <2>2 DEF nw, i
  <2>3. CASE k = 2
    BY <1>3, <1>4, <1>5, <2>1, <2>3 DEF nw, i
  <2> QED
    BY <1>4, <2>2, <2>3
<1> QED
  BY <1>6, <1>7 DEF num, rd2, nw

\* The distance between the two read pointers is the difference of their levels.
LEMMA FastFromSlow ==
  ASSUME NEW wr \in FlLines, NEW ex \in FlLines, NEW rd \in FlLines,
         NEW rcx \in BOOLEAN, NEW rc \in BOOLEAN, LapOK(wr, ex, rcx), LapOK(wr, rd, rc),
         NEW k \in Nat, NumOf(wr, ex, rcx) = NumOf(wr, rd, rc) + k
  PROVE  rd = FlLine(ex, k)
BY NumOfIs, FrlistDepthAssumption DEF FlLine, FlLines, LapOK

-----------------------------------------------------------------------------
(* Mappings, of a set S of entries with an age each (pos), destinations D,   *)
(* registers P and replaced registers L, on top of a table B.                *)

Writes(D, P, s, r) == D[s] = r /\ P[s] # 0

\* The entries of S, taken by age, leave r mapped to p: the value MappingAfter
\* computes, without its CHOOSE.
Leaves(pos, S, D, P, B, r, p) ==
  \/ /\ \A s \in S : ~Writes(D, P, s, r)
     /\ p = B[r]
  \/ \E y \in S : /\ Writes(D, P, y, r)
                  /\ \A t \in S : Writes(D, P, t, r) => pos[t] <= pos[y]
                  /\ p = P[y]

Before(pos, S, s) == {t \in S : pos[t] < pos[s]}

\* M is what the entries leave, and L of an entry what the older ones leave.
Renamed(pos, S, D, P, L, B, M) ==
  /\ \A r \in ARegs : Leaves(pos, S, D, P, B, r, M[r])
  /\ \A s \in S : P[s] # 0 => Leaves(pos, Before(pos, S, s), D, P, B, D[s], L[s])

\* Nothing changes for an entry that is not touched.
LEMMA LeavesAgree ==
  ASSUME NEW pos, NEW S, NEW D, NEW P, NEW B, NEW D2, NEW P2, NEW r, NEW p,
         \A s \in S : D2[s] = D[s] /\ P2[s] = P[s],
         Leaves(pos, S, D, P, B, r, p)
  PROVE  Leaves(pos, S, D2, P2, B, r, p)
BY DEF Leaves, Writes

\* A new youngest entry decides the mapping of its destination and no other.
LEMMA LeavesPush ==
  ASSUME NEW S, NEW w, NEW pos, \A s \in S \cup {w} : pos[s] \in Int,
         NEW D, NEW P, NEW B, NEW r, NEW p, \A s \in S : pos[s] < pos[w]
  PROVE  /\ Writes(D, P, w, r) => Leaves(pos, S \cup {w}, D, P, B, r, P[w])
         /\ ~Writes(D, P, w, r) /\ Leaves(pos, S, D, P, B, r, p) =>
              Leaves(pos, S \cup {w}, D, P, B, r, p)
BY DEF Leaves, Writes

\* Moving the oldest entry into the table changes no mapping.
LEMMA LeavesPop ==
  ASSUME NEW S, NEW pos, \A s \in S : pos[s] \in Int,
         NEW D, NEW P, NEW B, NEW B2, NEW r, NEW p,
         NEW c \in S, \A s \in S \ {c} : pos[c] < pos[s],
         B2[r] = (IF Writes(D, P, c, r) THEN P[c] ELSE B[r]),
         Leaves(pos, S, D, P, B, r, p)
  PROVE  Leaves(pos, S \ {c}, D, P, B2, r, p)
<1>1. CASE \A s \in S : ~Writes(D, P, s, r)
  BY <1>1 DEF Leaves
<1>2. ASSUME NEW y \in S, Writes(D, P, y, r), p = P[y],
             \A t \in S : Writes(D, P, t, r) => pos[t] <= pos[y]
      PROVE  Leaves(pos, S \ {c}, D, P, B2, r, p)
  <2>1. CASE y = c
    <3>1. \A s \in S \ {c} : ~Writes(D, P, s, r)
      BY <1>2, <2>1
    <3> QED
      BY <1>2, <2>1, <3>1 DEF Leaves
  <2>2. CASE y # c
    BY <1>2, <2>2 DEF Leaves
  <2> QED
    BY <2>1, <2>2
<1> QED
  BY <1>1, <1>2 DEF Leaves

\* Only the order of the ages matters.
LEMMA LeavesReorder ==
  ASSUME NEW S, NEW pos, NEW pos2, \A s \in S : pos[s] \in Int /\ pos2[s] \in Int,
         NEW D, NEW P, NEW B, NEW r, NEW p,
         \A s, t \in S : pos[s] < pos[t] <=> pos2[s] < pos2[t],
         Leaves(pos, S, D, P, B, r, p)
  PROVE  Leaves(pos2, S, D, P, B, r, p)
BY DEF Leaves, Writes

-----------------------------------------------------------------------------
\* The pushed entry's L is the mapping before it, and M follows.
LEMMA RenamedPush ==
  ASSUME NEW S \in SUBSET Slots, NEW w \in Slots \ S, NEW pos \in [Slots -> Int],
         \A s \in S : pos[s] < pos[w],
         NEW D, NEW P, NEW L, NEW D2, NEW P2, NEW L2, NEW B, NEW M, NEW M2,
         \A s \in S : D2[s] = D[s] /\ P2[s] = P[s] /\ L2[s] = L[s],
         D2[w] \in ARegs, L2[w] = M[D2[w]],
         \A r \in ARegs : M2[r] = (IF Writes(D2, P2, w, r) THEN P2[w] ELSE M[r]),
         Renamed(pos, S, D, P, L, B, M)
  PROVE  Renamed(pos, S \cup {w}, D2, P2, L2, B, M2)
<1> DEFINE T == S \cup {w}
<1>1. ASSUME NEW r \in ARegs
      PROVE  Leaves(pos, T, D2, P2, B, r, M2[r])
  <2>1. Leaves(pos, S, D2, P2, B, r, M[r])
    BY LeavesAgree DEF Renamed
  <2>2. \A s \in T : pos[s] \in Int
    OBVIOUS
  <2> QED
    BY <2>1, <2>2, LeavesPush
<1>2. \A s \in S : Before(pos, T, s) = Before(pos, S, s)
  BY DEF Before
<1>3. Before(pos, T, w) = S
  BY DEF Before
<1>4. ASSUME NEW s \in S, P2[s] # 0
      PROVE  Leaves(pos, Before(pos, T, s), D2, P2, B, D2[s], L2[s])
  <2>1. Leaves(pos, Before(pos, S, s), D, P, B, D[s], L[s])
    BY <1>4 DEF Renamed
  <2>2. \A t \in Before(pos, S, s) : D2[t] = D[t] /\ P2[t] = P[t]
    BY DEF Before
  <2>3. Leaves(pos, Before(pos, S, s), D2, P2, B, D[s], L[s])
    BY <2>1, <2>2, LeavesAgree
  <2> QED
    BY <1>2, <2>3
<1>5. Leaves(pos, Before(pos, T, w), D2, P2, B, D2[w], L2[w])
  <2>1. Leaves(pos, S, D, P, B, D2[w], M[D2[w]])
    BY DEF Renamed
  <2> QED
    BY <1>3, <2>1, LeavesAgree
<1> QED
  BY <1>1, <1>4, <1>5 DEF Renamed

\* The oldest entry's mapping goes to the table.
LEMMA RenamedPop ==
  ASSUME NEW S \in SUBSET Slots, NEW c \in S, NEW pos \in [Slots -> Int],
         \A s \in S \ {c} : pos[c] < pos[s],
         NEW D, NEW P, NEW L, NEW B, NEW B2, NEW M,
         \A s \in S : D[s] \in ARegs,
         \A r \in ARegs : B2[r] = (IF Writes(D, P, c, r) THEN P[c] ELSE B[r]),
         Renamed(pos, S, D, P, L, B, M)
  PROVE  Renamed(pos, S \ {c}, D, P, L, B2, M)
<1>1. \A r \in ARegs : Leaves(pos, S \ {c}, D, P, B2, r, M[r])
  BY LeavesPop DEF Renamed
<1>2. ASSUME NEW s \in S \ {c}, P[s] # 0
      PROVE  Leaves(pos, Before(pos, S \ {c}, s), D, P, B2, D[s], L[s])
  <2> DEFINE X == Before(pos, S, s)
  <2>1. Leaves(pos, X, D, P, B, D[s], L[s])
    BY <1>2 DEF Renamed
  <2>2. /\ c \in X /\ X \subseteq S
        /\ Before(pos, S \ {c}, s) = X \ {c}
    BY DEF Before
  <2>3. /\ \A t \in X : pos[t] \in Int
        /\ \A t \in X \ {c} : pos[c] < pos[t]
    BY <2>2
  <2> HIDE DEF X
  <2>4. B2[D[s]] = (IF Writes(D, P, c, D[s]) THEN P[c] ELSE B[D[s]])
    OBVIOUS
  <2>5. Leaves(pos, X \ {c}, D, P, B2, D[s], L[s])
    BY <2>1, <2>2, <2>3, <2>4, LeavesPop, Zenon
  <2> QED
    BY <2>2, <2>5
<1> QED
  BY <1>1, <1>2 DEF Renamed

\* Ages that order the entries in the same way.
LEMMA RenamedReorder ==
  ASSUME NEW S \in SUBSET Slots, NEW pos \in [Slots -> Int], NEW pos2 \in [Slots -> Int],
         \A s, t \in S : pos[s] < pos[t] <=> pos2[s] < pos2[t],
         NEW D, NEW P, NEW L, NEW B, NEW M,
         Renamed(pos, S, D, P, L, B, M)
  PROVE  Renamed(pos2, S, D, P, L, B, M)
<1>1. \A r \in ARegs : Leaves(pos2, S, D, P, B, r, M[r])
  BY LeavesReorder DEF Renamed
<1>2. ASSUME NEW s \in S, P[s] # 0
      PROVE  Leaves(pos2, Before(pos2, S, s), D, P, B, D[s], L[s])
  <2> DEFINE X == Before(pos, S, s)
  <2>1. Leaves(pos, X, D, P, B, D[s], L[s])
    BY <1>2 DEF Renamed
  <2>2. X \subseteq S /\ Before(pos2, S, s) = X
    BY DEF Before
  <2> HIDE DEF X
  <2> QED
    BY <2>1, <2>2, LeavesReorder
<1> QED
  BY <1>1, <1>2 DEF Renamed

\* With nothing in flight both tables are the same.
LEMMA RenamedEmpty ==
  ASSUME NEW pos, NEW D, NEW P, NEW L, NEW B
  PROVE  Renamed(pos, {}, D, P, L, B, B)
BY DEF Renamed, Leaves

-----------------------------------------------------------------------------
(* Registers.  win holds the lines of the free list from the slow read        *)
(* pointer on, m of them in use; the entries of S that have a register hold    *)
(* the first of these lines.                                                *)

AllocIn(S, P) == {s \in S : P[s] # 0}
RankIn(pos, S, P, s) == Cardinality({t \in AllocIn(S, P) : pos[t] < pos[s]})
Mapped(B) == {r \in ARegs : B[r] # 0}

\* An entry has a register exactly if it has a destination other than x0, and
\* replaces one only then; x0 is never mapped.
Entries(S, D, P, L, B, M) ==
  /\ \A s \in S : (P[s] # 0 <=> D[s] # 0) /\ (D[s] = 0 => L[s] = 0)
  /\ B[0] = 0 /\ M[0] = 0

\* How many registers there are on each side.
Counted(S, P, B, m) ==
  /\ m \in 0..FRLIST_DEPTH
  /\ Cardinality(AllocIn(S, P)) <= m
  /\ m + Cardinality(Mapped(B)) = FRLIST_DEPTH

\* The lines in use hold registers, the first of them those of the entries.
Window(pos, S, P, win, m) ==
  /\ \A i \in 0..(m - 1) : win[i] # 0
  /\ \A s \in AllocIn(S, P) : P[s] = win[RankIn(pos, S, P, s)]

\* Every register is free, in flight or committed.
Covered(S, P, B, win, m) ==
  \A x \in 1..FRLIST_DEPTH :
    \/ \E i \in Cardinality(AllocIn(S, P))..(m - 1) : win[i] = x
    \/ \E s \in S : P[s] = x
    \/ \E r \in ARegs : B[r] = x

\* The counts are of finite sets.
LEMMA Finite ==
  /\ IsFiniteSet(Slots) /\ Cardinality(Slots) = ROB_SIZE
  /\ IsFiniteSet(ARegs) /\ Cardinality(ARegs) = AREGS
  /\ \A S \in SUBSET Slots : IsFiniteSet(S) /\ Cardinality(S) \in Nat
  /\ \A S \in SUBSET ARegs : IsFiniteSet(S) /\ Cardinality(S) \in Nat
<1>1. /\ IsFiniteSet(Slots) /\ Cardinality(Slots) = ROB_SIZE
      /\ IsFiniteSet(ARegs) /\ Cardinality(ARegs) = AREGS
  BY FS_Interval, Sizes DEF Slots, ARegs
<1>2. \A S \in SUBSET Slots : IsFiniteSet(S) /\ Cardinality(S) \in Nat
  BY <1>1, FS_Subset, FS_CardinalityType
<1>3. \A S \in SUBSET ARegs : IsFiniteSet(S) /\ Cardinality(S) \in Nat
  BY <1>1, FS_Subset, FS_CardinalityType
<1> QED
  BY <1>1, <1>2, <1>3

\* There is a free register for every free entry.
LEMMA RegisterForEntry ==
  ASSUME NEW S \in SUBSET Slots, NEW D, NEW P, NEW L, NEW B, NEW M, NEW m,
         Entries(S, D, P, L, B, M), Counted(S, P, B, m)
  PROVE  /\ m - Cardinality(AllocIn(S, P)) >= ROB_SIZE - Cardinality(S)
         /\ \A w \in Slots \ S : Cardinality(AllocIn(S, P)) < m
<1>1. Cardinality(Mapped(B)) <= AREGS - 1
  <2>1. Mapped(B) \in SUBSET (ARegs \ {0})
    BY DEF Mapped, Entries
  <2>2. IsFiniteSet(ARegs \ {0}) /\ Cardinality(ARegs \ {0}) = AREGS - 1
    BY Finite, FS_RemoveElement, Sizes
  <2> QED
    BY <2>1, <2>2, FS_Subset
<1>2. Cardinality(AllocIn(S, P)) <= Cardinality(S)
  <2>1. AllocIn(S, P) \in SUBSET S
    BY DEF AllocIn
  <2> QED
    BY <2>1, Finite, FS_Subset
<1>3. AllocIn(S, P) \in SUBSET Slots /\ Mapped(B) \in SUBSET ARegs
  BY DEF AllocIn, Mapped
<1>4. /\ Cardinality(S) \in Nat /\ Cardinality(AllocIn(S, P)) \in Nat
      /\ Cardinality(Mapped(B)) \in Nat
  BY <1>3, Finite
<1>5. m - Cardinality(AllocIn(S, P)) >= ROB_SIZE - Cardinality(S)
  BY <1>1, <1>2, <1>4, RobAssumption DEF Counted
<1>6. ASSUME NEW w \in Slots \ S
      PROVE  Cardinality(S) < ROB_SIZE
  <2>1. S \in SUBSET Slots /\ S # Slots
    OBVIOUS
  <2>2. Cardinality(S) <= Cardinality(Slots) /\ Cardinality(S) # Cardinality(Slots)
    BY <2>1, Finite, FS_Subset
  <2> QED
    BY <2>2, <1>4, Finite, Sizes
<1> QED
  BY <1>4, <1>5, <1>6, Sizes DEF Counted

\* The registers of entries that are not touched.
LEMMA AllocAgree ==
  ASSUME NEW S, NEW P, NEW P2, \A s \in S : P2[s] = P[s]
  PROVE  /\ AllocIn(S, P2) = AllocIn(S, P)
         /\ \A pos, s : RankIn(pos, S, P2, s) = RankIn(pos, S, P, s)
<1>1. AllocIn(S, P2) = AllocIn(S, P)
  BY DEF AllocIn
<1> QED
  BY <1>1 DEF RankIn

\* A new youngest entry changes no rank.
LEMMA RankPush ==
  ASSUME NEW S \in SUBSET Slots, NEW w \in Slots \ S, NEW pos \in [Slots -> Int],
         \A s \in S : pos[s] < pos[w], NEW P, NEW s \in S
  PROVE  RankIn(pos, S \cup {w}, P, s) = RankIn(pos, S, P, s)
<1>1. {t \in AllocIn(S \cup {w}, P) : pos[t] < pos[s]}
        = {t \in AllocIn(S, P) : pos[t] < pos[s]}
  BY DEF AllocIn
<1> QED
  BY <1>1 DEF RankIn

\* A new youngest entry with a register has the next rank.
LEMMA AllocPush ==
  ASSUME NEW S \in SUBSET Slots, NEW w \in Slots \ S, NEW pos \in [Slots -> Int],
         \A s \in S : pos[s] < pos[w], NEW P
  PROVE  /\ Cardinality(AllocIn(S, P)) \in Nat
         /\ Cardinality(AllocIn(S \cup {w}, P))
              = Cardinality(AllocIn(S, P)) + (IF P[w] # 0 THEN 1 ELSE 0)
         /\ RankIn(pos, S \cup {w}, P, w) = Cardinality(AllocIn(S, P))
<1>1. AllocIn(S, P) \in SUBSET Slots /\ w \notin AllocIn(S, P)
  BY DEF AllocIn
<1>2. AllocIn(S \cup {w}, P) = IF P[w] # 0 THEN AllocIn(S, P) \cup {w} ELSE AllocIn(S, P)
  BY DEF AllocIn
<1>3. IsFiniteSet(AllocIn(S, P)) /\ Cardinality(AllocIn(S, P)) \in Nat
  BY <1>1, Finite
<1>4. Cardinality(AllocIn(S \cup {w}, P))
        = Cardinality(AllocIn(S, P)) + (IF P[w] # 0 THEN 1 ELSE 0)
  <2>1. Cardinality(AllocIn(S, P) \cup {w}) = Cardinality(AllocIn(S, P)) + 1
    BY <1>1, <1>3, FS_AddElement
  <2> QED
    BY <1>2, <1>3, <2>1
<1>5. RankIn(pos, S \cup {w}, P, w) = Cardinality(AllocIn(S, P))
  <2>1. {t \in AllocIn(S \cup {w}, P) : pos[t] < pos[w]} = AllocIn(S, P)
    BY <1>2 DEF AllocIn
  <2> QED
    BY <2>1 DEF RankIn
<1> QED
  BY <1>3, <1>4, <1>5

\* Without the oldest entry every rank is one less, if that entry had a register.
LEMMA RankPop ==
  ASSUME NEW S \in SUBSET Slots, NEW c \in S, NEW pos \in [Slots -> Int],
         \A s \in S \ {c} : pos[c] < pos[s], NEW P, NEW s \in S \ {c}
  PROVE  RankIn(pos, S \ {c}, P, s)
           = RankIn(pos, S, P, s) - (IF P[c] # 0 THEN 1 ELSE 0)
<1> DEFINE X == {t \in AllocIn(S, P) : pos[t] < pos[s]}
<1>1. {t \in AllocIn(S \ {c}, P) : pos[t] < pos[s]} = X \ {c}
  BY DEF AllocIn
<1>2. X \in SUBSET Slots /\ (c \in X <=> P[c] # 0)
  BY DEF AllocIn
<1>3. IsFiniteSet(X) /\ Cardinality(X) \in Nat
  BY <1>2, Finite
<1>4. RankIn(pos, S \ {c}, P, s) = Cardinality(X \ {c})
      /\ RankIn(pos, S, P, s) = Cardinality(X)
  BY <1>1 DEF RankIn
<1> HIDE DEF X
<1>5. Cardinality(X \ {c}) = IF c \in X THEN Cardinality(X) - 1 ELSE Cardinality(X)
  BY <1>3, FS_RemoveElement, Zenon
<1> QED
  BY <1>2, <1>3, <1>4, <1>5

\* One entry less has a register, if the removed one had one.
LEMMA AllocPop ==
  ASSUME NEW S \in SUBSET Slots, NEW c \in S, NEW P
  PROVE  /\ Cardinality(AllocIn(S, P)) \in Nat
         /\ Cardinality(AllocIn(S \ {c}, P))
              = Cardinality(AllocIn(S, P)) - (IF P[c] # 0 THEN 1 ELSE 0)
<1> DEFINE A == AllocIn(S, P)
           n == Cardinality(A)
           k == Cardinality(A \ {c})
<1>1. A \in SUBSET Slots /\ (c \in A <=> P[c] # 0) /\ AllocIn(S \ {c}, P) = A \ {c}
  BY DEF AllocIn
<1> HIDE DEF A
<1>2. IsFiniteSet(A) /\ n \in Nat
  BY <1>1, Finite
<1>3. k = IF c \in A THEN n - 1 ELSE n
  BY <1>2, FS_RemoveElement, Zenon
<1>4. Cardinality(AllocIn(S \ {c}, P)) = k
  BY <1>1
<1> HIDE DEF n, k
<1>5. Cardinality(AllocIn(S \ {c}, P)) = n - (IF P[c] # 0 THEN 1 ELSE 0)
  BY <1>1, <1>2, <1>3, <1>4
<1> QED
  BY <1>2, <1>5 DEF n, A

\* A rank is less than the number of entries with a register.
LEMMA RankBound ==
  ASSUME NEW S \in SUBSET Slots, NEW pos \in [Slots -> Int], NEW P,
         NEW s \in AllocIn(S, P)
  PROVE  /\ RankIn(pos, S, P, s) \in Nat
         /\ RankIn(pos, S, P, s) < Cardinality(AllocIn(S, P))
<1> DEFINE A == AllocIn(S, P)
           X == {t \in A : pos[t] < pos[s]}
<1>1. A \in SUBSET Slots /\ X \in SUBSET A /\ s \in A /\ s \notin X
  BY DEF AllocIn
<1>2. IsFiniteSet(A) /\ Cardinality(A) \in Nat
  BY <1>1, Finite
<1>3. X \in SUBSET (A \ {s})
  BY <1>1
<1>4. RankIn(pos, S, P, s) = Cardinality(X)
  BY DEF RankIn
<1> HIDE DEF A, X
<1>5. IsFiniteSet(A \ {s}) /\ Cardinality(A \ {s}) = Cardinality(A) - 1
  BY <1>1, <1>2, FS_RemoveElement
<1>6. IsFiniteSet(X) /\ Cardinality(X) <= Cardinality(A \ {s})
  BY <1>3, <1>5, FS_Subset
<1>7. Cardinality(X) \in Nat
  BY <1>6, FS_CardinalityType
<1> QED
  BY <1>2, <1>4, <1>5, <1>6, <1>7 DEF A

\* All of it together.
Owned(pos, S, D, P, L, B, M, win, m) ==
  /\ Entries(S, D, P, L, B, M)
  /\ Renamed(pos, S, D, P, L, B, M)
  /\ Counted(S, P, B, m)
  /\ Window(pos, S, P, win, m)
  /\ Covered(S, P, B, win, m)

\* Renaming one instruction: it takes the first free line if it has a
\* destination, and replaces the mapping of that destination.
LEMMA OwnedPush ==
  ASSUME NEW S \in SUBSET Slots, NEW w \in Slots \ S, NEW pos \in [Slots -> Int],
         \A s \in S : pos[s] < pos[w],
         NEW D, NEW P, NEW L, NEW D2, NEW P2, NEW L2, NEW B, NEW M, NEW M2, NEW win, NEW m,
         \A s \in S : D2[s] = D[s] /\ P2[s] = P[s] /\ L2[s] = L[s],
         D2[w] \in ARegs, L2[w] = M[D2[w]],
         P2[w] = (IF D2[w] # 0 THEN win[Cardinality(AllocIn(S, P))] ELSE 0),
         \A r \in ARegs : M2[r] = (IF D2[w] = r THEN P2[w] ELSE M[r]),
         Owned(pos, S, D, P, L, B, M, win, m)
  PROVE  Owned(pos, S \cup {w}, D2, P2, L2, B, M2, win, m)
<1> DEFINE T == S \cup {w}
           n == Cardinality(AllocIn(S, P))
<1>1. /\ Entries(S, D, P, L, B, M) /\ Renamed(pos, S, D, P, L, B, M)
      /\ Counted(S, P, B, m) /\ Window(pos, S, P, win, m) /\ Covered(S, P, B, win, m)
  BY DEF Owned
<1>2. n \in Nat /\ n < m /\ m \in Nat
  <2>1. n < m
    BY <1>1, RegisterForEntry
  <2>2. n \in Nat
    BY AllocPush
  <2> QED
    BY <2>1, <2>2, <1>1, Sizes DEF Counted
<1>3. /\ Cardinality(AllocIn(T, P2)) = n + (IF P2[w] # 0 THEN 1 ELSE 0)
      /\ \A s \in S : RankIn(pos, T, P2, s) = RankIn(pos, S, P, s)
      /\ RankIn(pos, T, P2, w) = n
  <2>1. /\ AllocIn(S, P2) = AllocIn(S, P)
        /\ \A s \in S : RankIn(pos, S, P2, s) = RankIn(pos, S, P, s)
    BY AllocAgree
  <2>2. \A s \in S : pos[s] < pos[w]
    OBVIOUS
  <2>3. Cardinality(AllocIn(T, P2))
          = Cardinality(AllocIn(S, P2)) + (IF P2[w] # 0 THEN 1 ELSE 0)
    BY ONLY <2>2, AllocPush
  <2>4. \A s \in S : RankIn(pos, T, P2, s) = RankIn(pos, S, P2, s)
    BY ONLY <2>2, RankPush
  <2>5. RankIn(pos, T, P2, w) = Cardinality(AllocIn(S, P2))
    BY ONLY <2>2, AllocPush
  <2> QED
    BY ONLY <2>1, <2>3, <2>4, <2>5
<1>4. P2[w] # 0 <=> D2[w] # 0
  BY <1>1, <1>2 DEF Window
<1>5. Entries(T, D2, P2, L2, B, M2)
  <2>1. M2[0] = 0
    BY <1>1, Sizes DEF Entries
  <2>2. D2[w] = 0 => L2[w] = 0
    BY <1>1 DEF Entries
  <2> QED
    BY <1>1, <1>4, <2>1, <2>2 DEF Entries
<1>6. Renamed(pos, T, D2, P2, L2, B, M2)
  <2>1. \A r \in ARegs : M2[r] = (IF Writes(D2, P2, w, r) THEN P2[w] ELSE M[r])
    <3> SUFFICES ASSUME NEW r \in ARegs, D2[w] = r, P2[w] = 0 PROVE M[r] = 0
      BY DEF Writes
    <3> QED
      BY <1>1, <1>4 DEF Entries
  <2> QED
    BY <1>1, <2>1, RenamedPush
<1>7. Counted(T, P2, B, m)
  BY <1>1, <1>2, <1>3 DEF Counted
<1>8. Window(pos, T, P2, win, m)
  <2>1. ASSUME NEW s \in AllocIn(T, P2)
        PROVE  P2[s] = win[RankIn(pos, T, P2, s)]
    <3>1. CASE s = w
      BY <1>3, <1>4, <2>1, <3>1 DEF AllocIn
    <3>2. CASE s \in AllocIn(S, P) /\ s \in S
      BY <1>1, <1>3, <3>2 DEF Window
    <3> QED
      BY <2>1, <3>1, <3>2 DEF AllocIn
  <2> QED
    BY <1>1, <2>1 DEF Window
<1>9. Covered(T, P2, B, win, m)
  <2> SUFFICES ASSUME NEW x \in 1..FRLIST_DEPTH
               PROVE  \/ \E i \in Cardinality(AllocIn(T, P2))..(m - 1) : win[i] = x
                      \/ \E s \in T : P2[s] = x
                      \/ \E r \in ARegs : B[r] = x
    BY DEF Covered
  <2>1. CASE \E i \in n..(m - 1) : win[i] = x
    <3>1. PICK i \in n..(m - 1) : win[i] = x
      BY <2>1
    <3>2. CASE i = n /\ P2[w] # 0
      BY <1>4, <3>1, <3>2
    <3>3. CASE ~(i = n /\ P2[w] # 0)
      <4>1. i \in Cardinality(AllocIn(T, P2))..(m - 1)
        BY <1>2, <1>3, <3>3
      <4> QED
        BY <3>1, <4>1
    <3> QED
      BY <3>2, <3>3
  <2>2. CASE \E s \in S : P[s] = x
    BY <2>2
  <2>3. CASE \E r \in ARegs : B[r] = x
    BY <2>3
  <2> QED
    BY <1>1, <2>1, <2>2, <2>3 DEF Covered
<1> QED
  BY <1>5, <1>6, <1>7, <1>8, <1>9 DEF Owned

\* The oldest entry replaces the committed mapping of its destination.
LEMMA ReplacesCommitted ==
  ASSUME NEW S \in SUBSET Slots, NEW c \in S, NEW pos \in [Slots -> Int],
         \A s \in S \ {c} : pos[c] < pos[s],
         NEW D, NEW P, NEW L, NEW B, NEW M, Renamed(pos, S, D, P, L, B, M), P[c] # 0
  PROVE  L[c] = B[D[c]]
<1>1. Before(pos, S, c) = {}
  BY DEF Before
<1>2. Leaves(pos, {}, D, P, B, D[c], L[c])
  BY <1>1 DEF Renamed
<1> QED
  BY <1>2 DEF Leaves

\* The committed table after the oldest entry commits, counted.
LEMMA MappedPop ==
  ASSUME NEW B, NEW B2, NEW d \in ARegs, NEW p, p # 0,
         \A r \in ARegs : B2[r] = (IF d = r THEN p ELSE B[r])
  PROVE  /\ Cardinality(Mapped(B)) \in Nat
         /\ Cardinality(Mapped(B2))
              = Cardinality(Mapped(B)) + (IF B[d] = 0 THEN 1 ELSE 0)
<1>1. Mapped(B) \in SUBSET ARegs /\ (d \in Mapped(B) <=> B[d] # 0)
  BY DEF Mapped
<1>2. Mapped(B2) = Mapped(B) \cup {d}
  BY DEF Mapped
<1>3. IsFiniteSet(Mapped(B)) /\ Cardinality(Mapped(B)) \in Nat
  BY <1>1, Finite
<1>4. Cardinality(Mapped(B) \cup {d})
        = IF d \in Mapped(B) THEN Cardinality(Mapped(B)) ELSE Cardinality(Mapped(B)) + 1
  BY <1>3, FS_AddElement, Zenon
<1> QED
  BY <1>1, <1>2, <1>3, <1>4

\* What the commit of entry c does to the committed table and to the window: its
\* register becomes architectural and leaves the window, and the register it
\* replaces goes to the end of it.
Retires(c, D, P, L, B, B2, win, win2, m, m2) ==
  /\ D[c] \in ARegs
  /\ \A r \in ARegs : B2[r] = (IF D[c] = r THEN P[c] ELSE B[r])
  /\ m2 = (IF P[c] # 0 /\ L[c] = 0 THEN m - 1 ELSE m)
  /\ P[c] = 0 => \A i \in 0..(m - 1) : win2[i] = win[i]
  /\ P[c] # 0 => \A i \in 0..(m - 2) : win2[i] = win[i + 1]
  /\ P[c] # 0 /\ L[c] # 0 => win2[m - 1] = L[c]

\* Committing the oldest instruction.
LEMMA OwnedPop ==
  ASSUME NEW S \in SUBSET Slots, NEW c \in S, NEW pos \in [Slots -> Int],
         \A s \in S \ {c} : pos[c] < pos[s],
         NEW D, NEW P, NEW L, NEW B, NEW B2, NEW M, NEW win, NEW win2, NEW m, NEW m2,
         \A s \in S : D[s] \in ARegs,
         Retires(c, D, P, L, B, B2, win, win2, m, m2),
         Owned(pos, S, D, P, L, B, M, win, m)
  PROVE  Owned(pos, S \ {c}, D, P, L, B2, M, win2, m2)
<1> DEFINE T == S \ {c}
           n == Cardinality(AllocIn(S, P))
<1>0. /\ D[c] \in ARegs
      /\ \A r \in ARegs : B2[r] = (IF D[c] = r THEN P[c] ELSE B[r])
      /\ m2 = (IF P[c] # 0 /\ L[c] = 0 THEN m - 1 ELSE m)
      /\ P[c] = 0 => \A i \in 0..(m - 1) : win2[i] = win[i]
      /\ P[c] # 0 => \A i \in 0..(m - 2) : win2[i] = win[i + 1]
      /\ P[c] # 0 /\ L[c] # 0 => win2[m - 1] = L[c]
  BY DEF Retires
<1> USE <1>0
<1>1. /\ Entries(S, D, P, L, B, M) /\ Renamed(pos, S, D, P, L, B, M)
      /\ Counted(S, P, B, m) /\ Window(pos, S, P, win, m) /\ Covered(S, P, B, win, m)
  BY DEF Owned
<1>2. /\ P[c] # 0 <=> D[c] # 0
      /\ P[c] = 0 => L[c] = 0
      /\ P[c] # 0 => L[c] = B[D[c]]
  <2>1. \A s \in S \ {c} : pos[c] < pos[s]
    OBVIOUS
  <2>2. ASSUME P[c] # 0 PROVE L[c] = B[D[c]]
    BY ONLY <1>1, <2>1, <2>2, ReplacesCommitted
  <2> QED
    BY <1>1, <2>2 DEF Entries
<1>3. /\ n \in Nat /\ m \in 0..FRLIST_DEPTH /\ n <= m
      /\ Cardinality(AllocIn(T, P)) = n - (IF P[c] # 0 THEN 1 ELSE 0)
      /\ Cardinality(AllocIn(T, P)) \in Nat
  <2>1. AllocIn(T, P) \in SUBSET Slots
    BY DEF AllocIn
  <2> QED
    BY <1>1, <2>1, AllocPop, Finite DEF Counted
<1>4. Entries(T, D, P, L, B2, M)
  BY <1>1, <1>2, Sizes DEF Entries
<1>5. Renamed(pos, T, D, P, L, B2, M)
  <2>1. \A r \in ARegs : B2[r] = (IF Writes(D, P, c, r) THEN P[c] ELSE B[r])
    BY <1>1, <1>2 DEF Writes, Entries
  <2>2. \A s \in S \ {c} : pos[c] < pos[s]
    OBVIOUS
  <2>3. \A s \in S : D[s] \in ARegs
    OBVIOUS
  <2> QED
    BY ONLY <1>1, <2>1, <2>2, <2>3, RenamedPop
<1>6. CASE P[c] = 0
  <2>1. m2 = m /\ \A r \in ARegs : B2[r] = B[r]
    BY <1>1, <1>2, <1>6 DEF Entries
  <2>2. AllocIn(T, P) = AllocIn(S, P) /\ Mapped(B2) = Mapped(B)
    BY <1>6, <2>1 DEF AllocIn, Mapped
  <2>3. Counted(T, P, B2, m2)
    BY <1>1, <2>1, <2>2 DEF Counted
  <2>4. Window(pos, T, P, win2, m2)
    <3>1. \A s \in AllocIn(S, P) : RankIn(pos, S, P, s) \in 0..(m - 1)
      BY <1>3, RankBound
    <3>2. \A s : RankIn(pos, T, P, s) = RankIn(pos, S, P, s)
      BY <2>2 DEF RankIn
    <3>3. \A i \in 0..(m - 1) : win2[i] = win[i] /\ win[i] # 0
      BY <1>1, <1>6 DEF Window
    <3>4. ASSUME NEW s \in AllocIn(S, P) PROVE P[s] = win2[RankIn(pos, T, P, s)]
      BY <1>1, <3>1, <3>2, <3>3 DEF Window
    <3> QED
      BY <2>1, <2>2, <3>3, <3>4 DEF Window
  <2>5. Covered(T, P, B2, win2, m2)
    BY <1>1, <1>3, <1>6, <2>1, <2>2 DEF Covered
  <2> QED
    BY <1>4, <1>5, <2>3, <2>4, <2>5 DEF Owned
<1>7. CASE P[c] # 0
  <2>1. /\ n >= 1 /\ m >= 1
        /\ Cardinality(AllocIn(T, P)) = n - 1
    BY <1>3, <1>7
  <2>2. m2 = (IF L[c] = 0 THEN m - 1 ELSE m)
    BY <1>7
  <2>3. Counted(T, P, B2, m2)
    <3>1. D[c] \in ARegs /\ \A r \in ARegs : B2[r] = (IF D[c] = r THEN P[c] ELSE B[r])
      OBVIOUS
    <3>2. /\ Cardinality(Mapped(B)) \in Nat
          /\ Cardinality(Mapped(B2)) = Cardinality(Mapped(B)) + (IF L[c] = 0 THEN 1 ELSE 0)
      <4>1. /\ Cardinality(Mapped(B)) \in Nat
            /\ Cardinality(Mapped(B2))
                 = Cardinality(Mapped(B)) + (IF B[D[c]] = 0 THEN 1 ELSE 0)
        BY ONLY <1>7, <3>1, MappedPop
      <4> QED
        BY <1>2, <1>7, <4>1
    <3> QED
      BY <1>1, <1>3, <2>1, <2>2, <3>2, Sizes DEF Counted
  <2>4. Window(pos, T, P, win2, m2)
    <3>1. ASSUME NEW i \in 0..(m2 - 1)
          PROVE  win2[i] # 0
      <4>1. CASE i < m - 1
        <5>1. i \in 0..(m - 2) /\ i + 1 \in 0..(m - 1)
          BY <1>3, <2>2, <4>1
        <5> QED
          BY <1>1, <1>7, <5>1 DEF Window
      <4>2. CASE i = m - 1 /\ L[c] # 0
        BY <1>7, <4>2
      <4> QED
        BY <1>3, <2>2, <3>1, <4>1, <4>2
    <3>2. ASSUME NEW s \in AllocIn(T, P)
          PROVE  P[s] = win2[RankIn(pos, T, P, s)]
      <4> DEFINE k == RankIn(pos, T, P, s)
                 j == RankIn(pos, S, P, s)
      <4>1. s \in AllocIn(S, P) /\ s \in S \ {c}
        BY DEF AllocIn
      <4>2. k = j - (IF P[c] # 0 THEN 1 ELSE 0)
        BY <4>1, RankPop
      <4>3. j \in Nat /\ j < n
        BY <4>1, RankBound
      <4>4. k \in Nat
        BY RankBound
      <4>5. P[s] = win[j]
        BY <1>1, <4>1 DEF Window
      <4> HIDE DEF k, j
      <4>6. k \in 0..(m - 2) /\ k + 1 = j
        BY <1>3, <1>7, <4>2, <4>3, <4>4
      <4> QED
        BY <1>7, <4>5, <4>6 DEF k
    <3> QED
      BY <3>1, <3>2 DEF Window
  <2>5. Covered(T, P, B2, win2, m2)
    <3> SUFFICES ASSUME NEW x \in 1..FRLIST_DEPTH
                 PROVE  \/ \E i \in (n - 1)..(m2 - 1) : win2[i] = x
                        \/ \E s \in T : P[s] = x
                        \/ \E r \in ARegs : B2[r] = x
      BY <2>1 DEF Covered
    <3>1. ASSUME NEW i \in n..(m - 1), win[i] = x
          PROVE  \E k \in (n - 1)..(m2 - 1) : win2[k] = x
      <4>1. i - 1 \in 0..(m - 2) /\ i - 1 \in (n - 1)..(m2 - 1)
        BY <1>3, <2>1, <2>2
      <4> QED
        BY <1>7, <3>1, <4>1
    <3>2. ASSUME NEW s \in S, P[s] = x
          PROVE  (\E t \in T : P[t] = x) \/ (\E r \in ARegs : B2[r] = x)
      <4>1. CASE s = c
        BY <3>2, <4>1
      <4> QED
        BY <3>2, <4>1
    <3>3. ASSUME NEW r \in ARegs, B[r] = x
          PROVE  \/ \E i \in (n - 1)..(m2 - 1) : win2[i] = x
                 \/ \E q \in ARegs : B2[q] = x
      <4>1. CASE r = D[c]
        <5>1. L[c] = x /\ L[c] # 0
          BY <1>2, <1>7, <3>3, <4>1
        <5>2. m - 1 \in (n - 1)..(m2 - 1) /\ win2[m - 1] = x
          BY <1>3, <1>7, <2>1, <2>2, <5>1
        <5> QED
          BY <5>2
      <4>2. CASE r # D[c]
        BY <3>3, <4>2
      <4> QED
        BY <4>1, <4>2
    <3> QED
      BY <1>1, <3>1, <3>2, <3>3 DEF Covered
  <2> QED
    BY <1>4, <1>5, <2>3, <2>4, <2>5 DEF Owned
<1> QED
  BY <1>6, <1>7

\* Ages that order the entries in the same way.
LEMMA OwnedReorder ==
  ASSUME NEW S \in SUBSET Slots, NEW pos \in [Slots -> Int], NEW pos2 \in [Slots -> Int],
         \A s, t \in S : pos[s] < pos[t] <=> pos2[s] < pos2[t],
         NEW D, NEW P, NEW L, NEW B, NEW M, NEW win, NEW m,
         Owned(pos, S, D, P, L, B, M, win, m)
  PROVE  Owned(pos2, S, D, P, L, B, M, win, m)
<1>1. Renamed(pos2, S, D, P, L, B, M)
  BY RenamedReorder DEF Owned
<1>2. ASSUME NEW s \in S PROVE RankIn(pos2, S, P, s) = RankIn(pos, S, P, s)
  <2>1. {t \in AllocIn(S, P) : pos2[t] < pos2[s]} = {t \in AllocIn(S, P) : pos[t] < pos[s]}
    BY DEF AllocIn
  <2> QED
    BY <2>1 DEF RankIn
<1>3. Window(pos2, S, P, win, m)
  <2>1. AllocIn(S, P) \subseteq S /\ Window(pos, S, P, win, m)
    BY DEF AllocIn, Owned
  <2> QED
    BY <1>2, <2>1 DEF Window
<1> QED
  BY <1>1, <1>3 DEF Owned

\* Squashing every entry: moving the fast pointer back to the slow one makes the
\* registers of the entries free again, and the committed table is the mapping.
LEMMA OwnedFlush ==
  ASSUME NEW S \in SUBSET Slots, NEW pos \in [Slots -> Int], NEW pos2,
         NEW D, NEW P, NEW L, NEW B, NEW M, NEW win, NEW m,
         Owned(pos, S, D, P, L, B, M, win, m)
  PROVE  /\ Owned(pos2, {}, D, P, L, B, B, win, m)
         /\ AllocIn({}, P) = {} /\ Cardinality(AllocIn({}, P)) = 0
<1>1. AllocIn({}, P) = {}
  BY DEF AllocIn
<1>2. Cardinality(AllocIn({}, P)) = 0
  BY <1>1, FS_EmptySet
<1>3. Entries({}, D, P, L, B, B) /\ Renamed(pos2, {}, D, P, L, B, B)
  BY RenamedEmpty DEF Owned, Entries
<1>4. Counted({}, P, B, m)
  BY <1>2, Sizes DEF Owned, Counted
<1>5. Window(pos2, {}, P, win, m)
  BY <1>1 DEF Owned, Window
<1>6. Covered({}, P, B, win, m)
  <2> SUFFICES ASSUME NEW x \in 1..FRLIST_DEPTH
               PROVE  (\E i \in 0..(m - 1) : win[i] = x) \/ (\E r \in ARegs : B[r] = x)
    BY <1>2 DEF Covered
  <2> DEFINE n == Cardinality(AllocIn(S, P))
  <2>1. m \in Nat /\ n <= m /\ n \in Nat
    <3>1. AllocIn(S, P) \in SUBSET Slots
      BY DEF AllocIn
    <3> QED
      BY <3>1, Finite, Sizes DEF Owned, Counted
  <2>2. ASSUME NEW i \in n..(m - 1), win[i] = x PROVE \E k \in 0..(m - 1) : win[k] = x
    BY <2>1, <2>2
  <2>3. ASSUME NEW s \in S, P[s] = x PROVE \E i \in 0..(m - 1) : win[i] = x
    <3>1. s \in AllocIn(S, P)
      BY <2>3 DEF AllocIn
    <3>2. RankIn(pos, S, P, s) \in 0..(m - 1)
      BY <2>1, <3>1, RankBound
    <3>3. P[s] = win[RankIn(pos, S, P, s)]
      BY <3>1 DEF Owned, Window
    <3> QED
      BY <2>3, <3>2, <3>3
  <2> QED
    BY <2>2, <2>3 DEF Owned, Covered
<1> QED
  BY <1>1, <1>2, <1>3, <1>4, <1>5, <1>6 DEF Owned

-----------------------------------------------------------------------------
(* The reorder buffer in these terms.                                       *)

Age == [s \in Slots |-> Pos(s)]
FreeWindow == [i \in FlLines |-> fl_queue[FlLine(fl_rd_excep_line, i)]]
SlowNum == FlNum(fl_rd_excep_line, fl_recount_fault)

RegistersOwned ==
  Owned(Age, InFlight, rob_rd, rob_prd, rob_lprd, rename_reg_backup, rename_reg,
        FreeWindow, SlowNum)

\* The lap flags are exact, and the fast pointer is ahead of the slow one by the
\* registers in flight.
FreeListLaps ==
  /\ LapOK(fl_wr_line, fl_rd_line, fl_recount)
  /\ LapOK(fl_wr_line, fl_rd_excep_line, fl_recount_fault)
  /\ SlowNum = FreeNum + Cardinality(AllocIn(InFlight, rob_prd))

RenameInv == RobControl /\ FreeListLaps /\ RegistersOwned

\* Every entry has an age of its own.
LEMMA AgeType ==
  ASSUME RobTypeOK
  PROVE  /\ Age \in [Slots -> Int]
         /\ \A s \in Slots : Age[s] = Pos(s) /\ Pos(s) \in 0..(ROB_SIZE - 1)
         /\ \A s, t \in Slots : Pos(s) = Pos(t) => s = t
BY Sizes DEF Age, Pos, RobTypeOK, Slots

\* An entry that can be allocated is younger than those in flight.
LEMMA NewIsYoungest ==
  ASSUME RobControl, ~rob_used[wr_rob_index]
  PROVE  /\ \A s \in InFlight : Pos(s) < Pos(wr_rob_index)
         /\ ~rob_used[wr_rob_index_second] =>
              \A s \in InFlight \cup {wr_rob_index} : Pos(s) < Pos(wr_rob_index_second)
BY Sizes
DEF RobControl, RobContiguous, RobTypeOK, InFlight, Pos, Slots, wr_rob_index_second, CntNext

\* The head is the oldest entry, and its successor the next.
LEMMA HeadIsOldest ==
  ASSUME RobTypeOK
  PROVE  /\ \A s \in Slots \ {cmt_rob_index} : Pos(cmt_rob_index) < Pos(s)
         /\ \A s \in Slots \ {cmt_rob_index, cmt_rob_index_second} :
              Pos(cmt_rob_index_second) < Pos(s)
BY Sizes DEF RobTypeOK, Pos, Slots, cmt_rob_index_second, CntNext

\* Commits move every other entry towards the head by the same distance.
LEMMA AgesAfter ==
  ASSUME RobTypeOK, NEW n \in 0..2, cmt_rob_index' = CntAdd(cmt_rob_index, n, ROB_SIZE),
         NEW s \in Slots, Pos(s) >= n
  PROVE  Pos(s)' = Pos(s) - n
<1>1. /\ cmt_rob_index' \in Slots
      /\ cmt_rob_index' = IF cmt_rob_index + n >= ROB_SIZE
                          THEN cmt_rob_index + n - ROB_SIZE ELSE cmt_rob_index + n
  BY CounterStep, Sizes DEF RobTypeOK, Slots
<1> QED
  BY <1>1, Sizes DEF RobTypeOK, Pos, Slots

\* The line n places after the slow pointer is the next one to be read, where n is
\* the number of registers in flight.
LEMMA NextFreeLines ==
  ASSUME RobTypeOK, FreeListLaps,
         NEW n \in Nat, n = Cardinality(AllocIn(InFlight, rob_prd)), NEW m, m = SlowNum
  PROVE  /\ n < m => FlRdataFirst = FreeWindow[n]
         /\ n + 1 < m => FlRdataSecond(TRUE) = FreeWindow[n + 1]
         /\ n < m => FlRdataSecond(FALSE) = FreeWindow[n]
<1>1. /\ fl_wr_line \in FlLines /\ fl_rd_line \in FlLines /\ fl_rd_excep_line \in FlLines
      /\ fl_recount \in BOOLEAN /\ fl_recount_fault \in BOOLEAN
  BY DEF RobTypeOK
<1>2. /\ FreeNum = NumOf(fl_wr_line, fl_rd_line, fl_recount)
      /\ SlowNum = NumOf(fl_wr_line, fl_rd_excep_line, fl_recount_fault)
  BY <1>1, FlNumIs DEF FreeNum, SlowNum
<1>3. fl_rd_line = FlLine(fl_rd_excep_line, n)
  BY <1>1, <1>2, FastFromSlow DEF FreeListLaps
<1>4. m \in 0..FRLIST_DEPTH
  BY <1>1, <1>2, NumOfIs
<1>5. n + 1 < m =>
        CntNext(fl_rd_line, FRLIST_DEPTH) = FlLine(fl_rd_excep_line, n + 1)
  BY <1>1, <1>3, <1>4, Sizes DEF FlLine, FlLines, CntNext
<1>6. /\ n < m => n \in FlLines
      /\ n + 1 < m => n + 1 \in FlLines
  BY <1>4, Sizes DEF FlLines
<1> QED
  BY <1>3, <1>5, <1>6 DEF FlRdataFirst, FlRdataSecond, FreeWindow

\* The instructions a window hands over, as one or two new entries.
LEMMA AdvancePushes ==
  ASSUME RenameInv, NEW dec \in DecodeWindows, NEW done, Advance(dec, done),
         NEW T, T = {s \in Slots : \/ rob_used[s]
                                   \/ do_rob_write_first(dec) /\ s = wr_rob_index
                                   \/ do_rob_write_second(dec) /\ s = wr_rob_index_second}
  PROVE  /\ Owned(Age, T, rob_rd', rob_prd', rob_lprd', rename_reg_backup, rename_reg',
                  FreeWindow, SlowNum)
         /\ Cardinality(AllocIn(T, rob_prd'))
              = Cardinality(AllocIn(InFlight, rob_prd))
                  + Ones(free_list_rd_first_en(dec), free_list_rd_second_en(dec))
<1> DEFINE w == wr_rob_index
           v == wr_rob_index_second
           n == Cardinality(AllocIn(InFlight, rob_prd))
           m == SlowNum
           B == rename_reg_backup
           wf == do_rob_write_first(dec)
           ws == do_rob_write_second(dec)
<1>1. RobTypeOK /\ RobContiguous /\ FreeListLaps /\ RegistersOwned
  BY DEF RenameInv, RobControl
<1>2. w \in Slots /\ v \in Slots /\ w # v /\ (ws => wf)
  BY <1>1, Indices, SecondNeedsFirst DEF do_rob_write_first, do_rob_write_second
<1>3. /\ Age \in [Slots -> Int] /\ InFlight \in SUBSET Slots
      /\ wf => w \in Slots \ InFlight /\ \A s \in InFlight : Age[s] < Age[w]
      /\ ws => /\ v \in Slots \ (InFlight \cup {w})
               /\ \A s \in InFlight \cup {w} : Age[s] < Age[v]
  <2>1. InFlight \in SUBSET Slots
    BY DEF InFlight
  <2>2. wf => ~rob_used[w]
    BY DEF do_rob_write_first
  <2>3. ws => ~rob_used[v]
    BY DEF do_rob_write_second
  <2>4. RobControl
    BY <1>1 DEF RobControl
  <2> QED
    BY <1>1, <1>2, <2>1, <2>2, <2>3, <2>4, AgeType, NewIsYoungest DEF InFlight
<1>4. \A s \in InFlight :
        rob_rd'[s] = rob_rd[s] /\ rob_prd'[s] = rob_prd[s] /\ rob_lprd'[s] = rob_lprd[s]
  BY <1>3 DEF Advance, AdvanceRob, AdvanceEntry, Allocate
<1>5. wf => /\ rob_rd'[w] = RdOf(dec[1]) /\ rob_prd'[w] = prd_first(dec)
            /\ rob_lprd'[w] = lprd_first(dec)
  BY <1>2 DEF Advance, AdvanceRob, AdvanceEntry, Allocate
<1>6. ws => /\ rob_rd'[v] = RdOf(dec[2]) /\ rob_prd'[v] = prd_second(dec)
            /\ rob_lprd'[v] = lprd_second(dec)
  BY <1>2 DEF Advance, AdvanceRob, AdvanceEntry, Allocate
<1>7. /\ wf => dec[1] \in Insns /\ dec[1].rd \in ARegs /\ RdOf(dec[1]) \in ARegs
               /\ (Renames(dec[1]) <=> RdOf(dec[1]) # 0)
      /\ ws => dec[2] \in Insns /\ dec[2].rd \in ARegs /\ RdOf(dec[2]) \in ARegs
               /\ (Renames(dec[2]) <=> RdOf(dec[2]) # 0)
  <2>1. /\ wf => dec[1] \in Insns
        /\ ws => dec[2] \in Insns
    BY DecWindow DEF do_rob_write_first, do_rob_write_second
  <2> QED
    BY <2>1, InsnAssumption, Sizes DEF RdOf, Renames
<1>8. n \in Nat
  <2>1. AllocIn(InFlight, rob_prd) \in SUBSET Slots
    BY <1>3 DEF AllocIn
  <2> QED
    BY <2>1, Finite
<1>9. /\ rename_reg[0] = 0
      /\ Owned(Age, InFlight, rob_rd, rob_prd, rob_lprd, B, rename_reg, FreeWindow, m)
  BY <1>1 DEF RegistersOwned, Owned, Entries
<1> DEFINE M1 == [r \in ARegs |-> IF RdOf(dec[1]) = r THEN prd_first(dec) ELSE rename_reg[r]]
<1>10. ASSUME wf
       PROVE  /\ Owned(Age, InFlight \cup {w}, rob_rd', rob_prd', rob_lprd', B, M1,
                       FreeWindow, m)
              /\ n < m
              /\ free_list_rd_first_en(dec) <=> RdOf(dec[1]) # 0
              /\ Cardinality(AllocIn(InFlight \cup {w}, rob_prd'))
                   = n + (IF free_list_rd_first_en(dec) THEN 1 ELSE 0)
  <2>1. n < m
    BY <1>3, <1>9, <1>10, RegisterForEntry DEF Owned
  <2>2. free_list_rd_first_en(dec) <=> RdOf(dec[1]) # 0
    BY <1>7, <1>10 DEF free_list_rd_first_en
  <2>3. rob_prd'[w] = (IF rob_rd'[w] # 0 THEN FreeWindow[n] ELSE 0)
    BY <1>1, <1>5, <1>8, <1>10, <2>1, <2>2, NextFreeLines DEF prd_first
  <2>4. rob_lprd'[w] = rename_reg[rob_rd'[w]]
    BY <1>5, <1>9, <1>10 DEF lprd_first, RdOf
  <2>5. rob_rd'[w] \in ARegs
    BY <1>5, <1>7, <1>10
  <2>6. \A r \in ARegs : M1[r] = (IF rob_rd'[w] = r THEN rob_prd'[w] ELSE rename_reg[r])
    BY <1>5, <1>10
  <2> HIDE DEF M1
  <2>7. w \in Slots \ InFlight /\ \A s \in InFlight : Age[s] < Age[w]
    BY <1>3, <1>10
  <2>8. Owned(Age, InFlight \cup {w}, rob_rd', rob_prd', rob_lprd', B, M1, FreeWindow, m)
    <3>1. Age \in [Slots -> Int] /\ InFlight \in SUBSET Slots
      BY <1>3
    <3>2. Owned(Age, InFlight, rob_rd, rob_prd, rob_lprd, B, rename_reg, FreeWindow, m)
      BY <1>9
    <3> QED
      BY ONLY <3>1, <3>2, <1>4, <2>3, <2>4, <2>5, <2>6, <2>7, OwnedPush
  <2>9. rob_prd'[w] # 0 <=> rob_rd'[w] # 0
    BY <2>8 DEF Owned, Entries
  <2>10. Cardinality(AllocIn(InFlight, rob_prd')) = n
    BY <1>4, AllocAgree
  <2>11. Cardinality(AllocIn(InFlight \cup {w}, rob_prd'))
           = Cardinality(AllocIn(InFlight, rob_prd')) + (IF rob_prd'[w] # 0 THEN 1 ELSE 0)
    BY ONLY <1>3, <2>7, AllocPush
  <2> QED
    BY <1>5, <1>10, <2>1, <2>2, <2>8, <2>9, <2>10, <2>11
<1> HIDE DEF M1
<1>11. ASSUME ws
       PROVE  /\ Owned(Age, InFlight \cup {w} \cup {v}, rob_rd', rob_prd', rob_lprd', B,
                       rename_reg', FreeWindow, m)
              /\ Cardinality(AllocIn(InFlight \cup {w} \cup {v}, rob_prd'))
                   = n + Ones(free_list_rd_first_en(dec), free_list_rd_second_en(dec))
  <2> DEFINE X == InFlight \cup {w}
             k == Cardinality(AllocIn(X, rob_prd'))
  <2>1. /\ Owned(Age, X, rob_rd', rob_prd', rob_lprd', B, M1, FreeWindow, m)
        /\ k = n + (IF free_list_rd_first_en(dec) THEN 1 ELSE 0)
        /\ free_list_rd_first_en(dec) <=> RdOf(dec[1]) # 0
        /\ n < m
    BY <1>2, <1>10, <1>11
  <2>2. X \in SUBSET Slots /\ v \in Slots \ X /\ \A s \in X : Age[s] < Age[v]
    BY <1>2, <1>3, <1>11
  <2> HIDE DEF X
  <2>3. k < m
    BY <2>1, <2>2, RegisterForEntry DEF Owned
  <2>4. free_list_rd_second_en(dec) <=> RdOf(dec[2]) # 0
    BY <1>7, <1>11 DEF free_list_rd_second_en
  <2>5. rob_prd'[v] = (IF rob_rd'[v] # 0 THEN FreeWindow[k] ELSE 0)
    <3>1. free_list_rd_second_en(dec) =>
            prd_second(dec) = FlRdataSecond(free_list_rd_first_en(dec))
      BY DEF prd_second
    <3>2. FlRdataSecond(free_list_rd_first_en(dec)) = FreeWindow[k]
      <4>1. CASE free_list_rd_first_en(dec)
        <5>1. k = n + 1 /\ n + 1 < m
          BY <1>8, <2>1, <2>3, <4>1
        <5>2. FlRdataSecond(free_list_rd_first_en(dec)) = FlRdataSecond(TRUE)
          BY <4>1 DEF FlRdataSecond
        <5> QED
          BY <1>1, <1>8, <5>1, <5>2, NextFreeLines
      <4>2. CASE ~free_list_rd_first_en(dec)
        <5>1. k = n
          BY <1>8, <2>1, <4>2
        <5>2. FlRdataSecond(free_list_rd_first_en(dec)) = FlRdataSecond(FALSE)
          BY <4>2 DEF FlRdataSecond
        <5> QED
          BY <1>1, <1>8, <2>1, <5>1, <5>2, NextFreeLines
      <4> QED
        BY <4>1, <4>2
    <3> QED
      BY <1>6, <1>11, <2>4, <3>1, <3>2 DEF prd_second
  <2>6. M1[0] = 0 /\ prd_first(dec) = rob_prd'[w]
    BY <1>2, <1>5, <1>11, <2>1 DEF Owned, Entries
  <2>7. rob_rd'[v] \in ARegs
    BY <1>6, <1>7, <1>11
  <2>8. \A r \in ARegs : SecondMapping(dec, r) = M1[r]
    <3> SUFFICES ASSUME NEW r \in ARegs PROVE SecondMapping(dec, r) = M1[r]
      OBVIOUS
    <3>1. CASE dec[1].uses_rd
      BY <3>1 DEF SecondMapping, M1, RdOf
    <3>2. CASE ~dec[1].uses_rd
      BY <3>2, <1>9, <2>6 DEF SecondMapping, M1, RdOf
    <3> QED
      BY <3>1, <3>2
  <2>9. rob_lprd'[v] = M1[rob_rd'[v]]
    BY <1>6, <1>7, <1>11, <2>6, <2>8 DEF lprd_second, RdOf
  <2>10. \A r \in ARegs : rename_reg'[r] = (IF rob_rd'[v] = r THEN rob_prd'[v] ELSE M1[r])
    <3> SUFFICES ASSUME NEW r \in ARegs
                 PROVE  rename_reg'[r] = (IF rob_rd'[v] = r THEN rob_prd'[v] ELSE M1[r])
      OBVIOUS
    <3>1. rename_reg'[r] =
            IF free_list_rd_second_en(dec) /\ r = dec[2].rd THEN prd_second(dec)
            ELSE IF free_list_rd_first_en(dec) /\ r = dec[1].rd THEN prd_first(dec)
            ELSE rename_reg[r]
      BY DEF Advance, AdvanceRename
    <3>2. M1[r] = IF free_list_rd_first_en(dec) /\ r = dec[1].rd THEN prd_first(dec)
                  ELSE rename_reg[r]
      <4>1. M1[r] = IF RdOf(dec[1]) = r THEN prd_first(dec) ELSE rename_reg[r]
        BY DEF M1
      <4>2. CASE free_list_rd_first_en(dec)
        BY <4>1, <4>2, <2>1 DEF RdOf
      <4>3. CASE ~free_list_rd_first_en(dec)
        BY <4>1, <4>3, <2>1, <1>9 DEF prd_first
      <4> QED
        BY <4>2, <4>3
    <3>3. CASE free_list_rd_second_en(dec)
      BY <1>6, <1>11, <2>4, <3>1, <3>2, <3>3 DEF RdOf
    <3>4. CASE ~free_list_rd_second_en(dec)
      BY <1>6, <1>11, <2>4, <2>5, <2>6, <3>1, <3>2, <3>4
    <3> QED
      BY <3>3, <3>4
  <2>11. \A s \in X : rob_rd'[s] = rob_rd'[s] /\ rob_prd'[s] = rob_prd'[s]
                      /\ rob_lprd'[s] = rob_lprd'[s]
    OBVIOUS
  <2>12. Owned(Age, X \cup {v}, rob_rd', rob_prd', rob_lprd', B, rename_reg', FreeWindow, m)
    BY ONLY <1>3, <2>1, <2>2, <2>5, <2>7, <2>9, <2>10, <2>11, OwnedPush
  <2>13. rob_prd'[v] # 0 <=> rob_rd'[v] # 0
    BY <2>12 DEF Owned, Entries
  <2>14. Cardinality(AllocIn(X \cup {v}, rob_prd'))
           = k + (IF rob_prd'[v] # 0 THEN 1 ELSE 0)
    BY ONLY <1>3, <2>2, AllocPush
  <2>15. Cardinality(AllocIn(X \cup {v}, rob_prd'))
           = n + Ones(free_list_rd_first_en(dec), free_list_rd_second_en(dec))
    BY <1>6, <1>8, <1>11, <2>1, <2>4, <2>13, <2>14 DEF Ones
  <2> QED
    BY <2>12, <2>15 DEF X
<1>12. CASE ws
  <2>1. T = InFlight \cup {w} \cup {v}
    BY <1>2, <1>12 DEF InFlight
  <2> QED
    BY <1>11, <1>12, <2>1
<1>13. CASE wf /\ ~ws
  <2>1. T = InFlight \cup {w}
    BY <1>2, <1>13 DEF InFlight
  <2>2. ~free_list_rd_second_en(dec)
    BY <1>13 DEF free_list_rd_second_en
  <2>3. rename_reg' = M1
    <3>1. \A r \in ARegs : rename_reg'[r] = M1[r]
      <4> SUFFICES ASSUME NEW r \in ARegs PROVE rename_reg'[r] = M1[r]
        OBVIOUS
      <4>1. rename_reg'[r] = IF free_list_rd_first_en(dec) /\ r = dec[1].rd
                             THEN prd_first(dec) ELSE rename_reg[r]
        BY <2>2 DEF Advance, AdvanceRename
      <4>2. M1[r] = IF RdOf(dec[1]) = r THEN prd_first(dec) ELSE rename_reg[r]
        BY DEF M1
      <4>3. CASE free_list_rd_first_en(dec)
        BY <1>10, <1>13, <4>1, <4>2, <4>3 DEF RdOf
      <4>4. CASE ~free_list_rd_first_en(dec)
        BY <1>9, <1>10, <1>13, <4>1, <4>2, <4>4 DEF prd_first
      <4> QED
        BY <4>3, <4>4
    <3>2. rename_reg' = [r \in ARegs |-> rename_reg'[r]] /\ M1 = [r \in ARegs |-> M1[r]]
      BY DEF Advance, AdvanceRename, M1
    <3> QED
      BY <3>1, <3>2
  <2>4. Owned(Age, T, rob_rd', rob_prd', rob_lprd', B, rename_reg', FreeWindow, m)
    BY <1>10, <1>13, <2>1, <2>3
  <2>5. Cardinality(AllocIn(T, rob_prd'))
          = n + Ones(free_list_rd_first_en(dec), free_list_rd_second_en(dec))
    <3>1. Cardinality(AllocIn(T, rob_prd'))
            = n + (IF free_list_rd_first_en(dec) THEN 1 ELSE 0)
      BY <1>10, <1>13, <2>1
    <3>2. Ones(free_list_rd_first_en(dec), free_list_rd_second_en(dec))
            = (IF free_list_rd_first_en(dec) THEN 1 ELSE 0)
      BY <2>2 DEF Ones
    <3> QED
      BY <3>1, <3>2
  <2> QED
    BY <2>4, <2>5
<1>14. CASE ~wf /\ ~ws
  <2>1. T = InFlight
    BY <1>14 DEF InFlight
  <2>2. ~free_list_rd_first_en(dec) /\ ~free_list_rd_second_en(dec)
    BY <1>14 DEF free_list_rd_first_en, free_list_rd_second_en
  <2>3. /\ rob_rd' = rob_rd /\ rob_prd' = rob_prd /\ rob_lprd' = rob_lprd
        /\ rename_reg' = rename_reg
    BY <1>1, <1>14, <2>2
    DEF Advance, AdvanceRob, AdvanceEntry, Allocate, AdvanceRename, RobTypeOK
  <2>4. Owned(Age, T, rob_rd', rob_prd', rob_lprd', B, rename_reg', FreeWindow, m)
    BY <1>9, <2>1, <2>3
  <2>5. Cardinality(AllocIn(T, rob_prd'))
          = n + Ones(free_list_rd_first_en(dec), free_list_rd_second_en(dec))
    BY <1>8, <2>1, <2>2, <2>3 DEF Ones
  <2> QED
    BY <2>4, <2>5
<1> QED
  BY <1>2, <1>12, <1>13, <1>14

\* How many registers two removals take out of flight.
LEMMA AllocPopTwo ==
  ASSUME NEW S \in SUBSET Slots, NEW c \in S, NEW d \in S \ {c}, NEW P
  PROVE  LET k == Cardinality(AllocIn(S \ {c, d}, P))
         IN k \in Nat /\ k = Cardinality(AllocIn(S, P)) - Ones(P[c] # 0, P[d] # 0)
<1> DEFINE T == S \ {c}
<1>1. /\ Cardinality(AllocIn(S, P)) \in Nat
      /\ Cardinality(AllocIn(T, P))
           = Cardinality(AllocIn(S, P)) - (IF P[c] # 0 THEN 1 ELSE 0)
  BY AllocPop
<1>2. T \in SUBSET Slots /\ d \in T /\ T \ {d} = S \ {c, d}
  OBVIOUS
<1> HIDE DEF T
<1>3. /\ Cardinality(AllocIn(T, P)) \in Nat
      /\ Cardinality(AllocIn(T \ {d}, P))
           = Cardinality(AllocIn(T, P)) - (IF P[d] # 0 THEN 1 ELSE 0)
  BY ONLY <1>2, AllocPop
<1>4. AllocIn(T \ {d}, P) \in SUBSET Slots
  BY <1>2 DEF AllocIn
<1>5. Cardinality(AllocIn(T \ {d}, P)) \in Nat
  BY <1>4, Finite
<1> QED
  BY <1>1, <1>2, <1>3, <1>5 DEF Ones

\* Two commits in one edge, as two removals.
LEMMA OwnedPopTwo ==
  ASSUME NEW S \in SUBSET Slots, NEW c \in S, NEW d \in S \ {c}, NEW pos \in [Slots -> Int],
         \A s \in S \ {c} : pos[c] < pos[s],
         \A s \in S \ {c, d} : pos[d] < pos[s],
         NEW D, NEW P, NEW L, NEW B, NEW B2, NEW M, NEW win, NEW win2, NEW m, NEW m2,
         NEW nr, nr = Ones(P[c] # 0, P[d] # 0), NEW nw, nw = Ones(L[c] # 0, L[d] # 0),
         \A s \in S : D[s] \in ARegs,
         \A r \in ARegs : B2[r] = (IF D[d] = r THEN P[d] ELSE IF D[c] = r THEN P[c] ELSE B[r]),
         m2 = m - nr + nw,
         \A i \in 0..(m - nr - 1) : win2[i] = win[nr + i],
         L[c] # 0 => win2[m - nr] = L[c],
         L[d] # 0 => win2[m - nr + nw - 1] = L[d],
         Owned(pos, S, D, P, L, B, M, win, m)
  PROVE  Owned(pos, S \ {c, d}, D, P, L, B2, M, win2, m2)
<1> DEFINE T == S \ {c}
           m1 == IF P[c] # 0 /\ L[c] = 0 THEN m - 1 ELSE m
           win1 == IF P[c] = 0 THEN win
                   ELSE [i \in FlLines |-> IF i < m - 1 THEN win[i + 1] ELSE L[c]]
           B1 == [r \in ARegs |-> IF D[c] = r THEN P[c] ELSE B[r]]
<1>1. /\ m \in 0..FRLIST_DEPTH
      /\ L[c] # 0 => P[c] # 0
      /\ L[d] # 0 => P[d] # 0
  BY DEF Owned, Counted, Entries
<1>2. /\ P[c] # 0 => m >= 1
      /\ P[c] # 0 /\ P[d] # 0 => m >= 2
      /\ P[d] # 0 => m >= 1
  <2>1. LET k == Cardinality(AllocIn(S \ {c, d}, P))
        IN k \in Nat /\ k = Cardinality(AllocIn(S, P)) - Ones(P[c] # 0, P[d] # 0)
    BY AllocPopTwo
  <2>2. AllocIn(S, P) \in SUBSET Slots
    BY DEF AllocIn
  <2>3. Cardinality(AllocIn(S, P)) \in Nat /\ Cardinality(AllocIn(S, P)) <= m
    BY <2>2, Finite DEF Owned, Counted
  <2> QED
    BY <1>1, <2>1, <2>3 DEF Ones
<1>3. Owned(pos, S \ {c}, D, P, L, B1, M, win1, m1)
  <2>1. \A r \in ARegs : B1[r] = (IF D[c] = r THEN P[c] ELSE B[r])
    OBVIOUS
  <2>2. P[c] = 0 => \A i \in 0..(m - 1) : win1[i] = win[i]
    OBVIOUS
  <2>3. P[c] # 0 => \A i \in 0..(m - 2) : win1[i] = win[i + 1]
    BY <1>1, Sizes DEF FlLines
  <2>4. P[c] # 0 /\ L[c] # 0 => win1[m - 1] = L[c]
    BY <1>1, <1>2, Sizes DEF FlLines
  <2>6. \A s \in S \ {c} : pos[c] < pos[s]
    OBVIOUS
  <2>7. Retires(c, D, P, L, B, B1, win, win1, m, m1)
    BY <2>1, <2>2, <2>3, <2>4 DEF Retires
  <2>8. Owned(pos, S, D, P, L, B, M, win, m)
    OBVIOUS
  <2>9. \A s \in S : D[s] \in ARegs
    OBVIOUS
  <2> HIDE DEF win1, m1, B1
  <2> QED
    BY ONLY <2>6, <2>7, <2>8, <2>9, OwnedPop
<1>4. T \in SUBSET Slots /\ d \in T /\ T \ {d} = S \ {c, d} /\ T = S \ {c}
  OBVIOUS
<1>5. Owned(pos, T \ {d}, D, P, L, B2, M, win2, m2)
  <2>1. \A r \in ARegs : B2[r] = (IF D[d] = r THEN P[d] ELSE B1[r])
    OBVIOUS
  <2>2. \A s \in T \ {d} : pos[d] < pos[s]
    OBVIOUS
  <2>8. \A s \in T : D[s] \in ARegs
    OBVIOUS
  <2>9. Owned(pos, T, D, P, L, B1, M, win1, m1)
    BY <1>3
  <2>3. /\ P[c] = 0 => \A i \in 0..(m - 1) : win1[i] = win[i]
        /\ P[c] # 0 => \A i \in 0..(m - 2) : win1[i] = win[i + 1]
        /\ P[c] # 0 /\ L[c] # 0 => win1[m - 1] = L[c]
        /\ m1 = (IF P[c] # 0 /\ L[c] = 0 THEN m - 1 ELSE m)
    BY <1>1, <1>2, Sizes DEF FlLines
  <2> HIDE DEF win1, m1, B1, T
  <2>4. m2 = (IF P[d] # 0 /\ L[d] = 0 THEN m1 - 1 ELSE m1)
    BY <1>1, <2>3 DEF Ones
  <2>5. ASSUME P[d] = 0
        PROVE  \A i \in 0..(m1 - 1) : win2[i] = win1[i]
    BY <1>1, <1>2, <2>3, <2>5 DEF Ones
  <2>6. ASSUME P[d] # 0
        PROVE  \A i \in 0..(m1 - 2) : win2[i] = win1[i + 1]
    <3>1. CASE P[c] = 0
      BY <1>1, <1>2, <2>3, <2>6, <3>1 DEF Ones
    <3>2. CASE P[c] # 0
      <4>1. nr = 2
        BY <2>6, <3>2 DEF Ones
      <4>2. \A i \in 0..(m - 3) : win2[i] = win[2 + i] /\ win1[i + 1] = win[2 + i]
        BY <1>1, <1>2, <2>3, <3>2, <4>1
      <4>3. L[c] # 0 => win2[m - 2] = L[c] /\ win1[m - 1] = L[c]
        BY <1>1, <2>3, <3>2, <4>1
      <4> QED
        BY <1>1, <1>2, <2>3, <2>6, <3>2, <4>2, <4>3
    <3> QED
      BY <3>1, <3>2
  <2>7. ASSUME P[d] # 0, L[d] # 0
        PROVE  win2[m1 - 1] = L[d]
    BY <1>1, <1>2, <2>3, <2>7 DEF Ones
  <2>10. P[d] = 0 => \A i \in 0..(m1 - 1) : win2[i] = win1[i]
    BY ONLY <2>5
  <2>11. P[d] # 0 => \A i \in 0..(m1 - 2) : win2[i] = win1[i + 1]
    BY ONLY <2>6
  <2>12. P[d] # 0 /\ L[d] # 0 => win2[m1 - 1] = L[d]
    BY ONLY <2>7
  <2>13. Retires(d, D, P, L, B1, B2, win1, win2, m1, m2)
    BY <1>4, <2>1, <2>4, <2>8, <2>10, <2>11, <2>12 DEF Retires
  <2> QED
    BY ONLY <1>4, <2>2, <2>8, <2>9, <2>13, OwnedPop
<1> QED
  BY <1>4, <1>5

-----------------------------------------------------------------------------
(* An edge without fault.                                                   *)

\* The registers the commits return to the list, in order.
LEMMA FreedIs ==
  ASSUME RobTypeOK, NEW fc, fc = (do_rob_commit_first /\ rob_lprd[cmt_rob_index] # 0),
         NEW fd, fd = (do_rob_commit_second /\ rob_lprd[cmt_rob_index_second] # 0)
  PROVE  /\ Len(FreedRegs) = Ones(fc, fd) /\ Len(FreedRegs) \in 0..2
         /\ fc => FreedRegs[1] = rob_lprd[cmt_rob_index]
         /\ fd => FreedRegs[Len(FreedRegs)] = rob_lprd[cmt_rob_index_second]
<1> DEFINE p == rob_lprd[cmt_rob_index]
           q == rob_lprd[cmt_rob_index_second]
<1>1. FreedRegs = (IF fc THEN <<p>> ELSE << >>) \o (IF fd THEN <<q>> ELSE << >>)
  BY Zenon DEF FreedRegs
<1>2. p \in PRegs /\ q \in PRegs
  BY Indices DEF RobTypeOK
<1>7. LET pq == <<p>> \o <<q>> IN Len(pq) = 2 /\ pq[1] = p /\ pq[2] = q
  BY <1>2
<1> HIDE DEF p, q
<1>3. CASE fc /\ fd
  <2>1. FreedRegs = <<p>> \o <<q>>
    BY <1>1, <1>3, Zenon
  <2>2. Len(FreedRegs) = 2 /\ FreedRegs[1] = p /\ FreedRegs[2] = q
    BY <1>7, <2>1
  <2> QED
    BY <1>2, <1>3, <2>2 DEF Ones, p, q
<1>4. CASE fc /\ ~fd
  <2>1. FreedRegs = <<p>> \o << >>
    BY <1>1, <1>4, Zenon
  <2>2. FreedRegs = <<p>>
    BY <1>2, <2>1
  <2> QED
    BY <1>2, <1>4, <2>2 DEF Ones, p
<1>5. CASE ~fc /\ fd
  <2>1. FreedRegs = << >> \o <<q>>
    BY <1>1, <1>5, Zenon
  <2>2. FreedRegs = <<q>>
    BY <1>2, <2>1
  <2> QED
    BY <1>2, <1>5, <2>2 DEF Ones, q
<1>6. CASE ~fc /\ ~fd
  <2>1. FreedRegs = << >> \o << >>
    BY <1>1, <1>6, Zenon
  <2>2. FreedRegs = << >>
    BY <2>1
  <2> QED
    BY <1>6, <2>2 DEF Ones
<1> QED
  BY <1>3, <1>4, <1>5, <1>6

\* Both read pointers of the free list after an edge.
LEMMA FreeListAdvances ==
  ASSUME RobTypeOK, FreeListLaps, NEW wdata, Len(wdata) \in 0..2,
         NEW nrd \in 0..2, NEW nrds \in 0..2, FreeListClock(wdata, nrd, nrds),
         nrds <= SlowNum, SlowNum - nrds + Len(wdata) <= FRLIST_DEPTH,
         nrd <= FreeNum, FreeNum - nrd + Len(wdata) <= FRLIST_DEPTH
  PROVE  /\ LapOK(fl_wr_line', fl_rd_line', fl_recount')
         /\ LapOK(fl_wr_line', fl_rd_excep_line', fl_recount_fault')
         /\ SlowNum' = SlowNum - nrds + Len(wdata)
         /\ FreeNum' = FreeNum - nrd + Len(wdata)
         /\ \A i \in 0..(SlowNum - nrds - 1) : FreeWindow'[i] = FreeWindow[nrds + i]
         /\ \A k \in 1..Len(wdata) : FreeWindow'[SlowNum - nrds + k - 1] = wdata[k]
<1> DEFINE nw == Len(wdata)
<1>1. /\ fl_wr_line \in FlLines /\ fl_rd_line \in FlLines /\ fl_rd_excep_line \in FlLines
      /\ fl_recount \in BOOLEAN /\ fl_recount_fault \in BOOLEAN
  BY DEF RobTypeOK
<1>2. /\ FreeNum = NumOf(fl_wr_line, fl_rd_line, fl_recount)
      /\ SlowNum = NumOf(fl_wr_line, fl_rd_excep_line, fl_recount_fault)
  BY <1>1, FlNumIs DEF FreeNum, SlowNum
<1>3. /\ LapOK(fl_wr_line, fl_rd_line, fl_recount)
      /\ LapOK(fl_wr_line, fl_rd_excep_line, fl_recount_fault)
  BY DEF FreeListLaps
<1>4. /\ fl_wr_line' = CntAdd(fl_wr_line, nw, FRLIST_DEPTH)
      /\ fl_rd_line' = CntAdd(fl_rd_line, nrd, FRLIST_DEPTH)
      /\ fl_rd_excep_line' = CntAdd(fl_rd_excep_line, nrds, FRLIST_DEPTH)
      /\ fl_recount' = FlRecount(fl_recount, fl_rd_line, nw, nrd)
      /\ fl_recount_fault' = FlRecount(fl_recount_fault, fl_rd_excep_line, nw, nrds)
  BY DEF FreeListClock
<1>5. /\ nrd <= NumOf(fl_wr_line, fl_rd_line, fl_recount)
      /\ NumOf(fl_wr_line, fl_rd_line, fl_recount) - nrd + nw <= FRLIST_DEPTH
      /\ nrds <= NumOf(fl_wr_line, fl_rd_excep_line, fl_recount_fault)
      /\ NumOf(fl_wr_line, fl_rd_excep_line, fl_recount_fault) - nrds + nw <= FRLIST_DEPTH
      /\ nw \in 0..2
  BY <1>2
<1> HIDE DEF nw
<1>6. /\ fl_wr_line' \in FlLines /\ fl_rd_line' \in FlLines /\ fl_recount' \in BOOLEAN
      /\ LapOK(fl_wr_line', fl_rd_line', fl_recount')
      /\ NumOf(fl_wr_line', fl_rd_line', fl_recount')
           = NumOf(fl_wr_line, fl_rd_line, fl_recount) - nrd + nw
  BY ONLY <1>1, <1>3, <1>4, <1>5, NumStep
<1>7. /\ fl_rd_excep_line' \in FlLines /\ fl_recount_fault' \in BOOLEAN
      /\ LapOK(fl_wr_line', fl_rd_excep_line', fl_recount_fault')
      /\ NumOf(fl_wr_line', fl_rd_excep_line', fl_recount_fault')
           = NumOf(fl_wr_line, fl_rd_excep_line, fl_recount_fault) - nrds + nw
  BY ONLY <1>1, <1>3, <1>4, <1>5, NumStep
<1>8. /\ FreeNum' = NumOf(fl_wr_line', fl_rd_line', fl_recount')
      /\ SlowNum' = NumOf(fl_wr_line', fl_rd_excep_line', fl_recount_fault')
  BY <1>6, <1>7, FrlistDepthAssumption DEF FreeNum, SlowNum, FlNum, NumOf, FlLines
<1>9. /\ \A i \in 0..(SlowNum - nrds - 1) :
           fl_queue'[FlLine(fl_rd_excep_line', i)] = fl_queue[FlLine(fl_rd_excep_line, nrds + i)]
      /\ \A k \in 1..nw :
           fl_queue'[FlLine(fl_rd_excep_line', SlowNum - nrds + k - 1)] = wdata[k]
  <2>1. Len(wdata) \in 0..2
        /\ NumOf(fl_wr_line, fl_rd_excep_line, fl_recount_fault) - nrds + Len(wdata)
             <= FRLIST_DEPTH
    BY <1>5 DEF nw
  <2>2. FreeListClock(wdata, nrd, nrds)
    OBVIOUS
  <2> DEFINE num == NumOf(fl_wr_line, fl_rd_excep_line, fl_recount_fault)
             rd2 == CntAdd(fl_rd_excep_line, nrds, FRLIST_DEPTH)
  <2>3. /\ \A i \in 0..(num - nrds - 1) :
             fl_queue'[FlLine(rd2, i)] = fl_queue[FlLine(fl_rd_excep_line, nrds + i)]
        /\ \A k \in 1..Len(wdata) :
             fl_queue'[FlLine(rd2, num - nrds + k - 1)] = wdata[k]
    BY ONLY <1>1, <1>3, <1>5, <2>1, <2>2, nrds \in 0..2, QueueStep
  <2> QED
    BY <1>2, <1>4, <2>3 DEF nw
<1>10. SlowNum \in 0..FRLIST_DEPTH
  BY <1>1, <1>2, NumOfIs
<1>11. ASSUME NEW i \in 0..(SlowNum - nrds - 1)
       PROVE  FreeWindow'[i] = FreeWindow[nrds + i]
  <2>1. i \in FlLines /\ nrds + i \in FlLines
    BY <1>10, FrlistDepthAssumption DEF FlLines
  <2> QED
    BY <1>9, <2>1 DEF FreeWindow
<1>12. ASSUME NEW k \in 1..nw
       PROVE  FreeWindow'[SlowNum - nrds + k - 1] = wdata[k]
  <2>1. SlowNum - nrds + k - 1 \in FlLines
    <3>1. /\ nrds \in 0..2 /\ nw \in 0..2 /\ k \in 1..nw
          /\ nrds <= SlowNum /\ SlowNum - nrds + nw <= FRLIST_DEPTH
      BY <1>2, <1>5
    <3> QED
      BY ONLY <1>10, <3>1, FrlistDepthAssumption DEF FlLines
  <2> QED
    BY <1>9, <2>1 DEF FreeWindow
<1> QED
  BY <1>2, <1>6, <1>7, <1>8, <1>11, <1>12 DEF nw

\* An edge leaves the fields of the entries in flight alone.
LEMMA EntriesKept ==
  ASSUME RobTypeOK, NEW dec, NEW done, Advance(dec, done), NEW s \in InFlight
  PROVE  rob_rd'[s] = rob_rd[s] /\ rob_prd'[s] = rob_prd[s] /\ rob_lprd'[s] = rob_lprd[s]
<1>1. /\ do_rob_write_first(dec) => s # wr_rob_index
      /\ do_rob_write_second(dec) => s # wr_rob_index_second
      /\ s \in Slots
  BY DEF InFlight, do_rob_write_first, do_rob_write_second
<1> QED
  BY <1>1 DEF Advance, AdvanceRob, AdvanceEntry, Allocate

\* Which entries commit: the head, and its successor only with it.
LEMMA CommitsAreOldest ==
  ASSUME RobControl
  PROVE  /\ do_rob_commit_first => cmt_rob_index \in InFlight
         /\ do_rob_commit_second => /\ do_rob_commit_first
                                    /\ cmt_rob_index_second \in InFlight \ {cmt_rob_index}
         /\ ~do_rob_commit_first => Committing = {}
         /\ do_rob_commit_first /\ ~do_rob_commit_second => Committing = {cmt_rob_index}
         /\ do_rob_commit_second => Committing = {cmt_rob_index, cmt_rob_index_second}
<1>1. /\ cmt_rob_index \in Slots /\ cmt_rob_index_second \in Slots
      /\ cmt_rob_index # cmt_rob_index_second
  BY Sizes DEF RobControl, RobTypeOK, Slots, cmt_rob_index_second, CntNext
<1>2. do_rob_commit_second => do_rob_commit_first
  BY DEF do_rob_commit_second
<1>3. /\ do_rob_commit_first => cmt_rob_index \in InFlight
      /\ do_rob_commit_second => cmt_rob_index_second \in InFlight
  BY <1>1 DEF do_rob_commit_first, do_rob_commit_second, InFlight
<1> QED
  BY <1>1, <1>2, <1>3 DEF Committing

\* An edge without fault is two allocations followed by two commits: the registers
\* stay owned, and both pointers of the free list stay exact.
LEMMA AdvanceOwned ==
  ASSUME RenameInv, NEW dec \in DecodeWindows, NEW done \in Completions, Advance(dec, done)
  PROVE  (FreeListLaps /\ RegistersOwned)'
<1> DEFINE c == cmt_rob_index
           d == cmt_rob_index_second
           cf == do_rob_commit_first
           cs == do_rob_commit_second
           m == SlowNum
           a == Cardinality(AllocIn(InFlight, rob_prd))
           nrd == Ones(free_list_rd_first_en(dec), free_list_rd_second_en(dec))
           nrds == Ones(cf /\ rob_prd[c] # 0, cs /\ rob_prd[d] # 0)
           nw == Ones(cf /\ rob_lprd[c] # 0, cs /\ rob_lprd[d] # 0)
           T == {s \in Slots : \/ rob_used[s]
                               \/ do_rob_write_first(dec) /\ s = wr_rob_index
                               \/ do_rob_write_second(dec) /\ s = wr_rob_index_second}
           k == Cardinality(AllocIn(T, rob_prd'))
<1>1. RobControl /\ RobTypeOK /\ FreeListLaps /\ RegistersOwned
  BY DEF RenameInv, RobControl
<1>2. RobTypeOK'
  BY <1>1, AdvanceTypes
<1>3. /\ Owned(Age, T, rob_rd', rob_prd', rob_lprd', rename_reg_backup, rename_reg',
               FreeWindow, m)
      /\ k = a + nrd
  BY AdvancePushes
<1>4. InFlight \subseteq T /\ T \in SUBSET Slots /\ Age \in [Slots -> Int]
  BY <1>1, AgeType DEF InFlight
<1>5. /\ cf => /\ c \in T /\ c \in InFlight
               /\ \A s \in T \ {c} : Age[c] < Age[s]
      /\ cs => /\ cf /\ d \in T \ {c} /\ d \in InFlight
               /\ \A s \in T \ {c, d} : Age[d] < Age[s]
  <2>1. /\ cf => c \in InFlight
        /\ cs => cf /\ d \in InFlight \ {c}
    BY <1>1, CommitsAreOldest
  <2>2. /\ \A s \in Slots \ {c} : Pos(c) < Pos(s)
        /\ \A s \in Slots \ {c, d} : Pos(d) < Pos(s)
    BY <1>1, HeadIsOldest
  <2>3. \A s \in Slots : Age[s] = Pos(s)
    BY DEF Age
  <2> QED
    BY <1>4, <2>1, <2>2, <2>3
<1>6. /\ cf => rob_rd'[c] = rob_rd[c] /\ rob_prd'[c] = rob_prd[c] /\ rob_lprd'[c] = rob_lprd[c]
      /\ cs => rob_rd'[d] = rob_rd[d] /\ rob_prd'[d] = rob_prd[d] /\ rob_lprd'[d] = rob_lprd[d]
  BY <1>1, <1>5, EntriesKept
<1>7. \A s \in T : rob_rd'[s] \in ARegs
  BY <1>2, <1>4 DEF RobTypeOK
<1>8. InFlight' = T \ Committing
  BY DEF InFlight, Advance, AdvanceRob, AdvanceUsed, Allocate
<1>9. /\ a \in Nat /\ k \in Nat /\ m \in 0..FRLIST_DEPTH /\ k <= m
      /\ m = FreeNum + a /\ FreeNum \in Nat
  <2>1. AllocIn(InFlight, rob_prd) \in SUBSET Slots /\ AllocIn(T, rob_prd') \in SUBSET Slots
    BY <1>4 DEF AllocIn
  <2>2. a \in Nat /\ k \in Nat
    BY <2>1, Finite
  <2>3. m \in 0..FRLIST_DEPTH /\ k <= m
    BY <1>3 DEF Owned, Counted
  <2>4. m = FreeNum + a
    BY <1>1 DEF FreeListLaps
  <2>5. FreeNum \in Nat
    BY <1>1, Sizes DEF FreeNum, FlNum, RobTypeOK, FlLines
  <2> QED
    BY <2>2, <2>3, <2>4, <2>5
<1>10. nrd \in 0..2 /\ nrds \in 0..2 /\ nw \in 0..2
  BY DEF Ones
<1>11. /\ nrds <= k
       /\ Cardinality(AllocIn(InFlight', rob_prd')) = k - nrds
  <2>1. CASE ~cf
    <3>1. nrds = 0
      BY <1>5, <2>1 DEF Ones
    <3>2. InFlight' = T
      BY <1>1, <1>8, <2>1, CommitsAreOldest
    <3> HIDE DEF nrds, T
    <3> QED
      BY <1>9, <3>1, <3>2
  <2>2. CASE cf /\ ~cs
    <3>1. InFlight' = T \ {c}
      BY <1>1, <1>8, <2>2, CommitsAreOldest
    <3>2. Cardinality(AllocIn(T \ {c}, rob_prd')) = k - (IF rob_prd'[c] # 0 THEN 1 ELSE 0)
      BY <1>4, <1>5, <2>2, AllocPop
    <3>3. AllocIn(T \ {c}, rob_prd') \in SUBSET Slots
      BY <1>4 DEF AllocIn
    <3>4. Cardinality(AllocIn(T \ {c}, rob_prd')) \in Nat
      BY <3>3, Finite
    <3>5. nrds = IF rob_prd'[c] # 0 THEN 1 ELSE 0
      BY <1>6, <2>2 DEF Ones
    <3> QED
      BY <1>9, <3>1, <3>2, <3>4, <3>5
  <2>3. CASE cs
    <3>1. InFlight' = T \ {c, d}
      BY <1>1, <1>8, <2>3, CommitsAreOldest
    <3>2. /\ Cardinality(AllocIn(T \ {c, d}, rob_prd'))
               = k - Ones(rob_prd'[c] # 0, rob_prd'[d] # 0)
          /\ Cardinality(AllocIn(T \ {c, d}, rob_prd')) \in Nat
      <4>1. T \in SUBSET Slots /\ c \in T /\ d \in T \ {c}
        BY <1>4, <1>5, <2>3
      <4> HIDE DEF T
      <4> QED
        BY ONLY <4>1, AllocPopTwo
    <3>3. nrds = Ones(rob_prd'[c] # 0, rob_prd'[d] # 0)
      BY <1>5, <1>6, <2>3
    <3> QED
      BY <1>9, <1>10, <3>1, <3>2, <3>3
  <2> QED
    BY <2>1, <2>2, <2>3
<1>12. nw <= nrds
  <2>1. \A s \in T : rob_lprd'[s] # 0 => rob_prd'[s] # 0
    BY <1>3 DEF Owned, Entries
  <2> QED
    BY <1>5, <1>6, <2>1 DEF Ones
<1>13. /\ LapOK(fl_wr_line', fl_rd_line', fl_recount')
       /\ LapOK(fl_wr_line', fl_rd_excep_line', fl_recount_fault')
       /\ SlowNum' = m - nrds + nw
       /\ FreeNum' = FreeNum - nrd + nw
       /\ \A i \in 0..(m - nrds - 1) : FreeWindow'[i] = FreeWindow[nrds + i]
       /\ \A j \in 1..nw : FreeWindow'[m - nrds + j - 1] = FreedRegs[j]
  <2>1. nw = Len(FreedRegs)
    BY <1>1, FreedIs
  <2>2. FreeListClock(FreedRegs, nrd, nrds)
    BY DEF Advance, AdvanceFreeList
  <2>3. /\ nrds <= m /\ m - nrds + nw <= FRLIST_DEPTH
        /\ nrd <= FreeNum /\ FreeNum - nrd + nw <= FRLIST_DEPTH
    <3> HIDE DEF k, a, m, nrd, nrds, nw
    <3> QED
      BY <1>3, <1>9, <1>10, <1>11, <1>12, Sizes
  <2> HIDE DEF nrd, nrds, nw
  <2> QED
    <3>1. Len(FreedRegs) \in 0..2 /\ nrd \in 0..2 /\ nrds \in 0..2
      BY <1>10, <2>1
    <3>2. /\ nrds <= SlowNum /\ SlowNum - nrds + Len(FreedRegs) <= FRLIST_DEPTH
          /\ nrd <= FreeNum /\ FreeNum - nrd + Len(FreedRegs) <= FRLIST_DEPTH
      BY <2>1, <2>3
    <3>3. /\ LapOK(fl_wr_line', fl_rd_line', fl_recount')
          /\ LapOK(fl_wr_line', fl_rd_excep_line', fl_recount_fault')
          /\ SlowNum' = SlowNum - nrds + Len(FreedRegs)
          /\ FreeNum' = FreeNum - nrd + Len(FreedRegs)
          /\ \A i \in 0..(SlowNum - nrds - 1) : FreeWindow'[i] = FreeWindow[nrds + i]
          /\ \A j \in 1..Len(FreedRegs) :
               FreeWindow'[SlowNum - nrds + j - 1] = FreedRegs[j]
      BY ONLY <1>1, <2>2, <3>1, <3>2, FreeListAdvances
    <3> QED
      BY ONLY <2>1, <3>3
<1>14. /\ cf /\ rob_lprd[c] # 0 => FreeWindow'[m - nrds] = rob_lprd[c]
       /\ cs /\ rob_lprd[d] # 0 => FreeWindow'[m - nrds + nw - 1] = rob_lprd[d]
  <2>1. /\ nw = Len(FreedRegs)
        /\ cf /\ rob_lprd[c] # 0 => FreedRegs[1] = rob_lprd[c]
        /\ cs /\ rob_lprd[d] # 0 => FreedRegs[Len(FreedRegs)] = rob_lprd[d]
    BY <1>1, FreedIs
  <2>2. /\ cf /\ rob_lprd[c] # 0 => nw >= 1
        /\ cs /\ rob_lprd[d] # 0 => nw >= 1
    BY DEF Ones
  <2>3. \A j \in 1..nw : FreeWindow'[m - nrds + j - 1] = FreedRegs[j]
    BY <1>13
  <2> HIDE DEF nrds, nw, m
  <2>4. nw >= 1 => /\ FreeWindow'[m - nrds] = FreedRegs[1]
                   /\ FreeWindow'[m - nrds + nw - 1] = FreedRegs[nw]
    <3>1. m - nrds + 1 - 1 = m - nrds
      BY <1>9, <1>10
    <3> QED
      BY <1>10, <2>3, <3>1
  <2> QED
    BY <2>1, <2>2, <2>4
<1>15. \A r \in ARegs :
         rename_reg_backup'[r] =
           IF cs /\ rob_rd[d] = r THEN rob_prd[d]
           ELSE IF cf /\ rob_rd[c] = r THEN rob_prd[c] ELSE rename_reg_backup[r]
  BY DEF Advance, AdvanceBackup
<1> DEFINE Held(S) == Owned(Age, S, rob_rd', rob_prd', rob_lprd', rename_reg_backup',
                            rename_reg', FreeWindow', SlowNum')
<1>16. ASSUME ~cf PROVE Held(InFlight')
  <2>1. nrds = 0 /\ nw = 0 /\ InFlight' = T
    BY <1>1, <1>5, <1>8, <1>16, CommitsAreOldest DEF Ones
  <2>2. rename_reg_backup' = rename_reg_backup
    <3>1. \A r \in ARegs : rename_reg_backup'[r] = rename_reg_backup[r]
      BY <1>5, <1>15, <1>16
    <3> QED
      BY <1>1, <1>2, <3>1 DEF RobTypeOK
  <2>3. FreeWindow' = FreeWindow
    <3>1. nw = Len(FreedRegs)
      BY <1>1, FreedIs
    <3>2. FreeListClock(FreedRegs, nrd, nrds)
      BY DEF Advance, AdvanceFreeList
    <3>3. fl_queue' = fl_queue
      BY <1>1, <2>1, <3>1, <3>2 DEF FreeListClock, RobTypeOK
    <3>4. fl_rd_excep_line' = CntAdd(fl_rd_excep_line, 0, FRLIST_DEPTH)
      BY <2>1, <3>2 DEF FreeListClock
    <3>5. fl_rd_excep_line' = fl_rd_excep_line
      BY <1>1, <3>4, Sizes, CounterStep DEF RobTypeOK, FlLines
    <3> QED
      BY <3>3, <3>5 DEF FreeWindow
  <2>4. SlowNum' = m
    BY <1>9, <1>13, <2>1
  <2> QED
    BY <1>3, <2>1, <2>2, <2>3, <2>4
<1>17. ASSUME cf /\ ~cs PROVE Held(InFlight')
  <2>1. InFlight' = T \ {c}
    BY <1>1, <1>8, <1>17, CommitsAreOldest
  <2>2. /\ nrds = (IF rob_prd'[c] # 0 THEN 1 ELSE 0)
        /\ nw = (IF rob_lprd'[c] # 0 THEN 1 ELSE 0)
        /\ rob_lprd'[c] # 0 => rob_prd'[c] # 0
    BY <1>3, <1>5, <1>6, <1>17 DEF Ones, Owned, Entries
  <2>3. \A r \in ARegs :
          rename_reg_backup'[r] = (IF rob_rd'[c] = r THEN rob_prd'[c] ELSE rename_reg_backup[r])
    BY <1>6, <1>15, <1>17
  <2>4. rob_lprd'[c] # 0 => FreeWindow'[m - nrds] = rob_lprd'[c]
    BY <1>6, <1>14, <1>17
  <2>5. rob_rd'[c] \in ARegs
    BY <1>5, <1>7, <1>17
  <2> HIDE DEF m, nrds, nw, T
  <2>6. Retires(c, rob_rd', rob_prd', rob_lprd', rename_reg_backup, rename_reg_backup',
                FreeWindow, FreeWindow', m, SlowNum')
    <3>1. SlowNum' = (IF rob_prd'[c] # 0 /\ rob_lprd'[c] = 0 THEN m - 1 ELSE m)
      BY <1>9, <1>13, <2>2
    <3>2. rob_prd'[c] = 0 => \A i \in 0..(m - 1) : FreeWindow'[i] = FreeWindow[i]
      BY <1>9, <1>13, <2>2
    <3>3. rob_prd'[c] # 0 => \A i \in 0..(m - 2) : FreeWindow'[i] = FreeWindow[i + 1]
      BY <1>9, <1>13, <2>2
    <3>4. rob_prd'[c] # 0 /\ rob_lprd'[c] # 0 => FreeWindow'[m - 1] = rob_lprd'[c]
      BY <2>2, <2>4
    <3> QED
      BY ONLY <2>3, <2>5, <3>1, <3>2, <3>3, <3>4 DEF Retires
  <2>7. c \in T /\ \A s \in T \ {c} : Age[c] < Age[s]
    BY <1>5, <1>17
  <2>8. Held(T \ {c})
    BY ONLY <1>3, <1>4, <1>7, <2>6, <2>7, OwnedPop
  <2> QED
    BY <2>1, <2>8
<1>18. ASSUME cs PROVE Held(InFlight')
  <2>1. InFlight' = T \ {c, d}
    BY <1>1, <1>8, <1>18, CommitsAreOldest
  <2>2. /\ nrds = Ones(rob_prd'[c] # 0, rob_prd'[d] # 0)
        /\ nw = Ones(rob_lprd'[c] # 0, rob_lprd'[d] # 0)
    BY <1>5, <1>6, <1>18
  <2>3. \A r \in ARegs :
          rename_reg_backup'[r] =
            (IF rob_rd'[d] = r THEN rob_prd'[d]
             ELSE IF rob_rd'[c] = r THEN rob_prd'[c] ELSE rename_reg_backup[r])
    BY <1>5, <1>6, <1>15, <1>18
  <2>4. /\ rob_lprd'[c] # 0 => FreeWindow'[m - nrds] = rob_lprd'[c]
        /\ rob_lprd'[d] # 0 => FreeWindow'[m - nrds + nw - 1] = rob_lprd'[d]
    BY <1>5, <1>6, <1>14, <1>18
  <2>5. /\ c \in T /\ d \in T \ {c}
        /\ \A s \in T \ {c} : Age[c] < Age[s]
        /\ \A s \in T \ {c, d} : Age[d] < Age[s]
    BY <1>5, <1>18
  <2>6. /\ SlowNum' = m - nrds + nw
        /\ \A i \in 0..(m - nrds - 1) : FreeWindow'[i] = FreeWindow[nrds + i]
    BY <1>13
  <2> HIDE DEF m, nrds, nw, T
  <2>7. Held(T \ {c, d})
    BY ONLY <1>3, <1>4, <1>7, <2>2, <2>3, <2>4, <2>5, <2>6, OwnedPopTwo
  <2> QED
    BY <2>1, <2>7
<1>19. Held(InFlight')
  BY <1>16, <1>17, <1>18
<1>20. /\ Age' \in [Slots -> Int]
       /\ \A s, t \in InFlight' : Age[s] < Age[t] <=> Age'[s] < Age'[t]
  <2> DEFINE n == Ones(cf, cs)
  <2>1. cmt_rob_index' = CntAdd(cmt_rob_index, n, ROB_SIZE) /\ n \in 0..2
    BY DEF Advance, AdvanceRob, AdvanceCommitIndex, Ones
  <2>2. ASSUME NEW s \in InFlight' PROVE s \in Slots /\ Pos(s) >= n /\ Pos(s) \in Int
    <3>1. s \in Slots /\ (cf => s # c) /\ (cs => s # d)
      BY <1>1, <1>4, <1>5, <1>8, CommitsAreOldest
    <3>2. /\ Pos(c) = 0 /\ Pos(d) = 1 /\ Pos(s) \in 0..(ROB_SIZE - 1)
          /\ (Pos(s) = 0 => s = c) /\ (Pos(s) = 1 => s = d)
      BY <1>1, <3>1, Sizes DEF RobTypeOK, Pos, Slots, cmt_rob_index_second, CntNext
    <3> QED
      BY <1>5, <3>1, <3>2 DEF Ones
  <2> HIDE DEF n
  <2>3. ASSUME NEW s \in InFlight' PROVE s \in Slots /\ Pos(s)' = Pos(s) - n /\ Pos(s) \in Int
    BY <1>1, <2>1, <2>2, AgesAfter
  <2>4. \A s \in Slots : Age'[s] = Pos(s)' /\ Age[s] = Pos(s)
    BY DEF Age
  <2>5. Age' \in [Slots -> Int]
    BY <1>2, Sizes DEF Age, Pos, RobTypeOK, Slots
  <2> QED
    BY <2>1, <2>3, <2>4, <2>5
<1>21. RegistersOwned'
  <2>1. InFlight' \in SUBSET Slots
    BY <1>4, <1>8
  <2>2. Owned(Age', InFlight', rob_rd', rob_prd', rob_lprd', rename_reg_backup',
              rename_reg', FreeWindow', SlowNum')
    BY ONLY <1>4, <1>19, <1>20, <2>1, OwnedReorder
  <2> QED
    BY <2>2 DEF RegistersOwned
<1>22. FreeListLaps'
  <2>1. SlowNum' = FreeNum' + Cardinality(AllocIn(InFlight', rob_prd'))
    <3> HIDE DEF k, a, m, nrd, nrds, nw
    <3> QED
      BY <1>3, <1>9, <1>10, <1>11, <1>13
  <2>2. AllocIn(InFlight, rob_prd)' = AllocIn(InFlight', rob_prd')
    BY DEF AllocIn
  <2> QED
    BY <1>13, <2>1, <2>2 DEF FreeListLaps
<1> QED
  BY <1>21, <1>22

-----------------------------------------------------------------------------
(* The invariant of renaming.                                               *)

\* After reset every register is free and nothing is mapped.
LEMMA InitOwned == RobInit => FreeListLaps /\ RegistersOwned
<1> SUFFICES ASSUME RobInit PROVE FreeListLaps /\ RegistersOwned
  OBVIOUS
<1> DEFINE B == rename_reg_backup
<1>1. InFlight = {}
  BY DEF RobInit, InFlight
<1>2. AllocIn(InFlight, rob_prd) = {} /\ AllocIn({}, rob_prd) = {}
  BY <1>1 DEF AllocIn
<1>3. Cardinality(AllocIn(InFlight, rob_prd)) = 0 /\ Cardinality(AllocIn({}, rob_prd)) = 0
  BY <1>2, FS_EmptySet
<1>4. SlowNum = FRLIST_DEPTH /\ FreeNum = FRLIST_DEPTH
  BY Sizes DEF RobInit, FreeListInit, SlowNum, FreeNum, FlNum
<1>5. \A i \in FlLines : FreeWindow[i] = i + 1
  BY Sizes DEF RobInit, FreeListInit, FreeWindow, FlLine, FlLines
<1>6. \A r \in ARegs : B[r] = 0 /\ rename_reg[r] = 0
  BY DEF RobInit
<1>7. B = rename_reg /\ 0 \in ARegs
  BY Sizes DEF RobInit, ARegs
<1>8. FreeListLaps
  BY <1>3, <1>4, Sizes DEF FreeListLaps, LapOK, RobInit, FreeListInit
<1>9. Entries({}, rob_rd, rob_prd, rob_lprd, B, rename_reg)
  BY <1>6, <1>7 DEF Entries
<1>10. Renamed(Age, {}, rob_rd, rob_prd, rob_lprd, B, rename_reg)
  BY <1>7, RenamedEmpty
<1>11. Counted({}, rob_prd, B, FRLIST_DEPTH)
  <2>1. Mapped(B) = {}
    BY <1>6 DEF Mapped
  <2>2. Cardinality(Mapped(B)) = 0
    BY <2>1, FS_EmptySet
  <2> QED
    BY <1>3, <2>2, Sizes DEF Counted
<1>12. Window(Age, {}, rob_prd, FreeWindow, FRLIST_DEPTH)
  BY <1>2, <1>5, Sizes DEF Window, FlLines
<1>13. Covered({}, rob_prd, B, FreeWindow, FRLIST_DEPTH)
  <2> SUFFICES ASSUME NEW x \in 1..FRLIST_DEPTH
               PROVE  \E i \in 0..(FRLIST_DEPTH - 1) : FreeWindow[i] = x
    BY <1>3 DEF Covered
  <2>1. x - 1 \in 0..(FRLIST_DEPTH - 1) /\ FreeWindow[x - 1] = x
    BY <1>5, Sizes DEF FlLines
  <2> QED
    BY <2>1
<1>14. RegistersOwned
  BY <1>1, <1>4, <1>9, <1>10, <1>11, <1>12, <1>13 DEF RegistersOwned, Owned
<1> QED
  BY <1>8, <1>14

\* A fault gives every register in flight back to the list at once.
LEMMA FlushOwned ==
  ASSUME RenameInv, Flush
  PROVE  (FreeListLaps /\ RegistersOwned)'
<1>1. RobTypeOK /\ FreeListLaps /\ RegistersOwned
  BY DEF RenameInv, RobControl
<1>2. InFlight' = {}
  BY DEF Flush, InFlight
<1>3. /\ rob_rd' = rob_rd /\ rob_prd' = rob_prd /\ rob_lprd' = rob_lprd
      /\ rename_reg_backup' = rename_reg_backup /\ rename_reg' = rename_reg_backup
      /\ fl_queue' = fl_queue /\ fl_wr_line' = fl_wr_line
      /\ fl_rd_line' = fl_rd_excep_line /\ fl_rd_excep_line' = fl_rd_excep_line
      /\ fl_recount' = fl_recount_fault /\ fl_recount_fault' = fl_recount_fault
  BY DEF Flush, FreeListRollback
<1>4. FreeWindow' = FreeWindow /\ SlowNum' = SlowNum /\ FreeNum' = SlowNum
  BY <1>3 DEF FreeWindow, SlowNum, FreeNum, FlNum
<1>5. InFlight \in SUBSET Slots /\ Age \in [Slots -> Int]
  BY <1>1, AgeType DEF InFlight
<1>6. Owned(Age, InFlight, rob_rd, rob_prd, rob_lprd, rename_reg_backup, rename_reg,
            FreeWindow, SlowNum)
  BY <1>1 DEF RegistersOwned
<1>7. /\ Owned(Age', {}, rob_rd, rob_prd, rob_lprd, rename_reg_backup, rename_reg_backup,
               FreeWindow, SlowNum)
      /\ Cardinality(AllocIn({}, rob_prd)) = 0
  BY ONLY <1>5, <1>6, OwnedFlush
<1>8. RegistersOwned'
  BY <1>2, <1>3, <1>4, <1>7 DEF RegistersOwned
<1>9. Cardinality(AllocIn(InFlight', rob_prd')) = 0 /\ SlowNum \in Nat
  BY <1>2, <1>3, <1>6, <1>7, Sizes DEF Owned, Counted
<1>10. AllocIn(InFlight, rob_prd)' = AllocIn(InFlight', rob_prd')
  BY DEF AllocIn
<1>11. FreeListLaps'
  BY <1>1, <1>3, <1>4, <1>9, <1>10 DEF FreeListLaps, LapOK
<1> QED
  BY <1>8, <1>11

\* RenameInv is inductive.
LEMMA RenameInvInductive ==
  /\ RobInit => RenameInv
  /\ RenameInv /\ [RobNext]_robVars => RenameInv'
<1>1. RobInit => RenameInv
  BY RobControlInductive, InitOwned DEF RenameInv
<1>2. RenameInv /\ [RobNext]_robVars => RobControl'
  BY RobControlInductive DEF RenameInv
<1>3. ASSUME RenameInv, Flush PROVE RenameInv'
  BY <1>2, <1>3, FlushOwned DEF RenameInv, RobNext
<1>4. ASSUME RenameInv, ~CommitFault, NEW dec \in DecodeWindows, NEW done \in Completions,
             Advance(dec, done)
      PROVE  RenameInv'
  <2>1. RobNext
    BY <1>4 DEF RobNext
  <2> QED
    BY <1>2, <1>4, <2>1, AdvanceOwned DEF RenameInv
<1>5. ASSUME RenameInv, UNCHANGED robVars PROVE RenameInv'
  <2>1. /\ rob_used' = rob_used /\ rob_rd' = rob_rd /\ rob_prd' = rob_prd
        /\ rob_lprd' = rob_lprd /\ rename_reg' = rename_reg
        /\ rename_reg_backup' = rename_reg_backup /\ cmt_rob_index' = cmt_rob_index
        /\ fl_queue' = fl_queue /\ fl_wr_line' = fl_wr_line /\ fl_rd_line' = fl_rd_line
        /\ fl_rd_excep_line' = fl_rd_excep_line
        /\ fl_recount' = fl_recount /\ fl_recount_fault' = fl_recount_fault
    BY <1>5 DEF robVars, flVars
  <2>2. /\ Age' = Age /\ InFlight' = InFlight
        /\ FreeWindow' = FreeWindow /\ SlowNum' = SlowNum /\ FreeNum' = FreeNum
    BY <2>1 DEF Age, Pos, InFlight, FreeWindow, SlowNum, FreeNum, FlNum
  <2>3. RegistersOwned'
    BY <1>5, <2>1, <2>2 DEF RenameInv, RegistersOwned
  <2>4. FreeListLaps'
    <3>1. AllocIn(InFlight, rob_prd)' = AllocIn(InFlight, rob_prd)
      BY <2>1, <2>2 DEF AllocIn
    <3> QED
      BY <1>5, <2>1, <2>2, <3>1 DEF RenameInv, FreeListLaps, LapOK
  <2> QED
    BY <1>2, <1>5, <2>3, <2>4 DEF RenameInv
<1> QED
  BY <1>1, <1>3, <1>4, <1>5 DEF RobNext

\* The youngest writer is unique, so what a set of entries leaves behind is the
\* mapping the model computes.
LEMMA LeavesIsMapping ==
  ASSUME RobTypeOK, NEW S \in SUBSET InFlight, NEW r, NEW p,
         Leaves(Age, S, rob_rd, rob_prd, rename_reg_backup, r, p)
  PROVE  p = MappingAfter(r, S)
<1> DEFINE W == S \cap Writers(r)
<1>1. \A s \in S : s \in W <=> Writes(rob_rd, rob_prd, s, r)
  BY DEF Writers, Writes
<1>2. S \in SUBSET Slots
  BY DEF InFlight
<1>3. CASE W = {}
  <2>1. \A s \in S : ~Writes(rob_rd, rob_prd, s, r)
    BY <1>1, <1>3
  <2>2. p = rename_reg_backup[r]
    BY <2>1 DEF Leaves
  <2> QED
    BY <1>3, <2>2 DEF MappingAfter
<1>4. CASE W # {}
  <2>1. PICK s \in S : /\ Writes(rob_rd, rob_prd, s, r) /\ p = rob_prd[s]
                       /\ \A t \in S : Writes(rob_rd, rob_prd, t, r) => Age[t] <= Age[s]
    BY <1>1, <1>4 DEF Leaves
  <2>2. s \in W /\ \A t \in W : Pos(t) <= Pos(s)
    BY <1>1, <1>2, <2>1, AgeType
  <2> DEFINE y == Youngest(W)
  <2>3. y \in W /\ \A t \in W : Pos(t) <= Pos(y)
    BY <2>2 DEF Youngest
  <2>4. Pos(y) \in Int /\ Pos(s) \in Int /\ Pos(y) <= Pos(s) /\ Pos(s) <= Pos(y)
    BY <1>2, <2>2, <2>3, AgeType
  <2>5. y = s
    BY <1>2, <2>2, <2>3, <2>4, AgeType
  <2> QED
    BY <1>4, <2>1, <2>5 DEF MappingAfter
<1> QED
  BY <1>3, <1>4

\* rename_reg is always the committed mapping updated in program order by the
\* instructions in flight, and an entry frees at commit exactly the mapping it
\* replaced: through two allocations and two commits per cycle, and a flush at
\* any time.
THEOREM RenamingFollowsProgramOrder == RobSpec => []RenameFollowsProgramOrder
<1>1. RenameInv => RenameFollowsProgramOrder
  <2> SUFFICES ASSUME RenameInv PROVE RenameFollowsProgramOrder
    OBVIOUS
  <2>1. RobTypeOK /\ Renamed(Age, InFlight, rob_rd, rob_prd, rob_lprd, rename_reg_backup,
                             rename_reg)
    BY DEF RenameInv, RobControl, RegistersOwned, Owned
  <2>2. ASSUME NEW r \in ARegs PROVE rename_reg[r] = MappingAfter(r, InFlight)
    <3>1. Leaves(Age, InFlight, rob_rd, rob_prd, rename_reg_backup, r, rename_reg[r])
      BY <2>1 DEF Renamed
    <3> QED
      BY ONLY <2>1, <3>1, LeavesIsMapping
  <2>3. ASSUME NEW s \in InFlight, rob_prd[s] # 0
        PROVE  rob_lprd[s] = MappingAfter(rob_rd[s], Older(s))
    <3>1. Before(Age, InFlight, s) = Older(s)
      BY <2>1, AgeType DEF Before, Older, InFlight
    <3>2. Leaves(Age, Older(s), rob_rd, rob_prd, rename_reg_backup, rob_rd[s], rob_lprd[s])
      BY <2>1, <2>3, <3>1 DEF Renamed
    <3>3. Older(s) \in SUBSET InFlight
      BY DEF Older
    <3> QED
      BY ONLY <2>1, <3>2, <3>3, LeavesIsMapping
  <2> QED
    BY <2>2, <2>3 DEF RenameFollowsProgramOrder
<1> QED
  BY RenameInvInductive, <1>1, PTL DEF RobSpec

\* The lines between the slow and the fast read pointer of the free list always
\* hold the registers of the instructions in flight in program order, so that
\* moving one pointer takes back exactly the registers of what a fault squashes.
THEOREM RollbackTakesBackSquashed == RobSpec => []RollbackWindow
<1>1. RenameInv => RollbackWindow
  <2> SUFFICES ASSUME RenameInv PROVE RollbackWindow
    OBVIOUS
  <2> DEFINE A == AllocIn(InFlight, rob_prd)
  <2>1. RobTypeOK /\ FreeListLaps /\ RegistersOwned
    BY DEF RenameInv, RobControl
  <2>2. A = {s \in InFlight : rob_prd[s] # 0} /\ A \subseteq Slots
    BY DEF AllocIn, InFlight
  <2>3. FlNum(fl_rd_excep_line, fl_recount_fault) = FreeNum + Cardinality(A)
    BY <2>1 DEF FreeListLaps, SlowNum
  <2>4. ASSUME NEW s \in A
        PROVE  rob_prd[s] = fl_queue[FlLine(fl_rd_excep_line,
                                            Cardinality({t \in A : Pos(t) < Pos(s)}))]
    <3> DEFINE k == RankIn(Age, InFlight, rob_prd, s)
    <3>1. rob_prd[s] = FreeWindow[k]
      BY <2>1 DEF RegistersOwned, Owned, Window
    <3>2. k = Cardinality({t \in A : Pos(t) < Pos(s)})
      <4>1. {t \in A : Age[t] < Age[s]} = {t \in A : Pos(t) < Pos(s)}
        BY <2>1, <2>2, AgeType
      <4> QED
        BY <4>1 DEF RankIn
    <3>3. k \in FlLines
      <4>1. InFlight \in SUBSET Slots /\ Age \in [Slots -> Int]
        BY <2>1, AgeType DEF InFlight
      <4>2. k \in Nat /\ k < Cardinality(A) /\ Cardinality(A) \in Nat
        BY <4>1, <2>2, <2>4, RankBound, Finite
      <4>3. SlowNum \in 0..FRLIST_DEPTH /\ Cardinality(A) <= SlowNum
        BY <2>1 DEF RegistersOwned, Owned, Counted
      <4> HIDE DEF k, A
      <4> QED
        BY <4>2, <4>3, Sizes DEF FlLines
    <3> QED
      BY <3>1, <3>2, <3>3 DEF FreeWindow
  <2> QED
    BY <2>2, <2>3, <2>4 DEF RollbackWindow
<1> QED
  BY RenameInvInductive, <1>1, PTL DEF RobSpec

\* The free list never runs dry: there is always a register for every free entry of
\* the reorder buffer, so renaming need not look at free_list_empty.
THEOREM FreeListSuffices == RobSpec => []FreeListNeverUnderflows
<1>1. RenameInv => FreeListNeverUnderflows
  <2> SUFFICES ASSUME RenameInv PROVE FreeListNeverUnderflows
    OBVIOUS
  <2>1. RobTypeOK /\ FreeListLaps /\ RegistersOwned
    BY DEF RenameInv, RobControl
  <2>2. InFlight \in SUBSET Slots
    BY DEF InFlight
  <2>3. /\ Entries(InFlight, rob_rd, rob_prd, rob_lprd, rename_reg_backup, rename_reg)
        /\ Counted(InFlight, rob_prd, rename_reg_backup, SlowNum)
    BY <2>1 DEF RegistersOwned, Owned
  <2>4. SlowNum - Cardinality(AllocIn(InFlight, rob_prd)) >= ROB_SIZE - Cardinality(InFlight)
    BY ONLY <2>2, <2>3, RegisterForEntry
  <2>5. AllocIn(InFlight, rob_prd) \in SUBSET Slots
    BY DEF AllocIn, InFlight
  <2>6. Cardinality(AllocIn(InFlight, rob_prd)) \in Nat /\ FreeNum \in Nat
    BY <2>1, <2>5, Finite, Sizes DEF FreeNum, FlNum, RobTypeOK, FlLines
  <2>7. FreeNum = SlowNum - Cardinality(AllocIn(InFlight, rob_prd))
    BY <2>1, <2>6 DEF FreeListLaps
  <2> QED
    BY <2>4, <2>7 DEF FreeListNeverUnderflows
<1> QED
  BY RenameInvInductive, <1>1, PTL DEF RobSpec

\* The lines from the fast pointer on are the rest of the window.
LEMMA FreeRegsAre ==
  ASSUME RenameInv, NEW a, a = Cardinality(AllocIn(InFlight, rob_prd))
  PROVE  /\ a \in Nat /\ SlowNum \in 0..FRLIST_DEPTH /\ FreeNum \in Nat /\ SlowNum = FreeNum + a
         /\ FreeRegs = {FreeWindow[i] : i \in a..(SlowNum - 1)}
<1>1. /\ fl_wr_line \in FlLines /\ fl_rd_line \in FlLines /\ fl_rd_excep_line \in FlLines
      /\ fl_recount \in BOOLEAN /\ fl_recount_fault \in BOOLEAN
  BY DEF RenameInv, RobControl, RobTypeOK
<1>2. /\ FreeNum = NumOf(fl_wr_line, fl_rd_line, fl_recount)
      /\ SlowNum = NumOf(fl_wr_line, fl_rd_excep_line, fl_recount_fault)
  BY <1>1, FlNumIs DEF FreeNum, SlowNum
<1>3. AllocIn(InFlight, rob_prd) \in SUBSET Slots
  BY DEF AllocIn, InFlight
<1>4. a \in Nat /\ SlowNum \in 0..FRLIST_DEPTH /\ FreeNum \in Nat /\ SlowNum = FreeNum + a
  BY <1>1, <1>2, <1>3, Finite, NumOfIs, Sizes DEF RenameInv, FreeListLaps
<1>5. fl_rd_line = FlLine(fl_rd_excep_line, a)
  <2>1. /\ LapOK(fl_wr_line, fl_rd_line, fl_recount)
        /\ LapOK(fl_wr_line, fl_rd_excep_line, fl_recount_fault)
    BY DEF RenameInv, FreeListLaps
  <2>2. NumOf(fl_wr_line, fl_rd_excep_line, fl_recount_fault)
          = NumOf(fl_wr_line, fl_rd_line, fl_recount) + a
    BY <1>2, <1>4
  <2> QED
    BY ONLY <1>1, <1>4, <2>1, <2>2, FastFromSlow
<1>6. ASSUME NEW i \in 0..(FreeNum - 1)
      PROVE  fl_queue[FlLine(fl_rd_line, i)] = FreeWindow[a + i]
  <2>1. a + i \in FlLines
    BY <1>4, Sizes DEF FlLines
  <2>2. FlLine(fl_rd_line, i) = FlLine(fl_rd_excep_line, a + i)
    BY <1>1, <1>4, <1>5, Sizes DEF FlLine, FlLines
  <2> QED
    BY <2>1, <2>2 DEF FreeWindow
<1>7. ASSUME NEW x PROVE x \in FreeRegs <=> \E i \in a..(SlowNum - 1) : x = FreeWindow[i]
  <2>1. ASSUME NEW i \in 0..(FreeNum - 1), x = fl_queue[FlLine(fl_rd_line, i)]
        PROVE  \E j \in a..(SlowNum - 1) : x = FreeWindow[j]
    <3>1. a + i \in a..(SlowNum - 1)
      BY <1>4
    <3> QED
      BY <1>6, <2>1, <3>1
  <2>2. ASSUME NEW j \in a..(SlowNum - 1), x = FreeWindow[j]
        PROVE  \E i \in 0..(FreeNum - 1) : x = fl_queue[FlLine(fl_rd_line, i)]
    <3>1. j - a \in 0..(FreeNum - 1) /\ a + (j - a) = j
      BY <1>4
    <3> QED
      BY <1>6, <2>2, <3>1
  <2> QED
    BY <2>1, <2>2 DEF FreeRegs
<1> QED
  BY <1>4, <1>7

\* The free list, the instructions in flight and the committed mapping always
\* partition the physical registers: they cover p1..pN, and they hold N registers
\* in all, so that none is lost, duplicated or owned twice.
THEOREM RegistersAreConserved == RobSpec => []PhysicalRegistersConserved
<1>1. RenameInv => PhysicalRegistersConserved
  <2> SUFFICES ASSUME RenameInv PROVE PhysicalRegistersConserved
    OBVIOUS
  <2> DEFINE a == Cardinality(AllocIn(InFlight, rob_prd))
             m == SlowNum
             B == rename_reg_backup
  <2>1. RobTypeOK /\ RegistersOwned
    BY DEF RenameInv, RobControl
  <2>2. /\ a \in Nat /\ m \in 0..FRLIST_DEPTH /\ FreeNum \in Nat /\ m = FreeNum + a
        /\ FreeRegs = {FreeWindow[i] : i \in a..(m - 1)}
    BY FreeRegsAre
  <2>3. FreeRegs \subseteq 1..FRLIST_DEPTH
    <3> SUFFICES ASSUME NEW i \in a..(m - 1) PROVE FreeWindow[i] \in 1..FRLIST_DEPTH
      BY <2>2
    <3>1. i \in FlLines /\ i \in 0..(m - 1)
      BY <2>2, Sizes DEF FlLines
    <3>2. FlLine(fl_rd_excep_line, i) \in FlLines
      BY <2>1, <3>1, Sizes DEF FlLine, FlLines, RobTypeOK
    <3>3. FreeWindow[i] \in PRegs
      BY <2>1, <3>1, <3>2 DEF FreeWindow, RobTypeOK
    <3>4. FreeWindow[i] # 0
      BY <2>1, <3>1 DEF RegistersOwned, Owned, Window
    <3> QED
      BY <3>3, <3>4, Sizes DEF PRegs
  <2>4. InFlightRegs \subseteq 1..FRLIST_DEPTH
    BY <2>1, Sizes DEF InFlightRegs, InFlight, RobTypeOK, PRegs
  <2>5. CommittedRegs \subseteq 1..FRLIST_DEPTH
    BY <2>1, Sizes DEF CommittedRegs, RobTypeOK, PRegs
  <2>6. ASSUME NEW x \in 1..FRLIST_DEPTH
        PROVE  x \in FreeRegs \/ x \in InFlightRegs \/ x \in CommittedRegs
    <3>1. \/ \E i \in a..(m - 1) : FreeWindow[i] = x
          \/ \E s \in InFlight : rob_prd[s] = x
          \/ \E r \in ARegs : B[r] = x
      BY <2>1 DEF RegistersOwned, Owned, Covered
    <3>2. x # 0
      BY Sizes
    <3> QED
      BY <2>2, <3>1, <3>2 DEF InFlightRegs, CommittedRegs
  <2>7. FreeNum + Cardinality({s \in InFlight : rob_prd[s] # 0})
          + Cardinality({r \in ARegs : rename_reg_backup[r] # 0}) = FRLIST_DEPTH
    <3>1. m + Cardinality(Mapped(B)) = FRLIST_DEPTH
      BY <2>1 DEF RegistersOwned, Owned, Counted
    <3>2. /\ AllocIn(InFlight, rob_prd) = {s \in InFlight : rob_prd[s] # 0}
          /\ Mapped(B) = {r \in ARegs : rename_reg_backup[r] # 0}
      BY DEF AllocIn, Mapped
    <3> QED
      BY <2>2, <3>1, <3>2
  <2> QED
    BY <2>3, <2>4, <2>5, <2>6, <2>7 DEF PhysicalRegistersConserved
<1> QED
  BY RenameInvInductive, <1>1, PTL DEF RobSpec
=============================================================================
