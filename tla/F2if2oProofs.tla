---------------------------- MODULE F2if2oProofs ----------------------------
(***************************************************************************)
(* The FIFO's control for every size and every payload: the pointers and the *)
(* lap flag stay in range, and the flag says exactly whether the writer is a *)
(* lap ahead.  The two are inductive together: the fill level is only known  *)
(* to be between 0 and FIFO_SIZE because of the flag's meaning, and the gates *)
(* on the fill level are what keeps that meaning.                            *)
(***************************************************************************)
EXTENDS F2if2o, CounterProofs, SequenceTheorems

IInv == TypeOK /\ RecountIsLap

\* The fill level is a number from 0 to FIFO_SIZE.
LEMMA FillLevel ==
  IInv => fifo_num \in 0..FIFO_SIZE
BY FifoSizeAssumption DEF IInv, TypeOK, RecountIsLap, fifo_num, Lines

\* With the lap flag exact, it is a difference.
LEMMA FillLevelIs ==
  IInv => /\ fifo_recount => fifo_num = FIFO_SIZE + wr_line - rd_line
          /\ ~fifo_recount => fifo_num = wr_line - rd_line
BY FifoSizeAssumption DEF IInv, TypeOK, RecountIsLap, fifo_num, Lines

\* How many of a pair of enables are set.
LEMMA GrantedCount ==
  ASSUME NEW do1 \in BOOLEAN, NEW do2 \in BOOLEAN,
         NEW none \in BOOLEAN, NEW almost_none \in BOOLEAN
  PROVE  Ones(Granted(do1, do2, none, almost_none).first,
              Granted(do1, do2, none, almost_none).second)
           = Ones((do1 \/ do2) /\ ~none, do1 /\ do2 /\ ~almost_none)
BY Zenon DEF Granted

\* The pair of write enables never asks for more lines than are free, and the
\* pair of read enables never for more items than there are.
LEMMA EnablesFit ==
  ASSUME IInv, NEW do1 \in BOOLEAN, NEW do2 \in BOOLEAN
  PROVE  /\ Ones(WriteEnable(do1, do2).first, WriteEnable(do1, do2).second) \in 0..2
         /\ fifo_num + Ones(WriteEnable(do1, do2).first, WriteEnable(do1, do2).second)
              <= FIFO_SIZE
         /\ Ones(ReadEnable(do1, do2).first, ReadEnable(do1, do2).second) \in 0..2
         /\ Ones(ReadEnable(do1, do2).first, ReadEnable(do1, do2).second) <= fifo_num
<1> DEFINE W == Ones((do1 \/ do2) /\ ~fifo_full, do1 /\ do2 /\ ~fifo_almost_full)
           R == Ones((do1 \/ do2) /\ ~fifo_empty, do1 /\ do2 /\ ~fifo_almost_empty)
<1>1. /\ Ones(WriteEnable(do1, do2).first, WriteEnable(do1, do2).second) = W
      /\ Ones(ReadEnable(do1, do2).first, ReadEnable(do1, do2).second) = R
  <2>1. /\ fifo_full \in BOOLEAN /\ fifo_almost_full \in BOOLEAN
        /\ fifo_empty \in BOOLEAN /\ fifo_almost_empty \in BOOLEAN
    BY DEF fifo_full, fifo_almost_full, fifo_empty, fifo_almost_empty
  <2> QED
    BY <2>1, GrantedCount DEF WriteEnable, ReadEnable
<1>2. /\ W \in 0..2 /\ fifo_num + W <= FIFO_SIZE
      /\ R \in 0..2 /\ R <= fifo_num
  BY FillLevel, FifoSizeAssumption, SMT
  DEF Ones, fifo_full, fifo_almost_full, fifo_empty, fifo_almost_empty
<1> QED
  BY <1>1, <1>2

\* The reset value of the pointers is a line.
LEMMA ZeroLine == 0 \in Lines
BY FifoSizeAssumption DEF Lines

\* The heart of the matter: a clock edge keeps both parts.
LEMMA ClockKeeps ==
  ASSUME IInv,
         NEW w1 \in BOOLEAN, NEW w2 \in BOOLEAN, NEW d1 \in Data, NEW d2 \in Data,
         NEW r1 \in BOOLEAN, NEW r2 \in BOOLEAN,
         Clock(w1, w2, d1, d2, r1, r2)
  PROVE  IInv'
<1> DEFINE we == WriteEnable(w1, w2)
           re == ReadEnable(r1, r2)
           nw == Ones(we.first, we.second)
           nr == Ones(re.first, re.second)
<1>1. /\ nw \in 0..2 /\ fifo_num + nw <= FIFO_SIZE
      /\ nr \in 0..2 /\ nr <= fifo_num
  BY EnablesFit
<1>2. /\ wr_line' = CntAdd(wr_line, nw, FIFO_SIZE)
      /\ rd_line' = CntAdd(rd_line, nr, FIFO_SIZE)
      /\ fifo_recount' =
           IF CntEnd(wr_line, nw, FIFO_SIZE) THEN TRUE
           ELSE IF fifo_recount /\ CntEnd(rd_line, nr, FIFO_SIZE) THEN FALSE
           ELSE fifo_recount
  BY DEF Clock
<1> HIDE DEF nw, nr
<1>3. /\ CntEnd(wr_line, nw, FIFO_SIZE) <=> wr_line + nw >= FIFO_SIZE
      /\ CntEnd(rd_line, nr, FIFO_SIZE) <=> rd_line + nr >= FIFO_SIZE
      /\ wr_line' = IF wr_line + nw >= FIFO_SIZE THEN wr_line + nw - FIFO_SIZE
                                                 ELSE wr_line + nw
      /\ rd_line' = IF rd_line + nr >= FIFO_SIZE THEN rd_line + nr - FIFO_SIZE
                                                 ELSE rd_line + nr
      /\ wr_line' \in Lines
      /\ rd_line' \in Lines
  BY <1>1, <1>2, CounterStep, FifoSizeAssumption DEF IInv, TypeOK, Lines
<1>4. fifo_recount' \in BOOLEAN
  BY <1>2 DEF IInv, TypeOK
<1>5. fifo_queue' \in [Lines -> Data]
  BY DEF Clock, IInv, TypeOK
<1>6. RecountIsLap'
  <2>1. fifo_recount' <=> \/ CntEnd(wr_line, nw, FIFO_SIZE)
                          \/ fifo_recount /\ ~CntEnd(rd_line, nr, FIFO_SIZE)
    BY <1>2, Zenon
  <2>2. fifo_recount' <=> \/ wr_line + nw >= FIFO_SIZE
                          \/ fifo_recount /\ ~(rd_line + nr >= FIFO_SIZE)
    BY <1>3, <2>1, Zenon
  <2>3. CASE fifo_recount
    <3>1. wr_line + nw <= rd_line
      BY <2>3, <1>1, FifoSizeAssumption DEF IInv, TypeOK, RecountIsLap, fifo_num, Lines
    <3>2. /\ ~(wr_line + nw >= FIFO_SIZE)
          /\ ~(rd_line + nr >= FIFO_SIZE) => wr_line' <= rd_line'
          /\ rd_line + nr >= FIFO_SIZE => rd_line' <= wr_line'
      <4>1. fifo_num = FIFO_SIZE + wr_line - rd_line
        BY <2>3, FifoSizeAssumption DEF IInv, TypeOK, RecountIsLap, fifo_num, Lines
      <4> QED
        BY <4>1, <3>1, <1>1, <1>3, FifoSizeAssumption DEF IInv, TypeOK, Lines
    <3> QED
      BY <2>2, <2>3, <3>2, Zenon DEF RecountIsLap
  <2>4. CASE ~fifo_recount
    <3>1. rd_line + nr <= wr_line /\ wr_line + nw - FIFO_SIZE <= rd_line
      BY <2>4, <1>1, FifoSizeAssumption DEF IInv, TypeOK, RecountIsLap, fifo_num, Lines
    <3> QED
      BY <2>2, <2>4, <3>1, <1>1, <1>3, FifoSizeAssumption
      DEF IInv, TypeOK, RecountIsLap, Lines
  <2> QED BY <2>3, <2>4
<1> QED
  BY <1>3, <1>4, <1>5, <1>6 DEF IInv, TypeOK

\* Every behaviour of the FIFO, reset or not, satisfies the type invariant and
\* keeps the lap flag exact.
LEMMA FifoControl == Spec => [](TypeOK /\ RecountIsLap)
<1>1. Init => IInv
  <2> SUFFICES ASSUME Init PROVE IInv
    OBVIOUS
  <2>1. TypeOK
    BY ZeroLine, DataAssumption, Zenon DEF Init, TypeOK
  <2>2. ~fifo_recount /\ rd_line <= wr_line
    BY DEF Init
  <2> QED BY <2>1, <2>2 DEF IInv, RecountIsLap
<1>2. IInv /\ [Next]_vars => IInv'
  <2> SUFFICES ASSUME IInv, [Next]_vars PROVE IInv'
    OBVIOUS
  <2>1. CASE Reset
    <3>1. TypeOK'
      BY <2>1, ZeroLine, DataAssumption, Zenon DEF Reset, TypeOK
    <3>2. ~fifo_recount' /\ rd_line' <= wr_line'
      BY <2>1 DEF Reset
    <3> QED BY <3>1, <3>2 DEF IInv, RecountIsLap
  <2>2. ASSUME NEW w1 \in BOOLEAN, NEW w2 \in BOOLEAN,
               NEW r1 \in BOOLEAN, NEW r2 \in BOOLEAN,
               NEW d1 \in Data, NEW d2 \in Data,
               Clock(w1, w2, d1, d2, r1, r2)
        PROVE  IInv'
    BY <2>2, ClockKeeps
  <2>3. CASE UNCHANGED vars
    BY <2>3 DEF vars, IInv, TypeOK, RecountIsLap
  <2> QED
    BY <2>1, <2>2, <2>3 DEF Next
<1>3. IInv => TypeOK /\ RecountIsLap
  BY DEF IInv
<1> QED
  BY <1>1, <1>2, <1>3, PTL DEF Spec

\* The pointers of the FIFO stay in range and its registers hold payloads, for
\* every depth and whatever the four ports are driven with.
THEOREM FifoTypesCorrect == Spec => []TypeOK
BY FifoControl, PTL

\* The lap flag always says which pointer is ahead, also after an edge in which both
\* pointers wrap or a reset comes with the lines full.
THEOREM FifoLapFlagExact == Spec => []RecountIsLap
BY FifoControl, PTL

-----------------------------------------------------------------------------
(* The FIFO implements the bounded queue.                                   *)

\* The line that is k places after the read pointer.
LineAt(rd, k) == IF rd + k >= FIFO_SIZE THEN rd + k - FIFO_SIZE ELSE rd + k

\* Walking round the lines from rd meets each line once.
LEMMA LineAtFacts ==
  ASSUME NEW rd \in Lines
  PROVE  /\ \A k \in 0..(FIFO_SIZE - 1) : LineAt(rd, k) \in Lines
         /\ \A j, k \in 0..(FIFO_SIZE - 1) : LineAt(rd, j) = LineAt(rd, k) => j = k
BY FifoSizeAssumption DEF LineAt, Lines

\* The write pointer is fill-level lines after the read pointer.
LEMMA WriterIsAhead ==
  ASSUME IInv
  PROVE  /\ fifo_num < FIFO_SIZE => wr_line = LineAt(rd_line, fifo_num)
         /\ fifo_num < FIFO_SIZE - 1 =>
              CntNext(wr_line, FIFO_SIZE) = LineAt(rd_line, fifo_num + 1)
BY FifoSizeAssumption DEF IInv, TypeOK, RecountIsLap, fifo_num, LineAt, Lines, CntNext

\* The n items from line rd on, as a sequence.
ContentsOf(queue, rd, n) == [i \in 1..n |-> queue[LineAt(rd, i - 1)]]

\* The contents are a sequence as long as the fill level.
LEMMA ContentsOfFacts ==
  ASSUME NEW queue \in [Lines -> Data], NEW rd \in Lines, NEW n \in 0..FIFO_SIZE
  PROVE  /\ ContentsOf(queue, rd, n) \in Seq(Data)
         /\ Len(ContentsOf(queue, rd, n)) = n
         /\ \A i \in 1..n : ContentsOf(queue, rd, n)[i] = queue[LineAt(rd, i - 1)]
<1>1. \A i \in 1..n : LineAt(rd, i - 1) \in Lines
  BY LineAtFacts, FifoSizeAssumption
<1>2. \A i \in 1..n : queue[LineAt(rd, i - 1)] \in Data
  BY <1>1
<1> QED
  BY <1>2 DEF ContentsOf

\* The write enables by their number: the second port is never used alone.
LEMMA WriteEnableCases ==
  ASSUME IInv, NEW do1 \in BOOLEAN, NEW do2 \in BOOLEAN
  PROVE  LET we == WriteEnable(do1, do2)
             nw == Ones(we.first, we.second)
         IN /\ nw = 0 => ~we.first /\ ~we.second
            /\ nw = 1 => we.first /\ ~we.second
            /\ nw = 2 => we.first /\ we.second
<1>1. /\ WriteEnable(do1, do2).first = ((do1 \/ do2) /\ ~fifo_full)
      /\ WriteEnable(do1, do2).second = (do1 /\ do2 /\ ~fifo_almost_full)
  BY Zenon DEF WriteEnable, Granted
<1>2. fifo_full => fifo_almost_full
  BY FillLevel, FifoSizeAssumption DEF fifo_full, fifo_almost_full
<1>3. /\ WriteEnable(do1, do2).first \in BOOLEAN
      /\ WriteEnable(do1, do2).second \in BOOLEAN
      /\ WriteEnable(do1, do2).second => WriteEnable(do1, do2).first
  BY <1>1, <1>2, Zenon
<1> QED
  BY <1>3, OnesCases

\* A clock edge seen from the read pointer: the level moves by the number of
\* writes and reads, the items that stay are where they were, and the new ones
\* follow them.
LEMMA ClockFromReader ==
  ASSUME IInv, IInv',
         NEW w1 \in BOOLEAN, NEW w2 \in BOOLEAN, NEW d1 \in Data, NEW d2 \in Data,
         NEW r1 \in BOOLEAN, NEW r2 \in BOOLEAN,
         Clock(w1, w2, d1, d2, r1, r2)
  PROVE  \E nw, nr \in 0..2 :
           /\ fifo_num + nw <= FIFO_SIZE /\ nr <= fifo_num
           /\ fifo_num' = fifo_num - nr + nw
           /\ rd_line' = LineAt(rd_line, nr)
           /\ \A k \in 0..(fifo_num - 1) :
                fifo_queue'[LineAt(rd_line, k)] = fifo_queue[LineAt(rd_line, k)]
           /\ nw >= 1 => fifo_queue'[LineAt(rd_line, fifo_num)]
                           = IF w1 THEN d1 ELSE d2
           /\ nw = 2 => fifo_queue'[LineAt(rd_line, fifo_num + 1)] = d2
<1> DEFINE we == WriteEnable(w1, w2)
           re == ReadEnable(r1, r2)
           nw == Ones(we.first, we.second)
           nr == Ones(re.first, re.second)
           wf == IF w1 THEN d1 ELSE d2
<1>1. /\ nw \in 0..2 /\ fifo_num + nw <= FIFO_SIZE
      /\ nr \in 0..2 /\ nr <= fifo_num
  BY EnablesFit
<1>2. /\ nw = 0 => ~we.first /\ ~we.second
      /\ nw = 1 => we.first /\ ~we.second
      /\ nw = 2 => we.first /\ we.second
  BY WriteEnableCases
<1>3. /\ wr_line' = CntAdd(wr_line, nw, FIFO_SIZE)
      /\ rd_line' = CntAdd(rd_line, nr, FIFO_SIZE)
      /\ fifo_queue' = [i \in Lines |->
           IF we.second /\ i = CntNext(wr_line, FIFO_SIZE) THEN d2
           ELSE IF we.first /\ i = wr_line THEN wf
           ELSE fifo_queue[i]]
  BY DEF Clock
<1>a. fifo_recount' <=> \/ CntEnd(wr_line, nw, FIFO_SIZE)
                        \/ fifo_recount /\ ~CntEnd(rd_line, nr, FIFO_SIZE)
  BY Zenon DEF Clock
<1> HIDE DEF nw, nr, we, re, wf
<1>4. /\ wr_line' = IF wr_line + nw >= FIFO_SIZE THEN wr_line + nw - FIFO_SIZE
                                                 ELSE wr_line + nw
      /\ rd_line' = IF rd_line + nr >= FIFO_SIZE THEN rd_line + nr - FIFO_SIZE
                                                 ELSE rd_line + nr
      /\ fifo_recount' <=> \/ wr_line + nw >= FIFO_SIZE
                           \/ fifo_recount /\ ~(rd_line + nr >= FIFO_SIZE)
  BY <1>1, <1>3, <1>a, CounterStep, FifoSizeAssumption DEF IInv, TypeOK, Lines
<1>5. fifo_num \in 0..FIFO_SIZE /\ rd_line \in Lines /\ wr_line \in Lines
  BY FillLevel DEF IInv, TypeOK
<1>6. rd_line' = LineAt(rd_line, nr)
  BY <1>1, <1>4, <1>5 DEF LineAt
<1>7. fifo_num' = fifo_num - nr + nw
  <2>1. /\ fifo_recount' => fifo_num' = FIFO_SIZE + wr_line' - rd_line'
        /\ ~fifo_recount' => fifo_num' = wr_line' - rd_line'
    BY FifoSizeAssumption DEF IInv, TypeOK, RecountIsLap, fifo_num, Lines
  <2>2. CASE fifo_recount
    <3>1. ~(wr_line + nw >= FIFO_SIZE)
      BY <2>2, <1>1, <1>5, FillLevelIs, FifoSizeAssumption DEF Lines
    <3>2. CASE rd_line + nr >= FIFO_SIZE
      <4>1. ~fifo_recount'
        BY <1>4, <3>1, <3>2, Zenon
      <4> QED
        BY <4>1, <2>1, <2>2, <3>1, <3>2, <1>1, <1>4, <1>5, FillLevelIs,
           FifoSizeAssumption DEF Lines
    <3>3. CASE ~(rd_line + nr >= FIFO_SIZE)
      <4>1. fifo_recount'
        BY <1>4, <2>2, <3>3, Zenon
      <4> QED
        BY <4>1, <2>1, <2>2, <3>1, <3>3, <1>1, <1>4, <1>5, FillLevelIs,
           FifoSizeAssumption DEF Lines
    <3> QED BY <3>2, <3>3
  <2>3. CASE ~fifo_recount
    <3>1. ~(rd_line + nr >= FIFO_SIZE)
      BY <2>3, <1>1, <1>5, FillLevelIs, FifoSizeAssumption DEF Lines
    <3>2. CASE wr_line + nw >= FIFO_SIZE
      <4>1. fifo_recount'
        BY <1>4, <3>2, Zenon
      <4> QED
        BY <4>1, <2>1, <2>3, <3>1, <3>2, <1>1, <1>4, <1>5, FillLevelIs,
           FifoSizeAssumption DEF Lines
    <3>3. CASE ~(wr_line + nw >= FIFO_SIZE)
      <4>1. ~fifo_recount'
        BY <1>4, <2>3, <3>3, Zenon
      <4> QED
        BY <4>1, <2>1, <2>3, <3>1, <3>3, <1>1, <1>4, <1>5, FillLevelIs,
           FifoSizeAssumption DEF Lines
    <3> QED BY <3>2, <3>3
  <2> QED BY <2>2, <2>3
<1>8. ASSUME NEW k \in 0..(fifo_num - 1)
      PROVE  fifo_queue'[LineAt(rd_line, k)] = fifo_queue[LineAt(rd_line, k)]
  <2>1. /\ k \in 0..(FIFO_SIZE - 1)
        /\ LineAt(rd_line, k) \in Lines
    BY <1>5, LineAtFacts, FifoSizeAssumption
  <2>2. nw >= 1 => LineAt(rd_line, k) # wr_line
    BY <1>1, <1>5, <2>1, WriterIsAhead, LineAtFacts, FifoSizeAssumption
  <2>3. nw = 2 => LineAt(rd_line, k) # CntNext(wr_line, FIFO_SIZE)
    BY <1>1, <1>5, <2>1, WriterIsAhead, LineAtFacts, FifoSizeAssumption
  <2> QED
    BY <1>1, <1>2, <1>3, <2>1, <2>2, <2>3
<1>9. nw >= 1 => fifo_queue'[LineAt(rd_line, fifo_num)] = wf
  <2> SUFFICES ASSUME nw >= 1 PROVE fifo_queue'[LineAt(rd_line, fifo_num)] = wf
    OBVIOUS
  <2>1. LineAt(rd_line, fifo_num) = wr_line
    BY <1>1, <1>5, WriterIsAhead, FifoSizeAssumption
  <2>2. wr_line # CntNext(wr_line, FIFO_SIZE)
    BY <1>5, CounterIterates, FifoSizeAssumption DEF Lines
  <2> QED
    BY <1>1, <1>2, <1>3, <1>5, <2>1, <2>2
<1>10. nw = 2 => fifo_queue'[LineAt(rd_line, fifo_num + 1)] = d2
  <2> SUFFICES ASSUME nw = 2 PROVE fifo_queue'[LineAt(rd_line, fifo_num + 1)] = d2
    OBVIOUS
  <2>1. LineAt(rd_line, fifo_num + 1) = CntNext(wr_line, FIFO_SIZE)
    BY <1>1, <1>5, WriterIsAhead, FifoSizeAssumption
  <2>2. CntNext(wr_line, FIFO_SIZE) \in Lines
    BY <1>5, CounterIterates, FifoSizeAssumption DEF Lines
  <2> QED
    BY <1>2, <1>3, <2>1, <2>2
<1> QED
  BY <1>1, <1>6, <1>7, <1>8, <1>9, <1>10 DEF wf

\* t is s without its first `out' items and with `in' added, item by item.
IsAfter(s, out, in, t) ==
  /\ s \in Seq(Data) /\ t \in Seq(Data) /\ in \in Seq(Data)
  /\ out \in 0..Len(s)
  /\ Len(t) = Len(s) - out + Len(in)
  /\ \A i \in 1..(Len(s) - out) : t[i] = s[out + i]
  /\ \A i \in 1..Len(in) : t[Len(s) - out + i] = in[i]

\* A sequence described item by item is the rest of the queue and the new items.
LEMMA QueueAfter ==
  ASSUME NEW s, NEW out, NEW in, NEW t, IsAfter(s, out, in, t)
  PROVE  t = SubSeq(s, out + 1, Len(s)) \o in
<1> USE DEF IsAfter
<1> DEFINE m == SubSeq(s, out + 1, Len(s))
<1>1. Len(s) \in Nat /\ Len(in) \in Nat /\ Len(t) \in Nat
  BY LenProperties
<1>2. \A i \in (out + 1)..Len(s) : s[i] \in Data
  BY <1>1, LenProperties
<1>3. /\ m \in Seq(Data)
      /\ Len(m) = Len(s) - out
      /\ \A i \in 1..(Len(s) - out) : m[i] = s[out + i]
  <2>1. /\ m \in Seq(Data)
        /\ Len(m) = IF out + 1 <= Len(s) THEN Len(s) - (out + 1) + 1 ELSE 0
        /\ \A i \in 1..(Len(s) - (out + 1) + 1) : m[i] = s[(out + 1) + i - 1]
    <3>1. out + 1 \in Int /\ Len(s) \in Int
      BY <1>1
    <3> QED
      BY <3>1, <1>2, SubSeqProperties
  <2> QED
    BY <1>1, <2>1
<1> HIDE DEF m
<1>4. /\ m \o in \in Seq(Data)
      /\ Len(m \o in) = Len(s) - out + Len(in)
      /\ \A i \in 1..(Len(s) - out + Len(in)) :
           (m \o in)[i] = IF i <= Len(s) - out THEN m[i] ELSE in[i - (Len(s) - out)]
  <2>1. /\ m \o in \in Seq(Data)
        /\ Len(m \o in) = Len(m) + Len(in)
        /\ \A i \in 1..(Len(m) + Len(in)) :
             (m \o in)[i] = IF i <= Len(m) THEN m[i] ELSE in[i - Len(m)]
    BY <1>3, ConcatProperties, Zenon
  <2> QED
    BY <1>3, <2>1, Zenon
<1>5. ASSUME NEW i \in 1..Len(t)
      PROVE  t[i] = (m \o in)[i]
  <2>1. CASE i <= Len(s) - out
    BY <2>1, <1>1, <1>3, <1>4
  <2>2. CASE ~(i <= Len(s) - out)
    <3> DEFINE j == i - (Len(s) - out)
    <3>1. j \in 1..Len(in) /\ i = Len(s) - out + j
      BY <2>2, <1>1
    <3>2. t[i] = in[j]
      BY <3>1
    <3> QED
      BY <2>2, <3>2, <1>1, <1>4
  <2> QED
    BY <2>1, <2>2
<1>6. t = m \o in
  BY <1>1, <1>4, <1>5, SeqEqual
<1> QED
  BY <1>6 DEF m

\* A clock edge is a transfer of the abstract queue.
LEMMA ClockTransfers ==
  ASSUME IInv, IInv',
         NEW w1 \in BOOLEAN, NEW w2 \in BOOLEAN, NEW d1 \in Data, NEW d2 \in Data,
         NEW r1 \in BOOLEAN, NEW r2 \in BOOLEAN,
         Clock(w1, w2, d1, d2, r1, r2)
  PROVE  Abstract!Transfer
<1>1. PICK nw, nr \in 0..2 :
           /\ fifo_num + nw <= FIFO_SIZE /\ nr <= fifo_num
           /\ fifo_num' = fifo_num - nr + nw
           /\ rd_line' = LineAt(rd_line, nr)
           /\ \A k \in 0..(fifo_num - 1) :
                fifo_queue'[LineAt(rd_line, k)] = fifo_queue[LineAt(rd_line, k)]
           /\ nw >= 1 => fifo_queue'[LineAt(rd_line, fifo_num)]
                           = IF w1 THEN d1 ELSE d2
           /\ nw = 2 => fifo_queue'[LineAt(rd_line, fifo_num + 1)] = d2
  BY ClockFromReader
<1> DEFINE wf == IF w1 THEN d1 ELSE d2
           in == IF nw = 0 THEN << >> ELSE IF nw = 1 THEN <<wf>> ELSE <<wf, d2>>
           s == ContentsOf(fifo_queue, rd_line, fifo_num)
           t == ContentsOf(fifo_queue', rd_line', fifo_num')
<1>2. /\ fifo_num \in 0..FIFO_SIZE /\ fifo_num' \in 0..FIFO_SIZE
      /\ rd_line \in Lines /\ rd_line' \in Lines
      /\ fifo_queue \in [Lines -> Data] /\ fifo_queue' \in [Lines -> Data]
  BY <1>1, FillLevel, FifoSizeAssumption DEF IInv, TypeOK
<1>3. Contents = s /\ Contents' = t
  BY <1>2, FifoSizeAssumption DEF Contents, ContentsOf, LineAt, Lines
<1>4. /\ s \in Seq(Data) /\ Len(s) = fifo_num
      /\ \A i \in 1..fifo_num : s[i] = fifo_queue[LineAt(rd_line, i - 1)]
  BY <1>2, ContentsOfFacts
<1>5. /\ t \in Seq(Data) /\ Len(t) = fifo_num'
      /\ \A i \in 1..fifo_num' : t[i] = fifo_queue'[LineAt(rd_line', i - 1)]
  BY <1>2, ContentsOfFacts
<1> HIDE DEF s, t
<1>6. wf \in Data
  OBVIOUS
<1>7. /\ in \in Seq(Data) /\ Len(in) = nw
      /\ nw >= 1 => in[1] = wf
      /\ nw = 2 => in[2] = d2
  <2>1. CASE nw = 0
    BY <2>1
  <2>2. CASE nw = 1
    BY <2>2, <1>6
  <2>3. CASE nw = 2
    BY <2>3, <1>6
  <2> QED
    BY <2>1, <2>2, <2>3
<1> HIDE DEF in, wf
<1>8. \A i \in 1..fifo_num' : t[i] = fifo_queue'[LineAt(rd_line, nr + i - 1)]
  <2> SUFFICES ASSUME NEW i \in 1..fifo_num'
               PROVE  LineAt(rd_line', i - 1) = LineAt(rd_line, nr + i - 1)
    BY <1>5
  <2>1. nr + i - 1 < FIFO_SIZE
    <3>1. i <= fifo_num - nr + nw
      BY <1>1, <1>2
    <3> QED
      BY <3>1, <1>1, <1>2, FifoSizeAssumption
  <2> QED
    BY <2>1, <1>1, <1>2, FifoSizeAssumption DEF LineAt, Lines
<1>9. \A i \in 1..(fifo_num - nr) : t[i] = s[nr + i]
  BY <1>1, <1>2, <1>4, <1>8
<1>10. \A i \in 1..Len(in) : t[fifo_num - nr + i] = in[i]
  <2> SUFFICES ASSUME NEW i \in 1..nw PROVE t[fifo_num - nr + i] = in[i]
    BY <1>7
  <2>1. t[fifo_num - nr + i] = fifo_queue'[LineAt(rd_line, fifo_num + i - 1)]
    BY <1>1, <1>2, <1>8
  <2>2. CASE i = 1
    BY <2>1, <2>2, <1>1, <1>2, <1>7 DEF wf
  <2>3. CASE i = 2
    BY <2>1, <2>3, <1>1, <1>2, <1>7
  <2> QED
    BY <2>2, <2>3
<1>11. t = SubSeq(s, nr + 1, Len(s)) \o in
  <2>1. nr \in 0..Len(s)
    BY <1>1, <1>2, <1>4
  <2>2. Len(t) = Len(s) - nr + Len(in)
    BY <1>1, <1>4, <1>5, <1>7
  <2>3. \A i \in 1..(Len(s) - nr) : t[i] = s[nr + i]
    BY <1>4, <1>9
  <2>4. \A i \in 1..Len(in) : t[Len(s) - nr + i] = in[i]
    BY <1>4, <1>10
  <2> QED
    <3>1. IsAfter(s, nr, in, t)
      BY <1>4, <1>5, <1>7, <2>1, <2>2, <2>3, <2>4 DEF IsAfter
    <3> QED
      BY <3>1, QueueAfter
<1>12. Abstract!Step(nr, in)
  BY <1>1, <1>2, <1>3, <1>4, <1>7, <1>11 DEF Abstract!Step
<1>13. in \in {<< >>, <<wf>>, <<wf, d2>>}
  BY DEF in
<1> QED
  BY <1>6, <1>12, <1>13 DEF Abstract!Transfer

\* Every clock edge of the FIFO transfers at most two items each way, in order,
\* without losing one or overwriting one; only a reset empties it.
THEOREM FifoIsAQueue == Spec => QueueSpec
<1> DEFINE QueueStep == (Reset /\ Abstract!Flush) \/ Abstract!Transfer
<1>1. Init => Abstract!Init
  BY DEF Init, Abstract!Init, Contents, fifo_num
<1>2. IInv /\ IInv' /\ [Next]_vars => [QueueStep]_vars
  <2> SUFFICES ASSUME IInv, IInv', Next PROVE QueueStep
    OBVIOUS
  <2>1. CASE Reset
    <3>1. fifo_num' = 0
      BY <2>1 DEF Reset, fifo_num
    <3>2. Contents' = << >>
      BY <3>1 DEF Contents
    <3> QED
      BY <2>1, <3>2 DEF Abstract!Flush
  <2>2. ASSUME NEW w1 \in BOOLEAN, NEW w2 \in BOOLEAN,
               NEW r1 \in BOOLEAN, NEW r2 \in BOOLEAN,
               NEW d1 \in Data, NEW d2 \in Data,
               Clock(w1, w2, d1, d2, r1, r2)
        PROVE  Abstract!Transfer
    BY <2>2, ClockTransfers
  <2> QED
    BY <2>1, <2>2 DEF Next
<1>3. Spec => []IInv
  BY FifoControl, PTL DEF IInv
<1> QED
  BY <1>1, <1>2, <1>3, PTL DEF Spec, QueueSpec
=============================================================================
