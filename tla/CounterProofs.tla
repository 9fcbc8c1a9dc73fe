--------------------------- MODULE CounterProofs ---------------------------
(***************************************************************************)
(* Lemmas about the two-mode counter and about the circular intervals that   *)
(* a pair of such counters delimits.                                        *)
(***************************************************************************)
EXTENDS TwoModeCounter, TLAPS

\* What the counter does, as arithmetic.
LEMMA CounterStep ==
  ASSUME NEW size \in Nat, size >= 2, NEW cnt \in 0..(size - 1), NEW n \in 0..2
  PROVE  /\ CntAdd(cnt, n, size) \in 0..(size - 1)
         /\ CntEnd(cnt, n, size) <=> cnt + n >= size
         /\ CntAdd(cnt, n, size) = IF cnt + n >= size THEN cnt + n - size ELSE cnt + n
BY DEF CntAdd, CntEnd

\* Counting by n is going to the next line n times.
LEMMA CounterIterates ==
  ASSUME NEW size \in Nat, size >= 2, NEW cnt \in 0..(size - 1)
  PROVE  /\ CntNext(cnt, size) \in 0..(size - 1)
         /\ CntNext(cnt, size) # cnt
         /\ CntAdd(cnt, 0, size) = cnt
         /\ CntAdd(cnt, 1, size) = CntNext(cnt, size)
         /\ CntAdd(cnt, 2, size) = CntNext(CntNext(cnt, size), size)
BY DEF CntAdd, CntEnd, CntNext

\* How many of two enables are set.
LEMMA OnesCases ==
  ASSUME NEW b1 \in BOOLEAN, NEW b2 \in BOOLEAN
  PROVE  /\ Ones(b1, b2) \in 0..2
         /\ ~b1 /\ ~b2 => Ones(b1, b2) = 0
         /\ b1 /\ ~b2 => Ones(b1, b2) = 1
         /\ ~b1 /\ b2 => Ones(b1, b2) = 1
         /\ b1 /\ b2 => Ones(b1, b2) = 2
BY DEF Ones

-----------------------------------------------------------------------------
\* U, a predicate on 0..(size - 1), is the circular interval from c up to, and
\* not including, w; everything or nothing when the two are equal.
Interval(U, c, w, size) ==
  /\ c < w => \A s \in 0..(size - 1) : U[s] <=> (c <= s /\ s < w)
  /\ w < c => \A s \in 0..(size - 1) : U[s] <=> (s < w \/ c <= s)
  /\ w = c => \A s \in 0..(size - 1) : U[s] <=> U[c]

\* Adding a line at the end.
LEMMA IntervalPush ==
  ASSUME NEW size \in Nat, size >= 2, NEW c \in 0..(size - 1), NEW w \in 0..(size - 1),
         NEW U \in [0..(size - 1) -> BOOLEAN], Interval(U, c, w, size), ~U[w]
  PROVE  /\ [U EXCEPT ![w] = TRUE] \in [0..(size - 1) -> BOOLEAN]
         /\ Interval([U EXCEPT ![w] = TRUE], c, CntNext(w, size), size)
<1> DEFINE V == [U EXCEPT ![w] = TRUE]
<1>1. V \in [0..(size - 1) -> BOOLEAN]
  BY Zenon
<1>2. \A s \in 0..(size - 1) : V[s] <=> (s = w \/ U[s])
  BY Zenon
<1> HIDE DEF V
<1>3. Interval(V, c, CntNext(w, size), size)
  <2>1. CASE c < w
    BY <1>2, <2>1 DEF Interval, CntNext
  <2>2. CASE w < c
    BY <1>2, <2>2 DEF Interval, CntNext
  <2>3. CASE w = c
    BY <1>2, <2>3 DEF Interval, CntNext
  <2> QED
    BY <2>1, <2>2, <2>3
<1> QED
  BY <1>1, <1>3 DEF V

\* Removing the line at the start.
LEMMA IntervalPop ==
  ASSUME NEW size \in Nat, size >= 2, NEW c \in 0..(size - 1), NEW w \in 0..(size - 1),
         NEW U \in [0..(size - 1) -> BOOLEAN], Interval(U, c, w, size), U[c]
  PROVE  /\ [U EXCEPT ![c] = FALSE] \in [0..(size - 1) -> BOOLEAN]
         /\ Interval([U EXCEPT ![c] = FALSE], CntNext(c, size), w, size)
<1> DEFINE V == [U EXCEPT ![c] = FALSE]
<1>1. V \in [0..(size - 1) -> BOOLEAN]
  BY Zenon
<1>2. \A s \in 0..(size - 1) : V[s] <=> (s # c /\ U[s])
  BY Zenon
<1> HIDE DEF V
<1>3. Interval(V, CntNext(c, size), w, size)
  <2>1. CASE c < w
    BY <1>2, <2>1 DEF Interval, CntNext
  <2>2. CASE w < c
    BY <1>2, <2>2 DEF Interval, CntNext
  <2>3. CASE w = c
    BY <1>2, <2>3 DEF Interval, CntNext
  <2> QED
    BY <2>1, <2>2, <2>3
<1> QED
  BY <1>1, <1>3 DEF V
=============================================================================
