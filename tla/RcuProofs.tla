----------------------------- MODULE RcuProofs -----------------------------
(***************************************************************************)
(* The issue logic: RcuControl, the inductive invariant of the registers,     *)
(* queues and units, for every size of the reorder buffer, the queues and the *)
(* load/store unit and every instruction set.  It gives the refinement of     *)
(* RobRename, whose theorems then hold of the whole unit, and four properties *)
(* of Rcu.                                                                 *)
(*                                                                         *)
(* The heart of RcuControl is that an entry that was issued and has not       *)
(* finished (Waiting) has its request in exactly one place.  An edge is taken *)
(* apart twice: by what happens to one entry (it departs, stays, enters or    *)
(* idles: EntryStep), and by what the two ports carry (PortsAre); each        *)
(* register, queue and unit then gains requests of entries issued at this     *)
(* edge and loses only those that are answered.                             *)
(***************************************************************************)
EXTENDS Rcu, RobRenameProofs, SequenceTheorems, NaturalsInduction, WellFoundedInduction

-----------------------------------------------------------------------------
(* What the arbiter grants.                                                 *)

\* A set of ages that is not empty has a least member.
LEMMA LeastAge ==
  ASSUME NEW S \in SUBSET Nat, S # {}
  PROVE  Arb!Min(S) \in S /\ \A j \in S : Arb!Min(S) <= j
<1> DEFINE less == {ss \in Nat \X Nat : ss[1] < ss[2]}
<1>1. IsWellFoundedOn(less, Nat)
  BY NatLessThanWellFounded DEF OpToRel
<1>2. \E x \in S : \A y \in S : ~(<<y, x>> \in less)
  <2> HIDE DEF less
  <2> QED
    BY <1>1, WFMin
<1>3. PICK x \in S : \A y \in S : ~(<<y, x>> \in less)
  BY <1>2
<1>4. ASSUME NEW y \in S PROVE x <= y
  <2>1. y < x => <<y, x>> \in less
    OBVIOUS
  <2> QED
    BY <1>3, <2>1
<1> QED
  BY <1>4 DEF Arb!Min

\* The grants are eligible, at most two, and the first is the older one.
LEMMA TwoOldestAre ==
  ASSUME NEW in, NEW g, g = Arb!TwoOldest(in)
  PROVE  /\ g = << >>
            \/ /\ Len(g) = 1 /\ g = <<g[1]>> /\ g[1] \in Arb!Eligible(in)
            \/ /\ Len(g) = 2 /\ g[1] \in Arb!Eligible(in) /\ g[2] \in Arb!Eligible(in)
               /\ g[1] < g[2]
<1> DEFINE E == Arb!Eligible(in)
           o == Arb!Min(E)
           n == Arb!Min(E \ {o})
<1>1. E \in SUBSET Nat
  BY Sizes DEF Arb!Eligible, Arb!Ages
<1>2. ASSUME E # {} PROVE o \in E /\ \A j \in E : o <= j
  BY <1>1, <1>2, LeastAge
<1>3. ASSUME E \ {o} # {} PROVE n \in E \ {o}
  BY <1>1, <1>3, LeastAge
<1>4. g = IF E = {} THEN << >> ELSE IF E = {o} THEN <<o>> ELSE <<o, n>>
  BY DEF Arb!TwoOldest
<1> HIDE DEF E, o, n
<1>5. CASE E = {}
  BY <1>4, <1>5
<1>6. CASE E = {o}
  BY <1>2, <1>4, <1>6 DEF E
<1>7. CASE E # {} /\ E # {o}
  <2>1. o \in E /\ n \in E \ {o} /\ o <= n
    BY <1>2, <1>3, <1>7
  <2>2. o < n
    BY <1>1, <2>1
  <2> QED
    BY <1>4, <1>7, <2>1, <2>2 DEF E
<1> QED
  BY <1>5, <1>6, <1>7

-----------------------------------------------------------------------------
(* What the issue ports carry.                                              *)

\* The request of an entry, as long as the entry is in flight.
Req(s) == [idx |-> s, prd |-> rob_prd[s], op |-> rob_op[s].op]

\* The requests of the two instructions of the decode window.
NewReq(dec, k) ==
  IF k = 1 THEN [idx |-> wr_rob_index, prd |-> prd_first(dec), op |-> dec[1].op]
           ELSE [idx |-> wr_rob_index_second, prd |-> prd_second(dec), op |-> dec[2].op]

\* Request p, of age j, may be issued: by an entry, or by an instruction in the cycle
\* in which it is allocated.  No load or store overtakes an older one.
Chosen(p, j, R, dec) ==
  /\ \/ /\ j \in 0..(ROB_SIZE - 1)
        /\ p.idx \in Slots /\ Pos(p.idx) = j /\ p = Req(p.idx)
        /\ rob_select_ready(p.idx, R, dec)
     \/ j = ROB_SIZE /\ p = NewReq(dec, 1) /\ bypass_ready(1, R, dec)
     \/ j = ROB_SIZE + 1 /\ p = NewReq(dec, 2) /\ bypass_ready(2, R, dec)
  /\ IsMem(p) =>
       /\ \A t \in Slots : Pos(t) < j => ~rob_op_ls(t)
       /\ j = ROB_SIZE + 1 => ~(Len(dec) >= 1 /\ IsMem(dec[1]))

\* The rotation of the arbiter is by age.
LEMMA RotatedByAge ==
  ASSUME RobTypeOK
  PROVE  /\ \A j \in 0..(ROB_SIZE - 1) : /\ Arb!EntryOfAge(cmt_rob_index, j) \in Slots
                                         /\ Pos(Arb!EntryOfAge(cmt_rob_index, j)) = j
         /\ \A t \in Slots : /\ Pos(t) \in 0..(ROB_SIZE - 1)
                             /\ Arb!EntryOfAge(cmt_rob_index, Pos(t)) = t
BY Sizes DEF RobTypeOK, Slots, Pos, Arb!EntryOfAge

\* An eligible age is one that may be issued.
LEMMA EligibleIsChosen ==
  ASSUME RobTypeOK, NEW R, NEW dec, NEW j \in Arb!Eligible(ArbiterInput(R, dec)),
         NEW p, p = RequestOfAge(dec, j)
  PROVE  Chosen(p, j, R, dec) /\ j \in Nat
<1> DEFINE in == ArbiterInput(R, dec)
<1>1. j \in 0..(ROB_SIZE + 1) /\ Arb!Asked(in, j)
      /\ (Arb!IsLs(in, j) => \A k \in 0..(j - 1) : ~Arb!IsLs(in, k))
  BY DEF Arb!Eligible, Arb!Ages
<1>2. /\ in.prio = cmt_rob_index
      /\ \A s \in Slots : in.req[s] = rob_select_ready(s, R, dec) /\ in.req_ls[s] = rob_op_ls(s)
      /\ in.new_req[1] = bypass_ready(1, R, dec) /\ in.new_req[2] = bypass_ready(2, R, dec)
      /\ in.new_req_ls[1] = (Len(dec) >= 1 /\ IsMem(dec[1]))
      /\ in.new_req_ls[2] = (Len(dec) >= 2 /\ IsMem(dec[2]))
  BY Zenon DEF ArbiterInput
<1> HIDE DEF in
<1>3. \A t \in Slots : Pos(t) \in 0..(ROB_SIZE - 1) /\ (Arb!IsLs(in, Pos(t)) <=> rob_op_ls(t))
  BY <1>2, RotatedByAge, Sizes DEF Arb!IsLs
<1>4. /\ Arb!IsLs(in, ROB_SIZE) <=> (Len(dec) >= 1 /\ IsMem(dec[1]))
      /\ Arb!IsLs(in, ROB_SIZE + 1) <=> (Len(dec) >= 2 /\ IsMem(dec[2]))
  <2>1. ROB_SIZE - ROB_SIZE + 1 = 1 /\ ~(ROB_SIZE < ROB_SIZE)
    BY Sizes
  <2>2. Arb!IsLs(in, ROB_SIZE) <=> in.new_req_ls[1]
    BY <2>1 DEF Arb!IsLs
  <2>3. Arb!IsLs(in, ROB_SIZE + 1) <=> in.new_req_ls[2]
    <3> DEFINE k == ROB_SIZE + 1
    <3>1. k - ROB_SIZE + 1 = 2 /\ ~(k < ROB_SIZE)
      BY Sizes
    <3> HIDE DEF k
    <3>2. Arb!IsLs(in, k) <=> in.new_req_ls[2]
      BY <3>1 DEF Arb!IsLs
    <3> QED
      BY <3>2 DEF k
  <2> QED
    BY <1>2, <2>2, <2>3, Zenon
<1>5. ASSUME Arb!IsLs(in, j)
      PROVE  /\ \A t \in Slots : Pos(t) < j => ~rob_op_ls(t)
             /\ j = ROB_SIZE + 1 => ~(Len(dec) >= 1 /\ IsMem(dec[1]))
  <2>1. \A k \in 0..(j - 1) : ~Arb!IsLs(in, k)
    BY <1>1, <1>5
  <2>2. ASSUME NEW t \in Slots, Pos(t) < j PROVE ~rob_op_ls(t)
    <3>1. Pos(t) \in 0..(j - 1)
      BY <1>1, <1>3, <2>2
    <3> QED
      BY <1>3, <2>1, <3>1
  <2>3. ASSUME j = ROB_SIZE + 1 PROVE ~(Len(dec) >= 1 /\ IsMem(dec[1]))
    <3>1. ROB_SIZE \in 0..(j - 1)
      BY <2>3, Sizes
    <3> QED
      BY <1>4, <2>1, <3>1
  <2> QED
    BY <2>2, <2>3
<1>6. CASE j < ROB_SIZE
  <2> DEFINE s == Arb!EntryOfAge(cmt_rob_index, j)
  <2>1. j \in 0..(ROB_SIZE - 1) /\ s \in Slots /\ Pos(s) = j
    BY <1>1, <1>6, RotatedByAge, Sizes
  <2>2. rob_select_ready(s, R, dec)
    BY <1>1, <1>2, <1>6, <2>1 DEF Arb!Asked
  <2>3. p = Req(s) /\ p.idx = s /\ p.op = rob_op[s].op
    BY <1>6 DEF RequestOfAge, Req
  <2> HIDE DEF s
  <2>4. IsMem(p) => Arb!IsLs(in, j)
    BY <1>3, <2>1, <2>2, <2>3 DEF rob_op_ls, rob_select_ready, IsMem
  <2> QED
    BY <1>5, <1>6, <2>1, <2>2, <2>3, <2>4 DEF Chosen
<1>7. CASE j = ROB_SIZE
  <2>1. bypass_ready(1, R, dec) /\ p = NewReq(dec, 1) /\ p.op = dec[1].op
    BY <1>1, <1>2, <1>7, Sizes DEF Arb!Asked, RequestOfAge, NewReq
  <2>2. IsMem(p) => Arb!IsLs(in, j)
    BY <1>4, <1>7, <2>1 DEF bypass_ready, do_rob_write_first, IsMem
  <2> QED
    BY <1>5, <1>7, <2>1, <2>2, Sizes DEF Chosen
<1>8. CASE j = ROB_SIZE + 1
  <2>1. bypass_ready(2, R, dec) /\ p = NewReq(dec, 2) /\ p.op = dec[2].op
    BY <1>1, <1>2, <1>8, Sizes DEF Arb!Asked, RequestOfAge, NewReq
  <2>2. IsMem(p) => Arb!IsLs(in, j)
    BY <1>4, <1>8, <2>1 DEF bypass_ready, do_rob_write_second, IsMem
  <2> QED
    BY <1>5, <1>8, <2>1, <2>2, Sizes DEF Chosen
<1> QED
  BY <1>1, <1>6, <1>7, <1>8, Sizes

\* At most two requests, of increasing age.
LEMMA PortsAreChosen ==
  ASSUME RobTypeOK, NEW R, NEW dec, NEW ports, ports = Ports(R, dec)
  PROVE  \/ ports = << >>
         \/ \E p, j : ports = <<p>> /\ j \in Nat /\ Chosen(p, j, R, dec)
         \/ \E p, q, j, k : /\ ports = <<p, q>> /\ j \in Nat /\ k \in Nat /\ j < k
                            /\ Chosen(p, j, R, dec) /\ Chosen(q, k, R, dec)
<1> DEFINE E == Arb!Eligible(ArbiterInput(R, dec))
           g == Arb!TwoOldest(ArbiterInput(R, dec))
<1>1. \A j \in E : Chosen(RequestOfAge(dec, j), j, R, dec) /\ j \in Nat
  BY EligibleIsChosen
<1>2. \/ g = << >>
      \/ Len(g) = 1 /\ g = <<g[1]>> /\ g[1] \in E
      \/ Len(g) = 2 /\ g[1] \in E /\ g[2] \in E /\ g[1] < g[2]
  BY TwoOldestAre
<1>3. ports = IF g = << >> THEN << >>
              ELSE IF Len(g) % 2 = 1 THEN <<RequestOfAge(dec, g[1])>>
              ELSE <<RequestOfAge(dec, g[1]), RequestOfAge(dec, g[Len(g)])>>
  BY DEF Ports
<1> HIDE DEF E, g
<1>4. CASE g = << >>
  BY <1>3, <1>4
<1>5. CASE Len(g) = 1 /\ g = <<g[1]>> /\ g[1] \in E
  <2>1. ports = <<RequestOfAge(dec, g[1])>>
    BY <1>3, <1>5
  <2> QED
    BY <1>1, <1>5, <2>1
<1>6. CASE Len(g) = 2 /\ g[1] \in E /\ g[2] \in E /\ g[1] < g[2]
  <2>1. ports = <<RequestOfAge(dec, g[1]), RequestOfAge(dec, g[2])>>
    BY <1>3, <1>6
  <2> QED
    BY <1>1, <1>6, <2>1
<1> QED
  BY <1>2, <1>4, <1>5, <1>6

-----------------------------------------------------------------------------
(* Queues.                                                                  *)

\* No request twice.
Distinct(q) == \A i, j \in 1..Len(q) : q[i] = q[j] => i = j

\* A queue without its first t requests and with reqs appended.
Appended(q, t, reqs, nq) ==
  /\ Len(nq) = Len(q) - t + Len(reqs)
  /\ \A i \in 1..(Len(q) - t) : nq[i] = q[i + t]
  /\ \A k \in 1..Len(reqs) : nq[Len(q) - t + k] = reqs[k]

\* A queue that had room for two before the edge: the head leaves, the new requests
\* are appended.
LEMMA NextQueueIs ==
  ASSUME NEW X, NEW q \in Seq(X), NEW reqs \in Seq(X), Len(reqs) \in 0..2, NEW depth \in Nat,
         NEW taken \in BOOLEAN, taken => q # << >>, Len(reqs) >= 1 => Len(q) < depth - 1,
         NEW nq, nq = NextQueue(q, depth, reqs, taken)
  PROVE  nq \in Seq(X) /\ Appended(q, IF taken THEN 1 ELSE 0, reqs, nq)
<1> DEFINE t == IF taken THEN 1 ELSE 0
           n == Len(q) - t
           l == Len(reqs)
           k == IF Len(reqs) = 2 /\ Len(q) < depth - 1 THEN 2
                ELSE IF Len(reqs) >= 1 /\ Len(q) < depth THEN 1 ELSE 0
           rest == IF taken THEN Tail(q) ELSE q
<1>1. Len(q) \in Nat /\ (taken => Len(q) >= 1)
  BY LenProperties, EmptySeq
<1>2. t \in 0..1 /\ n \in Nat /\ l \in 0..2
  BY <1>1
<1>3. k = Len(reqs)
  BY <1>1
<1>4. SubSeq(reqs, 1, k) = reqs
  BY <1>3, SubSeqFull
<1>5. nq = rest \o SubSeq(reqs, 1, k)
  BY DEF NextQueue
<1>6. nq = rest \o reqs
  BY <1>4, <1>5
<1>7. rest \in Seq(X) /\ Len(rest) = n /\ \A i \in 1..n : rest[i] = q[i + t]
  <2>1. CASE taken
    BY <2>1, <1>1, HeadTailProperties
  <2>2. CASE ~taken
    BY <2>2, <1>1
  <2> QED
    BY <2>1, <2>2
<1> HIDE DEF k, rest, n, l
<1>8. /\ rest \o reqs \in Seq(X) /\ Len(rest \o reqs) = Len(rest) + Len(reqs)
      /\ \A i \in 1..(Len(rest) + Len(reqs)) :
           (rest \o reqs)[i] = IF i <= Len(rest) THEN rest[i] ELSE reqs[i - Len(rest)]
  BY ONLY <1>7, reqs \in Seq(X), ConcatProperties
<1>9. ASSUME NEW i \in 1..n PROVE nq[i] = q[i + t]
  BY <1>2, <1>6, <1>7, <1>8 DEF l
<1>10. ASSUME NEW j \in 1..l PROVE nq[n + j] = reqs[j]
  <2> DEFINE i == n + j
  <2>1. i \in 1..(n + l) /\ ~(i <= n) /\ i - n = j
    BY <1>2
  <2> HIDE DEF i
  <2>2. nq[i] = reqs[j]
    BY <1>6, <1>7, <1>8, <2>1 DEF l
  <2> QED
    BY <2>2 DEF i
<1>11. nq \in Seq(X) /\ Len(nq) = n + l
  BY <1>6, <1>7, <1>8 DEF l
<1> QED
  BY <1>9, <1>10, <1>11 DEF Appended, n, l

\* What is then in the queue, and that nothing is in it twice.
LEMMA QueueAfter ==
  ASSUME NEW X, NEW q \in Seq(X), Distinct(q), NEW reqs \in Seq(X), Len(reqs) \in 0..2,
         Distinct(reqs), Range(q) \cap Range(reqs) = {},
         NEW depth \in Nat, Len(q) <= depth,
         NEW taken \in BOOLEAN, taken => q # << >>, Len(reqs) >= 1 => Len(q) < depth - 1,
         NEW nq, nq = NextQueue(q, depth, reqs, taken)
  PROVE  /\ nq \in Seq(X) /\ Len(nq) <= depth /\ Distinct(nq)
         /\ taken => Head(q) \in Range(q)
         /\ Range(nq) = Range(reqs) \cup (IF taken THEN Range(q) \ {Head(q)} ELSE Range(q))
<1> DEFINE t == IF taken THEN 1 ELSE 0
           n == Len(q) - t
           l == Len(reqs)
<1>1. Len(q) \in Nat /\ (taken => Len(q) >= 1) /\ DOMAIN q = 1..Len(q)
      /\ DOMAIN reqs = 1..l
  BY LenProperties, EmptySeq
<1>2. t \in 0..1 /\ n \in Nat /\ l \in 0..2
  BY <1>1
<1>3. /\ nq \in Seq(X) /\ Len(nq) = n + l
      /\ \A i \in 1..n : nq[i] = q[i + t]
      /\ \A k \in 1..l : nq[n + k] = reqs[k]
  <2>1. nq \in Seq(X) /\ Appended(q, t, reqs, nq)
    BY NextQueueIs
  <2> QED
    BY <2>1 DEF Appended
<1>4. DOMAIN nq = 1..(n + l)
  BY <1>3, LenProperties
<1>5. taken => Head(q) = q[1] /\ 1 \in 1..Len(q)
  BY <1>1
<1>a. n + l <= depth
  <2>1. CASE l = 0
    BY <1>1, <1>2, <2>1
  <2>2. CASE l >= 1
    BY <1>1, <1>2, <2>2
  <2> QED
    BY <1>2, <2>1, <2>2
<1>b. \A x \in 1..n : x + t \in 1..Len(q)
  BY <1>1, <1>2
<1> HIDE DEF n, l, t
<1>6. \A i \in 1..(n + l) : i \in 1..n \/ (i - n \in 1..l /\ nq[i] = reqs[i - n])
  <2>1. ASSUME NEW i \in 1..(n + l), ~(i \in 1..n)
        PROVE  i - n \in 1..l /\ nq[i] = reqs[i - n]
    <3> DEFINE k == i - n
    <3>1. k \in 1..l /\ i = n + k
      BY <1>2, <2>1
    <3> QED
      BY <1>3, <3>1
  <2> QED
    BY <2>1
<1>7. Len(nq) <= depth
  BY <1>3, <1>a
<1>8. Distinct(nq)
  <2> SUFFICES ASSUME NEW i \in 1..(n + l), NEW j \in 1..(n + l), nq[i] = nq[j]
               PROVE  i = j
    BY <1>3 DEF Distinct
  <2>1. \A x \in 1..n : x + t \in 1..Len(q) /\ nq[x] \in Range(q)
    BY <1>1, <1>3, <1>b DEF Range
  <2>2. \A k \in 1..l : reqs[k] \in Range(reqs)
    BY <1>1 DEF Range
  <2>3. CASE i \in 1..n /\ j \in 1..n
    <3>1. q[i + t] = q[j + t] /\ i + t \in 1..Len(q) /\ j + t \in 1..Len(q)
      BY <1>3, <2>1, <2>3
    <3>2. i + t = j + t
      BY <3>1 DEF Distinct
    <3> QED
      BY <1>2, <3>2
  <2>4. CASE ~(i \in 1..n) /\ ~(j \in 1..n)
    <3>1. i - n \in 1..l /\ j - n \in 1..l /\ reqs[i - n] = reqs[j - n]
      BY <1>6, <2>4
    <3>2. i - n = j - n
      BY <3>1 DEF Distinct, l
    <3> QED
      BY <1>2, <3>2
  <2>5. CASE i \in 1..n /\ ~(j \in 1..n)
    BY <1>6, <2>1, <2>2, <2>5
  <2>6. CASE ~(i \in 1..n) /\ j \in 1..n
    BY <1>6, <2>1, <2>2, <2>6
  <2> QED
    BY <2>3, <2>4, <2>5, <2>6
<1>9. Range(nq) = Range(reqs) \cup (IF taken THEN Range(q) \ {Head(q)} ELSE Range(q))
  <2>1. ASSUME NEW x \in Range(nq)
        PROVE  x \in Range(reqs) \cup (IF taken THEN Range(q) \ {Head(q)} ELSE Range(q))
    <3>1. PICK i \in 1..(n + l) : x = nq[i]
      BY <1>4 DEF Range
    <3>2. CASE i \in 1..n
      <4>1. x = q[i + t] /\ i + t \in 1..Len(q) /\ (taken => i + t # 1)
        BY <1>1, <1>2, <1>3, <1>b, <3>1, <3>2 DEF t
      <4>2. x \in Range(q)
        BY <1>1, <4>1 DEF Range
      <4>3. taken => x # Head(q)
        BY <1>5, <4>1 DEF Distinct
      <4> QED
        BY <4>2, <4>3
    <3>3. CASE ~(i \in 1..n)
      BY <1>1, <1>6, <3>1, <3>3 DEF Range
    <3> QED
      BY <3>2, <3>3
  <2>2. ASSUME NEW x \in Range(reqs) PROVE x \in Range(nq)
    <3>1. PICK k \in 1..l : x = reqs[k]
      BY <1>1 DEF Range
    <3>2. n + k \in DOMAIN nq /\ nq[n + k] = x
      BY <1>2, <1>3, <1>4, <3>1
    <3> QED
      BY <3>2 DEF Range
  <2>3. ASSUME NEW x \in Range(q), taken => x # Head(q) PROVE x \in Range(nq)
    <3>1. PICK i \in 1..Len(q) : x = q[i]
      BY <1>1 DEF Range
    <3> DEFINE k == i - t
    <3>2. k \in 1..n /\ k + t = i
      BY <1>1, <1>2, <1>5, <2>3, <3>1 DEF n, t
    <3>3. nq[k] = x /\ k \in DOMAIN nq
      BY <1>2, <1>3, <1>4, <3>1, <3>2
    <3> QED
      BY <3>3 DEF Range
  <2> QED
    BY <2>1, <2>2, <2>3
<1>10. taken => Head(q) \in Range(q)
  BY <1>1, <1>5 DEF Range
<1> QED
  BY <1>3, <1>7, <1>8, <1>9, <1>10

\* At most two requests out of X, and not the same one twice.
AtMostTwo(X, ports) ==
  \/ ports = << >>
  \/ \E p \in X : ports = <<p>>
  \/ \E p, q \in X : ports = <<p, q>> /\ p # q

\* What is taken from one port.
LEMMA FromPortIs ==
  ASSUME NEW X, NEW ports, AtMostTwo(X, ports), NEW k \in {1, 2}, NEW ops,
         NEW reqs, reqs = FromPort(ports, k, ops)
  PROVE  /\ reqs \in Seq(X) /\ Len(reqs) \in 0..1 /\ DOMAIN reqs = 1..Len(reqs)
         /\ Len(reqs) = 1 => /\ k <= Len(ports) /\ ports[k].op \in ops /\ ports[k] \in X
                             /\ reqs[1] = ports[k]
         /\ Len(reqs) = 0 => ~(k <= Len(ports) /\ ports[k].op \in ops)
<1>1. /\ Len(ports) \in 0..2 /\ DOMAIN ports = 1..Len(ports)
      /\ k <= Len(ports) => ports[k] \in X
  BY DEF AtMostTwo
<1>2. CASE k <= Len(ports) /\ ports[k].op \in ops
  <2>1. reqs = <<ports[k]>>
    BY <1>2 DEF FromPort
  <2> QED
    BY <1>1, <1>2, <2>1
<1>3. CASE ~(k <= Len(ports) /\ ports[k].op \in ops)
  <2>1. reqs = << >>
    BY <1>3 DEF FromPort
  <2> QED
    BY <1>1, <1>3, <2>1
<1> QED
  BY <1>2, <1>3

\* What is taken from both.
LEMMA FromPortsIs ==
  ASSUME NEW X, NEW ports, AtMostTwo(X, ports), NEW ops, NEW reqs, reqs = FromPorts(ports, ops)
  PROVE  /\ reqs \in Seq(X) /\ Len(reqs) \in 0..2 /\ Distinct(reqs)
         /\ Range(reqs) = {p \in Range(ports) : p.op \in ops}
         /\ Len(reqs) = 2 => Len(ports) = 2 /\ reqs[1] = ports[1] /\ reqs[2] = ports[2]
<1> DEFINE a == FromPort(ports, 1, ops)
           b == FromPort(ports, 2, ops)
<1>1. /\ a \in Seq(X) /\ Len(a) \in 0..1
      /\ Len(a) = 1 => 1 <= Len(ports) /\ ports[1].op \in ops /\ a[1] = ports[1]
      /\ Len(a) = 0 => ~(1 <= Len(ports) /\ ports[1].op \in ops)
  <2>1. 1 \in {1, 2}
    OBVIOUS
  <2> QED
    BY <2>1, FromPortIs
<1>2. /\ b \in Seq(X) /\ Len(b) \in 0..1
      /\ Len(b) = 1 => 2 <= Len(ports) /\ ports[2].op \in ops /\ b[1] = ports[2]
      /\ Len(b) = 0 => ~(2 <= Len(ports) /\ ports[2].op \in ops)
  BY FromPortIs, Zenon
<1>3. reqs = a \o b
  BY DEF FromPorts
<1> HIDE DEF a, b
<1>4. /\ reqs \in Seq(X) /\ Len(reqs) = Len(a) + Len(b)
      /\ \A i \in 1..(Len(a) + Len(b)) :
           reqs[i] = IF i <= Len(a) THEN a[i] ELSE b[i - Len(a)]
  BY ONLY <1>1, <1>2, <1>3, ConcatProperties
<1>5. Len(reqs) \in 0..2 /\ DOMAIN reqs = 1..Len(reqs)
  BY <1>1, <1>2, <1>4, LenProperties
<1>6. /\ Len(ports) \in 0..2 /\ DOMAIN ports = 1..Len(ports)
      /\ Len(ports) = 2 => ports[1] # ports[2]
  BY DEF AtMostTwo
<1>11. reqs \in Seq(X)
  BY <1>4
<1>7. CASE Len(a) = 0 /\ Len(b) = 0
  <2>1. Len(reqs) = 0 /\ DOMAIN reqs = {}
    BY <1>4, <1>5, <1>7
  <2>2. ~\E p \in Range(ports) : p.op \in ops
    BY <1>1, <1>2, <1>6, <1>7 DEF Range
  <2>3. Range(reqs) = {} /\ {p \in Range(ports) : p.op \in ops} = {}
    BY <2>1, <2>2 DEF Range
  <2>4. Distinct(reqs)
    BY <2>1 DEF Distinct
  <2> QED
    BY <1>5, <1>11, <2>1, <2>3, <2>4
<1>8. CASE Len(a) = 1 /\ Len(b) = 0
  <2>1. Len(reqs) = 1 /\ DOMAIN reqs = {1} /\ reqs[1] = ports[1]
    BY <1>1, <1>4, <1>5, <1>8
  <2>2. Range(reqs) = {ports[1]}
    BY <2>1 DEF Range
  <2>3. {p \in Range(ports) : p.op \in ops} = {ports[1]}
    BY <1>1, <1>2, <1>6, <1>8 DEF Range
  <2>4. Distinct(reqs)
    BY <2>1 DEF Distinct
  <2> QED
    BY <1>5, <1>11, <2>1, <2>2, <2>3, <2>4
<1>9. CASE Len(a) = 0 /\ Len(b) = 1
  <2>1. Len(reqs) = 1 /\ DOMAIN reqs = {1} /\ reqs[1] = ports[2]
    BY <1>2, <1>4, <1>5, <1>9
  <2>2. Range(reqs) = {ports[2]}
    BY <2>1 DEF Range
  <2>3. {p \in Range(ports) : p.op \in ops} = {ports[2]}
    BY <1>1, <1>2, <1>6, <1>9 DEF Range
  <2>4. Distinct(reqs)
    BY <2>1 DEF Distinct
  <2> QED
    BY <1>5, <1>11, <2>1, <2>2, <2>3, <2>4
<1>10. CASE Len(a) = 1 /\ Len(b) = 1
  <2>1. Len(reqs) = 2 /\ DOMAIN reqs = {1, 2} /\ reqs[1] = ports[1] /\ reqs[2] = ports[2]
    BY <1>1, <1>2, <1>4, <1>5, <1>10
  <2>2. Range(reqs) = {ports[1], ports[2]}
    BY <2>1 DEF Range
  <2>3. Len(ports) = 2
    BY <1>2, <1>6, <1>10
  <2>4. {p \in Range(ports) : p.op \in ops} = {ports[1], ports[2]}
    BY <1>1, <1>2, <1>6, <1>10, <2>3 DEF Range
  <2>5. Distinct(reqs)
    BY <1>6, <2>1, <2>3 DEF Distinct
  <2> QED
    BY <1>5, <1>11, <2>1, <2>2, <2>3, <2>4, <2>5
<1> QED
  BY <1>1, <1>2, <1>7, <1>8, <1>9, <1>10

-----------------------------------------------------------------------------
(* Entries over an edge.                                                    *)

\* An entry that was issued and is not finished.
Waiting(s) == rob_used[s] /\ rob_selected[s] /\ ~rob_finish[s]

\* How the flags of an entry hang together.  An entry that was never issued is finished
\* only if it skips execution, and one that skips execution is finished from the start.
EntryFlags ==
  \A s \in Slots :
    /\ rob_finish[s] => rob_used[s]
    /\ rob_selected[s] => rob_used[s]
    /\ rob_predict_miss[s] => rob_finish[s]
    /\ rob_used[s] /\ rob_op[s].exception => rob_exp[s]
    /\ rob_used[s] /\ Skipped(rob_op[s]) => rob_finish[s]
    /\ rob_finish[s] /\ ~rob_selected[s] => Skipped(rob_op[s])

\* The slots of the requests on the ports.
IssuedSlots(ports) == {p.idx : p \in Range(ports)}

\* The four things that can happen to an entry.
Departs(s) == /\ rob_used[s] /\ rob_finish[s]
              /\ ~rob_used'[s] /\ ~rob_finish'[s] /\ ~rob_selected'[s]
              /\ ~rob_predict_miss'[s]
Stays(s, done, ports) ==
  /\ rob_used'[s] /\ rob_op'[s] = rob_op[s] /\ rob_prd'[s] = rob_prd[s]
  /\ rob_finish'[s] <=> rob_finish[s] \/ s \in DOMAIN done
  /\ rob_selected'[s] <=> rob_selected[s] \/ s \in IssuedSlots(ports)
  /\ rob_exp[s] => rob_exp'[s]
  /\ rob_predict_miss'[s] => rob_predict_miss[s] \/ s \in DOMAIN done
Enters(s, i, p, ports) ==
  /\ ~rob_used[s] /\ rob_used'[s] /\ rob_op'[s] = i /\ rob_prd'[s] = p
  /\ rob_finish'[s] <=> Skipped(i)
  /\ rob_selected'[s] <=> s \in IssuedSlots(ports)
  /\ i.exception => rob_exp'[s]
  /\ ~rob_predict_miss'[s]
Idle(s, ports) == /\ ~rob_used[s] /\ ~rob_used'[s] /\ ~rob_finish'[s]
                  /\ rob_selected'[s] <=> s \in IssuedSlots(ports)
                  /\ ~rob_predict_miss'[s]

\* The entries an edge does not allocate.
NotWritten(s, dec) == /\ ~(do_rob_write_first(dec) /\ s = wr_rob_index)
                      /\ ~(do_rob_write_second(dec) /\ s = wr_rob_index_second)

\* Every entry does one of them.
LEMMA EntryStep ==
  ASSUME RobControl, EntryFlags, rob_selected \in [Slots -> BOOLEAN],
         NEW dec \in DecodeWindows, NEW done, DOMAIN done \subseteq {s \in Slots : Waiting(s)},
         Advance(dec, done), NEW ports, AdvanceSelected(ports), NEW s \in Slots
  PROVE  /\ s \in Committing => Departs(s)
         /\ rob_used[s] /\ s \notin Committing => Stays(s, done, ports)
         /\ do_rob_write_first(dec) /\ s = wr_rob_index =>
              Enters(s, dec[1], prd_first(dec), ports)
         /\ do_rob_write_second(dec) /\ s = wr_rob_index_second =>
              Enters(s, dec[2], prd_second(dec), ports)
         /\ ~rob_used[s] /\ NotWritten(s, dec) => Idle(s, ports)
<1>1. RobTypeOK
  BY DEF RobControl
<1>2. /\ rob_used'[s] <=> s \notin Committing /\ Allocate(rob_used, dec, TRUE, TRUE)[s]
      /\ rob_finish'[s] <=> \/ s \in SkippedSlots(dec)
                            \/ s \notin Committing /\ (rob_finish[s] \/ s \in DOMAIN done)
      /\ rob_exp'[s] <=>
           \/ Done(done, s, "exp")
           \/ Allocate(rob_exp, dec, dec[1].exception, dec[2].exception)[s]
      /\ rob_predict_miss'[s] <=>
           s \notin Committing /\ (rob_predict_miss[s] \/ Done(done, s, "miss"))
      /\ rob_selected'[s] <=>
           s \notin Committing /\ (rob_selected[s] \/ s \in IssuedSlots(ports))
  BY DEF Advance, AdvanceRob, AdvanceUsed, AdvanceFinish, AdvanceExp, AdvanceMiss,
         AdvanceSelected, IssuedSlots
<1>3. /\ rob_op' = Allocate(rob_op, dec, dec[1], dec[2])
      /\ rob_prd' = Allocate(rob_prd, dec, prd_first(dec), prd_second(dec))
  BY DEF Advance, AdvanceRob, AdvanceEntry
<1>4. s \in Committing => rob_used[s] /\ rob_finish[s]
  BY DEF Committing, do_rob_commit_first, do_rob_commit_second
<1>5. rob_used[s] => NotWritten(s, dec)
  BY DEF NotWritten, do_rob_write_first, do_rob_write_second
<1>6. s \in SkippedSlots(dec) <=>
        \/ do_rob_write_first(dec) /\ s = wr_rob_index /\ Skipped(dec[1])
        \/ do_rob_write_second(dec) /\ s = wr_rob_index_second /\ Skipped(dec[2])
  BY DEF SkippedSlots
<1>7. /\ s \in DOMAIN done => rob_used[s]
      /\ rob_finish[s] => rob_used[s]
      /\ rob_selected[s] => rob_used[s]
      /\ rob_predict_miss[s] => rob_used[s]
  BY DEF EntryFlags, Waiting
<1>8. Done(done, s, "miss") => s \in DOMAIN done
  BY DEF Done
<1>9. ASSUME NotWritten(s, dec)
      PROVE  /\ s \notin SkippedSlots(dec)
             /\ Allocate(rob_used, dec, TRUE, TRUE)[s] <=> rob_used[s]
             /\ Allocate(rob_exp, dec, dec[1].exception, dec[2].exception)[s] <=> rob_exp[s]
             /\ rob_op'[s] = rob_op[s] /\ rob_prd'[s] = rob_prd[s]
  <2>1. s \notin SkippedSlots(dec)
    BY <1>6, <1>9 DEF NotWritten
  <2>2. Allocate(rob_used, dec, TRUE, TRUE)[s] <=> rob_used[s]
    BY <1>9 DEF Allocate, NotWritten
  <2>3. Allocate(rob_exp, dec, dec[1].exception, dec[2].exception)[s] <=> rob_exp[s]
    BY <1>9 DEF Allocate, NotWritten
  <2>4. rob_op'[s] = rob_op[s] /\ rob_prd'[s] = rob_prd[s]
    BY <1>3, <1>9 DEF Allocate, NotWritten
  <2> QED
    BY <2>1, <2>2, <2>3, <2>4
<1>10. ASSUME s \in Committing PROVE Departs(s)
  BY <1>2, <1>4, <1>5, <1>9, <1>10 DEF Departs
<1>11. ASSUME rob_used[s], s \notin Committing PROVE Stays(s, done, ports)
  BY <1>2, <1>5, <1>8, <1>9, <1>11 DEF Stays
<1>12. ASSUME do_rob_write_first(dec), s = wr_rob_index
       PROVE  Enters(s, dec[1], prd_first(dec), ports)
  <2>1. ~rob_used[s] /\ s \notin Committing
    BY <1>4, <1>12 DEF do_rob_write_first
  <2>3. s # wr_rob_index_second
    BY <1>1, <1>12, Indices
  <2>2. Allocate(rob_used, dec, TRUE, TRUE)[s]
    BY <1>12, <2>3 DEF Allocate
  <2>4. Allocate(rob_exp, dec, dec[1].exception, dec[2].exception)[s] <=> dec[1].exception
    BY <1>12, <2>3 DEF Allocate
  <2>5. rob_op'[s] = dec[1] /\ rob_prd'[s] = prd_first(dec)
    BY <1>3, <1>12, <2>3 DEF Allocate
  <2> QED
    BY <1>2, <1>6, <1>7, <1>8, <1>12, <2>1, <2>2, <2>3, <2>4, <2>5 DEF Enters
<1>13. ASSUME do_rob_write_second(dec), s = wr_rob_index_second
       PROVE  Enters(s, dec[2], prd_second(dec), ports)
  <2>1. ~rob_used[s] /\ s \notin Committing
    BY <1>4, <1>13 DEF do_rob_write_second
  <2>3. s # wr_rob_index
    BY <1>1, <1>13, Indices
  <2>2. Allocate(rob_used, dec, TRUE, TRUE)[s]
    BY <1>13, <2>3 DEF Allocate
  <2>4. Allocate(rob_exp, dec, dec[1].exception, dec[2].exception)[s] <=> dec[2].exception
    BY <1>13, <2>3 DEF Allocate
  <2>5. rob_op'[s] = dec[2] /\ rob_prd'[s] = prd_second(dec)
    BY <1>3, <1>13, <2>3 DEF Allocate
  <2> QED
    BY <1>2, <1>6, <1>7, <1>8, <1>13, <2>1, <2>2, <2>3, <2>4, <2>5 DEF Enters
<1>14. ASSUME ~rob_used[s], NotWritten(s, dec) PROVE Idle(s, ports)
  BY <1>2, <1>4, <1>7, <1>8, <1>9, <1>14 DEF Idle
<1> QED
  BY <1>10, <1>11, <1>12, <1>13, <1>14

-----------------------------------------------------------------------------
(* Requests on the ports.                                                   *)

\* Request p is that of an entry, or that of instruction k of the window.
OfEntry(p) == /\ p.idx \in Slots /\ p = Req(p.idx)
              /\ rob_used[p.idx] /\ ~rob_selected[p.idx]
              /\ rob_finish[p.idx] <=> p.op = "wfi"
OfFirst(p, dec) == do_rob_write_first(dec) /\ p = NewReq(dec, 1) /\ ~Skipped(dec[1])
OfSecond(p, dec) == do_rob_write_second(dec) /\ p = NewReq(dec, 2) /\ ~Skipped(dec[2])

\* What a request that may be issued is.
LEMMA ChosenIs ==
  ASSUME RobControl, EntryFlags, NEW dec \in DecodeWindows, NEW R, NEW p, NEW j,
         Chosen(p, j, R, dec)
  PROVE  /\ p \in Requests /\ HasRoom(p) /\ (IsCsr(p) => p.idx = cmt_rob_index)
         /\ p.op \in AluOps \cup MdOps \cup MemOps \cup {"wfi"}
         /\ OfEntry(p) \/ OfFirst(p, dec) \/ OfSecond(p, dec)
<1>1. RobTypeOK
  BY DEF RobControl
<1>2. \A i \in Insns : i.op \in AluOps \cup MdOps \cup MemOps \cup {"mret", "sret", "wfi"}
  BY RcuAssumption
<1>3. CASE /\ p.idx \in Slots /\ p = Req(p.idx) /\ rob_select_ready(p.idx, R, dec)
  <2> DEFINE s == p.idx
  <2>1. /\ s \in Slots /\ rob_op[s] \in Insns /\ rob_prd[s] \in PRegs
        /\ p.prd = rob_prd[s] /\ p.op = rob_op[s].op
    BY <1>1, <1>3 DEF RobTypeOK, Req
  <2>2. p \in Requests
    BY <1>3, <2>1 DEF Requests, Req
  <2>3. /\ rob_used[s] /\ ~rob_selected[s] /\ HasRoom(rob_op[s])
        /\ IsCsr(rob_op[s]) => cmt_rob_index = s
        /\ ~rob_exp[s] /\ ~Returns(rob_op[s])
    BY <1>3 DEF rob_select_ready
  <2>4. HasRoom(p) /\ (IsCsr(p) => s = cmt_rob_index) /\ ~Returns(p)
    BY <2>1, <2>3 DEF HasRoom, IsMem, IsMd, IsCsr, Returns
  <2>5. p.op \in AluOps \cup MdOps \cup MemOps \cup {"wfi"}
    BY <1>2, <2>1, <2>4 DEF Returns
  <2>6. rob_finish[s] <=> p.op = "wfi"
    BY <2>1, <2>3 DEF EntryFlags, Skipped
  <2> QED
    BY <1>3, <2>2, <2>3, <2>4, <2>5, <2>6 DEF OfEntry
<1>4. CASE p = NewReq(dec, 1) /\ bypass_ready(1, R, dec)
  <2>1. /\ do_rob_write_first(dec) /\ HasRoom(dec[1]) /\ ~Skipped(dec[1])
        /\ IsCsr(dec[1]) => cmt_rob_index = wr_rob_index
    BY <1>4 DEF bypass_ready
  <2>2. dec[1] \in Insns
    BY <2>1, DecWindow DEF do_rob_write_first
  <2>3. p = [idx |-> wr_rob_index, prd |-> prd_first(dec), op |-> dec[1].op]
    BY <1>4 DEF NewReq
  <2>4. p \in Requests /\ p.op = dec[1].op /\ p.idx = wr_rob_index
    BY <1>1, <2>2, <2>3, Indices, RenamingTypes DEF Requests
  <2>5. p.op \in AluOps \cup MdOps \cup MemOps \cup {"wfi"}
    BY <1>2, <2>1, <2>2, <2>4 DEF Skipped, Returns
  <2>6. HasRoom(p) /\ (IsCsr(p) => p.idx = cmt_rob_index)
    BY <2>1, <2>4 DEF HasRoom, IsMem, IsMd, IsCsr
  <2> QED
    BY <1>4, <2>1, <2>4, <2>5, <2>6 DEF OfFirst
<1>5. CASE p = NewReq(dec, 2) /\ bypass_ready(2, R, dec)
  <2>1. /\ do_rob_write_second(dec) /\ HasRoom(dec[2]) /\ ~Skipped(dec[2])
        /\ IsCsr(dec[2]) => cmt_rob_index = wr_rob_index_second
    BY <1>5 DEF bypass_ready
  <2>2. dec[2] \in Insns
    BY <2>1, DecWindow DEF do_rob_write_second
  <2>3. p = [idx |-> wr_rob_index_second, prd |-> prd_second(dec), op |-> dec[2].op]
    BY <1>5 DEF NewReq
  <2>4. p \in Requests /\ p.op = dec[2].op /\ p.idx = wr_rob_index_second
    BY <1>1, <2>2, <2>3, Indices, RenamingTypes DEF Requests
  <2>5. p.op \in AluOps \cup MdOps \cup MemOps \cup {"wfi"}
    BY <1>2, <2>1, <2>2, <2>4 DEF Skipped, Returns
  <2>6. HasRoom(p) /\ (IsCsr(p) => p.idx = cmt_rob_index)
    BY <2>1, <2>4 DEF HasRoom, IsMem, IsMd, IsCsr
  <2> QED
    BY <1>5, <2>1, <2>4, <2>5, <2>6 DEF OfSecond
<1> QED
  BY <1>3, <1>4, <1>5 DEF Chosen

\* Two requests of different age are for different entries.
LEMMA ChosenDiffer ==
  ASSUME RobTypeOK, NEW dec, NEW R, NEW p, NEW q, NEW j \in Nat, NEW k \in Nat, j < k,
         Chosen(p, j, R, dec), Chosen(q, k, R, dec)
  PROVE  p.idx # q.idx
<1>1. /\ bypass_ready(1, R, dec) => ~rob_used[wr_rob_index]
      /\ bypass_ready(2, R, dec) => ~rob_used[wr_rob_index_second]
      /\ NewReq(dec, 1).idx = wr_rob_index /\ NewReq(dec, 2).idx = wr_rob_index_second
  BY DEF bypass_ready, do_rob_write_first, do_rob_write_second, NewReq
<1>2. \A s \in Slots : rob_select_ready(s, R, dec) => rob_used[s]
  BY DEF rob_select_ready
<1> QED
  BY <1>1, <1>2, Indices, Sizes DEF Chosen

\* A request on a port.
PortOK(p, dec) == /\ p \in Requests /\ HasRoom(p) /\ (IsCsr(p) => p.idx = cmt_rob_index)
                  /\ p.op \in AluOps \cup MdOps \cup MemOps \cup {"wfi"}
                  /\ OfEntry(p) \/ OfFirst(p, dec) \/ OfSecond(p, dec)

\* What the ports carry.
LEMMA PortsAre ==
  ASSUME RobControl, EntryFlags, NEW dec \in DecodeWindows, NEW R,
         NEW ports, ports = Ports(R, dec)
  PROVE  /\ AtMostTwo(Requests, ports)
         /\ \A p \in Range(ports) : PortOK(p, dec)
         /\ \A p, q \in Range(ports) : p.idx = q.idx => p = q
<1>1. RobTypeOK
  BY DEF RobControl
<1>2. \A p, j : Chosen(p, j, R, dec) => PortOK(p, dec) /\ p \in Requests
  BY ChosenIs DEF PortOK
<1>3. CASE ports = << >>
  BY <1>3 DEF AtMostTwo, Range
<1>4. ASSUME NEW p, NEW j, ports = <<p>>, Chosen(p, j, R, dec)
      PROVE  /\ AtMostTwo(Requests, ports)
             /\ \A x \in Range(ports) : PortOK(x, dec)
             /\ \A x, y \in Range(ports) : x.idx = y.idx => x = y
  <2>1. Range(ports) = {p}
    BY <1>4 DEF Range
  <2> QED
    BY <1>2, <1>4, <2>1 DEF AtMostTwo
<1>5. ASSUME NEW p, NEW q, NEW j \in Nat, NEW k \in Nat, ports = <<p, q>>, j < k,
             Chosen(p, j, R, dec), Chosen(q, k, R, dec)
      PROVE  /\ AtMostTwo(Requests, ports)
             /\ \A x \in Range(ports) : PortOK(x, dec)
             /\ \A x, y \in Range(ports) : x.idx = y.idx => x = y
  <2>1. Range(ports) = {p, q}
    BY <1>5 DEF Range
  <2>2. p.idx # q.idx
    BY <1>1, <1>5, ChosenDiffer
  <2>3. PortOK(p, dec) /\ PortOK(q, dec) /\ p \in Requests /\ q \in Requests /\ p # q
    BY <1>2, <1>5, <2>2
  <2>4. AtMostTwo(Requests, ports)
    BY <1>5, <2>3 DEF AtMostTwo
  <2> QED
    BY <2>1, <2>2, <2>3, <2>4
<1> QED
  BY <1>1, <1>3, <1>4, <1>5, PortsAreChosen

-----------------------------------------------------------------------------
(* Every entry that was issued and is not finished has its request in one      *)
(* place, and nothing else is anywhere.                                      *)

IssueTypes ==
  /\ rob_selected \in [Slots -> BOOLEAN]
  /\ rob_prs1 \in [Slots -> PRegs] /\ rob_prs2 \in [Slots -> PRegs]
  /\ available_table \in [PRegs -> BOOLEAN]
  /\ alu1 \in Seq(Requests) /\ Len(alu1) <= 1
  /\ alu2 \in Seq(Requests) /\ Len(alu2) <= 1
  /\ csru \in Seq(Requests) /\ Len(csru) <= 1
  /\ md_active \in Seq(Requests) /\ Len(md_active) <= 1
  /\ mdq \in Seq(Requests) /\ Len(mdq) <= MD_QUEUE_DEPTH
  /\ lsuq \in Seq(Requests) /\ Len(lsuq) <= LSU_QUEUE_DEPTH
  /\ lsq \in SUBSET Requests

Outside == Units \cup Range(mdq) \cup Range(lsuq)

OneRequest ==
  /\ \A p \in Outside : Waiting(p.idx) /\ p = Req(p.idx)
  /\ \A s \in Slots : Waiting(s) => Req(s) \in Outside

\* Which requests are where.
Sorted ==
  /\ \A p \in Range(alu1) : p.op \in AluOps \ CsrOps
  /\ \A p \in Range(alu2) : p.op \in AluOps
  /\ \A p \in Range(csru) : p.op \in CsrOps
  /\ \A p \in Range(mdq) \cup Range(md_active) : p.op \in MdOps
  /\ \A p \in Range(lsuq) \cup lsq : p.op \in MemOps

\* Nothing is in two places.
Apart ==
  /\ Range(alu1) \cap Range(alu2) = {} /\ Range(csru) \cap Range(alu2) = {}
  /\ Range(md_active) \cap Range(mdq) = {} /\ lsq \cap Range(lsuq) = {}
  /\ Distinct(mdq) /\ Distinct(lsuq)

IssueControl == IssueTypes /\ EntryFlags /\ OneRequest /\ Sorted /\ Apart

\* The answers of a cycle are for entries that wait.
LEMMA AnswersWait ==
  ASSUME IssueControl, NEW R \in Responding, NEW done \in Answers(R)
  PROVE  /\ R \subseteq Units
         /\ DOMAIN done = {p.idx : p \in R}
         /\ DOMAIN done \subseteq {s \in Slots : Waiting(s)}
         /\ \A s \in Slots : Waiting(s) => (s \in DOMAIN done <=> Req(s) \in R)
         /\ done \in Completions
<1>1. R \subseteq Units
  BY DEF Responding, Units, Immediate
<1>2. DOMAIN done = {p.idx : p \in R} /\ done \in [{p.idx : p \in R} -> Outcomes]
  BY DEF Answers
<1>3. \A p \in R : p.idx \in Slots /\ Waiting(p.idx) /\ p = Req(p.idx)
  <2>1. \A p \in Units : p \in Outside
    BY DEF Outside
  <2>2. \A p \in Units : p \in Requests
    BY DEF Units, IssueControl, IssueTypes, Range
  <2> QED
    BY <1>1, <2>1, <2>2 DEF IssueControl, OneRequest, Requests
<1>4. DOMAIN done \subseteq {s \in Slots : Waiting(s)}
  BY <1>2, <1>3
<1>5. \A s \in Slots : Waiting(s) => (s \in DOMAIN done <=> Req(s) \in R)
  BY <1>2, <1>3 DEF Req
<1>6. DOMAIN done \in SUBSET {s \in Slots : rob_used[s] /\ ~rob_finish[s]}
  BY <1>4 DEF Waiting
<1>7. done \in [DOMAIN done -> Outcomes]
  BY <1>2
<1>8. done \in Completions
  <2> DEFINE W == SUBSET {s \in Slots : rob_used[s] /\ ~rob_finish[s]}
  <2>1. \E D \in W : done \in [D -> Outcomes]
    BY <1>6, <1>7
  <2>2. done \in UNION {[D -> Outcomes] : D \in W}
    BY <2>1
  <2> QED
    BY <2>2 DEF Completions
<1> QED
  BY <1>1, <1>2, <1>4, <1>5, <1>8

\* No unit answers for a request that is still queued.
LEMMA QueuedNotAnswered ==
  ASSUME IssueControl, NEW R \in Responding
  PROVE  /\ R \cap Range(mdq) = {} /\ R \cap Range(lsuq) = {}
         /\ Range(alu1) \cup Range(alu2) \cup Range(csru) \subseteq R
         /\ R \subseteq Units
<1>1. R \subseteq Units /\ Immediate \subseteq R
  BY DEF Responding, Units, Immediate
<1>2. \A p \in Units : p \notin Range(mdq)
  BY DEF IssueControl, Sorted, Apart, Units, AluOps, CsrOps, MdOps, MemOps
<1>3. \A p \in Units : p \notin Range(lsuq)
  BY DEF IssueControl, Sorted, Apart, Units, AluOps, CsrOps, MdOps, MemOps
<1> QED
  BY <1>1, <1>2, <1>3 DEF Immediate

\* A request on a port is nowhere yet.
LEMMA PortsNotOutside ==
  ASSUME IssueControl, NEW dec, NEW ports, \A p \in Range(ports) : PortOK(p, dec)
  PROVE  Range(ports) \cap Outside = {}
<1> SUFFICES ASSUME NEW p \in Range(ports), p \in Outside
             PROVE  FALSE
  OBVIOUS
<1>1. rob_used[p.idx] /\ rob_selected[p.idx]
  BY DEF IssueControl, OneRequest, Waiting
<1>2. ~OfEntry(p)
  BY <1>1 DEF OfEntry
<1>3. ~OfFirst(p, dec)
  <2>1. NewReq(dec, 1).idx = wr_rob_index
    BY DEF NewReq
  <2> QED
    BY <1>1, <2>1 DEF OfFirst, do_rob_write_first
<1>4. ~OfSecond(p, dec)
  <2>1. NewReq(dec, 2).idx = wr_rob_index_second
    BY DEF NewReq
  <2> QED
    BY <1>1, <2>1 DEF OfSecond, do_rob_write_second
<1> QED
  BY <1>2, <1>3, <1>4 DEF PortOK

\* The requests on the ports for the operations ops.
Asked(ports, ops) == {p \in Range(ports) : p.op \in ops}

\* The issue registers after the edge.
LEMMA RegisterAfter ==
  ASSUME NEW ports, AtMostTwo(Requests, ports), NEW k \in {1, 2}, NEW ops,
         NEW reg, reg = FromPort(ports, k, ops)
  PROVE  /\ reg \in Seq(Requests) /\ Len(reg) <= 1
         /\ Range(reg) = IF k <= Len(ports) /\ ports[k].op \in ops THEN {ports[k]} ELSE {}
<1>1. /\ reg \in Seq(Requests) /\ Len(reg) \in 0..1 /\ DOMAIN reg = 1..Len(reg)
      /\ Len(reg) = 1 => k <= Len(ports) /\ ports[k].op \in ops /\ reg[1] = ports[k]
      /\ Len(reg) = 0 => ~(k <= Len(ports) /\ ports[k].op \in ops)
  BY FromPortIs
<1>2. CASE Len(reg) = 1
  <2>1. DOMAIN reg = {1}
    BY <1>1, <1>2
  <2> QED
    BY <1>1, <1>2, <2>1 DEF Range
<1>3. CASE Len(reg) = 0
  <2>1. DOMAIN reg = {}
    BY <1>1, <1>3
  <2> QED
    BY <1>1, <1>3, <2>1 DEF Range
<1> QED
  BY <1>1, <1>2, <1>3

\* Both ALUs and the CSR unit.
LEMMA AlusAfter ==
  ASSUME NEW ports, AtMostTwo(Requests, ports), \A p, q \in Range(ports) : p.idx = q.idx => p = q,
         AdvanceAlus(ports), AdvanceCsru(ports)
  PROVE  /\ alu1' \in Seq(Requests) /\ Len(alu1') <= 1
         /\ alu2' \in Seq(Requests) /\ Len(alu2') <= 1
         /\ csru' \in Seq(Requests) /\ Len(csru') <= 1
         /\ Range(alu1') \cup Range(alu2') \cup Range(csru') = Asked(ports, AluOps)
         /\ \A p \in Range(alu1') : p.op \in AluOps \ CsrOps
         /\ \A p \in Range(alu2') : p.op \in AluOps
         /\ \A p \in Range(csru') : p.op \in CsrOps
         /\ Range(alu1') \cap Range(alu2') = {} /\ Range(csru') \cap Range(alu2') = {}
<1>1. /\ alu1' = FromPort(ports, 1, AluOps \ CsrOps)
      /\ alu2' = FromPort(ports, 2, AluOps)
      /\ csru' = FromPort(ports, 1, CsrOps)
  BY DEF AdvanceAlus, AdvanceCsru
<1>2. 1 \in {1, 2} /\ 2 \in {1, 2}
  OBVIOUS
<1>3. /\ alu1' \in Seq(Requests) /\ Len(alu1') <= 1
      /\ Range(alu1') = IF 1 <= Len(ports) /\ ports[1].op \in AluOps \ CsrOps
                        THEN {ports[1]} ELSE {}
  BY <1>1, <1>2, RegisterAfter
<1>4. /\ alu2' \in Seq(Requests) /\ Len(alu2') <= 1
      /\ Range(alu2') = IF 2 <= Len(ports) /\ ports[2].op \in AluOps THEN {ports[2]} ELSE {}
  BY <1>1, <1>2, RegisterAfter
<1>5. /\ csru' \in Seq(Requests) /\ Len(csru') <= 1
      /\ Range(csru') = IF 1 <= Len(ports) /\ ports[1].op \in CsrOps THEN {ports[1]} ELSE {}
  BY <1>1, <1>2, RegisterAfter
<1>6. /\ Len(ports) \in 0..2 /\ DOMAIN ports = 1..Len(ports)
      /\ Len(ports) = 2 => ports[1] # ports[2]
  BY DEF AtMostTwo
<1>7. Range(ports) = {ports[i] : i \in 1..Len(ports)}
  BY <1>6 DEF Range
<1>8. CsrOps \subseteq AluOps
  BY DEF CsrOps, AluOps
<1>9. Range(alu1') \cup Range(alu2') \cup Range(csru') = Asked(ports, AluOps)
  <2>1. \A x \in Asked(ports, AluOps) : x \in Range(alu1') \cup Range(alu2') \cup Range(csru')
    BY <1>3, <1>4, <1>5, <1>6, <1>7 DEF Asked
  <2>2. \A x \in Range(alu1') \cup Range(alu2') \cup Range(csru') : x \in Asked(ports, AluOps)
    BY <1>3, <1>4, <1>5, <1>6, <1>7, <1>8 DEF Asked
  <2> QED
    BY <2>1, <2>2
<1>10. Range(alu1') \cap Range(alu2') = {} /\ Range(csru') \cap Range(alu2') = {}
  BY <1>3, <1>4, <1>5, <1>6
<1>11. /\ \A p \in Range(alu1') : p.op \in AluOps \ CsrOps
       /\ \A p \in Range(alu2') : p.op \in AluOps
       /\ \A p \in Range(csru') : p.op \in CsrOps
  BY <1>3, <1>4, <1>5
<1> QED
  BY <1>3, <1>4, <1>5, <1>9, <1>10, <1>11

\* A sequence of at most one request.
LEMMA OneOrNone ==
  ASSUME NEW x \in Seq(Requests), Len(x) <= 1
  PROVE  \/ x = << >> /\ Range(x) = {}
         \/ x # << >> /\ Range(x) = {x[1]} /\ x[1] \in Requests /\ Len(x) = 1
<1>1. Len(x) \in Nat /\ DOMAIN x = 1..Len(x)
  BY LenProperties
<1>2. CASE Len(x) = 0
  BY <1>1, <1>2, EmptySeq DEF Range
<1>3. CASE Len(x) = 1
  <2>1. DOMAIN x = {1} /\ x # << >>
    BY <1>1, <1>3
  <2>2. x[1] \in Requests
    BY <1>3, ElementOfSeq
  <2> QED
    BY <1>3, <2>1, <2>2 DEF Range
<1> QED
  BY <1>1, <1>2, <1>3

\* What enters a queue has room, and is not there yet.
LEMMA EnteringQueue ==
  ASSUME IssueControl, NEW dec, NEW ports, AtMostTwo(Requests, ports),
         \A p \in Range(ports) : PortOK(p, dec), NEW ops, NEW reqs, reqs = FromPorts(ports, ops)
  PROVE  /\ reqs \in Seq(Requests) /\ Len(reqs) \in 0..2 /\ Distinct(reqs)
         /\ Range(reqs) = Asked(ports, ops) /\ Range(reqs) \cap Outside = {}
         /\ Len(reqs) >= 1 => \E p \in Range(ports) : p.op \in ops /\ HasRoom(p)
<1>1. /\ reqs \in Seq(Requests) /\ Len(reqs) \in 0..2 /\ Distinct(reqs)
      /\ Range(reqs) = Asked(ports, ops)
  BY FromPortsIs DEF Asked
<1>2. Range(reqs) \cap Outside = {}
  BY <1>1, PortsNotOutside DEF Asked
<1>3. ASSUME Len(reqs) >= 1 PROVE \E p \in Range(ports) : p.op \in ops /\ HasRoom(p)
  <2>1. 1 \in DOMAIN reqs
    BY <1>1, <1>3, LenProperties
  <2>2. reqs[1] \in Asked(ports, ops)
    BY <1>1, <2>1 DEF Range
  <2> QED
    BY <2>2 DEF Asked, PortOK
<1> QED
  BY <1>1, <1>2, <1>3

\* The multiplier/divider and its queue after the edge.
LEMMA MdAfter ==
  ASSUME IssueControl, NEW R \in Responding, NEW dec, NEW ports, AtMostTwo(Requests, ports),
         \A p \in Range(ports) : PortOK(p, dec), AdvanceMd(R, ports)
  PROVE  /\ mdq' \in Seq(Requests) /\ Len(mdq') <= MD_QUEUE_DEPTH /\ Distinct(mdq')
         /\ md_active' \in Seq(Requests) /\ Len(md_active') <= 1
         /\ Range(md_active') \cap Range(mdq') = {}
         /\ Range(mdq') \cup Range(md_active')
              = ((Range(mdq) \cup Range(md_active)) \ R) \cup Asked(ports, MdOps)
<1> DEFINE md_takes == md_active = << >> /\ mdq # << >>
           reqs == FromPorts(ports, MdOps)
<1>1. /\ mdq' = NextQueue(mdq, MD_QUEUE_DEPTH, reqs, md_takes)
      /\ md_active' = IF md_takes THEN <<Head(mdq)>>
                      ELSE IF Range(md_active) \subseteq R THEN << >> ELSE md_active
  BY DEF AdvanceMd
<1>2. /\ reqs \in Seq(Requests) /\ Len(reqs) \in 0..2 /\ Distinct(reqs)
      /\ Range(reqs) = Asked(ports, MdOps) /\ Range(reqs) \cap Outside = {}
      /\ Len(reqs) >= 1 => \E p \in Range(ports) : p.op \in MdOps /\ HasRoom(p)
  BY EnteringQueue
<1>3. /\ mdq \in Seq(Requests) /\ Len(mdq) \in Nat /\ Len(mdq) <= MD_QUEUE_DEPTH
      /\ Distinct(mdq) /\ md_active \in Seq(Requests) /\ Len(md_active) <= 1
      /\ MD_QUEUE_DEPTH \in Nat /\ md_takes \in BOOLEAN
      /\ Range(md_active) \cap Range(mdq) = {}
  BY RcuAssumption, LenProperties DEF IssueControl, IssueTypes, Apart
<1>4. Len(reqs) >= 1 => Len(mdq) < MD_QUEUE_DEPTH - 1
  BY <1>2, <1>3 DEF HasRoom, IsMd, almost_full
<1>5. /\ Range(mdq) \cap Range(reqs) = {} /\ Range(md_active) \cap Range(reqs) = {}
      /\ R \cap Range(mdq) = {}
  BY <1>2, QueuedNotAnswered DEF Outside, Units
<1>6. md_takes => mdq # << >> /\ md_active = << >>
  OBVIOUS
<1> HIDE DEF md_takes, reqs
<1>7. /\ mdq' \in Seq(Requests) /\ Len(mdq') <= MD_QUEUE_DEPTH /\ Distinct(mdq')
      /\ md_takes => Head(mdq) \in Range(mdq)
      /\ Range(mdq') = Range(reqs) \cup
           (IF md_takes THEN Range(mdq) \ {Head(mdq)} ELSE Range(mdq))
  BY ONLY <1>1, <1>2, <1>3, <1>4, <1>5, <1>6, QueueAfter
<1>8. CASE md_takes
  <2>1. md_active' = <<Head(mdq)>> /\ Range(md_active') = {Head(mdq)} /\ Range(md_active) = {}
    BY <1>1, <1>6, <1>8 DEF Range
  <2>2. Head(mdq) \in Requests
    BY <1>3, <1>6, <1>8, HeadTailProperties
  <2>3. md_active' \in Seq(Requests) /\ Len(md_active') <= 1
    BY <2>1, <2>2
  <2>4. Range(md_active') \cap Range(mdq') = {}
    BY <1>5, <1>7, <1>8, <2>1
  <2>5. Range(mdq') \cup Range(md_active')
          = ((Range(mdq) \cup Range(md_active)) \ R) \cup Asked(ports, MdOps)
    BY <1>2, <1>5, <1>7, <1>8, <2>1
  <2> QED
    BY <1>7, <2>3, <2>4, <2>5
<1>9. CASE ~md_takes
  <2>1. md_active' = IF Range(md_active) \subseteq R THEN << >> ELSE md_active
    BY <1>1, <1>9
  <2>2. Range(mdq') = Range(reqs) \cup Range(mdq)
    BY <1>7, <1>9
  <2>3. \/ Range(md_active) = {}
        \/ Range(md_active) = {md_active[1]}
    BY <1>3, OneOrNone
  <2>4. Range(md_active') = Range(md_active) \ R
    <3>1. CASE Range(md_active) \subseteq R
      BY <2>1, <3>1 DEF Range
    <3>2. CASE ~(Range(md_active) \subseteq R)
      BY <2>1, <2>3, <3>2
    <3> QED
      BY <3>1, <3>2
  <2>5. md_active' \in Seq(Requests) /\ Len(md_active') <= 1
    <3>1. CASE md_active' = << >>
      BY <3>1
    <3>2. CASE md_active' = md_active
      BY <1>3, <3>2
    <3> QED
      BY <2>1, <3>1, <3>2
  <2>6. Range(md_active') \cap Range(mdq') = {}
    BY <1>3, <1>5, <2>2, <2>4
  <2>7. Range(mdq') \cup Range(md_active')
          = ((Range(mdq) \cup Range(md_active)) \ R) \cup Asked(ports, MdOps)
    BY <1>2, <1>5, <2>2, <2>4
  <2> QED
    BY <1>7, <2>5, <2>6, <2>7
<1> QED
  BY <1>8, <1>9

\* The load/store unit and its queue after the edge.
LEMMA LsuAfter ==
  ASSUME IssueControl, NEW R \in Responding, NEW dec, NEW ports, AtMostTwo(Requests, ports),
         \A p \in Range(ports) : PortOK(p, dec),
         NEW lsu_takes \in LsuHandshakes(R), AdvanceLsu(R, ports, lsu_takes)
  PROVE  /\ lsuq' \in Seq(Requests) /\ Len(lsuq') <= LSU_QUEUE_DEPTH /\ Distinct(lsuq')
         /\ lsq' \in SUBSET Requests
         /\ lsq' \cap Range(lsuq') = {}
         /\ Range(lsuq') \cup lsq'
              = ((Range(lsuq) \cup lsq) \ R) \cup Asked(ports, MemOps)
<1> DEFINE reqs == FromPorts(ports, MemOps)
<1>1. /\ lsuq' = NextQueue(lsuq, LSU_QUEUE_DEPTH, reqs, lsu_takes)
      /\ lsq' = (lsq \ R) \cup (IF lsu_takes THEN {Head(lsuq)} ELSE {})
  BY DEF AdvanceLsu
<1>2. /\ reqs \in Seq(Requests) /\ Len(reqs) \in 0..2 /\ Distinct(reqs)
      /\ Range(reqs) = Asked(ports, MemOps) /\ Range(reqs) \cap Outside = {}
      /\ Len(reqs) >= 1 => \E p \in Range(ports) : p.op \in MemOps /\ HasRoom(p)
  BY EnteringQueue
<1>3. /\ lsuq \in Seq(Requests) /\ Len(lsuq) \in Nat /\ Len(lsuq) <= LSU_QUEUE_DEPTH
      /\ Distinct(lsuq) /\ LSU_QUEUE_DEPTH \in Nat
      /\ lsq \cap Range(lsuq) = {} /\ lsq \in SUBSET Requests
  BY RcuAssumption, LenProperties DEF IssueControl, IssueTypes, Apart
<1>4. Len(reqs) >= 1 => Len(lsuq) < LSU_QUEUE_DEPTH - 1
  BY <1>2, <1>3 DEF HasRoom, IsMem, almost_full
<1>5. /\ Range(lsuq) \cap Range(reqs) = {} /\ lsq \cap Range(reqs) = {}
      /\ R \cap Range(lsuq) = {}
  BY <1>2, QueuedNotAnswered DEF Outside, Units
<1>6. lsu_takes \in BOOLEAN /\ (lsu_takes => lsuq # << >>)
  BY DEF LsuHandshakes
<1> HIDE DEF reqs
<1>7. /\ lsuq' \in Seq(Requests) /\ Len(lsuq') <= LSU_QUEUE_DEPTH /\ Distinct(lsuq')
      /\ lsu_takes => Head(lsuq) \in Range(lsuq)
      /\ Range(lsuq') = Range(reqs) \cup
           (IF lsu_takes THEN Range(lsuq) \ {Head(lsuq)} ELSE Range(lsuq))
  BY ONLY <1>1, <1>2, <1>3, <1>4, <1>5, <1>6, QueueAfter
<1>8. CASE lsu_takes
  <2>1. lsq' = (lsq \ R) \cup {Head(lsuq)}
    BY <1>1, <1>8
  <2>2. Head(lsuq) \in Requests
    BY <1>3, <1>6, <1>8, HeadTailProperties
  <2>3. lsq' \in SUBSET Requests
    BY <1>3, <2>1, <2>2
  <2>4. lsq' \cap Range(lsuq') = {}
    BY <1>3, <1>5, <1>7, <1>8, <2>1
  <2>5. Range(lsuq') \cup lsq' = ((Range(lsuq) \cup lsq) \ R) \cup Asked(ports, MemOps)
    BY <1>2, <1>5, <1>7, <1>8, <2>1
  <2> QED
    BY <1>7, <2>3, <2>4, <2>5
<1>9. CASE ~lsu_takes
  <2>1. lsq' = lsq \ R
    BY <1>1, <1>9
  <2>2. Range(lsuq') = Range(reqs) \cup Range(lsuq)
    BY <1>7, <1>9
  <2>3. lsq' \in SUBSET Requests
    BY <1>3, <2>1
  <2>4. lsq' \cap Range(lsuq') = {}
    BY <1>3, <1>5, <2>1, <2>2
  <2>5. Range(lsuq') \cup lsq' = ((Range(lsuq) \cup lsq) \ R) \cup Asked(ports, MemOps)
    BY <1>2, <1>5, <2>1, <2>2
  <2> QED
    BY <1>7, <2>3, <2>4, <2>5
<1> QED
  BY <1>6, <1>8, <1>9

\* Everything outside the reorder buffer after the edge: what was not answered, and what
\* the ports carried, but for a wfi, which has no unit.
LEMMA OutsideAfter ==
  ASSUME IssueControl, NEW R \in Responding, NEW dec, NEW ports, AtMostTwo(Requests, ports),
         \A p \in Range(ports) : PortOK(p, dec),
         \A p, q \in Range(ports) : p.idx = q.idx => p = q,
         NEW lsu_takes \in LsuHandshakes(R),
         AdvanceAlus(ports), AdvanceCsru(ports), AdvanceMd(R, ports),
         AdvanceLsu(R, ports, lsu_takes)
  PROVE  /\ Outside' = (Outside \ R) \cup {p \in Range(ports) : p.op # "wfi"}
         /\ Sorted' /\ Apart'
<1> DEFINE A == Range(alu1) \cup Range(alu2) \cup Range(csru)
           M == Range(mdq) \cup Range(md_active)
           L == Range(lsuq) \cup lsq
<1>1. /\ A' = Asked(ports, AluOps)
      /\ \A p \in Range(alu1') : p.op \in AluOps \ CsrOps
      /\ \A p \in Range(alu2') : p.op \in AluOps
      /\ \A p \in Range(csru') : p.op \in CsrOps
      /\ Range(alu1') \cap Range(alu2') = {} /\ Range(csru') \cap Range(alu2') = {}
  BY AlusAfter
<1>2. /\ M' = (M \ R) \cup Asked(ports, MdOps)
      /\ Distinct(mdq') /\ Range(md_active') \cap Range(mdq') = {}
  BY MdAfter
<1>3. /\ L' = (L \ R) \cup Asked(ports, MemOps)
      /\ Distinct(lsuq') /\ lsq' \cap Range(lsuq') = {}
  BY LsuAfter
<1>4. A \subseteq R
  BY QueuedNotAnswered
<1>5. Outside = A \cup M \cup L /\ Outside' = A' \cup M' \cup L'
  BY DEF Outside, Units
<1>6. Asked(ports, AluOps) \cup Asked(ports, MdOps) \cup Asked(ports, MemOps)
        = {p \in Range(ports) : p.op # "wfi"}
  BY DEF Asked, PortOK, AluOps, MdOps, MemOps
<1>7. Sorted'
  <2>1. \A p \in M : p.op \in MdOps
    BY DEF IssueControl, Sorted
  <2>2. \A p \in L : p.op \in MemOps
    BY DEF IssueControl, Sorted
  <2>3. \A p \in M' : p.op \in MdOps
    BY <1>2, <2>1 DEF Asked
  <2>4. \A p \in L' : p.op \in MemOps
    BY <1>3, <2>2 DEF Asked
  <2> QED
    BY <1>1, <2>3, <2>4 DEF Sorted
<1>8. Apart'
  BY <1>1, <1>2, <1>3 DEF Apart
<1> HIDE DEF A, M, L
<1>9. Outside' = (Outside \ R) \cup {p \in Range(ports) : p.op # "wfi"}
  BY <1>1, <1>2, <1>3, <1>4, <1>5, <1>6
<1> QED
  BY <1>7, <1>8, <1>9

\* The flags of the entries stay together, and the entries that wait are those that
\* waited and were not answered, and those whose request was on a port.
LEMMA FlagsAfter ==
  ASSUME RobControl, EntryFlags, rob_selected \in [Slots -> BOOLEAN],
         NEW dec \in DecodeWindows, NEW done, DOMAIN done \subseteq {s \in Slots : Waiting(s)},
         NEW ports, \A p \in Range(ports) : PortOK(p, dec),
         Advance(dec, done), AdvanceSelected(ports)
  PROVE  /\ EntryFlags'
         /\ \A p \in Range(ports) : p.op # "wfi" => Waiting(p.idx)' /\ p = Req(p.idx)'
         /\ \A s \in Slots : Waiting(s) /\ s \notin DOMAIN done =>
              Waiting(s)' /\ Req(s)' = Req(s)
         /\ \A s \in Slots : Waiting(s)' =>
              \/ Waiting(s) /\ s \notin DOMAIN done
              \/ \E p \in Range(ports) : p.idx = s /\ p.op # "wfi"
<1>1. RobTypeOK
  BY DEF RobControl
<1>2. \A s \in Slots :
         /\ s \in Committing => Departs(s)
         /\ rob_used[s] /\ s \notin Committing => Stays(s, done, ports)
         /\ do_rob_write_first(dec) /\ s = wr_rob_index =>
              Enters(s, dec[1], prd_first(dec), ports)
         /\ do_rob_write_second(dec) /\ s = wr_rob_index_second =>
              Enters(s, dec[2], prd_second(dec), ports)
         /\ ~rob_used[s] /\ NotWritten(s, dec) => Idle(s, ports)
  BY EntryStep
<1>3. \A p \in Range(ports) :
         \/ OfEntry(p)
         \/ OfFirst(p, dec) /\ p.idx = wr_rob_index
         \/ OfSecond(p, dec) /\ p.idx = wr_rob_index_second
  BY DEF PortOK, OfFirst, OfSecond, NewReq
<1>4. \A s \in Slots : s \in DOMAIN done => Waiting(s)
  OBVIOUS
<1>5. ASSUME NEW p \in Range(ports), p.op # "wfi" PROVE Waiting(p.idx)' /\ p = Req(p.idx)'
  <2>1. p.idx \in IssuedSlots(ports)
    BY DEF IssuedSlots
  <2>2. CASE OfEntry(p)
    <3> DEFINE s == p.idx
    <3>1. s \in Slots /\ p = Req(s) /\ rob_used[s] /\ ~rob_selected[s] /\ ~rob_finish[s]
      BY <1>5, <2>2 DEF OfEntry
    <3>2. s \notin Committing /\ s \notin DOMAIN done
      BY <1>2, <1>4, <3>1 DEF Departs, Waiting
    <3>3. Stays(s, done, ports)
      BY <1>2, <3>1, <3>2
    <3>4. Waiting(s)'
      BY <2>1, <3>1, <3>2, <3>3 DEF Stays, Waiting
    <3>5. Req(s)' = Req(s)
      BY <3>3 DEF Stays, Req
    <3> QED
      BY <3>1, <3>4, <3>5
  <2>3. CASE OfFirst(p, dec) /\ p.idx = wr_rob_index
    <3>1. Enters(p.idx, dec[1], prd_first(dec), ports)
      BY <1>1, <1>2, <2>3, Indices DEF OfFirst
    <3>2. Waiting(p.idx)'
      BY <2>1, <2>3, <3>1 DEF Enters, Waiting, OfFirst
    <3>3. p = [idx |-> wr_rob_index, prd |-> prd_first(dec), op |-> dec[1].op]
      BY <2>3 DEF OfFirst, NewReq
    <3>4. Req(p.idx)' = [idx |-> p.idx, prd |-> rob_prd'[p.idx], op |-> rob_op'[p.idx].op]
      BY DEF Req
    <3> QED
      BY <2>3, <3>1, <3>2, <3>3, <3>4 DEF Enters
  <2>4. CASE OfSecond(p, dec) /\ p.idx = wr_rob_index_second
    <3>1. Enters(p.idx, dec[2], prd_second(dec), ports)
      BY <1>1, <1>2, <2>4, Indices DEF OfSecond
    <3>2. Waiting(p.idx)'
      BY <2>1, <2>4, <3>1 DEF Enters, Waiting, OfSecond
    <3>3. p = [idx |-> wr_rob_index_second, prd |-> prd_second(dec), op |-> dec[2].op]
      BY <2>4 DEF OfSecond, NewReq
    <3>4. Req(p.idx)' = [idx |-> p.idx, prd |-> rob_prd'[p.idx], op |-> rob_op'[p.idx].op]
      BY DEF Req
    <3> QED
      BY <2>4, <3>1, <3>2, <3>3, <3>4 DEF Enters
  <2> QED
    BY <1>3, <2>2, <2>3, <2>4
<1>6. ASSUME NEW s \in Slots, Waiting(s), s \notin DOMAIN done
      PROVE  Waiting(s)' /\ Req(s)' = Req(s)
  <2>1. Stays(s, done, ports)
    BY <1>2, <1>6 DEF Departs, Waiting
  <2>2. Waiting(s)'
    BY <1>6, <2>1 DEF Stays, Waiting
  <2>3. Req(s)' = Req(s)
    BY <2>1 DEF Stays, Req
  <2> QED
    BY <2>2, <2>3
<1>7. ASSUME NEW s \in Slots, s \in IssuedSlots(ports), rob_used[s]
      PROVE  ~rob_selected[s] /\ \E p \in Range(ports) : p.idx = s /\ OfEntry(p)
  <2>1. PICK p \in Range(ports) : p.idx = s
    BY <1>7 DEF IssuedSlots
  <2>2. OfEntry(p)
    BY <1>3, <1>7, <2>1 DEF OfFirst, OfSecond, do_rob_write_first, do_rob_write_second
  <2> QED
    BY <2>1, <2>2 DEF OfEntry
<1>8. ASSUME NEW s \in Slots, s \in IssuedSlots(ports), ~rob_used[s]
      PROVE  ~NotWritten(s, dec) /\ \E p \in Range(ports) :
               /\ p.idx = s
               /\ \/ OfFirst(p, dec) /\ s = wr_rob_index
                  \/ OfSecond(p, dec) /\ s = wr_rob_index_second
  <2>1. PICK p \in Range(ports) : p.idx = s
    BY <1>8 DEF IssuedSlots
  <2>2. \/ OfFirst(p, dec) /\ s = wr_rob_index
        \/ OfSecond(p, dec) /\ s = wr_rob_index_second
    BY <1>3, <1>8, <2>1 DEF OfEntry
  <2> QED
    BY <2>1, <2>2 DEF OfFirst, OfSecond, NotWritten
<1>9. ASSUME NEW s \in Slots, Waiting(s)'
      PROVE  \/ Waiting(s) /\ s \notin DOMAIN done
             \/ \E p \in Range(ports) : p.idx = s /\ p.op # "wfi"
  <2>1. CASE rob_used[s]
    <3>1. s \notin Committing
      BY <1>2, <1>9 DEF Departs, Waiting
    <3>2. Stays(s, done, ports)
      BY <1>2, <2>1, <3>1
    <3>3. ~rob_finish[s] /\ s \notin DOMAIN done
          /\ (rob_selected[s] \/ s \in IssuedSlots(ports))
      BY <1>9, <3>2 DEF Stays, Waiting
    <3>4. CASE rob_selected[s]
      BY <2>1, <3>3, <3>4 DEF Waiting
    <3>5. CASE s \in IssuedSlots(ports)
      BY <1>7, <2>1, <3>3, <3>5 DEF OfEntry
    <3> QED
      BY <3>3, <3>4, <3>5
  <2>2. CASE ~rob_used[s]
    <3>1. ~NotWritten(s, dec)
      BY <1>2, <1>9, <2>2 DEF Idle, Waiting
    <3>2. s \in IssuedSlots(ports)
      BY <1>2, <1>9, <3>1 DEF Enters, Waiting, NotWritten
    <3>3. PICK p \in Range(ports) :
            /\ p.idx = s
            /\ \/ OfFirst(p, dec) /\ s = wr_rob_index
               \/ OfSecond(p, dec) /\ s = wr_rob_index_second
      BY <1>8, <2>2, <3>2
    <3>4. p.op # "wfi"
      BY <3>3 DEF OfFirst, OfSecond, NewReq, Skipped
    <3> QED
      BY <3>3, <3>4
  <2> QED
    BY <2>1, <2>2
<1>10. EntryFlags'
  <2> SUFFICES ASSUME NEW s \in Slots
               PROVE  /\ rob_finish'[s] => rob_used'[s]
                      /\ rob_selected'[s] => rob_used'[s]
                      /\ rob_predict_miss'[s] => rob_finish'[s]
                      /\ rob_used'[s] /\ rob_op'[s].exception => rob_exp'[s]
                      /\ rob_used'[s] /\ Skipped(rob_op'[s]) => rob_finish'[s]
                      /\ rob_finish'[s] /\ ~rob_selected'[s] => Skipped(rob_op'[s])
    BY DEF EntryFlags, Skipped, Returns
  <2>1. CASE s \in Committing
    BY <1>2, <2>1 DEF Departs
  <2>2. CASE rob_used[s] /\ s \notin Committing
    <3>1. Stays(s, done, ports)
      BY <1>2, <2>2
    <3> QED
      BY <1>4, <2>2, <3>1 DEF Stays, EntryFlags, Waiting
  <2>3. CASE do_rob_write_first(dec) /\ s = wr_rob_index
    BY <1>2, <2>3 DEF Enters
  <2>4. CASE do_rob_write_second(dec) /\ s = wr_rob_index_second
    BY <1>2, <2>4 DEF Enters
  <2>5. CASE ~rob_used[s] /\ NotWritten(s, dec)
    BY <1>2, <1>8, <2>5 DEF Idle
  <2> QED
    BY <2>1, <2>2, <2>3, <2>4, <2>5 DEF NotWritten
<1> QED
  BY <1>5, <1>6, <1>9, <1>10

\* The types of the sources and the available table after the edge.
LEMMA SourceTypes ==
  ASSUME RobTypeOK, IssueTypes, NEW dec \in DecodeWindows, NEW R,
         AdvanceSources(dec), AdvanceAvailable(R, dec)
  PROVE  /\ rob_prs1' \in [Slots -> PRegs] /\ rob_prs2' \in [Slots -> PRegs]
         /\ available_table' \in [PRegs -> BOOLEAN]
<1>1. \A r \in ARegs : rename_reg[r] \in PRegs
  BY DEF RobTypeOK
<1>2. prd_first(dec) \in PRegs
  BY RenamingTypes
<1>3. \A i \in Insns : i.rs1 \in ARegs /\ i.rs2 \in ARegs
  BY RcuAssumption
<1>4. /\ do_rob_write_first(dec) => dec[1] \in Insns
      /\ do_rob_write_second(dec) => dec[2] \in Insns
  BY DecWindow DEF do_rob_write_first, do_rob_write_second
<1>5. do_rob_write_first(dec) => /\ prs_first(dec, dec[1].rs1) \in PRegs
                                 /\ prs_first(dec, dec[1].rs2) \in PRegs
  BY <1>1, <1>3, <1>4 DEF prs_first
<1>6. do_rob_write_second(dec) => /\ prs_second(dec, dec[2].rs1) \in PRegs
                                  /\ prs_second(dec, dec[2].rs2) \in PRegs
  BY <1>1, <1>2, <1>3, <1>4 DEF prs_second, SecondMapping
<1>7. rob_prs1 \in [Slots -> PRegs] /\ rob_prs2 \in [Slots -> PRegs]
  BY DEF IssueTypes
<1>8. rob_prs1' \in [Slots -> PRegs]
  BY <1>5, <1>6, <1>7, AllocateType DEF AdvanceSources
<1>9. rob_prs2' \in [Slots -> PRegs]
  BY <1>5, <1>6, <1>7, AllocateType DEF AdvanceSources
<1>10. available_table' \in [PRegs -> BOOLEAN]
  BY Zenon DEF AdvanceAvailable, IssueTypes
<1> QED
  BY <1>8, <1>9, <1>10

\* What is outside is a request.
LEMMA OutsideTypes ==
  ASSUME IssueTypes
  PROVE  Outside \subseteq Requests
<1>1. \A x \in Seq(Requests) : Range(x) \subseteq Requests
  BY DEF Range
<1> QED
  BY <1>1 DEF IssueTypes, Outside, Units

\* An edge without fault keeps the issue logic in order, and is an edge of RobRename.
LEMMA AdvanceControl ==
  ASSUME RobControl, IssueControl, NEW R \in Responding, NEW dec \in DecodeWindows,
         NEW lsu_takes \in LsuHandshakes(R), RcuAdvance(R, dec, lsu_takes)
  PROVE  /\ IssueControl'
         /\ \E done \in Completions : Advance(dec, done)
<1> DEFINE ports == Ports(R, dec)
<1>1. PICK done \in Answers(R) : Advance(dec, done)
  BY DEF RcuAdvance
<1>2. /\ AdvanceSelected(ports) /\ AdvanceSources(dec) /\ AdvanceAvailable(R, dec)
      /\ AdvanceAlus(ports) /\ AdvanceCsru(ports) /\ AdvanceMd(R, ports)
      /\ AdvanceLsu(R, ports, lsu_takes)
  BY Zenon DEF RcuAdvance, AdvanceIssue
<1>3. /\ R \subseteq Units
      /\ DOMAIN done \subseteq {s \in Slots : Waiting(s)}
      /\ \A s \in Slots : Waiting(s) => (s \in DOMAIN done <=> Req(s) \in R)
      /\ done \in Completions
  BY AnswersWait
<1>4. RobTypeOK /\ EntryFlags /\ IssueTypes /\ OneRequest /\ rob_selected \in [Slots -> BOOLEAN]
  BY DEF RobControl, IssueControl, IssueTypes
<1>5. /\ AtMostTwo(Requests, ports)
      /\ \A p \in Range(ports) : PortOK(p, dec)
      /\ \A p, q \in Range(ports) : p.idx = q.idx => p = q
  BY <1>4, PortsAre
<1> HIDE DEF ports
<1>6. /\ EntryFlags'
      /\ \A p \in Range(ports) : p.op # "wfi" => Waiting(p.idx)' /\ p = Req(p.idx)'
      /\ \A s \in Slots : Waiting(s) /\ s \notin DOMAIN done =>
           Waiting(s)' /\ Req(s)' = Req(s)
      /\ \A s \in Slots : Waiting(s)' =>
           \/ Waiting(s) /\ s \notin DOMAIN done
           \/ \E p \in Range(ports) : p.idx = s /\ p.op # "wfi"
  BY <1>1, <1>2, <1>3, <1>4, <1>5, FlagsAfter
<1>7. /\ Outside' = (Outside \ R) \cup {p \in Range(ports) : p.op # "wfi"}
      /\ Sorted' /\ Apart'
  BY <1>2, <1>5, OutsideAfter
<1>8. OneRequest'
  <2>1. ASSUME NEW p \in Outside' PROVE Waiting(p.idx)' /\ p = Req(p.idx)'
    <3>1. CASE p \in Outside \ R
      <4>1. p.idx \in Slots /\ Waiting(p.idx) /\ p = Req(p.idx)
        BY <1>4, <3>1, OutsideTypes DEF OneRequest, Requests
      <4>2. p.idx \notin DOMAIN done
        BY <1>3, <3>1, <4>1
      <4> QED
        BY <1>6, <4>1, <4>2
    <3>2. CASE p \in Range(ports) /\ p.op # "wfi"
      BY <1>6, <3>2
    <3> QED
      BY <1>7, <3>1, <3>2
  <2>2. ASSUME NEW s \in Slots, Waiting(s)' PROVE Req(s)' \in Outside'
    <3>1. CASE Waiting(s) /\ s \notin DOMAIN done
      <4>1. Req(s)' = Req(s) /\ Req(s) \in Outside /\ Req(s) \notin R
        BY <1>3, <1>4, <1>6, <3>1 DEF OneRequest
      <4> QED
        BY <1>7, <4>1
    <3>2. ASSUME NEW p \in Range(ports), p.idx = s, p.op # "wfi" PROVE Req(s)' \in Outside'
      BY <1>6, <1>7, <3>2
    <3> QED
      BY <1>6, <2>2, <3>1, <3>2
  <2> QED
    BY <2>1, <2>2 DEF OneRequest
<1>9. IssueTypes'
  <2>1. rob_selected' \in [Slots -> BOOLEAN]
    BY <1>2, Zenon DEF AdvanceSelected
  <2>2. /\ rob_prs1' \in [Slots -> PRegs] /\ rob_prs2' \in [Slots -> PRegs]
        /\ available_table' \in [PRegs -> BOOLEAN]
    BY <1>2, <1>4, SourceTypes
  <2>3. /\ alu1' \in Seq(Requests) /\ Len(alu1') <= 1
        /\ alu2' \in Seq(Requests) /\ Len(alu2') <= 1
        /\ csru' \in Seq(Requests) /\ Len(csru') <= 1
    BY <1>2, <1>5, AlusAfter
  <2>4. /\ mdq' \in Seq(Requests) /\ Len(mdq') <= MD_QUEUE_DEPTH
        /\ md_active' \in Seq(Requests) /\ Len(md_active') <= 1
    BY <1>2, <1>5, MdAfter
  <2>5. /\ lsuq' \in Seq(Requests) /\ Len(lsuq') <= LSU_QUEUE_DEPTH /\ lsq' \in SUBSET Requests
    BY <1>2, <1>5, LsuAfter
  <2> QED
    BY <2>1, <2>2, <2>3, <2>4, <2>5 DEF IssueTypes, Requests
<1> QED
  BY <1>1, <1>3, <1>6, <1>7, <1>8, <1>9 DEF IssueControl

\* A fault leaves nothing outside.
LEMMA FlushControl ==
  ASSUME RobTypeOK, IssueControl, RcuFlush
  PROVE  IssueControl'
<1>1. /\ rob_selected' = [s \in Slots |-> FALSE] /\ rob_used' = [s \in Slots |-> FALSE]
      /\ rob_finish' = [s \in Slots |-> FALSE] /\ rob_predict_miss' = [s \in Slots |-> FALSE]
      /\ alu1' = << >> /\ alu2' = << >> /\ csru' = << >> /\ mdq' = << >> /\ lsuq' = << >>
      /\ md_active' = << >> /\ lsq' = {}
      /\ rob_prs1' = rob_prs1 /\ rob_prs2' = rob_prs2
  BY DEF RcuFlush, Flush, FlushIssue
<1>2. available_table' \in [PRegs -> BOOLEAN]
  BY Zenon DEF RcuFlush, FlushIssue, IssueControl, IssueTypes
<1>3. IssueTypes'
  <2>1. << >> \in Seq(Requests) /\ Len(<< >>) = 0 /\ {} \in SUBSET Requests
    OBVIOUS
  <2>2. rob_selected' \in [Slots -> BOOLEAN]
    BY <1>1, Zenon
  <2>3. MD_QUEUE_DEPTH \in Nat /\ LSU_QUEUE_DEPTH \in Nat
    BY RcuAssumption
  <2>4. 0 <= MD_QUEUE_DEPTH /\ 0 <= LSU_QUEUE_DEPTH /\ 0 <= 1
    BY <2>3
  <2> QED
    BY <1>1, <1>2, <2>1, <2>2, <2>4 DEF IssueControl, IssueTypes, Requests
<1>4. EntryFlags'
  BY <1>1 DEF EntryFlags
<1>5. Range(<< >>) = {} /\ Distinct(<< >>)
  BY DEF Range, Distinct
<1>6. Outside' = {} /\ Sorted' /\ Apart'
  BY <1>1, <1>5 DEF Outside, Units, Sorted, Apart
<1>7. OneRequest'
  BY <1>1, <1>6 DEF OneRequest, Waiting
<1> QED
  BY <1>3, <1>4, <1>6, <1>7 DEF IssueControl

\* The reset state.
LEMMA InitControl ==
  ASSUME RcuInit
  PROVE  IssueControl
<1>1. /\ rob_selected = [s \in Slots |-> FALSE] /\ rob_used = [s \in Slots |-> FALSE]
      /\ rob_finish = [s \in Slots |-> FALSE] /\ rob_predict_miss = [s \in Slots |-> FALSE]
      /\ alu1 = << >> /\ alu2 = << >> /\ csru = << >> /\ mdq = << >> /\ lsuq = << >>
      /\ md_active = << >> /\ lsq = {}
  BY DEF RcuInit, RobInit
<1>2. IssueTypes
  <2>1. << >> \in Seq(Requests) /\ Len(<< >>) = 0 /\ {} \in SUBSET Requests
    OBVIOUS
  <2>2. rob_selected \in [Slots -> BOOLEAN]
    BY <1>1, Zenon
  <2>3. MD_QUEUE_DEPTH \in Nat /\ LSU_QUEUE_DEPTH \in Nat
    BY RcuAssumption
  <2>4. 0 <= MD_QUEUE_DEPTH /\ 0 <= LSU_QUEUE_DEPTH /\ 0 <= 1
    BY <2>3
  <2>5. available_table \in [PRegs -> BOOLEAN]
    BY Zenon DEF RcuInit
  <2>6. rob_prs1 \in [Slots -> PRegs] /\ rob_prs2 \in [Slots -> PRegs]
    BY Sizes DEF RcuInit
  <2> QED
    BY <1>1, <2>1, <2>2, <2>4, <2>5, <2>6 DEF IssueTypes
<1>3. EntryFlags
  BY <1>1 DEF EntryFlags
<1>4. Range(<< >>) = {} /\ Distinct(<< >>)
  BY DEF Range, Distinct
<1>5. Outside = {} /\ Sorted /\ Apart
  BY <1>1, <1>4 DEF Outside, Units, Sorted, Apart
<1>6. OneRequest
  BY <1>1, <1>5 DEF OneRequest, Waiting
<1> QED
  BY <1>2, <1>3, <1>5, <1>6 DEF IssueControl

-----------------------------------------------------------------------------
(* What follows.                                                            *)

RcuControl == RobControl /\ IssueControl

\* The issue logic and the reorder buffer keep each other in order, and every step is a
\* step of RobRename.
LEMMA RcuControlInductive ==
  /\ RcuInit => RcuControl
  /\ RcuControl /\ [RcuNext]_rcuVars => [RobNext]_robVars /\ RcuControl'
<1>1. RcuInit => RcuControl
  BY InitControl, RobControlInductive DEF RcuInit, RcuControl
<1>2. ASSUME RcuControl, RcuFlush PROVE RobNext /\ RcuControl'
  <2>1. RobNext
    BY <1>2 DEF RcuFlush, RobNext
  <2>2. RobTypeOK /\ RobControl /\ IssueControl
    BY <1>2 DEF RcuControl, RobControl
  <2>3. RobControl'
    BY <2>1, <2>2, RobControlInductive
  <2>4. IssueControl'
    BY <1>2, <2>2, FlushControl
  <2> QED
    BY <2>1, <2>3, <2>4 DEF RcuControl
<1>3. ASSUME RcuControl, NEW R \in Responding, NEW dec \in DecodeWindows,
             NEW lsu_takes \in LsuHandshakes(R), RcuAdvance(R, dec, lsu_takes)
      PROVE  RobNext /\ RcuControl'
  <2>1. RobControl /\ IssueControl
    BY <1>3 DEF RcuControl
  <2>2. IssueControl' /\ \E done \in Completions : Advance(dec, done)
    BY <1>3, <2>1, AdvanceControl
  <2>3. RobNext
    BY <1>3, <2>2 DEF RobNext, RcuAdvance
  <2>4. RobControl'
    BY <2>1, <2>3, RobControlInductive
  <2> QED
    BY <2>2, <2>3, <2>4 DEF RcuControl
<1>4. ASSUME RcuControl, UNCHANGED rcuVars PROVE UNCHANGED robVars /\ RcuControl'
  <2>1. UNCHANGED robVars /\ UNCHANGED issueVars
    BY <1>4 DEF rcuVars
  <2>2. RobControl'
    BY <1>4, <2>1, RobControlInductive DEF RcuControl
  <2>3. /\ rob_used' = rob_used /\ rob_finish' = rob_finish /\ rob_exp' = rob_exp
        /\ rob_predict_miss' = rob_predict_miss /\ rob_op' = rob_op /\ rob_prd' = rob_prd
    BY <2>1 DEF robVars
  <2>4. /\ rob_selected' = rob_selected /\ rob_prs1' = rob_prs1 /\ rob_prs2' = rob_prs2
        /\ available_table' = available_table /\ alu1' = alu1 /\ alu2' = alu2
        /\ csru' = csru /\ mdq' = mdq /\ lsuq' = lsuq /\ md_active' = md_active /\ lsq' = lsq
    BY <2>1 DEF issueVars
  <2>5. IssueTypes' = IssueTypes /\ Outside' = Outside
    BY <2>4 DEF IssueTypes, Outside, Units, Requests
  <2>6. EntryFlags' = EntryFlags
    BY <2>3, <2>4 DEF EntryFlags, Skipped, Returns
  <2>7. (\A s : (Waiting(s)' <=> Waiting(s)) /\ Req(s)' = Req(s))
    BY <2>3, <2>4 DEF Waiting, Req
  <2>8. OneRequest' <=> OneRequest
    BY <2>5, <2>7 DEF OneRequest
  <2>9. Sorted' = Sorted /\ Apart' = Apart
    BY <2>4 DEF Sorted, Apart
  <2>10. IssueControl'
    BY <1>4, <2>5, <2>6, <2>8, <2>9 DEF RcuControl, IssueControl
  <2> QED
    BY <2>1, <2>2, <2>10 DEF RcuControl
<1> QED
  BY <1>1, <1>2, <1>3, <1>4 DEF RcuNext

\* Every behaviour of the whole RCU is one of RobRename: the units answer only for entries
\* they were given and have not answered for yet, which RobRename takes for granted.  All
\* that is proved of RobRename holds of the RCU with its issue logic.
THEOREM RcuImplementsRob == RcuSpec => RobSpec
<1>1. RcuInit => RobInit /\ RcuControl
  BY RcuControlInductive DEF RcuInit
<1>2. RcuControl /\ [RcuNext]_rcuVars => [RobNext]_robVars /\ RcuControl'
  BY RcuControlInductive
<1> QED
  BY <1>1, <1>2, PTL DEF RcuSpec, RobSpec

\* The registers, queues and units of the RCU hold what they can hold: no queue is ever
\* written beyond its depth.
THEOREM RcuTypesCorrect == RcuSpec => []RcuTypeOK
<1>1. RcuControl => RcuTypeOK
  <2> SUFFICES ASSUME RcuControl PROVE RcuTypeOK
    OBVIOUS
  <2>1. RobTypeOK /\ IssueTypes
    BY DEF RcuControl, RobControl, IssueControl
  <2>2. Outside \subseteq Requests
    BY <2>1, OutsideTypes
  <2>3. /\ Range(alu1) \cup Range(alu2) \cup Range(csru) \subseteq Requests
        /\ Range(mdq) \cup Range(lsuq) \cup Range(md_active) \cup lsq \subseteq Requests
    BY <2>2 DEF Outside, Units
  <2> QED
    BY <2>1, <2>3 DEF IssueTypes, RcuTypeOK
<1> QED
  BY <1>1, RcuControlInductive, PTL DEF RcuSpec

\* The requests of an entry, counted.
LEMMA OutstandingCount ==
  ASSUME RcuControl, NEW s \in Slots
  PROVE  Cardinality(Outstanding(s)) = IF Waiting(s) THEN 1 ELSE 0
<1> DEFINE r == Req(s)
           O == Outstanding(s)
<1>1. IssueTypes /\ OneRequest /\ Sorted /\ Apart
  BY DEF RcuControl, IssueControl
<1>2. \A p \in Outside : p.idx = s => Waiting(s) /\ p = r
  BY <1>1 DEF OneRequest
<1>3. DOMAIN mdq = 1..Len(mdq) /\ DOMAIN lsuq = 1..Len(lsuq)
  BY <1>1, LenProperties DEF IssueTypes
<1>4. \A x : x \in O <=>
        \/ \E p \in Range(alu1) : p.idx = s /\ x = <<1, p>>
        \/ \E p \in Range(alu2) : p.idx = s /\ x = <<2, p>>
        \/ \E p \in Range(csru) : p.idx = s /\ x = <<3, p>>
        \/ \E p \in Range(md_active) : p.idx = s /\ x = <<4, p>>
        \/ \E p \in lsq : p.idx = s /\ x = <<5, p>>
        \/ \E i \in DOMAIN mdq : mdq[i].idx = s /\ x = <<6, i>>
        \/ \E i \in DOMAIN lsuq : lsuq[i].idx = s /\ x = <<7, i>>
  BY Zenon DEF Outstanding
<1>5. /\ \A i \in DOMAIN mdq : mdq[i] \in Range(mdq)
      /\ \A i \in DOMAIN lsuq : lsuq[i] \in Range(lsuq)
      /\ \A p \in Range(mdq) : \E i \in DOMAIN mdq : mdq[i] = p
      /\ \A p \in Range(lsuq) : \E i \in DOMAIN lsuq : lsuq[i] = p
  BY DEF Range
<1>6. \A x : x \in O <=>
        \/ r \in Range(alu1) /\ x = <<1, r>>
        \/ r \in Range(alu2) /\ x = <<2, r>>
        \/ r \in Range(csru) /\ x = <<3, r>>
        \/ r \in Range(md_active) /\ x = <<4, r>>
        \/ r \in lsq /\ x = <<5, r>>
        \/ \E i \in DOMAIN mdq : mdq[i] = r /\ x = <<6, i>>
        \/ \E i \in DOMAIN lsuq : lsuq[i] = r /\ x = <<7, i>>
  <2>1. r.idx = s
    BY DEF Req
  <2>2. \A p : p \in Range(alu1) \/ p \in Range(alu2) \/ p \in Range(csru)
               \/ p \in Range(md_active) \/ p \in lsq \/ p \in Range(mdq) \/ p \in Range(lsuq)
               => (p.idx = s <=> p = r)
    BY <1>2, <2>1 DEF Outside, Units
  <2> HIDE DEF r, O
  <2> QED
    BY <1>4, <1>5, <2>2
<1>7. CASE ~Waiting(s)
  <2>1. r \notin Outside
    BY <1>2, <1>7 DEF Req
  <2>2. O = {}
    BY <1>5, <1>6, <2>1 DEF Outside, Units
  <2> QED
    BY <1>7, <2>2, FS_EmptySet
<1>8. CASE Waiting(s)
  <2>1. r \in Outside
    BY <1>1, <1>8 DEF OneRequest
  <2>2. \E x : O = {x}
    <3>a. /\ r \in Range(alu1) => r.op \in AluOps \ CsrOps
          /\ r \in Range(alu2) => r.op \in AluOps
          /\ r \in Range(csru) => r.op \in CsrOps
          /\ r \in Range(mdq) \/ r \in Range(md_active) => r.op \in MdOps
          /\ r \in Range(lsuq) \/ r \in lsq => r.op \in MemOps
      BY <1>1 DEF Sorted
    <3>b. /\ AluOps \cap MdOps = {} /\ AluOps \cap MemOps = {} /\ MdOps \cap MemOps = {}
          /\ CsrOps \subseteq AluOps
      BY DEF AluOps, MdOps, MemOps, CsrOps
    <3>c. /\ ~(r \in Range(alu1) /\ r \in Range(alu2))
          /\ ~(r \in Range(csru) /\ r \in Range(alu2))
          /\ ~(r \in Range(md_active) /\ r \in Range(mdq))
          /\ ~(r \in lsq /\ r \in Range(lsuq))
      BY <1>1 DEF Apart
    <3>d. /\ \A i, j \in DOMAIN mdq : mdq[i] = r /\ mdq[j] = r => i = j
          /\ \A i, j \in DOMAIN lsuq : lsuq[i] = r /\ lsuq[j] = r => i = j
      BY <1>1, <1>3 DEF Apart, Distinct
    <3>e. /\ (\E i \in DOMAIN mdq : mdq[i] = r) <=> r \in Range(mdq)
          /\ (\E i \in DOMAIN lsuq : lsuq[i] = r) <=> r \in Range(lsuq)
      BY <1>5
    <3> HIDE DEF r, O
    <3>1. CASE r \in Range(alu1)
      <4>1. O = {<<1, r>>}
        BY <1>6, <3>1, <3>a, <3>b, <3>c, <3>e
      <4> QED
        BY <4>1
    <3>2. CASE r \in Range(alu2)
      <4>1. O = {<<2, r>>}
        BY <1>6, <3>2, <3>a, <3>b, <3>c, <3>e
      <4> QED
        BY <4>1
    <3>3. CASE r \in Range(csru)
      <4>1. O = {<<3, r>>}
        BY <1>6, <3>3, <3>a, <3>b, <3>c, <3>e
      <4> QED
        BY <4>1
    <3>4. CASE r \in Range(md_active)
      <4>1. O = {<<4, r>>}
        BY <1>6, <3>4, <3>a, <3>b, <3>c, <3>e
      <4> QED
        BY <4>1
    <3>5. CASE r \in lsq
      <4>1. O = {<<5, r>>}
        BY <1>6, <3>5, <3>a, <3>b, <3>c, <3>e
      <4> QED
        BY <4>1
    <3>6. CASE r \in Range(mdq)
      <4>1. PICK i \in DOMAIN mdq : mdq[i] = r
        BY <3>6, <3>e
      <4>2. O = {<<6, i>>}
        BY <1>6, <3>6, <3>a, <3>b, <3>c, <3>d, <3>e, <4>1
      <4> QED
        BY <4>2
    <3>7. CASE r \in Range(lsuq)
      <4>1. PICK i \in DOMAIN lsuq : lsuq[i] = r
        BY <3>7, <3>e
      <4>2. O = {<<7, i>>}
        BY <1>6, <3>7, <3>a, <3>b, <3>c, <3>d, <3>e, <4>1
      <4> QED
        BY <4>2
    <3> QED
      BY <2>1, <3>1, <3>2, <3>3, <3>4, <3>5, <3>6, <3>7 DEF Outside, Units
  <2> QED
    BY <1>8, <2>2, FS_Singleton
<1> QED
  BY <1>7, <1>8

\* An entry that was issued and is not finished has exactly one request on its way, and
\* no other entry has one: no issue is dropped when a queue is full, doubled by the two
\* ports, or left behind by a fault.
THEOREM IssuesAreExact == RcuSpec => []IssuedExactlyOnce
<1>1. RcuControl => IssuedExactlyOnce
  <2> SUFFICES ASSUME RcuControl PROVE IssuedExactlyOnce
    OBVIOUS
  <2>1. \A s \in Slots : Cardinality(Outstanding(s)) = IF Waiting(s) THEN 1 ELSE 0
    BY OutstandingCount
  <2>2. \A p \in Outside : p.prd = rob_prd[p.idx] /\ p.op = rob_op[p.idx].op
    BY DEF RcuControl, IssueControl, OneRequest, Req
  <2> QED
    BY <2>1, <2>2 DEF IssuedExactlyOnce, Waiting, Outside
<1> QED
  BY <1>1, RcuControlInductive, PTL DEF RcuSpec

-----------------------------------------------------------------------------
(* CSR accesses, and the order of loads and stores.                          *)

\* A CSR access that enters its unit is for the head, which does not commit in that cycle
\* and is not finished after it; nothing older is left that could raise a fault.
LEMMA CsrAfter ==
  ASSUME RcuControl, NEW R \in Responding, NEW dec \in DecodeWindows,
         NEW lsu_takes \in LsuHandshakes(R), RcuAdvance(R, dec, lsu_takes)
  PROVE  CsrNotSpeculative'
<1> SUFFICES ASSUME csru' # << >>
             PROVE  csru'[1].idx = cmt_rob_index' /\ ~CommitFault'
  BY DEF CsrNotSpeculative
<1> DEFINE ports == Ports(R, dec)
<1>p. PICK p : p = csru'[1]
  OBVIOUS
<1>c. PICK c : c = cmt_rob_index
  OBVIOUS
<1>1. RobControl /\ IssueControl /\ RobTypeOK /\ EntryFlags
  BY DEF RcuControl, RobControl, IssueControl
<1>2. AdvanceAlus(ports) /\ AdvanceCsru(ports)
  BY Zenon DEF RcuAdvance, AdvanceIssue
<1>3. PICK done : Advance(dec, done)
  BY DEF RcuAdvance
<1>4. /\ AtMostTwo(Requests, ports)
      /\ \A x \in Range(ports) : PortOK(x, dec)
      /\ \A x, y \in Range(ports) : x.idx = y.idx => x = y
  BY <1>1, PortsAre
<1> HIDE DEF ports
<1>5. /\ csru' \in Seq(Requests) /\ Len(csru') <= 1
      /\ Range(alu1') \cup Range(alu2') \cup Range(csru') = Asked(ports, AluOps)
      /\ \A x \in Range(csru') : x.op \in CsrOps
  BY <1>2, <1>4, AlusAfter
<1>6. Range(csru') = {p}
  BY <1>5, <1>p, OneOrNone
<1>7. p \in Range(ports) /\ p.op \in CsrOps /\ PortOK(p, dec)
  BY <1>4, <1>5, <1>6 DEF Asked
<1>8. p.idx = c /\ p.op # "wfi" /\ (OfEntry(p) \/ OfFirst(p, dec) \/ OfSecond(p, dec))
  BY <1>7, <1>c DEF PortOK, IsCsr, CsrOps
<1>9. ~rob_finish[c]
  <2>1. CASE OfEntry(p)
    BY <1>8, <2>1 DEF OfEntry
  <2>2. CASE OfFirst(p, dec)
    <3>1. c = wr_rob_index /\ ~rob_used[wr_rob_index]
      BY <1>8, <2>2 DEF OfFirst, NewReq, do_rob_write_first
    <3> QED
      BY <1>1, <3>1, Indices DEF EntryFlags
  <2>3. CASE OfSecond(p, dec)
    <3>1. c = wr_rob_index_second /\ ~rob_used[wr_rob_index_second]
      BY <1>8, <2>3 DEF OfSecond, NewReq, do_rob_write_second
    <3> QED
      BY <1>1, <3>1, Indices DEF EntryFlags
  <2> QED
    BY <1>8, <2>1, <2>2, <2>3
<1>10. ~rob_predict_miss[c] /\ c \in Slots
  BY <1>1, <1>9, <1>c, Indices DEF EntryFlags
<1>11. ~do_rob_commit_first /\ ~do_rob_commit_second
  BY <1>9, <1>c DEF do_rob_commit_first, do_rob_commit_second
<1>12. cmt_rob_index' = c
  <2>1. cmt_rob_index' = CntAdd(c, 0, ROB_SIZE)
    BY <1>3, <1>11, <1>c DEF Advance, AdvanceRob, AdvanceCommitIndex, Ones
  <2> QED
    BY <1>10, <2>1, Sizes, CounterStep DEF Slots
<1>13. dff_cmt_miss_delay' = FALSE
  BY <1>3, <1>10, <1>c DEF Advance, AdvanceMissDelay
<1>14. IssueControl'
  BY <1>1, AdvanceControl
<1>15. Waiting(c)'
  <2>1. p \in Outside'
    BY <1>6 DEF Outside, Units
  <2>2. Waiting(p.idx)'
    BY <1>14, <2>1 DEF IssueControl, OneRequest
  <2> QED
    BY <1>8, <2>2
<1>16. ~rob_finish'[c] /\ ~rob_predict_miss'[c]
  BY <1>10, <1>14, <1>15 DEF Waiting, IssueControl, EntryFlags
<1>17. ~CommitFault'
  BY <1>12, <1>13, <1>16
  DEF CommitFault, exception, global_ret_o, predict_miss_o, cmt_miss, do_rob_commit_first
<1> QED
  BY <1>8, <1>12, <1>17, <1>p

\* A CSR access takes effect only as the oldest instruction, and never in a cycle in
\* which the commit logic raises a fault.
THEOREM CsrsAreNotSpeculative == RcuSpec => []CsrNotSpeculative
<1>1. RcuInit => CsrNotSpeculative
  BY DEF RcuInit, CsrNotSpeculative
<1>2. ASSUME RcuControl, CsrNotSpeculative, [RcuNext]_rcuVars PROVE CsrNotSpeculative'
  <2>1. CASE RcuFlush
    BY <2>1 DEF RcuFlush, FlushIssue, CsrNotSpeculative
  <2>2. ASSUME NEW R \in Responding, NEW dec \in DecodeWindows,
               NEW lsu_takes \in LsuHandshakes(R), RcuAdvance(R, dec, lsu_takes)
        PROVE  CsrNotSpeculative'
    BY <1>2, <2>2, CsrAfter
  <2>3. CASE UNCHANGED rcuVars
    BY <1>2, <2>3
    DEF rcuVars, robVars, issueVars, CsrNotSpeculative, CommitFault, exception, global_ret_o,
        predict_miss_o, cmt_miss, do_rob_commit_first, Returns
  <2> QED
    BY <1>2, <2>1, <2>2, <2>3 DEF RcuNext
<1> QED
  BY <1>1, <1>2, RcuControlInductive, PTL DEF RcuSpec

\* Commits keep the order of the entries that stay.
LEMMA OrderKept ==
  ASSUME RobControl, NEW dec, NEW done, Advance(dec, done),
         NEW s \in Slots \ Committing, NEW t \in Slots \ Committing
  PROVE  Pos(s)' < Pos(t)' <=> Pos(s) < Pos(t)
<1> DEFINE c == cmt_rob_index
           d == cmt_rob_index_second
           n == Ones(do_rob_commit_first, do_rob_commit_second)
<1>1. RobTypeOK /\ (do_rob_commit_second => do_rob_commit_first)
  BY DEF RobControl, do_rob_commit_second
<1>2. cmt_rob_index' = CntAdd(c, n, ROB_SIZE) /\ n \in 0..2
  BY DEF Advance, AdvanceRob, AdvanceCommitIndex, Ones
<1>3. ASSUME NEW x \in Slots \ Committing PROVE Pos(x) >= n /\ Pos(x) \in Int
  <2>1. (do_rob_commit_first => x # c) /\ (do_rob_commit_second => x # d)
    BY DEF Committing
  <2>2. /\ Pos(c) = 0 /\ Pos(d) = 1 /\ Pos(x) \in 0..(ROB_SIZE - 1)
        /\ (Pos(x) = 0 => x = c) /\ (Pos(x) = 1 => x = d)
    BY <1>1, Sizes DEF RobTypeOK, Pos, Slots, cmt_rob_index_second, CntNext
  <2> QED
    BY <1>1, <2>1, <2>2 DEF Ones
<1> HIDE DEF n
<1>4. /\ Pos(s) >= n /\ Pos(s) \in Int /\ Pos(t) >= n /\ Pos(t) \in Int
      /\ s \in Slots /\ t \in Slots
  BY <1>3
<1>5. Pos(s)' = Pos(s) - n /\ Pos(t)' = Pos(t) - n
  BY <1>1, <1>2, <1>4, AgesAfter
<1> QED
  BY <1>2, <1>4, <1>5

\* A load or store on a port: the older ones have been issued before.
MemPortOK(p, dec) ==
  /\ \A t \in Slots : rob_used[t] /\ Pos(t) < Pos(p.idx) /\ IsMem(rob_op[t]) => rob_selected[t]
  /\ OfSecond(p, dec) => ~IsMem(dec[1])

\* That is what the arbiter's clause for loads and stores amounts to.
LEMMA ChosenMem ==
  ASSUME RobTypeOK, NEW dec, NEW R, NEW p, NEW j, Chosen(p, j, R, dec), IsMem(p)
  PROVE  MemPortOK(p, dec)
<1>1. /\ \A t \in Slots : Pos(t) < j => ~rob_op_ls(t)
      /\ j = ROB_SIZE + 1 => ~(Len(dec) >= 1 /\ IsMem(dec[1]))
  BY DEF Chosen
<1>2. \A t \in Slots : Pos(t) \in 0..(ROB_SIZE - 1)
  BY AgeType
<1>3. ASSUME NEW t \in Slots, Pos(t) < Pos(p.idx), IsMem(rob_op[t]) PROVE rob_selected[t]
  <2>1. Pos(t) < j
    BY <1>2, <1>3, Sizes DEF Chosen
  <2> QED
    BY <1>1, <1>3, <2>1 DEF rob_op_ls
<1>4. ASSUME OfSecond(p, dec) PROVE ~IsMem(dec[1])
  <2>1. Len(dec) >= 2 /\ p.idx = wr_rob_index_second /\ ~rob_used[p.idx]
    BY <1>4 DEF OfSecond, NewReq, do_rob_write_second
  <2>2. ~rob_select_ready(p.idx, R, dec) /\ p.idx # wr_rob_index
    BY <2>1, Indices DEF rob_select_ready
  <2>3. p # NewReq(dec, 1)
    BY <2>2 DEF NewReq
  <2>4. j = ROB_SIZE + 1
    BY <2>2, <2>3 DEF Chosen
  <2>5. Len(dec) >= 1
    BY <2>1, <1>4 DEF OfSecond, do_rob_write_second
  <2> QED
    BY <1>1, <2>4, <2>5
<1> QED
  BY <1>3, <1>4 DEF MemPortOK

\* At most one load or store is issued in a cycle.
LEMMA ChosenOneMem ==
  ASSUME RobTypeOK, NEW dec \in DecodeWindows, NEW R, NEW p, NEW q, NEW j \in Nat, NEW k \in Nat,
         j < k, Chosen(p, j, R, dec), Chosen(q, k, R, dec)
  PROVE  ~(IsMem(p) /\ IsMem(q))
<1> SUFFICES ASSUME IsMem(p), IsMem(q) PROVE FALSE
  OBVIOUS
<1>1. /\ \A t \in Slots : Pos(t) < k => ~rob_op_ls(t)
      /\ k = ROB_SIZE + 1 => ~(Len(dec) >= 1 /\ IsMem(dec[1]))
      /\ k <= ROB_SIZE + 1
  BY Sizes DEF Chosen
<1>2. CASE p.idx \in Slots /\ Pos(p.idx) = j /\ p = Req(p.idx) /\ rob_select_ready(p.idx, R, dec)
  <2>1. rob_op_ls(p.idx)
    BY <1>2 DEF rob_select_ready, rob_op_ls, Req, IsMem
  <2> QED
    BY <1>1, <1>2, <2>1
<1>3. CASE j = ROB_SIZE /\ p = NewReq(dec, 1) /\ bypass_ready(1, R, dec)
  <2>1. k = ROB_SIZE + 1
    BY <1>1, <1>3, Sizes
  <2>2. Len(dec) >= 1 /\ IsMem(dec[1])
    BY <1>3 DEF bypass_ready, do_rob_write_first, NewReq, IsMem
  <2> QED
    BY <1>1, <2>1, <2>2
<1>4. CASE j = ROB_SIZE + 1
  BY <1>1, <1>4, Sizes
<1> QED
  BY <1>2, <1>3, <1>4 DEF Chosen

\* The loads and stores on the ports.
LEMMA MemPorts ==
  ASSUME RobControl, EntryFlags, NEW dec \in DecodeWindows, NEW R,
         NEW ports, ports = Ports(R, dec)
  PROVE  /\ \A p \in Range(ports) : IsMem(p) => MemPortOK(p, dec)
         /\ \A p, q \in Range(ports) : IsMem(p) /\ IsMem(q) => p = q
<1>1. RobTypeOK
  BY DEF RobControl
<1>2. \A p, j : Chosen(p, j, R, dec) /\ IsMem(p) => MemPortOK(p, dec)
  BY <1>1, ChosenMem
<1>3. CASE ports = << >>
  BY <1>3 DEF Range
<1>4. ASSUME NEW p, NEW j, ports = <<p>>, Chosen(p, j, R, dec)
      PROVE  /\ \A x \in Range(ports) : IsMem(x) => MemPortOK(x, dec)
             /\ \A x, y \in Range(ports) : IsMem(x) /\ IsMem(y) => x = y
  <2>1. Range(ports) = {p}
    BY <1>4 DEF Range
  <2> QED
    BY <1>2, <1>4, <2>1
<1>5. ASSUME NEW p, NEW q, NEW j \in Nat, NEW k \in Nat, ports = <<p, q>>, j < k,
             Chosen(p, j, R, dec), Chosen(q, k, R, dec)
      PROVE  /\ \A x \in Range(ports) : IsMem(x) => MemPortOK(x, dec)
             /\ \A x, y \in Range(ports) : IsMem(x) /\ IsMem(y) => x = y
  <2>1. Range(ports) = {p, q}
    BY <1>5 DEF Range
  <2>2. ~(IsMem(p) /\ IsMem(q))
    BY <1>1, <1>5, ChosenOneMem
  <2>3. (IsMem(p) => MemPortOK(p, dec)) /\ (IsMem(q) => MemPortOK(q, dec))
    BY <1>2, <1>5
  <2> QED
    BY <2>1, <2>2, <2>3
<1> QED
  BY <1>1, <1>3, <1>4, <1>5, PortsAreChosen

\* What happens to the entries, as one formula.
EntriesStep(dec, done, ports) ==
  \A s \in Slots :
    /\ s \in Committing => Departs(s)
    /\ rob_used[s] /\ s \notin Committing => Stays(s, done, ports)
    /\ do_rob_write_first(dec) /\ s = wr_rob_index =>
         Enters(s, dec[1], prd_first(dec), ports)
    /\ do_rob_write_second(dec) /\ s = wr_rob_index_second =>
         Enters(s, dec[2], prd_second(dec), ports)
    /\ ~rob_used[s] /\ NotWritten(s, dec) => Idle(s, ports)

\* The requests on the ports, as one formula.
PortsOK(dec, ports) ==
  /\ AtMostTwo(Requests, ports)
  /\ \A p \in Range(ports) : PortOK(p, dec) /\ (IsMem(p) => MemPortOK(p, dec))
  /\ \A p, q \in Range(ports) : p.idx = q.idx \/ (IsMem(p) /\ IsMem(q)) => p = q

\* An edge without fault.
LEMMA AdvanceFacts ==
  ASSUME RcuControl, NEW R \in Responding, NEW dec \in DecodeWindows,
         NEW lsu_takes \in LsuHandshakes(R), RcuAdvance(R, dec, lsu_takes),
         NEW ports, ports = Ports(R, dec)
  PROVE  /\ PortsOK(dec, ports)
         /\ \E done \in Answers(R) : /\ Advance(dec, done)
                                     /\ DOMAIN done = {p.idx : p \in R}
                                     /\ DOMAIN done \subseteq {s \in Slots : Waiting(s)}
                                     /\ EntriesStep(dec, done, ports)
<1>1. RobControl /\ IssueControl /\ EntryFlags /\ rob_selected \in [Slots -> BOOLEAN]
  BY DEF RcuControl, IssueControl, IssueTypes
<1>2. PICK done \in Answers(R) : Advance(dec, done)
  BY DEF RcuAdvance
<1>3. AdvanceSelected(ports)
  BY Zenon DEF RcuAdvance, AdvanceIssue
<1>4. DOMAIN done \subseteq {s \in Slots : Waiting(s)} /\ DOMAIN done = {p.idx : p \in R}
  BY <1>1, AnswersWait
<1>5. EntriesStep(dec, done, ports)
  BY <1>1, <1>2, <1>3, <1>4, EntryStep DEF EntriesStep
<1>6. PortsOK(dec, ports)
  BY <1>1, PortsAre, MemPorts DEF PortsOK
<1> QED
  BY <1>2, <1>4, <1>5, <1>6

\* The entries that are in flight after the edge.
LEMMA InFlightAfter ==
  ASSUME RobControl, NEW dec \in DecodeWindows, NEW done, NEW ports,
         EntriesStep(dec, done, ports), NEW s \in InFlight'
  PROVE  /\ s \in Slots /\ s \notin Committing
         /\ \/ rob_used[s] /\ Stays(s, done, ports)
            \/ /\ s = wr_rob_index /\ do_rob_write_first(dec) /\ ~rob_used[s]
               /\ Enters(s, dec[1], prd_first(dec), ports)
            \/ /\ s = wr_rob_index_second /\ do_rob_write_second(dec) /\ ~rob_used[s]
               /\ Enters(s, dec[2], prd_second(dec), ports)
<1>1. s \in Slots /\ rob_used'[s]
  BY DEF InFlight
<1>2. s \notin Committing
  BY <1>1 DEF EntriesStep, Departs
<1>3. CASE rob_used[s]
  BY <1>1, <1>2, <1>3 DEF EntriesStep
<1>4. CASE ~rob_used[s]
  <2>1. ~NotWritten(s, dec)
    BY <1>1, <1>4 DEF EntriesStep, Idle
  <2> QED
    BY <1>1, <1>2, <1>4, <2>1 DEF EntriesStep, NotWritten
<1> QED
  BY <1>1, <1>2, <1>3, <1>4

\* The two allocated entries are younger than all others, the second the youngest.
LEMMA NewAges ==
  ASSUME RobControl, NEW dec
  PROVE  /\ do_rob_write_first(dec) => \A t \in InFlight : Pos(t) < Pos(wr_rob_index)
         /\ do_rob_write_second(dec) =>
              \A t \in InFlight \cup {wr_rob_index} : Pos(t) < Pos(wr_rob_index_second)
<1>1. ~rob_used[wr_rob_index_second] => ~rob_used[wr_rob_index]
  BY SecondNeedsFirst DEF RobControl
<1> QED
  BY <1>1, NewIsYoungest DEF do_rob_write_first, do_rob_write_second

\* Loads and stores are issued in program order over an edge.
LEMMA MemIssueAfter ==
  ASSUME RcuControl, MemoryIssuedInOrder, NEW dec \in DecodeWindows, NEW done, NEW ports,
         Advance(dec, done), EntriesStep(dec, done, ports), PortsOK(dec, ports),
         NEW s \in InFlight', NEW t \in InFlight',
         IsMem(rob_op'[s]), IsMem(rob_op'[t]), Pos(t)' < Pos(s)', rob_selected'[s]
  PROVE  rob_selected'[t]
<1>1. RobControl /\ RobTypeOK
  BY DEF RcuControl, RobControl
<1> DEFINE w == wr_rob_index
           v == wr_rob_index_second
<1>2. /\ s \in Slots \ Committing
      /\ \/ rob_used[s] /\ Stays(s, done, ports)
         \/ s = w /\ do_rob_write_first(dec) /\ ~rob_used[s]
            /\ Enters(s, dec[1], prd_first(dec), ports)
         \/ s = v /\ do_rob_write_second(dec) /\ ~rob_used[s]
            /\ Enters(s, dec[2], prd_second(dec), ports)
  BY <1>1, InFlightAfter
<1>3. /\ t \in Slots \ Committing
      /\ \/ rob_used[t] /\ Stays(t, done, ports)
         \/ t = w /\ do_rob_write_first(dec) /\ ~rob_used[t]
            /\ Enters(t, dec[1], prd_first(dec), ports)
         \/ t = v /\ do_rob_write_second(dec) /\ ~rob_used[t]
            /\ Enters(t, dec[2], prd_second(dec), ports)
  BY <1>1, InFlightAfter
<1>4. Pos(t) < Pos(s) /\ Pos(t) \in Int /\ Pos(s) \in Int
  <2>1. Pos(t) < Pos(s)
    BY <1>1, <1>2, <1>3, OrderKept
  <2> QED
    BY <1>1, <1>2, <1>3, <2>1, AgeType
<1>5. /\ do_rob_write_first(dec) => \A x \in InFlight : Pos(x) < Pos(w)
      /\ do_rob_write_second(dec) => \A x \in InFlight \cup {w} : Pos(x) < Pos(v)
      /\ \A x \in Slots : Pos(x) \in Int
  BY <1>1, NewAges, AgeType
<1>6. s \in IssuedSlots(ports) => \E p \in Range(ports) : p.idx = s /\ PortOK(p, dec)
        /\ (IsMem(p) => MemPortOK(p, dec))
  BY DEF IssuedSlots, PortsOK
<1>7. CASE rob_used[t] /\ Stays(t, done, ports)
  <2>1. IsMem(rob_op[t]) /\ (rob_selected[t] => rob_selected'[t])
    BY <1>7 DEF Stays
  <2>2. CASE rob_used[s] /\ Stays(s, done, ports) /\ rob_selected[s]
    <3>1. s \in InFlight /\ t \in InFlight /\ IsMem(rob_op[s])
      BY <1>2, <1>3, <1>7, <2>2 DEF InFlight, Stays
    <3> QED
      BY <1>4, <2>1, <2>2, <3>1 DEF MemoryIssuedInOrder
  <2>3. CASE s \in IssuedSlots(ports)
    <3>1. PICK p \in Range(ports) : p.idx = s /\ PortOK(p, dec)
            /\ (IsMem(p) => MemPortOK(p, dec))
      BY <1>6, <2>3
    <3>2. IsMem(p)
      <4>1. CASE OfEntry(p)
        <5>1. rob_used[s] /\ p.op = rob_op[s].op
          BY <3>1, <4>1 DEF OfEntry, Req
        <5>2. rob_op'[s] = rob_op[s]
          BY <1>2, <5>1 DEF Stays
        <5> QED
          BY <5>1, <5>2 DEF IsMem
      <4>2. CASE OfFirst(p, dec)
        <5>1. s = w /\ p.op = dec[1].op /\ ~rob_used[s] /\ s # v
          BY <1>1, <3>1, <4>2, Indices DEF OfFirst, NewReq, do_rob_write_first
        <5>2. rob_op'[s] = dec[1]
          BY <1>2, <5>1 DEF Enters
        <5> QED
          BY <5>1, <5>2 DEF IsMem
      <4>3. CASE OfSecond(p, dec)
        <5>1. s = v /\ p.op = dec[2].op /\ ~rob_used[s] /\ s # w
          BY <1>1, <3>1, <4>3, Indices DEF OfSecond, NewReq, do_rob_write_second
        <5>2. rob_op'[s] = dec[2]
          BY <1>2, <5>1 DEF Enters
        <5> QED
          BY <5>1, <5>2 DEF IsMem
      <4> QED
        BY <3>1, <4>1, <4>2, <4>3 DEF PortOK
    <3> QED
      BY <1>3, <1>4, <1>7, <2>1, <3>1, <3>2 DEF MemPortOK
  <2> QED
    BY <1>2, <2>2, <2>3 DEF Stays, Enters
<1>8. CASE ~rob_used[t]
  <2>1. ~rob_used[s]
    <3> SUFFICES ASSUME rob_used[s] PROVE FALSE
      OBVIOUS
    <3>1. s \in InFlight
      BY <1>2 DEF InFlight
    <3>2. Pos(s) < Pos(t)
      BY <1>3, <1>5, <1>8, <3>1
    <3> QED
      BY <1>4, <3>2
  <2>2. t = w /\ s = v /\ rob_op'[t] = dec[1] /\ s \in IssuedSlots(ports)
    <3>1. w \in Slots /\ v \in Slots /\ w # v
      BY <1>1, Indices
    <3>2. ~(t = v)
      BY <1>2, <1>3, <1>4, <1>5, <1>8, <2>1, <3>1
    <3> QED
      BY <1>2, <1>3, <1>4, <1>8, <2>1, <3>1, <3>2 DEF Enters
  <2>3. PICK p \in Range(ports) : p.idx = s /\ PortOK(p, dec)
          /\ (IsMem(p) => MemPortOK(p, dec))
    BY <1>6, <2>2
  <2>4. OfSecond(p, dec)
    BY <1>1, <2>1, <2>2, <2>3, Indices DEF PortOK, OfEntry, OfFirst, NewReq
  <2>5. IsMem(p)
    <3>1. p.op = dec[2].op
      BY <2>4 DEF OfSecond, NewReq
    <3>2. rob_op'[s] = dec[2]
      BY <1>1, <1>2, <2>1, <2>2, Indices DEF Enters
    <3> QED
      BY <3>1, <3>2 DEF IsMem
  <2> QED
    BY <2>2, <2>3, <2>4, <2>5 DEF MemPortOK
<1> QED
  BY <1>3, <1>7, <1>8

\* A request in the load/store queue is older than one on a port.
LEMMA QueuedIsOlder ==
  ASSUME RcuControl, MemoryIssuedInOrder, NEW dec \in DecodeWindows, NEW p, PortOK(p, dec),
         IsMem(p), NEW e \in Range(lsuq)
  PROVE  Pos(e.idx) < Pos(p.idx)
<1>1. RobControl /\ RobTypeOK /\ IssueTypes /\ OneRequest /\ Sorted
  BY DEF RcuControl, RobControl, IssueControl
<1>2. e \in Outside /\ e.op \in MemOps
  BY <1>1 DEF Outside, Sorted
<1>3. e.idx \in Slots /\ Waiting(e.idx) /\ e = Req(e.idx)
  BY <1>1, <1>2, OutsideTypes DEF OneRequest, Requests
<1>4. e.idx \in InFlight /\ rob_selected[e.idx] /\ IsMem(rob_op[e.idx])
  BY <1>2, <1>3 DEF InFlight, Waiting, Req, IsMem
<1>5. CASE OfEntry(p)
  <2>1. p.idx \in InFlight /\ ~rob_selected[p.idx] /\ IsMem(rob_op[p.idx])
    BY <1>5 DEF OfEntry, InFlight, Req, IsMem
  <2>2. ~(Pos(p.idx) < Pos(e.idx))
    BY <1>4, <2>1 DEF MemoryIssuedInOrder
  <2>3. Pos(p.idx) # Pos(e.idx) /\ Pos(p.idx) \in Int /\ Pos(e.idx) \in Int
    BY <1>1, <1>4, <2>1, AgeType DEF InFlight
  <2> QED
    BY <2>2, <2>3
<1>6. CASE OfFirst(p, dec)
  BY <1>1, <1>4, <1>6, NewAges DEF OfFirst, NewReq
<1>7. CASE OfSecond(p, dec)
  BY <1>1, <1>4, <1>7, NewAges DEF OfSecond, NewReq
<1> QED
  BY <1>5, <1>6, <1>7 DEF PortOK

\* Two requests of a queue after an edge, the first one ahead: both were in the queue
\* before, in this order, or the second one entered.
LEMMA AppendedOrder ==
  ASSUME NEW X, NEW q \in Seq(X), NEW nq \in Seq(X), NEW reqs \in Seq(X), NEW t \in 0..1,
         t <= Len(q), Len(reqs) \in 0..1, Appended(q, t, reqs, nq),
         NEW i \in DOMAIN nq, NEW j \in DOMAIN nq, i < j
  PROVE  \/ \E k, l \in DOMAIN q : k < l /\ nq[i] = q[k] /\ nq[j] = q[l]
         \/ nq[i] \in Range(q) /\ nq[j] \in Range(reqs)
<1>1. PICK n : n = Len(q) - t
  OBVIOUS
<1>2. PICK m : m = Len(reqs)
  OBVIOUS
<1>3. Len(q) \in Nat /\ n \in Nat /\ m \in 0..1 /\ Len(q) = n + t
  BY <1>1, <1>2, LenProperties
<1>4. DOMAIN q = 1..Len(q) /\ DOMAIN reqs = 1..m /\ DOMAIN nq = 1..Len(nq)
  BY <1>2, LenProperties
<1>5. /\ Len(nq) = n + m
      /\ \A k \in 1..n : nq[k] = q[k + t]
      /\ \A k \in 1..m : nq[n + k] = reqs[k]
  BY <1>1, <1>2 DEF Appended
<1>6. i \in 1..(n + m) /\ j \in 1..(n + m)
  BY <1>4, <1>5
<1>7. i \in 1..n /\ i + t \in DOMAIN q /\ nq[i] = q[i + t]
  <2>1. i \in 1..n /\ i + t \in 1..(n + t)
    BY <1>3, <1>6
  <2>2. nq[i] = q[i + t]
    BY <1>5, <2>1, Zenon
  <2> QED
    BY <1>3, <1>4, <2>1, <2>2, Zenon
<1>8. CASE j \in 1..n
  <2>1. j + t \in 1..(n + t) /\ i + t < j + t
    BY <1>3, <1>6, <1>8
  <2>2. nq[j] = q[j + t]
    BY <1>5, <1>8, Zenon
  <2>3. j + t \in DOMAIN q
    BY <1>3, <1>4, <2>1, Zenon
  <2> QED
    BY <1>7, <2>1, <2>2, <2>3, Zenon
<1>9. CASE ~(j \in 1..n)
  <2>1. m = 1 /\ j = n + 1
    BY <1>3, <1>6, <1>9
  <2>2. nq[j] = reqs[1] /\ 1 \in DOMAIN reqs
    BY <1>4, <1>5, <2>1
  <2> QED
    BY <1>7, <2>2 DEF Range
<1> QED
  BY <1>8, <1>9

\* The two parts of MemoryIssuedInOrder.
EntriesInOrder ==
  \A s, t \in InFlight :
    /\ IsMem(rob_op[s]) /\ IsMem(rob_op[t])
    /\ Pos(t) < Pos(s) /\ rob_selected[s]
    => rob_selected[t]
QueueInOrder == \A i, j \in DOMAIN lsuq : i < j => Pos(lsuq[i].idx) < Pos(lsuq[j].idx)

\* At most one request enters the load/store queue at an edge.
LEMMA LsuqAfter ==
  ASSUME RcuControl, NEW R \in Responding, NEW dec \in DecodeWindows, NEW ports,
         PortsOK(dec, ports), NEW lsu_takes \in LsuHandshakes(R),
         AdvanceLsu(R, ports, lsu_takes), NEW reqs, reqs = FromPorts(ports, MemOps),
         NEW t, t = IF lsu_takes THEN 1 ELSE 0
  PROVE  /\ reqs \in Seq(Requests) /\ Len(reqs) \in 0..1
         /\ Range(reqs) = Asked(ports, MemOps)
         /\ t \in 0..1 /\ t <= Len(lsuq)
         /\ lsuq' \in Seq(Requests) /\ Appended(lsuq, t, reqs, lsuq')
<1>1. /\ RobControl /\ IssueControl /\ lsuq \in Seq(Requests) /\ Len(lsuq) \in Nat
      /\ LSU_QUEUE_DEPTH \in Nat
  BY RcuAssumption, LenProperties DEF RcuControl, IssueControl, IssueTypes
<1>2. AtMostTwo(Requests, ports) /\ \A p \in Range(ports) : PortOK(p, dec)
  BY DEF PortsOK
<1>3. /\ reqs \in Seq(Requests) /\ Len(reqs) \in 0..2 /\ Distinct(reqs)
      /\ Range(reqs) = Asked(ports, MemOps)
      /\ Len(reqs) >= 1 => \E p \in Range(ports) : p.op \in MemOps /\ HasRoom(p)
  BY <1>1, <1>2, EnteringQueue
<1>4. Len(reqs) >= 1 => Len(lsuq) < LSU_QUEUE_DEPTH - 1
  BY <1>1, <1>3 DEF HasRoom, IsMem, almost_full
<1>5. lsu_takes \in BOOLEAN /\ (lsu_takes => lsuq # << >>)
  BY DEF LsuHandshakes
<1>6. lsuq' = NextQueue(lsuq, LSU_QUEUE_DEPTH, reqs, lsu_takes)
  BY DEF AdvanceLsu
<1>7. DOMAIN reqs = 1..Len(reqs) /\ \A k \in 1..Len(reqs) : reqs[k] \in Range(reqs)
  BY <1>3, LenProperties DEF Range
<1>8. Len(reqs) \in 0..1
  <2>1. \A x, y \in Range(reqs) : x = y
    BY <1>3 DEF Asked, PortsOK, IsMem
  <2>2. ASSUME Len(reqs) = 2 PROVE FALSE
    <3>1. 1 \in 1..Len(reqs) /\ 2 \in 1..Len(reqs)
      BY <2>2
    <3>2. reqs[1] = reqs[2]
      BY <1>7, <2>1, <3>1
    <3> QED
      BY <1>3, <3>1, <3>2 DEF Distinct
  <2> QED
    BY <1>3, <2>2
<1>9. lsuq' \in Seq(Requests) /\ Appended(lsuq, IF lsu_takes THEN 1 ELSE 0, reqs, lsuq')
  BY ONLY <1>1, <1>3, <1>4, <1>5, <1>6, NextQueueIs
<1>10. t \in 0..1 /\ t <= Len(lsuq)
  <2>1. lsu_takes => Len(lsuq) >= 1
    BY <1>1, <1>5, EmptySeq
  <2> QED
    BY <1>1, <1>5, <2>1
<1> QED
  BY <1>3, <1>8, <1>9, <1>10

\* The load/store queue stays in program order over an edge.
LEMMA MemQueueAfter ==
  ASSUME RcuControl, MemoryIssuedInOrder, NEW R \in Responding, NEW dec \in DecodeWindows,
         NEW done, NEW ports, Advance(dec, done), EntriesStep(dec, done, ports),
         PortsOK(dec, ports), NEW lsu_takes \in LsuHandshakes(R),
         AdvanceLsu(R, ports, lsu_takes), RcuControl'
  PROVE  QueueInOrder'
<1>1. RobControl /\ lsuq \in Seq(Requests) /\ DOMAIN lsuq = 1..Len(lsuq)
  BY LenProperties DEF RcuControl, IssueControl, IssueTypes
<1>2. PICK reqs : reqs = FromPorts(ports, MemOps)
  OBVIOUS
<1>3. PICK t : t = IF lsu_takes THEN 1 ELSE 0
  OBVIOUS
<1>4. /\ reqs \in Seq(Requests) /\ Len(reqs) \in 0..1
      /\ Range(reqs) = Asked(ports, MemOps)
      /\ t \in 0..1 /\ t <= Len(lsuq)
      /\ lsuq' \in Seq(Requests) /\ Appended(lsuq, t, reqs, lsuq')
  BY <1>2, <1>3, LsuqAfter
<1>5. ASSUME NEW p \in Range(lsuq') PROVE p.idx \in Slots \ Committing
  <2>1. p \in Outside' /\ p \in Requests
    BY <1>4, LenProperties DEF Outside, Range
  <2>2. p.idx \in Slots /\ Waiting(p.idx)'
    BY <2>1 DEF RcuControl, IssueControl, OneRequest, Requests
  <2> QED
    BY <2>2 DEF EntriesStep, Departs, Waiting
<1>6. ASSUME NEW i \in DOMAIN lsuq', NEW j \in DOMAIN lsuq', i < j,
             NEW a, NEW b, a = lsuq'[i].idx, b = lsuq'[j].idx
      PROVE  Pos(a)' < Pos(b)'
  <2>1. a \in Slots \ Committing /\ b \in Slots \ Committing
    BY <1>5, <1>6 DEF Range
  <2>2. \/ \E k, l \in DOMAIN lsuq : k < l /\ lsuq'[i] = lsuq[k] /\ lsuq'[j] = lsuq[l]
        \/ lsuq'[i] \in Range(lsuq) /\ lsuq'[j] \in Range(reqs)
    <3>1. PICK q, nq : q = lsuq /\ nq = lsuq'
      OBVIOUS
    <3>2. /\ q \in Seq(Requests) /\ nq \in Seq(Requests) /\ t <= Len(q)
          /\ Appended(q, t, reqs, nq) /\ i \in DOMAIN nq /\ j \in DOMAIN nq /\ i < j
      BY <1>1, <1>4, <1>6, <3>1, Zenon
    <3>3. \/ \E k, l \in DOMAIN q : k < l /\ nq[i] = q[k] /\ nq[j] = q[l]
          \/ nq[i] \in Range(q) /\ nq[j] \in Range(reqs)
      BY ONLY <1>4, <3>2, AppendedOrder
    <3> QED
      BY <3>1, <3>3, Zenon
  <2>3. Pos(a) < Pos(b)
    <3>1. CASE \E k, l \in DOMAIN lsuq : k < l /\ lsuq'[i] = lsuq[k] /\ lsuq'[j] = lsuq[l]
      BY <1>6, <3>1 DEF MemoryIssuedInOrder
    <3>2. CASE lsuq'[i] \in Range(lsuq) /\ lsuq'[j] \in Range(reqs)
      <4>1. PICK e, p : e = lsuq'[i] /\ p = lsuq'[j]
        OBVIOUS
      <4>2. e \in Range(lsuq) /\ PortOK(p, dec) /\ IsMem(p)
        BY <1>4, <3>2, <4>1 DEF Asked, IsMem, PortsOK
      <4>3. Pos(e.idx) < Pos(p.idx)
        BY <4>2, QueuedIsOlder
      <4> QED
        BY <1>6, <4>1, <4>3
    <3> QED
      BY <2>2, <3>1, <3>2
  <2> QED
    BY <1>1, <2>1, <2>3, OrderKept
<1>7. ASSUME NEW i \in DOMAIN lsuq', NEW j \in DOMAIN lsuq', i < j
      PROVE  (Pos(lsuq[i].idx) < Pos(lsuq[j].idx))'
  <2>1. PICK a, b : a = lsuq'[i].idx /\ b = lsuq'[j].idx
    OBVIOUS
  <2>2. Pos(a)' < Pos(b)'
    BY <1>6, <1>7, <2>1
  <2> QED
    BY <2>1, <2>2 DEF Pos
<1> QED
  BY <1>7 DEF QueueInOrder

\* Loads and stores always leave the reorder buffer in program order, and wait for the
\* load/store unit in that order, although two instructions are issued per cycle and one
\* may be issued in the cycle in which it is allocated.
THEOREM MemoryStaysInOrder == RcuSpec => []MemoryIssuedInOrder
<1>1. RcuInit => MemoryIssuedInOrder
  <2> SUFFICES ASSUME RcuInit PROVE MemoryIssuedInOrder
    OBVIOUS
  <2>1. InFlight = {} /\ DOMAIN lsuq = {}
    BY DEF RcuInit, RobInit, InFlight
  <2> QED
    BY <2>1 DEF MemoryIssuedInOrder
<1>2. ASSUME RcuControl, MemoryIssuedInOrder, [RcuNext]_rcuVars PROVE MemoryIssuedInOrder'
  <2>1. CASE RcuFlush
    <3>1. InFlight' = {} /\ DOMAIN lsuq' = {}
      BY <2>1 DEF RcuFlush, Flush, FlushIssue, InFlight
    <3> QED
      BY <3>1 DEF MemoryIssuedInOrder
  <2>2. ASSUME NEW R \in Responding, NEW dec \in DecodeWindows,
               NEW lsu_takes \in LsuHandshakes(R), RcuAdvance(R, dec, lsu_takes)
        PROVE  MemoryIssuedInOrder'
    <3> DEFINE ports == Ports(R, dec)
    <3>1. RcuControl'
      BY <1>2, RcuControlInductive
    <3>2. PortsOK(dec, ports)
      BY <1>2, <2>2, AdvanceFacts
    <3>3. PICK done \in Answers(R) : Advance(dec, done) /\ EntriesStep(dec, done, ports)
      BY <1>2, <2>2, AdvanceFacts
    <3>4. AdvanceLsu(R, ports, lsu_takes)
      BY <2>2, Zenon DEF RcuAdvance, AdvanceIssue
    <3> HIDE DEF ports
    <3>5. QueueInOrder'
      BY <1>2, <2>2, <3>1, <3>2, <3>3, <3>4, MemQueueAfter
    <3>6. \A s, t \in InFlight' :
            /\ IsMem(rob_op'[s]) /\ IsMem(rob_op'[t])
            /\ Pos(t)' < Pos(s)' /\ rob_selected'[s]
            => rob_selected'[t]
      BY <1>2, <2>2, <3>2, <3>3, MemIssueAfter
    <3>7. EntriesInOrder'
      BY <3>6 DEF EntriesInOrder, IsMem
    <3> QED
      BY <3>5, <3>7 DEF MemoryIssuedInOrder, EntriesInOrder, QueueInOrder
  <2>3. CASE UNCHANGED rcuVars
    BY <1>2, <2>3 DEF rcuVars, robVars, issueVars, MemoryIssuedInOrder, InFlight, Pos, IsMem
  <2> QED
    BY <1>2, <2>1, <2>2, <2>3 DEF RcuNext
<1> QED
  BY <1>1, <1>2, RcuControlInductive, PTL DEF RcuSpec

-----------------------------------------------------------------------------
(***************************************************************************)
(* Operands: every entry names the registers of its true producers, and is    *)
(* issued only when these have been written, for every size of the reorder    *)
(* buffer, the queues and the load/store unit and every instruction set.      *)
(*                                                                         *)
(* The first property is kept like the renaming itself: what the entries      *)
(* older than s leave behind (Leaves) does not change when the oldest of them *)
(* move into the committed table.  The second needs that a register has one   *)
(* owner (OneOwner): a register that is free, and may be allocated, is never   *)
(* a source of an entry in flight and never the destination of a request, so  *)
(* clearing its bit in the available table takes nothing from an entry that    *)
(* was issued, and a write-back sets the bit of the right instruction.        *)
(***************************************************************************)

-----------------------------------------------------------------------------
(* The sources name the true producers.                                     *)

\* What the older entries leave for the two sources.
LeftFor(s, r, p) ==
  Leaves(Age, Before(Age, InFlight, s), rob_rd, rob_prd, rename_reg_backup, r, p)
SourcesLeft ==
  \A s \in InFlight : /\ LeftFor(s, rob_op[s].rs1, rob_prs1[s])
                      /\ LeftFor(s, rob_op[s].rs2, rob_prs2[s])

\* The entries in flight once those of this edge are allocated.
Filled(dec) ==
  InFlight \cup {s \in Slots : ~NotWritten(s, dec)}

\* The committed table after an edge: that of the entries that commit.
LEMMA BackupAfter ==
  ASSUME RenameInv, NEW dec, NEW done, Advance(dec, done), NEW r \in ARegs
  PROVE  rename_reg_backup'[r] =
           IF do_rob_commit_second /\ Writes(rob_rd', rob_prd', cmt_rob_index_second, r)
           THEN rob_prd'[cmt_rob_index_second]
           ELSE IF do_rob_commit_first /\ Writes(rob_rd', rob_prd', cmt_rob_index, r)
           THEN rob_prd'[cmt_rob_index]
           ELSE rename_reg_backup[r]
<1> DEFINE c == cmt_rob_index
           d == cmt_rob_index_second
<1>1. RobControl /\ RobTypeOK
  BY DEF RenameInv, RobControl
<1>2. /\ do_rob_commit_first => c \in InFlight
      /\ do_rob_commit_second => d \in InFlight /\ do_rob_commit_first
  BY <1>1, CommitsAreOldest
<1>3. \A s \in InFlight : /\ rob_rd'[s] = rob_rd[s] /\ rob_prd'[s] = rob_prd[s]
                          /\ rob_prd[s] # 0 <=> rob_rd[s] # 0
  BY <1>1, EntriesKept DEF RenameInv, RegistersOwned, Owned, Entries
<1>4. rename_reg_backup[0] = 0
  BY DEF RenameInv, RegistersOwned, Owned, Entries
<1>5. rename_reg_backup'[r] =
        IF do_rob_commit_second /\ r = rob_rd[d] THEN rob_prd[d]
        ELSE IF do_rob_commit_first /\ r = rob_rd[c] THEN rob_prd[c]
        ELSE rename_reg_backup[r]
  BY DEF Advance, AdvanceBackup
<1> QED
  BY <1>2, <1>3, <1>4, <1>5 DEF Writes

\* What a set of entries leaves behind does not change when the oldest commit.
LEMMA LeavesCommit ==
  ASSUME RenameInv, NEW dec, NEW done, Advance(dec, done), RobTypeOK',
         NEW X \in SUBSET Slots, Committing \subseteq X, NEW r \in ARegs, NEW p,
         Leaves(Age, X, rob_rd', rob_prd', rename_reg_backup, r, p)
  PROVE  Leaves(Age', X \ Committing, rob_rd', rob_prd', rename_reg_backup', r, p)
<1>1. PICK c, d, D, P, B, B2, pos, pos2 :
        /\ c = cmt_rob_index /\ d = cmt_rob_index_second /\ D = rob_rd' /\ P = rob_prd'
        /\ B = rename_reg_backup /\ B2 = rename_reg_backup' /\ pos = Age /\ pos2 = Age'
  OBVIOUS
<1>2. RobControl /\ RobTypeOK
  BY DEF RenameInv, RobControl
<1>3. /\ pos \in [Slots -> Int] /\ pos2 \in [Slots -> Int]
      /\ \A s \in Slots : pos[s] = Pos(s) /\ pos2[s] = Pos(s)'
  <2>1. pos \in [Slots -> Int] /\ \A s \in Slots : pos[s] = Pos(s)
    BY <1>1, <1>2, AgeType
  <2>2. Age' \in [Slots -> Int] /\ \A s \in Slots : Age'[s] = Pos(s)'
    BY Sizes DEF Age, Pos, RobTypeOK, Slots
  <2> QED
    BY <1>1, <2>1, <2>2
<1>4. /\ \A s \in Slots \ {c} : pos[c] < pos[s]
      /\ \A s \in Slots \ {c, d} : pos[d] < pos[s]
  <2>1. c \in Slots /\ d \in Slots
    BY <1>1, <1>2, Sizes DEF RobTypeOK, cmt_rob_index_second, CntNext, Slots
  <2>2. /\ \A s \in Slots \ {c} : Pos(c) < Pos(s)
        /\ \A s \in Slots \ {c, d} : Pos(d) < Pos(s)
    BY <1>1, <1>2, HeadIsOldest
  <2> QED
    BY <1>3, <2>1, <2>2
<1>5. B2[r] = IF do_rob_commit_second /\ Writes(D, P, d, r) THEN P[d]
              ELSE IF do_rob_commit_first /\ Writes(D, P, c, r) THEN P[c] ELSE B[r]
  BY <1>1, BackupAfter
<1>6. Leaves(pos, X, D, P, B, r, p)
  BY <1>1
<1>7. Leaves(pos, X \ Committing, D, P, B2, r, p)
  <2>1. \A s \in X : pos[s] \in Int
    BY <1>3
  <2>2. ASSUME do_rob_commit_first
        PROVE  c \in X /\ \A s \in X \ {c} : pos[c] < pos[s]
    BY <1>1, <1>2, <1>4, <2>2, CommitsAreOldest
  <2>3. ASSUME do_rob_commit_second
        PROVE  /\ d \in X \ {c} /\ do_rob_commit_first
               /\ \A s \in (X \ {c}) \ {d} : pos[d] < pos[s]
    BY <1>1, <1>2, <1>4, <2>3, CommitsAreOldest
  <2>4. CASE ~do_rob_commit_first
    <3>1. X \ Committing = X /\ B2[r] = B[r]
      BY <1>2, <1>5, <2>3, <2>4, CommitsAreOldest
    <3>2. Leaves(pos, X, D, P, B2, r, p)
      BY <1>6, <3>1 DEF Leaves
    <3> QED
      BY <3>1, <3>2
  <2>5. CASE do_rob_commit_first /\ ~do_rob_commit_second
    <3>1. X \ Committing = X \ {c}
      BY <1>1, <1>2, <2>5, CommitsAreOldest
    <3>2. B2[r] = (IF Writes(D, P, c, r) THEN P[c] ELSE B[r])
      BY <1>5, <2>5
    <3>3. c \in X /\ \A s \in X \ {c} : pos[c] < pos[s]
      BY <2>2, <2>5
    <3>4. Leaves(pos, X \ {c}, D, P, B2, r, p)
      BY ONLY <1>6, <2>1, <3>2, <3>3, LeavesPop
    <3> QED
      BY <3>1, <3>4
  <2>6. CASE do_rob_commit_second
    <3>1. X \ Committing = (X \ {c}) \ {d}
      BY <1>1, <1>2, <2>6, CommitsAreOldest
    <3>2. PICK B1 : B1 = [B EXCEPT ![r] = IF Writes(D, P, c, r) THEN P[c] ELSE B[r]]
      OBVIOUS
    <3>3. /\ B1[r] = (IF Writes(D, P, c, r) THEN P[c] ELSE B[r])
          /\ B2[r] = (IF Writes(D, P, d, r) THEN P[d] ELSE B1[r])
      <4>1. r \in DOMAIN B
        BY <1>1, <1>2 DEF RobTypeOK
      <4>2. B1[r] = (IF Writes(D, P, c, r) THEN P[c] ELSE B[r])
        BY <3>2, <4>1
      <4> QED
        BY <1>5, <2>3, <2>6, <4>2
    <3>4. c \in X /\ \A s \in X \ {c} : pos[c] < pos[s]
      BY <2>2, <2>3, <2>6
    <3>5. Leaves(pos, X \ {c}, D, P, B1, r, p)
      BY ONLY <1>6, <2>1, <3>3, <3>4, LeavesPop
    <3>6. d \in X \ {c} /\ \A s \in (X \ {c}) \ {d} : pos[d] < pos[s]
      BY <2>3, <2>6
    <3>7. Leaves(pos, (X \ {c}) \ {d}, D, P, B2, r, p)
      <4>1. PICK Y : Y = X \ {c}
        OBVIOUS
      <4>2. /\ \A s \in Y : pos[s] \in Int
            /\ d \in Y /\ \A s \in Y \ {d} : pos[d] < pos[s]
            /\ Leaves(pos, Y, D, P, B1, r, p)
        BY <2>1, <3>5, <3>6, <4>1
      <4>3. Leaves(pos, Y \ {d}, D, P, B2, r, p)
        BY ONLY <3>3, <4>2, LeavesPop
      <4> QED
        BY <4>1, <4>3
    <3> QED
      BY <3>1, <3>7
  <2> QED
    BY <2>4, <2>5, <2>6
<1>8. \A s, t \in X \ Committing : pos[s] < pos[t] <=> pos2[s] < pos2[t]
  BY <1>2, <1>3, OrderKept
<1>9. Leaves(pos2, X \ Committing, D, P, B2, r, p)
  <2>1. PICK Y : Y = X \ Committing
    OBVIOUS
  <2>2. \A s \in Y : pos[s] \in Int /\ pos2[s] \in Int
    BY <1>3, <2>1
  <2>3. \A s, t \in Y : pos[s] < pos[t] <=> pos2[s] < pos2[t]
    BY <1>8, <2>1
  <2>4. Leaves(pos, Y, D, P, B2, r, p)
    BY <1>7, <2>1
  <2>5. Leaves(pos2, Y, D, P, B2, r, p)
    BY ONLY <2>2, <2>3, <2>4, LeavesReorder
  <2> QED
    BY <2>1, <2>5
<1> QED
  BY <1>1, <1>9

\* The entries older than s after an edge: those older than it before, without those
\* that commit, which are all older than s.
LEMMA BeforeAfter ==
  ASSUME RobControl, RobTypeOK', NEW dec, NEW done, Advance(dec, done),
         NEW s \in Filled(dec) \ Committing
  PROVE  /\ Committing \subseteq Before(Age, Filled(dec), s)
         /\ Before(Age', InFlight', s) = Before(Age, Filled(dec), s) \ Committing
         /\ Before(Age, Filled(dec), s) \in SUBSET Slots
<1>1. PICK T : T = Filled(dec)
  OBVIOUS
<1>2. RobTypeOK /\ T \in SUBSET Slots /\ InFlight \subseteq T
  BY <1>1 DEF RobControl, Filled, InFlight
<1>3. InFlight' = T \ Committing
  BY <1>1 DEF Filled, InFlight, NotWritten, Advance, AdvanceRob, AdvanceUsed, Allocate
<1>4. \A t \in Slots : Age[t] = Pos(t) /\ Age'[t] = Pos(t)'
  BY DEF Age
<1>5. Committing \subseteq T
  BY <1>2, CommitsAreOldest
<1>6. ASSUME NEW t \in Committing PROVE Pos(t) < Pos(s)
  <2>1. /\ \A x \in Slots \ {cmt_rob_index} : Pos(cmt_rob_index) < Pos(x)
        /\ \A x \in Slots \ {cmt_rob_index, cmt_rob_index_second} :
             Pos(cmt_rob_index_second) < Pos(x)
    BY <1>2, HeadIsOldest
  <2>2. s \in Slots /\ s \notin Committing
    BY <1>1, <1>2
  <2> QED
    BY <1>6, <2>1, <2>2, CommitsAreOldest
<1>7. \A t \in T \ Committing : Pos(t)' < Pos(s)' <=> Pos(t) < Pos(s)
  BY <1>1, <1>2, OrderKept
<1>8. Committing \subseteq Before(Age, T, s)
  BY <1>1, <1>2, <1>4, <1>5, <1>6 DEF Before
<1>9. Before(Age', InFlight', s) = Before(Age, T, s) \ Committing
  BY <1>1, <1>2, <1>3, <1>4, <1>7 DEF Before
<1> QED
  BY <1>1, <1>2, <1>8, <1>9 DEF Before

\* What is left for an entry stays what is left for it.
LEMMA LeftAfter ==
  ASSUME RenameInv, NEW dec, NEW done, Advance(dec, done), RobTypeOK',
         NEW s \in InFlight', NEW r \in ARegs, NEW p,
         Leaves(Age, Before(Age, Filled(dec), s), rob_rd', rob_prd', rename_reg_backup, r, p)
  PROVE  LeftFor(s, r, p)'
<1>1. RobControl
  BY DEF RenameInv
<1>2. s \in Filled(dec) \ Committing
  BY DEF Filled, InFlight, NotWritten, Advance, AdvanceRob, AdvanceUsed, Allocate
<1>3. PICK X : X = Before(Age, Filled(dec), s)
  OBVIOUS
<1>4. /\ Committing \subseteq X /\ X \in SUBSET Slots
      /\ Before(Age', InFlight', s) = X \ Committing
  BY <1>1, <1>2, <1>3, BeforeAfter
<1>5. Leaves(Age', X \ Committing, rob_rd', rob_prd', rename_reg_backup', r, p)
  BY <1>3, <1>4, LeavesCommit
<1> QED
  BY <1>4, <1>5 DEF LeftFor

\* The entries older than an entry that stays, and than the two that enter.
LEMMA OlderEntries ==
  ASSUME RobControl, NEW dec
  PROVE  /\ \A s \in InFlight : Before(Age, Filled(dec), s) = Before(Age, InFlight, s)
         /\ do_rob_write_first(dec) => Before(Age, Filled(dec), wr_rob_index) = InFlight
         /\ do_rob_write_second(dec) =>
              Before(Age, Filled(dec), wr_rob_index_second) = InFlight \cup {wr_rob_index}
<1>1. PICK w, v : w = wr_rob_index /\ v = wr_rob_index_second
  OBVIOUS
<1>2. RobTypeOK /\ w \in Slots /\ v \in Slots /\ w # v
  BY <1>1, Indices DEF RobControl
<1>3. do_rob_write_second(dec) => do_rob_write_first(dec)
  BY SecondNeedsFirst DEF RobControl, do_rob_write_first, do_rob_write_second
<1>4. /\ do_rob_write_first(dec) => w \notin InFlight /\ \A t \in InFlight : Pos(t) < Pos(w)
      /\ do_rob_write_second(dec) => v \notin InFlight
                                  /\ \A t \in InFlight \cup {w} : Pos(t) < Pos(v)
  BY <1>1, NewAges DEF InFlight, do_rob_write_first, do_rob_write_second
<1>5. \A t \in Slots : Age[t] = Pos(t) /\ Pos(t) \in Int
  BY <1>2, AgeType
<1>6. Filled(dec) = InFlight \cup (IF do_rob_write_first(dec) THEN {w} ELSE {})
                             \cup (IF do_rob_write_second(dec) THEN {v} ELSE {})
  BY <1>1, <1>2 DEF Filled, NotWritten
<1>7. InFlight \in SUBSET Slots
  BY DEF InFlight
<1>8. ASSUME NEW s \in InFlight PROVE Before(Age, Filled(dec), s) = Before(Age, InFlight, s)
  <2>1. \A t \in Filled(dec) \ InFlight : ~(Age[t] < Age[s])
    BY <1>2, <1>4, <1>5, <1>6, <1>7
  <2> QED
    BY <1>6, <2>1 DEF Before
<1>9. ASSUME do_rob_write_first(dec) PROVE Before(Age, Filled(dec), w) = InFlight
  <2>1. \A t \in InFlight : Age[t] < Age[w]
    BY <1>2, <1>4, <1>5, <1>7, <1>9
  <2>2. \A t \in Filled(dec) \ InFlight : ~(Age[t] < Age[w])
    BY <1>2, <1>4, <1>5, <1>6, <1>7
  <2> QED
    BY <1>6, <2>1, <2>2 DEF Before
<1>10. ASSUME do_rob_write_second(dec)
       PROVE  Before(Age, Filled(dec), v) = InFlight \cup {w}
  <2>1. \A t \in InFlight \cup {w} : Age[t] < Age[v]
    BY <1>2, <1>4, <1>5, <1>7, <1>10
  <2>2. Filled(dec) = InFlight \cup {w} \cup {v} /\ ~(Age[v] < Age[v])
    BY <1>2, <1>3, <1>5, <1>6, <1>10
  <2> QED
    BY <2>1, <2>2 DEF Before
<1> QED
  BY <1>1, <1>8, <1>9, <1>10

\* What the second instruction of a window reads is what the entries before it leave,
\* the first instruction of the window included.
LEMMA LeftForSecond ==
  ASSUME RenameInv, NEW dec \in DecodeWindows, NEW done, Advance(dec, done),
         do_rob_write_second(dec), NEW r \in ARegs
  PROVE  Leaves(Age, InFlight \cup {wr_rob_index}, rob_rd', rob_prd', rename_reg_backup, r,
                prs_second(dec, r))
<1>1. PICK w, D, P, B, p, q, pos :
        /\ w = wr_rob_index /\ D = rob_rd' /\ P = rob_prd' /\ B = rename_reg_backup
        /\ p = rename_reg[r] /\ q = prs_second(dec, r) /\ pos = Age
  OBVIOUS
<1>2. RobControl /\ RobTypeOK /\ w \in Slots /\ w # wr_rob_index_second
  BY <1>1, Indices DEF RenameInv, RobControl
<1>3. do_rob_write_first(dec) /\ dec[1] \in Insns /\ dec[1].rd \in ARegs
  <2>1. do_rob_write_first(dec)
    BY <1>2, SecondNeedsFirst DEF RobControl, do_rob_write_first, do_rob_write_second
  <2> QED
    BY <2>1, DecWindow, InsnAssumption DEF do_rob_write_first
<1>4. D[w] = RdOf(dec[1]) /\ P[w] = prd_first(dec)
  BY <1>1, <1>2, <1>3 DEF Advance, AdvanceRob, AdvanceEntry, Allocate
<1>5. P[w] # 0 <=> D[w] # 0
  <2>1. w \in Filled(dec)
    BY <1>1, <1>2, <1>3 DEF Filled, NotWritten
  <2>2. Filled(dec) = {s \in Slots : \/ rob_used[s]
                                     \/ do_rob_write_first(dec) /\ s = wr_rob_index
                                     \/ do_rob_write_second(dec) /\ s = wr_rob_index_second}
    BY DEF Filled, NotWritten, InFlight
  <2>3. Owned(Age, Filled(dec), rob_rd', rob_prd', rob_lprd', rename_reg_backup, rename_reg',
              FreeWindow, SlowNum)
    BY <2>2, AdvancePushes
  <2> QED
    BY <1>1, <2>1, <2>3 DEF Owned, Entries
<1>6. Leaves(pos, InFlight, D, P, B, r, p)
  <2>1. Leaves(Age, InFlight, rob_rd, rob_prd, rename_reg_backup, r, rename_reg[r])
    BY DEF RenameInv, RegistersOwned, Owned, Renamed
  <2>2. \A s \in InFlight : rob_rd'[s] = rob_rd[s] /\ rob_prd'[s] = rob_prd[s]
    BY <1>2, EntriesKept
  <2>3. Leaves(Age, InFlight, rob_rd', rob_prd', rename_reg_backup, r, rename_reg[r])
    BY ONLY <2>1, <2>2, LeavesAgree
  <2> QED
    BY <1>1, <2>3
<1>7. /\ \A s \in InFlight \cup {w} : pos[s] \in Int
      /\ \A s \in InFlight : pos[s] < pos[w]
  BY <1>1, <1>2, <1>3, NewAges, AgeType DEF InFlight
<1>8. q = IF Writes(D, P, w, r) THEN P[w] ELSE p
  <2>1. r = 0 => p = 0
    BY <1>1 DEF RenameInv, RegistersOwned, Owned, Entries
  <2> QED
    BY <1>1, <1>3, <1>4, <1>5, <2>1
    DEF prs_second, SecondMapping, Writes, RdOf, prd_first, free_list_rd_first_en, Renames
<1>9. /\ Writes(D, P, w, r) => Leaves(pos, InFlight \cup {w}, D, P, B, r, P[w])
      /\ ~Writes(D, P, w, r) => Leaves(pos, InFlight \cup {w}, D, P, B, r, p)
  BY ONLY <1>6, <1>7, LeavesPush
<1> QED
  BY <1>1, <1>8, <1>9

\* One source of an entry that is in flight after an edge: the register it reads (K) and
\* the one renaming found (Q).
LEMMA SourceAfter ==
  ASSUME RenameInv, NEW dec \in DecodeWindows, NEW done, Advance(dec, done), RobTypeOK',
         NEW s \in InFlight', NEW k \in ARegs, NEW q,
         s \in InFlight => LeftFor(s, k, q),
         do_rob_write_first(dec) /\ s = wr_rob_index => q = prs_first(dec, k),
         do_rob_write_second(dec) /\ s = wr_rob_index_second => q = prs_second(dec, k)
  PROVE  LeftFor(s, k, q)'
<1>1. RobControl /\ RobTypeOK
  BY DEF RenameInv, RobControl
<1>2. /\ \A x \in InFlight : Before(Age, Filled(dec), x) = Before(Age, InFlight, x)
      /\ do_rob_write_first(dec) => Before(Age, Filled(dec), wr_rob_index) = InFlight
      /\ do_rob_write_second(dec) =>
           Before(Age, Filled(dec), wr_rob_index_second) = InFlight \cup {wr_rob_index}
  BY <1>1, OlderEntries
<1>3. \A x \in InFlight : rob_rd'[x] = rob_rd[x] /\ rob_prd'[x] = rob_prd[x]
  BY <1>1, EntriesKept
<1>4. \/ s \in InFlight
      \/ do_rob_write_first(dec) /\ s = wr_rob_index
      \/ do_rob_write_second(dec) /\ s = wr_rob_index_second
  BY DEF InFlight, Advance, AdvanceRob, AdvanceUsed, Allocate
<1>5. PICK X : X = Before(Age, Filled(dec), s)
  OBVIOUS
<1>6. Leaves(Age, X, rob_rd', rob_prd', rename_reg_backup, k, q)
  <2>1. CASE s \in InFlight
    <3>1. X = Before(Age, InFlight, s) /\ X \subseteq InFlight
      BY <1>2, <1>5, <2>1 DEF Before
    <3>2. Leaves(Age, X, rob_rd, rob_prd, rename_reg_backup, k, q)
      BY <2>1, <3>1 DEF LeftFor
    <3>3. \A x \in X : rob_rd'[x] = rob_rd[x] /\ rob_prd'[x] = rob_prd[x]
      BY <1>3, <3>1
    <3> QED
      BY ONLY <3>2, <3>3, LeavesAgree
  <2>2. CASE do_rob_write_first(dec) /\ s = wr_rob_index
    <3>1. X = InFlight /\ q = rename_reg[k]
      BY <1>2, <1>5, <2>2 DEF prs_first
    <3>2. Leaves(Age, InFlight, rob_rd, rob_prd, rename_reg_backup, k, rename_reg[k])
      BY DEF RenameInv, RegistersOwned, Owned, Renamed
    <3>3. Leaves(Age, InFlight, rob_rd', rob_prd', rename_reg_backup, k, rename_reg[k])
      BY ONLY <1>3, <3>2, LeavesAgree
    <3> QED
      BY <3>1, <3>3
  <2>3. CASE do_rob_write_second(dec) /\ s = wr_rob_index_second
    BY <1>2, <1>5, <2>3, LeftForSecond
  <2> QED
    BY <1>4, <2>1, <2>2, <2>3
<1> QED
  BY <1>5, <1>6, LeftAfter

\* An edge keeps the sources right.
LEMMA SourcesAfter ==
  ASSUME RenameInv, SourcesLeft, NEW dec \in DecodeWindows, NEW done, Advance(dec, done),
         AdvanceSources(dec), RobTypeOK'
  PROVE  SourcesLeft'
<1> SUFFICES ASSUME NEW s \in InFlight'
             PROVE  LeftFor(s, rob_op[s].rs1, rob_prs1[s])' /\ LeftFor(s, rob_op[s].rs2, rob_prs2[s])'
  BY DEF SourcesLeft
<1>1. RobControl /\ RobTypeOK /\ s \in Slots
  BY DEF RenameInv, RobControl, InFlight
<1>2. rob_op'[s] \in Insns
  BY <1>1 DEF RobTypeOK
<1>3. PICK r1, r2, p1, p2 : /\ r1 = rob_op'[s].rs1 /\ r2 = rob_op'[s].rs2
                            /\ p1 = rob_prs1'[s] /\ p2 = rob_prs2'[s]
  OBVIOUS
<1>4. r1 \in ARegs /\ r2 \in ARegs
  BY <1>2, <1>3, RcuAssumption
<1>5. wr_rob_index # wr_rob_index_second
  BY <1>1, Indices
<1>6. s \in InFlight => LeftFor(s, r1, p1) /\ LeftFor(s, r2, p2)
  <2>1. ASSUME s \in InFlight
        PROVE  /\ rob_op'[s] = rob_op[s]
               /\ rob_prs1'[s] = rob_prs1[s] /\ rob_prs2'[s] = rob_prs2[s]
    BY <1>1, <2>1 DEF InFlight, do_rob_write_first, do_rob_write_second, Advance, AdvanceRob,
                      AdvanceEntry, AdvanceSources, Allocate
  <2> QED
    BY <1>3, <2>1 DEF SourcesLeft
<1>7. do_rob_write_first(dec) /\ s = wr_rob_index =>
        p1 = prs_first(dec, r1) /\ p2 = prs_first(dec, r2)
  BY <1>1, <1>3, <1>5 DEF Advance, AdvanceRob, AdvanceEntry, AdvanceSources, Allocate
<1>8. do_rob_write_second(dec) /\ s = wr_rob_index_second =>
        p1 = prs_second(dec, r1) /\ p2 = prs_second(dec, r2)
  BY <1>1, <1>3, <1>5 DEF Advance, AdvanceRob, AdvanceEntry, AdvanceSources, Allocate
<1>9. LeftFor(s, r1, p1)' /\ LeftFor(s, r2, p2)'
  BY <1>4, <1>6, <1>7, <1>8, SourceAfter
<1> QED
  BY <1>3, <1>9 DEF LeftFor

\* The invariant of the whole unit, with the sources.
SourceControl == RcuControl /\ RenameInv /\ SourcesLeft

\* It holds at reset, and every edge keeps it.
LEMMA SourceControlInductive ==
  /\ RcuInit => SourceControl
  /\ SourceControl /\ [RcuNext]_rcuVars => SourceControl'
<1>1. RcuInit => SourceControl
  <2>1. RcuInit => InFlight = {}
    BY DEF RcuInit, RobInit, InFlight
  <2> QED
    BY <2>1, RcuControlInductive, RenameInvInductive DEF RcuInit, SourceControl, SourcesLeft
<1>2. ASSUME SourceControl, [RcuNext]_rcuVars PROVE SourceControl'
  <2>1. RcuControl' /\ RenameInv'
    BY <1>2, RcuControlInductive, RenameInvInductive DEF SourceControl
  <2>2. CASE RcuFlush
    <3>1. InFlight' = {}
      BY <2>2 DEF RcuFlush, Flush, InFlight
    <3> QED
      BY <2>1, <3>1 DEF SourceControl, SourcesLeft
  <2>3. ASSUME NEW R \in Responding, NEW dec \in DecodeWindows,
               NEW lsu_takes \in LsuHandshakes(R), RcuAdvance(R, dec, lsu_takes)
        PROVE  SourcesLeft'
    <3>1. PICK done \in Answers(R) : Advance(dec, done)
      BY <2>3 DEF RcuAdvance
    <3>2. AdvanceSources(dec)
      BY <2>3, Zenon DEF RcuAdvance, AdvanceIssue
    <3>3. RobTypeOK'
      BY <2>1 DEF RcuControl, RobControl
    <3> QED
      BY <1>2, <3>1, <3>2, <3>3, SourcesAfter DEF SourceControl
  <2>4. CASE UNCHANGED rcuVars
    BY <1>2, <2>1, <2>4 DEF SourceControl, rcuVars, robVars, issueVars, SourcesLeft, LeftFor,
                            InFlight, Age, Pos
  <2> QED
    BY <1>2, <2>1, <2>2, <2>3, <2>4 DEF SourceControl, RcuNext
<1> QED
  BY <1>1, <1>2

\* The sources of an entry are always the mappings left by the instructions older than
\* it: an instruction reads its true producers, also when its producer is the other
\* instruction of its window, and after older ones commit.
THEOREM SourcesAreTrueProducers == RcuSpec => []SourcesFollowProgramOrder
<1>1. SourceControl => SourcesFollowProgramOrder
  <2> SUFFICES ASSUME SourceControl, NEW s \in InFlight
               PROVE  /\ rob_prs1[s] = MappingAfter(rob_op[s].rs1, Older(s))
                      /\ rob_prs2[s] = MappingAfter(rob_op[s].rs2, Older(s))
    BY DEF SourcesFollowProgramOrder
  <2>1. RobTypeOK
    BY DEF SourceControl, RenameInv, RobControl
  <2>2. Before(Age, InFlight, s) = Older(s) /\ Older(s) \in SUBSET InFlight
    BY <2>1, AgeType DEF Before, Older, InFlight
  <2>3. /\ Leaves(Age, Older(s), rob_rd, rob_prd, rename_reg_backup, rob_op[s].rs1, rob_prs1[s])
        /\ Leaves(Age, Older(s), rob_rd, rob_prd, rename_reg_backup, rob_op[s].rs2, rob_prs2[s])
    BY <2>2 DEF SourceControl, SourcesLeft, LeftFor
  <2> QED
    BY ONLY <2>1, <2>2, <2>3, LeavesIsMapping
<1> QED
  BY <1>1, SourceControlInductive, PTL DEF RcuSpec

-----------------------------------------------------------------------------
(* Every register has one owner.                                            *)

\* The places a register can be in: lines of the window that are free (a of them are
\* taken by the entries), entries, and the committed table.
Places(S, P, B, a, m) ==
  ({0} \X (a..(m - 1))) \cup ({1} \X AllocIn(S, P)) \cup ({2} \X Mapped(B))

\* There are as many places as registers.
LEMMA CountPlaces ==
  ASSUME NEW S \in SUBSET Slots, NEW P, NEW B, NEW m, NEW a, a = Cardinality(AllocIn(S, P)),
         Counted(S, P, B, m)
  PROVE  /\ IsFiniteSet(Places(S, P, B, a, m))
         /\ Cardinality(Places(S, P, B, a, m)) = FRLIST_DEPTH
<1>1. PICK A, F, M : A = AllocIn(S, P) /\ F = a..(m - 1) /\ M = Mapped(B)
  OBVIOUS
<1>2. A \in SUBSET Slots /\ M \in SUBSET ARegs
  BY <1>1 DEF AllocIn, Mapped
<1>3. /\ IsFiniteSet(A) /\ Cardinality(A) = a /\ a \in Nat
      /\ IsFiniteSet(M) /\ Cardinality(M) \in Nat
  BY <1>1, <1>2, Finite
<1>4. m \in Nat /\ a <= m /\ m + Cardinality(M) = FRLIST_DEPTH /\ FRLIST_DEPTH \in Nat
  BY <1>1, Sizes DEF Counted
<1>5. IsFiniteSet(F) /\ Cardinality(F) = m - a
  BY <1>1, <1>3, <1>4, FS_Interval
<1>6. \A k, X : IsFiniteSet(X) => /\ IsFiniteSet({k} \X X)
                                  /\ Cardinality({k} \X X) = Cardinality(X)
  <2> SUFFICES ASSUME NEW k, NEW X, IsFiniteSet(X)
               PROVE  IsFiniteSet({k} \X X) /\ Cardinality({k} \X X) = Cardinality(X)
    OBVIOUS
  <2>1. IsFiniteSet({k}) /\ Cardinality({k}) = 1
    BY FS_Singleton
  <2>2. IsFiniteSet({k} \X X) /\ Cardinality({k} \X X) = 1 * Cardinality(X)
    BY <2>1, FS_Product
  <2>3. Cardinality(X) \in Nat
    BY FS_CardinalityType
  <2> QED
    BY <2>2, <2>3
<1>7. PICK X, Y, Z : X = {0} \X F /\ Y = {1} \X A /\ Z = {2} \X M
  OBVIOUS
<1>8. /\ IsFiniteSet(X) /\ Cardinality(X) = m - a
      /\ IsFiniteSet(Y) /\ Cardinality(Y) = a
      /\ IsFiniteSet(Z) /\ Cardinality(Z) = Cardinality(M)
  BY <1>3, <1>5, <1>6, <1>7
<1>9. X \cap Y = {} /\ (X \cup Y) \cap Z = {}
  BY <1>7
<1>10. IsFiniteSet(X \cup Y) /\ Cardinality(X \cup Y) = (m - a) + a
  <2>1. IsFiniteSet(X) /\ IsFiniteSet(Y) /\ Cardinality(X \cap Y) = 0
    BY <1>8, <1>9, FS_EmptySet
  <2>2. /\ IsFiniteSet(X \cup Y)
        /\ Cardinality(X \cup Y) = Cardinality(X) + Cardinality(Y) - Cardinality(X \cap Y)
    BY ONLY <2>1, FS_Union
  <2> QED
    BY <1>3, <1>4, <1>8, <2>1, <2>2
<1>11. /\ IsFiniteSet((X \cup Y) \cup Z)
       /\ Cardinality((X \cup Y) \cup Z) = ((m - a) + a) + Cardinality(M)
  <2>1. PICK U : U = X \cup Y
    OBVIOUS
  <2>2. IsFiniteSet(U) /\ IsFiniteSet(Z) /\ Cardinality(U \cap Z) = 0
    BY <1>8, <1>9, <1>10, <2>1, FS_EmptySet
  <2>3. /\ IsFiniteSet(U \cup Z)
        /\ Cardinality(U \cup Z) = Cardinality(U) + Cardinality(Z) - Cardinality(U \cap Z)
    BY ONLY <2>2, FS_Union
  <2>4. Cardinality(U) = (m - a) + a
    BY <1>10, <2>1
  <2>5. Cardinality(U \cup Z) = ((m - a) + a) + Cardinality(M)
    BY <1>3, <1>4, <1>8, <2>2, <2>3, <2>4
  <2> QED
    BY <2>1, <2>3, <2>5
<1>12. Places(S, P, B, a, m) = (X \cup Y) \cup Z
  BY <1>1, <1>7 DEF Places
<1> QED
  BY <1>3, <1>4, <1>11, <1>12

\* Since the places cover all registers, each one holds a register of its own.
LEMMA OneOwner ==
  ASSUME RenameInv, NEW a, a = Cardinality(AllocIn(InFlight, rob_prd))
  PROVE  /\ \A s, t \in InFlight : rob_prd[s] = rob_prd[t] /\ rob_prd[s] # 0 => s = t
         /\ \A i \in a..(SlowNum - 1), s \in InFlight : FreeWindow[i] # rob_prd[s]
         /\ \A i \in a..(SlowNum - 1), r \in ARegs : FreeWindow[i] # rename_reg_backup[r]
<1>1. PICK S, P, B, W, m : /\ S = InFlight /\ P = rob_prd /\ B = rename_reg_backup
                           /\ W = FreeWindow /\ m = SlowNum
  OBVIOUS
<1>2. /\ S \in SUBSET Slots /\ Counted(S, P, B, m)
      /\ Covered(S, P, B, W, m) /\ a = Cardinality(AllocIn(S, P))
      /\ \A i \in 0..(m - 1) : W[i] # 0
  BY <1>1 DEF RenameInv, RegistersOwned, Owned, InFlight, Window
<1>3. a \in Nat /\ m \in 0..FRLIST_DEPTH
  BY <1>1, FreeRegsAre
<1>4. /\ \A i \in a..(m - 1) : W[i] \in 1..FRLIST_DEPTH
      /\ \A s \in AllocIn(S, P) : P[s] \in 1..FRLIST_DEPTH
      /\ \A r \in Mapped(B) : B[r] \in 1..FRLIST_DEPTH
  <2>1. RobTypeOK
    BY DEF RenameInv, RobControl
  <2>2. ASSUME NEW i \in a..(m - 1) PROVE W[i] \in 1..FRLIST_DEPTH
    <3>1. i \in FlLines /\ i \in 0..(m - 1)
      BY <1>3, Sizes DEF FlLines
    <3>2. FlLine(fl_rd_excep_line, i) \in FlLines
      BY <2>1, <3>1, Sizes DEF FlLine, FlLines, RobTypeOK
    <3>3. W[i] \in PRegs
      BY <1>1, <2>1, <3>1, <3>2 DEF FreeWindow, RobTypeOK
    <3> QED
      BY <1>2, <3>1, <3>3, Sizes DEF PRegs
  <2>3. \A s \in AllocIn(S, P) : P[s] \in PRegs /\ P[s] # 0
    BY <1>1, <1>2, <2>1 DEF AllocIn, RobTypeOK
  <2>4. \A r \in Mapped(B) : B[r] \in PRegs /\ B[r] # 0
    BY <1>1, <2>1 DEF Mapped, RobTypeOK
  <2> QED
    BY <2>2, <2>3, <2>4, Sizes DEF PRegs
<1>5. PICK J : J = Places(S, P, B, a, m)
  OBVIOUS
<1>6. IsFiniteSet(J) /\ Cardinality(J) = FRLIST_DEPTH
  BY <1>2, <1>5, CountPlaces
<1>7. IsFiniteSet(1..FRLIST_DEPTH) /\ Cardinality(1..FRLIST_DEPTH) = FRLIST_DEPTH
  BY FS_Interval, Sizes
<1>8. PICK f : f = [x \in J |-> IF x[1] = 0 THEN W[x[2]] ELSE IF x[1] = 1 THEN P[x[2]]
                                                              ELSE B[x[2]]]
  OBVIOUS
<1>9. /\ \A i \in a..(m - 1) : <<0, i>> \in J /\ f[<<0, i>>] = W[i]
      /\ \A s \in AllocIn(S, P) : <<1, s>> \in J /\ f[<<1, s>>] = P[s]
      /\ \A r \in Mapped(B) : <<2, r>> \in J /\ f[<<2, r>>] = B[r]
  BY <1>5, <1>8 DEF Places
<1>10. f \in [J -> 1..FRLIST_DEPTH]
  <2>1. ASSUME NEW x \in J PROVE f[x] \in 1..FRLIST_DEPTH
    <3>1. \/ \E i \in a..(m - 1) : x = <<0, i>>
          \/ \E s \in AllocIn(S, P) : x = <<1, s>>
          \/ \E r \in Mapped(B) : x = <<2, r>>
      BY <1>5 DEF Places
    <3> QED
      BY <1>4, <1>9, <3>1
  <2> QED
    BY <1>8, <2>1
<1>11. \A y \in 1..FRLIST_DEPTH : \E x \in J : f[x] = y
  <2> SUFFICES ASSUME NEW y \in 1..FRLIST_DEPTH PROVE \E x \in J : f[x] = y
    OBVIOUS
  <2>1. \/ \E i \in a..(m - 1) : W[i] = y
        \/ \E s \in S : P[s] = y
        \/ \E r \in ARegs : B[r] = y
    BY <1>2 DEF Covered
  <2>2. y # 0
    BY Sizes
  <2>3. \/ \E i \in a..(m - 1) : W[i] = y
        \/ \E s \in AllocIn(S, P) : P[s] = y
        \/ \E r \in Mapped(B) : B[r] = y
    BY <2>1, <2>2 DEF AllocIn, Mapped
  <2> QED
    BY <1>9, <2>3
<1>12. f \in Injection(J, 1..FRLIST_DEPTH)
  <2>1. f \in Surjection(J, 1..FRLIST_DEPTH)
    BY <1>10, <1>11 DEF Surjection
  <2> QED
    BY <1>6, <1>7, <2>1, FS_SurjSameCardinalityImpliesInj
<1>13. \A x, y \in J : f[x] = f[y] => x = y
  BY <1>12 DEF Injection, IsInjective
<1>14. ASSUME NEW s \in S, NEW t \in S, P[s] = P[t], P[s] # 0 PROVE s = t
  <2>1. s \in AllocIn(S, P) /\ t \in AllocIn(S, P)
    BY <1>14 DEF AllocIn
  <2>2. PICK x, y : x = <<1, s>> /\ y = <<1, t>>
    OBVIOUS
  <2>3. x \in J /\ f[x] = P[s] /\ y \in J /\ f[y] = P[t]
    BY <1>9, <2>1, <2>2, Zenon
  <2>4. x = y
    BY <1>13, <1>14, <2>3, Zenon
  <2> QED
    BY <2>2, <2>4
<1>15. ASSUME NEW i \in a..(m - 1), NEW s \in S, W[i] = P[s] PROVE FALSE
  <2>1. W[i] # 0
    BY <1>4, Sizes
  <2>2. s \in AllocIn(S, P)
    BY <1>15, <2>1 DEF AllocIn
  <2>3. PICK x, y : x = <<0, i>> /\ y = <<1, s>>
    OBVIOUS
  <2>4. x \in J /\ f[x] = W[i] /\ y \in J /\ f[y] = P[s]
    BY <1>9, <2>2, <2>3, Zenon
  <2>5. x = y
    BY <1>13, <1>15, <2>4, Zenon
  <2> QED
    BY <2>3, <2>5
<1>16. ASSUME NEW i \in a..(m - 1), NEW r \in ARegs, W[i] = B[r] PROVE FALSE
  <2>1. W[i] # 0
    BY <1>4, Sizes
  <2>2. r \in Mapped(B)
    BY <1>16, <2>1 DEF Mapped
  <2>3. PICK x, y : x = <<0, i>> /\ y = <<2, r>>
    OBVIOUS
  <2>4. x \in J /\ f[x] = W[i] /\ y \in J /\ f[y] = B[r]
    BY <1>9, <2>2, <2>3, Zenon
  <2>5. x = y
    BY <1>13, <1>16, <2>4, Zenon
  <2> QED
    BY <2>3, <2>5
<1> QED
  BY <1>1, <1>14, <1>15, <1>16

\* The registers an edge allocates are free before it: no entry in flight has them, and
\* they are not in the committed table.
LEMMA AllocatedIsFree ==
  ASSUME RenameInv, NEW dec \in DecodeWindows, NEW p, p # 0, Allocated(p, dec)
  PROVE  /\ \A s \in InFlight : rob_prd[s] # p
         /\ \A r \in ARegs : rename_reg_backup[r] # p
<1>1. PICK a, m, w, v : /\ a = Cardinality(AllocIn(InFlight, rob_prd)) /\ m = SlowNum
                        /\ w = wr_rob_index /\ v = wr_rob_index_second
  OBVIOUS
<1>2. /\ RobTypeOK /\ RobContiguous /\ FreeListLaps /\ InFlight \in SUBSET Slots
      /\ w \in Slots /\ v \in Slots /\ w # v /\ ROB_SIZE \in Nat
  BY <1>1, Indices, Sizes DEF RenameInv, RobControl, InFlight
<1>3. a \in Nat /\ m \in Nat
  BY <1>1, FreeRegsAre
<1>4. m - a >= ROB_SIZE - Cardinality(InFlight) /\ Cardinality(InFlight) \in Nat
  BY <1>1, <1>2, RegisterForEntry, Finite DEF RenameInv, RegistersOwned, Owned
<1>5. do_rob_write_first(dec) => a < m
  <2>1. ASSUME do_rob_write_first(dec) PROVE a < m
    <3>1. w \in Slots \ InFlight
      BY <1>1, <1>2, <2>1 DEF InFlight, do_rob_write_first
    <3> QED
      BY <1>1, <1>2, <3>1, RegisterForEntry DEF RenameInv, RegistersOwned, Owned
  <2> QED
    BY <2>1
<1>6. do_rob_write_second(dec) => do_rob_write_first(dec) /\ a + 1 < m
  <2>1. ASSUME do_rob_write_second(dec) PROVE do_rob_write_first(dec) /\ a + 1 < m
    <3>1. do_rob_write_first(dec)
      BY <1>2, <2>1, SecondNeedsFirst DEF do_rob_write_first, do_rob_write_second
    <3>2. w \notin InFlight /\ v \notin InFlight \cup {w}
      BY <1>1, <1>2, <2>1, <3>1 DEF InFlight, do_rob_write_first, do_rob_write_second
    <3>3. IsFiniteSet(InFlight)
      BY <1>2, Finite
    <3>4. /\ IsFiniteSet(InFlight \cup {w})
          /\ Cardinality(InFlight \cup {w}) = Cardinality(InFlight) + 1
      BY <3>2, <3>3, FS_AddElement
    <3>5. Cardinality((InFlight \cup {w}) \cup {v}) = Cardinality(InFlight) + 1 + 1
      BY <3>2, <3>4, FS_AddElement
    <3>6. (InFlight \cup {w}) \cup {v} \in SUBSET Slots
      BY <1>2
    <3>7. Cardinality((InFlight \cup {w}) \cup {v}) <= ROB_SIZE
      BY <3>6, Finite, FS_Subset
    <3>8. Cardinality(InFlight) + 1 + 1 <= ROB_SIZE
      BY <3>5, <3>7
    <3> QED
      BY <1>2, <1>3, <1>4, <3>1, <3>8
  <2> QED
    BY <2>1
<1>7. /\ a < m => FlRdataFirst = FreeWindow[a]
      /\ a + 1 < m => FlRdataSecond(TRUE) = FreeWindow[a + 1]
      /\ a < m => FlRdataSecond(FALSE) = FreeWindow[a]
  BY <1>1, <1>2, <1>3, NextFreeLines
<1>8. \E i \in a..(m - 1) : p = FreeWindow[i]
  <2>1. /\ a < m => a \in a..(m - 1)
        /\ a + 1 < m => a + 1 \in a..(m - 1) /\ a < m
    BY <1>3
  <2>2. CASE do_rob_write_first(dec) /\ p = prd_first(dec)
    BY <1>5, <1>7, <2>1, <2>2 DEF prd_first
  <2>3. CASE do_rob_write_second(dec) /\ p = prd_second(dec)
    <3>1. p = FlRdataSecond(free_list_rd_first_en(dec)) /\ a < m /\ a + 1 < m
      BY <1>6, <2>1, <2>3 DEF prd_second
    <3>2. CASE free_list_rd_first_en(dec)
      <4>1. free_list_rd_first_en(dec) = TRUE
        BY <3>2 DEF free_list_rd_first_en, do_rob_write_first
      <4> QED
        BY <1>7, <2>1, <3>1, <4>1
    <3>3. CASE ~free_list_rd_first_en(dec)
      <4>1. free_list_rd_first_en(dec) = FALSE
        BY <3>3 DEF free_list_rd_first_en, do_rob_write_first
      <4> QED
        BY <1>7, <2>1, <3>1, <4>1
    <3> QED
      BY <3>2, <3>3
  <2> QED
    BY <2>2, <2>3 DEF Allocated
<1> QED
  BY <1>1, <1>8, OneOwner

-----------------------------------------------------------------------------
(* Issue waits for the producers.                                           *)

\* The available bit of an entry's register is set only once the entry has finished, and
\* the bits of the sources of an issued entry are set.
TableFresh == \A t \in InFlight : rob_prd[t] # 0 /\ available_table[rob_prd[t]] => rob_finish[t]
IsReady(p) == p # 0 => available_table[p]
IssuedReady ==
  \A s \in InFlight : rob_selected[s] /\ ~Skipped(rob_op[s]) =>
                        IsReady(rob_prs1[s]) /\ IsReady(rob_prs2[s])

\* The requests that are answered are for entries in flight, with their destination.
LEMMA AnsweredEntries ==
  ASSUME RcuControl, NEW R \in Responding, NEW q \in R
  PROVE  q.idx \in InFlight /\ rob_prd[q.idx] = q.prd
<1>1. q \in Outside /\ q \in Requests
  <2>1. q \in Units
    BY DEF Responding, Units, Immediate
  <2> QED
    BY <2>1, OutsideTypes DEF RcuControl, IssueControl, Outside
<1>2. Waiting(q.idx) /\ q = Req(q.idx) /\ q.idx \in Slots
  BY <1>1 DEF RcuControl, IssueControl, OneRequest, Requests
<1> QED
  BY <1>2 DEF Waiting, Req, InFlight

\* A register that counts as available in a cycle has its bit set after the edge.
LEMMA ReadyAfter ==
  ASSUME SourceControl, NEW R \in Responding, NEW dec \in DecodeWindows,
         AdvanceAvailable(R, dec), NEW p \in PRegs, p # 0, real_available(p, R, dec)
  PROVE  available_table'[p]
<1>1. ~Allocated(p, dec)
  <2>1. CASE \E q \in R : q.prd = p
    <3>1. PICK q \in R : q.prd = p
      BY <2>1
    <3>2. q.idx \in InFlight /\ rob_prd[q.idx] = p
      BY <3>1, AnsweredEntries DEF SourceControl
    <3> QED
      BY <3>2, AllocatedIsFree DEF SourceControl
  <2> QED
    BY <2>1 DEF real_available
<1> QED
  BY <1>1 DEF real_available, AdvanceAvailable

\* The sources of an entry are not allocated again while it is in flight.
LEMMA SourceKept ==
  ASSUME SourceControl, NEW R, NEW dec \in DecodeWindows, AdvanceAvailable(R, dec),
         NEW s \in InFlight, NEW r \in ARegs, NEW p \in PRegs, LeftFor(s, r, p), IsReady(p)
  PROVE  IsReady(p)'
<1> SUFFICES ASSUME p # 0 PROVE available_table'[p]
  BY DEF IsReady
<1>1. (\E t \in InFlight : rob_prd[t] = p) \/ rename_reg_backup[r] = p
  BY DEF LeftFor, Leaves, Before
<1>2. ~Allocated(p, dec)
  BY <1>1, AllocatedIsFree DEF SourceControl
<1> QED
  BY <1>2 DEF AdvanceAvailable, IsReady

\* The bits are set for the right entries.
LEMMA FreshAfter ==
  ASSUME SourceControl, TableFresh, NEW R \in Responding, NEW dec \in DecodeWindows,
         AdvanceAvailable(R, dec), NEW done, DOMAIN done = {q.idx : q \in R}, NEW ports,
         EntriesStep(dec, done, ports), RobTypeOK'
  PROVE  TableFresh'
<1> SUFFICES ASSUME NEW t \in InFlight', rob_prd'[t] # 0, available_table'[rob_prd'[t]]
             PROVE  rob_finish'[t]
  BY DEF TableFresh
<1>1. RobControl /\ RcuControl /\ RenameInv
  BY DEF SourceControl, RcuControl
<1>2. PICK p : p = rob_prd'[t]
  OBVIOUS
<1>3. p \in PRegs /\ p # 0
  BY <1>2 DEF RobTypeOK, InFlight
<1>4. ~Allocated(p, dec) /\ (available_table[p] \/ \E q \in R : q.prd = p)
  BY <1>2, <1>3 DEF AdvanceAvailable
<1>5. rob_used[t] /\ Stays(t, done, ports) /\ t \in InFlight
  <2>1. /\ t \in Slots
        /\ \/ rob_used[t] /\ Stays(t, done, ports)
           \/ /\ t = wr_rob_index /\ do_rob_write_first(dec) /\ ~rob_used[t]
              /\ Enters(t, dec[1], prd_first(dec), ports)
           \/ /\ t = wr_rob_index_second /\ do_rob_write_second(dec) /\ ~rob_used[t]
              /\ Enters(t, dec[2], prd_second(dec), ports)
    BY <1>1, InFlightAfter
  <2> QED
    BY <1>2, <1>4, <2>1 DEF Enters, Allocated, InFlight
<1>6. rob_prd[t] = p
  BY <1>2, <1>5 DEF Stays
<1>7. CASE available_table[p]
  BY <1>3, <1>5, <1>6, <1>7 DEF TableFresh, Stays
<1>8. CASE \E q \in R : q.prd = p
  <2>1. PICK q \in R : q.prd = p
    BY <1>8
  <2>2. q.idx \in InFlight /\ rob_prd[q.idx] = p
    BY <1>1, <2>1, AnsweredEntries
  <2>3. q.idx = t
    BY <1>1, <1>3, <1>5, <1>6, <2>2, OneOwner
  <2> QED
    BY <1>5, <2>1, <2>3 DEF Stays
<1> QED
  BY <1>4, <1>7, <1>8

\* A request on a port was ready.
LEMMA PortsReady ==
  ASSUME RobTypeOK, NEW R, NEW dec, NEW ports, ports = Ports(R, dec), NEW x \in Range(ports)
  PROVE  \/ rob_select_ready(x.idx, R, dec)
         \/ x.idx = wr_rob_index /\ bypass_ready(1, R, dec)
         \/ x.idx = wr_rob_index_second /\ bypass_ready(2, R, dec)
<1>1. \E j : Chosen(x, j, R, dec)
  <2>1. CASE ports = << >>
    BY <2>1 DEF Range
  <2>2. ASSUME NEW p, NEW j, ports = <<p>>, Chosen(p, j, R, dec)
        PROVE  \E i : Chosen(x, i, R, dec)
    <3>1. Range(ports) = {p}
      BY <2>2 DEF Range
    <3> QED
      BY <2>2, <3>1
  <2>3. ASSUME NEW p, NEW q, NEW j, NEW k, ports = <<p, q>>,
               Chosen(p, j, R, dec), Chosen(q, k, R, dec)
        PROVE  \E i : Chosen(x, i, R, dec)
    <3>1. Range(ports) = {p, q}
      BY <2>3 DEF Range
    <3> QED
      BY <2>3, <3>1
  <2> QED
    BY <2>1, <2>2, <2>3, PortsAreChosen
<1> QED
  BY <1>1 DEF Chosen, NewReq

\* An entry that is issued at an edge, or was issued before it, has its operands after it.
LEMMA IssuedAfter ==
  ASSUME SourceControl, IssuedReady, NEW R \in Responding, NEW dec \in DecodeWindows,
         AdvanceAvailable(R, dec), AdvanceSources(dec), NEW done, NEW ports,
         ports = Ports(R, dec), EntriesStep(dec, done, ports), IssueTypes'
  PROVE  IssuedReady'
<1> SUFFICES ASSUME NEW s \in InFlight', rob_selected'[s], ~Skipped(rob_op'[s])
             PROVE  IsReady(rob_prs1[s])' /\ IsReady(rob_prs2[s])'
  BY DEF IssuedReady, Skipped, Returns
<1>1. RobControl /\ RobTypeOK /\ s \in Slots
  BY DEF SourceControl, RcuControl, RobControl, InFlight
<1>2. PICK w, v, p1, p2 : /\ w = wr_rob_index /\ v = wr_rob_index_second
                          /\ p1 = rob_prs1'[s] /\ p2 = rob_prs2'[s]
  OBVIOUS
<1>3. p1 \in PRegs /\ p2 \in PRegs /\ w \in Slots /\ v \in Slots /\ w # v
  BY <1>1, <1>2, Indices DEF IssueTypes
<1>4. \/ rob_used[s] /\ Stays(s, done, ports)
      \/ /\ s = w /\ do_rob_write_first(dec) /\ ~rob_used[s]
         /\ Enters(s, dec[1], prd_first(dec), ports)
      \/ /\ s = v /\ do_rob_write_second(dec) /\ ~rob_used[s]
         /\ Enters(s, dec[2], prd_second(dec), ports)
  BY <1>1, <1>2, InFlightAfter
<1>5. s \in IssuedSlots(ports) =>
        \/ rob_select_ready(s, R, dec)
        \/ s = w /\ bypass_ready(1, R, dec)
        \/ s = v /\ bypass_ready(2, R, dec)
  BY <1>1, <1>2, PortsReady DEF IssuedSlots
<1>6. ASSUME SourcesReady(p1, p2, R, dec) PROVE IsReady(p1)' /\ IsReady(p2)'
  BY <1>3, <1>6, ReadyAfter DEF SourcesReady, IsReady
<1>7. IsReady(p1)' /\ IsReady(p2)'
  <2>1. CASE rob_used[s] /\ Stays(s, done, ports)
    <3>1. /\ ~(do_rob_write_first(dec) /\ s = wr_rob_index)
          /\ ~(do_rob_write_second(dec) /\ s = wr_rob_index_second)
      BY <2>1 DEF do_rob_write_first, do_rob_write_second
    <3>2. p1 = rob_prs1[s] /\ p2 = rob_prs2[s]
      BY <1>1, <1>2, <3>1 DEF AdvanceSources, Allocate
    <3>3. CASE rob_selected[s]
      <4>1. s \in InFlight /\ ~Skipped(rob_op[s])
        BY <1>1, <2>1 DEF InFlight, Stays
      <4>2. IsReady(p1) /\ IsReady(p2)
        BY <3>2, <3>3, <4>1 DEF IssuedReady
      <4>3. rob_op[s].rs1 \in ARegs /\ rob_op[s].rs2 \in ARegs
        BY <1>1, RcuAssumption DEF RobTypeOK
      <4>4. LeftFor(s, rob_op[s].rs1, p1) /\ LeftFor(s, rob_op[s].rs2, p2)
        BY <3>2, <4>1 DEF SourceControl, SourcesLeft
      <4> QED
        BY <1>3, <4>1, <4>2, <4>3, <4>4, SourceKept
    <3>4. CASE ~rob_selected[s]
      <4>1. s \in IssuedSlots(ports)
        BY <2>1, <3>4 DEF Stays
      <4>2. rob_select_ready(s, R, dec)
        BY <1>2, <1>5, <3>1, <4>1 DEF bypass_ready
      <4>3. SourcesReady(p1, p2, R, dec)
        BY <3>2, <4>2 DEF rob_select_ready
      <4> QED
        BY <1>6, <4>3
    <3> QED
      BY <3>3, <3>4
  <2>2. CASE /\ s = w /\ do_rob_write_first(dec) /\ ~rob_used[s]
             /\ Enters(s, dec[1], prd_first(dec), ports)
    <3>1. bypass_ready(1, R, dec)
      BY <1>3, <1>5, <2>2 DEF Enters, rob_select_ready
    <3>2. p1 = prs_first(dec, dec[1].rs1) /\ p2 = prs_first(dec, dec[1].rs2)
      BY <1>2, <1>3, <2>2 DEF AdvanceSources, Allocate
    <3>3. SourcesReady(p1, p2, R, dec)
      BY <3>1, <3>2 DEF bypass_ready
    <3> QED
      BY <1>6, <3>3
  <2>3. CASE /\ s = v /\ do_rob_write_second(dec) /\ ~rob_used[s]
             /\ Enters(s, dec[2], prd_second(dec), ports)
    <3>1. bypass_ready(2, R, dec)
      BY <1>3, <1>5, <2>3 DEF Enters, rob_select_ready
    <3>2. p1 = prs_second(dec, dec[2].rs1) /\ p2 = prs_second(dec, dec[2].rs2)
      BY <1>2, <1>3, <2>3 DEF AdvanceSources, Allocate
    <3>3. SourcesReady(p1, p2, R, dec)
      BY <3>1, <3>2 DEF bypass_ready
    <3> QED
      BY <1>6, <3>3
  <2> QED
    BY <1>4, <2>1, <2>2, <2>3
<1> QED
  BY <1>2, <1>7 DEF IsReady

\* An entry is issued only when the producers of its sources have finished, and its
\* sources stay marked as available while it is in flight: the available table, which is
\* cleared at allocation, set at write-back and not touched by a rollback, is never
\* stale when it is used.
THEOREM OperandsAreThere == RcuSpec => []IssuedWithOperands
<1> DEFINE Inv == SourceControl /\ TableFresh /\ IssuedReady
<1>1. RcuInit => Inv
  <2>1. RcuInit => InFlight = {}
    BY DEF RcuInit, RobInit, InFlight
  <2> QED
    BY <2>1, SourceControlInductive DEF TableFresh, IssuedReady
<1>2. ASSUME Inv, [RcuNext]_rcuVars PROVE Inv'
  <2>1. SourceControl'
    BY <1>2, SourceControlInductive
  <2>2. CASE RcuFlush
    <3>1. InFlight' = {}
      BY <2>2 DEF RcuFlush, Flush, InFlight
    <3> QED
      BY <2>1, <3>1 DEF TableFresh, IssuedReady
  <2>3. ASSUME NEW R \in Responding, NEW dec \in DecodeWindows,
               NEW lsu_takes \in LsuHandshakes(R), RcuAdvance(R, dec, lsu_takes)
        PROVE  Inv'
    <3>1. PICK ports : ports = Ports(R, dec)
      OBVIOUS
    <3>2. RcuControl
      BY <1>2 DEF SourceControl
    <3>3. PICK done \in Answers(R) : /\ DOMAIN done = {p.idx : p \in R}
                                     /\ EntriesStep(dec, done, ports)
      BY <2>3, <3>1, <3>2, AdvanceFacts
    <3>4. AdvanceSources(dec) /\ AdvanceAvailable(R, dec)
      BY <2>3, Zenon DEF RcuAdvance, AdvanceIssue
    <3>5. RobTypeOK' /\ IssueTypes'
      BY <2>1 DEF SourceControl, RcuControl, RobControl, IssueControl
    <3>6. TableFresh'
      BY <1>2, <2>3, <3>3, <3>4, <3>5, FreshAfter
    <3>7. IssuedReady'
      BY <1>2, <2>3, <3>1, <3>3, <3>4, <3>5, IssuedAfter
    <3> QED
      BY <2>1, <3>6, <3>7
  <2>4. CASE UNCHANGED rcuVars
    BY <1>2, <2>1, <2>4 DEF rcuVars, robVars, issueVars, TableFresh, IssuedReady, IsReady,
                            InFlight, Skipped, Returns
  <2> QED
    BY <1>2, <2>2, <2>3, <2>4 DEF RcuNext
<1>3. Inv => IssuedWithOperands
  <2> SUFFICES ASSUME Inv, NEW s \in InFlight, rob_selected[s], ~Skipped(rob_op[s]),
                      NEW p \in {rob_prs1[s], rob_prs2[s]} \ {0}
               PROVE  /\ available_table[p]
                      /\ \A t \in InFlight : rob_prd[t] = p => rob_finish[t]
    BY DEF IssuedWithOperands
  <2>1. available_table[p] /\ p # 0
    BY DEF IssuedReady, IsReady
  <2> QED
    BY <2>1 DEF TableFresh
<1> QED
  BY <1>1, <1>2, <1>3, PTL DEF RcuSpec
=============================================================================
