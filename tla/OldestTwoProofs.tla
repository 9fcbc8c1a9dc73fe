-------------------------- MODULE OldestTwoProofs --------------------------
(***************************************************************************)
(* The issue arbiter computes the two oldest eligible requests, for every     *)
(* width.  The two priority chains are recursive functions; what they hold at *)
(* an age follows by looking at the least age at which they would not.        *)
(***************************************************************************)
EXTENDS MC_OldestTwo, SequenceTheorems, NaturalsInduction, WellFoundedInduction, TLAPS

\* A set of ages that is not empty has a least member.
LEMMA LeastAge ==
  ASSUME NEW S \in SUBSET Nat, S # {}
  PROVE  Min(S) \in S /\ \A j \in S : Min(S) <= j
<1> DEFINE less == {ss \in Nat \X Nat : ss[1] < ss[2]}
<1>1. IsWellFoundedOn(less, Nat)
  BY NatLessThanWellFounded DEF OpToRel
<1>2. \E x \in S : \A y \in S : ~(<<y, x>> \in less)
  <2> HIDE DEF less
  <2> QED
    BY <1>1, WFMin
<1>3. PICK x \in S : \A y \in S : ~(<<y, x>> \in less)
  BY <1>2
<1>4. ASSUME NEW y \in S PROVE x <= y
  <2>1. y < x => <<y, x>> \in less
    OBVIOUS
  <2> QED
    BY <1>3, <2>1
<1> QED
  BY <1>4 DEF Min

\* Ages are natural numbers from 0 on.
LEMMA AgesAre ==
  /\ Ages \in SUBSET Nat /\ 0 \in Ages
  /\ \A j \in Ages : /\ 0..j \in SUBSET Ages
                     /\ j # 0 => j - 1 \in Ages /\ 0..j = (0..(j - 1)) \cup {j}
BY WidthAssumption DEF Ages

\* Two functions that are the same chain, given by its first link and by how a link
\* follows from the one before, agree.
LEMMA ChainsAgree ==
  ASSUME NEW f, NEW g, f[0] = g[0],
         \A j \in Ages \ {0} : f[j - 1] = g[j - 1] => f[j] = g[j]
  PROVE  \A j \in Ages : f[j] = g[j]
<1> DEFINE S == {j \in Ages : f[j] # g[j]}
<1> SUFFICES ASSUME S # {} PROVE FALSE
  OBVIOUS
<1>1. S \in SUBSET Nat
  BY AgesAre
<1>2. PICK i : i \in S /\ \A j \in S : i <= j
  BY <1>1, LeastAge
<1>3. i \in Ages \ {0} /\ i - 1 \in Ages /\ i - 1 < i /\ i \in Nat
  BY <1>2, AgesAre
<1>4. i - 1 \notin S
  BY <1>2, <1>3
<1> QED
  BY <1>2, <1>3, <1>4

\* The first chain: some request of this age or older.
LEMMA MidIs ==
  ASSUME NEW r \in [Ages -> BOOLEAN]
  PROVE  \A j \in Ages : mid(r)[j] = \E k \in 0..j : r[k]
<1> DEFINE f == [j \in Ages |-> \E k \in 0..j : r[k]]
           Step(g) == [j \in Ages |-> IF j = 0 THEN r[0] ELSE r[j] \/ g[j - 1]]
<1>1. ASSUME NEW j \in Ages PROVE f[j] = IF j = 0 THEN r[0] ELSE r[j] \/ f[j - 1]
  <2>1. r[j] \in BOOLEAN /\ f[j] \in BOOLEAN
    OBVIOUS
  <2>2. CASE j = 0
    <3>1. 0..0 = {0}
      OBVIOUS
    <3> QED
      BY <2>1, <2>2, <3>1
  <2>3. CASE j # 0
    <3>1. j - 1 \in Ages /\ 0..j = (0..(j - 1)) \cup {j}
      BY <2>3, AgesAre
    <3>2. f[j - 1] = \E k \in 0..(j - 1) : r[k]
      BY <3>1
    <3> QED
      BY <2>1, <2>3, <3>1, <3>2
  <2> QED
    BY <2>2, <2>3
<1>2. f = Step(f)
  BY <1>1, Zenon
<1>3. mid(r) = CHOOSE g : g = Step(g)
  BY DEF mid
<1>4. PICK m : m = mid(r)
  OBVIOUS
<1>5. m = Step(m)
  BY <1>2, <1>3, <1>4
<1>6. \A j \in Ages : m[j] = f[j]
  <2>1. \A j \in Ages : m[j] = IF j = 0 THEN r[0] ELSE r[j] \/ m[j - 1]
    BY <1>5
  <2> HIDE DEF f
  <2>2. m[0] = f[0]
    BY <1>1, <2>1, AgesAre
  <2>3. \A j \in Ages \ {0} : m[j - 1] = f[j - 1] => m[j] = f[j]
    BY <1>1, <2>1
  <2> QED
    BY ONLY <2>2, <2>3, ChainsAgree
<1> QED
  BY <1>4, <1>6

\* The first grant: the oldest request.
LEMMA GrantIs ==
  ASSUME NEW r \in [Ages -> BOOLEAN], NEW j \in Ages
  PROVE  grant(r)[j] = (r[j] /\ \A k \in 0..(j - 1) : ~r[k])
<1>1. PICK m : m = mid(r)
  OBVIOUS
<1>2. grant(r)[j] = IF j = 0 THEN r[0] ELSE r[j] /\ ~m[j - 1]
  BY <1>1 DEF grant
<1>3. r[j] \in BOOLEAN
  OBVIOUS
<1>4. CASE j = 0
  <2>1. 0..(j - 1) = {}
    BY <1>4
  <2> QED
    BY <1>2, <1>3, <1>4, <2>1
<1>5. CASE j # 0
  <2>1. j - 1 \in Ages
    BY <1>5, AgesAre
  <2>2. m[j - 1] = \E k \in 0..(j - 1) : r[k]
    BY <1>1, <2>1, MidIs
  <2> QED
    BY <1>2, <1>5, <2>2
<1> QED
  BY <1>4, <1>5

\* The second chain: some request of this age or older that is not the first grant.
LEMMA MidLessIs ==
  ASSUME NEW r \in [Ages -> BOOLEAN]
  PROVE  \A j \in Ages : mid_less(r)[j] = \E k \in 0..j : r[k] /\ ~grant(r)[k]
<1>1. PICK q : q = grant(r)
  OBVIOUS
<1>2. \A j \in Ages : q[j] = (r[j] /\ \A k \in 0..(j - 1) : ~r[k])
  BY <1>1, GrantIs
<1> DEFINE f == [j \in Ages |-> \E k \in 0..j : r[k] /\ ~q[k]]
           Step(g) == [j \in Ages |-> IF j = 0 THEN r[0] /\ ~q[0]
                                               ELSE (r[j] \/ g[j - 1]) /\ ~q[j]]
<1>3. ASSUME NEW j \in Ages
      PROVE  f[j] = IF j = 0 THEN r[0] /\ ~q[0] ELSE (r[j] \/ f[j - 1]) /\ ~q[j]
  <2>1. r[j] \in BOOLEAN /\ f[j] \in BOOLEAN /\ q[j] \in BOOLEAN
    BY <1>2
  <2>2. CASE j = 0
    <3>1. 0..0 = {0}
      OBVIOUS
    <3> QED
      BY <2>1, <2>2, <3>1
  <2>3. CASE j # 0
    <3>1. j - 1 \in Ages /\ 0..j = (0..(j - 1)) \cup {j} /\ 0..j \in SUBSET Ages
      BY <2>3, AgesAre
    <3>2. f[j - 1] = \E k \in 0..(j - 1) : r[k] /\ ~q[k]
      BY <3>1
    <3>3. q[j] => ~f[j - 1]
      BY <1>2, <3>2
    <3>4. f[j] <=> f[j - 1] \/ (r[j] /\ ~q[j])
      BY <3>1, <3>2
    <3>5. f[j - 1] \in BOOLEAN
      BY <3>2
    <3>6. f[j] <=> (r[j] \/ f[j - 1]) /\ ~q[j]
      BY <3>3, <3>4
    <3> HIDE DEF f
    <3> QED
      BY <2>1, <2>3, <3>5, <3>6
  <2> QED
    BY <2>2, <2>3
<1>4. f = Step(f)
  BY <1>3, Zenon
<1>5. mid_less(r) = CHOOSE g : g = Step(g)
  BY <1>1 DEF mid_less
<1>6. PICK m : m = mid_less(r)
  OBVIOUS
<1>7. m = Step(m)
  BY <1>4, <1>5, <1>6
<1>8. \A j \in Ages : m[j] = f[j]
  <2>1. \A j \in Ages : m[j] = IF j = 0 THEN r[0] /\ ~q[0]
                                        ELSE (r[j] \/ m[j - 1]) /\ ~q[j]
    BY <1>7
  <2> HIDE DEF f
  <2>2. m[0] = f[0]
    BY <1>3, <2>1, AgesAre
  <2>3. \A j \in Ages \ {0} : m[j - 1] = f[j - 1] => m[j] = f[j]
    BY <1>3, <2>1
  <2> QED
    BY ONLY <2>2, <2>3, ChainsAgree
<1> QED
  BY <1>1, <1>6, <1>8

\* The second grant: the oldest request but for the first grant.
LEMMA GrantLessIs ==
  ASSUME NEW r \in [Ages -> BOOLEAN], NEW j \in Ages
  PROVE  grant_less(r)[j] =
           (r[j] /\ ~grant(r)[j] /\ \A k \in 0..(j - 1) : r[k] => grant(r)[k])
<1>1. PICK m, q : m = mid_less(r) /\ q = grant(r)
  OBVIOUS
<1>2. grant_less(r)[j] = IF j = 0 THEN r[0] /\ ~q[0] ELSE r[j] /\ ~m[j - 1] /\ ~q[j]
  BY <1>1 DEF grant_less
<1>3. r[j] \in BOOLEAN
  OBVIOUS
<1>4. CASE j = 0
  <2>1. 0..(j - 1) = {}
    BY <1>4
  <2> QED
    BY <1>1, <1>2, <1>3, <1>4, <2>1
<1>5. CASE j # 0
  <2>1. j - 1 \in Ages
    BY <1>5, AgesAre
  <2>2. m[j - 1] = \E k \in 0..(j - 1) : r[k] /\ ~q[k]
    BY <1>1, <2>1, MidLessIs
  <2> QED
    BY <1>1, <1>2, <1>5, <2>2
<1> QED
  BY <1>4, <1>5

\* The requests that reach the chains are the eligible ones.
LEMMA RequestsAre ==
  ASSUME NEW x \in Inputs
  PROVE  /\ fixed_req(x) \in [Ages -> BOOLEAN]
         /\ Eligible(x) = {j \in Ages : fixed_req(x)[j]}
<1>1. /\ x.prio \in Entries /\ x.req \in [Entries -> BOOLEAN]
      /\ x.req_ls \in [Entries -> BOOLEAN]
      /\ x.new_req \in BOOLEAN \X BOOLEAN /\ x.new_req_ls \in BOOLEAN \X BOOLEAN
  BY DEF Inputs
<1>2. ASSUME NEW j \in Ages, j < SEL_WIDTH PROVE EntryOfAge(x.prio, j) \in Entries
  BY <1>1, <1>2, WidthAssumption DEF EntryOfAge, Entries, Ages
<1>3. ASSUME NEW j \in Ages, ~(j < SEL_WIDTH) PROVE j - SEL_WIDTH + 1 \in {1, 2}
  BY <1>3, WidthAssumption DEF Ages
<1>4. \A j \in Ages : Asked(x, j) \in BOOLEAN /\ IsLs(x, j) \in BOOLEAN
  BY <1>1, <1>2, <1>3 DEF Asked, IsLs
<1>5. \A j \in Ages : /\ Rotated(x.prio, x.req, x.new_req)[j] = Asked(x, j)
                      /\ Rotated(x.prio, x.req_ls, x.new_req_ls)[j] = IsLs(x, j)
  BY DEF Rotated, Asked, IsLs
<1>6. ASSUME NEW j \in Ages
      PROVE  Unblocked(x)[j] <=> (IsLs(x, j) => \A k \in 0..(j - 1) : ~IsLs(x, k))
  <2>1. Unblocked(x)[j] <=> (~IsLs(x, j) \/ \A k \in Ages : k < j => ~IsLs(x, k))
    BY <1>5 DEF Unblocked
  <2>2. \A k : k \in 0..(j - 1) <=> k \in Ages /\ k < j
    BY WidthAssumption DEF Ages
  <2> QED
    BY <2>1, <2>2
<1>7. ASSUME NEW j \in Ages
      PROVE  fixed_req(x)[j] = (Asked(x, j) /\ Unblocked(x)[j])
  BY <1>5 DEF fixed_req
<1>8. \A j \in Ages : fixed_req(x)[j] <=> j \in Eligible(x)
  BY <1>6, <1>7 DEF Eligible
<1>9. fixed_req(x) \in [Ages -> BOOLEAN]
  BY DEF fixed_req
<1> QED
  BY <1>8, <1>9 DEF Eligible

\* Each chain grants the least of its requests.
LEMMA GrantsAre ==
  ASSUME NEW x \in Inputs, NEW E, E = Eligible(x), NEW F, F = E \ {Min(E)}
  PROVE  /\ Grants(x).first = IF E = {} THEN {} ELSE {Min(E)}
         /\ Grants(x).second = IF F = {} THEN {} ELSE {Min(F)}
<1>1. PICK r, g, h : r = fixed_req(x) /\ g = grant(r) /\ h = grant_less(r)
  OBVIOUS
<1>2. /\ r \in [Ages -> BOOLEAN] /\ E = {j \in Ages : r[j]}
      /\ E \in SUBSET Nat /\ F \in SUBSET Nat /\ Ages \in SUBSET Nat
  BY <1>1, RequestsAre, AgesAre
<1>3. Grants(x).first = {j \in Ages : g[j]} /\ Grants(x).second = {j \in Ages : h[j]}
  BY <1>1 DEF Grants
<1>4. \A j \in Ages : \A k : k \in 0..(j - 1) <=> k \in Ages /\ k < j
  BY WidthAssumption DEF Ages
<1>5. \A j \in Ages : g[j] <=> j \in E /\ \A k \in E : j <= k
  <2> SUFFICES ASSUME NEW j \in Ages PROVE g[j] <=> j \in E /\ \A k \in E : j <= k
    OBVIOUS
  <2>1. g[j] = (r[j] /\ \A k \in 0..(j - 1) : ~r[k])
    BY <1>1, <1>2, GrantIs
  <2>2. (\A k \in 0..(j - 1) : ~r[k]) <=> \A k \in E : j <= k
    BY <1>2, <1>4
  <2> QED
    BY <1>2, <2>1, <2>2
<1>6. E # {} => Min(E) \in E /\ \A k \in E : Min(E) <= k
  BY <1>2, LeastAge
<1>7. \A j \in Ages : g[j] <=> j \in E /\ j = Min(E)
  BY <1>2, <1>5, <1>6
<1>8. \A j \in Ages : h[j] <=> j \in F /\ \A k \in F : j <= k
  <2> SUFFICES ASSUME NEW j \in Ages PROVE h[j] <=> j \in F /\ \A k \in F : j <= k
    OBVIOUS
  <2>1. h[j] = (r[j] /\ ~g[j] /\ \A k \in 0..(j - 1) : r[k] => g[k])
    BY <1>1, <1>2, GrantLessIs
  <2>2. r[j] /\ ~g[j] <=> j \in F
    BY <1>2, <1>7
  <2>3. (\A k \in 0..(j - 1) : r[k] => g[k]) <=> \A k \in F : j <= k
    <3>1. \A k \in Ages : ~(r[k] => g[k]) <=> k \in F
      BY <1>2, <1>7
    <3>2. \A k \in Ages : ~(k < j) <=> j <= k
      BY <1>2
    <3>3. F \subseteq Ages
      BY <1>2
    <3> QED
      BY <1>4, <3>1, <3>2, <3>3
  <2> QED
    BY <2>1, <2>2, <2>3
<1>9. F # {} => Min(F) \in F /\ \A k \in F : Min(F) <= k
  BY <1>2, LeastAge
<1>10. \A j \in Ages : h[j] <=> j \in F /\ j = Min(F)
  <2>1. ASSUME NEW j \in F PROVE (\A k \in F : j <= k) <=> j = Min(F)
    <3>1. j \in Nat /\ Min(F) \in Nat /\ Min(F) \in F /\ Min(F) <= j
      BY <1>2, <1>9
    <3> QED
      BY <1>9, <3>1
  <2> QED
    BY <1>8, <2>1
<1>11. Grants(x).first = IF E = {} THEN {} ELSE {Min(E)}
  <2>1. \A j : j \in {i \in Ages : g[i]} <=> E # {} /\ j = Min(E)
    BY <1>2, <1>6, <1>7
  <2> QED
    BY <1>3, <2>1
<1>12. Grants(x).second = IF F = {} THEN {} ELSE {Min(F)}
  <2>1. F \subseteq Ages
    BY <1>2
  <2>2. \A j : j \in {i \in Ages : h[i]} <=> F # {} /\ j = Min(F)
    BY <1>9, <1>10, <2>1
  <2> QED
    BY <1>3, <2>2
<1> QED
  BY <1>11, <1>12

\* Four parts of which one or two are not empty, in the orders that can occur.
LEMMA FourParts ==
  ASSUME NEW o, NEW p
  PROVE  /\ <<o>> \o << >> \o << >> \o << >> = <<o>>
         /\ << >> \o << >> \o <<o>> \o << >> = <<o>>
         /\ << >> \o << >> \o << >> \o <<o>> = <<o>>
         /\ <<o>> \o <<p>> \o << >> \o << >> = <<o, p>>
         /\ <<o>> \o << >> \o <<p>> \o << >> = <<o, p>>
         /\ <<o>> \o << >> \o << >> \o <<p>> = <<o, p>>
         /\ << >> \o << >> \o <<o>> \o <<p>> = <<o, p>>
<1>1. <<o>> \o << >> = <<o>> /\ << >> \o <<o>> = <<o>> /\ << >> \o << >> = << >>
  OBVIOUS
<1>2. <<o>> \o <<p>> = <<o, p>>
  <2>1. PICK s, t, u : s = <<o>> /\ t = <<p>> /\ u = <<o, p>>
    OBVIOUS
  <2>2. s \in Seq({o, p}) /\ t \in Seq({o, p}) /\ u \in Seq({o, p})
    BY <2>1
  <2>3. Len(s) = 1 /\ s[1] = o /\ Len(t) = 1 /\ t[1] = p
        /\ Len(u) = 2 /\ u[1] = o /\ u[2] = p
    BY <2>1
  <2>4. s \o t \in Seq({o, p}) /\ Len(s \o t) = 2 /\ (s \o t)[1] = o /\ (s \o t)[2] = p
    BY <2>2, <2>3, ConcatProperties
  <2>5. \A i \in 1..Len(u) : (s \o t)[i] = u[i]
    BY <2>3, <2>4
  <2>6. s \o t = u
    BY <2>2, <2>3, <2>4, <2>5, SeqEqual
  <2> QED
    BY <2>1, <2>6
<1>3. <<o, p>> \o << >> = <<o, p>>
  <2>1. <<o, p>> \in Seq({o, p})
    OBVIOUS
  <2> QED
    BY <2>1, ConcatEmptySeq
<1> QED
  BY <1>1, <1>2, <1>3

\* What the ports see, in the order in which they look, is oldest first.
LEMMA GrantedAgesAre ==
  ASSUME NEW x \in Inputs
  PROVE  GrantedAges(x) = TwoOldest(x)
<1> DEFINE Single(S) == IF S = {} THEN << >> ELSE <<CHOOSE j \in S : TRUE>>
<1>1. PICK E, F, g, n : /\ E = Eligible(x) /\ F = E \ {Min(E)} /\ g = Grants(x)
                        /\ n = SEL_WIDTH
  OBVIOUS
<1>2. /\ g.first = IF E = {} THEN {} ELSE {Min(E)}
      /\ g.second = IF F = {} THEN {} ELSE {Min(F)}
  BY <1>1, GrantsAre
<1>3. PICK A, B, C, D : /\ A = {j \in g.first : j < n} /\ B = {j \in g.second : j < n}
                        /\ C = (g.first \cup g.second) \cap {n}
                        /\ D = (g.first \cup g.second) \cap {n + 1}
  OBVIOUS
<1>4. GrantedAges(x) = Single(A) \o Single(B) \o Single(C) \o Single(D)
  BY <1>1, <1>3 DEF GrantedAges
<1>5. Single({}) = << >> /\ \A j : Single({j}) = <<j>>
  OBVIOUS
<1> HIDE DEF Single
<1>6. n \in Nat /\ E \in SUBSET Nat /\ \A j \in E : j < n \/ j = n \/ j = n + 1
  BY <1>1, WidthAssumption DEF Eligible, Ages
<1>7. CASE E = {}
  <2>1. A = {} /\ B = {} /\ C = {} /\ D = {}
    BY <1>1, <1>2, <1>3, <1>7
  <2> QED
    BY <1>1, <1>4, <1>5, <1>7, <2>1 DEF TwoOldest
<1>8. CASE E # {} /\ F = {}
  <2>1. PICK o : o = Min(E)
    OBVIOUS
  <2>2. o \in E /\ E = {o}
    BY <1>1, <1>6, <1>8, <2>1, LeastAge
  <2>3. TwoOldest(x) = <<o>>
    BY <1>1, <2>1, <2>2 DEF TwoOldest
  <2>4. g.first = {o} /\ g.second = {}
    BY <1>2, <1>8, <2>1
  <2>5. o \in Nat /\ (o < n \/ o = n \/ o = n + 1)
    BY <1>6, <2>2
  <2>6. B = {}
    BY <1>3, <2>4
  <2>7. CASE o < n
    <3>1. A = {o} /\ C = {} /\ D = {}
      BY <1>3, <1>6, <2>4, <2>5, <2>7
    <3> QED
      BY <1>4, <1>5, <2>3, <2>6, <3>1, FourParts, Zenon
  <2>8. CASE o = n
    <3>1. A = {} /\ C = {o} /\ D = {}
      BY <1>3, <1>6, <2>4, <2>5, <2>8
    <3> QED
      BY <1>4, <1>5, <2>3, <2>6, <3>1, FourParts, Zenon
  <2>9. CASE o = n + 1
    <3>1. A = {} /\ C = {} /\ D = {o}
      BY <1>3, <1>6, <2>4, <2>5, <2>9
    <3> QED
      BY <1>4, <1>5, <2>3, <2>6, <3>1, FourParts, Zenon
  <2> QED
    BY <2>5, <2>7, <2>8, <2>9
<1>9. CASE E # {} /\ F # {}
  <2>1. PICK o, p : o = Min(E) /\ p = Min(F)
    OBVIOUS
  <2>2. o \in E /\ p \in F /\ E # {o} /\ o <= p /\ p # o
    BY <1>1, <1>6, <1>9, <2>1, LeastAge
  <2>3. TwoOldest(x) = <<o, p>>
    BY <1>1, <1>9, <2>1, <2>2 DEF TwoOldest
  <2>4. g.first = {o} /\ g.second = {p}
    BY <1>2, <1>9, <2>1
  <2>5. /\ o \in Nat /\ p \in Nat /\ o < p
        /\ o < n \/ o = n \/ o = n + 1
        /\ p < n \/ p = n \/ p = n + 1
    BY <1>1, <1>6, <2>2
  <2>6. \/ p < n /\ o < n
        \/ p = n /\ o < n
        \/ p = n + 1 /\ o < n
        \/ p = n + 1 /\ o = n
    BY <1>6, <2>5
  <2>7. CASE p < n /\ o < n
    <3>1. A = {o} /\ B = {p} /\ C = {} /\ D = {}
      BY <1>3, <1>6, <2>4, <2>5, <2>7
    <3> QED
      BY <1>4, <1>5, <2>3, <3>1, FourParts, Zenon
  <2>8. CASE p = n /\ o < n
    <3>1. A = {o} /\ B = {} /\ C = {p} /\ D = {}
      BY <1>3, <1>6, <2>4, <2>5, <2>8
    <3> QED
      BY <1>4, <1>5, <2>3, <3>1, FourParts, Zenon
  <2>9. CASE p = n + 1 /\ o < n
    <3>1. A = {o} /\ B = {} /\ C = {} /\ D = {p}
      BY <1>3, <1>6, <2>4, <2>5, <2>9
    <3> QED
      BY <1>4, <1>5, <2>3, <3>1, FourParts, Zenon
  <2>10. CASE p = n + 1 /\ o = n
    <3>1. A = {} /\ B = {} /\ C = {o} /\ D = {p}
      BY <1>3, <1>6, <2>4, <2>5, <2>10
    <3> QED
      BY <1>4, <1>5, <2>3, <3>1, FourParts, Zenon
  <2> QED
    BY <2>6, <2>7, <2>8, <2>9, <2>10
<1> QED
  BY <1>7, <1>8, <1>9

\* The rotation, the lowest-bit trick and the two priority chains of the arbiter grant
\* exactly the two oldest eligible requests, oldest first, whatever the width, the
\* requests and the commit index.
THEOREM ArbiterGrantsTwoOldest == ArbiterSpec => []GrantsTwoOldest
<1>1. ArbiterInit => in \in Inputs
  BY DEF ArbiterInit
<1>2. in \in Inputs /\ [Rotate]_in => (in \in Inputs)'
  <2> SUFFICES ASSUME in \in Inputs, Rotate PROVE in' \in Inputs
    OBVIOUS
  <2>1. EntryOfAge(in.prio, 1) \in Entries
    BY WidthAssumption DEF Inputs, Entries, EntryOfAge
  <2> QED
    BY <2>1 DEF Rotate, Inputs
<1>3. in \in Inputs => GrantsTwoOldest
  BY GrantedAgesAre DEF GrantsTwoOldest
<1> QED
  BY <1>1, <1>2, <1>3, PTL DEF ArbiterSpec
=============================================================================
