------------------------------ MODULE OldestTwo ------------------------------
(***************************************************************************)
(* The issue arbiter (oldest2_abitter_bps_lss).  Requests come from the      *)
(* SEL_WIDTH entries of the reorder buffer and from the two instructions     *)
(* being allocated.  The ROB requests are rotated so that the commit index   *)
(* comes first; the new requests stand behind all of them, so a position     *)
(* 0..SEL_WIDTH+1 is an age.  Of the load/store/CSR entries not yet issued    *)
(* only the oldest may be granted, whether it requests or not.  The two       *)
(* oldest requests that remain are granted.                                 *)
(*                                                                         *)
(* An input is a record with fields prio, req and req_ls (functions on        *)
(* 0..SEL_WIDTH-1), new_req and new_req_ls (pairs of Booleans).               *)
(***************************************************************************)
EXTENDS Integers, Sequences, FiniteSetsExt

CONSTANT SEL_WIDTH

ASSUME WidthAssumption == SEL_WIDTH \in Nat

Entries == 0..(SEL_WIDTH - 1)
Ages == 0..(SEL_WIDTH + 1)

\* The entry of age j < SEL_WIDTH: the shift by priority_fix_i.
EntryOfAge(prio, j) ==
  IF prio + j >= SEL_WIDTH THEN prio + j - SEL_WIDTH ELSE prio + j

\* A request vector rotated by age, the new requests behind it.
Rotated(prio, v, new) ==
  [j \in Ages |-> IF j < SEL_WIDTH THEN v[EntryOfAge(prio, j)]
                                   ELSE new[j - SEL_WIDTH + 1]]

\* real_gnt: ages that are not load/store, and the oldest one that is.
Unblocked(in) ==
  LET ls == Rotated(in.prio, in.req_ls, in.new_req_ls)
  IN [j \in Ages |-> ~ls[j] \/ \A k \in Ages : k < j => ~ls[k]]

\* A plausible slip: the loads and stores are not ordered.
FixedReqUnordered(in) == Rotated(in.prio, in.req, in.new_req)

fixed_req(in) ==
  LET r == Rotated(in.prio, in.req, in.new_req)
      u == Unblocked(in)
  IN [j \in Ages |-> r[j] /\ u[j]]

\* The two priority chains of the arbiter, for the requests r.  grant is one-hot on
\* the oldest request, grant_less on the next one.
mid(r) ==
  LET m[j \in Ages] == IF j = 0 THEN r[0] ELSE r[j] \/ m[j - 1] IN m
grant(r) ==
  LET m == mid(r)
  IN [j \in Ages |-> IF j = 0 THEN r[0] ELSE r[j] /\ ~m[j - 1]]
mid_less(r) ==
  LET g == grant(r)
      m[j \in Ages] == IF j = 0 THEN r[0] /\ ~g[0] ELSE (r[j] \/ m[j - 1]) /\ ~g[j]
  IN m
grant_less(r) ==
  LET g == grant(r)
      m == mid_less(r)
  IN [j \in Ages |-> IF j = 0 THEN r[0] /\ ~g[0] ELSE r[j] /\ ~m[j - 1] /\ ~g[j]]

Grants(in) ==
  LET r == fixed_req(in)
      first == grant(r)
      second == grant_less(r)
  IN [first |-> {j \in Ages : first[j]}, second |-> {j \in Ages : second[j]}]

\* The granted ages in the order in which the issue ports look at them: ROB
\* first, ROB second, new first, new second.
GrantedAges(in) ==
  LET g == Grants(in)
      InRob(S) == {j \in S : j < SEL_WIDTH}
      Single(S) == IF S = {} THEN << >> ELSE <<CHOOSE j \in S : TRUE>>
  IN Single(InRob(g.first)) \o Single(InRob(g.second))
       \o Single((g.first \cup g.second) \cap {SEL_WIDTH})
       \o Single((g.first \cup g.second) \cap {SEL_WIDTH + 1})

-----------------------------------------------------------------------------
(* What the arbiter is meant to compute.                                    *)

\* Whether the request of age j is made, and by a load, store or CSR access.
Asked(in, j) == IF j < SEL_WIDTH THEN in.req[EntryOfAge(in.prio, j)]
                                 ELSE in.new_req[j - SEL_WIDTH + 1]
IsLs(in, j) == IF j < SEL_WIDTH THEN in.req_ls[EntryOfAge(in.prio, j)]
                                ELSE in.new_req_ls[j - SEL_WIDTH + 1]

\* Requests with no older load/store pending in front of a load/store; of those
\* the two oldest, oldest first.
Eligible(in) ==
  {j \in Ages : Asked(in, j) /\ (IsLs(in, j) => \A k \in 0..(j - 1) : ~IsLs(in, k))}

TwoOldest(in) ==
  LET E == Eligible(in) IN
  IF E = {} THEN << >>
  ELSE LET o == Min(E) IN
       IF E = {o} THEN <<o>> ELSE <<o, Min(E \ {o})>>
=============================================================================
