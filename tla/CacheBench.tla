---------------------------- MODULE CacheBench ----------------------------
(***************************************************************************)
(* What the unit test of the LSU puts behind it (sim/lsu_ut): the fake data   *)
(* cache, the fake TLB and the fake bus, with the memory accesses they make.   *)
(* A step is one rising clock edge; req() is called in every time unit between *)
(* two edges, with the values the ports have settled to.                        *)
(*                                                                             *)
(* The LSU is reduced to the protocol of its ports (lsu_lsq.v, lsu_bus_ctrl.v): *)
(* it works on one access at a time, in order.  A load is sent to the cache and  *)
(* to the TLB in the same cycle; in the next cycle it is killed if the TLB        *)
(* missed or the address turns out to be I/O, and has succeeded if the cache      *)
(* took it and it was not killed.  A store asks the TLB first.  An I/O access      *)
(* goes to the bus, a double word as two words, while the LSU goes on.             *)
(***************************************************************************)
EXTENDS Naturals, Sequences, SequencesExt, FiniteSets

CONSTANTS
  Accesses,           \* the accesses of the LSU: records [ls, io, paddr]
  MaxAccesses,        \* how many the LSU makes
  MAX_CACHE_SIZE,     \* lines of the fake cache
  CACHE_HIT_BASE_DELAY, CacheMissDelays, TlbMissDelays, BusDelays,
  None

CacheBenchAssumption ==
  /\ MaxAccesses \in Nat /\ MAX_CACHE_SIZE \in Nat \ {0}
  /\ CacheMissDelays \subseteq Nat \ {0} /\ TlbMissDelays \subseteq Nat
  /\ BusDelays \subseteq Nat

VARIABLES
  cache_line_list, cache_hit_set, hsk_q, ld_resp,  \* FakeL1DCache
  tlb_hit_set, delay_list, tlb_resp,               \* FakeTLB
  bus_entry, bus_resp,                             \* FakeBus: _bus_entry, _resp_vld
  prog, pc, s1, phys, bus_ctrl,                    \* the LSU
  cache_log, bus_log, answers,                     \* history: performed, answered; in the
                                                   \* cache with what ready() had shown
  status

cacheVars == <<cache_line_list, cache_hit_set, hsk_q, ld_resp>>
tlbVars == <<tlb_hit_set, delay_list, tlb_resp>>
busVars == <<bus_entry, bus_resp>>
lsuVars == <<prog, pc, s1, phys, bus_ctrl>>
vars == <<cacheVars, tlbVars, busVars, lsuVars, cache_log, bus_log, answers, status>>

\* The page of an address; an address is never the number of a page.
Tag(paddr) == paddr \div 16

-----------------------------------------------------------------------------
(* The LSU *)

IsIo(k) == prog[k].io
Arrived(k) == k <= Len(prog)

\* The access sent one cycle ago: has it succeeded, was it killed?
S1Hit == tlb_resp # None /\ tlb_resp.hit
Kill == (tlb_resp # None /\ ~tlb_resp.hit) \/ (s1 # None /\ S1Hit /\ IsIo(pc))
Succ == s1 # None /\ s1.hsk /\ ~IsIo(pc) /\ (prog[pc].ls \/ S1Hit)

\* The translated I/O access moves to the bus controller when that is free.
ToBus == Arrived(pc) /\ IsIo(pc) /\ (S1Hit \/ phys) /\ bus_ctrl = None

Cur == IF Succ \/ ToBus THEN pc + 1 ELSE pc
PhysNow == phys \/ (Arrived(pc) /\ (prog[pc].ls \/ IsIo(pc)) /\ S1Hit)

\* What is on the ports in this cycle.
LdReq == /\ Arrived(Cur) /\ ~prog[Cur].ls
         /\ ~(Cur = pc /\ PhysNow)
StReq == Cur = pc /\ Arrived(pc) /\ prog[pc].ls /\ phys /\ ~IsIo(pc)
TlbReq == LdReq \/ (Arrived(Cur) /\ prog[Cur].ls /\ ~(Cur = pc /\ PhysNow))

cache_ready == Len(cache_line_list) < MAX_CACHE_SIZE

LsuStep(new) ==
  /\ prog' = prog \o new
  /\ pc' = Cur
  /\ phys' = (Cur = pc /\ PhysNow)
  /\ s1' = IF LdReq \/ StReq THEN [hsk |-> cache_ready] ELSE None

BusCyc == bus_ctrl # None /\ bus_ctrl.word <= bus_ctrl.words /\ ~bus_resp

BusCtrlStep(words) ==
  bus_ctrl' = IF ToBus THEN [id |-> pc, word |-> 1, words |-> words]
              ELSE IF bus_ctrl # None /\ bus_resp
                   THEN IF bus_ctrl.word = bus_ctrl.words THEN None
                        ELSE [bus_ctrl EXCEPT !.word = @ + 1]
                   ELSE bus_ctrl

-----------------------------------------------------------------------------
(* FakeL1DCache *)

DelaySet == {cache_line_list[k].delay : k \in DOMAIN cache_line_list}

\* The set holds addresses and is asked for a page (0 for a store).
Hit(k) == (IF prog[k].ls THEN 0 ELSE Tag(prog[k].paddr)) \in cache_hit_set

\* req(): a miss takes the next delay no other line has.
ReqDelay(k, r) ==
  IF Hit(k) THEN CACHE_HIT_BASE_DELAY
  ELSE CHOOSE d \in r..(r + Len(cache_line_list)) :
         /\ d \notin DelaySet
         /\ \A e \in r..(d - 1) : e \in DelaySet

\* A plausible slip: a killed request stays in the list.
AfterKillKept == cache_line_list

\* The request taken at the last edge is performed now, or dropped.
AfterKill == IF hsk_q /\ Kill THEN Front(cache_line_list) ELSE cache_line_list

Performed == IF hsk_q /\ ~Kill THEN <<Last(cache_line_list)>> ELSE << >>

CacheTakes == (LdReq \/ StReq) /\ Len(AfterKill) < MAX_CACHE_SIZE

\* A line of the history: an access, and whether ready() showed room for it when
\* it was taken.
Seen(e) == <<e.id, e.rdy>>

\* The lines after the edge: those whose delay is over leave, a load with its
\* answer.  There may be room only because the kill has just made it: the request
\* is then taken although the LSU was shown that the cache is not ready.
CacheEval(r) ==
  LET taken == IF CacheTakes
               THEN Append(AfterKill, [id |-> Cur, ls |-> prog[Cur].ls, delay |-> ReqDelay(Cur, r),
                                       rdy |-> cache_ready])
               ELSE AfterKill
      over == SelectSeq(taken, LAMBDA e : e.delay = 0)
      kept == SelectSeq(taken, LAMBDA e : e.delay # 0)
      loads == SelectSeq(over, LAMBDA e : ~e.ls)
      \* the test is made when a further line is over, load or store
      multi == \E k \in DOMAIN over : ~over[k].ls /\ k < Len(over)
      stores == SelectSeq(Performed, LAMBDA e : e.ls)
  IN /\ hsk_q' = CacheTakes
     /\ cache_line_list' = [k \in DOMAIN kept |-> [kept[k] EXCEPT !.delay = @ - 1]]
     /\ cache_hit_set' = cache_hit_set \union {prog[over[k].id].paddr : k \in DOMAIN over}
     /\ ld_resp' = IF loads = << >> THEN None ELSE Last(loads).id
     /\ cache_log' = cache_log \o [k \in DOMAIN Performed |-> Seen(Performed[k])]
     /\ answers' = answers \o [k \in DOMAIN stores |-> Seen(stores[k])]
                           \o [k \in DOMAIN loads |-> Seen(loads[k])]
     /\ status' = IF multi THEN "l1d has multi resp in a tik" ELSE "ok"

-----------------------------------------------------------------------------
(* FakeTLB *)

TlbPending(tag) == \E k \in DOMAIN delay_list : delay_list[k].ptag = tag

\* req() and then eval(): a miss is entered once; the answer is the one of the
\* state before the misses that are over are added.
TlbEval(d) ==
  LET tag == Tag(prog[Cur].paddr)
      hit == tag \in tlb_hit_set
      asked == IF TlbReq /\ ~hit /\ ~TlbPending(tag)
               THEN Append(delay_list, [ptag |-> tag, delay |-> d]) ELSE delay_list
      kept == SelectSeq(asked, LAMBDA e : e.delay # 0)
  IN /\ tlb_hit_set' = tlb_hit_set \union {asked[k].ptag : k \in {j \in DOMAIN asked : asked[j].delay = 0}}
     /\ delay_list' = [k \in DOMAIN kept |-> [kept[k] EXCEPT !.delay = @ - 1]]
     /\ tlb_resp' = IF TlbReq THEN [hit |-> hit] ELSE None

-----------------------------------------------------------------------------
(* FakeBus *)

BusEval(d) ==
  LET takes == BusCyc /\ bus_entry = None
      entry == IF takes THEN [delay |-> d] ELSE bus_entry
      acks == entry # None /\ entry.delay = 0
  IN /\ bus_log' = IF takes THEN Append(bus_log, <<bus_ctrl.id, bus_ctrl.word>>) ELSE bus_log
     /\ bus_resp' = acks
     /\ bus_entry' = IF acks \/ entry = None THEN None ELSE [entry EXCEPT !.delay = @ - 1]

-----------------------------------------------------------------------------
Init ==
  /\ cache_line_list = << >> /\ cache_hit_set = {} /\ hsk_q = FALSE /\ ld_resp = None
  /\ tlb_hit_set = {} /\ delay_list = << >> /\ tlb_resp = None
  /\ bus_entry = None /\ bus_resp = FALSE
  /\ prog = << >> /\ pc = 1 /\ s1 = None /\ phys = FALSE /\ bus_ctrl = None
  /\ cache_log = << >> /\ bus_log = << >> /\ answers = << >>
  /\ status = "ok"

\* The accesses that reach the LSU at an edge.
Arrivals == {<< >>} \union (IF Len(prog) < MaxAccesses THEN {<<a>> : a \in Accesses} ELSE {})

\* An edge: tlb, cache and bus in the order of the main loop, and the LSU.
Tick ==
  /\ status = "ok"
  /\ \E new \in Arrivals,
        r \in IF CacheTakes THEN CacheMissDelays ELSE {1},
        td \in IF TlbReq THEN TlbMissDelays ELSE {1},
        bd \in IF BusCyc /\ bus_entry = None THEN BusDelays ELSE {1},
        words \in IF ToBus THEN {1, 2} ELSE {1} :
       LsuStep(new) /\ BusCtrlStep(words) /\ TlbEval(td) /\ CacheEval(r) /\ BusEval(bd)

\* Everything was done and the ports are quiet: the edges change nothing.
Quiet ==
  /\ pc > MaxAccesses /\ cache_line_list = << >> /\ bus_ctrl = None /\ ~bus_resp
  /\ UNCHANGED vars

Next == Tick \/ Quiet

Spec == Init /\ [][Next]_vars /\ WF_vars(Tick)

-----------------------------------------------------------------------------
(* Properties *)

CacheTypeOK ==
  /\ Len(cache_line_list) <= MAX_CACHE_SIZE
  /\ \A k \in DOMAIN cache_line_list : cache_line_list[k].id \in 1..Len(prog)
  /\ pc \in 1..(MaxAccesses + 1) /\ Len(prog) <= MaxAccesses
  /\ tlb_resp \in {None} \union [hit : BOOLEAN]
  /\ s1 \in {None} \union [hsk : BOOLEAN]

\* No two lines are ever due at the same edge, so the cache never throws: a miss
\* avoids the delays of the other lines, a hit would not.
OneAnswerPerEdge == status = "ok"

Ids(Test(_)) == SelectSeq([k \in DOMAIN prog |-> k], Test)

\* Of the requests it was ready for the cache performs every access that is not I/O
\* exactly once and in program order: a request that was killed in the cycle after
\* it was taken, and sent again, is performed once.  One more performance there is
\* only of a request taken in the place a kill has made in the full list, while
\* ready() showed none: the LSU sends that one again, so the next access performed
\* is the same, or the LSU is still sending it.
CachePerformsOnce ==
  LET shown == SelectSeq(cache_log, LAMBDA x : x[2])
  IN /\ IsPrefix([k \in DOMAIN shown |-> shown[k][1]], Ids(LAMBDA k : ~prog[k].io))
     /\ \A k \in DOMAIN cache_log : ~cache_log[k][2] =>
          IF k < Len(cache_log) THEN cache_log[k + 1] = <<cache_log[k][1], TRUE>>
          ELSE cache_log[k][1] = pc

\* A performance is answered once, and nothing is answered that was not performed.
AnsweredOnce ==
  /\ IsInjective(answers)
  /\ ToSet(answers) \subseteq ToSet(cache_log)

\* The bus performs the words of an I/O access once and in order.
BusPerformsOnce ==
  /\ \A k \in DOMAIN bus_log : IsIo(bus_log[k][1])
  /\ \A j, k \in DOMAIN bus_log : j < k =>
       \/ bus_log[j][1] < bus_log[k][1]
       \/ bus_log[j][1] = bus_log[k][1] /\ bus_log[j][2] < bus_log[k][2]

\* Access k has reached the LSU and has no answer yet, which is then final.
Waiting(k) ==
  /\ Arrived(k)
  /\ IF prog[k].io THEN pc <= k \/ (bus_ctrl # None /\ bus_ctrl.id = k)
                   ELSE <<k, TRUE>> \notin ToSet(answers)
=============================================================================
