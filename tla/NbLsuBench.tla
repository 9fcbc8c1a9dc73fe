----------------------------- MODULE NbLsuBench -----------------------------
(***************************************************************************)
(* The random test of the non-blocking LSU (sim/selfcheck/nblsu.cpp): a queue   *)
(* of requests to make, a queue of requests that wait to be done, a memory of    *)
(* class PerfectMem in its random mode behind the LSU, and a second memory that   *)
(* is written when a store is done and tells what a load must bring.             *)
(*                                                                             *)
(* The LSU (not in the repository) is its contract, read off the test: a queue    *)
(* of LSQ_DEPTH requests whose ready bit says that there is room, which sends     *)
(* them in order when the memory is ready, takes answers by index, and reports     *)
(* them done in order.  Half of the requests have an I/O address: these go over    *)
(* Wishbone, when they are the oldest and with nothing behind them under way, and   *)
(* stay on the bus until wb_ack_i, which the test wires to the answers of reads.    *)
(*                                                                             *)
(* A step is one odd value of main_time, the rising edge.                         *)
(***************************************************************************)
EXTENDS Naturals, Sequences, SequencesExt

CONSTANTS
  Addrs,        \* addresses of the requests
  TestNum,      \* RANDOM_TEST_NUM
  LSQ_DEPTH,    \* entries of the LSU
  MSHR_DEPTH, DELAY,
  None

NbAssumption ==
  /\ TestNum \in Nat \ {0}
  /\ LSQ_DEPTH \in Nat /\ LSQ_DEPTH > 1   \* the test reads an empty queue for one entry
  /\ MSHR_DEPTH \in Nat \ {0} /\ DELAY \in Nat \ {0}

VARIABLES
  front,        \* front of req_que, or None when it is empty
  made,         \* requests taken from req_que, front included
  wait_que,
  mshr,         \* _req_que of the memory
  mem,          \* _mem behind the LSU
  correct_mem,
  lsq,          \* the LSU
  status

vars == <<front, made, wait_que, mshr, mem, correct_mem, lsq, status>>

Entries == 0..(MSHR_DEPTH - 1)
Request(op, a, o, n) == [opcode |-> op, addr |-> a, io |-> o, data |-> n]
\* The n-th request: a load, or a store of a value of its own.  An I/O address is
\* another one (mapping) of the same memory word.
Requests(n) == {Request("load", a, o, 0) : a \in Addrs, o \in BOOLEAN}
               \union {Request("store", a, o, n) : a \in Addrs, o \in BOOLEAN}

-----------------------------------------------------------------------------
(* The memory *)

\* The loop leaves after its first round: only entry 0 is looked at.
mem_ready == ~mshr[0].valid

\* The first free entry.
new_entry == CHOOSE i \in Entries : ~mshr[i].valid /\ \A j \in 0..(i - 1) : mshr[j].valid

\* The delay is raised until no other entry, free ones too, has the same.
handle_delay_conflict(index, d) ==
  CHOOSE x \in d..(d + MSHR_DEPTH) :
    /\ \A i \in Entries \ {index} : mshr[i].delay # x
    /\ \A y \in d..(x - 1) : \E i \in Entries \ {index} : mshr[i].delay = y

\* The data is read when the request comes.
Read(e, id, d) ==
  [mshr EXCEPT ![new_entry] = [valid |-> TRUE, delay |-> handle_delay_conflict(new_entry, d),
                               id |-> id, data |-> mem[e.addr]]]

\* The entry that answers, or None.
Answering ==
  IF \E i \in Entries : mshr[i].valid /\ mshr[i].delay = 0
  THEN CHOOSE i \in Entries : /\ mshr[i].valid /\ mshr[i].delay = 0
                              /\ \A j \in 0..(i - 1) : ~(mshr[j].valid /\ mshr[j].delay = 0)
  ELSE None

\* The LSU is always ready: the first entry whose delay is over is given free.
Freed(m) ==
  LET over == {i \in Entries : m[i].valid /\ m[i].delay = 0}
  IN [i \in Entries |-> IF i \in over /\ \A j \in over : i <= j
                        THEN [m[i] EXCEPT !.valid = FALSE] ELSE m[i]]

\* "no entry should be both delay == 0 and valid when eval"
EvalThrows(m) == \E i \in Entries : Freed(m)[i].valid /\ Freed(m)[i].delay = 0

MemEval(m) ==
  [i \in Entries |-> IF Freed(m)[i].valid THEN [Freed(m)[i] EXCEPT !.delay = @ - 1] ELSE Freed(m)[i]]

-----------------------------------------------------------------------------
(* The LSU *)

lsu_ready(q) == Len(q) < LSQ_DEPTH

SendPos == SelectInSeq(lsq, LAMBDA e : ~e.sent)

\* The next request can go: over the bus as the oldest, or to the memory when no I/O
\* access ahead of it is open.
MaySend ==
  /\ SendPos # 0
  /\ IF lsq[SendPos].io THEN SendPos = 1
     ELSE mem_ready /\ \A j \in 1..(SendPos - 1) : lsq[j].io => lsq[j].back

\* wb_stb_o: an access is on the bus.
Stb == lsq # << >> /\ Head(lsq).io /\ Head(lsq).sent /\ ~Head(lsq).back

MayBeDone ==
  /\ lsq # << >> /\ Head(lsq).sent
  /\ Head(lsq).back \/ (Head(lsq).opcode = "store" /\ ~Head(lsq).io)

Taken(r, id) ==
  [opcode |-> r.opcode, addr |-> r.addr, io |-> r.io, data |-> r.data, id |-> id,
   sent |-> FALSE, back |-> FALSE]

FreeIds == (0..LSQ_DEPTH) \ {lsq[k].id : k \in DOMAIN lsq}

\* An answer is for the access on the bus (wb_ack_i), or for the load it has the
\* index of.
Answered(k) ==
  /\ Answering # None
  /\ IF Stb THEN k = 1
     ELSE lsq[k].opcode = "load" /\ lsq[k].sent /\ mshr[Answering].id = lsq[k].id

LsuEdge(send, done) ==
  LET Stepped(k) ==
        LET hit == Answered(k) /\ lsq[k].opcode = "load"
        IN [lsq[k] EXCEPT !.sent = @ \/ (send /\ k = SendPos),
                          !.back = @ \/ Answered(k),
                          !.data = IF hit THEN mshr[Answering].data ELSE @]
      stepped == [k \in DOMAIN lsq |-> Stepped(k)]
      kept == IF done THEN Tail(stepped) ELSE stepped
  IN IF front # None /\ lsu_ready(lsq)
     THEN Append(kept, Taken(front, CHOOSE i \in FreeIds : \A j \in FreeIds : i <= j))
     ELSE kept

-----------------------------------------------------------------------------
(* The test *)

Init ==
  /\ front \in Requests(1) /\ made = 1 /\ wait_que = << >>
  /\ mshr = [i \in Entries |-> [valid |-> FALSE, delay |-> 0, id |-> 0, data |-> 0]]
  /\ mem = [a \in Addrs |-> 0] /\ correct_mem = [a \in Addrs |-> 0]
  /\ lsq = << >> /\ status = "run"

Running == status = "run" /\ (front # None \/ wait_que # << >>)

\* "req done": the oldest waiting request against the second memory.
DoneAlarm ==
  Head(wait_que).opcode = "load" /\ Head(lsq).data # correct_mem[Head(wait_que).addr]

CorrectMemNext(done) ==
  IF done /\ Head(wait_que).opcode = "store"
  THEN [correct_mem EXCEPT ![Head(wait_que).addr] = Head(wait_que).data] ELSE correct_mem

\* "req in": a request has left req_que when the LSU is ready after the edge.
\* The LSU has taken it before the edge; it may have become full by that.
ReqIn(after) == front # None /\ lsu_ready(after)

\* The access that reaches the memory at this edge, or None: the one the LSU sends,
\* else the one on the bus, at every edge it is there and the memory is ready.
AtMemory(send) ==
  IF send /\ ~lsq[SendPos].io THEN lsq[SendPos]
  ELSE IF Stb /\ mem_ready THEN Head(lsq) ELSE None

\* The index noted with a bus read is wb_dat_o: it is that of no load under way.
Edge(send, done, d) ==
  LET acc == IF send => MaySend THEN AtMemory(send) ELSE None
      asked == IF acc # None /\ acc.opcode = "load"
               THEN Read(acc, IF acc.io THEN LSQ_DEPTH + 1 ELSE acc.id, d) ELSE mshr
      after == LsuEdge(send, done)
      left == IF done THEN Tail(wait_que) ELSE wait_que
  IN /\ Running
     /\ send => MaySend
     /\ done => MayBeDone
     /\ IF done /\ wait_que = << >>                  \* front() of an empty queue
        THEN status' = "undefined" /\ UNCHANGED <<front, made, wait_que, mshr, mem, correct_mem, lsq>>
        ELSE IF (done /\ DoneAlarm) \/ EvalThrows(asked)
        THEN status' = "alarm" /\ UNCHANGED <<front, made, wait_que, mshr, mem, correct_mem, lsq>>
        ELSE /\ mshr' = MemEval(asked)
             /\ mem' = IF acc # None /\ acc.opcode = "store"
                       THEN [mem EXCEPT ![acc.addr] = acc.data] ELSE mem
             /\ correct_mem' = CorrectMemNext(done)
             /\ lsq' = after
             /\ IF ReqIn(after)
                THEN /\ wait_que' = Append(left, front)
                     /\ IF made < TestNum
                        THEN front' \in Requests(made + 1) /\ made' = made + 1
                        ELSE front' = None /\ UNCHANGED made
                ELSE wait_que' = left /\ UNCHANGED <<front, made>>
             /\ UNCHANGED status

Tick == \E send, done \in BOOLEAN, d \in 1..DELAY : Edge(send, done, d)

\* main_time has come to MAX_TIME: the assertion after the loop fails.
TimeOut ==
  /\ status = "run" /\ status' = "timeout"
  /\ UNCHANGED <<front, made, wait_que, mshr, mem, correct_mem, lsq>>

\* final_check() and the assertion on it.
Finish ==
  /\ status = "run" /\ ~Running
  /\ status' = IF mem = correct_mem THEN "done" ELSE "mismatch"
  /\ UNCHANGED <<front, made, wait_que, mshr, mem, correct_mem, lsq>>

Exited == status # "run" /\ UNCHANGED vars

Next == Tick \/ TimeOut \/ Finish \/ Exited

\* The LSU sends what it holds and reports what is complete.
Sent == ~MaySend
Reported == ~MayBeDone

Spec == Init /\ [][Next]_vars /\ WF_vars(Next) /\ []<>Sent /\ []<>Reported

-----------------------------------------------------------------------------
(* Properties *)

\* The LSU holds the waiting requests in their order; only when it is full it may
\* hold one more, the one that the test still shows it, because the test looks at
\* the ready bit after the edge and the LSU has looked at it before.
LsuHoldsWaiting ==
  LET Req(e) == <<e.opcode, e.addr, e.io>>
      held == IF front # None /\ ~lsu_ready(lsq) THEN Append(wait_que, front) ELSE wait_que
  IN status = "run" => [k \in DOMAIN lsq |-> Req(lsq[k])] = [k \in DOMAIN held |-> Req(held[k])]

\* No alarm, no read of an empty queue, no exception of the memory and equal
\* memories at the end for an LSU that keeps its contract, although it sends stores
\* while older loads wait for their answers and cached and I/O accesses change the
\* same words.  (Time may still run out.)
RightLsuPasses == status \in {"run", "done", "timeout"}

\* A store is on the bus.  The test wires wb_ack_i to the valid bit of a read's
\* answer: the store is written at every edge and never acknowledged.
StoreOnBus == Stb /\ Head(lsq).opcode = "store"
=============================================================================
