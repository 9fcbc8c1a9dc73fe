------------------------------- MODULE AxiMem -------------------------------
(***************************************************************************)
(* The memory behind the level-one data cache in the bench of sim/l1d (class  *)
(* FakeMemory): read requests, write requests and write beats arrive on three  *)
(* channels and wait in one list, each with a random delay; they are served in  *)
(* the order of that list, a write once its beats are complete, and answered    *)
(* through one list of responses, one per clock edge.                           *)
(*                                                                             *)
(* The cache (a submodule whose source is not in the repository) is a client    *)
(* that keeps the rules of the bus: it sends the beats of its writes in order,   *)
(* at or after the edge of their address.  Its ready bits are free at every       *)
(* edge.  The memory drops an answer from its list in the edge that puts it on     *)
(* the port, if the ready bit was set before that edge; the cache sees the answer   *)
(* only after it.                                                                  *)
(***************************************************************************)
EXTENDS Naturals, Sequences, SequencesExt

CONSTANTS
  DataLines,      \* lines in DATA_PADDR_BASE .. DATA_PADDR_UPPER
  PageLines,      \* lines of the page table: read only
  Ids,            \* identifiers of read requests
  Delays,         \* MEM_BASE_DELAY + random() % MEM_MAX_DELAY
  BURST_NUM,      \* beats of a line
  MaxRequests,    \* bound: requests of a behaviour
  None

Lines == DataLines \union PageLines
Burst == 1..BURST_NUM

\* Beats, named by line, write and place, and what the memory answers with them.
Beats == Lines \X (0..MaxRequests) \X Burst
Answers == [r : BOOLEAN, id : Ids \union {0}, data : Beats \union {None}, last : BOOLEAN]

AxiAssumption ==
  /\ DataLines \cap PageLines = {} /\ Delays \subseteq Nat
  /\ BURST_NUM \in Nat \ {0} /\ MaxRequests \in Nat
  /\ None \notin Beats /\ None \notin Answers

VARIABLES
  wait_q,     \* _req_wait_q
  resp_q,     \* _resp_q
  mem,        \* _mem and _pagetable, by line: the beats of the line
  port,       \* _r_resp or _b_resp, whichever is valid, or None
  popped,     \* the answer on the port has left _resp_q
  status,
  w_todo,     \* the cache: write beats it has still to send
  due,        \* the answers it is owed, in order, and that were not given away
  latest,     \* each line as its writes so far leave it
  sent        \* requests sent

memVars == <<wait_q, resp_q, mem, port, popped, status>>
vars == <<memVars, w_todo, due, latest, sent>>

\* The beats of a line after its n-th write.
Version(line, n) == [i \in Burst |-> <<line, n, i>>]

RResp(id, beat, i) == [r |-> TRUE, id |-> id, data |-> beat, last |-> i = BURST_NUM]
BResp == [r |-> FALSE, id |-> 0, data |-> None, last |-> FALSE]

-----------------------------------------------------------------------------
(* FakeMemory::eval() *)

ArReq(id, line, d) == [ar |-> TRUE, id |-> id, line |-> line, w |-> << >>, delay |-> d]
AwReq(line, d) == [ar |-> FALSE, id |-> 0, line |-> line, w |-> << >>, delay |-> d]

\* The write that a beat belongs to: the first one that is not complete, or 0.
WTarget(q) == SelectInSeq(q, LAMBDA e : ~e.ar /\ Len(e.w) < BURST_NUM)

\* A plausible slip: the beat goes to the youngest write.
TakeBeatBack(q, w) ==
  LET k == SelectLastInSeq(q, LAMBDA e : ~e.ar /\ Len(e.w) < BURST_NUM)
  IN IF w = None \/ k = 0 THEN q ELSE [q EXCEPT ![k].w = Append(@, w)]

TakeBeat(q, w) ==
  IF w = None \/ WTarget(q) = 0 THEN q ELSE [q EXCEPT ![WTarget(q)].w = Append(@, w)]

CountDown(q) ==
  [k \in DOMAIN q |-> [q[k] EXCEPT !.delay = IF @ > 0 THEN @ - 1 ELSE 0]]

Complete(e) == e.delay = 0 /\ (e.ar \/ Len(e.w) = BURST_NUM)

\* How many requests move from the wait queue: the complete ones at its front.
Moving(q) ==
  LET k == SelectInSeq(q, LAMBDA e : ~Complete(e)) IN IF k = 0 THEN Len(q) ELSE k - 1

InvalidAccess(e) == e.line \notin (IF e.ar THEN Lines ELSE DataLines)

AnswerTo(e, m) ==
  IF e.ar THEN [i \in Burst |-> RResp(e.id, m[e.line][i], i)] ELSE <<BResp>>

Written(e, m) ==
  IF e.ar THEN m
  ELSE [m EXCEPT ![e.line] = [i \in Burst |-> IF i <= Len(e.w) THEN e.w[i] ELSE None]]

\* The moved requests are handled in turn.
Served(q) ==
  LET S[k \in 0..Len(q)] ==
        IF k = 0 THEN [m |-> mem, out |-> resp_q]
        ELSE LET p == S[k - 1]
             IN [m |-> Written(q[k], p.m), out |-> p.out \o AnswerTo(q[k], p.m)]
  IN S[Len(q)]

Arrived(aw, ar) ==
  wait_q \o (IF aw = None THEN << >> ELSE <<aw>>) \o (IF ar = None THEN << >> ELSE <<ar>>)

\* A beat that no write waits for.
BeatAlone(aw, ar, w) == w # None /\ WTarget(Arrived(aw, ar)) = 0

\* What is sent at this edge stays at the front unless the ready bit of its
\* channel (_b_rdy or _r_rdy), sampled before the edge, is set.
SendResp(out, rdy) ==
  /\ port' = IF out = << >> THEN None ELSE Head(out)
  /\ popped' = (out # << >> /\ rdy)
  /\ resp_q' = IF out # << >> /\ rdy THEN Tail(out) ELSE out

\* The loop that moves requests reads front() also when the list has become
\* empty.  What it finds there is not determined: if it looks like a complete
\* request, the list is corrupted.
Eval(aw, ar, w, rdy) ==
  LET q == CountDown(TakeBeat(Arrived(aw, ar), w))
      n == Moving(q)
      moved == SubSeq(q, 1, n)
      served == Served(moved)
  IN IF BeatAlone(aw, ar, w) \/ \E k \in 1..n : InvalidAccess(moved[k])
     THEN status' = "alarm" /\ UNCHANGED <<wait_q, resp_q, mem, port, popped>>
     ELSE /\ wait_q' = SubSeq(q, n + 1, Len(q))
          /\ mem' = served.m
          /\ SendResp(served.out, rdy)
          /\ status' \in IF n = Len(q) THEN {"run", "undefined"} ELSE {"run"}

-----------------------------------------------------------------------------
(* The cache, and the wiring of the main loop *)

Init ==
  /\ wait_q = << >> /\ resp_q = << >> /\ port = None /\ popped = FALSE /\ status = "run"
  /\ mem = [l \in Lines |-> Version(l, 0)]
  /\ w_todo = << >> /\ due = << >> /\ sent = 0
  /\ latest = [l \in Lines |-> Version(l, 0)]

AwChoices(n) == {None} \union {AwReq(l, d) : l \in {x \in DataLines : n < MaxRequests}, d \in Delays}
ArChoices(n) == {None} \union {ArReq(i, l, d) : i \in {x \in Ids : n < MaxRequests}, l \in Lines, d \in Delays}

\* The write that the cache makes of a line at this edge; its beats go to the
\* end of the beats to send, the first of which may go at once.  An answer is given
\* away when it was on the port and has left the list of the memory.
Edge(aw, ar, beat, rdy) ==
  LET now == IF aw = None THEN latest ELSE [latest EXCEPT ![aw.line] = Version(aw.line, sent + 1)]
      todo == IF aw = None THEN w_todo ELSE w_todo \o now[aw.line]
      owed == (IF aw = None THEN << >> ELSE <<BResp>>)
              \o (IF ar = None THEN << >>
                  ELSE [i \in Burst |-> RResp(ar.id, now[ar.line][i], i)])
      given == IF port # None /\ popped THEN 1 ELSE 0
  IN /\ status = "run"
     /\ beat => todo # << >>
     /\ Eval(aw, ar, IF beat THEN Head(todo) ELSE None, rdy)
     /\ w_todo' = IF beat THEN Tail(todo) ELSE todo
     /\ latest' = now
     /\ due' = SubSeq(due, given + 1, Len(due)) \o owed
     /\ sent' = sent + (IF aw = None THEN 0 ELSE 1) + (IF ar = None THEN 0 ELSE 1)

Tick ==
  \E aw \in AwChoices(sent) :
    \E ar \in ArChoices(IF aw = None THEN sent ELSE sent + 1), beat \in BOOLEAN, rdy \in BOOLEAN :
      Edge(aw, ar, beat, rdy)

Stopped == status # "run" /\ UNCHANGED vars

Next == Tick \/ Stopped

Spec == Init /\ [][Next]_vars

\* The loop goes on, the cache sends its beats, and it does not refuse an answer for
\* ever.
Received == port = None \/ popped

FairSpec == Spec /\ WF_vars(Next) /\ []<>(w_todo = << >>) /\ []<>Received

-----------------------------------------------------------------------------
(* Properties *)

AxiTypeOK ==
  /\ \A k \in DOMAIN wait_q : wait_q[k].line \in Lines /\ Len(wait_q[k].w) \in 0..BURST_NUM
  /\ mem \in [Lines -> [Burst -> Beats]]
  /\ sent \in 0..MaxRequests /\ popped \in BOOLEAN /\ status \in {"run", "alarm", "undefined"}

\* What the memory puts on its port is what the cache is owed, in the order of its
\* requests, however the ready bits move: an answer is shown from the edge it is due
\* until one at which its ready bit is set, and then the next one; none is left out.
\* The beats of a read carry its identifier and the line as the last write before it
\* left it, the last one marked, although that write may still have waited for its
\* beats, and beats and addresses of several writes mix with reads of any delay.
\* (The cache takes an answer with the ready bit of the edge after the one that
\* showed it: if the bit falls between the two the cache misses that answer, if it
\* rises the cache gets it twice.  Only a cache whose ready bits do not move while
\* answers come takes each of them once.)
AnswersInOrder == status = "run" /\ port # None => due # << >> /\ port = Head(due)

\* A client that keeps the rules of the bus does not make eval() throw, not even
\* when the first beat of a write comes with its address.
NoThrow == status # "alarm"

\* Every answer is given away, however the delays and the ready bits fall; unless front() of the
\* empty list has stopped the bench.
AllAnswered == <>(status = "undefined") \/ []<>(due = << >>)
=============================================================================
