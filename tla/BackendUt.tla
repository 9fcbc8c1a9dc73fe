----------------------------- MODULE BackendUt -----------------------------
(***************************************************************************)
(* The unit test of the back end (ut/backend.cpp).  It feeds decoded         *)
(* instructions from a CSV file to the back end and answers its loads from a  *)
(* memory image, a list of lines of sixteen hexadecimal digits.  A step is     *)
(* half a clock cycle of the main loop: at the falling edge the ports of the    *)
(* back end are set, at the rising edge the back end takes its step; after      *)
(* both, the request the back end shows is noted.                               *)
(*                                                                             *)
(* The back end itself is not in the repository any more.  It appears as its     *)
(* ports are used: it takes the instruction on its ports when its ROB has         *)
(* room, shows the request of a load for the cycle in which it is accepted         *)
(* (req_ready_i), and finishes the load when an answer with its index comes.        *)
(***************************************************************************)
EXTENDS Naturals, Integers, Sequences, SequencesExt

CONSTANTS
  CsvLines,       \* instructions of the CSV file: [load, addr, size]
  MaxLines,       \* lines of the file
  ROB_SIZE,       \* entries of the back end
  MemLines,       \* lines of the memory image
  None

Addresses == 0..(8 * MemLines - 1)

\* Requests that the back end shows.
Requests == [lsq : 0..(ROB_SIZE - 1), addr : Addresses, size : 0..3]

BackendAssumption ==
  /\ MaxLines \in Nat /\ ROB_SIZE \in Nat \ {0} /\ MemLines \in Nat \ {0}
  /\ \A l \in CsvLines : l.load \in BOOLEAN /\ l.size \in 0..3 /\ l.addr \in Addresses
  /\ None \notin [n : Nat, load : BOOLEAN, addr : Addresses, size : 0..3]

VARIABLES
  half,           \* the next half cycle: "neg" or "pos"
  nread,          \* lines read from the file
  shown,          \* the instruction on the ports, or None before the first
  resp,           \* the answer on the ports, or None
  pend,           \* addr, lsq and size with valid: the request noted, or None
  status,         \* "run", "end" of the loop, "thrown" by m_mem.at()
  rob, req,       \* the back end: its instructions, and the request it shows
  taken           \* history: the lines the back end took

benchVars == <<nread, shown, resp, pend, status>>
vars == <<half, benchVars, rob, req, taken>>

-----------------------------------------------------------------------------
(* The answer: digits of the memory image *)

\* The digits of a line, the most significant first; all digits are different.
m_mem(i) == [p \in 1..16 |-> <<i, p - 1>>]

\* std::string::substr: from a position, at most so many characters.
substr(s, pos, len) == SubSeq(s, pos + 1, IF pos + len < Len(s) THEN pos + len ELSE Len(s))

\* pow(2, size + 1): the digits of an access.
Digits(size) == <<2, 4, 8, 16>>[size + 1]

Start(addr, size) == 15 - 2 * (addr % 8) - Digits(size) + 1
End(addr) == 15 - 2 * (addr % 8)

\* An access whose first digit is left of the line goes on in the line before.
resp_data(addr, size) ==
  LET idx == addr \div 8
      start == Start(addr, size)
  IN IF start >= 0 THEN substr(m_mem(idx), start, End(addr))
     ELSE substr(m_mem(idx - 1), 16 + start, 15) \o substr(m_mem(idx), 0, End(addr))

\* m_mem.at() of the line before the first.
OutOfRange(r) == r # None /\ Start(r.addr, r.size) < 0 /\ r.addr < 8

-----------------------------------------------------------------------------
(* The back end *)

rob_ready_out == Len(rob) < ROB_SIZE

Accepted(line) == [lsq |-> line.n % ROB_SIZE, load |-> line.load, addr |-> line.addr,
                   size |-> line.size, sent |-> FALSE, done |-> ~line.load]

\* Its rising edge: the answer, a commit (com), the instruction on the ports, and
\* the next request shown (pos, a position of the ROB, or 0).
BackendEdge(com, pos) ==
  LET sent == [k \in DOMAIN rob |->
                 IF req # None /\ rob[k].load /\ rob[k].lsq = req.lsq
                 THEN [rob[k] EXCEPT !.sent = TRUE] ELSE rob[k]]
      answered == [k \in DOMAIN sent |->
                 IF resp # None /\ sent[k].sent /\ sent[k].lsq = resp.lsq
                 THEN [sent[k] EXCEPT !.done = TRUE] ELSE sent[k]]
      takes == shown # None /\ rob_ready_out
      entered == IF takes THEN Append(answered, Accepted(shown)) ELSE answered
  IN /\ com => rob # << >> /\ answered[1].done
     /\ pos # 0 => pos \in DOMAIN entered /\ entered[pos].load /\ ~entered[pos].sent
                   /\ ~(com /\ pos = 1)
     /\ req' = IF pos = 0 THEN None
               ELSE [lsq |-> entered[pos].lsq, addr |-> entered[pos].addr, size |-> entered[pos].size]
     /\ rob' = IF com THEN Tail(entered) ELSE entered
     /\ taken' = IF takes THEN Append(taken, shown.n) ELSE taken

-----------------------------------------------------------------------------
(* The main loop *)

\* The request on the ports after eval(); the ports of the back end are registers.
Noted(r) == r

Init ==
  /\ half = "pos" /\ nread = 0 /\ shown = None /\ resp = None /\ pend = None
  /\ status = "run" /\ rob = << >> /\ req = None /\ taken = << >>

\* A plausible slip: a line is read at every falling edge.
ReadsLineAlways == TRUE

\* "if ready then read CSV"
ReadsLine == rob_ready_out

\* The answer to the noted request.
Answer(r) == IF r = None THEN None
             ELSE [lsq |-> r.lsq, addr |-> r.addr, size |-> r.size, data |-> resp_data(r.addr, r.size)]

\* None is no answer to a request.
AnswerAssumption == \A r \in Requests : Answer(r) = None => r = None

\* The falling edge: the next line and, in the same branch, the answer to the
\* noted request; otherwise the ports keep what they have.
NegEdge(line) ==
  /\ status = "run" /\ half = "neg" /\ half' = "pos"
  /\ CASE ~ReadsLine -> pend' = Noted(req) /\ UNCHANGED <<nread, shown, resp, status>>
       [] ReadsLine /\ nread = MaxLines ->
            status' = "end" /\ UNCHANGED <<nread, shown, resp, pend>>
       [] ReadsLine /\ nread < MaxLines /\ OutOfRange(pend) ->
            status' = "thrown" /\ UNCHANGED <<nread, shown, resp, pend>>
       [] OTHER ->
            /\ nread' = nread + 1
            /\ shown' = [n |-> nread + 1, load |-> line.load, addr |-> line.addr, size |-> line.size]
            /\ resp' = Answer(pend)
            /\ pend' = Noted(req)
            /\ UNCHANGED status
  /\ UNCHANGED <<rob, req, taken>>

\* The rising edge.
PosEdge(com, pos) ==
  /\ status = "run" /\ half = "pos" /\ half' = "neg"
  /\ BackendEdge(com, pos)
  /\ pend' = Noted(req')
  /\ UNCHANGED <<nread, shown, resp, status>>

\* The loop ends at MAX_TIME, wherever it is then.
TimeOut == status = "run" /\ status' = "end"
           /\ UNCHANGED <<half, nread, shown, resp, pend, rob, req, taken>>

Exited == status # "run" /\ UNCHANGED vars

Next == \/ \E line \in CsvLines : NegEdge(line)
        \/ \E com \in BOOLEAN, pos \in 0..ROB_SIZE : PosEdge(com, pos)
        \/ TimeOut
        \/ Exited

Spec == Init /\ [][Next]_vars

-----------------------------------------------------------------------------
(* Properties *)

\* The back end takes every line of the file once and in order, although the
\* instruction stays on the ports, valid, while the ROB is full.
LinesTakenOnce ==
  /\ taken = [k \in DOMAIN taken |-> k]
  /\ Len(taken) \in {nread, nread - 1}
  /\ half = "neg" /\ rob_ready_out => Len(taken) = nread

\* While the ROB has room an answer belongs to the request that is accepted with
\* it, and there is one whenever there is a request.
AnswerOfThisRequest ==
  status = "run" /\ half = "pos" /\ rob_ready_out /\ shown # None =>
    IF req = None THEN resp = None ELSE resp # None /\ resp.lsq = req.lsq

\* The bytes of the access, the most significant digit first.
BytesAt(addr, size) ==
  [p \in 1..Digits(size) |->
     LET byte == addr + Digits(size) \div 2 - 1 - (p - 1) \div 2
     IN <<byte \div 8, 14 - 2 * (byte % 8) + ((p - 1) % 2)>>]

\* A load of up to a word from the start of a line gets the bytes of its address.
LowLoadsRight ==
  resp # None /\ resp.addr % 8 = 0 /\ resp.size < 3 => resp.data = BytesAt(resp.addr, resp.size)
=============================================================================
