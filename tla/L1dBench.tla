------------------------------ MODULE L1dBench ------------------------------
(***************************************************************************)
(* The random unit test of the level-one data cache (sim/l1d): the fake RCU    *)
(* and the monitor of the LSU test with these differences.  ROB indices start   *)
(* at 0, so that there is one for every entry of the RCU; the fence bit is not   *)
(* wired and the monitor does not check fences; there is no comparison of the    *)
(* memories at the end (the cache may still hold dirty lines); and main() does    *)
(* its own cleaning up, which is modelled here to the printed verdict.            *)
(***************************************************************************)
EXTENDS LsuBench

VARIABLES
  freed,      \* monitor, RCU and memories were deleted
  verdict     \* what main() printed at the end, or None

l1dVars == <<vars, freed, verdict>>

\* The request as it is wired to the LSU.
Wired == IF lsu_req = None THEN None ELSE [lsu_req EXCEPT !.is_fenced = FALSE]

\* eval() of the monitor, where it does not throw.
L1dMonitorEval(gen) == TrafficEval(gen) /\ UNCHANGED fenced

\* eval() of the fake RCU, which tests for an empty list before it commits.
L1dRcuEval(rdy, new_req, resp) == RcuEval(rdy, new_req, resp)

-----------------------------------------------------------------------------
(* main() *)

L1dInit == Init /\ freed = FALSE /\ verdict = None

\* A rising edge.  When eval() throws, the handler deletes everything.
L1dEdge(iss, ans, gen) ==
  /\ status = "run" /\ ~ut_done
  /\ IF CommitAlarm
     THEN status' = "alarm" /\ freed' = TRUE /\ UNCHANGED <<rcuVars, monVars, lsq, head, real_mem>>
     ELSE /\ L1dMonitorEval(gen)
          /\ L1dRcuEval(lsu_rdy(ans), mon_req, Comm(ans))
          /\ LsuStep(iss, ans, Wired)
          /\ UNCHANGED <<status, freed>>
  /\ UNCHANGED verdict

L1dTick ==
  \E iss \in IssueChoices, ans \in AnswerChoices, gen \in GenChoices : L1dEdge(iss, ans, gen)

\* The loop ends: the test is complete, or MAX_TIME has come.
LoopEnds ==
  /\ status = "run"
  /\ status' = IF ut_done THEN "done" ELSE "timeout"
  /\ UNCHANGED <<rcuVars, monVars, lsq, head, real_mem, freed, verdict>>

\* Everything is deleted, for the second time after a throw; then the deleted
\* monitor is asked whether the test is complete.
CleanUp ==
  /\ status # "run" /\ verdict = None
  /\ verdict' \in {"test done", "test fail"} \union (IF freed THEN {"crash"} ELSE {})
  /\ freed' = TRUE
  /\ UNCHANGED vars

L1dExited == verdict # None /\ UNCHANGED l1dVars

L1dNext == L1dTick \/ LoopEnds \/ CleanUp \/ L1dExited

L1dSpec == L1dInit /\ [][L1dNext]_l1dVars

-----------------------------------------------------------------------------
(* Properties *)

\* An answer belongs to the request it was made for: when the LSU answers, the
\* entry of the RCU with that ROB index is the issued one with the same address,
\* although every index is in use when the RCU is full and the oldest index is
\* given out again in the edge after its commit.
AnswerFindsItsRequest ==
  \A k \in DOMAIN lsq : ~lsq[k].answered =>
    \E j \in DOMAIN rcu :
      /\ rcu[j].rob_index = lsq[k].rob_index /\ rcu[j].paddr = lsq[k].paddr
      /\ rcu[j].issued /\ ~rcu[j].done
      /\ \A i \in DOMAIN rcu : rcu[i].rob_index = rcu[j].rob_index => i = j
=============================================================================
