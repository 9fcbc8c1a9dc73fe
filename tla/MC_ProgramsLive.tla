-------------------------- MODULE MC_ProgramsLive --------------------------
(***************************************************************************)
(* What the programs do eventually.  A clock makes every step visible, one *)
(* in which nothing else changes included: the loops of the programs go    *)
(* on, so the clock does.  (A step of some program is always possible: the *)
(* run checks that there is no deadlock.  Fairness of the clock is then    *)
(* fairness of Next, and TLC evaluates it much faster.)                    *)
(***************************************************************************)
EXTENDS MC_Programs

VARIABLE clk
liveVars == <<vars, clk>>

Tock == clk' = 1 - clk

LiveInit == Init /\ clk = 0
LiveNext == Next /\ Tock

\* The LSU test makes its next request at last, and the devices under test do not
\* hold for ever what they may perform, answer, send or report.
FairSpec ==
  /\ LiveInit /\ [][LiveNext]_liveVars /\ WF_clk(Tock)
  /\ []<>(IF bench = "lsu" THEN Lsu!Drawn ELSE TRUE)
  /\ []<>(IF bench = "lsu" THEN Lsu!Performed ELSE TRUE)
  /\ \A k \in 1..2 : []<>(IF bench = "lsu" THEN Lsu!Responded(k) ELSE TRUE)
  /\ []<>(IF bench = "axi" THEN w_todo = << >> ELSE TRUE)
  /\ []<>(IF bench = "axi" THEN Axi!Received ELSE TRUE)
  /\ []<>(IF bench = "nblsu" THEN Nb!Sent ELSE TRUE)
  /\ []<>(IF bench = "nblsu" THEN Nb!Reported ELSE TRUE)

-----------------------------------------------------------------------------
(* Properties *)

\* Every access is answered by the fake cache or the fake bus: none waits for ever.
EveryAccessAnswered ==
  \A k \in 1..CacheAccesses : []<>(IF bench = "cache" THEN ~Cache!Waiting(k) ELSE TRUE)

\* Only one thing keeps the test of the non-blocking LSU from its end, and it is in the
\* test: a store on the bus, which is never acknowledged.  But for that the last
\* request leaves both queues and the test passes, unless its time is up before: the
\* answer of a load is not lost in the memory or taken by another access.
RandomTestEnds ==
  \/ <>(status \in {"done", "timeout"})
  \/ <>[](IF bench = "nblsu" THEN Nb!StoreOnBus ELSE FALSE)

\* The programs get done.  The random test of the LSU (no wake-up is lost) ends and
\* passes if its time is long enough, and so does that of the non-blocking LSU if it
\* does not store over the bus; every access to the fake cache, the fake bus and the
\* memory behind the L1D cache is answered; with a cycle limit the simulator ends,
\* whatever the core does.
ProgramsEnd ==
  /\ bench = "lsu" => Lsu!TestEnds
  /\ bench = "nblsu" => RandomTestEnds
  /\ EveryAccessAnswered
  /\ bench = "axi" => Axi!AllAnswered
  /\ bench = "simulator" => Sim!EndsWithinLimit
=============================================================================
