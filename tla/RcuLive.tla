------------------------------ MODULE RcuLive ------------------------------
(***************************************************************************)
(* Progress of the RCU.  Interrupts are left out: one empties the ROB and    *)
(* would hide a machine that is stuck.  The variable clk makes every clock   *)
(* edge a step, also one that leaves the state as it was, so that the clock   *)
(* runs for ever and a stuck machine is a behaviour that ticks for ever.      *)
(***************************************************************************)
EXTENDS Rcu

VARIABLE clk

liveVars == <<rcuVars, clk>>

LiveInit == RcuInit /\ clk = FALSE

LiveFlush ==
  /\ CommitFault
  /\ RcuFlush
  /\ clk' = ~clk

LiveAdvance ==
  /\ \E R \in Responding, dec \in DecodeWindows : \E lsu_takes \in LsuHandshakes(R) :
       RcuAdvance(R, dec, lsu_takes)
  /\ clk' = ~clk

LiveNext == LiveFlush \/ LiveAdvance

\* The clock is always able to tick (deadlock is checked), so this is weak
\* fairness of LiveNext.
ClockTicks == []<><<clk' # clk>>_clk

\* The multiplier/divider is a state machine that always ends.
MdAnswers == []<>(md_active = << >>)

\* The load/store unit is assumed to take a request it can take ...
LsuTakes == \/ []<>(TRUE \notin LsuHandshakes({}))
            \/ []<><<lsq' \ lsq # {}>>_lsq

\* ... and to answer every load, and every store that was woken up.
LsuAnswers == \A s \in Slots : []<>(\A p \in lsq : p.idx = s => ~LsuMayFinish(p))

LiveSpec ==
  /\ LiveInit /\ [][LiveNext]_liveVars
  /\ ClockTicks
  /\ MdAnswers
  /\ LsuTakes
  /\ LsuAnswers

\* Every instruction that enters the ROB leaves it, by commit or by a trap or
\* misprediction of an instruction on its path: no mixture of full queues,
\* blocked loads and stores, sources that are not available (p0 included, see
\* Allocated) and slow units stops the machine.
EveryEntryLeaves == \A s \in Slots : rob_used[s] ~> ~rob_used[s]
=============================================================================
