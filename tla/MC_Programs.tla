---------------------------- MODULE MC_Programs ----------------------------
(***************************************************************************)
(* The programs that simulate and test the core, each with its bounds.     *)
(* They are separate executables: the initial state chooses one of them    *)
(* (bench), it runs, and the variables of the others keep a value without  *)
(* meaning.  Programs that have a variable of the same name share it.      *)
(***************************************************************************)
EXTENDS ProgramParts

CONSTANTS Benches,        \* the programs to run
          LsuTests,       \* testcase_max of the LSU test
          LsuAddrs,       \* its addresses
          LsuDelays,      \* its wake-up delays
          CacheAccesses,  \* accesses of the LSU in front of the fake cache
          NbTests,        \* RANDOM_TEST_NUM of the non-blocking LSU test
          SimOptions      \* options on the simulator's command line

VARIABLES
  bench,
  rcu, lsu_req, new_comm, wake_up, mon_req, iss_que, req_iss_num, resp_comm_num,
  rd_free_list, fenced, perfect_mem, head, real_mem, freed, verdict,
  cache_line_list, cache_hit_set, hsk_q, ld_resp, tlb_hit_set, delay_list, tlb_resp,
  bus_entry, bus_resp, prog, s1, phys, bus_ctrl, cache_log, bus_log, answers,
  front, made, wait_que, correct_mem, mshr,
  flushed, lock, delay, addr, resp_valid, wb_ack, cache, xfer,
  line, at, opt, ch, set, stage, global_flag, cycles, report, exit,
  lsq, bytes   \* shared by several programs

lsuVars == <<rcu, lsu_req, new_comm, wake_up, mon_req, iss_que, req_iss_num, resp_comm_num,
             rd_free_list, fenced, perfect_mem, head, real_mem>>
endVars == <<freed, verdict>>
cacheVars == <<cache_line_list, cache_hit_set, hsk_q, ld_resp, tlb_hit_set, delay_list, tlb_resp,
               bus_entry, bus_resp, prog, s1, phys, bus_ctrl, cache_log, bus_log, answers>>
axiVars == <<wait_q, resp_q, port, popped, w_todo, latest, sent>>
testVars == <<front, made, wait_que, correct_mem>>
wbVars == <<flushed, lock, delay, addr, resp_valid, wb_ack, cache, xfer>>
logVars == <<prf, mapped, preg, csr_monitor_read, csr_need_print, csr_name, csr_value, logged,
             orphan>>
utVars == <<half, nread, shown, resp, pend, req, taken>>
simVars == <<line, at, opt, ch, set, stage, global_flag, cycles, report, exit>>

vars == <<bench, lsuVars, endVars, cacheVars, axiVars, testVars, mshr, wbVars, logVars,
          utVars, simVars, memoryVars, status, lsq, mem, bytes, rob, pc, due>>

-----------------------------------------------------------------------------
(* The programs with their bounds *)

\* Loads and stores of two pages, and I/O in a third; the list of the fake cache has
\* room for two, so that it is full while a request is killed.
Accesses == [ls : BOOLEAN, io : {FALSE}, paddr : {16, 32}]
            \cup [ls : BOOLEAN, io : {TRUE}, paddr : {48}]

\* For a RAM of one word: one segment reaches in from below, the other lies above.
Segments == {[paddr |-> 9, words |-> <<[l \in Lanes |-> 1], [l \in Lanes |-> 0]>>],
             [paddr |-> 11, words |-> <<[l \in Lanes |-> 1]>>]}

\* The core loads, stores a byte, or reaches past the RAM.
CoreRequests == {None, Load(10), Load(Hole),
                 [adr |-> 10, we |-> TRUE, dat |-> [l \in Lanes |-> 1], sel |-> {0}]}

\* An ALU instruction, loads from the start of two lines, and one that leaves the
\* first line downwards.
FewLines == {[load |-> FALSE, addr |-> 0, size |-> 0], [load |-> TRUE, addr |-> 8, size |-> 0],
             [load |-> TRUE, addr |-> 16, size |-> 2], [load |-> TRUE, addr |-> 6, size |-> 2]}

Lsu == INSTANCE LsuBench WITH
  RCU_MAX_SIZE <- 4, FirstIndex <- 1, Addrs <- LsuAddrs, Delays <- LsuDelays,
  testcase_max <- LsuTests, RdRegs <- 6, LSQ_DEPTH <- 2
L1d == INSTANCE L1dBench WITH
  RCU_MAX_SIZE <- 3, FirstIndex <- 0, Addrs <- {1}, Delays <- {1},
  testcase_max <- 4, RdRegs <- 5, LSQ_DEPTH <- 2
Cache == INSTANCE CacheBench WITH
  MaxAccesses <- CacheAccesses, MAX_CACHE_SIZE <- 2, CACHE_HIT_BASE_DELAY <- 1,
  CacheMissDelays <- {2, 3}, TlbMissDelays <- {1, 2}, BusDelays <- {0, 2}
Doubles == INSTANCE FakeMem WITH Base <- 4, Words <- 1, StoreData <- {0, 45021}
Word32 == INSTANCE PerfectMem WITH B <- 2, Words <- 2
Nb == INSTANCE NbLsuBench WITH
  Addrs <- {1, 2}, TestNum <- NbTests, LSQ_DEPTH <- 3, MSHR_DEPTH <- 2, DELAY <- 3
Dc == INSTANCE DcacheBench WITH Sets <- 3, TestNum <- 5, LSQ_DEPTH <- 2, DELAY <- 3
Sim == INSTANCE Simulator WITH
  Limits <- {0, 2}, MaxOptions <- SimOptions, Garbage <- {ZeroWord},
  DataRequests <- CoreRequests, FetchRequests <- {None, Load(10)}

\* The bounds satisfy what the models assume of their parameters.
ASSUME BoundsAssumption ==
  /\ Lsu!RcuSizeAssumption /\ Lsu!FirstIndexAssumption /\ Lsu!BenchAssumption
  /\ L1d!RcuSizeAssumption /\ L1d!FirstIndexAssumption /\ L1d!BenchAssumption
  /\ Cache!CacheBenchAssumption /\ Doubles!MemAssumption /\ Word32!PerfectMemAssumption
  /\ Nb!NbAssumption /\ Dc!DcacheAssumption

-----------------------------------------------------------------------------
(* Behaviours *)

\* The values without meaning of the variables of programs that do not run.
LsuOff ==
  /\ rcu = None /\ lsu_req = None /\ new_comm = None /\ wake_up = None /\ mon_req = None
  /\ iss_que = None /\ req_iss_num = None /\ resp_comm_num = None /\ rd_free_list = None
  /\ fenced = None /\ perfect_mem = None /\ head = None /\ real_mem = None
EndOff ==
  /\ freed = None /\ verdict = None
CacheOff ==
  /\ cache_line_list = None /\ cache_hit_set = None /\ hsk_q = None /\ ld_resp = None
  /\ tlb_hit_set = None /\ delay_list = None /\ tlb_resp = None /\ bus_entry = None
  /\ bus_resp = None /\ prog = None /\ s1 = None /\ phys = None /\ bus_ctrl = None
  /\ cache_log = None /\ bus_log = None /\ answers = None
AxiOff ==
  /\ wait_q = None /\ resp_q = None /\ port = None /\ popped = None /\ w_todo = None
  /\ latest = None /\ sent = None
TestOff ==
  /\ front = None /\ made = None /\ wait_que = None /\ correct_mem = None
WbOff ==
  /\ flushed = None /\ lock = None /\ delay = None /\ addr = None /\ resp_valid = None
  /\ wb_ack = None /\ cache = None /\ xfer = None
LogOff ==
  /\ prf = None /\ mapped = None /\ preg = None /\ csr_monitor_read = None
  /\ csr_need_print = None /\ csr_name = None /\ csr_value = None /\ logged = None
  /\ orphan = None
UtOff ==
  /\ half = None /\ nread = None /\ shown = None /\ resp = None /\ pend = None /\ req = None
  /\ taken = None
SimOff ==
  /\ line = None /\ at = None /\ opt = None /\ ch = None /\ set = None /\ stage = None
  /\ global_flag = None /\ cycles = None /\ report = None /\ exit = None
MemoryOff == MemoryInit /\ data = [a \in Ram |-> ZeroWord]

\* The programs that use a group of variables.
UsesLsu == bench \in {"lsu", "l1d"}
UsesEnd == bench \in {"l1d"}
UsesCache == bench \in {"cache"}
UsesAxi == bench \in {"axi"}
UsesTest == bench \in {"nblsu", "dcache"}
UsesMshr == bench \in {"nblsu"}
UsesWb == bench \in {"dcache"}
UsesLog == bench \in {"tracelog"}
UsesUt == bench \in {"backend"}
UsesSim == bench \in {"simulator"}
UsesMemory == bench \in {"memory", "simulator"}
UsesStatus == bench \in {"lsu", "l1d", "cache", "axi", "nblsu", "dcache", "backend"}
UsesLsq == bench \in {"lsu", "l1d", "nblsu", "dcache"}
UsesMem == bench \in {"doubles", "words", "axi", "nblsu", "dcache"}
UsesBytes == bench \in {"doubles", "words"}
UsesRob == bench \in {"tracelog", "backend"}
UsesPc == bench \in {"cache", "tracelog"}
UsesDue == bench \in {"axi", "tracelog"}

\* At the start of a program the others are off.
OthersOff ==
  /\ IF UsesLsu THEN TRUE ELSE LsuOff
  /\ IF UsesEnd THEN TRUE ELSE EndOff
  /\ IF UsesCache THEN TRUE ELSE CacheOff
  /\ IF UsesAxi THEN TRUE ELSE AxiOff
  /\ IF UsesTest THEN TRUE ELSE TestOff
  /\ IF UsesMshr THEN TRUE ELSE mshr = None
  /\ IF UsesWb THEN TRUE ELSE WbOff
  /\ IF UsesLog THEN TRUE ELSE LogOff
  /\ IF UsesUt THEN TRUE ELSE UtOff
  /\ IF UsesSim THEN TRUE ELSE SimOff
  /\ IF UsesMemory THEN TRUE ELSE MemoryOff
  /\ IF UsesStatus THEN TRUE ELSE status = None
  /\ IF UsesLsq THEN TRUE ELSE lsq = None
  /\ IF UsesMem THEN TRUE ELSE mem = None
  /\ IF UsesBytes THEN TRUE ELSE bytes = None
  /\ IF UsesRob THEN TRUE ELSE rob = None
  /\ IF UsesPc THEN TRUE ELSE pc = None
  /\ IF UsesDue THEN TRUE ELSE due = None

\* A step of a program leaves the others alone.
Runs(b) ==
  /\ bench = b /\ UNCHANGED bench
  /\ IF UsesLsu THEN TRUE ELSE UNCHANGED lsuVars
  /\ IF UsesEnd THEN TRUE ELSE UNCHANGED endVars
  /\ IF UsesCache THEN TRUE ELSE UNCHANGED cacheVars
  /\ IF UsesAxi THEN TRUE ELSE UNCHANGED axiVars
  /\ IF UsesTest THEN TRUE ELSE UNCHANGED testVars
  /\ IF UsesMshr THEN TRUE ELSE UNCHANGED mshr
  /\ IF UsesWb THEN TRUE ELSE UNCHANGED wbVars
  /\ IF UsesLog THEN TRUE ELSE UNCHANGED logVars
  /\ IF UsesUt THEN TRUE ELSE UNCHANGED utVars
  /\ IF UsesSim THEN TRUE ELSE UNCHANGED simVars
  /\ IF UsesMemory THEN TRUE ELSE UNCHANGED memoryVars
  /\ IF UsesStatus THEN TRUE ELSE UNCHANGED status
  /\ IF UsesLsq THEN TRUE ELSE UNCHANGED lsq
  /\ IF UsesMem THEN TRUE ELSE UNCHANGED mem
  /\ IF UsesBytes THEN TRUE ELSE UNCHANGED bytes
  /\ IF UsesRob THEN TRUE ELSE UNCHANGED rob
  /\ IF UsesPc THEN TRUE ELSE UNCHANGED pc
  /\ IF UsesDue THEN TRUE ELSE UNCHANGED due

Init ==
  /\ bench \in Benches
  /\ OthersOff
  /\ \/ bench = "lsu" /\ Lsu!Init
     \/ bench = "l1d" /\ L1d!L1dInit
     \/ bench = "cache" /\ Cache!Init
     \/ bench = "doubles" /\ Doubles!Init
     \/ bench = "words" /\ Word32!Init
     \/ bench = "axi" /\ Axi!Init
     \/ bench = "nblsu" /\ Nb!Init
     \/ bench = "dcache" /\ Dc!Init
     \/ bench = "tracelog" /\ Trace!Init
     \/ bench = "backend" /\ Ut!Init
     \/ bench = "memory" /\ MemoryInit
     \/ bench = "simulator" /\ Sim!Init

Next ==
  \/ Runs("lsu") /\ Lsu!Next
  \/ Runs("l1d") /\ L1d!L1dNext
  \/ Runs("cache") /\ Cache!Next
  \/ Runs("doubles") /\ Doubles!Next
  \/ Runs("words") /\ Word32!Next
  \/ Runs("axi") /\ Axi!Next
  \/ Runs("nblsu") /\ Nb!Next
  \/ Runs("dcache") /\ Dc!Next
  \/ Runs("tracelog") /\ Trace!Next
  \/ Runs("backend") /\ Ut!Next
  \/ Runs("memory") /\ MemoryNext
  \/ Runs("simulator") /\ Sim!Next

Spec == Init /\ [][Next]_vars

-----------------------------------------------------------------------------
(* Properties: of the program that runs, those of its module *)

\* Lists, indices and memories of the LSU test, the fake cache, the memory behind
\* the L1D cache and the simulator's memory stay within their types.
ProgramsTypeOK ==
  /\ bench = "lsu" => Lsu!BenchTypeOK
  /\ bench = "cache" => Cache!CacheTypeOK
  /\ bench = "axi" => Axi!AxiTypeOK
  /\ bench = "memory" => MemoryTypeOK

\* The tests raise no alarm about a device that keeps its contract.  In the LSU and
\* the L1D test no check of the monitor fails and the memories are equal at the end,
\* although loads are performed long before they commit; a right non-blocking LSU is
\* not blamed, whatever the delays of the memory and however cached accesses and I/O
\* over Wishbone mix; a write-back cache passes, because the flush loads push out every
\* dirty word before the memories are compared.  (A test whose time is up stops at its
\* assertion without blaming the device; ProgramsEnd is about that.)
RightDevicesPass ==
  /\ bench \in {"lsu", "l1d"} => Lsu!NoFalseAlarm
  /\ bench = "nblsu" => Nb!RightLsuPasses
  /\ bench = "dcache" => Dc!RightDevicePasses

\* What a test believes to be in flight is in flight.  Monitor, fake RCU and LSU,
\* which learn of a request in different handshakes, hold the same requests in the
\* same order, although ROB indices are reused; an answer finds by its index the
\* request it was made for; a destination register is free or belongs to one load.
\* The non-blocking LSU holds the requests its test waits for, although the test
\* reads the ready bit at another time than the LSU.
InFlightAgrees ==
  /\ bench \in {"lsu", "l1d"} => Lsu!ScoreboardFollowsRcu
  /\ bench = "lsu" => Lsu!LsqMirrorsRcu /\ Lsu!RegistersConserved
  /\ bench = "l1d" => L1d!AnswerFindsItsRequest /\ L1d!RegistersConserved
  /\ bench = "nblsu" => Nb!LsuHoldsWaiting

\* An access is performed once and answered once, after that.  The fake cache does
\* so with killed and repeated requests, but for a request it takes in the place a kill
\* has just made in its full list: not having seen the ready bit, the LSU sends it again
\* and it is performed twice, which nothing older or younger can come between
\* (CachePerformsOnce).  It never has two lines due at the same edge, at which it
\* throws.  The fake bus does so, although a request stays on it until its
\* acknowledge; an acknowledge of the Wishbone memory belongs to the transfer on
\* the bus, although a write is repeated in the cycle of its acknowledge.
AccessesOnce ==
  /\ bench = "cache" => /\ Cache!OneAnswerPerEdge /\ Cache!CachePerformsOnce
                        /\ Cache!AnsweredOnce /\ Cache!BusPerformsOnce
  /\ bench = "dcache" => Dc!AckOfThisTransfer

\* The memories that the tests compare with each other are byte memories: after any
\* stores the double-word memory of the LSU test and the byte memory of the L1D test
\* agree on every load of every size and sign, an access over the bus in two words
\* has the effect of a direct one, the word array of PerfectMem holds the bytes that
\* were stored, and its check of a signed load accepts the right value and no other.
MemoriesAgree ==
  /\ bench = "doubles" => Doubles!LoadsAgree /\ Doubles!BusPathAgrees
  /\ bench = "words" => Word32!WordsHoldBytes /\ Word32!SignedLoadsChecked

\* The memory behind the L1D cache shows the answers to reads and writes in order, with
\* the data of that order and each until its ready bit is set, although addresses,
\* beats, delays and ready bits mix; a client that keeps the bus rules never makes it
\* throw.  (That the cache takes an answer once is not claimed: it does so if its ready
\* bits keep their value while answers come, see AnswersInOrder of AxiMem.)
AxiInOrder == bench = "axi" => Axi!AnswersInOrder /\ Axi!NoThrow

\* The trace is what the core committed: each commit with the value its instruction
\* computed and the CSR write that belongs to it, although registers are reused, writes
\* come out of order and faults throw instructions out, and the C++ copy of the register
\* file is the core's.  The CSR line is right unless a CSR access was thrown out after its
\* write was noted and no CSR access has noted a write or committed since: then the
\* commit prints that write, which is what tracelog.cpp does (TraceIsProgram).
LogsAreProgram == bench = "tracelog" => Trace!TraceIsProgram /\ Trace!CopyInSync

\* The back end takes every line of the CSV file once and in order, although a line
\* stays on its ports while the ROB is full; while there is room an answer is that
\* of the request accepted with it, and a load of up to a word from the start of a
\* memory line gets its bytes.
BackendServed ==
  bench = "backend" => Ut!LinesTakenOnce /\ Ut!AnswerOfThisRequest /\ Ut!LowLoadsRight

\* The simulator runs what it was given: its options take their values in whatever
\* order they come, the RAM holds the words of the ELF file (given that fresh memory
\* is zero), and the exit code is 0 exactly for a program that reported success or
\* is excused.
SimulatorRuns ==
  bench = "simulator" => Sim!ArgumentsTaken /\ Sim!ImageLoaded /\ Sim!VerdictFollowsProgram
=============================================================================
