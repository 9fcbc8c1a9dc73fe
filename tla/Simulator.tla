----------------------------- MODULE Simulator -----------------------------
(***************************************************************************)
(* The simulator around the core (sim/simulator.cpp, core.cpp): it parses  *)
(* its arguments, loads an ELF file into the RAM of MagicMemory, resets    *)
(* the core and runs it cycle by cycle until the program reports to the    *)
(* host or the cycle limit is reached, and turns that into an exit code.   *)
(* The core is the two masters of MagicMemory, and calls tohost_handler    *)
(* for an access of its load/store unit to the address of tohost.          *)
(*                                                                         *)
(* A command line is written down as the user means it, a sequence of      *)
(* options with their values, and as the program sees it, argv.            *)
(***************************************************************************)
EXTENDS MagicMemory, Sequences, SequencesExt

CONSTANTS Limits,    \* values given to -c; 0 runs without a limit
          MaxOptions,\* options on a command line
          Segments,  \* the PT_LOAD segments of the file: paddr and words
          Garbage,   \* words the RAM, from new uint8_t[length], may hold
          DataRequests, FetchRequests \* what the core shows to the memory

VARIABLES line,        \* the options the user gave
          at, opt, ch, \* i, p and j of parseArguments; opt = 0 outside an option
          set,         \* cycle_limit, elf and whether the help was printed
          stage,       \* where main is
          global_flag, \* written by tohost_handler
          cycles,      \* cycles run, counted up to the limit, if there is one
          report,      \* what the program told the host
          exit         \* exit code

simVars == <<line, at, opt, ch, set, stage, global_flag, cycles, report, exit>>
vars == <<simVars, memoryVars>>

(* A test that name_pass reports as passed, one that runs, one that is not *)
(* an executable for this core.                                            *)
Elfs == {"exempt", "good", "bad"}
Options == [opt : {"c"}, num : Limits] \cup [opt : {"e"}, name : Elfs]
             \cup [opt : {"w", "h"}]

(* One token of argv: the letters after a dash, or a value.                *)
Dash(letter) == [letters |-> <<letter>>, num |-> 0, name |-> "-"]
Value(n, s) == [letters |-> <<>>, num |-> n, name |-> s]

Tokens(o) == CASE o.opt = "c" -> <<Dash("c"), Value(o.num, "number")>>
               [] o.opt = "e" -> <<Dash("e"), Value(0, o.name)>>
               [] o.opt = "w" -> <<Dash("w"), Value(0, "wave")>>
               [] o.opt = "h" -> <<Dash("h")>>

argv == FlattenSeq([k \in 1 .. Len(line) |-> Tokens(line[k])])

Lines == {l \in UNION {[1 .. n -> Options] : n \in 1 .. MaxOptions} :
            \A x, y \in DOMAIN l : l[x].opt = l[y].opt => x = y}

Defaults == [limit |-> 0, elf |-> "uninitialised", help |-> FALSE]

Init == /\ MemoryInit /\ data = [a \in Ram |-> ZeroWord]
        /\ line \in Lines /\ at = 1 /\ opt = 0 /\ ch = 1
        /\ set = Defaults /\ stage = "parse"
        /\ global_flag = 0 /\ cycles = 0 /\ report = "none" /\ exit = 0

--------------------------------------------------------------------------
(* parseArguments.  The loop runs to argc - 1, so that the last token is   *)
(* never taken for an option.                                              *)
InLoop == at < Len(argv)

NextArgument ==
  /\ stage = "parse" /\ opt = 0 /\ InLoop
  /\ IF argv[at].letters = <<>> THEN at' = at + 1 /\ UNCHANGED <<opt, ch>>
     ELSE opt' = at /\ ch' = 1 /\ UNCHANGED at
  /\ UNCHANGED <<line, set, stage, global_flag, cycles, report, exit, memoryVars>>

(* -c steps over its value, -e and -w leave the loop to skip it.           *)
Take(letter) ==
  /\ at' = IF letter = "c" THEN at + 1 ELSE at
  /\ set' = CASE letter = "c" -> [set EXCEPT !.limit = argv[at + 1].num]
              [] letter = "e" -> [set EXCEPT !.elf = argv[opt + 1].name]
              [] letter = "h" -> [set EXCEPT !.help = TRUE]
              [] OTHER -> set

NextLetter ==
  /\ stage = "parse" /\ opt # 0
  /\ IF ch <= Len(argv[opt].letters)
     THEN Take(argv[opt].letters[ch]) /\ ch' = ch + 1 /\ UNCHANGED opt
     ELSE at' = at + 1 /\ opt' = 0 /\ UNCHANGED <<ch, set>>
  /\ UNCHANGED <<line, stage, global_flag, cycles, report, exit, memoryVars>>

(* The name of the file is made into a string before it is compared with   *)
(* NULL: without -e an uninitialised pointer is read.                      *)
Parsed == /\ stage = "parse" /\ opt = 0 /\ ~InLoop
          /\ stage' = IF set.elf = "uninitialised" THEN "crashed"
                      ELSE IF set.elf = "exempt" THEN "exited" ELSE "load"
          /\ UNCHANGED <<line, at, opt, ch, set, global_flag, cycles, report, exit,
                         memoryVars>>

--------------------------------------------------------------------------
(* Bits of two words.  A byte is abstracted to one bit here.               *)
Or(v, w) == [l \in Lanes |-> IF v[l] = 0 THEN w[l] ELSE v[l]]

Inside(seg, a) == seg.paddr <= a /\ a < seg.paddr + Len(seg.words)

(* A plausible slip: the file is indexed from the start of the copy.       *)
RawDataClipped(seg, a) ==
  LET start == CHOOSE x \in Ram : Inside(seg, x) /\ \A y \in Ram : Inside(seg, y) => x <= y
  IN  seg.words[a - start + 1]

RawData(seg, a) == seg.words[a - seg.paddr + 1]

(* Every word of a segment that lies in the RAM is or-ed into it.          *)
CopySegment(mem, seg) ==
  [a \in Ram |-> IF Inside(seg, a) THEN Or(mem[a], RawData(seg, a)) ELSE mem[a]]

(* addRamHandler and loadFromElfFile: the RAM is not initialised.          *)
LoadElf == /\ stage = "load"
           /\ IF set.elf = "bad"
              THEN stage' = "exited" /\ exit' = 1 /\ UNCHANGED <<data, stored>>
              ELSE /\ stage' = "reset" /\ UNCHANGED exit
                   /\ \E ram \in [Ram -> Garbage] :
                        data' = FoldLeft(CopySegment, ram, SetToSeq(Segments))
                   /\ stored' = data'
           /\ UNCHANGED <<line, at, opt, ch, set, global_flag, cycles, report,
                          d, i, dreq, ireq, phase, count, could>>

--------------------------------------------------------------------------
(* What the access to tohost carries: 1, a value with bit 8, another one.  *)
Reports == {"one", "trap", "other"}

Flag(data_o) == IF data_o = "one" THEN 1 ELSE 2

(* tohost_handler: the program is over; an unhandled trap ends the process *)
(* inside the handler.                                                     *)
tohost_handler(data_o) ==
  /\ report' = data_o
  /\ IF data_o = "trap" THEN stage' = "exited" /\ exit' = 1 /\ UNCHANGED global_flag
     ELSE global_flag' = Flag(data_o) /\ UNCHANGED <<stage, exit>>

(* No access to tohost, or one for which req_ready is low.                 *)
NoReport == UNCHANGED <<report, stage, exit, global_flag>>

Unlimited == set.limit = 0

LoopEnds == global_flag # 0 \/ (~Unlimited /\ cycles >= set.limit)

(* Core::reset: the memory is not called; at its last edge the reset is    *)
(* low and the core may show its first requests.                           *)
Reset == /\ stage = "reset" /\ stage' = "run"
         /\ \E dnew \in DataRequests, inew \in FetchRequests : CoreEdge(dnew, inew)
         /\ UNCHANGED <<line, at, opt, ch, set, global_flag, cycles, report, exit>>

(* The first half of Core::cycle: the memory serves the two ports.         *)
ServeCycle == /\ stage = "run" /\ ~LoopEnds /\ Serve /\ UNCHANGED simVars

(* The second half: the rising edge, in which the core may reach tohost.   *)
EdgeCycle == /\ stage = "run"
             /\ \E dnew \in DataRequests, inew \in FetchRequests : CoreEdge(dnew, inew)
             /\ \/ NoReport
                \/ \E data_o \in Reports : tohost_handler(data_o)
             /\ cycles' = IF Unlimited \/ cycles = set.limit THEN cycles ELSE cycles + 1
             /\ UNCHANGED <<line, at, opt, ch, set>>

Verdict == /\ stage = "run" /\ phase = "memory" /\ LoopEnds
           /\ stage' = "exited" /\ exit' = IF global_flag = 1 THEN 0 ELSE 1
           /\ UNCHANGED <<line, at, opt, ch, set, global_flag, cycles, report, memoryVars>>

Ended == stage \in {"exited", "crashed"} /\ UNCHANGED vars

Next == \/ NextArgument \/ NextLetter \/ Parsed \/ LoadElf \/ Reset
        \/ ServeCycle \/ EdgeCycle \/ Verdict \/ Ended

Spec == Init /\ [][Next]_vars
FairSpec == Spec /\ WF_vars(Next)

--------------------------------------------------------------------------
(* What the user meant.                                                    *)
Given(o) == \E k \in DOMAIN line : line[k].opt = o

(* Whatever the order of the options, parseArguments ends with the limit   *)
(* and the file that were given.                                           *)
ArgumentsTaken ==
  stage # "parse" =>
    /\ \A k \in DOMAIN line : /\ line[k].opt = "c" => set.limit = line[k].num
                              /\ line[k].opt = "e" => set.elf = line[k].name
    /\ ~Given("c") => set.limit = 0
    /\ ~Given("e") => stage = "crashed"

(* Before the core runs, a RAM word that one segment covers holds the      *)
(* segment's word: "load test_instn into memory".                          *)
ImageLoaded ==
  stage = "reset" =>
    \A a \in Ram, seg \in Segments :
      Inside(seg, a) /\ (\A s \in Segments \ {seg} : ~Inside(s, a))
        => data[a] = seg.words[a - seg.paddr + 1]

(* The exit code is 0 only for a program that reported 1, or for a test    *)
(* that name_pass excuses; every other end of the simulator is a failure.  *)
VerdictFollowsProgram ==
  stage = "exited" => (exit = 0 <=> set.elf = "exempt" \/ report = "one")

(* With a limit the simulator ends, whatever the core does.                *)
EndsWithinLimit == <>(stage \in {"exited", "crashed"} \/ (stage = "run" /\ Unlimited))
============================================================================
