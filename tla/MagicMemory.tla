---------------------------- MODULE MagicMemory ----------------------------
(***************************************************************************)
(* The C++ memory the simulator attaches to the core (sim/memory.cpp).     *)
(* Core::cycle first calls I_Request and D_Request, which look at the two  *)
(* Wishbone masters of the core and set their acknowledge and data wires,  *)
(* and then raises the clock, at which the core samples them.  A transfer  *)
(* takes at least two calls: the first performs it and sets the function's *)
(* static flag finish, a later one acknowledges it.                        *)
(*                                                                         *)
(* A master is modelled by the Wishbone rule it has to keep for this       *)
(* memory to be right: a request stays on the bus, unchanged, until the    *)
(* clock edge that samples its acknowledge.                                *)
(***************************************************************************)
EXTENDS Integers

CONSTANTS Ram,          \* word addresses of the RAM handler
          Console,      \* the word of the console handler
          Hole,         \* an address no handler is mapped to
          Lanes,        \* byte lanes of a word (4 in the code)
          Bytes,        \* byte values
          MaxLatency,   \* largest latency; rand() % 1 + 0 makes it 0 in the code
          None          \* cyc low

ASSUME HandlersAssumption == /\ Console \notin Ram
                             /\ Hole \notin Ram \cup {Console}
ASSUME BytesAssumption == 0 \in Bytes
ASSUME LatencyAssumption == MaxLatency \in Nat

Address == Ram \cup {Console, Hole}
Word == [Lanes -> Bytes]
ZeroWord == [l \in Lanes |-> 0]
Request == [adr : Address, we : BOOLEAN, dat : Word, sel : SUBSET Lanes]

(* The instruction master only reads, and not from the console.            *)
Load(a) == [adr |-> a, we |-> FALSE, dat |-> ZeroWord, sel |-> {}]
Stores == [adr : Address, we : {TRUE}, dat : Word, sel : SUBSET Lanes]
DataShown == {Load(a) : a \in Address} \cup Stores \cup {None}
FetchShown == {Load(a) : a \in Ram \cup {Hole}} \cup {None}

ASSUME NoneAssumption == None \notin Request

VARIABLES data,       \* contents of the RAM handler
          d, i,       \* the two ports: static finish, wait count, ack and data wires
          dreq, ireq, \* what the data and the instruction master show
          phase,      \* "memory": the handlers are next; "core": the clock edge is
          count,      \* how often the transfer on the data port was performed
          stored,     \* RAM as the acknowledged stores of the core left it
          could       \* words the fetched address has held since it was shown

memoryVars == <<data, d, i, dreq, ireq, phase, count, stored, could>>

Port == [finish : BOOLEAN, wait : 0 .. MaxLatency, ack : BOOLEAN, dat : Word]

handle_read(a) == IF a \in Ram THEN data[a] ELSE ZeroWord

(* Byte strobes select what a store replaces.                              *)
handle_write(w, dat, sel) == [l \in Lanes |-> IF l \in sel THEN dat[l] ELSE w[l]]

generate_latency == 0 .. MaxLatency

(* A request to a hole is performed by no handler: no data, no latency.    *)
Perform(port, req, lat) ==
  [finish |-> TRUE,
   wait   |-> IF req.adr = Hole THEN 0 ELSE lat,
   ack    |-> FALSE,
   dat    |-> IF ~req.we /\ req.adr # Hole THEN handle_read(req.adr) ELSE port.dat]

Performs(port, req) == port.wait = 0 /\ req # None /\ ~port.finish

(* A plausible slip: the flag stays set after the acknowledge.             *)
CallStuck(port, req, lat) ==
  IF port.wait # 0 THEN [port EXCEPT !.ack = FALSE, !.wait = @ - 1]
  ELSE IF req = None THEN [port EXCEPT !.ack = FALSE]
  ELSE IF ~port.finish THEN Perform(port, req, lat)
  ELSE [port EXCEPT !.ack = TRUE]

(* One call of I_Request or D_Request: count down, perform or acknowledge. *)
Call(port, req, lat) ==
  IF port.wait # 0 THEN [port EXCEPT !.ack = FALSE, !.wait = @ - 1]
  ELSE IF req = None THEN [port EXCEPT !.ack = FALSE]
  ELSE IF ~port.finish THEN Perform(port, req, lat)
  ELSE [port EXCEPT !.ack = TRUE, !.finish = FALSE]

(* A plausible slip: the strobes of a store are ignored.                   *)
StoreWhole(mem, req) == [mem EXCEPT ![req.adr] = req.dat]

Store(mem, req) == [mem EXCEPT ![req.adr] = handle_write(@, req.dat, req.sel)]

(* The instruction port never writes: "error: write to text section".      *)
I_Request(lat) == i' = Call(i, ireq, lat)

D_Request(lat) ==
  /\ d' = Call(d, dreq, lat)
  /\ data' = IF Performs(d, dreq) /\ dreq.we /\ dreq.adr \in Ram
             THEN Store(data, dreq) ELSE data
  /\ count' = IF Performs(d, dreq) THEN IF count = 0 THEN 1 ELSE 2 ELSE count

(* The calls before the rising edge, instruction port first.               *)
Serve == /\ phase = "memory" /\ phase' = "core"
         /\ \E lat \in generate_latency : I_Request(lat)
         /\ \E lat \in generate_latency : D_Request(lat)
         /\ could' = IF ireq # None /\ ireq.adr \in Ram
                     THEN could \cup {data'[ireq.adr]} ELSE could
         /\ UNCHANGED <<dreq, ireq, stored>>

(* What a store means: the word it leaves where the word was w.            *)
Merged(req, w) == [l \in Lanes |-> IF l \in req.sel THEN req.dat[l] ELSE w[l]]

(* What a master shows after the edge: an unacknowledged request stays.    *)
MasterNext(port, req, new) == req # None /\ ~port.ack => new = req

(* The rising edge: the core samples the acknowledges.                     *)
CoreEdge(dnew, inew) ==
  /\ phase = "core" /\ phase' = "memory"
  /\ MasterNext(d, dreq, dnew) /\ dreq' = dnew
  /\ MasterNext(i, ireq, inew) /\ ireq' = inew
  /\ count' = IF d.ack THEN 0 ELSE count
  /\ stored' = IF d.ack /\ dreq.we /\ dreq.adr \in Ram
               THEN [stored EXCEPT ![dreq.adr] = Merged(dreq, @)] ELSE stored
  /\ could' = IF ireq # None /\ ~i.ack THEN could
              ELSE IF inew # None /\ inew.adr \in Ram THEN {data[inew.adr]} ELSE {}
  /\ UNCHANGED <<data, d, i>>

Idle == [finish |-> FALSE, wait |-> 0, ack |-> FALSE, dat |-> ZeroWord]

MemoryInit == /\ data \in [Ram -> Word] /\ stored = data
              /\ d = Idle /\ i = Idle
              /\ dreq = None /\ ireq = None
              /\ phase = "core" /\ count = 0 /\ could = {}

MemoryNext == \/ Serve
              \/ \E dnew \in DataShown, inew \in FetchShown : CoreEdge(dnew, inew)

MemorySpec == MemoryInit /\ [][MemoryNext]_memoryVars

(* Types of the memory's variables.                                        *)
MemoryTypeOK == /\ data \in [Ram -> Word] /\ stored \in [Ram -> Word]
                /\ d \in Port /\ i \in Port
                /\ dreq \in DataShown /\ ireq \in FetchShown
                /\ phase \in {"memory", "core"}
                /\ count \in 0 .. 2 /\ could \subseteq Word

(* An acknowledge on the data port answers a request that is on the bus    *)
(* and was performed exactly once: no store is done twice or skipped.      *)
AckedOnce == phase = "core" /\ d.ack => dreq # None /\ count = 1

(* A load is acknowledged with what the acknowledged stores left in its    *)
(* word, whatever the latencies and the fetches in between.                *)
LoadsSeeStores ==
  phase = "core" /\ d.ack /\ dreq # None =>
    (~dreq.we /\ dreq.adr \in Ram => d.dat = stored[dreq.adr])

(* A fetch is acknowledged with a word its address held while the fetch    *)
(* was on the bus, stores of the other port notwithstanding.               *)
FetchesFresh ==
  phase = "core" /\ i.ack => /\ ireq # None
                             /\ ireq.adr \in Ram => i.dat \in could
============================================================================
