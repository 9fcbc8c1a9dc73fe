------------------------------ MODULE FakeMem ------------------------------
(***************************************************************************)
(* The memories of the unit-test benches.  lsu_ut keeps double words and      *)
(* shifts bytes in and out of them (class FakeMemory of lsu_ut); l1d keeps     *)
(* bytes and lets its monitor put values together (class FakeMemory of l1d).   *)
(* Both are given the same stores here, and must then agree on every load.      *)
(*                                                                             *)
(* Base is the number of values of a byte: 2^8 in the code.                     *)
(***************************************************************************)
EXTENDS Naturals, FiniteSetsExt

CONSTANTS Base, Words, StoreData

MemAssumption == Base \in Nat /\ Base % 2 = 0 /\ Base > 0 /\ Words \in Nat

VARIABLES
  mem,      \* lsu_ut: _mem, double words
  bytes     \* l1d: _mem, bytes

vars == <<mem, bytes>>

Width == 8                                   \* bytes of a double word
Addrs == 0..(Words * Width - 1)
Mod == Base ^ Width
Sizes == {1, 2, 4, 8}

-----------------------------------------------------------------------------
(* lsu_ut *)

get_byte(m, a) == (m[a \div Width] \div Base ^ (a % Width)) % Base

set_byte(m, a, d) ==
  [m EXCEPT ![a \div Width] = @ - get_byte(m, a) * Base ^ (a % Width) + d * Base ^ (a % Width)]

Aligned(a, n) == a % n = 0                   \* otherwise the access throws

SignExtend(v, n) == IF v >= Base ^ n \div 2 THEN Mod - Base ^ n + v ELSE v

\* lbu, lhu, lwu: collected from the high end down; ld is the double word.
ZeroLoad(m, a, n) ==
  IF n = Width THEN m[a \div Width]
  ELSE MapThenSumSet(LAMBDA i : get_byte(m, a + i) * Base ^ i, 0..(n - 1))

\* lb, lh, lw.
SignLoad(m, a, n) == SignExtend(ZeroLoad(m, a, n), n)

\* sb, sh, sw, sd: the bytes one after the other.
Store(m, a, n, d) ==
  LET Upto[i \in 0..n] ==
        IF i = 0 THEN m ELSE set_byte(Upto[i - 1], a + i - 1, (d \div Base ^ (i - 1)) % Base)
  IN Upto[n]

\* An I/O store of a double word reaches the memory as two words.
StoreIoDouble(m, a, d) ==
  Store(Store(m, a, 4, d % Base ^ 4), a + 4, 4, (d \div Base ^ 4) % Base ^ 4)

\* What the bus controller makes of the unsigned words the bus delivers.
BusLoad(m, a, n, unsigned) ==
  IF n = Width THEN ZeroLoad(m, a, 4) + Base ^ 4 * ZeroLoad(m, a + 4, 4)
  ELSE IF unsigned THEN ZeroLoad(m, a, n) ELSE SignExtend(ZeroLoad(m, a, n), n)

-----------------------------------------------------------------------------
(* l1d *)

\* The monitor's load from the byte array.
MonitorLoad(a, n, unsigned) ==
  LET v == MapThenSumSet(LAMBDA i : bytes[a + i] * Base ^ i, 0..(n - 1))
  IN IF unsigned \/ n = Width THEN v ELSE SignExtend(v, n)

\* A plausible slip: a store always writes a double word.
MonitorStoreWide(a, n, d) ==
  [b \in Addrs |-> IF b \in a..(a + Width - 1) THEN (d \div Base ^ (b - a)) % Base ELSE bytes[b]]

MonitorStore(a, n, d) ==
  [b \in Addrs |-> IF b \in a..(a + n - 1) THEN (d \div Base ^ (b - a)) % Base ELSE bytes[b]]

-----------------------------------------------------------------------------
Init ==
  /\ mem = [w \in 0..(Words - 1) |-> 0]
  /\ bytes = [a \in Addrs |-> 0]

DoStore(a, n, d) ==
  /\ Aligned(a, n)
  /\ mem' = Store(mem, a, n, d)
  /\ bytes' = MonitorStore(a, n, d)

Next == \E a \in Addrs, n \in Sizes, d \in StoreData : DoStore(a, n, d)

Spec == Init /\ [][Next]_vars

-----------------------------------------------------------------------------
(* Properties *)

\* The two memories give the same value for every aligned load, signed and
\* unsigned, of every size, after any sequence of stores of any size.
LoadsAgree ==
  \A n \in Sizes : \A a \in {b \in Addrs : Aligned(b, n)} :
    /\ ZeroLoad(mem, a, n) = MonitorLoad(a, n, TRUE)
    /\ SignLoad(mem, a, n) = MonitorLoad(a, n, FALSE)

\* The path over the bus (two words, unsigned, extended by the bus controller)
\* gives what the monitor expects of a direct access.
BusPathAgrees ==
  \A n \in Sizes : \A a \in {b \in Addrs : Aligned(b, n)} :
    /\ BusLoad(mem, a, n, TRUE) = ZeroLoad(mem, a, n)
    /\ BusLoad(mem, a, n, FALSE) = SignLoad(mem, a, n)
    /\ n = Width => \A d \in StoreData : StoreIoDouble(mem, a, d) = Store(mem, a, Width, d)
=============================================================================
