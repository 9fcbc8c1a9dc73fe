----------------------------- MODULE PerfectMem -----------------------------
(***************************************************************************)
(* The memory of the older self-checking tests (class PerfectMem): an array    *)
(* of 32-bit words that is written and read in bytes, half words, words and     *)
(* double words, and the check of a load against it.  A word is a number; the    *)
(* masks and shifts of the code are arithmetic in base B, the number of values    *)
(* of a byte.                                                                    *)
(***************************************************************************)
EXTENDS Naturals

CONSTANTS
  B,       \* values of a byte: 256
  Words    \* words of the memory: PERFECT_MEM_MAX_SIZE

PerfectMemAssumption == B \in Nat /\ B > 1 /\ Words \in Nat /\ Words % 2 = 0

VARIABLES
  mem,     \* _mem
  bytes    \* the same memory as a reader thinks of it: one byte per address

vars == <<mem, bytes>>

Addresses == 0..(4 * Words - 1)
Size == 0..3                       \* bytes of an access: 2^size
NumBytes(size) == 2^size

Aligned(a, size) == a % NumBytes(size) = 0

-----------------------------------------------------------------------------
write64(a, d) == [mem EXCEPT ![a \div 4 + 1] = d \div B^4, ![a \div 4] = d % B^4]
write32(a, d) == [mem EXCEPT ![a \div 4] = d % B^4]

write16(a, d) ==
  [mem EXCEPT ![a \div 4] = IF a % 4 = 0 THEN d + (@ - (@ % B^2)) ELSE d * B^2 + (@ % B^2)]

\* The mask clears the byte; the new one is put in its place.
write8(a, d) ==
  [mem EXCEPT ![a \div 4] = d * B^(a % 4) + (@ - ((@ \div B^(a % 4)) % B) * B^(a % 4))]

peek64(a) == mem[a \div 4 + 1] * B^4 + mem[a \div 4]
peek32(a) == mem[a \div 4]
peek16(a) == IF a % 4 = 0 THEN mem[a \div 4] % B^2 ELSE (mem[a \div 4] \div B^2) % B^2
peek8(a) == (mem[a \div 4] \div B^(a % 4)) % B

Write(size, a, d) ==
  CASE size = 0 -> write8(a, d) [] size = 1 -> write16(a, d)
    [] size = 2 -> write32(a, d) [] size = 3 -> write64(a, d)
Peek(size, a) ==
  CASE size = 0 -> peek8(a) [] size = 1 -> peek16(a)
    [] size = 2 -> peek32(a) [] size = 3 -> peek64(a)

\* A value of the width of the size, extended with its sign to a register.
Extended(size, v) ==
  LET top == B^NumBytes(size)
  IN IF 2 * v >= top THEN v + (B^8 - top) ELSE v

\* The check of a load in lsu_dcache.cpp.  An unsigned load is compared in its
\* low part only, as the tests of nblsu and of the fake cache do for all loads.
Accepts(size, unsigned, a, data) ==
  IF unsigned THEN data % B^NumBytes(size) = Peek(size, a)
  ELSE data = Extended(size, Peek(size, a))

-----------------------------------------------------------------------------
Init ==
  /\ mem = [w \in 0..(Words - 1) |-> (4 * w) % B^4]
  /\ bytes = [a \in Addresses |-> ((4 * (a \div 4)) \div B^(a % 4)) % B]

\* A store of any size; the address is masked to its alignment.
Store(size, a, d) ==
  LET n == NumBytes(size)
      at == a - (a % n)
  IN /\ mem' = Write(size, at, d)
     /\ bytes' = [b \in Addresses |->
                    IF b \in at..(at + n - 1) THEN (d \div B^(b - at)) % B ELSE bytes[b]]

Next == \E size \in Size, a \in Addresses : \E d \in 0..(B^NumBytes(size) - 1) : Store(size, a, d)

Spec == Init /\ [][Next]_vars

-----------------------------------------------------------------------------
(* Properties *)

\* Little-endian reading of n bytes.
Value(a, n) ==
  LET V[k \in 0..n] == IF k = 0 THEN 0 ELSE V[k - 1] + bytes[a + k - 1] * B^(k - 1)
  IN V[n]

\* After any stores, an aligned access of any size reads the bytes last stored
\* there: the word array with its masks is a byte memory.
WordsHoldBytes ==
  \A size \in Size : \A a \in {x \in Addresses : Aligned(x, size)} :
    Peek(size, a) = Value(a, NumBytes(size))

\* The check of a signed load accepts the right register value and no other one;
\* the upper part of the register matters.
SignedLoadsChecked ==
  \A size \in Size : \A a \in {x \in Addresses : Aligned(x, size)} :
    LET v == Value(a, NumBytes(size))
        right == IF 2 * v >= B^NumBytes(size) THEN B^8 - B^NumBytes(size) + v ELSE v
    IN \A data \in {right, v, (right + B^7) % B^8} : Accepts(size, FALSE, a, data) <=> data = right
=============================================================================
