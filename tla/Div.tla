-------------------------------- MODULE Div --------------------------------
(***************************************************************************)
(* The divider (div.v): a restoring division, one quotient bit per clock     *)
(* cycle, on the magnitudes of the operands.  H is half the register width:  *)
(* 32 in the code.  Registers are numbers below 2^(2H).                      *)
(*                                                                         *)
(* `req' is a history variable: the operation the unit was given.            *)
(***************************************************************************)
EXTENDS Integers

CONSTANT H

ASSUME HAssumption == H \in Nat /\ H >= 1

VARIABLES
  state, loop, a, b, quo, rem, quo_neg, rem_neg, op_word_reg, op_rem_reg,
  resp_valid, resp_result,
  req

divVars == <<state, loop, a, b, quo, rem, quo_neg, rem_neg, op_word_reg,
             op_rem_reg, resp_valid, resp_result, req>>

\* The powers of two, as the recursive function that the proofs reason about.
Pow2[n \in Nat] == IF n = 0 THEN 1 ELSE 2 * Pow2[n - 1]

Full == Pow2[2*H]
Half == Pow2[H]
Values == 0..(Full - 1)

Bit(x, i) == (x \div Pow2[i]) % 2
Neg(x) == (Full - x) % Full
Low(x) == x % Half

\* {{32{x[31]}}, x[31:0]}
SignExtend(x) == IF Bit(x, H - 1) = 1 THEN Full - Half + Low(x) ELSE Low(x)

-----------------------------------------------------------------------------
(* The request is pre-processed to signs and magnitudes.                    *)

Ops == [op1 : Values, op2 : Values, unsigned : BOOLEAN, rem : BOOLEAN, word : BOOLEAN]

sign_64(r, x) == ~r.unsigned /\ Bit(x, 2*H - 1) = 1
sign_32(r, x) == ~r.unsigned /\ Bit(x, H - 1) = 1
mag_64(r, x) == IF sign_64(r, x) THEN Neg(x) ELSE x
mag_32(r, x) == IF sign_32(r, x) THEN Neg(Full - Half + Low(x)) ELSE Low(x)

\* The operation is done on half the width: a word instruction, or one whose
\* magnitudes both fit.
op_word(r) == r.word \/ (mag_64(r, r.op1) < Half /\ mag_64(r, r.op2) < Half)

sign(r, x) == IF op_word(r) THEN sign_32(r, x) ELSE sign_64(r, x)
mag(r, x) == IF op_word(r) THEN mag_32(r, x) ELSE mag_64(r, x)

\* A plausible slip: a division by zero may negate its quotient.
QuoNegByZero(r) == sign(r, r.op1) # sign(r, r.op2)

QuoNeg(r) == sign(r, r.op1) # sign(r, r.op2) /\ mag(r, r.op2) # 0

-----------------------------------------------------------------------------
Init ==
  /\ state = "IDLE" /\ resp_valid = FALSE
  /\ loop = 0 /\ a = 0 /\ b = 0 /\ quo = 0 /\ rem = 0
  /\ quo_neg = FALSE /\ rem_neg = FALSE
  /\ op_word_reg = FALSE /\ op_rem_reg = FALSE /\ resp_result = 0
  /\ req \in [op1 : {0}, op2 : {0}, unsigned : {TRUE}, rem : {FALSE}, word : {FALSE}]

\* md.v raises `active' with the request and drops it in the cycle in which the
\* divider, idle again, presents its response; it passes no request on before.
active == state # "IDLE" \/ resp_valid

\* The code keeps the dividend bit-reversed in `a' and shifts it right; bit 0 is
\* then bit `loop' of the magnitude, which is what `a' is here.
Load(r) ==
  /\ state' = "CALCULATE"
  /\ loop' = IF op_word(r) THEN H - 1 ELSE 2*H - 1
  /\ quo' = 0 /\ rem' = 0
  /\ a' = mag(r, r.op1) /\ b' = mag(r, r.op2)
  /\ quo_neg' = QuoNeg(r)
  /\ rem_neg' = sign(r, r.op1)
  /\ op_word_reg' = op_word(r) /\ op_rem_reg' = r.rem
  /\ req' = r
  /\ UNCHANGED <<resp_valid, resp_result>>

Accept == ~active /\ \E r \in Ops : Load(r)

\* No request: a response lasts one cycle.
Idle ==
  /\ state = "IDLE"
  /\ resp_valid
  /\ resp_valid' = FALSE
  /\ UNCHANGED <<state, loop, a, b, quo, rem, quo_neg, rem_neg, op_word_reg,
                 op_rem_reg, resp_result, req>>

rem_shift == (2 * rem + Bit(a, loop)) % Full

\* A plausible slip: the comparison is strict.
SubtractStrict == rem_shift > b

Subtract == rem_shift >= b

Calculate ==
  /\ state = "CALCULATE"
  /\ rem' = IF Subtract THEN rem_shift - b ELSE rem_shift
  /\ quo' = (2 * quo + (IF Subtract THEN 1 ELSE 0)) % Full
  /\ loop' = (loop - 1) % (2 * H)
  /\ state' = IF loop = 0 THEN "OUTPUT" ELSE state
  /\ UNCHANGED <<a, b, quo_neg, rem_neg, op_word_reg, op_rem_reg, resp_valid,
                 resp_result, req>>

result_64 == IF op_rem_reg THEN (IF rem_neg THEN Neg(rem) ELSE rem)
                           ELSE (IF quo_neg THEN Neg(quo) ELSE quo)

Output ==
  /\ state = "OUTPUT"
  /\ state' = "IDLE"
  /\ resp_valid' = TRUE
  /\ resp_result' = IF op_word_reg THEN SignExtend(result_64) ELSE result_64
  /\ UNCHANGED <<loop, a, b, quo, rem, quo_neg, rem_neg, op_word_reg,
                 op_rem_reg, req>>

\* Reset, or a trap: whatever the unit is doing is dropped.
Trap ==
  /\ active
  /\ state' = "IDLE"
  /\ resp_valid' = FALSE
  /\ UNCHANGED <<loop, a, b, quo, rem, quo_neg, rem_neg, op_word_reg,
                 op_rem_reg, resp_result, req>>

Next == Accept \/ Idle \/ Calculate \/ Output \/ Trap

Spec == Init /\ [][Next]_divVars

-----------------------------------------------------------------------------
(* The RISC-V definition of DIV[U][W] and REM[U][W].                         *)

\* The integer an instruction reads in x, on w bits.
Signed(x, w) == IF x >= Pow2[w - 1] THEN x - Pow2[w] ELSE x
Operand(r, x) ==
  LET w == IF r.word THEN H ELSE 2*H
      y == IF r.word THEN Low(x) ELSE x
  IN IF r.unsigned THEN y ELSE Signed(y, w)

Abs(n) == IF n < 0 THEN -n ELSE n

\* Division rounds towards zero; by zero it gives -1 and leaves the dividend
\* as the remainder.
Quotient(n, d) ==
  IF d = 0 THEN -1
  ELSE IF (n < 0) = (d < 0) THEN Abs(n) \div Abs(d) ELSE -(Abs(n) \div Abs(d))
Remainder(n, d) == IF d = 0 THEN n ELSE n - d * Quotient(n, d)

Reference(r) ==
  LET n == Operand(r, r.op1)
      d == Operand(r, r.op2)
      x == (IF r.rem THEN Remainder(n, d) ELSE Quotient(n, d)) % Full
  IN IF r.word THEN SignExtend(x) ELSE x

-----------------------------------------------------------------------------
(* What is checked.                                                        *)

\* The half-width shortcut of a full-width operation is harmless: operands and
\* quotient fit half the width as signed numbers.
FitsHalf(r) ==
  LET n == Operand(r, r.op1)
      d == Operand(r, r.op2)
  IN \A x \in {n, d, Quotient(n, d)} : -Half <= 2 * x /\ 2 * x < Half

\* The divider answers with what RISC-V defines, division by zero and the
\* overflow of the most negative number included, for every word instruction,
\* for every operation done on the full width, and for one shortened to half
\* the width whose operands and quotient fit it as signed numbers.
QuotientCorrect ==
  resp_valid /\ (req.word \/ ~op_word(req) \/ FitsHalf(req))
    => resp_result = Reference(req)

\* The subtraction loop's invariant: quo and rem are the quotient and remainder
\* of the bits consumed so far.
DivisionLoop ==
  state \in {"CALCULATE", "OUTPUT"} /\ b # 0 =>
    LET done == IF state = "OUTPUT" THEN a ELSE a \div Pow2[loop + 1]
    IN quo * b + rem = done /\ rem < b

\* What README.md states of the core, for its divider: every 64-bit division of
\* RV64M is implemented.
Rv64mDivision == resp_valid => resp_result = Reference(req)
=============================================================================
