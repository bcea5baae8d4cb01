--------------------------- MODULE WideRegisters ---------------------------
(* The operators of WideOps and WideFields against what IEEE 1800 says they  *)
(* compute, stated with integers. Two clean operands of one width are        *)
(* counted through all their values with the code's own adder. Where an      *)
(* operator has a parameter of its own, an amount or a field, the right      *)
(* operand encodes it.                                                       *)
EXTENDS WideFields

CONSTANT Widths        \* widths of the operands, of two words or more

ASSUME WidthsAssumption == \A w \in Widths : w > EDATASIZE

VARIABLES
  width,      \* bits of both operands
  lhs, rhs    \* the operands

vars == <<width, lhs, rhs>>
words == VL_WORDS_I(width)
One == [VL_ZERO_W(width) EXCEPT ![0] = 1]

Init ==
  /\ width \in Widths
  /\ lhs = VL_ZERO_W(width)
  /\ rhs = VL_ZERO_W(width)
NextLeft ==
  /\ lhs' = VL_CLEAN_WW(width, VL_ADD_W(words, lhs, One))
  /\ UNCHANGED <<width, rhs>>
NextRight ==
  /\ rhs' = VL_CLEAN_WW(width, VL_ADD_W(words, rhs, One))
  /\ UNCHANGED <<width, lhs>>
Next == NextLeft \/ NextRight
Spec == Init /\ [][Next]_vars

----------------------------------------------------------------------------
(* The integers the references are stated with.                              *)

Val(wp) ==
  LET sum[i \in 0 .. Cardinality(DOMAIN wp)] ==
        IF i = 0 THEN 0 ELSE sum[i - 1] + wp[i - 1] * Base^(i - 1)
  IN  sum[Cardinality(DOMAIN wp)]
Signed(n) == IF n >= 2^(width - 1) THEN n - 2^width ELSE n
Abs(n) == IF n < 0 THEN -n ELSE n
Bit(n, b) == (n \div 2^b) % 2
Field(n, lsb, bits) == (n \div 2^lsb) % 2^bits

(* wp is the number n of nbits; a clean result is so as it stands, a dirty   *)
(* one once it has been cleaned.                                             *)
IsClean(wp, nbits, n) == DOMAIN wp = 0 .. VL_WORDS_I(nbits) - 1 /\ Val(wp) = n % 2^nbits
IsDirty(wp, nbits, n) == IsClean(VL_CLEAN_WW(nbits, wp), nbits, n)

(* Division rounds toward 0, and the remainder has the sign of the dividend. *)
Quotient(m, n) == IF (m < 0) = (n < 0) THEN Abs(m) \div Abs(n) ELSE -(Abs(m) \div Abs(n))
Remainder(m, n) == m - n * Quotient(m, n)
PowerOf(m, n) ==
  LET p[i \in 0 .. n] == IF i = 0 THEN 1 ELSE (p[i - 1] * m) % 2^width IN p[n]
Compare(m, n) == IF m > n THEN 1 ELSE IF m < n THEN -1 ELSE 0

----------------------------------------------------------------------------
(* Negation, difference and products are those of integers modulo the width: *)
(* every carry between words arrives, also those the 32-bit negation tells   *)
(* from a wrapped word (rf_verilated.h:1837-1957).                           *)
SumsExact ==
  LET x == Val(lhs)
      y == Val(rhs)
  IN  /\ IsDirty(VL_NEGATE_W(words, lhs), width, -x)
      /\ IsDirty(VL_ADD_W(words, lhs, rhs), width, x + y)
      /\ IsDirty(VL_SUB_W(words, lhs, rhs), width, x - y)
      /\ IsDirty(VL_MUL_W(words, lhs, rhs), width, x * y)
      /\ IsDirty(VL_MULS_WWW(width, lhs, rhs), width, Signed(x) * Signed(y))

(* Quotients and remainders, unsigned and signed, are exact for every pair:  *)
(* no estimated digit stays too big, no borrow is lost, -MAX / -1 wraps, and *)
(* 0 comes of a division by 0 (rf_verilated.cu:371, rf_verilated.h:1990).    *)
QuotientsExact ==
  LET x == Val(lhs)
      y == Val(rhs)
  IN  IF y = 0
      THEN \A wp \in {VL_DIV_WWW(width, lhs, rhs), VL_MODDIV_WWW(width, lhs, rhs),
                      VL_DIVS_WWW(width, lhs, rhs), VL_MODDIVS_WWW(width, lhs, rhs)} :
             Val(wp) = 0
      ELSE /\ IsClean(VL_DIV_WWW(width, lhs, rhs), width, x \div y)
           /\ IsClean(VL_MODDIV_WWW(width, lhs, rhs), width, x % y)
           /\ IsClean(VL_DIVS_WWW(width, lhs, rhs), width, Quotient(Signed(x), Signed(y)))
           /\ IsClean(VL_MODDIVS_WWW(width, lhs, rhs), width, Remainder(Signed(x), Signed(y)))

(* Values of which the tests of VL_POWSS_WWW for 1 and -1 tell the truth:    *)
(* all words above the first are 0, or all ones.                             *)
ToldApart(wp) ==
  \/ \A i \in 1 .. words - 1 : wp[i] = 0
  \/ \A i \in 1 .. words - 1 : wp[i] = VL_ALLONES_W(width)[i]

(* Powers are those of integers modulo the width, for a negative exponent    *)
(* 1, -1 or 0 (rf_verilated.cu:484-549). The second needs ToldApart: see the *)
(* README.                                                                   *)
PowersExact ==
  LET x == Val(lhs)
      y == Val(rhs)
      powss == VL_POWSS_WWW(width, width, lhs, rhs, TRUE, TRUE)
  IN  /\ IsDirty(VL_POW_WWW(width, width, lhs, rhs), width, PowerOf(x, y))
      /\ Signed(y) >= 0 => IsDirty(powss, width, PowerOf(x, y))
      /\ Signed(y) < 0 /\ ToldApart(lhs) =>
           IsClean(powss, width, CASE x = 1 -> 1
                                   [] Signed(x) = -1 -> IF y % 2 = 1 THEN -1 ELSE 1
                                   [] OTHER -> 0)

(* A shift, by a number or by a wide value that may be huge, moves the bits  *)
(* of the operand over word boundaries and brings in zeros or the sign; a right  *)
(* shift keeps the result clean (rf_verilated.h:2519-2724).                  *)
ShiftsExact ==
  LET x == Val(lhs)
      rd == Val(rhs) % (width + EDATASIZE)
      amount == [i \in 0 .. 1 |-> IF i = 0 THEN rd ELSE lhs[0]]
      left(n) == x * 2^n
      right(n) == x \div 2^n
      signed(n) == Signed(x) \div 2^n
      far == width + 1
      n == IF lhs[0] = 0 THEN rd ELSE far
  IN  /\ IsDirty(VL_SHIFTL_WWI(width, lhs, rd), width, left(rd))
      /\ IsClean(VL_SHIFTR_WWI(width, lhs, rd), width, right(rd))
      /\ IsClean(VL_SHIFTRS_WWI(width, width, lhs, rd), width, signed(rd))
      /\ IsDirty(VL_SHIFTL_WWW(width, 2 * EDATASIZE, lhs, amount), width, left(n))
      /\ IsClean(VL_SHIFTR_WWW(width, 2 * EDATASIZE, lhs, amount), width, right(n))
      /\ IsClean(VL_SHIFTRS_WWW(width, width, 2 * EDATASIZE, lhs, amount), width, signed(n))

(* What is inserted into a field, and what is selected from one, is the      *)
(* operand and nothing around the field is touched, at every offset and      *)
(* size; so are concatenations, extensions and streams made of insertions.   *)
(* A replication is its copies once it has been cleaned, whatever its output *)
(* held before: above the last copy the old bits are still there             *)
(* (rf_verilated.h:1431-1472, 2151-2498, 2772-2851).                         *)
FieldsExact ==
  LET x == Val(lhs)
      y == Val(rhs)
      lsb == y % width
      bits == 1 + ((y \div width) % (width - lsb))
      msb == lsb + bits - 1
      slice == 1 + lsb
      inserted(m) == m - Field(m, lsb, bits) * 2^lsb + Field(x, 0, bits) * 2^lsb
      to(b) == LET o == width - slice - (b - (b % slice))
               IN  (IF o > 0 THEN o ELSE 0) + (b % slice)
  IN  /\ \A wp \in {VL_ZERO_W(width), VL_ALLONES_W(width)} :
           /\ IsClean(vl_insert_WW(wp, lhs, msb, lsb, width), width, inserted(Val(wp)))
           /\ bits <= EDATASIZE =>
                IsClean(vl_insert_WI(wp, lhs[0], msb, lsb, width), width, inserted(Val(wp)))
           /\ IsClean(VL_ASSIGNBIT_WI(lsb, wp, x % 2), width,
                      Val(wp) + ((x % 2) - Bit(Val(wp), lsb)) * 2^lsb)
      /\ IsDirty(VL_SEL_WWII(bits, width, lhs, lsb, bits), bits, Field(x, lsb, bits))
      /\ bits <= EDATASIZE =>
           VL_SEL_IWII(width, lhs, lsb, bits) % 2^bits = Field(x, lsb, bits)
      /\ VL_BITSEL_IWII(width, lhs, lsb) % 2 = Bit(x, lsb)
      /\ IsClean(VL_CONCAT_WWW(2 * width, width, width, lhs, rhs), 2 * width, x * 2^width + y)
      /\ \A rep \in 2 .. 3, old \in {0, Base - 1} :
           IsDirty(VL_REPLICATE_WWI([i \in 0 .. VL_WORDS_I(rep * width) - 1 |-> old], width, lhs, rep),
                   rep * width, x + x * 2^width + IF rep = 3 THEN x * 4^width ELSE 0)
      /\ IsDirty(VL_EXTENDS_WW(width + bits, width, lhs), width + bits, Signed(x))
      /\ \A b \in 0 .. width - 1 : VL_BITISSET_W(VL_STREAML_WWI(width, lhs, slice), to(b)) <=> Bit(x, b) = 1

(* The fast stream of a scalar is the slow one for every slice that is a     *)
(* power of 2, whole or not (rf_verilated.h:2307-2374).                      *)
StreamsAgree ==
  LET log2 == 3
      lbits == 1 + (Val(rhs) % 7)
      ld == {b \in 0 .. lbits - 1 : Bit(Val(lhs), b) = 1}
      to(b, rd) == LET o == lbits - rd - (b - (b % rd)) IN (IF o > 0 THEN o ELSE 0) + (b % rd)
  IN  \A rd_log2 \in {r \in 0 .. log2 : 2^r <= lbits} :
        VL_STREAML_FAST(lbits, ld, rd_log2, log2) = {to(b, 2^rd_log2) : b \in ld}

(* What is told of a value without being one: comparisons order the operands *)
(* as integers, whatever word decides; the number of ones, of bits counted,  *)
(* the highest one, and the tests for none, one or all of them look at every *)
(* word and at no bit above the width (rf_verilated.h:1480-1831). Counting   *)
(* zeros needs a width that is not a multiple of the word: see the README.   *)
OutcomesExact ==
  LET x == Val(lhs)
      y == Val(rhs)
      ones == Cardinality({b \in 0 .. width - 1 : Bit(x, b) = 1})
  IN  /\ VL_EQ_W(words, lhs, rhs) <=> x = y
      /\ vl_cmp_w(words, lhs, rhs) = Compare(x, y)
      /\ vl_cmps_w(width, lhs, rhs) = Compare(Signed(x), Signed(y))
      /\ VL_REDAND_IW(width, lhs) <=> x = 2^width - 1
      /\ VL_REDOR_W(words, lhs) <=> x # 0
      /\ VL_REDXOR_W(words, lhs) = ones % 2
      /\ VL_COUNTONES_W(words, lhs) = ones
      /\ VL_COUNTBITS_W(width, words, lhs, 3) = ones
      /\ width % EDATASIZE # 0 =>
           /\ VL_COUNTBITS_W(width, words, lhs, 0) = width - ones
           /\ VL_COUNTBITS_W(width, words, lhs, 1) = width
      /\ VL_ONEHOT_W(words, lhs) <=> ones = 1
      /\ VL_ONEHOT0_W(words, lhs) <=> ones <= 1
      /\ x # 0 => /\ 2^(VL_MOSTSETBITP1_W(words, lhs) - 1) <= x
                  /\ x < 2^VL_MOSTSETBITP1_W(words, lhs)
                  /\ x <= 2^VL_CLOG2_W(words, lhs)
                  /\ x > 1 => 2^(VL_CLOG2_W(words, lhs) - 1) < x
      /\ x = 0 => VL_MOSTSETBITP1_W(words, lhs) = 0 /\ VL_CLOG2_W(words, lhs) = 0
====
