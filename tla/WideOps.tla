------------------------------ MODULE WideOps ------------------------------
(* The operators on values of more than 64 bits that every evaluated kernel  *)
(* calls (rf_verilated.h, rf_verilated.cu). A wide value is an array of      *)
(* words, owp, lwp, rwp: word 0 holds the lowest bits. A value of nbits is   *)
(* CLEAN when the bits of its last word above nbits are 0; the comments      *)
(* EMIT_RULE of the header say which operators need clean operands and which *)
(* give a clean result.                                                      *)
(*                                                                           *)
(* The size of a word is a constant here, 32 in the code. A value is a       *)
(* function on 0 .. words - 1; an output array the C++ functions overwrite   *)
(* in place is the value an operator returns, so an operator whose source    *)
(* updates words several times is a recursion over its loop.                 *)
EXTENDS Integers, FiniteSets, Bitwise, TLC

CONSTANT EDATASIZE     \* bits of a word

ASSUME EDATASIZEAssumption == EDATASIZE \in Nat \ {0}

Base == 2^EDATASIZE
Word == 0 .. Base - 1

VL_WORDS_I(nbits) == (nbits + EDATASIZE - 1) \div EDATASIZE
VL_BITWORD_E(bit) == bit \div EDATASIZE
VL_BITBIT_E(bit) == bit % EDATASIZE
VL_MASK_E(nbits) == IF nbits % EDATASIZE = 0 THEN Base - 1 ELSE 2^(nbits % EDATASIZE) - 1

(* ~ and the shifts of a word. A shift by the size of the word is undefined  *)
(* in C++: evaluating one stops the model checker.                           *)
Inv(w) == Base - 1 - w
Shl(w, n) == IF n < EDATASIZE THEN (w * 2^n) % Base ELSE Assert(FALSE, "shift out of range")
Shr(w, n) == IF n < EDATASIZE THEN w \div 2^n ELSE Assert(FALSE, "shift out of range")

Wide(words) == [0 .. words - 1 -> Word]
VL_SIGN_W(nbits, wp) == Shr(wp[VL_BITWORD_E(nbits - 1)], VL_BITBIT_E(nbits - 1))
VL_SIGNONES_W(nbits, wp) == IF VL_SIGN_W(nbits, wp) = 0 THEN 0 ELSE Base - 1
VL_BITISSET_W(wp, bit) == Shr(wp[VL_BITWORD_E(bit)], VL_BITBIT_E(bit)) % 2 = 1

VL_ZERO_W(obits) == [i \in 0 .. VL_WORDS_I(obits) - 1 |-> 0]
VL_ALLONES_W(obits) ==
  [i \in 0 .. VL_WORDS_I(obits) - 1 |->
     IF i < VL_WORDS_I(obits) - 1 THEN Base - 1 ELSE VL_MASK_E(obits)]
VL_CLEAN_WW(obits, lwp) ==
  [i \in 0 .. VL_WORDS_I(obits) - 1 |->
     IF i < VL_WORDS_I(obits) - 1 THEN lwp[i] ELSE lwp[i] & VL_MASK_E(obits)]
VL_EXTEND_WW(obits, lbits, lwp) ==
  [i \in 0 .. VL_WORDS_I(obits) - 1 |-> IF i < VL_WORDS_I(lbits) THEN lwp[i] ELSE 0]
VL_EXTENDS_WW(obits, lbits, lwp) ==
  LET lmsw == VL_WORDS_I(lbits) - 1
      sign == VL_SIGNONES_W(lbits, lwp)
  IN  [i \in 0 .. VL_WORDS_I(obits) - 1 |->
         IF i < lmsw THEN lwp[i]
         ELSE IF i = lmsw THEN lwp[i] | (sign & Inv(VL_MASK_E(lbits)))
         ELSE sign]
VL_ASSIGNBIT_WI(bit, owp, rhs) ==
  [owp EXCEPT ![VL_BITWORD_E(bit)] =
     (@ & Inv(Shl(1, VL_BITBIT_E(bit)))) | Shl(rhs, VL_BITBIT_E(bit))]

----------------------------------------------------------------------------
(* Reductions and counts. COUNTONES of one word is the number of its ones.   *)

VL_REDAND_IW(lbits, lwp) ==
  LET words == VL_WORDS_I(lbits)
      and[i \in 0 .. words - 1] ==
        IF i = 0 THEN lwp[0]
        ELSE and[i - 1] & IF i < words - 1 THEN lwp[i] ELSE Base - 1
  IN  Inv(and[words - 1] & (Inv(VL_MASK_E(lbits)) | lwp[words - 1])) = 0
VL_REDOR_W(words, lwp) == \E i \in 0 .. words - 1 : lwp[i] # 0
VL_COUNTONES_E(w) == Cardinality({b \in 0 .. EDATASIZE - 1 : Shr(w, b) % 2 = 1})
VL_COUNTONES_W(words, lwp) ==
  LET r[i \in 0 .. words] == IF i = 0 THEN 0 ELSE r[i - 1] + VL_COUNTONES_E(lwp[i - 1])
  IN  r[words]
VL_REDXOR_W(words, lwp) ==
  LET r[i \in 0 .. words - 1] == IF i = 0 THEN lwp[0] ELSE r[i - 1] ^^ lwp[i]
  IN  VL_COUNTONES_E(r[words - 1]) % 2
VL_COUNTBITS_E(lbits, w, ctrlSum) ==
  CASE ctrlSum = 3 -> VL_COUNTONES_E(w)
    [] ctrlSum = 0 -> VL_COUNTONES_E(Inv(w) & IF lbits = EDATASIZE THEN Base - 1 ELSE 2^lbits - 1)
    [] OTHER -> lbits
VL_COUNTBITS_W(lbits, words, lwp, ctrlSum) ==
  LET wordLbits(i) == IF i = words - 1 THEN lbits % EDATASIZE ELSE EDATASIZE
      r[i \in 0 .. words] ==
        IF i = 0 THEN 0 ELSE r[i - 1] + VL_COUNTBITS_E(wordLbits(i - 1), lwp[i - 1], ctrlSum)
  IN  r[words]
VL_ONEHOT0_W(words, lwp) ==
  /\ \A i, j \in 0 .. words - 1 : i # j => lwp[i] = 0 \/ lwp[j] = 0
  /\ \A i \in 0 .. words - 1 : lwp[i] # 0 => lwp[i] & (lwp[i] - 1) = 0
VL_ONEHOT_W(words, lwp) == VL_ONEHOT0_W(words, lwp) /\ VL_REDOR_W(words, lwp)

(* The loops from the top word and, in it, from the top bit.                 *)
RECURSIVE TopBit(_, _)
TopBit(w, bit) == IF Shr(w, bit) % 2 = 1 THEN bit ELSE TopBit(w, bit - 1)
RECURSIVE VL_MOSTSETBITP1_W(_, _)
VL_MOSTSETBITP1_W(words, lwp) ==
  IF words = 0 THEN 0
  ELSE IF lwp[words - 1] # 0
       THEN (words - 1) * EDATASIZE + TopBit(lwp[words - 1], EDATASIZE - 1) + 1
       ELSE VL_MOSTSETBITP1_W(words - 1, lwp)
VL_CLOG2_W_PerWord(words, lwp) ==    \* mutant: a power of 2 is looked for in the top word only
  LET top == VL_MOSTSETBITP1_W(words, lwp) - 1
      adjust == IF VL_COUNTONES_E(lwp[VL_BITWORD_E(top)]) = 1 THEN 0 ELSE 1
  IN  IF VL_REDOR_W(words, lwp) THEN top + adjust ELSE 0
VL_CLOG2_W(words, lwp) ==
  LET adjust == IF VL_COUNTONES_W(words, lwp) = 1 THEN 0 ELSE 1
  IN  IF VL_REDOR_W(words, lwp) THEN VL_MOSTSETBITP1_W(words, lwp) - 1 + adjust ELSE 0

----------------------------------------------------------------------------
(* Comparisons: -1, 0 or 1.                                                  *)

VL_EQ_W(words, lwp, rwp) == \A i \in 0 .. words - 1 : lwp[i] ^^ rwp[i] = 0
RECURSIVE CmpFrom(_, _, _)
CmpFrom(i, lwp, rwp) ==
  IF i < 0 THEN 0
  ELSE IF lwp[i] > rwp[i] THEN 1
  ELSE IF lwp[i] < rwp[i] THEN -1
  ELSE CmpFrom(i - 1, lwp, rwp)
vl_cmp_w(words, lwp, rwp) == CmpFrom(words - 1, lwp, rwp)
vl_cmps_w(lbits, lwp, rwp) ==
  LET lsign == VL_SIGN_W(lbits, lwp)
      rsign == VL_SIGN_W(lbits, rwp)
  IN  IF lsign = 0 /\ rsign # 0 THEN 1
      ELSE IF lsign # 0 /\ rsign = 0 THEN -1
      ELSE CmpFrom(VL_WORDS_I(lbits) - 1, lwp, rwp)

----------------------------------------------------------------------------
(* Sums and products. A QData carry holds the sum of two words exactly.      *)

(* ~lwp[i] + carry in an EData, and the carry from the test that it has      *)
(* wrapped around.                                                           *)
VL_NEGATE_W_CarryOfInput(words, lwp) ==    \* mutant: the carry test looks at the word not yet inverted
  LET word[i \in 0 .. words - 1] ==
        (Inv(lwp[i]) + IF i = 0 \/ word[i - 1] < lwp[i - 1] THEN 1 ELSE 0) % Base
  IN  [i \in 0 .. words - 1 |-> word[i]]
VL_NEGATE_W(words, lwp) ==
  LET word[i \in 0 .. words - 1] ==
        (Inv(lwp[i]) + IF i = 0 \/ word[i - 1] < Inv(lwp[i - 1]) THEN 1 ELSE 0) % Base
  IN  [i \in 0 .. words - 1 |-> word[i]]
VL_ADD_W(words, lwp, rwp) ==
  LET carry[i \in 0 .. words - 1] ==
        (IF i = 0 THEN 0 ELSE carry[i - 1] \div Base) + lwp[i] + rwp[i]
  IN  [i \in 0 .. words - 1 |-> carry[i] % Base]
VL_SUB_W(words, lwp, rwp) ==
  LET carry[i \in 0 .. words - 1] ==
        (IF i = 0 THEN 1 ELSE carry[i - 1] \div Base) + lwp[i] + Inv(rwp[i])
  IN  [i \in 0 .. words - 1 |-> carry[i] % Base]

(* One product of two words, added to the output from word qword upward.     *)
RECURSIVE AddProduct(_, _, _)
AddProduct(owp, mul, qword) ==
  IF qword \notin DOMAIN owp THEN owp
  ELSE LET sum == mul + owp[qword]
       IN  AddProduct([owp EXCEPT ![qword] = sum % Base], sum \div Base, qword + 1)
VL_MUL_W(words, lwp, rwp) ==
  LET product[n \in 0 .. words * words] ==
        IF n = 0 THEN [i \in 0 .. words - 1 |-> 0]
        ELSE LET lword == (n - 1) \div words
                 rword == (n - 1) % words
             IN  AddProduct(product[n - 1], lwp[lword] * rwp[rword], lword + rword)
  IN  product[words * words]

(* The operands of the signed operators: what is negative is negated, and    *)
(* cleaned.                                                                  *)
Magnitude(lbits, lwp) ==
  IF VL_SIGN_W(lbits, lwp) # 0 THEN VL_CLEAN_WW(lbits, VL_NEGATE_W(VL_WORDS_I(lbits), lwp)) ELSE lwp
Negated(lbits, lwp) == VL_CLEAN_WW(lbits, VL_NEGATE_W(VL_WORDS_I(lbits), lwp))

VL_MULS_WWW(lbits, lwp, rwp) ==
  LET words == VL_WORDS_I(lbits)
      owp == VL_CLEAN_WW(lbits, VL_MUL_W(words, Magnitude(lbits, lwp), Magnitude(lbits, rwp)))
  IN  IF VL_SIGN_W(lbits, lwp) # VL_SIGN_W(lbits, rwp)
      THEN VL_SUB_W(words, [i \in 0 .. words - 1 |-> 0], owp)
      ELSE owp

----------------------------------------------------------------------------
(* Division. A divisor of one word takes the digits from the top. A longer   *)
(* one is normalised and each digit estimated from the two top words, as in  *)
(* Knuth's algorithm D: un keeps what is left of the dividend.               *)

RECURSIVE ShortDivide(_, _, _)
ShortDivide(j, k, l) ==      \* l: [u, q]; k: the remainder so far
  IF j < 0 THEN [q |-> l.q, k |-> k]
  ELSE LET unw64 == k * Base + l.u[j]
       IN  ShortDivide(j - 1, unw64 % l.v, [l EXCEPT !.q[j] = unw64 \div l.v])

RECURSIVE Estimate(_, _, _, _, _)
Estimate(qhat, rhat, v1, v2, u2) ==
  IF qhat >= Base \/ qhat * v2 > rhat * Base + u2
  THEN IF rhat + v1 < Base THEN Estimate(qhat - 1, rhat + v1, v1, v2, u2) ELSE qhat - 1
  ELSE qhat

(* Subtract qhat * vn from un at j; k is what is borrowed from the next word *)
RECURSIVE MultiplyAndSubtract(_, _, _, _, _, _)
MultiplyAndSubtract(un, vn, vw, qhat, j, ik) ==
  LET t == un[ik.i + j] - ik.k - IF ik.i < vw THEN (qhat * vn[ik.i]) % Base ELSE 0
      left == [un EXCEPT ![ik.i + j] = t % Base]
  IN  IF ik.i = vw THEN [un |-> left, t |-> t]
      ELSE MultiplyAndSubtract(left, vn, vw, qhat, j,
             [i |-> ik.i + 1, k |-> (qhat * vn[ik.i]) \div Base - t \div Base])

RECURSIVE AddBack(_, _, _, _, _)
AddBack(un, vn, vw, j, ik) ==
  LET t == un[ik.i + j] + ik.k + IF ik.i < vw THEN vn[ik.i] ELSE 0
      left == [un EXCEPT ![ik.i + j] = t % Base]
  IN  IF ik.i = vw THEN left
      ELSE AddBack(left, vn, vw, j, [i |-> ik.i + 1, k |-> t \div Base])

Digit_NoAddBack(un, vn, vw, j) ==    \* mutant: a digit subtracted once too often is kept
  LET unw64 == un[j + vw] * Base + un[j + vw - 1]
      v1 == vn[vw - 1]
      qhat == Estimate(unw64 \div v1, unw64 % v1, v1, vn[vw - 2], un[j + vw - 2])
  IN  [q |-> qhat, un |-> MultiplyAndSubtract(un, vn, vw, qhat, j, [i |-> 0, k |-> 0]).un]
Digit(un, vn, vw, j) ==      \* the pass of the main loop for quotient word j
  LET unw64 == un[j + vw] * Base + un[j + vw - 1]
      v1 == vn[vw - 1]
      qhat == Estimate(unw64 \div v1, unw64 % v1, v1, vn[vw - 2], un[j + vw - 2])
      sub == MultiplyAndSubtract(un, vn, vw, qhat, j, [i |-> 0, k |-> 0])
  IN  IF sub.t < 0 THEN [q |-> qhat - 1, un |-> AddBack(sub.un, vn, vw, j, [i |-> 0, k |-> 0])]
      ELSE [q |-> qhat, un |-> sub.un]

RECURSIVE LongDivide(_, _, _, _, _)
LongDivide(owp, un, vn, vw, j) ==
  IF j < 0 THEN [q |-> owp, un |-> un]
  ELSE LET d == Digit(un, vn, vw, j)
       IN  LongDivide([owp EXCEPT ![j] = d.q % Base], d.un, vn, vw, j - 1)

vl_moddiv_w(lbits, lwp, rwp, is_modulus) ==
  LET words == VL_WORDS_I(lbits)
      zero == VL_ZERO_W(lbits)
      umsbp1 == VL_MOSTSETBITP1_W(words, lwp)
      vmsbp1 == VL_MOSTSETBITP1_W(words, rwp)
      uw == VL_WORDS_I(umsbp1)
      vw == VL_WORDS_I(vmsbp1)
      s == EDATASIZE - 1 - VL_BITBIT_E(vmsbp1 - 1)
      high(wp, i) == IF s = 0 THEN 0 ELSE Shr(wp[i], EDATASIZE - s)
      normal(wp, top) ==
        [i \in 0 .. words |->
           IF i > top THEN 0
           ELSE Shl(wp[i], s) | IF i > 0 THEN high(wp, i - 1) ELSE 0]
      short == ShortDivide(uw - 1, 0, [u |-> lwp, v |-> rwp[0], q |-> zero])
      long == LongDivide(zero, [normal(lwp, uw - 1) EXCEPT ![uw] = high(lwp, uw - 1)],
                         normal(rwp, vw - 1), vw, uw - vw)
  IN  IF vmsbp1 = 0 \/ umsbp1 = 0 THEN zero
      ELSE IF vw = 1
      THEN IF is_modulus THEN [zero EXCEPT ![0] = short.k] ELSE short.q
      ELSE IF is_modulus
      THEN [i \in 0 .. words - 1 |->
              IF i < vw
              THEN Shr(long.un[i], s) | IF s = 0 THEN 0 ELSE Shl(long.un[i + 1], EDATASIZE - s)
              ELSE 0]
      ELSE long.q

VL_DIV_WWW(lbits, lwp, rwp) == vl_moddiv_w(lbits, lwp, rwp, FALSE)
VL_MODDIV_WWW(lbits, lwp, rwp) == vl_moddiv_w(lbits, lwp, rwp, TRUE)
VL_DIVS_WWW(lbits, lwp, rwp) ==
  LET q == VL_DIV_WWW(lbits, Magnitude(lbits, lwp), Magnitude(lbits, rwp))
  IN  IF VL_SIGN_W(lbits, lwp) # VL_SIGN_W(lbits, rwp) THEN Negated(lbits, q) ELSE q
VL_MODDIVS_WWW(lbits, lwp, rwp) ==   \* only the sign of the dividend matters
  LET r == VL_MODDIV_WWW(lbits, Magnitude(lbits, lwp), Magnitude(lbits, rwp))
  IN  IF VL_SIGN_W(lbits, lwp) # 0 THEN Negated(lbits, r) ELSE r

----------------------------------------------------------------------------
(* Powers by squaring: rbits times power = power * power, and the output is  *)
(* multiplied by it when the bit of the exponent is set.                     *)

VL_POW_WWW_SquaresFirst(obits, rbits, lwp, rwp) ==    \* mutant: the power is squared before bit 0 too
  LET words == VL_WORDS_I(obits)
      loop[bit \in 0 .. rbits] ==
        IF bit = 0 THEN [power |-> lwp, out |-> [VL_ZERO_W(obits) EXCEPT ![0] = 1]]
        ELSE LET last == loop[bit - 1]
                 power == VL_MUL_W(words, last.power, last.power)
             IN  [power |-> power,
                  out |-> IF VL_BITISSET_W(rwp, bit - 1)
                          THEN VL_MUL_W(words, last.out, power) ELSE last.out]
  IN  loop[rbits].out
VL_POW_WWW(obits, rbits, lwp, rwp) ==
  LET words == VL_WORDS_I(obits)
      loop[bit \in 0 .. rbits] ==
        IF bit = 0 THEN [power |-> lwp, out |-> [VL_ZERO_W(obits) EXCEPT ![0] = 1]]
        ELSE LET last == loop[bit - 1]
                 power == IF bit > 1 THEN VL_MUL_W(words, last.power, last.power) ELSE last.power
             IN  [power |-> power,
                  out |-> IF VL_BITISSET_W(rwp, bit - 1)
                          THEN VL_MUL_W(words, last.out, power) ELSE last.out]
  IN  loop[rbits].out

(* A negative exponent: 0, unless lwp is taken for 1 or -1. lor, meant to be *)
(* 0 for "all words above the first are 0" and all ones for "all are ones",  *)
(* is not told of a last word that is neither.                               *)
VL_POWSS_WWW(obits, rbits, lwp, rwp, lsign, rsign) ==
  LET words == VL_WORDS_I(obits)
      mid[i \in 0 .. words - 2] == IF i = 0 THEN 0 ELSE mid[i - 1] | lwp[i]
      lor == mid[words - 2] | IF lwp[words - 1] = VL_MASK_E(rbits) THEN Base - 1 ELSE 0
      one == [VL_ZERO_W(obits) EXCEPT ![0] = 1]
  IN  IF rsign /\ VL_SIGN_W(rbits, rwp) # 0
      THEN IF lor = 0 /\ lwp[0] = 1 THEN one
           ELSE IF lsign /\ lor = Base - 1 /\ lwp[0] = Base - 1
           THEN IF rwp[0] % 2 = 1 THEN VL_ALLONES_W(obits) ELSE one
           ELSE VL_ZERO_W(obits)
      ELSE VL_POW_WWW(obits, rbits, lwp, rwp)
====
