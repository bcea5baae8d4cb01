----------------------------- MODULE WideFields -----------------------------
(* Insertion into, selection from and shifts of wide values (rf_verilated.h). *)
(* An insertion masks the word it starts in (linsmask) and the one it ends in *)
(* (hinsmask); a value that does not start at bit 0 of a word is spread over   *)
(* two words of the output for each of its own.                               *)
EXTENDS WideOps

RECURSIVE InsertWords(_, _, _, _)
InsertWords_NotTheLast(owp, lwp, m, i) ==  \* mutant: what crosses into the last word is dropped
  LET oword == m.lword + i
      top(od, o) == (o & Inv(m.hinsmask)) | (od & m.hinsmask & m.cleanmask)
      od == (owp[oword] & Inv(m.linsmask)) | (Shl(lwp[i], m.loffset) & m.linsmask)
      lower == [owp EXCEPT ![oword] = IF oword = m.hword THEN top(od, @) ELSE od]
      od2 == (Shr(lwp[i], EDATASIZE - m.loffset) & Inv(m.linsmask))
             | (lower[oword + 1] & m.linsmask)
      upper == IF oword + 1 < m.hword THEN [lower EXCEPT ![oword + 1] = od2] ELSE lower
  IN  IF i = m.words THEN owp ELSE InsertWords(upper, lwp, m, i + 1)
InsertWords(owp, lwp, m, i) ==  \* the loop over the words of lwp; m: the masks
  LET oword == m.lword + i
      top(od, o) == (o & Inv(m.hinsmask)) | (od & m.hinsmask & m.cleanmask)
      od == (owp[oword] & Inv(m.linsmask)) | (Shl(lwp[i], m.loffset) & m.linsmask)
      lower == [owp EXCEPT ![oword] = IF oword = m.hword THEN top(od, @) ELSE od]
      od2 == (Shr(lwp[i], EDATASIZE - m.loffset) & Inv(m.linsmask))
             | (lower[oword + 1] & m.linsmask)
      upper == IF oword + 1 <= m.hword
               THEN [lower EXCEPT ![oword + 1] = IF oword + 1 = m.hword THEN top(od2, @) ELSE od2]
               ELSE lower
  IN  IF i = m.words THEN owp ELSE InsertWords(upper, lwp, m, i + 1)

vl_insert_WW(owp, lwp, hbit, lbit, rbits) ==
  LET hoffset == VL_BITBIT_E(hbit)
      loffset == VL_BITBIT_E(lbit)
      lword == VL_BITWORD_E(lbit)
      hword == VL_BITWORD_E(hbit)
      words == VL_WORDS_I(hbit - lbit + 1)
      cleanmask == IF hword = VL_BITWORD_E(rbits) THEN VL_MASK_E(VL_BITBIT_E(rbits)) ELSE VL_MASK_E(0)
      hinsmask == VL_MASK_E(hoffset + 1)
      linsmask == Shl(VL_MASK_E(EDATASIZE - loffset), loffset)
      aligned(last) ==
        [i \in DOMAIN owp |->
           IF i = hword THEN last
           ELSE IF i \in lword .. lword + words - 2 THEN lwp[i - lword]
           ELSE owp[i]]
  IN  IF loffset = 0
      THEN IF hoffset = EDATASIZE - 1
           THEN aligned(lwp[words - 1] & cleanmask)
           ELSE aligned((owp[hword] & Inv(hinsmask)) | (lwp[words - 1] & hinsmask & cleanmask))
      ELSE InsertWords(owp, lwp,
             [hword |-> hword, lword |-> lword, loffset |-> loffset, words |-> words,
              hinsmask |-> hinsmask, linsmask |-> linsmask, cleanmask |-> cleanmask], 0)

(* Of one word only, ld.                                                      *)
vl_insert_WI(owp, ld, hbit, lbit, rbits) ==
  LET hoffset == VL_BITBIT_E(hbit)
      loffset == VL_BITBIT_E(lbit)
      hword == VL_BITWORD_E(hbit)
      lword == VL_BITWORD_E(lbit)
      cleanmask == IF hword = VL_BITWORD_E(rbits) THEN VL_MASK_E(VL_BITBIT_E(rbits)) ELSE VL_MASK_E(0)
      insmask == Shl(VL_MASK_E(hoffset - loffset + 1), loffset)
      hinsmask == VL_MASK_E(hoffset + 1)
      linsmask == Shl(VL_MASK_E(EDATASIZE - loffset), loffset)
  IN  IF hoffset = EDATASIZE - 1 /\ loffset = 0 THEN [owp EXCEPT ![lword] = ld & cleanmask]
      ELSE IF hword = lword
      THEN [owp EXCEPT ![lword] = (@ & Inv(insmask)) | (Shl(ld, loffset) & insmask & cleanmask)]
      ELSE [owp EXCEPT
              ![lword] = (@ & Inv(linsmask)) | (Shl(ld, loffset) & linsmask),
              ![hword] = (@ & Inv(hinsmask)) | (Shr(ld, EDATASIZE - loffset) & hinsmask & cleanmask)]

VL_CONCAT_WWW(obits, lbits, rbits, lwp, rwp) ==
  vl_insert_WW(VL_EXTEND_WW(obits, rbits, rwp), lwp, rbits + lbits - 1, rbits, 0)

(* The output of a replication is not cleared first: owp is what its words    *)
(* held before, and their bits above the last copy stay.                      *)
VL_REPLICATE_WWI(owp, lbits, lwp, rep) ==
  LET copies[i \in 1 .. rep] ==
        IF i = 1 THEN [w \in DOMAIN owp |-> IF w < VL_WORDS_I(lbits) THEN lwp[w] ELSE owp[w]]
        ELSE vl_insert_WW(copies[i - 1], lwp, i * lbits - 1, (i - 1) * lbits, 0)
  IN  copies[rep]

----------------------------------------------------------------------------
(* Selection. Past the end all ones are returned, where the code notices.     *)

VL_BITSEL_IWII(lbits, lwp, rd) ==
  IF rd > lbits THEN Base - 1 ELSE Shr(lwp[VL_BITWORD_E(rd)], VL_BITBIT_E(rd))
VL_SEL_IWII(lbits, lwp, lsb, width) ==
  LET msb == lsb + width - 1
      low == Shr(lwp[VL_BITWORD_E(lsb)], VL_BITBIT_E(lsb))
  IN  IF msb >= lbits THEN Base - 1
      ELSE IF VL_BITWORD_E(msb) = VL_BITWORD_E(lsb) THEN low
      ELSE Shl(lwp[VL_BITWORD_E(msb)], EDATASIZE - VL_BITBIT_E(lsb)) | low

(* The part of a right shift the three shifts and the selection have in       *)
(* common: word i is made of two words of lwp, the upper one if there is one. *)
Down(lwp, rd, i, last) ==
  LET from == i + VL_BITWORD_E(rd)
      loffset == VL_BITBIT_E(rd)
  IN  Shr(lwp[from], loffset)
      | IF from + 1 <= last THEN Shl(lwp[from + 1], EDATASIZE - loffset) ELSE 0

VL_SEL_WWII(obits, lbits, lwp, lsb, width) ==
  LET msb == lsb + width - 1
      words == VL_WORDS_I(msb - lsb + 1)
  IN  IF msb > lbits THEN VL_ALLONES_W(obits)
      ELSE [i \in 0 .. VL_WORDS_I(obits) - 1 |->
              IF VL_BITBIT_E(lsb) = 0 THEN lwp[i + VL_BITWORD_E(lsb)]
              ELSE IF i < words THEN Down(lwp, lsb, i, VL_BITWORD_E(msb))
              ELSE 0]

(* Slices of rd bits in reverse order, bit by bit.                            *)
VL_STREAML_WWI(lbits, lwp, rd) ==
  LET ssize == IF rd < lbits THEN rd ELSE lbits
      ostart(istart) == IF lbits - rd - istart > 0 THEN lbits - rd - istart ELSE 0
      copied == {<<istart + sbit, ostart(istart) + sbit>> :
                   <<istart, sbit>> \in {<<n, b>> \in (0 .. lbits - 1) \X (0 .. ssize - 1) :
                                           n % rd = 0 /\ b < lbits - n}}
      set(o) == \E c \in copied : c[2] = o /\ VL_BITISSET_W(lwp, c[1])
      word[i \in 0 .. VL_WORDS_I(lbits) - 1, n \in 0 .. EDATASIZE] ==
        IF n = 0 THEN 0
        ELSE word[i, n - 1] | IF set(i * EDATASIZE + n - 1) THEN Shl(1, n - 1) ELSE 0
  IN  [i \in 0 .. VL_WORDS_I(lbits) - 1 |-> word[i, EDATASIZE]]

----------------------------------------------------------------------------
(* Shifts. rd, the amount of a _WWI, is one word; the amount of a _WWW is a   *)
(* wide value of rbits.                                                       *)

VL_SHIFTL_WWI(obits, lwp, rd) ==
  LET word_shift == VL_BITWORD_E(rd)
  IN  IF rd >= obits THEN VL_ZERO_W(obits)
      ELSE IF VL_BITBIT_E(rd) = 0
      THEN [i \in 0 .. VL_WORDS_I(obits) - 1 |-> IF i < word_shift THEN 0 ELSE lwp[i - word_shift]]
      ELSE vl_insert_WW(VL_ZERO_W(obits), lwp, obits - 1, rd, 0)
VL_SHIFTR_WWI(obits, lwp, rd) ==
  LET copy_words == VL_WORDS_I(obits) - VL_BITWORD_E(rd)
      words == VL_WORDS_I(obits - rd)
  IN  IF rd >= obits THEN VL_ZERO_W(obits)
      ELSE [i \in 0 .. VL_WORDS_I(obits) - 1 |->
              IF VL_BITBIT_E(rd) = 0
              THEN IF i < copy_words THEN lwp[i + VL_BITWORD_E(rd)] ELSE 0
              ELSE IF i < words THEN Down(lwp, rd, i, VL_WORDS_I(obits) - 1) ELSE 0]

SignEverywhere(obits, lbits, lwp) ==
  LET lmsw == VL_WORDS_I(obits) - 1
  IN  [[i \in 0 .. lmsw |-> VL_SIGNONES_W(lbits, lwp)] EXCEPT ![lmsw] = @ & VL_MASK_E(lbits)]
VL_SHIFTRS_WWI_SignOfWords(obits, lbits, lwp, rd) ==  \* mutant: the sign fills whole words only
  LET lmsw == VL_WORDS_I(obits) - 1
      words == VL_WORDS_I(obits - rd)
      moved == [i \in 0 .. lmsw |->
                  IF i >= words THEN VL_SIGNONES_W(lbits, lwp)
                  ELSE IF VL_BITBIT_E(rd) = 0 THEN lwp[i + VL_BITWORD_E(rd)]
                  ELSE Down(lwp, rd, i, lmsw)]
  IN  IF rd >= obits THEN SignEverywhere(obits, lbits, lwp)
      ELSE [moved EXCEPT ![lmsw] = @ & VL_MASK_E(lbits)]
VL_SHIFTRS_WWI(obits, lbits, lwp, rd) ==
  LET lmsw == VL_WORDS_I(obits) - 1
      sign == VL_SIGNONES_W(lbits, lwp)
      copy_words == lmsw + 1 - VL_BITWORD_E(rd)
      words == VL_WORDS_I(obits - rd)
      copied == [i \in 0 .. lmsw |->
                   IF i >= copy_words THEN sign
                   ELSE lwp[i + VL_BITWORD_E(rd)]
                        | IF i = copy_words - 1 THEN Inv(VL_MASK_E(obits)) & sign ELSE 0]
      moved == [i \in 0 .. lmsw |->
                  IF i >= words THEN sign
                  ELSE Down(lwp, rd, i, lmsw)
                       | IF i = words - 1
                         THEN sign & Inv(VL_MASK_E(obits - VL_BITBIT_E(rd))) ELSE 0]
      clean(wp) == [wp EXCEPT ![lmsw] = @ & VL_MASK_E(lbits)]
  IN  IF rd >= obits THEN SignEverywhere(obits, lbits, lwp)
      ELSE IF VL_BITBIT_E(rd) = 0 THEN clean(copied)
      ELSE clean(moved)

Huge(rbits, rwp) == \E i \in 1 .. VL_WORDS_I(rbits) - 1 : rwp[i] # 0   \* 1 >> 32 or more
VL_SHIFTL_WWW(obits, rbits, lwp, rwp) ==
  IF Huge(rbits, rwp) THEN VL_ZERO_W(obits) ELSE VL_SHIFTL_WWI(obits, lwp, rwp[0])
VL_SHIFTR_WWW(obits, rbits, lwp, rwp) ==
  IF Huge(rbits, rwp) THEN VL_ZERO_W(obits) ELSE VL_SHIFTR_WWI(obits, lwp, rwp[0])
VL_SHIFTRS_WWW(obits, lbits, rbits, lwp, rwp) ==
  IF Huge(rbits, rwp) \/ rwp[0] >= obits THEN SignEverywhere(obits, lbits, lwp)
  ELSE VL_SHIFTRS_WWI(obits, lbits, lwp, rwp[0])

----------------------------------------------------------------------------
(* The left stream of a scalar of 2^log2 bits, in slices of 2^rd_log2 bits,   *)
(* here on the set of bit positions that are 1: the bits of an incomplete     *)
(* slice are moved to its top, then halves, quarters, ... are swapped down to *)
(* the size of a slice, each with a mask of the positions of the lower ones.  *)
(* A scalar that fills its type in whole slices makes the code shift a mask   *)
(* by the size of the type, which is undefined: the definition takes the      *)
(* outcome 0, the harmless one.                                               *)

RECURSIVE Swapped(_, _, _)
Swapped(ret, k, log2) ==
  LET lower == {b \in 0 .. 2^log2 - 1 : (b \div 2^k) % 2 = 0}
  IN  IF k = log2 THEN ret
      ELSE Swapped({b - 2^k : b \in {c \in ret : c - 2^k \in lower}}
                   \cup {b + 2^k : b \in ret \cap lower}, k + 1, log2)
VL_STREAML_FAST_Gap(lbits, ld, rd_log2, log2) ==  \* mutant: an incomplete slice is not moved first
  {b - (2^log2 - lbits) : b \in {c \in Swapped(ld, rd_log2, log2) : c >= 2^log2 - lbits}}
VL_STREAML_FAST(lbits, ld, rd_log2, log2) ==
  LET lbitsFloor == (lbits \div 2^rd_log2) * 2^rd_log2
      lbitsRem == lbits - lbitsFloor
      ret == {IF lbitsRem > 0 /\ b >= lbitsFloor THEN b + 2^rd_log2 - lbitsRem ELSE b : b \in ld}
  IN  {b - (2^log2 - lbits) : b \in {c \in Swapped(ret, rd_log2, log2) : c >= 2^log2 - lbits}}
====
