------------------------- MODULE CallLoweringProofs -------------------------
(***************************************************************************)
(* Proofs about the placing of arguments and results, for signatures of    *)
(* any length, on all targets.                                             *)
(***************************************************************************)
EXTENDS CallLowering, SequenceTheorems, TLAPS

-----------------------------------------------------------------------------
(* Lists of registers                                                      *)

GeneralNames == {"DI", "SI", "DX", "CX", "AX", "BX", "R8", "R9", "R10", "R12", "R13", "R14", "R15", "X"}
FloatNames   == {"XMM", "V", "F", "FP"}
Registers    == (GeneralNames \cup FloatNames \cup {"stack"}) \X Nat

\* A list names no register twice.
Listed(r, names) ==
  /\ r \in Seq(names \X Nat)
  /\ \A j, k \in 1 .. Len(r) : r[j] = r[k] => j = k

LEMMA NumberedListed ==
  ASSUME NEW names, NEW p \in names, NEW a \in Nat, NEW b \in Nat, a <= b
  PROVE  LET r == Numbered(p, a, b)
         IN  /\ Listed(r, names) /\ Len(r) = b - a + 1
             /\ \A k \in 1 .. Len(r) : r[k] = <<p, a + k - 1>>
<1> DEFINE r == Numbered(p, a, b)
<1>1. b - a + 1 \in Nat /\ \A k \in 1 .. b - a + 1 : a + k - 1 \in Nat
  OBVIOUS
<1>2. r = [k \in 1 .. b - a + 1 |-> <<p, a + k - 1>>]
  BY DEF Numbered
<1>3. r \in Seq(names \X Nat) /\ Len(r) = b - a + 1
  BY <1>1, <1>2
<1>4. \A k \in 1 .. Len(r) : r[k] = <<p, a + k - 1>>
  BY <1>1, <1>2, <1>3
<1>5. \A j, k \in 1 .. Len(r) : r[j] = r[k] => j = k
  BY <1>1, <1>3, <1>4
<1>6. QED
  BY <1>3, <1>4, <1>5 DEF Listed

LEMMA NamedListed ==
  ASSUME NEW names, NEW s \in Seq(names), \A j, k \in 1 .. Len(s) : s[j] = s[k] => j = k
  PROVE  Listed(Named(s), names)
<1> DEFINE r == Named(s)
<1>1. r = [k \in 1 .. Len(s) |-> <<s[k], 0>>] /\ Len(s) \in Nat
  BY DEF Named
<1>2. r \in Seq(names \X Nat) /\ Len(r) = Len(s)
  BY <1>1
<1>3. \A j, k \in 1 .. Len(r) : r[j] = r[k] => j = k
  BY <1>1, <1>2
<1>4. QED
  BY <1>2, <1>3 DEF Listed

LEMMA ConcatListed ==
  ASSUME NEW names, NEW q, NEW r, Listed(q, names), Listed(r, names),
         \A j \in 1 .. Len(q), k \in 1 .. Len(r) : q[j] # r[k]
  PROVE  Listed(q \o r, names)
<1>1. q \in Seq(names \X Nat) /\ r \in Seq(names \X Nat)
  BY DEF Listed
<1>2. PICK t : t = q \o r
  OBVIOUS
<1>3. /\ t \in Seq(names \X Nat) /\ Len(t) = Len(q) + Len(r)
      /\ \A j \in 1 .. Len(q) + Len(r) : t[j] = IF j <= Len(q) THEN q[j] ELSE r[j - Len(q)]
  BY <1>1, <1>2, ConcatProperties
<1>4. Len(q) \in Nat /\ Len(r) \in Nat
  BY <1>1
<1>5. ASSUME NEW j \in 1 .. Len(t), NEW k \in 1 .. Len(t), t[j] = t[k] PROVE j = k
  <2>1. CASE j <= Len(q) /\ k <= Len(q)
    <3>1. t[j] = q[j] /\ t[k] = q[k] /\ j \in 1 .. Len(q) /\ k \in 1 .. Len(q)
      BY <1>3, <1>4, <2>1
    <3>2. QED
      BY <1>5, <3>1 DEF Listed
  <2>2. CASE j <= Len(q) /\ k > Len(q)
    <3>1. t[j] = q[j] /\ t[k] = r[k - Len(q)] /\ j \in 1 .. Len(q) /\ k - Len(q) \in 1 .. Len(r)
      BY <1>3, <1>4, <2>2
    <3>2. QED
      BY <1>5, <3>1
  <2>3. CASE j > Len(q) /\ k <= Len(q)
    <3>1. t[k] = q[k] /\ t[j] = r[j - Len(q)] /\ k \in 1 .. Len(q) /\ j - Len(q) \in 1 .. Len(r)
      BY <1>3, <1>4, <2>3
    <3>2. QED
      BY <1>5, <3>1
  <2>4. CASE j > Len(q) /\ k > Len(q)
    <3>1. /\ t[k] = r[k - Len(q)] /\ k - Len(q) \in 1 .. Len(r)
          /\ t[j] = r[j - Len(q)] /\ j - Len(q) \in 1 .. Len(r)
      BY <1>3, <1>4, <2>4
    <3>2. j - Len(q) = k - Len(q)
      BY <1>5, <3>1 DEF Listed
    <3>3. QED
      BY <1>3, <1>4, <3>2
  <2>5. QED
    BY <1>3, <1>4, <2>1, <2>2, <2>3, <2>4
<1>6. QED
  BY <1>2, <1>3, <1>5 DEF Listed

LEMMA PrefixListed ==
  ASSUME NEW names, NEW r, Listed(r, names), NEW n \in Nat, n <= Len(r)
  PROVE  Listed(SubSeq(r, 1, n), names)
<1>1. r \in Seq(names \X Nat) /\ Len(r) \in Nat
  BY DEF Listed
<1>2. PICK t : t = SubSeq(r, 1, n)
  OBVIOUS
<1>3. t \in Seq(names \X Nat) /\ Len(t) = n /\ \A k \in 1 .. n : t[k] = r[k]
  BY <1>1, <1>2
<1>4. \A j, k \in 1 .. Len(t) : t[j] = t[k] => j = k
  <2> SUFFICES ASSUME NEW j \in 1 .. Len(t), NEW k \in 1 .. Len(t), t[j] = t[k] PROVE j = k
    OBVIOUS
  <2>1. t[j] = r[j] /\ t[k] = r[k] /\ j \in 1 .. Len(r) /\ k \in 1 .. Len(r)
    BY <1>1, <1>3
  <2>2. QED
    BY <2>1 DEF Listed
<1>5. QED
  BY <1>2, <1>3, <1>4 DEF Listed

LEMMA EmptyListed == ASSUME NEW names PROVE Listed(<<>>, names)
<1>1. <<>> \in Seq(names \X Nat)
  OBVIOUS
<1>2. QED
  BY <1>1 DEF Listed

\* The lists of all targets, each a list of one class of registers.
LEMMA X86Lists ==
  /\ \A conv : Listed(RegsIn(X86ArgGPRs, conv), GeneralNames)
  /\ \A conv : Listed(RegsIn(X86RetGPRs, conv), GeneralNames)
  /\ Listed(Named(<<"AX", "DX">>), GeneralNames)
  /\ Listed(X86FPRs, FloatNames) /\ Len(X86FPRs) = 8
<1>1. ASSUME NEW s \in {<<"DI", "SI", "DX", "CX", "R8", "R9">>, <<"R14", "R15">>,
                       <<"DI", "SI", "DX", "R10", "R8", "R9">>, <<"AX", "BX">>, <<"AX", "DX">>,
                       <<"R14", "R15", "AX">>, <<"AX">>}
      PROVE  Listed(Named(s), GeneralNames)
  <2>1. /\ <<"DI", "SI", "DX", "CX", "R8", "R9">> \in Seq(GeneralNames)
        /\ <<"DI", "SI", "DX", "R10", "R8", "R9">> \in Seq(GeneralNames)
        /\ <<"R14", "R15">> \in Seq(GeneralNames) /\ <<"AX", "BX">> \in Seq(GeneralNames)
        /\ <<"AX", "DX">> \in Seq(GeneralNames) /\ <<"AX">> \in Seq(GeneralNames)
        /\ <<"R14", "R15", "AX">> \in Seq(GeneralNames)
    BY DEF GeneralNames
  <2>2. \A j, k \in 1 .. Len(s) : s[j] = s[k] => j = k
    OBVIOUS
  <2>3. QED
    BY <2>1, <2>2, NamedListed
<1>2. Listed(Named(<<"R14", "R15", "AX", "BX", "DI", "SI", "DX", "CX", "R8", "R9", "R12", "R13">>),
             GeneralNames)
  <2> DEFINE s == <<"R14", "R15", "AX", "BX", "DI", "SI", "DX", "CX", "R8", "R9", "R12", "R13">>
  <2>1. s \in Seq(GeneralNames)
    BY DEF GeneralNames
  <2>2. \A j, k \in 1 .. Len(s) : s[j] = s[k] => j = k
    OBVIOUS
  <2>3. QED
    BY <2>1, <2>2, NamedListed
<1>3. \A conv : Listed(RegsIn(X86ArgGPRs, conv), GeneralNames)
  BY <1>1, <1>2, EmptyListed DEF RegsIn, X86ArgGPRs
<1>4. \A conv : Listed(RegsIn(X86RetGPRs, conv), GeneralNames)
  BY <1>1, EmptyListed DEF RegsIn, X86RetGPRs
<1>5. Listed(X86FPRs, FloatNames) /\ Len(X86FPRs) = 8
  <2>1. "XMM" \in FloatNames /\ 0 \in Nat /\ 7 \in Nat /\ 0 <= 7 /\ 7 - 0 + 1 = 8
    BY DEF FloatNames
  <2>2. QED
    BY <2>1, NumberedListed DEF X86FPRs
<1>6. QED
  BY <1>1, <1>3, <1>4, <1>5

\* The numbers in a list of numbered registers.
Among(r, p, numbers) == \A k \in 1 .. Len(r) : \E n \in numbers : r[k] = <<p, n>>

LEMMA NumberedAmong ==
  ASSUME NEW names, NEW p \in names, NEW a \in Nat, NEW b \in Nat, a <= b
  PROVE  Listed(Numbered(p, a, b), names) /\ Among(Numbered(p, a, b), p, a .. b)
<1>1. PICK r : r = Numbered(p, a, b)
  OBVIOUS
<1>2. /\ Listed(r, names) /\ Len(r) = b - a + 1
      /\ \A k \in 1 .. Len(r) : r[k] = <<p, a + k - 1>>
  BY <1>1, NumberedListed
<1>3. ASSUME NEW k \in 1 .. Len(r) PROVE \E n \in a .. b : r[k] = <<p, n>>
  <2>1. a + k - 1 \in a .. b
    BY <1>2
  <2>2. QED
    BY <1>2, <2>1
<1>4. QED
  BY <1>1, <1>2, <1>3 DEF Among

LEMMA ConcatAmong ==
  ASSUME NEW names, NEW p, NEW q, NEW r, NEW M, NEW N, M \cap N = {},
         Listed(q, names), Among(q, p, M), Listed(r, names), Among(r, p, N)
  PROVE  Listed(q \o r, names) /\ Among(q \o r, p, M \cup N)
<1>1. ASSUME NEW j \in 1 .. Len(q), NEW k \in 1 .. Len(r) PROVE q[j] # r[k]
  <2>1. PICK m \in M : q[j] = <<p, m>>
    BY DEF Among
  <2>2. PICK n \in N : r[k] = <<p, n>>
    BY DEF Among
  <2>3. m # n
    OBVIOUS
  <2>4. QED
    BY <2>1, <2>2, <2>3
<1>2. Listed(q \o r, names)
  BY <1>1, ConcatListed
<1>3. q \in Seq(names \X Nat) /\ r \in Seq(names \X Nat)
  BY DEF Listed
<1>4. PICK t : t = q \o r
  OBVIOUS
<1>5. /\ Len(t) = Len(q) + Len(r)
      /\ \A j \in 1 .. Len(q) + Len(r) : t[j] = IF j <= Len(q) THEN q[j] ELSE r[j - Len(q)]
  BY <1>3, <1>4, ConcatProperties
<1>6. ASSUME NEW k \in 1 .. Len(t) PROVE \E n \in M \cup N : t[k] = <<p, n>>
  <2>1. Len(q) \in Nat /\ Len(r) \in Nat
    BY <1>3
  <2>2. CASE k <= Len(q)
    <3>1. k \in 1 .. Len(q) /\ t[k] = q[k]
      BY <1>5, <2>1, <2>2
    <3>2. QED
      BY <3>1 DEF Among
  <2>3. CASE k > Len(q)
    <3>1. k - Len(q) \in 1 .. Len(r) /\ t[k] = r[k - Len(q)]
      BY <1>5, <2>1, <2>3
    <3>2. QED
      BY <3>1 DEF Among
  <2>4. QED
    BY <1>5, <2>1, <2>2, <2>3
<1>7. QED
  BY <1>2, <1>4, <1>6 DEF Among

LEMMA AArch64Lists ==
  /\ \A conv : Listed(RegsIn(AArch64ArgGPRs, conv), GeneralNames)
  /\ \A conv : Listed(RegsIn(AArch64RetGPRs, conv), GeneralNames)
  /\ Listed(AArch64FPRs, FloatNames) /\ Len(AArch64FPRs) = 16
<1>1. "X" \in GeneralNames /\ "V" \in FloatNames
  BY DEF GeneralNames, FloatNames
<1>2. Listed(AArch64Runtime, GeneralNames) /\ Among(AArch64Runtime, "X", 25 .. 28)
  <2>1. 25 \in Nat /\ 28 \in Nat /\ 25 <= 28
    OBVIOUS
  <2>2. QED
    BY <1>1, <2>1, NumberedAmong DEF AArch64Runtime
<1>3. Listed(Numbered("X", 0, 7), GeneralNames)
  <2>1. 0 \in Nat /\ 7 \in Nat /\ 0 <= 7
    OBVIOUS
  <2>2. QED
    BY <1>1, <2>1, NumberedAmong
<1>4. ASSUME NEW n \in {0, 15}
      PROVE  Listed(AArch64Runtime \o Numbered("X", 0, n), GeneralNames)
  <2>1. Listed(Numbered("X", 0, n), GeneralNames) /\ Among(Numbered("X", 0, n), "X", 0 .. n)
    BY <1>1, NumberedAmong
  <2>2. (25 .. 28) \cap (0 .. n) = {}
    OBVIOUS
  <2>3. QED
    BY <1>2, <2>1, <2>2, ConcatAmong
<1>5. PICK c, args, rets : /\ c = Numbered("X", 0, 7)
                            /\ args = AArch64Runtime \o Numbered("X", 0, 15)
                            /\ rets = AArch64Runtime \o Numbered("X", 0, 0)
  OBVIOUS
<1>6. \A conv : /\ Listed(RegsIn(AArch64ArgGPRs, conv), GeneralNames)
                           /\ Listed(RegsIn(AArch64RetGPRs, conv), GeneralNames)
  <2>1. AArch64ArgGPRs = [C |-> c, CAML |-> args, CAML_ALLOC |-> AArch64Runtime,
                          CAML_GC |-> AArch64Runtime]
    BY <1>5 DEF AArch64ArgGPRs
  <2>2. AArch64RetGPRs = [C |-> c, CAML |-> rets, CAML_ALLOC |-> AArch64Runtime,
                          CAML_GC |-> AArch64Runtime]
    <3>1. AArch64RetGPRs = [AArch64ArgGPRs EXCEPT !.CAML = rets]
      BY <1>5 DEF AArch64RetGPRs
    <3>2. QED
      BY <2>1, <3>1
  <2>3. Listed(c, GeneralNames) /\ Listed(args, GeneralNames) /\ Listed(rets, GeneralNames)
    BY <1>3, <1>4, <1>5
  <2>4. QED
    BY <1>2, <2>1, <2>2, <2>3, EmptyListed DEF RegsIn
<1>7. Listed(AArch64FPRs, FloatNames) /\ Len(AArch64FPRs) = 16
  <2>1. 0 \in Nat /\ 15 \in Nat /\ 0 <= 15 /\ 15 - 0 + 1 = 16
    OBVIOUS
  <2>2. QED
    BY <1>1, <2>1, NumberedListed DEF AArch64FPRs
<1>8. QED
  BY <1>6, <1>7

LEMMA RISCVLists ==
  /\ \A conv : Listed(RegsIn(RISCVArgGPRs, conv), GeneralNames)
  /\ \A conv : Listed(RegsIn(RISCVRetGPRs, conv), GeneralNames)
  /\ \A conv : Listed(RegsIn(RISCVFPRs, conv), FloatNames)
  /\ Listed(Numbered("F", 10, 11), FloatNames) /\ Listed(Numbered("F", 10, 10), FloatNames)
<1>1. "X" \in GeneralNames /\ "F" \in FloatNames
  BY DEF GeneralNames, FloatNames
<1>2. Listed(RISCVRuntime, GeneralNames) /\ Among(RISCVRuntime, "X", (8 .. 9) \cup (26 .. 27))
  <2>1. 8 \in Nat /\ 9 \in Nat /\ 8 <= 9 /\ 26 \in Nat /\ 27 \in Nat /\ 26 <= 27
    OBVIOUS
  <2>2. Listed(Numbered("X", 8, 9), GeneralNames) /\ Among(Numbered("X", 8, 9), "X", 8 .. 9)
    BY <1>1, <2>1, NumberedAmong
  <2>3. Listed(Numbered("X", 26, 27), GeneralNames) /\ Among(Numbered("X", 26, 27), "X", 26 .. 27)
    BY <1>1, <2>1, NumberedAmong
  <2>4. (8 .. 9) \cap (26 .. 27) = {}
    OBVIOUS
  <2>5. QED
    BY <2>2, <2>3, <2>4, ConcatAmong DEF RISCVRuntime
<1>3. ASSUME NEW n \in {10, 11, 17, 25}
      PROVE  Listed(Numbered("X", 10, n), GeneralNames) /\ Among(Numbered("X", 10, n), "X", 10 .. n)
  BY <1>1, NumberedAmong
<1>4. ASSUME NEW n \in {10, 25}
      PROVE  Listed(RISCVRuntime \o Numbered("X", 10, n), GeneralNames)
  <2>1. ((8 .. 9) \cup (26 .. 27)) \cap (10 .. n) = {}
    OBVIOUS
  <2>2. QED
    BY <1>2, <1>3, <2>1, ConcatAmong
<1>5. PICK c, cret, args, rets : /\ c = Numbered("X", 10, 17)
                                  /\ cret = Numbered("X", 10, 11)
                                  /\ args = RISCVRuntime \o Numbered("X", 10, 25)
                                  /\ rets = RISCVRuntime \o Numbered("X", 10, 10)
  OBVIOUS
<1>6. \A conv : /\ Listed(RegsIn(RISCVArgGPRs, conv), GeneralNames)
                           /\ Listed(RegsIn(RISCVRetGPRs, conv), GeneralNames)
  <2>1. RISCVArgGPRs = [C |-> c, CAML |-> args, CAML_ALLOC |-> RISCVRuntime,
                        CAML_GC |-> RISCVRuntime]
    BY <1>5 DEF RISCVArgGPRs
  <2>2. RISCVRetGPRs = [C |-> cret, CAML |-> rets, CAML_ALLOC |-> RISCVRuntime,
                        CAML_GC |-> RISCVRuntime]
    <3>1. RISCVRetGPRs = [RISCVArgGPRs EXCEPT !.C = cret, !.CAML = rets]
      BY <1>5 DEF RISCVRetGPRs
    <3>2. QED
      BY <2>1, <3>1
  <2>3. /\ Listed(c, GeneralNames) /\ Listed(cret, GeneralNames)
        /\ Listed(args, GeneralNames) /\ Listed(rets, GeneralNames)
    BY <1>3, <1>4, <1>5
  <2>4. QED
    BY <1>2, <2>1, <2>2, <2>3, EmptyListed DEF RegsIn
<1>7. ASSUME NEW n \in {10, 11, 17, 25} PROVE Listed(Numbered("F", 10, n), FloatNames)
  BY <1>1, NumberedAmong
<1>8. \A conv : Listed(RegsIn(RISCVFPRs, conv), FloatNames)
  BY <1>7, EmptyListed DEF RegsIn, RISCVFPRs
<1>9. QED
  BY <1>6, <1>7, <1>8

LEMMA PPCLists ==
  /\ \A conv : Listed(RegsIn(PPCArgGPRs, conv), GeneralNames)
  /\ \A conv : Listed(RegsIn(PPCRetGPRs, conv), GeneralNames)
  /\ Listed(PPCFPRs, FloatNames) /\ Len(PPCFPRs) = 13
<1>1. "X" \in GeneralNames /\ "F" \in FloatNames
  BY DEF GeneralNames, FloatNames
<1>2. Listed(PPCRuntime, GeneralNames) /\ Among(PPCRuntime, "X", 28 .. 31)
  <2>1. 28 \in Nat /\ 31 \in Nat /\ 28 <= 31
    OBVIOUS
  <2>2. QED
    BY <1>1, <2>1, NumberedAmong DEF PPCRuntime
<1>3. ASSUME NEW n \in {6, 10}
      PROVE  Listed(Numbered("X", 3, n), GeneralNames) /\ Among(Numbered("X", 3, n), "X", 3 .. n)
  BY <1>1, NumberedAmong
<1>4. ASSUME NEW n \in {6, 10}
      PROVE  Listed(PPCRuntime \o Numbered("X", 3, n), GeneralNames)
  <2>1. (28 .. 31) \cap (3 .. n) = {}
    OBVIOUS
  <2>2. QED
    BY <1>2, <1>3, <2>1, ConcatAmong
<1>5. PICK c, cret, args, rets : /\ c = Numbered("X", 3, 10) /\ cret = Numbered("X", 3, 6)
                                  /\ args = PPCRuntime \o Numbered("X", 3, 10)
                                  /\ rets = PPCRuntime \o Numbered("X", 3, 6)
  OBVIOUS
<1>6. \A conv : /\ Listed(RegsIn(PPCArgGPRs, conv), GeneralNames)
                           /\ Listed(RegsIn(PPCRetGPRs, conv), GeneralNames)
  <2>1. PPCArgGPRs = [C |-> c, CAML |-> args]
    BY <1>5 DEF PPCArgGPRs
  <2>2. PPCRetGPRs = [C |-> cret, CAML |-> rets]
    BY <1>5 DEF PPCRetGPRs
  <2>3. /\ Listed(c, GeneralNames) /\ Listed(cret, GeneralNames)
        /\ Listed(args, GeneralNames) /\ Listed(rets, GeneralNames)
    BY <1>3, <1>4, <1>5
  <2>4. QED
    BY <2>1, <2>2, <2>3, EmptyListed DEF RegsIn
<1>7. Listed(PPCFPRs, FloatNames) /\ Len(PPCFPRs) = 13
  <2>1. 1 \in Nat /\ 13 \in Nat /\ 1 <= 13 /\ 13 - 1 + 1 = 13
    OBVIOUS
  <2>2. QED
    BY <1>1, <2>1, NumberedListed DEF PPCFPRs
<1>8. QED
  BY <1>6, <1>7

LEMMA ArgLists ==
  ASSUME NEW target \in Targets, NEW conv
  PROVE  Listed(ArgGPRs(target, conv), GeneralNames) /\ Listed(ArgFPRs(target, conv), FloatNames)
<1>1. Listed(SubSeq(AArch64FPRs, 1, 8), FloatNames)
  <2>1. 8 \in Nat /\ 8 <= Len(AArch64FPRs)
    BY AArch64Lists
  <2>2. QED
    BY <2>1, AArch64Lists, PrefixListed
<1>2. Listed(ArgGPRs(target, conv), GeneralNames)
  BY X86Lists, AArch64Lists, RISCVLists, PPCLists, EmptyListed DEF ArgGPRs, Targets
<1>3. Listed(ArgFPRs(target, conv), FloatNames)
  BY <1>1, X86Lists, AArch64Lists, RISCVLists, PPCLists, EmptyListed DEF ArgFPRs, Targets
<1>4. QED
  BY <1>2, <1>3

LEMMA RetLists ==
  ASSUME NEW target \in Targets, NEW conv
  PROVE  Listed(RetGPRs(target, conv), GeneralNames) /\ Listed(RetFPRs(target, conv), FloatNames)
<1>1. /\ Listed(SubSeq(AArch64FPRs, 1, 8), FloatNames) /\ Listed(SubSeq(AArch64FPRs, 1, 1), FloatNames)
      /\ Listed(SubSeq(X86FPRs, 1, 1), FloatNames) /\ Listed(SubSeq(PPCFPRs, 1, 4), FloatNames)
  <2>1. /\ 8 \in Nat /\ 8 <= Len(AArch64FPRs) /\ 1 \in Nat /\ 1 <= Len(AArch64FPRs)
        /\ 1 <= Len(X86FPRs) /\ 4 \in Nat /\ 4 <= Len(PPCFPRs)
    BY X86Lists, AArch64Lists, PPCLists
  <2>2. QED
    BY <2>1, X86Lists, AArch64Lists, PPCLists, PrefixListed
<1>2. Listed(Numbered("FP", 0, 1), FloatNames)
  <2>1. "FP" \in FloatNames /\ 0 \in Nat /\ 1 \in Nat /\ 0 <= 1
    BY DEF FloatNames
  <2>2. QED
    BY <2>1, NumberedAmong
<1>3. Listed(RetGPRs(target, conv), GeneralNames)
  BY X86Lists, AArch64Lists, RISCVLists, PPCLists, EmptyListed DEF RetGPRs, Targets
<1>4. Listed(RetFPRs(target, conv), FloatNames)
  BY <1>1, <1>2, RISCVLists, EmptyListed DEF RetFPRs, Targets
<1>5. QED
  BY <1>3, <1>4

-----------------------------------------------------------------------------
(* Assignments                                                             *)

Parts == [arg : Nat, reg : Registers, off : Nat, size : Nat]

Assignments ==
  [gpr : Nat, fpr : Nat, x87 : Nat, stack : Nat, align : Nat, onstack : BOOLEAN, failed : BOOLEAN,
   parts : Seq(Parts)]

LEMMA ListedRegister ==
  ASSUME NEW r, Listed(r, GeneralNames) \/ Listed(r, FloatNames), NEW k \in Nat, k < Len(r)
  PROVE  r[k + 1] \in Registers
<1>1. PICK names : names \subseteq GeneralNames \cup FloatNames /\ r \in Seq(names \X Nat)
  BY DEF Listed
<1>2. k + 1 \in 1 .. Len(r)
  BY <1>1
<1>3. r[k + 1] \in names \X Nat
  BY <1>1, <1>2, ElementOfSeq
<1>4. QED
  BY <1>1, <1>3 DEF Registers

LEMMA MaxOfTwo == ASSUME NEW a \in Nat, NEW b \in Nat PROVE Max({a, b}) \in Nat
BY DEF Max

\* Rounding up does not go down.
LEMMA AlignUp ==
  ASSUME NEW n \in Nat, NEW a \in Nat \ {0}
  PROVE  AlignTo(n, a) \in Nat /\ AlignTo(n, a) >= n
BY DEF AlignTo

LEMMA TwoAppends ==
  ASSUME NEW S, NEW s \in Seq(S), NEW p \in S, NEW q \in S
  PROVE  s \o <<p, q>> = Append(Append(s, p), q)
<1>1. <<p>> \in Seq(S) /\ <<q>> \in Seq(S) /\ Append(s, p) \in Seq(S)
  OBVIOUS
<1>2. <<p>> \o <<q>> = <<p, q>>
  <2>1. PICK a, b, c, d : a = <<p>> /\ b = <<q>> /\ c = a \o b /\ d = <<p, q>>
    OBVIOUS
  <2>2. /\ a \in Seq(S) /\ Len(a) = 1 /\ a[1] = p /\ b \in Seq(S) /\ Len(b) = 1 /\ b[1] = q
        /\ d \in Seq(S) /\ Len(d) = 2 /\ d[1] = p /\ d[2] = q
    BY <2>1
  <2>3. /\ c \in Seq(S) /\ Len(c) = Len(a) + Len(b)
        /\ \A j \in 1 .. Len(a) + Len(b) : c[j] = IF j <= Len(a) THEN a[j] ELSE b[j - Len(a)]
    BY <2>1, <2>2, ConcatProperties
  <2>4. Len(c) = Len(d) /\ \A j \in 1 .. Len(c) : c[j] = d[j]
    <3>1. Len(c) = 2 /\ c[1] = p /\ c[2] = b[1]
      BY <2>2, <2>3
    <3>2. QED
      BY <2>2, <3>1
  <2>5. c = d
    BY <2>2, <2>3, <2>4, SeqEqual
  <2>6. QED
    BY <2>1, <2>5
<1>3. (s \o <<p>>) \o <<q>> = s \o (<<p>> \o <<q>>)
  BY <1>1, ConcatAssociative
<1>4. Append(s, p) = s \o <<p>> /\ Append(Append(s, p), q) = Append(s, p) \o <<q>>
  BY <1>1, AppendIsConcat
<1>5. QED
  BY <1>2, <1>3, <1>4

\* A step that takes registers: the counters and the parts after it.
Takes(s, t, g, f, x, parts) ==
  /\ t \in Assignments
  /\ t.gpr = g /\ t.fpr = f /\ t.x87 = x /\ t.parts = parts
  /\ t.stack = s.stack /\ t.align = s.align /\ t.onstack = s.onstack /\ t.failed = s.failed

LEMMA SetFields ==
  ASSUME NEW s \in Assignments, NEW g \in Nat, NEW f \in Nat, NEW x \in Nat, NEW a \in Seq(Parts)
  PROVE  /\ Takes(s, [s EXCEPT !.gpr = g, !.parts = a], g, s.fpr, s.x87, a)
         /\ Takes(s, [s EXCEPT !.fpr = f, !.parts = a], s.gpr, f, s.x87, a)
         /\ Takes(s, [s EXCEPT !.x87 = x, !.parts = a], s.gpr, s.fpr, x, a)
         /\ Takes(s, [s EXCEPT !.fpr = f, !.gpr = g, !.parts = a], g, f, s.x87, a)
         /\ Takes(s, [s EXCEPT !.gpr = g, !.fpr = f, !.parts = a], g, f, s.x87, a)
<1>1. PICK t, u, v : /\ t = [s EXCEPT !.gpr = g] /\ u = [s EXCEPT !.fpr = f]
                     /\ v = [s EXCEPT !.x87 = x]
  OBVIOUS
<1>2. /\ Takes(s, t, g, s.fpr, s.x87, s.parts) /\ Takes(s, u, s.gpr, f, s.x87, s.parts)
      /\ Takes(s, v, s.gpr, s.fpr, x, s.parts)
  BY <1>1 DEF Assignments, Takes
<1>3. PICK w, y : w = [u EXCEPT !.gpr = g] /\ y = [t EXCEPT !.fpr = f]
  OBVIOUS
<1>4. Takes(s, w, g, f, s.x87, s.parts) /\ Takes(s, y, g, f, s.x87, s.parts)
  BY <1>2, <1>3 DEF Assignments, Takes
<1>5. /\ Takes(s, [t EXCEPT !.parts = a], g, s.fpr, s.x87, a)
      /\ Takes(s, [u EXCEPT !.parts = a], s.gpr, f, s.x87, a)
      /\ Takes(s, [v EXCEPT !.parts = a], s.gpr, s.fpr, x, a)
  BY <1>2 DEF Assignments, Takes
<1>6. /\ Takes(s, [w EXCEPT !.parts = a], g, f, s.x87, a)
      /\ Takes(s, [y EXCEPT !.parts = a], g, f, s.x87, a)
  BY <1>4 DEF Assignments, Takes
<1>7. /\ [s EXCEPT !.gpr = g, !.parts = a] = [t EXCEPT !.parts = a]
      /\ [s EXCEPT !.fpr = f, !.parts = a] = [u EXCEPT !.parts = a]
      /\ [s EXCEPT !.x87 = x, !.parts = a] = [v EXCEPT !.parts = a]
  BY <1>1
<1>8. /\ [s EXCEPT !.fpr = f, !.gpr = g, !.parts = a] = [w EXCEPT !.parts = a]
      /\ [s EXCEPT !.gpr = g, !.fpr = f, !.parts = a] = [y EXCEPT !.parts = a]
  BY <1>1, <1>3
<1>9. QED
  BY <1>5, <1>6, <1>7, <1>8

LEMMA TakesForms ==
  ASSUME NEW s \in Assignments, NEW p \in Parts, NEW q \in Parts
  PROVE  /\ Takes(s, [s EXCEPT !.gpr = @ + 1, !.parts = Append(@, p)],
                   s.gpr + 1, s.fpr, s.x87, Append(s.parts, p))
         /\ Takes(s, [s EXCEPT !.fpr = @ + 1, !.parts = Append(@, p)],
                   s.gpr, s.fpr + 1, s.x87, Append(s.parts, p))
         /\ Takes(s, [s EXCEPT !.gpr = @ + 2, !.parts = @ \o <<p, q>>],
                   s.gpr + 2, s.fpr, s.x87, Append(Append(s.parts, p), q))
         /\ Takes(s, [s EXCEPT !.fpr = @ + 1, !.gpr = @ + 1, !.parts = Append(@, p)],
                   s.gpr + 1, s.fpr + 1, s.x87, Append(s.parts, p))
         /\ Takes(s, [[s EXCEPT !.fpr = @ + 1, !.gpr = @ + 1, !.parts = Append(@, p)]
                       EXCEPT !.parts = Append(@, q)],
                   s.gpr + 1, s.fpr + 1, s.x87, Append(Append(s.parts, p), q))
<1>1. s.parts \in Seq(Parts)
  BY DEF Assignments
<1>2. s.parts \o <<p, q>> = Append(Append(s.parts, p), q)
  BY <1>1, TwoAppends
<1>3. PICK a, b, r : /\ a = Append(s.parts, p) /\ b = Append(a, q) /\ r = <<p, q>>
                     /\ s.parts \o r = b
  BY <1>2
<1>a. a \in Seq(Parts) /\ b \in Seq(Parts)
  BY <1>1, <1>3
<1>4. s.gpr + 1 \in Nat /\ s.gpr + 2 \in Nat /\ s.fpr + 1 \in Nat
  BY DEF Assignments
<1>5. /\ Takes(s, [s EXCEPT !.gpr = s.gpr + 1, !.parts = a], s.gpr + 1, s.fpr, s.x87, a)
      /\ Takes(s, [s EXCEPT !.fpr = s.fpr + 1, !.parts = a], s.gpr, s.fpr + 1, s.x87, a)
      /\ Takes(s, [s EXCEPT !.gpr = s.gpr + 2, !.parts = b], s.gpr + 2, s.fpr, s.x87, b)
  BY <1>4, <1>a, SetFields
<1>7. Takes(s, [s EXCEPT !.fpr = s.fpr + 1, !.gpr = s.gpr + 1, !.parts = a],
            s.gpr + 1, s.fpr + 1, s.x87, a)
  BY <1>4, <1>a, SetFields
<1>8. ASSUME NEW t, Takes(s, t, s.gpr + 1, s.fpr + 1, s.x87, a)
      PROVE  Takes(s, [t EXCEPT !.parts = Append(@, q)], s.gpr + 1, s.fpr + 1, s.x87, b)
  <2>1. Takes(s, [t EXCEPT !.parts = b], s.gpr + 1, s.fpr + 1, s.x87, b)
    BY <1>a, <1>8 DEF Assignments, Takes
  <2>2. t.parts = a
    BY <1>8 DEF Takes
  <2>3. QED
    BY <1>3, <2>1, <2>2
<1>9. QED
  BY <1>3, <1>5, <1>7, <1>8

\* A step that takes room on the stack.
Slot(i, off, size) == [arg |-> i, reg |-> NoReg, off |-> off, size |-> size]

Lands(s, t, end, align, parts) ==
  /\ t \in Assignments
  /\ t.gpr = s.gpr /\ t.fpr = s.fpr /\ t.x87 = s.x87 /\ t.failed = s.failed /\ t.parts = parts
  /\ t.stack = end /\ t.align = align /\ t.onstack

LEMMA SlotIsPart ==
  ASSUME NEW i \in Nat, NEW off \in Nat, NEW size \in Nat
  PROVE  Slot(i, off, size) \in Parts
<1>1. NoReg \in Registers
  BY DEF NoReg, Registers
<1>2. QED
  BY <1>1 DEF Slot, Parts

LEMMA OnStackForm ==
  ASSUME NEW target, NEW s \in Assignments, NEW i \in Nat, NEW size \in Nat, NEW align \in Nat \ {0}
  PROVE  LET off == StackOffset(target, s, align)
         IN  /\ off \in Nat /\ off >= s.stack
             /\ Lands(s, OnStack(target, s, i, size, align), StackEnd(target, off, size),
                      Max({s.align, align}), Append(s.parts, Slot(i, off, size)))
<1>1. PICK off : off = StackOffset(target, s, align)
  OBVIOUS
<1>2. off \in Nat /\ off >= s.stack
  <2>1. s.stack \in Nat
    BY DEF Assignments
  <2>2. QED
    BY <1>1, <2>1, AlignUp DEF StackOffset
<1>3. PICK end : end = StackEnd(target, off, size)
  OBVIOUS
<1>4. end \in Nat
  <2>1. off + size \in Nat /\ 8 \in Nat \ {0}
    BY <1>2
  <2>2. QED
    BY <1>2, <1>3, <2>1, AlignUp DEF StackEnd
<1>5. PICK a : a = Append(s.parts, Slot(i, off, size)) /\ a \in Seq(Parts)
  <2>1. s.parts \in Seq(Parts) /\ Slot(i, off, size) \in Parts
    BY <1>2, SlotIsPart DEF Assignments
  <2>2. Append(s.parts, Slot(i, off, size)) \in Seq(Parts)
    BY <2>1
  <2>3. QED
    BY <2>2
<1>6. PICK m : m = Max({s.align, align}) /\ m \in Nat
  BY MaxOfTwo DEF Assignments
<1>7. PICK t, u, v : /\ t = [s EXCEPT !.stack = end] /\ u = [t EXCEPT !.align = m]
                     /\ v = [u EXCEPT !.onstack = TRUE]
  OBVIOUS
<1>8. /\ t \in Assignments /\ t.stack = end /\ t.align = s.align
      /\ t.gpr = s.gpr /\ t.fpr = s.fpr /\ t.x87 = s.x87 /\ t.failed = s.failed /\ t.parts = s.parts
  BY <1>4, <1>7 DEF Assignments
<1>9. /\ u \in Assignments /\ u.stack = end /\ u.align = m
      /\ u.gpr = s.gpr /\ u.fpr = s.fpr /\ u.x87 = s.x87 /\ u.failed = s.failed /\ u.parts = s.parts
  BY <1>6, <1>7, <1>8 DEF Assignments
<1>10. Lands(s, v, end, m, s.parts)
  BY <1>7, <1>9 DEF Assignments, Lands
<1>11. Lands(s, [v EXCEPT !.parts = a], end, m, a)
  BY <1>5, <1>10 DEF Assignments, Lands
<1>12. OnStack(target, s, i, size, align) = [v EXCEPT !.parts = a]
  <2>1. OnStack(target, s, i, size, align)
          = [s EXCEPT !.stack = end, !.align = m, !.onstack = TRUE, !.parts = a]
    BY <1>1, <1>3, <1>5, <1>6 DEF OnStack, Slot
  <2>2. QED
    BY <1>7, <2>1
<1>13. QED
  BY <1>1, <1>2, <1>3, <1>5, <1>6, <1>11, <1>12

LEMMA FailedForm ==
  ASSUME NEW s \in Assignments
  PROVE  Failed(s) \in Assignments /\ Failed(s).failed
BY DEF Failed, Assignments

-----------------------------------------------------------------------------
(* AssignArg                                                               *)

Classes == {"X", "B", "S", "I", "II", "F", "FI"}

\* What Assign does, class by class.
Assigns(c, s, i, ty, how, v, gprs, fprs, t) ==
  /\ how.class = "X" => t = Failed(s)
  /\ how.class = "B" => t = OnStack(c.target, s, i, how.size, ByValAlign)
  /\ how.class = "S" => t = OnStack(c.target, s, i, how.size, 8)
  /\ how.class = "I" /\ s.gpr < Len(gprs) =>
       t = [s EXCEPT !.gpr = @ + 1, !.parts = Append(@, InReg(i, gprs[s.gpr + 1]))]
  /\ how.class = "II" /\ s.gpr + 1 < Len(gprs) =>
       t = [s EXCEPT !.gpr = @ + 2,
                     !.parts = @ \o <<InReg(i, gprs[s.gpr + 1]), InReg(i, gprs[s.gpr + 2])>>]
  /\ how.class = "II" /\ ~(s.gpr + 1 < Len(gprs)) => t = Failed(s)
  /\ how.class = "F" /\ s.fpr < Len(fprs) /\ c.target = "PPC" /\ v = "C" => t = PPCFloat(c, s, i, ty)
  /\ how.class = "F" /\ s.fpr < Len(fprs) /\ ~(c.target = "PPC" /\ v = "C") =>
       t = [s EXCEPT !.fpr = @ + 1, !.parts = Append(@, InReg(i, fprs[s.fpr + 1]))]
  /\ how.class = "FI" /\ s.fpr < Len(gprs) =>
       t = [s EXCEPT !.fpr = @ + 1, !.parts = Append(@, InReg(i, gprs[s.fpr + 1]))]
  /\ \/ how.class = "I" /\ ~(s.gpr < Len(gprs))
     \/ how.class = "F" /\ ~(s.fpr < Len(fprs))
     \/ how.class = "FI" /\ ~(s.fpr < Len(gprs))
     => t = StackOr(c.target, s, i, how.size)

LEMMA AssignCases ==
  ASSUME NEW c, NEW s, NEW i, NEW ty, NEW how, NEW v, NEW gprs, NEW fprs,
         v = RulesOf(c.target, c.conv), gprs = ArgGPRs(c.target, v), fprs = ArgFPRs(c.target, v)
  PROVE  Assigns(c, s, i, ty, how, v, gprs, fprs, Assign(c, s, i, ty, how))
BY DEF Assigns, Assign

LEMMA ArgRuleFacts ==
  ASSUME NEW target \in Targets, NEW conv, NEW t \in Types, NEW variadic \in BOOLEAN
  PROVE  LET how == ArgRule(target, conv, t, variadic)
         IN  /\ how.class \in Classes /\ how.size \in Nat
             /\ how.class = "FI" => target = "RISCV" /\ conv = "CAML" /\ t = "F32"
             /\ target = "PPC" => how.class \in {"X", "I", "F"} /\ how.size <= 8
<1>1. PICK ty \in Types : /\ ty = IF t = "BYVAL" /\ (target # "X86_64" \/ conv # "C") THEN "I64" ELSE t
                          /\ ty = "F32" => t = "F32"
  BY DEF Types, Ints, Floats
<1>2. \A u \in Types : Size(u) \in Nat
  BY DEF Types, Ints, Floats, Size
<1>3. \A u \in Floats : Size(u) <= 8
  BY DEF Floats, Size
<1>4. PICK how : how = ArgRule(target, conv, t, variadic)
  OBVIOUS
<1>5. CASE target = "X86_64"
  <2>1. X86ArgC(ty).class \in Classes \ {"FI"} /\ X86ArgC(ty).size \in Nat
    BY <1>2, CallLoweringAssumption DEF X86ArgC, How, Refused, Classes, Types, Ints, Floats
  <2>2. X86ArgOCaml(ty).class \in Classes \ {"FI"} /\ X86ArgOCaml(ty).size \in Nat
    BY <1>2 DEF X86ArgOCaml, How, Refused, Classes, Types, Ints, Floats, Words
  <2>3. RuntimeArg(ty).class \in Classes \ {"FI"} /\ RuntimeArg(ty).size \in Nat
    BY DEF RuntimeArg, How, Refused, Classes
  <2>4. X86ArgMultiboot(ty).class \in Classes \ {"FI"} /\ X86ArgMultiboot(ty).size \in Nat
    BY DEF X86ArgMultiboot, How, Refused, Classes
  <2>5. Refused.class \in Classes \ {"FI"} /\ Refused.size \in Nat
    BY DEF How, Refused, Classes
  <2>6. how \in {X86ArgC(ty), X86ArgOCaml(ty), RuntimeArg(ty), X86ArgMultiboot(ty), Refused}
    BY <1>1, <1>4, <1>5 DEF ArgRule, Runtime
  <2>7. QED
    BY <1>4, <1>5, <2>1, <2>2, <2>3, <2>4, <2>5, <2>6
<1>6. CASE target = "X86_32"
  <2>1. how \in {X86_32ArgC(ty), Refused}
    BY <1>1, <1>4, <1>6 DEF ArgRule
  <2>2. how.class \in {"S", "X"} /\ how.size \in Nat
    BY <1>2, <2>1 DEF X86_32ArgC, How, Refused
  <2>3. QED
    BY <1>4, <1>6, <2>2 DEF Classes
<1>7. CASE target = "AArch64"
  <2>1. AArch64ArgC(ty).class \in Classes \ {"FI"} /\ AArch64ArgC(ty).size \in Nat
    BY <1>2 DEF AArch64ArgC, How, Refused, Classes, Types, Ints, Floats, Words
  <2>2. AArch64ArgOCaml(ty).class \in Classes \ {"FI"} /\ AArch64ArgOCaml(ty).size \in Nat
    BY DEF AArch64ArgOCaml, How, Refused, Classes, Floats, Words
  <2>3. RuntimeArg(ty).class \in Classes \ {"FI"} /\ RuntimeArg(ty).size \in Nat
    BY DEF RuntimeArg, How, Refused, Classes
  <2>4. Refused.class \in Classes \ {"FI"} /\ Refused.size \in Nat
    BY DEF How, Refused, Classes
  <2>5. how \in {AArch64ArgC(ty), AArch64ArgOCaml(ty), RuntimeArg(ty), Refused}
    BY <1>1, <1>4, <1>7 DEF ArgRule, AArch64ArgRuntime
  <2>6. QED
    BY <1>4, <1>7, <2>1, <2>2, <2>3, <2>4, <2>5
<1>8. CASE target = "RISCV"
  <2>1. RISCVArgC(ty, variadic).class \in Classes \ {"FI"} /\ RISCVArgC(ty, variadic).size \in Nat
    BY DEF RISCVArgC, How, Refused, Classes, Floats, Ints
  <2>2. /\ RISCVArgOCaml(ty).class \in Classes /\ RISCVArgOCaml(ty).size \in Nat
        /\ RISCVArgOCaml(ty).class = "FI" => ty = "F32"
    BY DEF RISCVArgOCaml, How, Refused, Classes, Ints
  <2>3. RISCVArgRuntime(ty).class \in Classes \ {"FI"} /\ RISCVArgRuntime(ty).size \in Nat
    BY DEF RISCVArgRuntime, How, Refused, Classes
  <2>4. Refused.class \in Classes \ {"FI"} /\ Refused.size \in Nat
    BY DEF How, Refused, Classes
  <2>5. \/ how \in {RISCVArgC(ty, variadic), RISCVArgRuntime(ty), Refused}
        \/ how = RISCVArgOCaml(ty) /\ conv = "CAML"
    BY <1>1, <1>4, <1>8 DEF ArgRule
  <2>6. QED
    BY <1>1, <1>4, <1>8, <2>1, <2>2, <2>3, <2>4, <2>5
<1>9. CASE target = "PPC"
  <2>1. PPCArgC(ty).class \in {"X", "I", "F"} /\ PPCArgC(ty).size \in Nat /\ PPCArgC(ty).size <= 8
    BY <1>2, <1>3 DEF PPCArgC, How, Refused, Types
  <2>2. Refused.class = "X" /\ Refused.size = 0
    BY DEF How, Refused
  <2>3. how \in {PPCArgC(ty), Refused}
    BY <1>1, <1>4, <1>9 DEF ArgRule, PPCArgOCaml
  <2>4. QED
    BY <1>4, <1>9, <2>1, <2>2, <2>3 DEF Classes
<1>10. QED
  BY <1>5, <1>6, <1>7, <1>8, <1>9 DEF Targets

-----------------------------------------------------------------------------
(* The caller and the callee                                               *)

\* The two assignments have used up the same, and what one has placed the other
\* has placed there too.
Same(s, t) ==
  /\ s.gpr = t.gpr /\ s.fpr = t.fpr /\ s.x87 = t.x87
  /\ s.stack = t.stack /\ s.align = t.align /\ s.onstack = t.onstack /\ s.failed = t.failed
Sees(s, t) == Range(t.parts) \subseteq Range(s.parts)

LEMMA RangeAppend ==
  ASSUME NEW S, NEW s \in Seq(S), NEW e \in S
  PROVE  Range(Append(s, e)) = Range(s) \cup {e}
<1>1. PICK t : t = Append(s, e)
  OBVIOUS
<1>2. /\ DOMAIN t = 1 .. Len(s) + 1 /\ DOMAIN s = 1 .. Len(s) /\ Len(s) \in Nat
      /\ t[Len(s) + 1] = e /\ \A k \in 1 .. Len(s) : t[k] = s[k]
  BY <1>1
<1>3. Range(t) = Range(s) \cup {e}
  BY <1>2 DEF Range
<1>4. QED
  BY <1>1, <1>3

LEMMA SameTakes ==
  ASSUME NEW s \in Assignments, NEW t \in Assignments, Same(s, t), Sees(s, t),
         NEW a, NEW b, NEW g, NEW f, NEW x, NEW p \in Parts, NEW q \in Parts,
         \/ /\ Takes(s, a, g, f, x, Append(s.parts, p))
            /\ Takes(t, b, g, f, x, Append(t.parts, p))
         \/ /\ Takes(s, a, g, f, x, Append(Append(s.parts, p), q))
            /\ Takes(t, b, g, f, x, Append(Append(t.parts, p), q))
         \/ /\ Takes(s, a, g, f, x, Append(Append(s.parts, p), q))
            /\ Takes(t, b, g, f, x, Append(t.parts, p))
  PROVE  Same(a, b) /\ Sees(a, b) /\ Sees(a, s)
<1>1. s.parts \in Seq(Parts) /\ t.parts \in Seq(Parts)
  BY DEF Assignments
<1>2. Append(s.parts, p) \in Seq(Parts) /\ Append(t.parts, p) \in Seq(Parts)
  BY <1>1
<1>3. /\ Range(Append(s.parts, p)) = Range(s.parts) \cup {p}
      /\ Range(Append(t.parts, p)) = Range(t.parts) \cup {p}
      /\ Range(Append(Append(s.parts, p), q)) = Range(s.parts) \cup {p} \cup {q}
      /\ Range(Append(Append(t.parts, p), q)) = Range(t.parts) \cup {p} \cup {q}
  <2>1. /\ Range(Append(s.parts, p)) = Range(s.parts) \cup {p}
        /\ Range(Append(t.parts, p)) = Range(t.parts) \cup {p}
    BY <1>1, RangeAppend
  <2>2. /\ Range(Append(Append(s.parts, p), q)) = Range(Append(s.parts, p)) \cup {q}
        /\ Range(Append(Append(t.parts, p), q)) = Range(Append(t.parts, p)) \cup {q}
    <3>1. PICK u \in Seq(Parts), v \in Seq(Parts) : u = Append(s.parts, p) /\ v = Append(t.parts, p)
      BY <1>2
    <3>2. Range(Append(u, q)) = Range(u) \cup {q} /\ Range(Append(v, q)) = Range(v) \cup {q}
      BY RangeAppend
    <3>3. QED
      BY <3>1, <3>2
  <2>3. QED
    BY <2>1, <2>2
<1>4. Same(a, b)
  BY DEF Same, Takes
<1>5. \/ a.parts = Append(s.parts, p) /\ b.parts = Append(t.parts, p)
      \/ a.parts = Append(Append(s.parts, p), q) /\ b.parts = Append(Append(t.parts, p), q)
      \/ a.parts = Append(Append(s.parts, p), q) /\ b.parts = Append(t.parts, p)
  BY DEF Takes
<1>6. QED
  BY <1>3, <1>4, <1>5 DEF Sees

LEMMA SameTakesOne ==
  ASSUME NEW s \in Assignments, NEW t \in Assignments, Same(s, t), Sees(s, t),
         NEW a, NEW b, NEW g, NEW f, NEW x, NEW p \in Parts,
         Takes(s, a, g, f, x, Append(s.parts, p)), Takes(t, b, g, f, x, Append(t.parts, p))
  PROVE  a \in Assignments /\ b \in Assignments /\ Same(a, b) /\ Sees(a, b) /\ Sees(a, s)
<1>1. a \in Assignments /\ b \in Assignments
  BY DEF Takes
<1>2. Same(a, b) /\ Sees(a, b) /\ Sees(a, s)
  BY SameTakes
<1>3. QED
  BY <1>1, <1>2

LEMMA SameTakesTwo ==
  ASSUME NEW s \in Assignments, NEW t \in Assignments, Same(s, t), Sees(s, t),
         NEW a, NEW b, NEW g, NEW f, NEW x, NEW p \in Parts, NEW q \in Parts,
         Takes(s, a, g, f, x, Append(Append(s.parts, p), q)),
         \/ Takes(t, b, g, f, x, Append(Append(t.parts, p), q))
         \/ Takes(t, b, g, f, x, Append(t.parts, p))
  PROVE  a \in Assignments /\ b \in Assignments /\ Same(a, b) /\ Sees(a, b) /\ Sees(a, s)
<1>1. a \in Assignments /\ b \in Assignments
  BY DEF Takes
<1>2. Same(a, b) /\ Sees(a, b) /\ Sees(a, s)
  BY SameTakes
<1>3. QED
  BY <1>1, <1>2

LEMMA SameLands ==
  ASSUME NEW target, NEW s \in Assignments, NEW t \in Assignments, Same(s, t), Sees(s, t),
         NEW i \in Nat, NEW size \in Nat, NEW align \in Nat \ {0},
         NEW a, NEW b, a = OnStack(target, s, i, size, align), b = OnStack(target, t, i, size, align)
  PROVE  a \in Assignments /\ b \in Assignments /\ Same(a, b) /\ Sees(a, b) /\ Sees(a, s)
<1>1. PICK off : off = StackOffset(target, s, align) /\ off = StackOffset(target, t, align)
  BY DEF StackOffset, Same
<1>2. PICK p : p = Slot(i, off, size)
  OBVIOUS
<1>3. /\ off \in Nat
      /\ Lands(s, a, StackEnd(target, off, size), Max({s.align, align}), Append(s.parts, p))
      /\ Lands(t, b, StackEnd(target, off, size), Max({t.align, align}), Append(t.parts, p))
  BY <1>1, <1>2, OnStackForm
<1>4. p \in Parts /\ s.parts \in Seq(Parts) /\ t.parts \in Seq(Parts)
  BY <1>2, <1>3, SlotIsPart DEF Assignments
<1>5. /\ Range(Append(s.parts, p)) = Range(s.parts) \cup {p}
      /\ Range(Append(t.parts, p)) = Range(t.parts) \cup {p}
  BY <1>4, RangeAppend
<1>6. Sees(a, b) /\ Sees(a, s)
  BY <1>3, <1>5 DEF Sees, Lands
<1>7. a.onstack = TRUE /\ b.onstack = TRUE
  BY <1>3 DEF Lands, Assignments
<1>8. QED
  BY <1>3, <1>6, <1>7 DEF Same, Lands

LEMMA RegIsPart ==
  ASSUME NEW i \in Nat, NEW r \in Registers
  PROVE  InReg(i, r) \in Parts
BY DEF InReg, Parts

\* PowerPC: the caller of a variadic function also fills the second register.
LEMMA SamePPCFloat ==
  ASSUME NEW c, NEW d, d.vararg = FALSE, c.vararg \in BOOLEAN,
         NEW s \in Assignments, NEW t \in Assignments, Same(s, t), Sees(s, t),
         NEW i \in Nat, NEW ty, s.fpr < Len(PPCFPRs)
  PROVE  LET a == PPCFloat(c, s, i, ty)
             b == PPCFloat(d, t, i, ty)
         IN  /\ a \in Assignments /\ b \in Assignments
             /\ ~a.failed => Same(a, b) /\ Sees(a, b) /\ Sees(a, s)
<1>1. s.gpr \in Nat /\ s.fpr \in Nat /\ t.gpr = s.gpr /\ t.fpr = s.fpr /\ t.x87 = s.x87
  BY DEF Assignments, Same
<1>2. PICK list : list = IF ty = "F32" THEN PPCFPRs ELSE PPCArgGPRs.C
  OBVIOUS
<1>3. Listed(list, GeneralNames) \/ Listed(list, FloatNames)
  <2>1. RegsIn(PPCArgGPRs, "C") = PPCArgGPRs.C
    <3>1. PICK args : PPCArgGPRs = [C |-> Numbered("X", 3, 10), CAML |-> args]
      BY DEF PPCArgGPRs
    <3>2. QED
      BY <3>1 DEF RegsIn
  <2>2. Listed(PPCArgGPRs.C, GeneralNames) /\ Listed(PPCFPRs, FloatNames)
    BY <2>1, PPCLists
  <2>3. QED
    BY <1>2, <2>2
<1>4. PICK p \in Parts : p = InReg(i, PPCFPRs[s.fpr + 1])
  BY <1>1, PPCLists, ListedRegister, RegIsPart
<1>5. PICK a, b, u, w :
        /\ a = PPCFloat(c, s, i, ty) /\ b = PPCFloat(d, t, i, ty)
        /\ u = [s EXCEPT !.fpr = @ + 1, !.gpr = @ + 1, !.parts = Append(@, p)]
        /\ w = [t EXCEPT !.fpr = @ + 1, !.gpr = @ + 1, !.parts = Append(@, p)]
  OBVIOUS
<1>6. /\ Takes(s, u, s.gpr + 1, s.fpr + 1, s.x87, Append(s.parts, p))
      /\ Takes(t, w, s.gpr + 1, s.fpr + 1, s.x87, Append(t.parts, p))
  BY <1>1, <1>5, TakesForms
<1>7. b = w
  BY <1>1, <1>4, <1>5 DEF PPCFloat
<1>8. CASE ~c.vararg
  <2>1. a = u
    BY <1>4, <1>5, <1>8 DEF PPCFloat
  <2>2. QED
    <3>1. a \in Assignments /\ b \in Assignments /\ Same(a, b) /\ Sees(a, b) /\ Sees(a, s)
      BY <1>6, <1>7, <2>1, SameTakesOne
    <3>2. QED
      BY <1>5, <3>1
<1>9. CASE c.vararg /\ s.gpr < Len(list)
  <2>1. PICK q \in Parts : q = InReg(i, list[s.gpr + 1])
    BY <1>1, <1>3, <1>9, ListedRegister, RegIsPart
  <2>2. a = [u EXCEPT !.parts = Append(@, q)]
    BY <1>2, <1>4, <1>5, <1>9, <2>1 DEF PPCFloat
  <2>3. Takes(s, a, s.gpr + 1, s.fpr + 1, s.x87, Append(Append(s.parts, p), q))
    <3>1. a = [[s EXCEPT !.fpr = @ + 1, !.gpr = @ + 1, !.parts = Append(@, p)]
                EXCEPT !.parts = Append(@, q)]
      BY <1>5, <2>2
    <3>2. QED
      BY <3>1, TakesForms
  <2>4. QED
    <3>1. a \in Assignments /\ b \in Assignments /\ Same(a, b) /\ Sees(a, b) /\ Sees(a, s)
      BY <1>6, <1>7, <2>3, SameTakesTwo
    <3>2. QED
      BY <1>5, <3>1
<1>10. CASE c.vararg /\ ~(s.gpr < Len(list))
  <2>1. a = Failed(s)
    BY <1>2, <1>5, <1>10 DEF PPCFloat
  <2>2. QED
    BY <1>5, <1>6, <1>7, <2>1, FailedForm DEF Takes
<1>11. QED
  BY <1>8, <1>9, <1>10

LEMMA SameStackOr ==
  ASSUME NEW target, NEW s \in Assignments, NEW t \in Assignments, Same(s, t), Sees(s, t),
         NEW i \in Nat, NEW size \in Nat
  PROVE  LET a == StackOr(target, s, i, size)
             b == StackOr(target, t, i, size)
         IN  /\ a \in Assignments /\ b \in Assignments
             /\ ~a.failed => Same(a, b) /\ Sees(a, b) /\ Sees(a, s)
<1>1. CASE size = 0
  BY <1>1, FailedForm DEF StackOr
<1>2. CASE size # 0
  <2>1. PICK a, b : a = OnStack(target, s, i, size, 8) /\ b = OnStack(target, t, i, size, 8)
    OBVIOUS
  <2>2. a \in Assignments /\ b \in Assignments /\ Same(a, b) /\ Sees(a, b) /\ Sees(a, s)
    <3>1. 8 \in Nat \ {0}
      OBVIOUS
    <3>2. QED
      BY <2>1, <3>1, SameLands
  <2>3. QED
    BY <1>2, <2>1, <2>2 DEF StackOr
<1>3. QED
  BY <1>1, <1>2

LEMMA AssignAgree ==
  ASSUME NEW c, NEW d, c.target \in Targets, d.target = c.target, d.conv = c.conv,
         c.vararg \in BOOLEAN, d.vararg = FALSE,
         NEW s \in Assignments, NEW t \in Assignments, Same(s, t), Sees(s, t),
         NEW i \in Nat, NEW ty, NEW how, how.class \in Classes, how.size \in Nat
  PROVE  LET a == Assign(c, s, i, ty, how)
             b == Assign(d, t, i, ty, how)
         IN  /\ a \in Assignments /\ b \in Assignments
             /\ ~a.failed => Same(a, b) /\ Sees(a, b) /\ Sees(a, s)
<1>1. PICK v, gprs, fprs : /\ v = RulesOf(c.target, c.conv) /\ v = RulesOf(d.target, d.conv)
                           /\ gprs = ArgGPRs(c.target, v) /\ gprs = ArgGPRs(d.target, v)
                           /\ fprs = ArgFPRs(c.target, v) /\ fprs = ArgFPRs(d.target, v)
  OBVIOUS
<1>2. Listed(gprs, GeneralNames) /\ Listed(fprs, FloatNames)
  BY <1>1, ArgLists
<1>3. /\ s.gpr \in Nat /\ s.fpr \in Nat /\ t.gpr = s.gpr /\ t.fpr = s.fpr /\ t.x87 = s.x87
      /\ Len(gprs) \in Nat
  BY <1>2 DEF Assignments, Same, Listed
<1>4. PICK a, b : a = Assign(c, s, i, ty, how) /\ b = Assign(d, t, i, ty, how)
  OBVIOUS
<1>a. /\ Assigns(c, s, i, ty, how, v, gprs, fprs, a)
      /\ Assigns(d, t, i, ty, how, v, gprs, fprs, b)
  BY <1>1, <1>4, AssignCases
<1> DEFINE Agree == /\ a \in Assignments /\ b \in Assignments
                    /\ ~a.failed => Same(a, b) /\ Sees(a, b) /\ Sees(a, s)
<1>5. CASE how.class = "X"
  <2>1. a = Failed(s) /\ b = Failed(t)
    BY <1>a, <1>3, <1>5 DEF Assigns
  <2>2. QED
    BY <1>4, <2>1, FailedForm
<1>6. CASE how.class \in {"B", "S"}
  <2>1. PICK align \in Nat \ {0} : align = IF how.class = "B" THEN ByValAlign ELSE 8
    BY CallLoweringAssumption
  <2>2. a = OnStack(c.target, s, i, how.size, align) /\ b = OnStack(c.target, t, i, how.size, align)
    BY <1>a, <1>3, <1>6, <2>1 DEF Assigns
  <2>3. Agree
    BY <2>2, SameLands
  <2>4. QED
    BY <1>4, <2>3
<1>7. CASE how.class = "I" /\ s.gpr < Len(gprs)
  <2>1. PICK p \in Parts : p = InReg(i, gprs[s.gpr + 1])
    BY <1>2, <1>3, <1>7, ListedRegister, RegIsPart
  <2>2. /\ a = [s EXCEPT !.gpr = @ + 1, !.parts = Append(@, p)]
        /\ b = [t EXCEPT !.gpr = @ + 1, !.parts = Append(@, p)]
    BY <1>a, <1>3, <1>7, <2>1 DEF Assigns
  <2>3. /\ Takes(s, a, s.gpr + 1, s.fpr, s.x87, Append(s.parts, p))
        /\ Takes(t, b, s.gpr + 1, s.fpr, s.x87, Append(t.parts, p))
    BY <1>3, <2>2, TakesForms
  <2>4. Agree
    BY <2>3, SameTakesOne
  <2>5. QED
    BY <1>4, <2>4
<1>8. CASE how.class = "II" /\ s.gpr + 1 < Len(gprs)
  <2>1. s.gpr + 2 = (s.gpr + 1) + 1 /\ s.gpr < Len(gprs) /\ s.gpr + 1 \in Nat
    BY <1>3, <1>8
  <2>2. PICK p \in Parts, q \in Parts :
          p = InReg(i, gprs[s.gpr + 1]) /\ q = InReg(i, gprs[s.gpr + 2])
    BY <1>2, <1>3, <1>8, <2>1, ListedRegister, RegIsPart
  <2>3. /\ a = [s EXCEPT !.gpr = @ + 2, !.parts = @ \o <<p, q>>]
        /\ b = [t EXCEPT !.gpr = @ + 2, !.parts = @ \o <<p, q>>]
    BY <1>a, <1>3, <1>8, <2>2 DEF Assigns
  <2>4. /\ Takes(s, a, s.gpr + 2, s.fpr, s.x87, Append(Append(s.parts, p), q))
        /\ Takes(t, b, s.gpr + 2, s.fpr, s.x87, Append(Append(t.parts, p), q))
    BY <1>3, <2>3, TakesForms
  <2>5. Agree
    BY <2>4, SameTakesTwo
  <2>6. QED
    BY <1>4, <2>5
<1>9. CASE how.class = "II" /\ ~(s.gpr + 1 < Len(gprs))
  <2>1. a = Failed(s) /\ b = Failed(t)
    BY <1>a, <1>3, <1>9 DEF Assigns
  <2>2. QED
    BY <1>4, <2>1, FailedForm
<1>10. CASE how.class = "F" /\ s.fpr < Len(fprs) /\ c.target = "PPC" /\ v = "C"
  <2>1. a = PPCFloat(c, s, i, ty) /\ b = PPCFloat(d, t, i, ty)
    BY <1>a, <1>3, <1>10 DEF Assigns
  <2>2. s.fpr < Len(PPCFPRs)
    BY <1>1, <1>10 DEF ArgFPRs
  <2>3. Agree
    BY <2>1, <2>2, SamePPCFloat
  <2>4. QED
    BY <1>4, <2>3
<1>11. CASE how.class = "F" /\ s.fpr < Len(fprs) /\ ~(c.target = "PPC" /\ v = "C")
  <2>1. PICK p \in Parts : p = InReg(i, fprs[s.fpr + 1])
    BY <1>2, <1>3, <1>11, ListedRegister, RegIsPart
  <2>2. /\ a = [s EXCEPT !.fpr = @ + 1, !.parts = Append(@, p)]
        /\ b = [t EXCEPT !.fpr = @ + 1, !.parts = Append(@, p)]
    BY <1>a, <1>3, <1>11, <2>1 DEF Assigns
  <2>3. /\ Takes(s, a, s.gpr, s.fpr + 1, s.x87, Append(s.parts, p))
        /\ Takes(t, b, s.gpr, s.fpr + 1, s.x87, Append(t.parts, p))
    BY <1>3, <2>2, TakesForms
  <2>4. Agree
    BY <2>3, SameTakesOne
  <2>5. QED
    BY <1>4, <2>4
<1>12. CASE how.class = "FI" /\ s.fpr < Len(gprs)
  <2>1. PICK p \in Parts : p = InReg(i, gprs[s.fpr + 1])
    BY <1>2, <1>3, <1>12, ListedRegister, RegIsPart
  <2>2. /\ a = [s EXCEPT !.fpr = @ + 1, !.parts = Append(@, p)]
        /\ b = [t EXCEPT !.fpr = @ + 1, !.parts = Append(@, p)]
    BY <1>a, <1>3, <1>12, <2>1 DEF Assigns
  <2>3. /\ Takes(s, a, s.gpr, s.fpr + 1, s.x87, Append(s.parts, p))
        /\ Takes(t, b, s.gpr, s.fpr + 1, s.x87, Append(t.parts, p))
    BY <1>3, <2>2, TakesForms
  <2>4. Agree
    BY <2>3, SameTakesOne
  <2>5. QED
    BY <1>4, <2>4
<1>13. CASE \/ how.class = "I" /\ ~(s.gpr < Len(gprs))
            \/ how.class = "F" /\ ~(s.fpr < Len(fprs))
            \/ how.class = "FI" /\ ~(s.fpr < Len(gprs))
  <2>1. a = StackOr(c.target, s, i, how.size) /\ b = StackOr(c.target, t, i, how.size)
    BY <1>a, <1>3, <1>13 DEF Assigns
  <2>2. Agree
    BY <2>1, SameStackOr
  <2>3. QED
    BY <1>4, <2>2
<1>14. QED
  BY <1>5, <1>6, <1>7, <1>8, <1>9, <1>10, <1>11, <1>12, <1>13 DEF Classes

\* One argument, at the call and at the function.
LEMMA ArgAgree ==
  ASSUME NEW c, NEW d, c.target \in Targets, d.target = c.target, d.conv = c.conv,
         c.vararg \in BOOLEAN, d.vararg = FALSE,
         NEW s \in Assignments, NEW t \in Assignments, Same(s, t), Sees(s, t),
         NEW i \in Nat, NEW ty \in Types, c.fixed \in Nat, (i > d.fixed) = (i > c.fixed)
  PROVE  LET a == AssignArg(c, s, i, ty)
             b == AssignArg(d, t, i, ty)
         IN  /\ a \in Assignments /\ b \in Assignments
             /\ ~a.failed => Same(a, b) /\ Sees(a, b) /\ Sees(a, s)
<1>1. PICK v, variadic : /\ v = RulesOf(c.target, c.conv) /\ v = RulesOf(d.target, d.conv)
                          /\ variadic \in BOOLEAN
                          /\ variadic = (i > c.fixed) /\ variadic = (i > d.fixed)
  <2>1. (i > c.fixed) \in BOOLEAN
    OBVIOUS
  <2>2. \E w : w \in BOOLEAN /\ w = (i > c.fixed) /\ w = (i > d.fixed)
    BY <2>1, Zenon
  <2>3. QED
    BY <2>2, Zenon
<1>2. PICK how : /\ how = ArgRule(c.target, v, ty, variadic) /\ how = ArgRule(d.target, v, ty, variadic)
                 /\ how.class \in Classes /\ how.size \in Nat
  <2>1. PICK how : how = ArgRule(c.target, v, ty, variadic)
    OBVIOUS
  <2>2. how.class \in Classes /\ how.size \in Nat
    BY <1>1, <2>1, ArgRuleFacts
  <2>3. QED
    BY <2>1, <2>2
<1>3. PICK a, b : a = Assign(c, s, i, ty, how) /\ b = Assign(d, t, i, ty, how)
  OBVIOUS
<1>4. /\ a \in Assignments /\ b \in Assignments
      /\ ~a.failed => Same(a, b) /\ Sees(a, b) /\ Sees(a, s)
  BY <1>2, <1>3, AssignAgree
<1>5. /\ AssignArg(c, s, i, ty) = IF c.target = "PPC" THEN [a EXCEPT !.stack = @ + 8] ELSE a
      /\ AssignArg(d, t, i, ty) = IF c.target = "PPC" THEN [b EXCEPT !.stack = @ + 8] ELSE b
  BY <1>1, <1>2, <1>3 DEF AssignArg
<1>6. CASE c.target = "PPC"
  <2>a. PICK m \in Nat, n \in Nat : m = a.stack + 8 /\ n = b.stack + 8
    <3>1. a.stack \in Nat /\ b.stack \in Nat
      BY <1>4 DEF Assignments
    <3>2. a.stack + 8 \in Nat /\ b.stack + 8 \in Nat
      BY <3>1
    <3>3. QED
      BY <3>2
  <2>1. PICK x, y : x = [a EXCEPT !.stack = m] /\ y = [b EXCEPT !.stack = n]
    OBVIOUS
  <2>2. /\ x \in Assignments /\ x.gpr = a.gpr /\ x.fpr = a.fpr /\ x.x87 = a.x87
        /\ x.stack = a.stack + 8 /\ x.align = a.align /\ x.onstack = a.onstack
        /\ x.failed = a.failed /\ x.parts = a.parts
    BY <1>4, <2>1, <2>a DEF Assignments
  <2>3. /\ y \in Assignments /\ y.gpr = b.gpr /\ y.fpr = b.fpr /\ y.x87 = b.x87
        /\ y.stack = b.stack + 8 /\ y.align = b.align /\ y.onstack = b.onstack
        /\ y.failed = b.failed /\ y.parts = b.parts
    BY <1>4, <2>1, <2>a DEF Assignments
  <2>4. ~x.failed => Same(x, y) /\ Sees(x, y) /\ Sees(x, s)
    BY <1>4, <2>2, <2>3 DEF Same, Sees
  <2>5. QED
    BY <1>5, <1>6, <2>1, <2>a, <2>2, <2>3, <2>4
<1>7. CASE c.target # "PPC"
  BY <1>4, <1>5, <1>7
<1>8. QED
  BY <1>6, <1>7

-----------------------------------------------------------------------------
(* AssignRet                                                               *)

RetClasses == {"I", "II", "F", "8", "X"}

LEMMA RetClassFacts ==
  ASSUME NEW target, NEW conv, NEW ty
  PROVE  RetClass(target, conv, ty) \in RetClasses
<1>1. WordRet(ty) \in RetClasses /\ PlainRet(ty) \in RetClasses /\ X86_32RetC(ty) \in RetClasses
  BY DEF WordRet, PlainRet, X86_32RetC, RetClasses
<1>2. X86RetC(ty) \in RetClasses /\ AArch64RetC(ty) \in RetClasses /\ RISCVRetRuntime(ty) \in RetClasses
  BY <1>1 DEF X86RetC, AArch64RetC, RISCVRetRuntime, RetClasses
<1>3. "X" \in RetClasses
  BY DEF RetClasses
<1>4. QED
  BY <1>1, <1>2, <1>3
     DEF RetClass, X86RetOCaml, X86RetRuntime, AArch64RetOCaml, AArch64RetRuntime, RISCVRetC,
         RISCVRetOCaml, PPCRetC, PPCRetOCaml

\* The floating-point registers used so far, and those that the next one adds.
Used(c, s)      == IF c.target = "X86_32" THEN s.gpr ELSE s.fpr
Counted(c, v, ty) == IF c.target = "AArch64" /\ v = "CAML" /\ ty = "F32" THEN 0 ELSE 1

\* What AssignRet does, class by class.
Returns(c, s, i, ty, v, gprs, fprs, class, t) ==
  /\ class = "I" /\ s.gpr < Len(gprs) =>
       Takes(s, t, s.gpr + 1, s.fpr, s.x87, Append(s.parts, InReg(i, gprs[s.gpr + 1])))
  /\ class = "II" /\ s.gpr + 1 < Len(gprs) =>
       Takes(s, t, s.gpr + 2, s.fpr, s.x87,
             Append(Append(s.parts, InReg(i, gprs[s.gpr + 1])), InReg(i, gprs[s.gpr + 2])))
  /\ class = "F" /\ Used(c, s) < Len(fprs) =>
       Takes(s, t, IF c.target = "X86_32" THEN s.gpr + 1 ELSE s.gpr,
             IF c.target = "X86_32" THEN s.fpr ELSE s.fpr + Counted(c, v, ty), s.x87,
             Append(s.parts, InReg(i, fprs[Used(c, s) + 1])))
  /\ class = "8" /\ s.x87 = 0 =>
       Takes(s, t, s.gpr, s.fpr, 1, Append(s.parts, InReg(i, <<"FP", 0>>)))
  /\ ~ \/ class = "I" /\ s.gpr < Len(gprs)
       \/ class = "II" /\ s.gpr + 1 < Len(gprs)
       \/ class = "F" /\ Used(c, s) < Len(fprs)
       \/ class = "8" /\ s.x87 = 0
     => t \in Assignments /\ t.failed

LEMMA ReturnCases ==
  ASSUME NEW c, c.target \in Targets, NEW s \in Assignments, NEW i \in Nat, NEW ty,
         NEW v, NEW gprs, NEW fprs, NEW class,
         v = RulesOf(c.target, c.conv), gprs = RetGPRs(c.target, v), fprs = RetFPRs(c.target, v),
         class = RetClass(c.target, v, ty)
  PROVE  Returns(c, s, i, ty, v, gprs, fprs, class, AssignRet(c, s, i, ty))
<1>1. Listed(gprs, GeneralNames) /\ Listed(fprs, FloatNames)
  BY RetLists
<1>2. s.gpr \in Nat /\ s.fpr \in Nat /\ s.x87 \in Nat /\ s.parts \in Seq(Parts) /\ Len(gprs) \in Nat
  BY <1>1 DEF Assignments, Listed
<1>3. PICK t : t = AssignRet(c, s, i, ty)
  OBVIOUS
<1>4. ASSUME class = "I", s.gpr < Len(gprs)
      PROVE  Takes(s, t, s.gpr + 1, s.fpr, s.x87, Append(s.parts, InReg(i, gprs[s.gpr + 1])))
  <2>1. t = [s EXCEPT !.gpr = @ + 1, !.parts = Append(@, InReg(i, gprs[s.gpr + 1]))]
    BY <1>3, <1>4 DEF AssignRet
  <2>2. InReg(i, gprs[s.gpr + 1]) \in Parts
    BY <1>1, <1>2, <1>4, ListedRegister, RegIsPart
  <2>3. QED
    BY <2>1, <2>2, TakesForms
<1>5. ASSUME class = "II", s.gpr + 1 < Len(gprs)
      PROVE  Takes(s, t, s.gpr + 2, s.fpr, s.x87,
                   Append(Append(s.parts, InReg(i, gprs[s.gpr + 1])), InReg(i, gprs[s.gpr + 2])))
  <2>1. s.gpr + 2 = (s.gpr + 1) + 1 /\ s.gpr < Len(gprs) /\ s.gpr + 1 \in Nat
    BY <1>2, <1>5
  <2>2. PICK p, q : p = InReg(i, gprs[s.gpr + 1]) /\ q = InReg(i, gprs[s.gpr + 2])
    OBVIOUS
  <2>3. p \in Parts /\ q \in Parts
    BY <1>1, <1>2, <1>5, <2>1, <2>2, ListedRegister, RegIsPart
  <2>4. t = [s EXCEPT !.gpr = @ + 2, !.parts = @ \o <<p, q>>]
    BY <1>3, <1>5, <2>2 DEF AssignRet
  <2>5. QED
    BY <2>2, <2>3, <2>4, TakesForms
<1>6. ASSUME class = "F", Used(c, s) < Len(fprs)
      PROVE  Takes(s, t, IF c.target = "X86_32" THEN s.gpr + 1 ELSE s.gpr,
                   IF c.target = "X86_32" THEN s.fpr ELSE s.fpr + Counted(c, v, ty), s.x87,
                   Append(s.parts, InReg(i, fprs[Used(c, s) + 1])))
  <2>1. PICK g, f : /\ g = IF c.target = "X86_32" THEN s.gpr + 1 ELSE s.gpr
                    /\ f = IF c.target = "X86_32" THEN s.fpr ELSE s.fpr + Counted(c, v, ty)
    OBVIOUS
  <2>2. g \in Nat /\ f \in Nat /\ Used(c, s) \in Nat
    BY <1>2, <2>1 DEF Counted, Used
  <2>3. PICK a : a = Append(s.parts, InReg(i, fprs[Used(c, s) + 1]))
    OBVIOUS
  <2>4. InReg(i, fprs[Used(c, s) + 1]) \in Parts
    BY <1>1, <1>6, <2>2, ListedRegister, RegIsPart
  <2>5. a \in Seq(Parts)
    BY <1>2, <2>3, <2>4
  <2>6. t = [s EXCEPT !.gpr = g, !.fpr = f, !.parts = a]
    BY <1>3, <1>6, <2>1, <2>3 DEF AssignRet, Used, Counted
  <2>7. QED
    BY <2>1, <2>2, <2>3, <2>5, <2>6, SetFields
<1>7. ASSUME class = "8", s.x87 = 0
      PROVE  Takes(s, t, s.gpr, s.fpr, 1, Append(s.parts, InReg(i, <<"FP", 0>>)))
  <2>1. <<"FP", 0>> \in Registers
    BY DEF Registers, FloatNames
  <2>2. PICK a : a = Append(s.parts, InReg(i, <<"FP", 0>>))
    OBVIOUS
  <2>3. InReg(i, <<"FP", 0>>) \in Parts
    BY <2>1, RegIsPart
  <2>4. a \in Seq(Parts)
    BY <1>2, <2>2, <2>3
  <2>5. t = [s EXCEPT !.x87 = 1, !.parts = a]
    BY <1>3, <1>7, <2>2 DEF AssignRet
  <2>6. QED
    BY <2>2, <2>4, <2>5, SetFields
<1>8. ASSUME ~ \/ class = "I" /\ s.gpr < Len(gprs)
               \/ class = "II" /\ s.gpr + 1 < Len(gprs)
               \/ class = "F" /\ Used(c, s) < Len(fprs)
               \/ class = "8" /\ s.x87 = 0
      PROVE  t \in Assignments /\ t.failed
  <2>1. t = Failed(s)
    BY <1>3, <1>8 DEF AssignRet, Used
  <2>2. QED
    BY <2>1, FailedForm
<1>9. QED
  BY <1>3, <1>4, <1>5, <1>6, <1>7, <1>8 DEF Returns

\* One result, at the call and at the function.
LEMMA RetAgree ==
  ASSUME NEW c, NEW d, c.target \in Targets, d.target = c.target, d.conv = c.conv,
         NEW s \in Assignments, NEW t \in Assignments, Same(s, t), Sees(s, t),
         NEW i \in Nat, NEW ty
  PROVE  LET a == AssignRet(c, s, i, ty)
             b == AssignRet(d, t, i, ty)
         IN  /\ a \in Assignments /\ b \in Assignments
             /\ ~a.failed => Same(a, b) /\ Sees(a, b)
<1>1. PICK v, gprs, fprs, class :
        /\ v = RulesOf(c.target, c.conv) /\ gprs = RetGPRs(c.target, v) /\ fprs = RetFPRs(c.target, v)
        /\ class = RetClass(c.target, v, ty)
  OBVIOUS
<1>2. /\ v = RulesOf(d.target, d.conv) /\ gprs = RetGPRs(d.target, v) /\ fprs = RetFPRs(d.target, v)
      /\ class = RetClass(d.target, v, ty) /\ d.target \in Targets
  BY <1>1
<1>3. PICK a, b : a = AssignRet(c, s, i, ty) /\ b = AssignRet(d, t, i, ty)
  OBVIOUS
<1>4. Returns(c, s, i, ty, v, gprs, fprs, class, a)
  BY <1>1, <1>3, ReturnCases
<1>5. Returns(d, t, i, ty, v, gprs, fprs, class, b)
  BY <1>2, <1>3, ReturnCases
<1>6. /\ s.gpr = t.gpr /\ s.fpr = t.fpr /\ s.x87 = t.x87 /\ Used(c, s) = Used(d, t)
      /\ Counted(c, v, ty) = Counted(d, v, ty)
  BY DEF Same, Used, Counted
<1>7. Listed(gprs, GeneralNames) /\ Listed(fprs, FloatNames) /\ s.gpr \in Nat /\ s.fpr \in Nat
  BY <1>1, RetLists DEF Assignments
<1>8. CASE class = "I" /\ s.gpr < Len(gprs)
  <2>1. PICK p : p = InReg(i, gprs[s.gpr + 1])
    OBVIOUS
  <2>2. p \in Parts
    BY <1>7, <1>8, <2>1, ListedRegister, RegIsPart
  <2>3. /\ Takes(s, a, s.gpr + 1, s.fpr, s.x87, Append(s.parts, p))
        /\ Takes(t, b, s.gpr + 1, s.fpr, s.x87, Append(t.parts, p))
    BY <1>4, <1>5, <1>6, <1>8, <2>1 DEF Returns
  <2>4. a \in Assignments /\ b \in Assignments /\ Same(a, b) /\ Sees(a, b)
    BY <2>2, <2>3, SameTakesOne
  <2>5. QED
    BY <1>3, <2>4
<1>9. CASE class = "II" /\ s.gpr + 1 < Len(gprs)
  <2>1. PICK p, q : p = InReg(i, gprs[s.gpr + 1]) /\ q = InReg(i, gprs[s.gpr + 2])
    OBVIOUS
  <2>2. p \in Parts /\ q \in Parts
    <3>1. s.gpr + 2 = (s.gpr + 1) + 1 /\ s.gpr < Len(gprs) /\ s.gpr + 1 \in Nat
      <4>1. Len(gprs) \in Nat
        BY <1>7 DEF Listed
      <4>2. QED
        BY <1>7, <1>9, <4>1
    <3>2. QED
      BY <1>7, <1>9, <2>1, <3>1, ListedRegister, RegIsPart
  <2>3. /\ Takes(s, a, s.gpr + 2, s.fpr, s.x87, Append(Append(s.parts, p), q))
        /\ Takes(t, b, s.gpr + 2, s.fpr, s.x87, Append(Append(t.parts, p), q))
    BY <1>4, <1>5, <1>6, <1>9, <2>1 DEF Returns
  <2>4. a \in Assignments /\ b \in Assignments /\ Same(a, b) /\ Sees(a, b)
    BY <2>2, <2>3, SameTakesTwo
  <2>5. QED
    BY <1>3, <2>4
<1>10. CASE class = "F" /\ Used(c, s) < Len(fprs)
  <2>1. PICK p, g, f : /\ p = InReg(i, fprs[Used(c, s) + 1])
                       /\ g = IF c.target = "X86_32" THEN s.gpr + 1 ELSE s.gpr
                       /\ f = IF c.target = "X86_32" THEN s.fpr ELSE s.fpr + Counted(c, v, ty)
    OBVIOUS
  <2>2. p \in Parts
    <3>1. Used(c, s) \in Nat
      BY <1>7 DEF Used
    <3>2. QED
      BY <1>7, <1>10, <2>1, <3>1, ListedRegister, RegIsPart
  <2>3. /\ Takes(s, a, g, f, s.x87, Append(s.parts, p))
        /\ Takes(t, b, g, f, s.x87, Append(t.parts, p))
    BY <1>4, <1>5, <1>6, <1>10, <2>1 DEF Returns
  <2>4. a \in Assignments /\ b \in Assignments /\ Same(a, b) /\ Sees(a, b)
    BY <2>2, <2>3, SameTakesOne
  <2>5. QED
    BY <1>3, <2>4
<1>11. CASE class = "8" /\ s.x87 = 0
  <2>1. PICK p : p = InReg(i, <<"FP", 0>>)
    OBVIOUS
  <2>2. p \in Parts
    <3>1. <<"FP", 0>> \in Registers
      BY DEF Registers, FloatNames
    <3>2. QED
      BY <2>1, <3>1, RegIsPart
  <2>3. /\ Takes(s, a, s.gpr, s.fpr, 1, Append(s.parts, p))
        /\ Takes(t, b, s.gpr, s.fpr, 1, Append(t.parts, p))
    BY <1>4, <1>5, <1>6, <1>11, <2>1 DEF Returns
  <2>4. a \in Assignments /\ b \in Assignments /\ Same(a, b) /\ Sees(a, b)
    BY <2>2, <2>3, SameTakesOne
  <2>5. QED
    BY <1>3, <2>4
<1>12. CASE ~ \/ class = "I" /\ s.gpr < Len(gprs)
              \/ class = "II" /\ s.gpr + 1 < Len(gprs)
              \/ class = "F" /\ Used(c, s) < Len(fprs)
              \/ class = "8" /\ s.x87 = 0
  <2>1. a \in Assignments /\ a.failed /\ b \in Assignments /\ b.failed
    BY <1>4, <1>5, <1>6, <1>12 DEF Returns
  <2>2. QED
    BY <1>3, <2>1
<1>13. QED
  BY <1>8, <1>9, <1>10, <1>11, <1>12

-----------------------------------------------------------------------------
(* The specification                                                       *)

TypeInv ==
  /\ site \in Sites
  /\ sig.types \in Seq(Types)
  /\ call \in Assignments /\ func \in Assignments

\* The two sides have used up the same until the call passes what only it knows.
Beyond == sig.kind = "args" /\ site.vararg /\ Len(sig.types) > site.fixed

AgreeInv ==
  ~call.failed => /\ Sees(call, func)
                  /\ Beyond \/ Same(call, func)

LEMMA SiteFacts ==
  ASSUME NEW c \in Sites
  PROVE  /\ c.target \in Targets /\ c.fixed \in Nat /\ c.vararg \in BOOLEAN
         /\ c.types \subseteq Types /\ c.max \in Nat
         /\ ~c.vararg => c.fixed = c.max
BY CallLoweringAssumption

LEMMA CalleeFacts ==
  ASSUME NEW c \in Sites, NEW n \in Nat
  PROVE  LET d == [c EXCEPT !.vararg = FALSE]
             e == [d EXCEPT !.fixed = n]
         IN  /\ d.target = c.target /\ d.conv = c.conv /\ d.fixed = c.fixed /\ d.vararg = FALSE
             /\ e.target = c.target /\ e.conv = c.conv /\ e.fixed = n /\ e.vararg = FALSE
<1>1. c \in [target : Targets, conv : STRING, fixed : Nat, vararg : BOOLEAN,
             types : SUBSET Types, max : Nat, runs : Nat]
  BY CallLoweringAssumption
<1>2. QED
  BY <1>1

LEMMA FreshForm ==
  ASSUME NEW c
  PROVE  Fresh(c) \in Assignments /\ Fresh(c).parts = <<>>
<1>1. <<>> \in Seq(Parts)
  OBVIOUS
<1>2. QED
  BY <1>1 DEF Fresh, Assignments

LEMMA SameSelf == ASSUME NEW s PROVE Same(s, s) /\ Sees(s, s)
BY DEF Same, Sees

LEMMA InitAgree == Init => TypeInv /\ AgreeInv
<1> SUFFICES ASSUME Init PROVE TypeInv /\ AgreeInv
  OBVIOUS
<1>1. sig.types \in Seq(Types)
  <2>1. <<>> \in Seq(Types)
    OBVIOUS
  <2>2. QED
    BY <2>1 DEF Init
<1>2. QED
  BY <1>1, FreshForm, SameSelf DEF Init, TypeInv, AgreeInv

LEMMA ArgStep ==
  ASSUME TypeInv, AgreeInv, PassArg
  PROVE  TypeInv' /\ AgreeInv'
<1>1. PICK ty \in site.types :
        /\ Extends("args", ty)
        /\ call' = AssignArg(site, call, Len(sig.types) + 1, ty)
        /\ func' = IF Len(sig.types) < site.fixed \/ ~site.vararg
                     THEN AssignArg([Callee EXCEPT !.fixed = site.max], func, Len(sig.types) + 1, ty)
                     ELSE func
        /\ site' = site
  BY DEF PassArg
<1>2. /\ site.target \in Targets /\ site.fixed \in Nat /\ site.vararg \in BOOLEAN /\ site \in Sites
      /\ ty \in Types /\ site.max \in Nat /\ (~site.vararg => site.fixed = site.max)
  <2>1. site \in Sites
    BY DEF TypeInv
  <2>2. QED
    BY <2>1, SiteFacts
<1>3. /\ ~call.failed /\ sig.kind \in {"none", "args"} /\ sig'.kind = "args"
      /\ sig'.types \in Seq(Types) /\ Len(sig'.types) = Len(sig.types) + 1
      /\ Len(sig.types) \in Nat /\ Len(sig.types) < site.max
  <2>1. sig.types \in Seq(Types)
    BY DEF TypeInv
  <2>2. QED
    BY <1>1, <1>2, <2>1 DEF Extends
<1>4. PICK i \in Nat : i = Len(sig.types) + 1
  BY <1>3
<1>5. call \in Assignments /\ func \in Assignments
  BY DEF TypeInv
<1>6. CASE Len(sig.types) < site.fixed \/ ~site.vararg
  <2>1. PICK d : d = [Callee EXCEPT !.fixed = site.max]
    OBVIOUS
  <2>2. d.target = site.target /\ d.conv = site.conv /\ d.fixed = site.max /\ d.vararg = FALSE
    BY <1>2, <2>1, CalleeFacts DEF Callee
  <2>3. ~(i > site.fixed) /\ ~(i > site.max)
    <3>1. i <= site.max
      BY <1>2, <1>3, <1>4
    <3>2. CASE Len(sig.types) < site.fixed
      BY <1>2, <1>3, <1>4, <3>1, <3>2
    <3>3. CASE ~site.vararg
      BY <1>2, <1>4, <3>1, <3>3
    <3>4. QED
      BY <1>6, <3>2, <3>3
  <2>4. (i > d.fixed) = (i > site.fixed)
    BY <2>2, <2>3
  <2>5. Same(call, func) /\ Sees(call, func)
    <3>1. ~Beyond
      BY <1>2, <1>3, <1>6 DEF Beyond
    <3>2. QED
      BY <1>3, <3>1 DEF AgreeInv
  <2>6. call' = AssignArg(site, call, i, ty) /\ func' = AssignArg(d, func, i, ty)
    BY <1>1, <1>4, <1>6, <2>1
  <2>a. PICK a, b : a = AssignArg(site, call, i, ty) /\ b = AssignArg(d, func, i, ty)
    OBVIOUS
  <2>b. /\ a \in Assignments /\ b \in Assignments
        /\ ~a.failed => Same(a, b) /\ Sees(a, b)
    BY <1>2, <1>5, <2>2, <2>4, <2>5, <2>a, ArgAgree
  <2>7. /\ call' \in Assignments /\ func' \in Assignments
        /\ ~call'.failed => Same(call', func') /\ Sees(call', func')
    BY <2>6, <2>a, <2>b
  <2>8. QED
    BY <1>1, <1>2, <1>3, <2>7 DEF TypeInv, AgreeInv
<1>7. CASE ~(Len(sig.types) < site.fixed \/ ~site.vararg)
  <2>1. PICK d : d = [site EXCEPT !.vararg = FALSE]
    OBVIOUS
  <2>2. d.target = site.target /\ d.conv = site.conv /\ d.fixed = site.fixed /\ d.vararg = FALSE
    BY <1>2, <2>1, CalleeFacts
  <2>3. (i > d.fixed) = (i > site.fixed)
    BY <2>2
  <2>4. Same(call, call) /\ Sees(call, call)
    BY SameSelf
  <2>5. call' = AssignArg(site, call, i, ty) /\ func' = func
    BY <1>1, <1>4, <1>7
  <2>6. call' \in Assignments /\ (~call'.failed => Sees(call', call))
    <3>1. PICK a : a = AssignArg(site, call, i, ty)
      OBVIOUS
    <3>2. a \in Assignments /\ (~a.failed => Sees(a, call))
      BY <1>2, <1>5, <2>2, <2>3, <2>4, <3>1, ArgAgree
    <3>3. QED
      BY <2>5, <3>1, <3>2
  <2>7. Sees(call, func)
    BY <1>3 DEF AgreeInv
  <2>8. ~call'.failed => Sees(call', func')
    BY <2>5, <2>6, <2>7 DEF Sees
  <2>9. Beyond'
    BY <1>1, <1>2, <1>3, <1>7 DEF Beyond
  <2>10. QED
    BY <1>1, <1>2, <1>3, <1>5, <2>5, <2>6, <2>8, <2>9 DEF TypeInv, AgreeInv
<1>8. QED
  BY <1>6, <1>7

LEMMA RetStep ==
  ASSUME TypeInv, AgreeInv, PassRet
  PROVE  TypeInv' /\ AgreeInv'
<1>1. PICK ty \in site.types :
        /\ Extends("rets", ty)
        /\ call' = AssignRet(site, call, Len(sig.types) + 1, ty)
        /\ func' = AssignRet(Callee, func, Len(sig.types) + 1, ty)
        /\ site' = site
  BY DEF PassRet
<1>2. site.target \in Targets /\ site \in Sites /\ ty \in Types /\ site.max \in Nat
  <2>1. site \in Sites
    BY DEF TypeInv
  <2>2. QED
    BY <2>1, SiteFacts
<1>3. /\ ~call.failed /\ sig.kind \in {"none", "rets"} /\ sig'.kind = "rets"
      /\ sig'.types \in Seq(Types) /\ Len(sig.types) \in Nat
  <2>1. sig.types \in Seq(Types)
    BY DEF TypeInv
  <2>2. QED
    BY <1>1, <1>2, <2>1 DEF Extends
<1>4. PICK i \in Nat : i = Len(sig.types) + 1
  BY <1>3
<1>5. call \in Assignments /\ func \in Assignments
  BY DEF TypeInv
<1>6. Same(call, func) /\ Sees(call, func)
  BY <1>3 DEF AgreeInv, Beyond
<1>7. PICK d : d = Callee
  OBVIOUS
<1>8. d.target = site.target /\ d.conv = site.conv
  BY <1>2, <1>7, CalleeFacts DEF Callee
<1>9. /\ call' \in Assignments /\ func' \in Assignments
      /\ ~call'.failed => Same(call', func') /\ Sees(call', func')
  BY <1>1, <1>2, <1>4, <1>5, <1>6, <1>7, <1>8, RetAgree
<1>10. QED
  BY <1>1, <1>2, <1>3, <1>9 DEF TypeInv, AgreeInv

LEMMA AgreeInductive == Spec => [](TypeInv /\ AgreeInv)
<1>1. ASSUME TypeInv, AgreeInv, [Next]_vars PROVE TypeInv' /\ AgreeInv'
  <2>1. CASE UNCHANGED vars
    <3>1. site' = site /\ sig' = sig /\ call' = call /\ func' = func
      BY <2>1 DEF vars
    <3>2. QED
      BY <1>1, <3>1 DEF TypeInv, AgreeInv, Beyond, Same, Sees
  <2>2. QED
    BY <1>1, <2>1, ArgStep, RetStep DEF Next
<1>2. QED
  BY <1>1, InitAgree, PTL DEF Spec

\* Whatever the target, the convention, the number and the types of the values:
\* where a function looks for a parameter or a caller for a result, the other
\* side has put it.
THEOREM SidesAgree == Spec => []CallerCalleeAgree
<1>1. AgreeInv => CallerCalleeAgree
  BY DEF AgreeInv, CallerCalleeAgree, Sees
<1>2. QED
  BY <1>1, AgreeInductive, PTL

-----------------------------------------------------------------------------
(* No clash                                                                *)

\* Parts that do not overlap, below the end of the stack and in the registers of
\* T only.
Apart(parts) == \A m, n \in 1 .. Len(parts) : m # n => ~Overlap(parts[m], parts[n])
Clear(T, parts, end) ==
  /\ parts \in Seq(Parts) /\ end \in Nat
  /\ Apart(parts)
  /\ \A m \in 1 .. Len(parts) :
       IF parts[m].reg = NoReg THEN parts[m].off + parts[m].size <= end ELSE parts[m].reg \in T

LEMMA ClearAppend ==
  ASSUME NEW T, NEW U, NEW parts, NEW end, NEW last \in Nat, NEW p \in Parts,
         Clear(T, parts, end), T \subseteq U, end <= last,
         IF p.reg = NoReg THEN end <= p.off /\ p.off + p.size <= last ELSE p.reg \in U \ T
  PROVE  Clear(U, Append(parts, p), last)
<1>1. parts \in Seq(Parts) /\ Len(parts) \in Nat /\ end \in Nat
  BY DEF Clear
<1>2. PICK q : q = Append(parts, p)
  OBVIOUS
<1>3. /\ q \in Seq(Parts) /\ Len(q) = Len(parts) + 1 /\ q[Len(parts) + 1] = p
      /\ \A m \in 1 .. Len(parts) : q[m] = parts[m]
  BY <1>1, <1>2
<1>4. \A m \in 1 .. Len(parts) : parts[m] \in Parts
  BY <1>1, ElementOfSeq
<1>5. ASSUME NEW m \in 1 .. Len(parts)
      PROVE  ~Overlap(parts[m], p) /\ ~Overlap(p, parts[m])
  <2>1. /\ parts[m].off \in Nat /\ parts[m].size \in Nat /\ p.off \in Nat /\ p.size \in Nat
    BY <1>4 DEF Parts
  <2>2. IF parts[m].reg = NoReg THEN parts[m].off + parts[m].size <= end ELSE parts[m].reg \in T
    BY DEF Clear
  <2>3. QED
    BY <1>1, <2>1, <2>2 DEF Overlap
<1>6. Apart(q)
  <2> SUFFICES ASSUME NEW m \in 1 .. Len(q), NEW n \in 1 .. Len(q), m # n
               PROVE  ~Overlap(q[m], q[n])
    BY DEF Apart
  <2>1. CASE m <= Len(parts) /\ n <= Len(parts)
    <3>1. q[m] = parts[m] /\ q[n] = parts[n] /\ m \in 1 .. Len(parts) /\ n \in 1 .. Len(parts)
      BY <1>1, <1>3, <2>1
    <3>2. QED
      BY <3>1 DEF Clear, Apart
  <2>2. CASE m > Len(parts)
    <3>1. q[m] = p /\ q[n] = parts[n] /\ n \in 1 .. Len(parts)
      BY <1>1, <1>3, <2>2
    <3>2. QED
      BY <1>5, <3>1
  <2>3. CASE n > Len(parts)
    <3>1. q[n] = p /\ q[m] = parts[m] /\ m \in 1 .. Len(parts)
      BY <1>1, <1>3, <2>3
    <3>2. QED
      BY <1>5, <3>1
  <2>4. QED
    BY <1>1, <1>3, <2>1, <2>2, <2>3
<1>7. ASSUME NEW m \in 1 .. Len(q)
      PROVE  IF q[m].reg = NoReg THEN q[m].off + q[m].size <= last ELSE q[m].reg \in U
  <2>1. CASE m <= Len(parts)
    <3>1. q[m] = parts[m] /\ m \in 1 .. Len(parts)
      BY <1>1, <1>3, <2>1
    <3>2. IF parts[m].reg = NoReg THEN parts[m].off + parts[m].size <= end ELSE parts[m].reg \in T
      BY <3>1 DEF Clear
    <3>3. parts[m].off \in Nat /\ parts[m].size \in Nat
      BY <1>4, <3>1 DEF Parts
    <3>4. QED
      BY <1>1, <3>1, <3>2, <3>3
  <2>2. CASE m > Len(parts)
    <3>1. q[m] = p
      BY <1>1, <1>3, <2>2
    <3>2. QED
      BY <3>1
  <2>3. QED
    BY <1>1, <1>3, <2>1, <2>2
<1>8. QED
  BY <1>2, <1>3, <1>6, <1>7 DEF Clear

LEMMA ClearEmpty == ASSUME NEW T, NEW end \in Nat PROVE Clear(T, <<>>, end)
<1>1. <<>> \in Seq(Parts)
  OBVIOUS
<1>2. QED
  BY <1>1 DEF Clear, Apart

\* The registers of two lists up to the counters, and x.
Taken(gprs, fprs, g, f, x) ==
  {gprs[k] : k \in {n \in 1 .. Len(gprs) : n <= g}} \cup
  {fprs[k] : k \in {n \in 1 .. Len(fprs) : n <= f}} \cup x

LEMMA NextTaken ==
  ASSUME NEW gprs, NEW fprs, Listed(gprs, GeneralNames), Listed(fprs, FloatNames),
         NEW g \in Nat, NEW f \in Nat, NEW x
  PROVE  /\ \A h \in Nat : g <= h => Taken(gprs, fprs, g, f, x) \subseteq Taken(gprs, fprs, h, f, x)
         /\ \A h \in Nat : f <= h => Taken(gprs, fprs, g, f, x) \subseteq Taken(gprs, fprs, g, h, x)
         /\ g < Len(gprs) /\ gprs[g + 1] \notin x =>
              /\ gprs[g + 1] \in Taken(gprs, fprs, g + 1, f, x) \ Taken(gprs, fprs, g, f, x)
              /\ gprs[g + 1] # NoReg
         /\ f < Len(fprs) /\ fprs[f + 1] \notin x =>
              /\ fprs[f + 1] \in Taken(gprs, fprs, g, f + 1, x) \ Taken(gprs, fprs, g, f, x)
              /\ fprs[f + 1] # NoReg
<1>1. gprs \in Seq(GeneralNames \X Nat) /\ fprs \in Seq(FloatNames \X Nat)
  BY DEF Listed
<1>2. Len(gprs) \in Nat /\ Len(fprs) \in Nat
  BY <1>1
<1>3. /\ \A k \in 1 .. Len(gprs) : gprs[k] \in GeneralNames \X Nat
      /\ \A k \in 1 .. Len(fprs) : fprs[k] \in FloatNames \X Nat
  BY <1>1, ElementOfSeq
<1>4. \A j \in 1 .. Len(gprs), k \in 1 .. Len(fprs) : gprs[j] # fprs[k]
  <2>1. (GeneralNames \X Nat) \cap (FloatNames \X Nat) = {}
    BY DEF GeneralNames, FloatNames
  <2>2. QED
    BY <1>3, <2>1
<1>5. NoReg \notin GeneralNames \X Nat /\ NoReg \notin FloatNames \X Nat
  BY DEF NoReg, GeneralNames, FloatNames
<1>6. \A h \in Nat : g <= h => Taken(gprs, fprs, g, f, x) \subseteq Taken(gprs, fprs, h, f, x)
  BY <1>2 DEF Taken
<1>7. \A h \in Nat : f <= h => Taken(gprs, fprs, g, f, x) \subseteq Taken(gprs, fprs, g, h, x)
  BY <1>2 DEF Taken
<1>8. ASSUME g < Len(gprs), gprs[g + 1] \notin x
      PROVE  /\ gprs[g + 1] \in Taken(gprs, fprs, g + 1, f, x) \ Taken(gprs, fprs, g, f, x)
             /\ gprs[g + 1] # NoReg
  <2>1. g + 1 \in 1 .. Len(gprs)
    BY <1>2, <1>8
  <2>2. gprs[g + 1] \in Taken(gprs, fprs, g + 1, f, x)
    BY <2>1 DEF Taken
  <2>3. \A k \in 1 .. Len(gprs) : k <= g => gprs[k] # gprs[g + 1]
    BY <1>2, <2>1 DEF Listed
  <2>4. gprs[g + 1] \notin Taken(gprs, fprs, g, f, x)
    BY <1>4, <1>8, <2>1, <2>3 DEF Taken
  <2>5. QED
    BY <1>3, <1>5, <2>1, <2>2, <2>4
<1>9. ASSUME f < Len(fprs), fprs[f + 1] \notin x
      PROVE  /\ fprs[f + 1] \in Taken(gprs, fprs, g, f + 1, x) \ Taken(gprs, fprs, g, f, x)
             /\ fprs[f + 1] # NoReg
  <2>1. f + 1 \in 1 .. Len(fprs)
    BY <1>2, <1>9
  <2>2. fprs[f + 1] \in Taken(gprs, fprs, g, f + 1, x)
    BY <2>1 DEF Taken
  <2>3. \A k \in 1 .. Len(fprs) : k <= f => fprs[k] # fprs[f + 1]
    BY <1>2, <2>1 DEF Listed
  <2>4. fprs[f + 1] \notin Taken(gprs, fprs, g, f, x)
    BY <1>4, <1>9, <2>1, <2>3 DEF Taken
  <2>5. QED
    BY <1>3, <1>5, <2>1, <2>2, <2>4
<1>10. QED
  BY <1>6, <1>7, <1>8, <1>9

LEMMA RegField ==
  ASSUME NEW i, NEW r
  PROVE  InReg(i, r).reg = r
BY DEF InReg

LEMMA ClearGPR ==
  ASSUME NEW gprs, NEW fprs, Listed(gprs, GeneralNames), Listed(fprs, FloatNames),
         NEW g \in Nat, NEW f \in Nat, NEW x, NEW parts, NEW end, NEW last \in Nat, NEW i \in Nat,
         Clear(Taken(gprs, fprs, g, f, x), parts, end), end <= last,
         g < Len(gprs), gprs[g + 1] \notin x
  PROVE  Clear(Taken(gprs, fprs, g + 1, f, x), Append(parts, InReg(i, gprs[g + 1])), last)
<1>1. PICK T, U, r, p : /\ T = Taken(gprs, fprs, g, f, x) /\ U = Taken(gprs, fprs, g + 1, f, x)
                        /\ r = gprs[g + 1] /\ p = InReg(i, r)
  OBVIOUS
<1>2. T \subseteq U /\ r \in U \ T /\ r # NoReg
  BY <1>1, NextTaken
<1>3. p \in Parts /\ p.reg = r
  BY <1>1, ListedRegister, RegIsPart, RegField
<1>4. QED
  BY <1>1, <1>2, <1>3, ClearAppend

LEMMA ClearFPR ==
  ASSUME NEW gprs, NEW fprs, Listed(gprs, GeneralNames), Listed(fprs, FloatNames),
         NEW g \in Nat, NEW f \in Nat, NEW x, NEW parts, NEW end, NEW last \in Nat, NEW i \in Nat,
         Clear(Taken(gprs, fprs, g, f, x), parts, end), end <= last,
         f < Len(fprs), fprs[f + 1] \notin x
  PROVE  Clear(Taken(gprs, fprs, g, f + 1, x), Append(parts, InReg(i, fprs[f + 1])), last)
<1>1. PICK T, U, r, p : /\ T = Taken(gprs, fprs, g, f, x) /\ U = Taken(gprs, fprs, g, f + 1, x)
                        /\ r = fprs[f + 1] /\ p = InReg(i, r)
  OBVIOUS
<1>2. T \subseteq U /\ r \in U \ T /\ r # NoReg
  BY <1>1, NextTaken
<1>3. p \in Parts /\ p.reg = r
  BY <1>1, ListedRegister, RegIsPart, RegField
<1>4. QED
  BY <1>1, <1>2, <1>3, ClearAppend

LEMMA ClearWider ==
  ASSUME NEW T, NEW U, NEW parts, NEW end, NEW last \in Nat, Clear(T, parts, end),
         T \subseteq U, end <= last
  PROVE  Clear(U, parts, last)
<1>1. parts \in Seq(Parts) /\ end \in Nat /\ \A m \in 1 .. Len(parts) : parts[m] \in Parts
  <2>1. parts \in Seq(Parts) /\ end \in Nat
    BY DEF Clear
  <2>2. QED
    BY <2>1, ElementOfSeq
<1>2. ASSUME NEW m \in 1 .. Len(parts)
      PROVE  IF parts[m].reg = NoReg THEN parts[m].off + parts[m].size <= last ELSE parts[m].reg \in U
  <2>1. IF parts[m].reg = NoReg THEN parts[m].off + parts[m].size <= end ELSE parts[m].reg \in T
    BY DEF Clear
  <2>2. parts[m].off \in Nat /\ parts[m].size \in Nat
    BY <1>1 DEF Parts
  <2>3. QED
    BY <1>1, <2>1, <2>2
<1>3. QED
  BY <1>1, <1>2 DEF Clear

\* The frame slot of an argument on PowerPC is eight bytes, used or not.
Frame(target, s) == IF target = "PPC" THEN s.stack + 8 ELSE s.stack

\* A value that goes on the stack, and what becomes of the assignment.
Fits(target, s, i, size, align, T) ==
  /\ s \in Assignments /\ i \in Nat /\ size \in Nat /\ align \in Nat \ {0}
  /\ target = "PPC" => size <= 8
  /\ Clear(T, s.parts, s.stack)
Fitted(target, s, a, T) == a.gpr = s.gpr /\ a.fpr = s.fpr /\ Clear(T, a.parts, Frame(target, a))

LEMMA FitsOnStack ==
  ASSUME NEW target, NEW s, NEW i, NEW size, NEW align, NEW T, Fits(target, s, i, size, align, T)
  PROVE  Fitted(target, s, OnStack(target, s, i, size, align), T)
<1> PICK a : a = OnStack(target, s, i, size, align)
  OBVIOUS
<1>a. /\ s \in Assignments /\ i \in Nat /\ size \in Nat /\ align \in Nat \ {0}
      /\ Clear(T, s.parts, s.stack)
  BY DEF Fits
<1>b. target = "PPC" => size <= 8
  BY DEF Fits
<1>1. PICK off, end : off = StackOffset(target, s, align) /\ end = StackEnd(target, off, size)
  OBVIOUS
<1>2. /\ off \in Nat /\ off >= s.stack
      /\ Lands(s, a, end, Max({s.align, align}), Append(s.parts, Slot(i, off, size)))
  BY <1>1, <1>a, OnStackForm
<1>3. a \in Assignments /\ a.gpr = s.gpr /\ a.fpr = s.fpr /\ a.stack = end /\ s.stack \in Nat
  BY <1>2, <1>a DEF Lands, Assignments
<1>4. PICK last : last = Frame(target, a)
  OBVIOUS
<1>5. last \in Nat /\ off + size <= last
  <2>1. CASE target = "PPC"
    BY <1>a, <1>b, <1>1, <1>2, <1>3, <1>4, <2>1 DEF Frame, StackEnd
  <2>2. CASE target \in {"AArch64", "RISCV"}
    <3>1. last = AlignTo(off + size, 8)
      BY <1>1, <1>3, <1>4, <2>2 DEF Frame, StackEnd
    <3>2. off + size \in Nat /\ 8 \in Nat \ {0}
      BY <1>a, <1>2
    <3>3. QED
      BY <3>1, <3>2, AlignUp
  <2>3. CASE target \notin {"PPC", "AArch64", "RISCV"}
    BY <1>a, <1>1, <1>2, <1>3, <1>4, <2>3 DEF Frame, StackEnd
  <2>4. QED
    BY <2>1, <2>2, <2>3
<1>6. PICK p : p = Slot(i, off, size) /\ p \in Parts
  BY <1>a, <1>2, SlotIsPart
<1>7. p.reg = NoReg /\ p.off = off /\ p.size = size
  BY <1>6 DEF Slot
<1>8. s.stack <= last
  BY <1>a, <1>2, <1>3, <1>5
<1>9. Clear(T, Append(s.parts, p), last)
  BY <1>a, <1>2, <1>5, <1>6, <1>7, <1>8, ClearAppend
<1>10. QED
  BY <1>2, <1>3, <1>4, <1>6, <1>9 DEF Lands, Fitted

ArgTaken(c, s) ==
  LET v == RulesOf(c.target, c.conv)
  IN Taken(ArgGPRs(c.target, v), ArgFPRs(c.target, v), s.gpr, s.fpr, {})

LEMMA FrameTakes ==
  ASSUME NEW target, NEW s \in Assignments, NEW a, NEW g, NEW f, NEW x, NEW parts,
         Takes(s, a, g, f, x, parts)
  PROVE  Frame(target, a) \in Nat /\ s.stack <= Frame(target, a)
<1>1. s.stack \in Nat /\ a.stack = s.stack
  BY DEF Takes, Assignments
<1>2. QED
  BY <1>1 DEF Frame

LEMMA TakesGPR ==
  ASSUME NEW s \in Assignments, NEW p, p \in Parts, NEW a,
         a = [s EXCEPT !.gpr = @ + 1, !.parts = Append(@, p)]
  PROVE  Takes(s, a, s.gpr + 1, s.fpr, s.x87, Append(s.parts, p))
BY TakesForms

LEMMA TakesFPR ==
  ASSUME NEW s \in Assignments, NEW p, p \in Parts, NEW a,
         a = [s EXCEPT !.fpr = @ + 1, !.parts = Append(@, p)]
  PROVE  Takes(s, a, s.gpr, s.fpr + 1, s.x87, Append(s.parts, p))
BY TakesForms

LEMMA TakesTwo ==
  ASSUME NEW s \in Assignments, NEW p \in Parts, NEW q \in Parts, NEW a,
         a = [s EXCEPT !.gpr = @ + 2, !.parts = @ \o <<p, q>>]
  PROVE  Takes(s, a, s.gpr + 2, s.fpr, s.x87, Append(Append(s.parts, p), q))
BY TakesForms

LEMMA TakesBoth ==
  ASSUME NEW s \in Assignments, NEW p \in Parts, NEW q \in Parts, NEW a,
         a = [[s EXCEPT !.fpr = @ + 1, !.gpr = @ + 1, !.parts = Append(@, p)]
               EXCEPT !.parts = Append(@, q)]
  PROVE  Takes(s, a, s.gpr + 1, s.fpr + 1, s.x87, Append(Append(s.parts, p), q))
BY TakesForms

LEMMA TakenGrows ==
  ASSUME NEW gprs, NEW fprs, Listed(gprs, GeneralNames), Listed(fprs, FloatNames),
         NEW g \in Nat, NEW h \in Nat, NEW f \in Nat, NEW x, g <= h
  PROVE  Taken(gprs, fprs, g, f, x) \subseteq Taken(gprs, fprs, h, f, x)
<1>1. Len(gprs) \in Nat
  BY DEF Listed
<1>2. QED
  BY <1>1 DEF Taken

LEMMA PPCFloatClear ==
  ASSUME NEW c, c.vararg \in BOOLEAN, NEW s \in Assignments, NEW i \in Nat, NEW ty,
         ~(c.vararg /\ ty = "F32"), NEW gprs, NEW fprs, gprs = ArgGPRs("PPC", "C"), fprs = ArgFPRs("PPC", "C"),
         s.fpr < Len(fprs), Clear(Taken(gprs, fprs, s.gpr, s.fpr, {}), s.parts, s.stack),
         NEW a, a = PPCFloat(c, s, i, ty), ~a.failed
  PROVE  Clear(Taken(gprs, fprs, a.gpr, a.fpr, {}), a.parts, Frame("PPC", a))
<1>1. "PPC" \in Targets
  BY DEF Targets
<1>2. Listed(gprs, GeneralNames) /\ Listed(fprs, FloatNames)
  BY <1>1, ArgLists
<1>3. s.gpr \in Nat /\ s.fpr \in Nat /\ s.stack \in Nat /\ s.gpr + 1 \in Nat /\ s.fpr + 1 \in Nat
  BY DEF Assignments
<1>4. fprs = PPCFPRs /\ gprs = PPCArgGPRs.C
  <2>1. PICK args : PPCArgGPRs = [C |-> Numbered("X", 3, 10), CAML |-> args]
    BY DEF PPCArgGPRs
  <2>2. gprs = RegsIn(PPCArgGPRs, "C") /\ fprs = PPCFPRs
    BY DEF ArgGPRs, ArgFPRs
  <2>3. QED
    BY <2>1, <2>2 DEF RegsIn
<1>5. PICK p \in Parts : p = InReg(i, fprs[s.fpr + 1])
  BY <1>2, <1>3, ListedRegister, RegIsPart
<1>6. PICK last \in Nat : last = s.stack + 8 /\ s.stack <= last
  <2>1. s.stack + 8 \in Nat /\ s.stack <= s.stack + 8
    BY <1>3
  <2>2. QED
    BY <2>1
<1>7. Clear(Taken(gprs, fprs, s.gpr, s.fpr + 1, {}), Append(s.parts, p), last)
  BY <1>2, <1>3, <1>5, <1>6, ClearFPR
<1>8. PICK u : u = [s EXCEPT !.fpr = @ + 1, !.gpr = @ + 1, !.parts = Append(@, p)]
  OBVIOUS
<1>9. CASE ~c.vararg
  <2>1. a = u
    BY <1>4, <1>5, <1>8, <1>9 DEF PPCFloat
  <2>2. Takes(s, a, s.gpr + 1, s.fpr + 1, s.x87, Append(s.parts, p))
    BY <1>5, <1>8, <2>1, TakesForms
  <2>3. Frame("PPC", a) = last
    BY <1>6, <2>2 DEF Takes, Frame
  <2>4. Taken(gprs, fprs, s.gpr, s.fpr + 1, {}) \subseteq Taken(gprs, fprs, s.gpr + 1, s.fpr + 1, {})
    <3>1. PICK g \in Nat, h \in Nat, f \in Nat :
            g = s.gpr /\ h = s.gpr + 1 /\ f = s.fpr + 1 /\ g <= h
      <4>1. s.gpr <= s.gpr + 1
        BY <1>3
      <4>2. QED
        BY <1>3, <4>1
    <3>2. Taken(gprs, fprs, g, f, {}) \subseteq Taken(gprs, fprs, h, f, {})
      BY <1>2, <3>1, TakenGrows
    <3>3. QED
      BY <3>1, <3>2
  <2>5. Clear(Taken(gprs, fprs, s.gpr + 1, s.fpr + 1, {}), Append(s.parts, p), last)
    BY <1>7, <2>4, ClearWider
  <2>6. QED
    BY <2>2, <2>3, <2>5 DEF Takes
<1>10. CASE c.vararg /\ s.gpr < Len(gprs)
  <2>1. PICK q \in Parts : q = InReg(i, gprs[s.gpr + 1])
    BY <1>2, <1>3, <1>10, ListedRegister, RegIsPart
  <2>2. a = [u EXCEPT !.parts = Append(@, q)]
    BY <1>4, <1>5, <1>8, <1>10, <2>1 DEF PPCFloat
  <2>3. Takes(s, a, s.gpr + 1, s.fpr + 1, s.x87, Append(Append(s.parts, p), q))
    <3>1. a = [[s EXCEPT !.fpr = @ + 1, !.gpr = @ + 1, !.parts = Append(@, p)]
                EXCEPT !.parts = Append(@, q)]
      BY <1>8, <2>2
    <3>2. QED
      BY <3>1, TakesBoth
  <2>4. Frame("PPC", a) = last
    BY <1>6, <2>3 DEF Takes, Frame
  <2>5. Clear(Taken(gprs, fprs, s.gpr + 1, s.fpr + 1, {}), Append(Append(s.parts, p), q), last)
    <3>1. PICK f, b : f \in Nat /\ f = s.fpr + 1 /\ b = Append(s.parts, p)
      BY <1>3
    <3>2. Clear(Taken(gprs, fprs, s.gpr, f, {}), b, last) /\ last <= last
      BY <1>7, <3>1
    <3>3. Clear(Taken(gprs, fprs, s.gpr + 1, f, {}), Append(b, q), last)
      BY <1>2, <1>3, <1>10, <2>1, <3>1, <3>2, ClearGPR
    <3>4. QED
      BY <3>1, <3>3
  <2>6. QED
    BY <2>3, <2>4, <2>5 DEF Takes
<1>11. CASE c.vararg /\ ~(s.gpr < Len(gprs))
  <2>1. a = Failed(s)
    BY <1>4, <1>11 DEF PPCFloat
  <2>2. QED
    BY <2>1, FailedForm
<1>12. QED
  BY <1>9, <1>10, <1>11

LEMMA AssignClear ==
  ASSUME NEW c, c.target \in Targets, c.vararg \in BOOLEAN, NEW s \in Assignments, NEW i \in Nat,
         NEW ty \in Types, NEW variadic \in BOOLEAN, NEW how, NEW v, NEW gprs, NEW fprs,
         v = RulesOf(c.target, c.conv), gprs = ArgGPRs(c.target, v), fprs = ArgFPRs(c.target, v),
         how = ArgRule(c.target, v, ty, variadic),
         ~(c.target = "RISCV" /\ v = "CAML" /\ ty = "F32"),
         ~(c.target = "PPC" /\ c.vararg /\ ty = "F32"),
         Clear(Taken(gprs, fprs, s.gpr, s.fpr, {}), s.parts, s.stack),
         NEW a, a = Assign(c, s, i, ty, how), ~a.failed
  PROVE  Clear(Taken(gprs, fprs, a.gpr, a.fpr, {}), a.parts, Frame(c.target, a))
<1>1. Listed(gprs, GeneralNames) /\ Listed(fprs, FloatNames)
  BY ArgLists
<1>2. /\ s.gpr \in Nat /\ s.fpr \in Nat /\ s.stack \in Nat /\ s.gpr + 1 \in Nat /\ s.fpr + 1 \in Nat
      /\ Len(gprs) \in Nat
  BY <1>1 DEF Assignments, Listed
<1>3. Assigns(c, s, i, ty, how, v, gprs, fprs, a)
  BY AssignCases
<1>4. /\ how.class \in Classes \ {"FI"} /\ how.size \in Nat
      /\ c.target = "PPC" => how.class \in {"X", "I", "F"} /\ how.size <= 8
  BY ArgRuleFacts
<1>5. CASE how.class = "X" \/ (how.class = "II" /\ ~(s.gpr + 1 < Len(gprs)))
  <2>1. a = Failed(s)
    BY <1>3, <1>5 DEF Assigns
  <2>2. QED
    BY <2>1, FailedForm
<1>6. CASE how.class \in {"B", "S"}
  <2>1. PICK align \in Nat \ {0} : align = IF how.class = "B" THEN ByValAlign ELSE 8
    BY CallLoweringAssumption
  <2>2. a = OnStack(c.target, s, i, how.size, align)
    BY <1>3, <1>6, <2>1 DEF Assigns
  <2>3. c.target = "PPC" => how.size <= 8
    BY <1>4
  <2>4. /\ a.gpr = s.gpr /\ a.fpr = s.fpr
        /\ Clear(Taken(gprs, fprs, s.gpr, s.fpr, {}), a.parts, Frame(c.target, a))
    <3>1. Fits(c.target, s, i, how.size, align, Taken(gprs, fprs, s.gpr, s.fpr, {}))
      BY <1>4, <2>3 DEF Fits
    <3>2. QED
      BY <2>2, <3>1, FitsOnStack DEF Fitted
  <2>5. QED
    BY <2>4
<1>7. CASE how.class = "I" /\ s.gpr < Len(gprs)
  <2>1. PICK p : p = InReg(i, gprs[s.gpr + 1]) /\ p \in Parts
    BY <1>1, <1>2, <1>7, ListedRegister, RegIsPart
  <2>2. Takes(s, a, s.gpr + 1, s.fpr, s.x87, Append(s.parts, p))
    <3>1. a = [s EXCEPT !.gpr = @ + 1, !.parts = Append(@, p)]
      BY <1>3, <1>7, <2>1 DEF Assigns
    <3>2. QED
      BY <2>1, <3>1, TakesGPR
  <2>3. PICK last : last = Frame(c.target, a) /\ last \in Nat /\ s.stack <= last
    BY <2>2, FrameTakes
  <2>4. Clear(Taken(gprs, fprs, s.gpr + 1, s.fpr, {}), Append(s.parts, p), last)
    BY <1>1, <1>2, <1>7, <2>1, <2>3, ClearGPR
  <2>5. QED
    BY <2>2, <2>3, <2>4 DEF Takes
<1>8. CASE how.class = "II" /\ s.gpr + 1 < Len(gprs)
  <2>1. s.gpr + 2 = (s.gpr + 1) + 1 /\ s.gpr < Len(gprs)
    BY <1>2, <1>8
  <2>2. PICK p \in Parts, q \in Parts :
          p = InReg(i, gprs[s.gpr + 1]) /\ q = InReg(i, gprs[(s.gpr + 1) + 1])
    BY <1>1, <1>2, <1>8, <2>1, ListedRegister, RegIsPart
  <2>3. Takes(s, a, s.gpr + 2, s.fpr, s.x87, Append(Append(s.parts, p), q))
    <3>1. a = [s EXCEPT !.gpr = @ + 2, !.parts = @ \o <<p, q>>]
      BY <1>3, <1>8, <2>1, <2>2 DEF Assigns
    <3>2. QED
      BY <3>1, TakesTwo
  <2>4. PICK last : last = Frame(c.target, a) /\ last \in Nat /\ s.stack <= last
    BY <2>3, FrameTakes
  <2>5. Clear(Taken(gprs, fprs, s.gpr + 1, s.fpr, {}), Append(s.parts, p), last)
    BY <1>1, <1>2, <2>1, <2>2, <2>4, ClearGPR
  <2>6. PICK b : b = Append(s.parts, p)
    OBVIOUS
  <2>7. Clear(Taken(gprs, fprs, (s.gpr + 1) + 1, s.fpr, {}), Append(b, q), last)
    <3>1. PICK g \in Nat : g = s.gpr + 1
      BY <1>2
    <3>2. Clear(Taken(gprs, fprs, g, s.fpr, {}), b, last) /\ last <= last /\ g < Len(gprs)
      BY <1>8, <2>4, <2>5, <2>6, <3>1
    <3>3. q = InReg(i, gprs[g + 1])
      BY <2>2, <3>1
    <3>4. Clear(Taken(gprs, fprs, g + 1, s.fpr, {}), Append(b, q), last)
      BY <1>1, <1>2, <2>4, <3>2, <3>3, ClearGPR
    <3>5. QED
      BY <3>1, <3>4
  <2>8. QED
    BY <2>1, <2>3, <2>4, <2>6, <2>7 DEF Takes
<1>9. CASE how.class = "F" /\ s.fpr < Len(fprs) /\ c.target = "PPC" /\ v = "C"
  <2>1. a = PPCFloat(c, s, i, ty)
    BY <1>3, <1>9 DEF Assigns
  <2>2. gprs = ArgGPRs("PPC", "C") /\ fprs = ArgFPRs("PPC", "C") /\ ~(c.vararg /\ ty = "F32")
    BY <1>9
  <2>3. QED
    BY <1>9, <2>1, <2>2, PPCFloatClear
<1>10. CASE how.class = "F" /\ s.fpr < Len(fprs) /\ ~(c.target = "PPC" /\ v = "C")
  <2>1. PICK p : p = InReg(i, fprs[s.fpr + 1]) /\ p \in Parts
    BY <1>1, <1>2, <1>10, ListedRegister, RegIsPart
  <2>2. Takes(s, a, s.gpr, s.fpr + 1, s.x87, Append(s.parts, p))
    <3>1. a = [s EXCEPT !.fpr = @ + 1, !.parts = Append(@, p)]
      BY <1>3, <1>10, <2>1 DEF Assigns
    <3>2. QED
      BY <2>1, <3>1, TakesFPR
  <2>3. PICK last : last = Frame(c.target, a) /\ last \in Nat /\ s.stack <= last
    BY <2>2, FrameTakes
  <2>4. Clear(Taken(gprs, fprs, s.gpr, s.fpr + 1, {}), Append(s.parts, p), last)
    BY <1>1, <1>2, <1>10, <2>1, <2>3, ClearFPR
  <2>5. QED
    BY <2>2, <2>3, <2>4 DEF Takes
<1>11. CASE \/ how.class = "I" /\ ~(s.gpr < Len(gprs))
            \/ how.class = "F" /\ ~(s.fpr < Len(fprs))
  <2>1. a = StackOr(c.target, s, i, how.size)
    BY <1>3, <1>11 DEF Assigns
  <2>2. CASE how.size = 0
    BY <2>1, <2>2, FailedForm DEF StackOr
  <2>3. CASE how.size # 0
    <3>1. a = OnStack(c.target, s, i, how.size, 8) /\ 8 \in Nat \ {0}
      BY <2>1, <2>3 DEF StackOr
    <3>2. /\ a.gpr = s.gpr /\ a.fpr = s.fpr
          /\ Clear(Taken(gprs, fprs, s.gpr, s.fpr, {}), a.parts, Frame(c.target, a))
      <4>1. Fits(c.target, s, i, how.size, 8, Taken(gprs, fprs, s.gpr, s.fpr, {}))
        BY <1>4, <3>1 DEF Fits
      <4>2. QED
        BY <3>1, <4>1, FitsOnStack DEF Fitted
    <3>3. QED
      BY <3>2
  <2>4. QED
    BY <2>2, <2>3
<1>12. QED
  BY <1>4, <1>5, <1>6, <1>7, <1>8, <1>9, <1>10, <1>11 DEF Classes

\* The values whose places the code does not keep apart: 32-bit floating-point
\* values of OCaml calls on RISC-V and AArch64, and of variadic calls on PowerPC.
Confused(c, ty) ==
  /\ ty = "F32"
  /\ \/ c.target \in {"RISCV", "AArch64"} /\ RulesOf(c.target, c.conv) = "CAML"
     \/ c.target = "PPC" /\ c.vararg

\* What an assignment of arguments or of results keeps.
Placing(c, s, i, ty) ==
  /\ c.target \in Targets /\ c.vararg \in BOOLEAN /\ c.fixed \in Nat
  /\ s \in Assignments /\ i \in Nat /\ ty \in Types /\ ~Confused(c, ty)

LEMMA ArgClear ==
  ASSUME NEW c, NEW s, NEW i, NEW ty, Placing(c, s, i, ty),
         Clear(ArgTaken(c, s), s.parts, s.stack), NEW t, t = AssignArg(c, s, i, ty), ~t.failed
  PROVE  Clear(ArgTaken(c, t), t.parts, t.stack)
<1>1. PICK v, gprs, fprs : /\ v = RulesOf(c.target, c.conv)
                           /\ gprs = ArgGPRs(c.target, v) /\ fprs = ArgFPRs(c.target, v)
  OBVIOUS
<1>2. PICK variadic \in BOOLEAN : variadic = (i > c.fixed)
  <2>1. (i > c.fixed) \in BOOLEAN
    OBVIOUS
  <2>2. QED
    BY <2>1, Zenon
<1>3. /\ c.target \in Targets /\ c.vararg \in BOOLEAN /\ s \in Assignments /\ i \in Nat /\ ty \in Types
      /\ ~(c.target = "RISCV" /\ v = "CAML" /\ ty = "F32")
      /\ ~(c.target = "PPC" /\ c.vararg /\ ty = "F32")
  BY <1>1 DEF Placing, Confused
<1>4. PICK how : how = ArgRule(c.target, v, ty, variadic)
  OBVIOUS
<1>5. how.class \in Classes /\ how.size \in Nat
  BY <1>3, <1>4, ArgRuleFacts
<1>6. PICK a : a = Assign(c, s, i, ty, how)
  OBVIOUS
<1>7. a \in Assignments
  <2>1. PICK d : d = [target |-> c.target, conv |-> c.conv, vararg |-> FALSE]
    OBVIOUS
  <2>2. d.target = c.target /\ d.conv = c.conv /\ d.vararg = FALSE
    BY <2>1
  <2>3. Same(s, s) /\ Sees(s, s)
    BY SameSelf
  <2>4. QED
    BY <1>3, <1>5, <1>6, <2>2, <2>3, AssignAgree
<1>8. Clear(Taken(gprs, fprs, s.gpr, s.fpr, {}), s.parts, s.stack)
  BY <1>1 DEF ArgTaken
<1>9. t = IF c.target = "PPC" THEN [a EXCEPT !.stack = @ + 8] ELSE a
  BY <1>1, <1>2, <1>4, <1>6 DEF AssignArg
<1>10. /\ t.gpr = a.gpr /\ t.fpr = a.fpr /\ t.parts = a.parts /\ t.failed = a.failed
       /\ t.stack = Frame(c.target, a)
  BY <1>7, <1>9 DEF Assignments, Frame
<1>11. Clear(Taken(gprs, fprs, a.gpr, a.fpr, {}), a.parts, Frame(c.target, a))
  BY <1>1, <1>3, <1>4, <1>6, <1>8, <1>10, AssignClear
<1>12. QED
  BY <1>1, <1>10, <1>11 DEF ArgTaken

\* The bottom of the x87 stack holds a result of a 64-bit call.
X87Taken(c, s) == IF c.target = "X86_64" /\ s.x87 # 0 THEN {<<"FP", 0>>} ELSE {}

RetTaken(c, s) ==
  LET v == RulesOf(c.target, c.conv)
  IN Taken(RetGPRs(c.target, v), RetFPRs(c.target, v), s.gpr, Used(c, s), X87Taken(c, s))

LEMMA TakenWider ==
  ASSUME NEW gprs, NEW fprs, Listed(gprs, GeneralNames), Listed(fprs, FloatNames),
         NEW g \in Nat, NEW f \in Nat, NEW h \in Nat, NEW k \in Nat, NEW x, g <= h, f <= k
  PROVE  Taken(gprs, fprs, g, f, x) \subseteq Taken(gprs, fprs, h, k, x)
<1>1. Len(gprs) \in Nat /\ Len(fprs) \in Nat
  BY DEF Listed
<1>2. QED
  BY <1>1 DEF Taken

LEMMA X87Apart ==
  ASSUME NEW v, NEW gprs, NEW fprs, gprs = RetGPRs("X86_64", v), fprs = RetFPRs("X86_64", v)
  PROVE  /\ \A k \in 1 .. Len(gprs) : gprs[k] # <<"FP", 0>>
         /\ \A k \in 1 .. Len(fprs) : fprs[k] # <<"FP", 0>>
<1>1. "X86_64" \in Targets
  BY DEF Targets
<1>2. Listed(gprs, GeneralNames)
  BY <1>1, RetLists
<1>3. gprs \in Seq(GeneralNames \X Nat)
  BY <1>2 DEF Listed
<1>4. \A k \in 1 .. Len(gprs) : gprs[k] \in GeneralNames \X Nat
  BY <1>3, ElementOfSeq
<1>5. \A k \in 1 .. Len(gprs) : gprs[k] # <<"FP", 0>>
  BY <1>4 DEF GeneralNames
<1>6. fprs = SubSeq(X86FPRs, 1, 1) \/ fprs = <<>>
  BY DEF RetFPRs
<1>7. X86FPRs[1] = <<"XMM", 0>> /\ X86FPRs \in Seq(FloatNames \X Nat) /\ Len(X86FPRs) = 8
  <2>1. X86FPRs = [n \in 1 .. 8 |-> <<"XMM", n - 1>>]
    BY DEF X86FPRs, Numbered
  <2>2. Listed(X86FPRs, FloatNames) /\ Len(X86FPRs) = 8
    BY X86Lists
  <2>3. QED
    BY <2>1, <2>2 DEF Listed
<1>8. CASE fprs = SubSeq(X86FPRs, 1, 1)
  <2>1. Len(fprs) = 1 /\ fprs[1] = <<"XMM", 0>>
    BY <1>7, <1>8
  <2>2. QED
    BY <1>5, <2>1
<1>9. CASE fprs = <<>>
  BY <1>5, <1>9
<1>10. QED
  BY <1>6, <1>8, <1>9

LEMMA OnlyX87 ==
  ASSUME NEW target, NEW conv, NEW ty, RetClass(target, conv, ty) = "8"
  PROVE  target = "X86_64"
<1>1. WordRet(ty) # "8" /\ PlainRet(ty) # "8" /\ X86_32RetC(ty) # "8"
  BY DEF WordRet, PlainRet, X86_32RetC
<1>2. AArch64RetC(ty) # "8" /\ RISCVRetRuntime(ty) # "8"
  BY <1>1 DEF AArch64RetC, RISCVRetRuntime
<1>3. QED
  BY <1>1, <1>2
     DEF RetClass, X86RetOCaml, X86RetRuntime, AArch64RetOCaml, AArch64RetRuntime, RISCVRetC,
         RISCVRetOCaml, PPCRetC, PPCRetOCaml

LEMMA RetClear ==
  ASSUME NEW c, NEW s, NEW i, NEW ty, Placing(c, s, i, ty),
         Clear(RetTaken(c, s), s.parts, s.stack), NEW t, t = AssignRet(c, s, i, ty), ~t.failed
  PROVE  Clear(RetTaken(c, t), t.parts, t.stack)
<1>1. PICK v, gprs, fprs, class :
        /\ v = RulesOf(c.target, c.conv) /\ gprs = RetGPRs(c.target, v) /\ fprs = RetFPRs(c.target, v)
        /\ class = RetClass(c.target, v, ty)
  OBVIOUS
<1>2. c.target \in Targets /\ s \in Assignments /\ i \in Nat
  BY DEF Placing
<1>3. Listed(gprs, GeneralNames) /\ Listed(fprs, FloatNames) /\ Len(gprs) \in Nat /\ Len(fprs) \in Nat
  <2>1. Listed(gprs, GeneralNames) /\ Listed(fprs, FloatNames)
    BY <1>1, <1>2, RetLists
  <2>2. QED
    BY <2>1 DEF Listed
<1>4. Returns(c, s, i, ty, v, gprs, fprs, class, t)
  BY <1>1, <1>2, ReturnCases
<1>a. s.gpr \in Nat /\ Used(c, s) \in Nat /\ s.stack \in Nat
  BY <1>2 DEF Assignments, Used
<1>b. PICK g \in Nat : g = s.gpr
  BY <1>a
<1>c. PICK f \in Nat : f = Used(c, s)
  BY <1>a
<1>d. PICK end \in Nat : end = s.stack
  BY <1>a
<1>e. PICK x : x = X87Taken(c, s)
  OBVIOUS
<1>5. /\ g = s.gpr /\ f = Used(c, s) /\ x = X87Taken(c, s) /\ end = s.stack
      /\ g + 1 \in Nat /\ f + 1 \in Nat
  BY <1>b, <1>c, <1>d, <1>e
<1>6. Clear(Taken(gprs, fprs, g, f, x), s.parts, end) /\ end <= end
  BY <1>1, <1>5 DEF RetTaken
<1>7. /\ \A k \in 1 .. Len(gprs) : gprs[k] \notin x
      /\ \A k \in 1 .. Len(fprs) : fprs[k] \notin x
  <2>1. CASE c.target = "X86_64"
    <3>1. x \subseteq {<<"FP", 0>>}
      BY <1>5 DEF X87Taken
    <3>2. QED
      BY <1>1, <2>1, <3>1, X87Apart
  <2>2. CASE c.target # "X86_64"
    BY <1>5, <2>2 DEF X87Taken
  <2>3. QED
    BY <2>1, <2>2
\* What is left to show in each case.
<1>8. ASSUME NEW h \in Nat, NEW k \in Nat, NEW parts, NEW m, NEW n, g <= h, f <= k,
             Takes(s, t, h, n, s.x87, parts), Used(c, t) \in Nat, k <= Used(c, t),
             m \in Nat, m <= h, Clear(Taken(gprs, fprs, m, k, x), parts, end)
      PROVE  Clear(RetTaken(c, t), t.parts, t.stack)
  <2>1. t.gpr = h /\ t.stack = end /\ t.parts = parts /\ X87Taken(c, t) = x
    BY <1>5, <1>8 DEF Takes, X87Taken
  <2>2. PICK u \in Nat : u = Used(c, t) /\ k <= u
    BY <1>8
  <2>3. Taken(gprs, fprs, m, k, x) \subseteq Taken(gprs, fprs, h, u, x)
    BY <1>3, <1>8, <2>2, TakenWider
  <2>4. Clear(Taken(gprs, fprs, h, u, x), parts, end)
    BY <1>6, <1>8, <2>3, ClearWider
  <2>5. QED
    BY <1>1, <2>1, <2>2, <2>4 DEF RetTaken
<1>9. CASE class = "I" /\ s.gpr < Len(gprs)
  <2>1. PICK h, parts : h \in Nat /\ h = g + 1 /\ g <= h /\ parts = Append(s.parts, InReg(i, gprs[g + 1]))
    <3>1. g <= g + 1
      OBVIOUS
    <3>2. QED
      BY <1>5, <3>1
  <2>2. Takes(s, t, h, s.fpr, s.x87, parts)
    BY <1>4, <1>5, <1>9, <2>1 DEF Returns
  <2>3. Clear(Taken(gprs, fprs, h, f, x), parts, end)
    <3>1. g < Len(gprs) /\ gprs[g + 1] \notin x
      BY <1>3, <1>5, <1>7, <1>9
    <3>2. QED
      BY <1>2, <1>3, <1>6, <2>1, <3>1, ClearGPR
  <2>4. Used(c, t) \in Nat /\ f <= Used(c, t)
    <3>1. t.gpr = h /\ t.fpr = s.fpr /\ f \in {s.gpr, s.fpr}
      BY <1>5, <2>2 DEF Takes, Used
    <3>2. Used(c, t) = IF c.target = "X86_32" THEN h ELSE f
      BY <1>5, <3>1 DEF Used
    <3>3. c.target = "X86_32" => f = g
      BY <1>5 DEF Used
    <3>4. QED
      BY <2>1, <3>2, <3>3
  <2>5. f <= f /\ h <= h
    BY <2>1
  <2>6. QED
    BY <1>8, <2>1, <2>2, <2>3, <2>4, <2>5
<1>10. CASE class = "II" /\ s.gpr + 1 < Len(gprs)
  <2>1. PICK h, e, p, q, b, parts :
          /\ h \in Nat /\ e \in Nat
          /\ e = g + 1 /\ h = g + 2 /\ h = e + 1 /\ g <= h /\ p = InReg(i, gprs[g + 1]) /\ q = InReg(i, gprs[e + 1])
          /\ b = Append(s.parts, p) /\ parts = Append(b, q)
    <3>1. g <= g + 2 /\ g + 2 = (g + 1) + 1 /\ g + 2 \in Nat
      OBVIOUS
    <3>2. QED
      BY <1>5, <3>1
  <2>2. Takes(s, t, h, s.fpr, s.x87, parts)
    <3>1. gprs[e + 1] = gprs[s.gpr + 2]
      BY <1>5, <2>1
    <3>2. QED
      BY <1>4, <1>5, <1>10, <2>1, <3>1 DEF Returns
  <2>a. /\ g < Len(gprs) /\ gprs[g + 1] \notin x
        /\ e < Len(gprs) /\ gprs[e + 1] \notin x
    <3>1. g < Len(gprs) /\ e < Len(gprs)
      BY <1>3, <1>5, <1>10, <2>1
    <3>2. g + 1 \in 1 .. Len(gprs) /\ e + 1 \in 1 .. Len(gprs)
      BY <1>3, <2>1, <3>1
    <3>3. QED
      BY <1>7, <3>1, <3>2
  <2>b. Clear(Taken(gprs, fprs, e, f, x), b, end)
    BY <1>2, <1>3, <1>6, <2>1, <2>a, ClearGPR
  <2>3. Clear(Taken(gprs, fprs, h, f, x), parts, end)
    BY <1>2, <1>3, <1>6, <2>1, <2>a, <2>b, ClearGPR
  <2>4. Used(c, t) \in Nat /\ f <= Used(c, t)
    <3>1. t.gpr = h /\ t.fpr = s.fpr /\ f \in {s.gpr, s.fpr}
      BY <1>5, <2>2 DEF Takes, Used
    <3>2. Used(c, t) = IF c.target = "X86_32" THEN h ELSE f
      BY <1>5, <3>1 DEF Used
    <3>3. c.target = "X86_32" => f = g
      BY <1>5 DEF Used
    <3>4. QED
      BY <2>1, <3>2, <3>3
  <2>5. f <= f /\ h <= h
    BY <2>1
  <2>6. QED
    BY <1>8, <2>1, <2>2, <2>3, <2>4, <2>5
<1>11. CASE class = "F" /\ Used(c, s) < Len(fprs)
  <2>1. PICK k, parts : k \in Nat /\ k = f + 1 /\ f <= k /\ parts = Append(s.parts, InReg(i, fprs[f + 1]))
    <3>1. f <= f + 1
      OBVIOUS
    <3>2. QED
      BY <1>5, <3>1
  <2>2. PICK h, n : /\ h \in Nat
                    /\ h = (IF c.target = "X86_32" THEN s.gpr + 1 ELSE s.gpr)
                    /\ n = (IF c.target = "X86_32" THEN s.fpr ELSE s.fpr + 1)
    BY <1>5
  <2>3. Counted(c, v, ty) = 1
    BY <1>1 DEF Counted, Placing, Confused
  <2>4. Takes(s, t, h, n, s.x87, parts)
    BY <1>4, <1>5, <1>11, <2>1, <2>2, <2>3 DEF Returns
  <2>5. Clear(Taken(gprs, fprs, g, k, x), parts, end)
    <3>1. f < Len(fprs) /\ fprs[f + 1] \notin x
      BY <1>3, <1>5, <1>7, <1>11
    <3>2. QED
      BY <1>2, <1>3, <1>6, <2>1, <3>1, ClearFPR
  <2>6. Used(c, t) = k
    BY <1>5, <2>1, <2>2, <2>4 DEF Takes, Used
  <2>7. g <= h /\ k <= k /\ k <= Used(c, t) /\ Used(c, t) \in Nat
    BY <1>5, <2>1, <2>2, <2>6
  <2>8. QED
    BY <1>8, <2>1, <2>2, <2>4, <2>5, <2>7
<1>12. CASE class = "8" /\ s.x87 = 0
  <2>1. c.target = "X86_64" /\ x = {}
    BY <1>1, <1>5, <1>12, OnlyX87 DEF X87Taken
  <2>2. PICK r, p, parts : r = <<"FP", 0>> /\ p = InReg(i, r) /\ parts = Append(s.parts, p)
    OBVIOUS
  <2>3. r \in Registers /\ r # NoReg
    BY <2>2 DEF Registers, FloatNames, NoReg
  <2>4. p \in Parts /\ p.reg = r
    BY <1>2, <2>2, <2>3, RegIsPart, RegField
  <2>5. Takes(s, t, s.gpr, s.fpr, 1, parts)
    BY <1>4, <1>12, <2>2 DEF Returns
  <2>6. t.gpr = g /\ Used(c, t) = f /\ X87Taken(c, t) = {r} /\ t.stack = end /\ t.parts = parts
    BY <1>5, <2>1, <2>2, <2>5 DEF Takes, Used, X87Taken
  <2>7. PICK T, U : T = Taken(gprs, fprs, g, f, x) /\ U = Taken(gprs, fprs, g, f, {r})
    OBVIOUS
  <2>8. T \subseteq U /\ r \in U
    BY <2>1, <2>7 DEF Taken
  <2>9. r \notin T
    <3>1. /\ \A k \in 1 .. Len(gprs) : gprs[k] # r
          /\ \A k \in 1 .. Len(fprs) : fprs[k] # r
      BY <1>1, <2>1, <2>2, X87Apart
    <3>2. QED
      BY <2>1, <2>7, <3>1 DEF Taken
  <2>10. Clear(U, parts, end)
    BY <1>6, <2>2, <2>3, <2>4, <2>7, <2>8, <2>9, ClearAppend
  <2>11. QED
    BY <1>1, <2>6, <2>7, <2>10 DEF RetTaken
<1>13. CASE ~ \/ class = "I" /\ s.gpr < Len(gprs)
              \/ class = "II" /\ s.gpr + 1 < Len(gprs)
              \/ class = "F" /\ Used(c, s) < Len(fprs)
              \/ class = "8" /\ s.x87 = 0
  BY <1>4, <1>13 DEF Returns
<1>14. QED
  BY <1>9, <1>10, <1>11, <1>12, <1>13

\* An assignment with the values of its kind apart.
Held(kind, c, s) ==
  /\ kind = "none" => s.parts = <<>>
  /\ kind = "args" => Clear(ArgTaken(c, s), s.parts, s.stack)
  /\ kind = "rets" => Clear(RetTaken(c, s), s.parts, s.stack)

ClashInv ==
  /\ sig.kind \in {"none", "args", "rets"}
  /\ ~call.failed => Held(sig.kind, site, call)
  /\ ~func.failed => Held(sig.kind, site, func)

LEMMA HeldStart ==
  ASSUME NEW kind, NEW c, NEW s \in Assignments, Held(kind, c, s)
  PROVE  /\ kind \in {"none", "args"} => Clear(ArgTaken(c, s), s.parts, s.stack)
         /\ kind \in {"none", "rets"} => Clear(RetTaken(c, s), s.parts, s.stack)
<1>1. PICK end \in Nat : end = s.stack
  BY DEF Assignments
<1>2. PICK T, U : T = ArgTaken(c, s) /\ U = RetTaken(c, s)
  OBVIOUS
<1>3. Clear(T, <<>>, end) /\ Clear(U, <<>>, end)
  BY ClearEmpty
<1>4. QED
  BY <1>1, <1>2, <1>3 DEF Held

LEMMA ClashArg ==
  ASSUME TypeInv, AgreeInv, ClashInv, PassArg, \A ty \in site.types : ~Confused(site, ty)
  PROVE  ClashInv'
<1>1. PICK ty \in site.types :
        /\ Extends("args", ty)
        /\ call' = AssignArg(site, call, Len(sig.types) + 1, ty)
        /\ func' = IF Len(sig.types) < site.fixed \/ ~site.vararg
                     THEN AssignArg([Callee EXCEPT !.fixed = site.max], func, Len(sig.types) + 1, ty)
                     ELSE func
        /\ site' = site
  BY DEF PassArg
<1>2. /\ site.target \in Targets /\ site.fixed \in Nat /\ site.vararg \in BOOLEAN /\ site \in Sites
      /\ ty \in Types /\ site.max \in Nat
  <2>1. site \in Sites
    BY DEF TypeInv
  <2>2. QED
    BY <2>1, SiteFacts
<1>3. /\ ~call.failed /\ sig.kind \in {"none", "args"} /\ sig'.kind = "args"
      /\ Len(sig.types) \in Nat
  <2>1. sig.types \in Seq(Types)
    BY DEF TypeInv
  <2>2. QED
    BY <1>1, <2>1 DEF Extends
<1>4. PICK i \in Nat : i = Len(sig.types) + 1
  BY <1>3
<1>5. call \in Assignments /\ func \in Assignments
  BY DEF TypeInv
<1>6. ~call'.failed => Clear(ArgTaken(site, call'), call'.parts, call'.stack)
  <2>1. PICK a : a = AssignArg(site, call, i, ty)
    OBVIOUS
  <2>2. Placing(site, call, i, ty)
    BY <1>2, <1>5 DEF Placing
  <2>3. Clear(ArgTaken(site, call), call.parts, call.stack)
    <3>1. Held(sig.kind, site, call)
      BY <1>3 DEF ClashInv
    <3>2. QED
      BY <1>3, <1>5, <3>1, HeldStart
  <2>4. ~a.failed => Clear(ArgTaken(site, a), a.parts, a.stack)
    BY <2>1, <2>2, <2>3, ArgClear
  <2>5. call' = a
    BY <1>1, <1>4, <2>1
  <2>6. QED
    BY <2>4, <2>5
<1>7. ~func'.failed => Clear(ArgTaken(site, func'), func'.parts, func'.stack)
  <2>1. CASE Len(sig.types) < site.fixed \/ ~site.vararg
    <3>1. PICK d : d = [Callee EXCEPT !.fixed = site.max]
      OBVIOUS
    <3>2. d.target = site.target /\ d.conv = site.conv /\ d.fixed = site.max /\ d.vararg = FALSE
      BY <1>2, <3>1, CalleeFacts DEF Callee
    <3>3. PICK b : b = AssignArg(d, func, i, ty)
      OBVIOUS
    <3>4. func' = b
      BY <1>1, <1>4, <2>1, <3>1, <3>3
    <3>5. Placing(d, func, i, ty)
      BY <1>2, <1>5, <3>2 DEF Placing, Confused
    <3>6. ~func.failed
      <4>1. ~Beyond
        BY <1>2, <1>3, <2>1 DEF Beyond
      <4>2. QED
        BY <1>3, <4>1 DEF AgreeInv, Same
    <3>7. Clear(ArgTaken(site, func), func.parts, func.stack)
      <4>1. Held(sig.kind, site, func)
        BY <3>6 DEF ClashInv
      <4>2. QED
        BY <1>3, <1>5, <4>1, HeldStart
    <3>8. ArgTaken(d, func) = ArgTaken(site, func) /\ ArgTaken(d, b) = ArgTaken(site, b)
      BY <3>2 DEF ArgTaken
    <3>9. ~b.failed => Clear(ArgTaken(d, b), b.parts, b.stack)
      <4>1. Clear(ArgTaken(d, func), func.parts, func.stack)
        BY <3>7, <3>8
      <4>2. QED
        BY <3>3, <3>5, <4>1, ArgClear
    <3>10. QED
      BY <3>4, <3>8, <3>9
  <2>2. CASE ~(Len(sig.types) < site.fixed \/ ~site.vararg)
    <3>1. func' = func
      BY <1>1, <2>2
    <3>2. ~func.failed => Held(sig.kind, site, func)
      BY DEF ClashInv
    <3>3. ~func.failed => Clear(ArgTaken(site, func), func.parts, func.stack)
      BY <1>3, <1>5, <3>2, HeldStart
    <3>4. QED
      BY <3>1, <3>3
  <2>3. QED
    BY <2>1, <2>2
<1>8. QED
  BY <1>1, <1>3, <1>6, <1>7 DEF ClashInv, Held

LEMMA ClashRet ==
  ASSUME TypeInv, AgreeInv, ClashInv, PassRet, \A ty \in site.types : ~Confused(site, ty)
  PROVE  ClashInv'
<1>1. PICK ty \in site.types :
        /\ Extends("rets", ty)
        /\ call' = AssignRet(site, call, Len(sig.types) + 1, ty)
        /\ func' = AssignRet(Callee, func, Len(sig.types) + 1, ty)
        /\ site' = site
  BY DEF PassRet
<1>2. /\ site.target \in Targets /\ site.fixed \in Nat /\ site.vararg \in BOOLEAN /\ site \in Sites
      /\ ty \in Types
  <2>1. site \in Sites
    BY DEF TypeInv
  <2>2. QED
    BY <2>1, SiteFacts
<1>3. /\ ~call.failed /\ sig.kind \in {"none", "rets"} /\ sig'.kind = "rets"
      /\ Len(sig.types) \in Nat
  <2>1. sig.types \in Seq(Types)
    BY DEF TypeInv
  <2>2. QED
    BY <1>1, <2>1 DEF Extends
<1>4. PICK i \in Nat : i = Len(sig.types) + 1
  BY <1>3
<1>5. call \in Assignments /\ func \in Assignments /\ ~func.failed
  BY <1>3 DEF TypeInv, AgreeInv, Beyond, Same
<1>6. /\ Clear(RetTaken(site, call), call.parts, call.stack)
      /\ Clear(RetTaken(site, func), func.parts, func.stack)
  <2>1. Held(sig.kind, site, call) /\ Held(sig.kind, site, func)
    BY <1>3, <1>5 DEF ClashInv
  <2>2. QED
    BY <1>3, <1>5, <2>1, HeldStart
<1>7. PICK d, a, b : d = Callee /\ a = AssignRet(site, call, i, ty) /\ b = AssignRet(d, func, i, ty)
  OBVIOUS
<1>8. d.target = site.target /\ d.conv = site.conv /\ d.fixed = site.fixed /\ d.vararg = FALSE
  BY <1>2, <1>7, CalleeFacts DEF Callee
<1>9. call' = a /\ func' = b
  BY <1>1, <1>4, <1>7
<1>10. Placing(site, call, i, ty) /\ Placing(d, func, i, ty)
  BY <1>2, <1>5, <1>8 DEF Placing, Confused
<1>11. RetTaken(d, func) = RetTaken(site, func) /\ RetTaken(d, b) = RetTaken(site, b)
  BY <1>8 DEF RetTaken, Used, X87Taken
<1>12. ~a.failed => Clear(RetTaken(site, a), a.parts, a.stack)
  BY <1>6, <1>7, <1>10, RetClear
<1>13. ~b.failed => Clear(RetTaken(d, b), b.parts, b.stack)
  <2>1. Clear(RetTaken(d, func), func.parts, func.stack)
    BY <1>6, <1>11
  <2>2. QED
    BY <1>7, <1>10, <2>1, RetClear
<1>14. QED
  BY <1>1, <1>3, <1>9, <1>11, <1>12, <1>13 DEF ClashInv, Held

\* Unless the call is one of those that the code confuses, no register and no
\* byte of the stack is given to two parts of the arguments or of the results,
\* however many values there are and in whatever order their types come.
THEOREM PlacesApart ==
  ASSUME \A c \in Sites : \A ty \in c.types : ~Confused(c, ty)
  PROVE  Spec => []NoClash
<1>1. Init => ClashInv
  <2> SUFFICES ASSUME Init PROVE ClashInv
    OBVIOUS
  <2>1. call.parts = <<>> /\ func.parts = <<>> /\ sig.kind = "none"
    BY FreshForm DEF Init
  <2>2. QED
    BY <2>1 DEF ClashInv, Held
<1>2. ASSUME TypeInv, AgreeInv, ClashInv, [Next]_vars PROVE ClashInv'
  <2>1. \A ty \in site.types : ~Confused(site, ty)
    BY <1>2 DEF TypeInv
  <2>2. CASE PassArg
    BY <1>2, <2>1, <2>2, ClashArg
  <2>3. CASE PassRet
    BY <1>2, <2>1, <2>3, ClashRet
  <2>4. CASE UNCHANGED vars
    <3>1. site' = site /\ sig' = sig /\ call' = call /\ func' = func
      BY <2>4 DEF vars
    <3>2. QED
      BY <1>2, <3>1 DEF ClashInv
  <2>5. QED
    BY <1>2, <2>2, <2>3, <2>4 DEF Next
<1>3. TypeInv /\ ClashInv => NoClash
  <2> SUFFICES ASSUME TypeInv, ClashInv, NEW s \in {call, func}, ~s.failed,
                      NEW m \in DOMAIN s.parts, NEW n \in DOMAIN s.parts, m # n
               PROVE  ~Overlap(s.parts[m], s.parts[n])
    BY DEF NoClash
  <2>1. s \in Assignments /\ Held(sig.kind, site, s) /\ sig.kind \in {"none", "args", "rets"}
    BY DEF TypeInv, ClashInv
  <2>2. PICK T : Clear(T, s.parts, s.stack)
    BY <2>1, HeldStart
  <2>3. s.parts \in Seq(Parts) /\ Apart(s.parts)
    BY <2>2 DEF Clear
  <2>4. QED
    BY <2>3 DEF Apart
<1>4. QED
  BY <1>1, <1>2, <1>3, AgreeInductive, PTL DEF Spec

-----------------------------------------------------------------------------
(* Variadic arguments                                                      *)

\* The registers of a list from one counter to another.
Between(r, a, b) == {r[k] : k \in {n \in 1 .. Len(r) : a < n /\ n <= b}}

\* How an argument arrives: in registers, or in the next slot of the stack.
InRegisters(target, s, i, gprs, fprs, a) ==
  /\ a \in Assignments /\ a.stack = s.stack /\ a.align = s.align
  /\ s.gpr <= a.gpr /\ s.fpr <= a.fpr /\ Range(s.parts) \subseteq Range(a.parts)
  /\ \A p \in Range(a.parts) \ Range(s.parts) :
       p.arg = i /\ p.reg \in Between(gprs, s.gpr, a.gpr) \cup Between(fprs, s.fpr, a.fpr)
  /\ target = "RISCV" => a.gpr <= s.gpr + 1 /\ a.fpr <= s.fpr + 1

InSlot(target, s, i, size, gprs, fprs, a) ==
  LET off == StackOffset(target, s, 8)
  IN  /\ a \in Assignments /\ a.gpr = s.gpr /\ a.fpr = s.fpr /\ a.align = Max({s.align, 8})
      /\ a.stack = StackEnd(target, off, size) /\ size \in Nat
      /\ Range(a.parts) = Range(s.parts) \cup {Slot(i, off, size)}
      /\ target = "RISCV" => Len(gprs) <= s.gpr \/ Len(fprs) <= s.fpr

Arrives(target, s, i, gprs, fprs, a) ==
  \/ InRegisters(target, s, i, gprs, fprs, a)
  \/ \E size : InSlot(target, s, i, size, gprs, fprs, a)

\* The rules of C on targets other than PowerPC.
LEMMA CRules ==
  ASSUME NEW target \in Targets \ {"PPC"}, NEW t \in Types \ {"BYVAL"}, NEW variadic \in BOOLEAN,
         NEW how, how = ArgRule(target, "C", t, variadic)
  PROVE  /\ how.class \in {"X", "S", "I", "II", "F"} /\ how.size \in Nat
         /\ target = "RISCV" => how.class \in {"X", "I", "F"}
         /\ target = "RISCV" /\ variadic => how.class # "F"
<1>1. how.size \in Nat /\ how.class \in Classes /\ how.class # "FI"
  BY ArgRuleFacts
<1>2. CASE target = "X86_64"
  <2>1. how = X86ArgC(t)
    BY <1>2 DEF ArgRule, Runtime
  <2>2. how.class # "B"
    BY <2>1 DEF X86ArgC, How, Refused
  <2>3. QED
    BY <1>1, <1>2, <2>2 DEF Classes
<1>3. CASE target = "X86_32"
  <2>1. how = X86_32ArgC(t)
    BY <1>3 DEF ArgRule
  <2>2. QED
    BY <1>1, <1>3, <2>1 DEF X86_32ArgC, How
<1>4. CASE target = "AArch64"
  <2>1. how = AArch64ArgC(t)
    BY <1>4 DEF ArgRule, Runtime
  <2>2. how.class # "B"
    BY <2>1 DEF AArch64ArgC, How, Refused
  <2>3. QED
    BY <1>1, <1>4, <2>2 DEF Classes
<1>5. CASE target = "RISCV"
  <2>1. how = RISCVArgC(t, variadic)
    BY <1>5 DEF ArgRule, Runtime
  <2>2. how.class \in {"X", "I", "F"}
    BY <2>1 DEF RISCVArgC, How, Refused
  <2>3. variadic => how.class # "F"
    <3>1. CASE variadic
      <4>1. how = RISCVArgC(t, TRUE)
        BY <2>1, <3>1
      <4>2. RISCVArgC(t, TRUE).class # "F"
        BY DEF RISCVArgC, How, Refused
      <4>3. QED
        BY <4>1, <4>2
    <3>2. QED
      BY <3>1
  <2>4. QED
    BY <1>1, <1>5, <2>2, <2>3
<1>6. QED
  BY <1>2, <1>3, <1>4, <1>5 DEF Targets

LEMMA NextBetween ==
  ASSUME NEW r, NEW names, Listed(r, names), NEW g \in Nat, NEW h \in Nat, g < h, g < Len(r)
  PROVE  r[g + 1] \in Between(r, g, h)
<1>1. Len(r) \in Nat
  BY DEF Listed
<1>2. g + 1 \in {n \in 1 .. Len(r) : g < n /\ n <= h}
  BY <1>1
<1>3. QED
  BY <1>2 DEF Between

LEMMA BetweenGrows ==
  ASSUME NEW r, Len(r) \in Nat, NEW g, g \in Nat, NEW h, h \in Nat, NEW k, k \in Nat, k <= g
  PROVE  Between(r, g, h) \subseteq Between(r, k, Len(r))
<1>1. ASSUME NEW n \in 1 .. Len(r), g < n
      PROVE  k < n /\ n <= Len(r)
  BY <1>1
<1>2. QED
  BY <1>1 DEF Between

LEMMA PartsAppend ==
  ASSUME NEW s \in Assignments, NEW p \in Parts
  PROVE  Range(Append(s.parts, p)) = Range(s.parts) \cup {p}
<1>1. s.parts \in Seq(Parts)
  BY DEF Assignments
<1>2. QED
  BY <1>1, RangeAppend

LEMMA StackArrives ==
  ASSUME NEW target, NEW s \in Assignments, NEW i \in Nat, NEW size \in Nat, NEW gprs, NEW fprs,
         target = "RISCV" => Len(gprs) <= s.gpr \/ Len(fprs) <= s.fpr,
         NEW a, a = OnStack(target, s, i, size, 8)
  PROVE  InSlot(target, s, i, size, gprs, fprs, a)
<1>1. PICK align \in Nat \ {0} : align = 8
  OBVIOUS
<1>2. PICK off : off = StackOffset(target, s, align)
  OBVIOUS
<1>3. /\ off \in Nat
      /\ Lands(s, a, StackEnd(target, off, size), Max({s.align, align}), Append(s.parts, Slot(i, off, size)))
  BY <1>1, <1>2, OnStackForm
<1>4. PICK p : p = Slot(i, off, size) /\ p \in Parts
  BY <1>3, SlotIsPart
<1>5. s.parts \in Seq(Parts)
  BY DEF Assignments
<1>6. Range(Append(s.parts, p)) = Range(s.parts) \cup {p}
  BY <1>4, <1>5, RangeAppend
<1>7. /\ a \in Assignments /\ a.gpr = s.gpr /\ a.fpr = s.fpr /\ a.align = Max({s.align, 8})
      /\ a.stack = StackEnd(target, off, size) /\ a.parts = Append(s.parts, p)
  BY <1>1, <1>3, <1>4 DEF Lands
<1>8. QED
  BY <1>1, <1>2, <1>4, <1>6, <1>7 DEF InSlot

LEMMA ArgArrives ==
  ASSUME NEW c, NEW s \in Assignments, NEW i \in Nat, NEW ty \in Types \ {"BYVAL"}, NEW gprs, NEW fprs,
         c.target \in Targets \ {"PPC"}, RulesOf(c.target, c.conv) = "C",
         gprs = ArgGPRs(c.target, "C"), fprs = ArgFPRs(c.target, "C"),
         NEW a, a = AssignArg(c, s, i, ty), ~a.failed
  PROVE  /\ Arrives(c.target, s, i, gprs, fprs, a)
         /\ c.target = "RISCV" /\ i > c.fixed => a.fpr = s.fpr
<1>1. PICK variadic \in BOOLEAN : variadic = (i > c.fixed)
  <2>1. (i > c.fixed) \in BOOLEAN
    OBVIOUS
  <2>2. QED
    BY <2>1, Zenon
<1>2. PICK how : how = ArgRule(c.target, "C", ty, variadic)
  OBVIOUS
<1>3. /\ how.class \in {"X", "S", "I", "II", "F"} /\ how.size \in Nat
      /\ c.target = "RISCV" => how.class \in {"X", "I", "F"}
      /\ c.target = "RISCV" /\ variadic => how.class # "F"
  BY <1>2, CRules
<1>4. a = Assign(c, s, i, ty, how)
  BY <1>1, <1>2 DEF AssignArg
<1>5. PICK v : v = "C"
  OBVIOUS
<1>6. Assigns(c, s, i, ty, how, v, gprs, fprs, a)
  BY <1>4, <1>5, AssignCases
<1>7. Listed(gprs, GeneralNames) /\ Listed(fprs, FloatNames)
  BY ArgLists
<1>8. /\ s.gpr \in Nat /\ s.fpr \in Nat /\ s.gpr + 1 \in Nat /\ s.fpr + 1 \in Nat /\ Len(gprs) \in Nat
      /\ Len(fprs) \in Nat
  BY <1>7 DEF Assignments, Listed
<1>9. CASE how.class = "X" \/ (how.class = "II" /\ ~(s.gpr + 1 < Len(gprs)))
  <2>1. a = Failed(s)
    BY <1>6, <1>9 DEF Assigns
  <2>2. QED
    BY <2>1, FailedForm
<1>10. CASE how.class = "S"
  <2>1. c.target # "RISCV" /\ a = OnStack(c.target, s, i, how.size, 8)
    BY <1>3, <1>6, <1>10 DEF Assigns
  <2>2. PICK size \in Nat : size = how.size
    BY <1>3
  <2>3. InSlot(c.target, s, i, size, gprs, fprs, a)
    BY <2>1, <2>2, StackArrives
  <2>4. QED
    BY <2>1, <2>3 DEF Arrives
<1>11. CASE how.class = "I" /\ s.gpr < Len(gprs)
  <2>1. PICK r, p : r = gprs[s.gpr + 1] /\ p = InReg(i, r) /\ p \in Parts
    BY <1>7, <1>8, <1>11, ListedRegister, RegIsPart
  <2>2. Takes(s, a, s.gpr + 1, s.fpr, s.x87, Append(s.parts, p))
    <3>1. a = [s EXCEPT !.gpr = @ + 1, !.parts = Append(@, p)]
      BY <1>6, <1>11, <2>1 DEF Assigns
    <3>2. QED
      BY <2>1, <3>1, TakesGPR
  <2>3. Range(a.parts) = Range(s.parts) \cup {p} /\ p.arg = i /\ p.reg = r
    <3>1. Range(Append(s.parts, p)) = Range(s.parts) \cup {p}
      BY <2>1, PartsAppend
    <3>2. a.parts = Append(s.parts, p)
      BY <2>2 DEF Takes
    <3>3. p.arg = i /\ p.reg = r
      BY <2>1 DEF InReg
    <3>4. QED
      BY <3>1, <3>2, <3>3
  <2>4. r \in Between(gprs, s.gpr, a.gpr)
    <3>1. PICK g \in Nat, h \in Nat : g = s.gpr /\ h = s.gpr + 1 /\ g < h
      <4>1. s.gpr < s.gpr + 1
        BY <1>8
      <4>2. QED
        BY <1>8, <4>1
    <3>2. gprs[g + 1] \in Between(gprs, g, h)
      BY <1>7, <1>11, <3>1, NextBetween
    <3>3. QED
      BY <2>1, <2>2, <3>1, <3>2 DEF Takes
  <2>5. /\ a \in Assignments /\ a.stack = s.stack /\ a.align = s.align /\ s.gpr <= a.gpr /\ s.fpr <= a.fpr
        /\ a.gpr <= s.gpr + 1 /\ a.fpr <= s.fpr + 1 /\ a.fpr = s.fpr
    BY <1>8, <2>2 DEF Takes
  <2>6. InRegisters(c.target, s, i, gprs, fprs, a)
    BY <2>3, <2>4, <2>5 DEF InRegisters
  <2>7. QED
    BY <2>5, <2>6 DEF Arrives
<1>12. CASE how.class = "II" /\ s.gpr + 1 < Len(gprs)
  <2>1. PICK g \in Nat, e \in Nat, h \in Nat :
          g = s.gpr /\ e = s.gpr + 1 /\ h = s.gpr + 2 /\ g < e /\ e < h /\ h = e + 1 /\ g < Len(gprs) /\ e < Len(gprs)
    <3>1. /\ s.gpr + 2 \in Nat /\ s.gpr < s.gpr + 1 /\ s.gpr + 1 < s.gpr + 2 /\ s.gpr < Len(gprs)
          /\ s.gpr + 2 = (s.gpr + 1) + 1
      BY <1>8, <1>12
    <3>2. QED
      BY <1>8, <1>12, <3>1
  <2>2. PICK q, r : q = gprs[g + 1] /\ r = gprs[e + 1]
    OBVIOUS
  <2>3. PICK p \in Parts, o \in Parts : p = InReg(i, q) /\ o = InReg(i, r)
    BY <1>7, <2>1, <2>2, ListedRegister, RegIsPart
  <2>4. Takes(s, a, h, s.fpr, s.x87, Append(Append(s.parts, p), o))
    <3>1. q = gprs[s.gpr + 1] /\ r = gprs[s.gpr + 2]
      BY <2>1, <2>2
    <3>2. a = [s EXCEPT !.gpr = @ + 2, !.parts = @ \o <<p, o>>]
      BY <1>6, <1>12, <2>3, <3>1 DEF Assigns
    <3>3. Takes(s, a, s.gpr + 2, s.fpr, s.x87, Append(Append(s.parts, p), o))
      BY <3>2, TakesTwo
    <3>4. QED
      BY <2>1, <3>3
  <2>5. Range(a.parts) = Range(s.parts) \cup {p, o}
    <3>1. s.parts \in Seq(Parts)
      BY DEF Assignments
    <3>a. Append(s.parts, p) \in Seq(Parts)
      BY <3>1
    <3>2. PICK b : b = Append(s.parts, p) /\ b \in Seq(Parts)
      BY <3>a
    <3>3. Range(b) = Range(s.parts) \cup {p}
      BY <3>2, PartsAppend
    <3>4. Range(Append(b, o)) = Range(b) \cup {o}
      <4> HIDE <3>2
      <4>1. b \in Seq(Parts)
        BY <3>2
      <4>2. QED
        BY <4>1, RangeAppend
    <3>5. QED
      BY <2>4, <3>2, <3>3, <3>4 DEF Takes
  <2>6. p.arg = i /\ p.reg = q /\ o.arg = i /\ o.reg = r
    BY <2>3 DEF InReg
  <2>7. q \in Between(gprs, g, h) /\ r \in Between(gprs, g, h)
    <3>1. g < h
      BY <2>1
    <3>2. q \in Between(gprs, g, h)
      BY <1>7, <2>1, <2>2, <3>1, NextBetween
    <3>3. r \in Between(gprs, e, h)
      BY <1>7, <2>1, <2>2, NextBetween
    <3>4. Between(gprs, e, h) \subseteq Between(gprs, g, h)
      BY <1>8, <2>1 DEF Between
    <3>5. QED
      BY <3>2, <3>3, <3>4
  <2>8. /\ a \in Assignments /\ a.stack = s.stack /\ a.align = s.align /\ a.gpr = h
        /\ a.fpr = s.fpr /\ s.gpr <= a.gpr /\ s.fpr <= a.fpr /\ c.target # "RISCV"
    <3>1. /\ a \in Assignments /\ a.stack = s.stack /\ a.align = s.align /\ a.gpr = h
          /\ a.fpr = s.fpr
      BY <2>4 DEF Takes
    <3>2. s.gpr <= h /\ s.fpr <= s.fpr
      <4>1. g <= h
        BY <2>1
      <4>2. s.fpr <= s.fpr
        BY <1>8
      <4>3. QED
        BY <2>1, <4>1, <4>2
    <3>3. c.target # "RISCV"
      BY <1>3, <1>12
    <3>4. QED
      BY <3>1, <3>2, <3>3
  <2>9. InRegisters(c.target, s, i, gprs, fprs, a)
    BY <2>1, <2>5, <2>6, <2>7, <2>8 DEF InRegisters
  <2>10. QED
    BY <2>8, <2>9 DEF Arrives
<1>13. CASE how.class = "F" /\ s.fpr < Len(fprs)
  <2>1. PICK r, p : r = fprs[s.fpr + 1] /\ p = InReg(i, r) /\ p \in Parts
    BY <1>7, <1>8, <1>13, ListedRegister, RegIsPart
  <2>2. Takes(s, a, s.gpr, s.fpr + 1, s.x87, Append(s.parts, p))
    <3>1. a = [s EXCEPT !.fpr = @ + 1, !.parts = Append(@, p)]
      BY <1>6, <1>13, <2>1 DEF Assigns
    <3>2. QED
      BY <2>1, <3>1, TakesFPR
  <2>3. Range(a.parts) = Range(s.parts) \cup {p} /\ p.arg = i /\ p.reg = r
    <3>1. Range(Append(s.parts, p)) = Range(s.parts) \cup {p}
      BY <2>1, PartsAppend
    <3>2. a.parts = Append(s.parts, p)
      BY <2>2 DEF Takes
    <3>3. p.arg = i /\ p.reg = r
      BY <2>1 DEF InReg
    <3>4. QED
      BY <3>1, <3>2, <3>3
  <2>4. r \in Between(fprs, s.fpr, a.fpr)
    <3>1. PICK g \in Nat, h \in Nat : g = s.fpr /\ h = s.fpr + 1 /\ g < h
      <4>1. s.fpr < s.fpr + 1
        BY <1>8
      <4>2. QED
        BY <1>8, <4>1
    <3>2. fprs[g + 1] \in Between(fprs, g, h)
      BY <1>7, <1>13, <3>1, NextBetween
    <3>3. QED
      BY <2>1, <2>2, <3>1, <3>2 DEF Takes
  <2>5. /\ a \in Assignments /\ a.stack = s.stack /\ a.align = s.align /\ s.gpr <= a.gpr /\ s.fpr <= a.fpr
        /\ a.gpr <= s.gpr + 1 /\ a.fpr <= s.fpr + 1
    BY <1>8, <2>2 DEF Takes
  <2>6. InRegisters(c.target, s, i, gprs, fprs, a)
    BY <2>3, <2>4, <2>5 DEF InRegisters
  <2>7. ~(c.target = "RISCV" /\ i > c.fixed)
    BY <1>1, <1>3, <1>13
  <2>8. QED
    BY <2>6, <2>7 DEF Arrives
<1>14. CASE \/ how.class = "I" /\ ~(s.gpr < Len(gprs))
            \/ how.class = "F" /\ ~(s.fpr < Len(fprs))
  <2>1. a = StackOr(c.target, s, i, how.size)
    BY <1>6, <1>14 DEF Assigns
  <2>2. CASE how.size = 0
    BY <2>1, <2>2, FailedForm DEF StackOr
  <2>3. CASE how.size # 0
    <3>1. a = OnStack(c.target, s, i, how.size, 8)
      BY <2>1, <2>3 DEF StackOr
    <3>2. PICK size \in Nat : size = how.size
      BY <1>3
    <3>3. Len(gprs) <= s.gpr \/ Len(fprs) <= s.fpr
      BY <1>8, <1>14
    <3>4. InSlot(c.target, s, i, size, gprs, fprs, a)
      BY <3>1, <3>2, <3>3, StackArrives
    <3>5. a.fpr = s.fpr
      BY <3>4 DEF InSlot
    <3>6. QED
      BY <3>4, <3>5 DEF Arrives
  <2>4. QED
    BY <2>2, <2>3
<1>15. QED
  BY <1>3, <1>9, <1>10, <1>11, <1>12, <1>13, <1>14

\* The calls whose variadic arguments va_arg looks for in the right place: not on
\* PowerPC, without structures passed by value, and on RISC-V with all the fixed
\* arguments in registers.
Findable(c) ==
  /\ c.target # "PPC" /\ RulesOf(c.target, c.conv) = "C" /\ "BYVAL" \notin c.types
  /\ c.target = "RISCV" => c.fixed <= 8

\* What the function has used up by n parameters.
Ready(c, n, s) ==
  /\ s.align = 8
  /\ c.target = "AArch64" => AlignTo(s.stack, 8) = s.stack
  /\ c.target = "RISCV" => s.stack = 0 /\ s.gpr <= n /\ s.fpr <= n

LEMMA EightRegisters == Len(ArgGPRs("RISCV", "C")) = 8 /\ Len(ArgFPRs("RISCV", "C")) = 8
<1>1. PICK more : RISCVFPRs = [C |-> Numbered("F", 10, 17), CAML |-> more]
  BY DEF RISCVFPRs
<1>2. PICK x, y, z : RISCVArgGPRs = [C |-> Numbered("X", 10, 17), CAML |-> x, CAML_ALLOC |-> y, CAML_GC |-> z]
  BY DEF RISCVArgGPRs
<1>3. ArgGPRs("RISCV", "C") = Numbered("X", 10, 17) /\ ArgFPRs("RISCV", "C") = Numbered("F", 10, 17)
  BY <1>1, <1>2 DEF ArgGPRs, ArgFPRs, RegsIn
<1>4. 10 \in Nat /\ 17 \in Nat /\ 10 <= 17 /\ "X" \in GeneralNames /\ "F" \in FloatNames
  BY DEF GeneralNames, FloatNames
<1>5. Len(Numbered("X", 10, 17)) = 17 - 10 + 1 /\ Len(Numbered("F", 10, 17)) = 17 - 10 + 1
  BY <1>4, NumberedListed
<1>6. QED
  BY <1>3, <1>5

LEMMA AlignTwice ==
  ASSUME NEW n \in Nat
  PROVE  AlignTo(AlignTo(n, 8), 8) = AlignTo(n, 8)
BY DEF AlignTo

LEMMA AlignGrows ==
  ASSUME NEW m \in Nat, NEW n \in Nat, m <= n
  PROVE  AlignTo(m, 8) <= AlignTo(n, 8)
BY DEF AlignTo

LEMMA OffsetNat ==
  ASSUME NEW target, NEW s \in Assignments
  PROVE  StackOffset(target, s, 8) \in Nat /\ s.stack <= StackOffset(target, s, 8)
<1>1. s.stack \in Nat /\ 8 \in Nat \ {0}
  BY DEF Assignments
<1>2. AlignTo(s.stack, 8) \in Nat /\ AlignTo(s.stack, 8) >= s.stack
  BY <1>1, AlignUp
<1>3. QED
  BY <1>1, <1>2 DEF StackOffset

LEMMA ReadyStep ==
  ASSUME NEW c, NEW n \in Nat, NEW s \in Assignments, NEW i, NEW gprs, NEW fprs, NEW a,
         gprs = ArgGPRs(c.target, "C"), fprs = ArgFPRs(c.target, "C"),
         c.target = "RISCV" => n < 8, Ready(c, n, s), Arrives(c.target, s, i, gprs, fprs, a)
  PROVE  Ready(c, n + 1, a)
<1>1. /\ s.gpr \in Nat /\ s.fpr \in Nat /\ s.stack \in Nat
  BY DEF Assignments
<1>2. CASE InRegisters(c.target, s, i, gprs, fprs, a)
  <2>1. a \in Assignments /\ a.stack = s.stack /\ a.align = s.align
    BY <1>2 DEF InRegisters
  <2>2. c.target = "RISCV" => a.gpr <= n + 1 /\ a.fpr <= n + 1
    <3>1. c.target = "RISCV" => /\ a.gpr <= s.gpr + 1 /\ a.fpr <= s.fpr + 1
                                /\ s.gpr <= n /\ s.fpr <= n
      BY <1>2 DEF InRegisters, Ready
    <3>2. a.gpr \in Nat /\ a.fpr \in Nat
      BY <2>1 DEF Assignments
    <3>3. QED
      BY <1>1, <3>1, <3>2
  <2>3. QED
    BY <2>1, <2>2 DEF Ready
<1>3. CASE \E size : InSlot(c.target, s, i, size, gprs, fprs, a)
  <2>1. PICK size : InSlot(c.target, s, i, size, gprs, fprs, a)
    BY <1>3
  <2>2. PICK off : off = StackOffset(c.target, s, 8) /\ off \in Nat
    BY OffsetNat
  <2>3. /\ a \in Assignments /\ a.align = Max({s.align, 8}) /\ a.stack = StackEnd(c.target, off, size)
        /\ size \in Nat
    BY <2>1, <2>2 DEF InSlot
  <2>4. a.align = 8
    <3>1. Max({8, 8}) = 8
      BY DEF Max
    <3>2. QED
      BY <2>3, <3>1 DEF Ready
  <2>5. c.target = "AArch64" => AlignTo(a.stack, 8) = a.stack
    <3>1. PICK m \in Nat : m = off + size
      BY <2>2, <2>3
    <3>2. c.target = "AArch64" => a.stack = AlignTo(m, 8)
      BY <2>3, <3>1 DEF StackEnd
    <3>3. QED
      BY <3>2, AlignTwice
  <2>6. c.target # "RISCV"
    <3>1. SUFFICES ASSUME c.target = "RISCV" PROVE FALSE
      OBVIOUS
    <3>2. Len(gprs) = 8 /\ Len(fprs) = 8
      BY <3>1, EightRegisters
    <3>3. Len(gprs) <= s.gpr \/ Len(fprs) <= s.fpr
      BY <2>1, <3>1 DEF InSlot
    <3>4. s.gpr <= n /\ s.fpr <= n /\ n < 8
      BY <3>1 DEF Ready
    <3>5. 8 <= s.gpr \/ 8 <= s.fpr
      BY <3>2, <3>3
    <3>6. ~(8 <= s.gpr) /\ ~(8 <= s.fpr)
      BY <1>1, <3>4
    <3>7. QED
      BY <3>5, <3>6
  <2>7. QED
    BY <2>4, <2>5, <2>6 DEF Ready
<1>4. QED
  BY <1>2, <1>3 DEF Arrives

\* Where va_arg goes on after the registers, and the registers it looks at.
Start(c, s) == StackOffset(c.target, s, 8)
Saved(c, s) ==
  LET gprs == ArgGPRs(c.target, "C")
      fprs == ArgFPRs(c.target, "C")
  IN Between(gprs, s.gpr, Len(gprs)) \cup
       (IF c.target = "RISCV" THEN {} ELSE Between(fprs, s.fpr, Len(fprs)))

\* n arguments are placed, and those beyond the fixed ones where they are found.
Found(c, n, s, f) ==
  /\ f.gpr <= s.gpr /\ f.fpr <= s.fpr /\ f.stack <= s.stack
  /\ Ready(c, n, f)
  /\ \A p \in Range(s.parts) : p.arg <= n
  /\ \A p \in Range(s.parts) : p.arg > c.fixed =>
       IF p.reg = NoReg THEN Start(c, f) <= p.off ELSE p.reg \in Saved(c, f)
  /\ \/ f.stack = s.stack /\ \A p \in Range(s.parts) : p.arg > c.fixed => p.reg # NoReg
     \/ \E p \in Range(s.parts) : p.arg > c.fixed /\ p.reg = NoReg /\ p.off = Start(c, f)

LEMMA PartsTyped ==
  ASSUME NEW s \in Assignments, NEW p \in Range(s.parts)
  PROVE  p \in Parts /\ p.arg \in Nat /\ p.off \in Nat
<1>1. s.parts \in Seq(Parts)
  BY DEF Assignments
<1>2. PICK k \in 1 .. Len(s.parts) : p = s.parts[k]
  BY <1>1 DEF Range
<1>3. p \in Parts
  BY <1>1, <1>2, ElementOfSeq
<1>4. QED
  BY <1>3 DEF Parts

LEMMA BetweenNoReg ==
  ASSUME NEW target \in Targets, NEW g, NEW h,
         NEW r, r \in Between(ArgGPRs(target, "C"), g, h) \cup Between(ArgFPRs(target, "C"), g, h)
  PROVE  r # NoReg
<1>1. PICK gprs, fprs : gprs = ArgGPRs(target, "C") /\ fprs = ArgFPRs(target, "C")
  OBVIOUS
<1>2. Listed(gprs, GeneralNames) /\ Listed(fprs, FloatNames)
  BY <1>1, ArgLists
<1>3. gprs \in Seq(GeneralNames \X Nat) /\ fprs \in Seq(FloatNames \X Nat)
  BY <1>2 DEF Listed
<1>4. /\ \A k \in 1 .. Len(gprs) : gprs[k] \in GeneralNames \X Nat
      /\ \A k \in 1 .. Len(fprs) : fprs[k] \in FloatNames \X Nat
  BY <1>3, ElementOfSeq
<1>5. NoReg \notin GeneralNames \X Nat /\ NoReg \notin FloatNames \X Nat
  BY DEF NoReg, GeneralNames, FloatNames
<1>6. QED
  BY <1>1, <1>4, <1>5 DEF Between

LEMMA FoundFixed ==
  ASSUME NEW c, NEW n \in Nat, c.fixed \in Nat, n <= c.fixed, NEW s \in Assignments, NEW f \in Assignments,
         Same(s, f), Ready(c, n, f), \A p \in Range(s.parts) : p.arg <= n
  PROVE  Found(c, n, s, f)
<1>1. /\ f.gpr = s.gpr /\ f.fpr = s.fpr /\ f.stack = s.stack
      /\ s.gpr \in Nat /\ s.fpr \in Nat /\ s.stack \in Nat
  BY DEF Same, Assignments
<1>2. \A p \in Range(s.parts) : ~(p.arg > c.fixed)
  BY PartsTyped
<1>3. QED
  BY <1>1, <1>2 DEF Found

LEMMA StartGrows ==
  ASSUME NEW c, NEW s \in Assignments, NEW f \in Assignments, f.stack <= s.stack
  PROVE  /\ Start(c, f) <= Start(c, s) /\ Start(c, f) \in Nat /\ Start(c, s) \in Nat
         /\ f.stack = s.stack => Start(c, f) = Start(c, s)
<1>1. s.stack \in Nat /\ f.stack \in Nat
  BY DEF Assignments
<1>2. AlignTo(f.stack, 8) <= AlignTo(s.stack, 8)
  BY <1>1, AlignGrows
<1>3. Start(c, f) \in Nat /\ Start(c, s) \in Nat
  BY OffsetNat DEF Start
<1>4. QED
  BY <1>1, <1>2, <1>3 DEF Start, StackOffset

LEMMA EndGrows ==
  ASSUME NEW target \in Targets, NEW off \in Nat, NEW size \in Nat
  PROVE  StackEnd(target, off, size) >= off
<1>1. AlignTo(off + size, 8) >= off + size
  <2>1. off + size \in Nat /\ 8 \in Nat \ {0}
    OBVIOUS
  <2>2. QED
    BY <2>1, AlignUp
<1>2. AlignTo(off + size, 8) \in Nat
  <2>1. off + size \in Nat /\ 8 \in Nat \ {0}
    OBVIOUS
  <2>2. QED
    BY <2>1, AlignUp
<1>3. QED
  BY <1>1, <1>2 DEF StackEnd

LEMMA FoundVariadic ==
  ASSUME NEW c, NEW n \in Nat, c.fixed \in Nat, c.fixed <= n, c.target \in Targets,
         NEW s \in Assignments, NEW f \in Assignments, Found(c, n, s, f), NEW i \in Nat, i = n + 1,
         NEW gprs, NEW fprs, gprs = ArgGPRs(c.target, "C"), fprs = ArgFPRs(c.target, "C"),
         NEW a, Arrives(c.target, s, i, gprs, fprs, a), c.target = "RISCV" => a.fpr = s.fpr
  PROVE  Found(c, n + 1, a, f)
<1>1. /\ s.gpr \in Nat /\ s.fpr \in Nat /\ s.stack \in Nat
      /\ f.gpr \in Nat /\ f.fpr \in Nat /\ f.stack \in Nat
  BY DEF Assignments
<1>2. /\ f.gpr <= s.gpr /\ f.fpr <= s.fpr /\ f.stack <= s.stack
      /\ \A p \in Range(s.parts) : p.arg <= n
      /\ \A p \in Range(s.parts) : p.arg > c.fixed =>
           IF p.reg = NoReg THEN Start(c, f) <= p.off ELSE p.reg \in Saved(c, f)
  BY DEF Found
<1>3. \/ f.stack = s.stack /\ \A p \in Range(s.parts) : p.arg > c.fixed => p.reg # NoReg
      \/ \E p \in Range(s.parts) : p.arg > c.fixed /\ p.reg = NoReg /\ p.off = Start(c, f)
  BY DEF Found
<1>4. Ready(c, n + 1, f)
  <2>1. Ready(c, n, f)
    BY DEF Found
  <2>2. QED
    BY <1>1, <2>1 DEF Ready
<1>5. \A p \in Range(s.parts) : p.arg <= n + 1
  BY <1>2, PartsTyped
<1>6. i <= n + 1 /\ i > c.fixed
  OBVIOUS
<1>7. CASE InRegisters(c.target, s, i, gprs, fprs, a)
  <2>1. /\ a \in Assignments /\ a.stack = s.stack /\ s.gpr <= a.gpr /\ s.fpr <= a.fpr
        /\ Range(s.parts) \subseteq Range(a.parts)
        /\ \A p \in Range(a.parts) \ Range(s.parts) :
             p.arg = i /\ p.reg \in Between(gprs, s.gpr, a.gpr) \cup Between(fprs, s.fpr, a.fpr)
    BY <1>7 DEF InRegisters
  <2>2. a.gpr \in Nat /\ a.fpr \in Nat /\ Len(gprs) \in Nat /\ Len(fprs) \in Nat
    <3>1. Listed(gprs, GeneralNames) /\ Listed(fprs, FloatNames)
      BY ArgLists
    <3>2. Len(gprs) \in Nat /\ Len(fprs) \in Nat
      BY <3>1 DEF Listed
    <3>3. QED
      BY <2>1, <3>2 DEF Assignments
  <2>3. Between(gprs, s.gpr, a.gpr) \cup Between(fprs, s.fpr, a.fpr) \subseteq Saved(c, f)
    <3>a. f.gpr <= s.gpr /\ f.fpr <= s.fpr
      BY <1>2
    <3>1. Between(gprs, s.gpr, a.gpr) \subseteq Between(gprs, f.gpr, Len(gprs))
      BY <1>1, <2>2, <3>a, BetweenGrows
    <3>2. Between(fprs, s.fpr, a.fpr) \subseteq Between(fprs, f.fpr, Len(fprs))
      BY <1>1, <2>2, <3>a, BetweenGrows
    <3>3. c.target = "RISCV" => Between(fprs, s.fpr, a.fpr) = {}
      BY <1>1, <2>2 DEF Between
    <3>4. QED
      BY <3>1, <3>2, <3>3 DEF Saved
  <2>4. \A p \in Range(a.parts) \ Range(s.parts) : p.reg # NoReg
    <3>1. \A r \in Saved(c, f) : r # NoReg
      <4>1. \A g, h, r : r \in Between(gprs, g, h) \cup Between(fprs, g, h) => r # NoReg
        BY BetweenNoReg
      <4>2. QED
        BY <4>1 DEF Saved
    <3>2. QED
      BY <2>1, <2>3, <3>1
  <2>6. f.gpr <= a.gpr /\ f.fpr <= a.fpr /\ f.stack <= a.stack
    <3>1. f.gpr <= s.gpr /\ s.gpr <= a.gpr /\ f.fpr <= s.fpr /\ s.fpr <= a.fpr
      BY <1>2, <2>1
    <3>2. f.stack <= a.stack
      BY <1>2, <2>1
    <3>3. f.gpr <= a.gpr
      BY <1>1, <2>2, <3>1
    <3>4. f.fpr <= a.fpr
      BY <1>1, <2>2, <3>1
    <3>5. QED
      BY <3>2, <3>3, <3>4
  <2>7. \A p \in Range(a.parts) : p.arg <= n + 1
    BY <1>5, <1>6, <2>1
  <2>8. \A p \in Range(a.parts) : p.arg > c.fixed =>
          IF p.reg = NoReg THEN Start(c, f) <= p.off ELSE p.reg \in Saved(c, f)
    BY <1>2, <2>1, <2>3, <2>4
  <2>9. \/ f.stack = a.stack /\ \A p \in Range(a.parts) : p.arg > c.fixed => p.reg # NoReg
        \/ \E p \in Range(a.parts) : p.arg > c.fixed /\ p.reg = NoReg /\ p.off = Start(c, f)
    BY <1>3, <2>1, <2>4
  <2>10. QED
    BY <1>4, <2>6, <2>7, <2>8, <2>9 DEF Found
<1>8. CASE \E size : InSlot(c.target, s, i, size, gprs, fprs, a)
  <2>1. PICK size : InSlot(c.target, s, i, size, gprs, fprs, a)
    BY <1>8
  <2>2. PICK q : q = Slot(i, Start(c, s), size)
    OBVIOUS
  <2>3. /\ a \in Assignments /\ a.gpr = s.gpr /\ a.fpr = s.fpr /\ size \in Nat
        /\ a.stack = StackEnd(c.target, Start(c, s), size)
        /\ Range(a.parts) = Range(s.parts) \cup {q}
    BY <2>1, <2>2 DEF InSlot, Start
  <2>4. q.arg = i /\ q.reg = NoReg /\ q.off = Start(c, s)
    BY <2>2 DEF Slot
  <2>5. /\ Start(c, f) <= Start(c, s) /\ Start(c, s) \in Nat
        /\ f.stack = s.stack => Start(c, f) = Start(c, s)
    BY <1>2, StartGrows
  <2>6. f.stack <= a.stack
    <3>1. PICK off \in Nat : off = Start(c, s) /\ s.stack <= off
      BY OffsetNat DEF Start
    <3>2. StackEnd(c.target, off, size) >= off
      BY <2>3, EndGrows
    <3>3. a.stack \in Nat
      BY <2>3 DEF Assignments
    <3>4. QED
      BY <1>1, <1>2, <2>3, <3>1, <3>2, <3>3
  <2>7. \A p \in Range(a.parts) : p.arg <= n + 1
    BY <1>5, <1>6, <2>3, <2>4
  <2>8. \A p \in Range(a.parts) : p.arg > c.fixed =>
          IF p.reg = NoReg THEN Start(c, f) <= p.off ELSE p.reg \in Saved(c, f)
    BY <1>2, <2>3, <2>4, <2>5
  <2>9. \E p \in Range(a.parts) : p.arg > c.fixed /\ p.reg = NoReg /\ p.off = Start(c, f)
    <3>1. CASE f.stack = s.stack
      BY <1>6, <2>3, <2>4, <2>5, <3>1
    <3>2. CASE f.stack # s.stack
      BY <1>3, <2>3, <3>2
    <3>3. QED
      BY <3>1, <3>2
  <2>10. QED
    BY <1>2, <1>4, <2>3, <2>6, <2>7, <2>8, <2>9 DEF Found
<1>9. QED
  BY <1>7, <1>8 DEF Arrives

LEMMA ArrivesArgs ==
  ASSUME NEW target, NEW s \in Assignments, NEW n \in Nat, NEW i \in Nat, i = n + 1, NEW gprs, NEW fprs, NEW a,
         Arrives(target, s, i, gprs, fprs, a), \A p \in Range(s.parts) : p.arg <= n
  PROVE  \A p \in Range(a.parts) : p.arg <= n + 1
<1>1. \A p \in Range(a.parts) : p \in Range(s.parts) \/ p.arg = i
  <2>1. CASE InRegisters(target, s, i, gprs, fprs, a)
    BY <2>1 DEF InRegisters
  <2>2. CASE \E size : InSlot(target, s, i, size, gprs, fprs, a)
    BY <2>2 DEF InSlot, Slot
  <2>3. QED
    BY <2>1, <2>2 DEF Arrives
<1>2. \A p \in Range(s.parts) : p.arg <= n + 1
  BY PartsTyped
<1>3. QED
  BY <1>1, <1>2

VarInv ==
  sig.kind \in {"none", "args"} /\ site.vararg /\ ~call.failed =>
    Found(site, Len(sig.types), call, func)

LEMMA VarArg ==
  ASSUME TypeInv, AgreeInv, VarInv, AgreeInv', TypeInv', PassArg, Findable(site)
  PROVE  VarInv'
<1>0. SUFFICES ASSUME site.vararg, ~call'.failed
               PROVE  Found(site', Len(sig'.types), call', func')
  BY DEF VarInv, PassArg
<1>1. PICK ty \in site.types :
        /\ Extends("args", ty)
        /\ call' = AssignArg(site, call, Len(sig.types) + 1, ty)
        /\ func' = IF Len(sig.types) < site.fixed \/ ~site.vararg
                     THEN AssignArg([Callee EXCEPT !.fixed = site.max], func, Len(sig.types) + 1, ty)
                     ELSE func
        /\ site' = site
  BY DEF PassArg
<1>2. /\ site.target \in Targets \ {"PPC"} /\ site.fixed \in Nat /\ site \in Sites
      /\ ty \in Types \ {"BYVAL"} /\ site.max \in Nat
  <2>1. site \in Sites
    BY DEF TypeInv
  <2>2. site.target \in Targets /\ site.fixed \in Nat /\ ty \in Types /\ site.max \in Nat
    BY <2>1, SiteFacts
  <2>3. QED
    BY <2>1, <2>2 DEF Findable
<1>3. /\ ~call.failed /\ sig.kind \in {"none", "args"} /\ sig'.kind = "args"
      /\ Len(sig'.types) = Len(sig.types) + 1
      /\ Len(sig.types) \in Nat
  <2>1. sig.types \in Seq(Types)
    BY DEF TypeInv
  <2>2. QED
    BY <1>1, <1>2, <2>1 DEF Extends
<1>4. PICK n \in Nat : n = Len(sig.types)
  BY <1>3
<1>5. PICK i \in Nat : i = n + 1
  OBVIOUS
<1>6. call \in Assignments /\ func \in Assignments /\ call' \in Assignments /\ func' \in Assignments
  BY DEF TypeInv
<1>7. Found(site, n, call, func)
  BY <1>0, <1>3, <1>4 DEF VarInv
<1>8. PICK gprs, fprs : gprs = ArgGPRs(site.target, "C") /\ fprs = ArgFPRs(site.target, "C")
  OBVIOUS
<1>9. RulesOf(site.target, site.conv) = "C" /\ (site.target = "RISCV" => site.fixed <= 8)
  BY DEF Findable
<1>10. PICK a : a = AssignArg(site, call, i, ty) /\ call' = a
  BY <1>1, <1>4, <1>5
<1>11. /\ Arrives(site.target, call, i, gprs, fprs, a)
       /\ site.target = "RISCV" /\ i > site.fixed => a.fpr = call.fpr
  <2>1. ~a.failed /\ a = AssignArg(site, call, i, ty)
    BY <1>0, <1>10
  <2>2. QED
    BY <1>2, <1>6, <1>8, <1>9, <2>1, ArgArrives
<1>12. CASE n < site.fixed
  <2>1. PICK d : d = [Callee EXCEPT !.fixed = site.max]
    OBVIOUS
  <2>2. d.target = site.target /\ d.conv = site.conv
    BY <1>2, <2>1, CalleeFacts DEF Callee
  <2>3. PICK b : b = AssignArg(d, func, i, ty) /\ func' = b
    BY <1>1, <1>4, <1>5, <1>12, <2>1
  <2>4. Same(a, b)
    <3>1. ~Beyond'
      BY <1>1, <1>2, <1>3, <1>4, <1>12 DEF Beyond
    <3>2. QED
      BY <1>0, <1>10, <2>3, <3>1 DEF AgreeInv
  <2>5. ~b.failed
    BY <1>0, <1>10, <2>4 DEF Same
  <2>6. Arrives(site.target, func, i, gprs, fprs, b)
    <3>1. d.target \in Targets \ {"PPC"} /\ RulesOf(d.target, d.conv) = "C"
      BY <1>2, <1>9, <2>2
    <3>2. gprs = ArgGPRs(d.target, "C") /\ fprs = ArgFPRs(d.target, "C")
      BY <1>8, <2>2
    <3>3. Arrives(d.target, func, i, gprs, fprs, b)
      BY <1>2, <1>6, <2>3, <2>5, <3>1, <3>2, ArgArrives
    <3>4. QED
      BY <2>2, <3>3
  <2>7. Ready(site, n, func) /\ \A p \in Range(call.parts) : p.arg <= n
    BY <1>7 DEF Found
  <2>8. Ready(site, n + 1, b)
    <3>1. site.target = "RISCV" => n < 8
      BY <1>2, <1>9, <1>12
    <3>2. QED
      BY <1>6, <1>8, <2>6, <2>7, <3>1, ReadyStep
  <2>9. \A p \in Range(a.parts) : p.arg <= n + 1
    BY <1>5, <1>6, <1>11, <2>7, ArrivesArgs
  <2>10. i <= site.fixed /\ a \in Assignments /\ b \in Assignments
    BY <1>2, <1>5, <1>6, <1>10, <1>12, <2>3
  <2>11. Ready(site, i, b) /\ \A p \in Range(a.parts) : p.arg <= i
    BY <1>5, <2>8, <2>9
  <2>12. Found(site, i, a, b)
    BY <1>2, <2>4, <2>10, <2>11, FoundFixed
  <2>13. QED
    BY <1>1, <1>3, <1>4, <1>5, <1>10, <2>3, <2>12
<1>13. CASE ~(n < site.fixed)
  <2>1. func' = func
    BY <1>0, <1>1, <1>4, <1>13
  <2>2. site.fixed <= n /\ i > site.fixed /\ site.target \in Targets
    BY <1>2, <1>5, <1>13
  <2>3. site.target = "RISCV" => a.fpr = call.fpr
    BY <1>11, <2>2
  <2>4. Found(site, n + 1, a, func)
    BY <1>2, <1>5, <1>6, <1>7, <1>8, <1>11, <2>2, <2>3, FoundVariadic
  <2>5. QED
    BY <1>1, <1>3, <1>4, <1>10, <2>1, <2>4
<1>14. QED
  BY <1>12, <1>13

\* What va_arg looks at is what Found speaks of.
LEMMA SavedUnused ==
  ASSUME NEW r, NEW names, Listed(r, names), NEW g \in Nat
  PROVE  Between(r, g, Len(r)) \subseteq Range(SubSeq(r, g + 1, Len(r)))
<1>1. Len(r) \in Nat /\ r \in Seq(names \X Nat)
  BY DEF Listed
<1>2. SUFFICES ASSUME NEW k \in 1 .. Len(r), g < k PROVE r[k] \in Range(SubSeq(r, g + 1, Len(r)))
  BY DEF Between
<1>3. PICK u : u = SubSeq(r, g + 1, Len(r))
  OBVIOUS
<1>4. g + 1 <= Len(r) /\ g + 1 \in 1 .. Len(r) /\ k - g \in 1 .. Len(r) - g
  BY <1>1, <1>2
<1>5. Len(u) = Len(r) - g /\ DOMAIN u = 1 .. Len(r) - g /\ \A j \in 1 .. Len(r) - g : u[j] = r[g + j]
  BY <1>1, <1>3, <1>4
<1>6. u[k - g] = r[k]
  BY <1>1, <1>2, <1>4, <1>5
<1>7. QED
  BY <1>3, <1>4, <1>5, <1>6 DEF Range

LEMMA LeastMin ==
  ASSUME NEW S \in SUBSET Nat, NEW m \in S, \A n \in S : m <= n
  PROVE  Min(S) = m
<1>1. PICK x : x = Min(S)
  OBVIOUS
<1>2. x \in S /\ \A n \in S : x <= n
  <2>1. \E y \in S : \A n \in S : y <= n
    OBVIOUS
  <2>2. QED
    BY <1>1, <2>1 DEF Min
<1>3. x \in Nat /\ m \in Nat /\ x <= m /\ m <= x
  BY <1>2
<1>4. QED
  BY <1>1, <1>3

LEMMA VASearch ==
  ASSUME NEW c, c.target \in Targets \ {"PPC"}, NEW s \in Assignments, NEW n, Ready(c, n, s),
         NEW d, d.target = c.target
  PROVE  VAOverflow(d, s) = Start(c, s) /\ Saved(c, s) \subseteq VASaved(d, s)
<1>1. s.stack \in Nat /\ s.gpr \in Nat /\ s.fpr \in Nat /\ s.align = 8
  BY DEF Assignments, Ready
<1>2. VAOverflow(d, s) = Start(c, s)
  <2>1. CASE c.target \in {"X86_64", "X86_32"}
    <3>1. GetFrameSize(d, s) = AlignTo(s.stack, 8)
      BY <1>1, <2>1 DEF GetFrameSize
    <3>2. VAOverflow(d, s) = AlignTo(GetFrameSize(d, s), 8)
      BY <2>1 DEF VAOverflow
    <3>3. AlignTo(AlignTo(s.stack, 8), 8) = AlignTo(s.stack, 8)
      BY <1>1, AlignTwice
    <3>4. Start(c, s) = AlignTo(s.stack, 8)
      BY <2>1 DEF Start, StackOffset
    <3>5. QED
      BY <3>1, <3>2, <3>3, <3>4
  <2>2. CASE c.target = "AArch64"
    <3>1. GetFrameSize(d, s) = s.stack
      BY <2>2 DEF GetFrameSize
    <3>2. VAOverflow(d, s) = AlignTo(GetFrameSize(d, s), 8)
      BY <2>2 DEF VAOverflow
    <3>3. Start(c, s) = s.stack /\ AlignTo(s.stack, 8) = s.stack
      BY <2>2 DEF Start, StackOffset, Ready
    <3>4. QED
      BY <3>1, <3>2, <3>3
  <2>3. CASE c.target = "RISCV"
    BY <2>3 DEF VAOverflow, Start, StackOffset, Ready
  <2>4. QED
    BY <2>1, <2>2, <2>3 DEF Targets
<1>3. Saved(c, s) \subseteq VASaved(d, s)
  <2>1. PICK gprs, fprs : gprs = ArgGPRs(c.target, "C") /\ fprs = ArgFPRs(c.target, "C")
    OBVIOUS
  <2>2. Listed(gprs, GeneralNames) /\ Listed(fprs, FloatNames)
    BY <2>1, ArgLists
  <2>3. /\ Between(gprs, s.gpr, Len(gprs)) \subseteq Range(UnusedGPRs(d, s))
        /\ Between(fprs, s.fpr, Len(fprs)) \subseteq Range(UnusedFPRs(d, s))
    <3>1. PICK g \in Nat, f \in Nat : g = s.gpr /\ f = s.fpr
      BY <1>1
    <3>2. /\ Between(gprs, g, Len(gprs)) \subseteq Range(SubSeq(gprs, g + 1, Len(gprs)))
          /\ Between(fprs, f, Len(fprs)) \subseteq Range(SubSeq(fprs, f + 1, Len(fprs)))
      BY <2>2, SavedUnused
    <3>3. /\ UnusedGPRs(d, s) = SubSeq(gprs, g + 1, Len(gprs))
          /\ UnusedFPRs(d, s) = SubSeq(fprs, f + 1, Len(fprs))
      BY <2>1, <3>1 DEF UnusedGPRs, UnusedFPRs
    <3>4. QED
      BY <3>1, <3>2, <3>3
  <2>4. c.target = "X86_32" => Between(fprs, s.fpr, Len(fprs)) = {}
    <3>1. c.target = "X86_32" => fprs = <<>>
      BY <2>1 DEF ArgFPRs
    <3>2. Between(<<>>, s.fpr, Len(<<>>)) = {}
      BY DEF Between
    <3>3. QED
      BY <3>1, <3>2
  <2>5. Saved(c, s) = Between(gprs, s.gpr, Len(gprs)) \cup
                        (IF c.target = "RISCV" THEN {} ELSE Between(fprs, s.fpr, Len(fprs)))
    BY <2>1 DEF Saved
  <2>6. VASaved(d, s) = Range(UnusedGPRs(d, s)) \cup
          (IF c.target \in {"X86_64", "AArch64"} THEN Range(UnusedFPRs(d, s)) ELSE {})
    BY DEF VASaved
  <2>7. c.target \in {"X86_64", "AArch64", "X86_32", "RISCV"}
    BY DEF Targets
  <2>8. QED
    BY <2>3, <2>4, <2>5, <2>6, <2>7
<1>4. QED
  BY <1>2, <1>3

\* Under C's rules, away from PowerPC and from structures passed by value, and on
\* RISC-V with no more than eight fixed arguments: a variadic argument is where
\* va_arg looks for it, for any signature.
THEOREM VarArgsPlaced ==
  ASSUME \A c \in Sites : c.vararg => Findable(c)
  PROVE  Spec => []VarArgsFound
<1>1. Init => VarInv
  <2>1. SUFFICES ASSUME Init, site.vararg PROVE Found(site, 0, call, func)
    <3>1. Len(<<>>) = 0
      OBVIOUS
    <3>2. QED
      BY <3>1 DEF VarInv, Init
  <2>2. site \in Sites /\ call = Fresh(site) /\ func = Fresh(site)
    BY <2>1 DEF Init
  <2>3. site.fixed \in Nat /\ site.target # "PPC"
    BY <2>1, <2>2, SiteFacts DEF Findable
  <2>4. call \in Assignments /\ func \in Assignments /\ call.parts = <<>>
    BY <2>2, FreshForm
  <2>5. Ready(site, 0, func)
    <3>1. AlignTo(0, 8) = 0
      BY DEF AlignTo
    <3>2. func.align = 8 /\ func.stack = 0 /\ func.gpr = 0 /\ func.fpr = 0
      BY <2>2, <2>3 DEF Fresh
    <3>3. QED
      BY <3>1, <3>2 DEF Ready
  <2>6. Same(call, func)
    BY <2>2, SameSelf
  <2>7. \A p \in Range(call.parts) : p.arg <= 0
    BY <2>4 DEF Range
  <2>8. 0 \in Nat /\ 0 <= site.fixed
    BY <2>3
  <2>9. QED
    BY <2>3, <2>4, <2>5, <2>6, <2>7, <2>8, FoundFixed
<1>2. ASSUME TypeInv, AgreeInv, VarInv, TypeInv', AgreeInv', [Next]_vars PROVE VarInv'
  <2>1. CASE PassArg
    <3>1. CASE site.vararg
      <4>1. Findable(site)
        BY <1>2, <3>1 DEF TypeInv
      <4>2. QED
        BY <1>2, <2>1, <4>1, VarArg
    <3>2. CASE ~site.vararg
      BY <2>1, <3>2 DEF VarInv, PassArg
    <3>3. QED
      BY <3>1, <3>2
  <2>2. CASE PassRet
    <3>1. sig'.kind = "rets"
      BY <2>2 DEF PassRet, Extends
    <3>2. QED
      BY <3>1 DEF VarInv
  <2>3. CASE UNCHANGED vars
    <3>1. site' = site /\ sig' = sig /\ call' = call /\ func' = func
      BY <2>3 DEF vars
    <3>2. QED
      BY <1>2, <3>1 DEF VarInv
  <2>4. QED
    BY <1>2, <2>1, <2>2, <2>3 DEF Next
<1>3. TypeInv /\ VarInv => VarArgsFound
  <2>1. SUFFICES ASSUME TypeInv, VarInv, site.vararg, ~call.failed, sig.kind = "args"
                 PROVE  LET variadic == {p \in Range(call.parts) : p.arg > site.fixed}
                            onstack  == {p \in variadic : p.reg = NoReg}
                        IN /\ \A p \in variadic \ onstack : p.reg \in VASaved(Callee, func)
                           /\ onstack # {} => Min({p.off : p \in onstack}) = VAOverflow(Callee, func)
    BY DEF VarArgsFound
  <2>2. PICK n : Found(site, n, call, func)
    BY <2>1 DEF VarInv
  <2>3. PICK d : d = Callee
    OBVIOUS
  <2>4. d.target = site.target /\ site.target \in Targets \ {"PPC"} /\ site \in Sites /\ func \in Assignments
    <3>1. site \in Sites /\ func \in Assignments
      BY <2>1 DEF TypeInv
    <3>2. site.target \in Targets \ {"PPC"} /\ site.max \in Nat
      BY <2>1, <3>1, SiteFacts DEF Findable
    <3>3. QED
      BY <2>3, <3>1, <3>2, CalleeFacts DEF Callee
  <2>5. VAOverflow(d, func) = Start(site, func) /\ Saved(site, func) \subseteq VASaved(d, func)
    <3>1. Ready(site, n, func)
      BY <2>2 DEF Found
    <3>2. QED
      BY <2>4, <3>1, VASearch
  <2>6. /\ \A p \in Range(call.parts) : p.arg > site.fixed =>
             IF p.reg = NoReg THEN Start(site, func) <= p.off ELSE p.reg \in Saved(site, func)
        /\ \/ \A p \in Range(call.parts) : p.arg > site.fixed => p.reg # NoReg
           \/ \E p \in Range(call.parts) : p.arg > site.fixed /\ p.reg = NoReg /\ p.off = Start(site, func)
    BY <2>2 DEF Found
  <2>7. PICK variadic, onstack : /\ variadic = {p \in Range(call.parts) : p.arg > site.fixed}
                                 /\ onstack = {p \in variadic : p.reg = NoReg}
    OBVIOUS
  <2>8. \A p \in variadic \ onstack : p.reg \in VASaved(d, func)
    BY <2>5, <2>6, <2>7
  <2>9. ASSUME onstack # {} PROVE Min({p.off : p \in onstack}) = Start(site, func)
    <3>1. PICK S : S = {p.off : p \in onstack}
      OBVIOUS
    <3>2. S \in SUBSET Nat
      <4>1. call \in Assignments
        BY <2>1 DEF TypeInv
      <4>2. \A p \in Range(call.parts) : p.off \in Nat
        BY <4>1, PartsTyped
      <4>3. QED
        BY <2>7, <3>1, <4>2
    <3>3. Start(site, func) \in S
      BY <2>6, <2>7, <2>9, <3>1
    <3>4. \A m \in S : Start(site, func) <= m
      BY <2>6, <2>7, <3>1
    <3>5. QED
      BY <3>1, <3>2, <3>3, <3>4, LeastMin
  <2>10. QED
    BY <2>3, <2>5, <2>7, <2>8, <2>9
<1>4. QED
  BY <1>1, <1>2, <1>3, AgreeInductive, PTL DEF Spec

=============================================================================
