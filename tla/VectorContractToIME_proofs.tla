--------------------- MODULE VectorContractToIME_proofs ---------------------
(***************************************************************************)
(* Proofs about VectorContractToIME, for every set of contractions.        *)
(***************************************************************************)
EXTENDS VectorContractToIME, SequenceTheorems, TLAPS

-----------------------------------------------------------------------------
(***************************************************************************)
(* Type correctness.                                                       *)
(***************************************************************************)
\* A nonempty set of physical dimensions has a first one.
LEMMA FirstOfInSet ==
  ASSUME NEW S \in SUBSET (1 .. 3), S # {}
  PROVE  FirstOf(S) \in S
<1>1. \E p \in S : \A q \in S : p <= q
  <2>1. CASE 1 \in S
    BY <2>1
  <2>2. CASE 1 \notin S /\ 2 \in S
    BY <2>2
  <2>3. CASE 1 \notin S /\ 2 \notin S
    <3>1. \A q \in S : q = 3
      BY <2>3
    <3>2. 3 \in S
      BY <3>1
    <3> QED BY <3>1, <3>2
  <2> QED BY <2>1, <2>2, <2>3
<1> QED BY <1>1 DEF FirstOf

\* An iterator that a map resolves has a positive size.
LEMMA DimSizeType ==
  ASSUME NEW c \in ContractionType, NEW map \in IndexingMaps, NEW i \in 0 .. 2,
         PhysicalDims(map, i) # {}
  PROVE  DimSize(c, map, i) = c.size[i] /\ c.size[i] \in Nat \ {0}
<1>1. PICK r \in 1 .. 3 : map \in [1 .. r -> 0 .. 2]
  BY DEF IndexingMaps
<1>2. PhysicalDims(map, i) \in SUBSET (1 .. 3)
  BY <1>1 DEF PhysicalDims
<1>3. FirstOf(PhysicalDims(map, i)) \in PhysicalDims(map, i)
  BY <1>2, FirstOfInSet
<1>4. c.size \in [0 .. 2 -> Nat \ {0}]
  BY DEF ContractionType
<1> QED BY <1>1, <1>3, <1>4 DEF DimSize, Shape, PhysicalDims

\* What getExtOperand returns is a small integer.
LEMMA OperandsType ==
  ASSUME NEW v \in OperandDefs
  PROVE  Operands(v) \subseteq MatchedOperands
<1>1. ASSUME NEW ext \in ExtensionOps
      PROVE  getExtOperand(ext, v) \subseteq MatchedOperands
  <2>1. ASSUME NEW t \in SmallInts, NEW from \in {"input", "operand"}
        PROVE  Chosen(t, from, ext) \in MatchedOperands
    <3>1. (ext = "extsi") \in BOOLEAN
      OBVIOUS
    <3> QED BY <3>1 DEF Chosen, MatchedOperands
  <2> QED BY <2>1 DEF getExtOperand
<1> QED BY <1>1 DEF Operands, ExtensionOps

\* The rewriter's fields keep their types (TypeOK of the machine).
THEOREM TypeCorrect == Spec => []TypeOK
<1>1. Init => TypeOK
  <2>1. NoOperand \in MatchedOperands
    BY DEF NoOperand, MatchedOperands, SmallInts
  <2>2. DOMAIN NoAcc = 0 .. (M0 * N0) - 1
    BY DEF NoAcc
  <2>3. SUFFICES ASSUME Init PROVE TypeOK
    OBVIOUS
  <2>4. dims \in [M : Nat, N : Nat, K : Nat] /\ offset \in Tiles
    BY <2>3 DEF Init, Tiles
  <2>5. imeOp \in IMEOps /\ pc \in MatchSteps /\ illFormed \in BOOLEAN
    BY <2>3 DEF Init, IMEOps, MatchSteps
  <2> QED BY <2>1, <2>2, <2>3, <2>4, <2>5 DEF Init, TypeOK
<1>2. TypeOK /\ [Next]_vars => TypeOK'
  <2> SUFFICES ASSUME TypeOK, [Next]_vars PROVE TypeOK'
    OBVIOUS
  <2> USE DEF TypeOK, MatchSteps, FinalSteps, Tiles, IMEOps, MatchedOperands
  <2>0. op \in ContractionType /\ op.lhsMap \in IndexingMaps /\ op.rhsMap \in IndexingMaps
        /\ op.lhs \in OperandDefs /\ op.rhs \in OperandDefs
    BY ContractionsAssumption DEF ContractionType
  <2>1. CASE CheckMask
    BY <2>1 DEF CheckMask, Match, matchVars, lowerVars
  <2>2. CASE CheckIterators
    BY <2>2 DEF CheckIterators, Match, matchVars, lowerVars
  <2>3. CASE CheckRank
    BY <2>3 DEF CheckRank, Match, matchVars, lowerVars
  <2>4. CASE CheckRhsDims
    <3>1. dims' \in [M : Nat, N : Nat, K : Nat]
      <4>1. CASE PhysicalDims(op.rhsMap, 1) # {} /\ PhysicalDims(op.rhsMap, 2) # {}
        <5>1. DimSize(op, op.rhsMap, 1) \in Nat /\ DimSize(op, op.rhsMap, 2) \in Nat
          BY <2>0, <4>1, DimSizeType
        <5> QED BY <2>4, <4>1, <5>1 DEF CheckRhsDims
      <4> QED BY <2>4, <4>1 DEF CheckRhsDims
    <3> QED BY <2>4, <3>1 DEF CheckRhsDims, Match, lowerVars
  <2>5. CASE CheckLhsDims
    <3>1. dims' \in [M : Nat, N : Nat, K : Nat]
      <4>1. CASE Len(op.lhsMap) = 1
        BY <2>5, <4>1 DEF CheckLhsDims
      <4>2. CASE Len(op.lhsMap) # 1 /\ PhysicalDims(op.lhsMap, 0) # {}
        <5>1. DimSize(op, op.lhsMap, 0) \in Nat
          BY <2>0, <4>2, DimSizeType
        <5> QED BY <2>5, <4>2, <5>1 DEF CheckLhsDims
      <4>3. CASE Len(op.lhsMap) # 1 /\ PhysicalDims(op.lhsMap, 0) = {}
        BY <2>5, <4>3 DEF CheckLhsDims
      <4> QED BY <4>1, <4>2, <4>3
    <3> QED BY <2>5, <3>1 DEF CheckLhsDims, Match, lowerVars
  <2>6. CASE CheckLhs
    BY <2>0, <2>6, OperandsType DEF CheckLhs, Match, lowerVars
  <2>7. CASE CheckRhs
    BY <2>0, <2>7, OperandsType DEF CheckRhs, Match, lowerVars
  <2>8. CASE SelectOp
    BY <2>8 DEF SelectOp, Match, lowerVars
  <2>9. CASE CheckAcc
    BY <2>9 DEF CheckAcc, Match, matchVars, lowerVars
  <2>10. CASE ExtendOperands
    BY <2>10 DEF ExtendOperands, Match, lowerVars
  <2>11. CASE BeginLower
    BY <2>11 DEF BeginLower, matchVars
  <2>12. CASE EmitTile
    <3>1. DOMAIN kAcc' = 0 .. (M0 * N0) - 1
      BY <2>12 DEF EmitTile, createIMEOp
    <3>2. offset' \in Tiles
      BY <2>12 DEF EmitTile, NextOffset, LastK, LastN, M0, N0, K0
    <3> QED BY <2>12, <3>1, <3>2 DEF EmitTile, matchVars
  <2>13. CASE Replace
    BY <2>13 DEF Replace, matchVars, lowerVars
  <2>14. CASE UNCHANGED vars
    BY <2>14 DEF vars
  <2> QED
    BY <2>1, <2>2, <2>3, <2>4, <2>5, <2>6, <2>7, <2>8, <2>9, <2>10, <2>11, <2>12,
       <2>13, <2>14 DEF Next
<1> QED BY <1>1, <1>2, PTL DEF Spec

-----------------------------------------------------------------------------
(***************************************************************************)
(* A match that fails has created nothing.                                 *)
(***************************************************************************)
\* No operand that getExtOperand finds is extended yet.
LEMMA OperandsNotExtended ==
  ASSUME NEW v, NEW x \in Operands(v)
  PROVE  ~x.extended
<1>1. ASSUME NEW ext PROVE \A y \in getExtOperand(ext, v) : ~y.extended
  <2>1. \A t, from : ~Chosen(t, from, ext).extended
    BY DEF Chosen
  <2> QED BY <2>1 DEF getExtOperand
<1> QED BY <1>1 DEF Operands

\* Until the last check has passed, and after one has failed, no extension was created.
NoTrace == pc \in MatchSteps \cup {"rejected"} => ~lhs.extended /\ ~rhs.extended

\* A match that fails leaves the function untouched (RejectionLeavesNoTrace of the machine):
\* both operands are chosen and checked before the first op is created (matchAndInit).
THEOREM RejectionTraceless == Spec => []RejectionLeavesNoTrace
<1>1. Init => NoTrace
  BY DEF Init, NoTrace, NoOperand
<1>2. NoTrace /\ [Next]_vars => NoTrace'
  <2> SUFFICES ASSUME NoTrace, [Next]_vars, pc' \in MatchSteps \cup {"rejected"}
               PROVE  ~lhs'.extended /\ ~rhs'.extended
    BY DEF NoTrace
  <2> USE DEF NoTrace, MatchSteps
  <2>1. CASE CheckMask \/ CheckIterators \/ CheckRank \/ CheckAcc
    BY <2>1 DEF CheckMask, CheckIterators, CheckRank, CheckAcc, Match, matchVars
  <2>2. CASE CheckRhsDims \/ CheckLhsDims \/ SelectOp
    BY <2>2 DEF CheckRhsDims, CheckLhsDims, SelectOp, Match
  <2>3. CASE CheckLhs
    <3>1. ~lhs.extended /\ ~rhs.extended /\ rhs' = rhs
      BY <2>3 DEF CheckLhs, Match
    <3>2. lhs' \in Operands(op.lhs) \/ lhs' = lhs
      BY <2>3 DEF CheckLhs
    <3> QED BY <3>1, <3>2, OperandsNotExtended
  <2>4. CASE CheckRhs
    <3>1. ~lhs.extended /\ ~rhs.extended /\ lhs' = lhs
      BY <2>4 DEF CheckRhs, Match
    <3>2. rhs' \in Operands(op.rhs) \/ rhs' = rhs
      BY <2>4 DEF CheckRhs
    <3> QED BY <3>1, <3>2, OperandsNotExtended
  <2>5. CASE ExtendOperands
    BY <2>5 DEF ExtendOperands, Match
  <2>6. CASE BeginLower \/ EmitTile \/ Replace
    BY <2>6 DEF BeginLower, EmitTile, Replace
  <2>7. CASE UNCHANGED vars
    BY <2>7 DEF vars
  <2> QED BY <2>1, <2>2, <2>3, <2>4, <2>5, <2>6, <2>7 DEF Next
<1>3. NoTrace => RejectionLeavesNoTrace
  BY DEF NoTrace, RejectionLeavesNoTrace
<1> QED BY <1>1, <1>2, <1>3, PTL DEF Spec

-----------------------------------------------------------------------------
(***************************************************************************)
(* The hardware multiplies the integers that the contraction multiplies.   *)
(***************************************************************************)
\* What extendSmallIntVector makes of a chosen operand.
ExtendedFrom(v, x) == \E y \in Operands(v) : x = [y EXCEPT !.extended = y.elt # "i8"]

LEMMA BitWidths ==
  /\ Bits["i4"] = 4 /\ Bits["i8"] = 8 /\ Bits["i16"] = 16 /\ Bits["i32"] = 32
  /\ DOMAIN Bits = {"i4", "i8", "i16", "i32"}
BY DEF Bits

\* The four ways to be chosen, each with the register contents it leads to.
LEMMA OperandValue ==
  ASSUME NEW v \in OperandDefs, WellTypedOperand(v), NEW x, ExtendedFrom(v, x)
  PROVE  OperandPreserved(v, x, x.signed)
<1>1. PICK y \in Operands(v) : x = [y EXCEPT !.extended = y.elt # "i8"]
  BY DEF ExtendedFrom
<1> DEFINE chosen(t, signed) == x.elt = t /\ x.signed = signed /\ x.extended = (t # "i8")
<1>2. \/ v.def = "extsi" /\ v.in \in SmallInts /\ chosen(v.in, TRUE)
      \/ v.def = "extui" /\ v.in \in SmallInts /\ chosen(v.in, FALSE)
      \/ v.def = "extui" /\ v.in = "i4" /\ v.elt = "i8" /\ chosen("i8", TRUE)
      \/ v.def = "none" /\ v.in \in SmallInts /\ chosen(v.in, TRUE)
  <2>1. v.def \in {"none", "extsi", "extui"}
    BY DEF OperandDefs, ExtensionOps
  <2>2. ASSUME NEW t, NEW from, y = Chosen(t, from, "extsi")
        PROVE  chosen(t, TRUE)
    <3>1. x = [elt |-> t, source |-> from, signed |-> TRUE, extended |-> t # "i8"]
      BY <1>1, <2>2 DEF Chosen
    <3> QED BY <3>1
  <2>7. ASSUME NEW t, NEW from, y = Chosen(t, from, "extui")
        PROVE  chosen(t, FALSE)
    <3>1. x = [elt |-> t, source |-> from, signed |-> FALSE, extended |-> t # "i8"]
      BY <1>1, <2>7 DEF Chosen
    <3> QED BY <3>1
  <2> HIDE DEF chosen
  <2>3. CASE v.def = "extsi"
    <3>1. y = Chosen(v.in, "input", "extsi") /\ v.in \in SmallInts
      BY <1>1, <2>3 DEF Operands, getExtOperand
    <3>2. chosen(v.in, TRUE)
      BY <2>2, <3>1
    <3> QED BY <2>3, <3>1, <3>2
  <2>4. CASE v.def = "extui" /\ v.elt \in SmallInts
    <3>1. y = Chosen(v.elt, "operand", "extsi")
      BY <1>1, <2>4 DEF Operands, getExtOperand
    <3>2. v.in = "i4" /\ v.elt = "i8"
      BY <2>4, BitWidths DEF WellTypedOperand, SmallInts
    <3>3. chosen("i8", TRUE)
      BY <2>2, <3>1, <3>2
    <3> QED BY <2>4, <3>2, <3>3
  <2>5. CASE v.def = "extui" /\ v.elt \notin SmallInts
    <3>1. y = Chosen(v.in, "input", "extui") /\ v.in \in SmallInts
      BY <1>1, <2>5 DEF Operands, getExtOperand
    <3>2. chosen(v.in, FALSE)
      BY <2>7, <3>1
    <3> QED BY <2>5, <3>1, <3>2
  <2>6. CASE v.def = "none"
    <3>1. y = Chosen(v.elt, "operand", "extsi") /\ v.elt \in SmallInts
      BY <1>1, <2>6 DEF Operands, getExtOperand
    <3>2. v.in = v.elt
      BY <2>6 DEF WellTypedOperand
    <3>3. chosen(v.in, TRUE)
      BY <2>2, <3>1, <3>2
    <3> QED BY <2>6, <3>1, <3>2, <3>3
  <2> QED BY <2>1, <2>3, <2>4, <2>5, <2>6
<1> HIDE DEF chosen
<1>3. 2 ^ 3 = 8 /\ 2 ^ 4 = 16 /\ 2 ^ 7 = 128 /\ 2 ^ 8 = 256
  OBVIOUS
<1>4. /\ \A b : ToSigned(b, 4) = IF b >= 8 THEN b - 16 ELSE b
      /\ \A b : ToSigned(b, 8) = IF b >= 128 THEN b - 256 ELSE b
  BY <1>3 DEF ToSigned
<1> SUFFICES ASSUME NEW b \in 0 .. 2 ^ Bits[v.in] - 1
             PROVE  SourceValue(v, b) = IF x.signed THEN ToSigned(RegisterByte(x, b), 8)
                                        ELSE RegisterByte(x, b)
  BY DEF OperandPreserved
<1>5. CASE v.in = "i4"
  <2>1. b \in 0 .. 15 /\ Bits[v.in] = 4
    BY <1>3, <1>5, BitWidths
  <2>2. CASE x.signed /\ x.extended
    <3>1. x.elt = "i4" /\ v.def # "extui"
      BY <1>2, <1>5, <2>2 DEF chosen
    <3>2. RegisterByte(x, b) = (IF b >= 8 THEN b - 16 ELSE b) % 256
      BY <1>4, <2>2, <3>1, BitWidths DEF RegisterByte
    <3>3. SourceValue(v, b) = IF b >= 8 THEN b - 16 ELSE b
      BY <1>4, <2>1, <3>1 DEF SourceValue
    <3>4. RegisterByte(x, b) = IF b >= 8 THEN b + 240 ELSE b
      BY <2>1, <3>2
    <3> QED BY <1>4, <2>1, <2>2, <3>3, <3>4
  <2>3. CASE ~(x.signed /\ x.extended)
    <3>1. v.def = "extui" /\ RegisterByte(x, b) = b /\ SourceValue(v, b) = b
      BY <1>2, <1>5, <2>3 DEF chosen, RegisterByte, SourceValue
    <3> QED BY <1>4, <2>1, <3>1
  <2> QED BY <2>2, <2>3
<1>6. CASE v.in = "i8"
  <2>1. b \in 0 .. 255 /\ Bits[v.in] = 8
    BY <1>3, <1>6, BitWidths
  <2>2. ~x.extended /\ (x.signed <=> v.def # "extui")
    BY <1>2, <1>6 DEF chosen
  <2>3. RegisterByte(x, b) = b
    BY <2>2 DEF RegisterByte
  <2> QED BY <1>4, <2>1, <2>2, <2>3 DEF SourceValue
<1> QED BY <1>2, <1>5, <1>6 DEF SmallInts

\* From the check that chooses an operand to the end of the rewrite.
BeforeExtension == {"acc", "extend"}
AfterExtension == {"begin", "tile", "replace", "verifyError", "lowered"}
ChoiceInv ==
  /\ pc \in {"rhs", "select"} \cup BeforeExtension => lhs \in Operands(op.lhs)
  /\ pc \in {"select"} \cup BeforeExtension => rhs \in Operands(op.rhs)
  /\ pc \in BeforeExtension \cup AfterExtension =>
       SignedOperands[imeOp][1] = lhs.signed /\ SignedOperands[imeOp][2] = rhs.signed
  /\ pc \in AfterExtension => ExtendedFrom(op.lhs, lhs) /\ ExtendedFrom(op.rhs, rhs)

\* The signedness survives the extension, the choice of the instruction and the i8 operands
\* (OperandsPreserved of the machine), for every bit pattern of both operands.
THEOREM SignednessCorrect == Spec => []OperandsPreserved
<1>1. Init => ChoiceInv
  BY DEF Init, ChoiceInv, BeforeExtension, AfterExtension
<1>2. TypeOK /\ ChoiceInv /\ [Next]_vars => ChoiceInv'
  <2> SUFFICES ASSUME TypeOK, ChoiceInv, [Next]_vars PROVE ChoiceInv'
    OBVIOUS
  <2> USE DEF ChoiceInv, BeforeExtension, AfterExtension
  <2>1. CASE CheckMask \/ CheckIterators \/ CheckRank \/ CheckRhsDims \/ CheckLhsDims
    BY <2>1 DEF CheckMask, CheckIterators, CheckRank, CheckRhsDims, CheckLhsDims, Match
  <2>2. CASE CheckLhs
    BY <2>2 DEF CheckLhs, Match
  <2>3. CASE CheckRhs
    BY <2>3 DEF CheckRhs, Match
  <2>4. CASE SelectOp
    <3>1. lhs.signed \in BOOLEAN /\ rhs.signed \in BOOLEAN
      BY DEF TypeOK, MatchedOperands
    <3>2. SignedOperands[imeOp'][1] = lhs.signed /\ SignedOperands[imeOp'][2] = rhs.signed
      BY <2>4, <3>1 DEF SelectOp, SignedOperands
    <3> QED BY <2>4, <3>2 DEF SelectOp, Match
  <2>5. CASE CheckAcc
    BY <2>5 DEF CheckAcc, Match, matchVars
  <2>6. CASE ExtendOperands
    <3>1. /\ pc = "extend" /\ pc' = "begin" /\ op' = op /\ imeOp' = imeOp
          /\ lhs' = [lhs EXCEPT !.extended = lhs.elt # "i8"]
          /\ rhs' = [rhs EXCEPT !.extended = rhs.elt # "i8"]
      BY <2>6 DEF ExtendOperands, Match
    <3>2. lhs'.signed = lhs.signed /\ rhs'.signed = rhs.signed
      BY <3>1 DEF TypeOK, MatchedOperands
    <3>3. ExtendedFrom(op.lhs, lhs') /\ ExtendedFrom(op.rhs, rhs')
      BY <3>1 DEF ExtendedFrom
    <3> QED BY <3>1, <3>2, <3>3
  <2>7. CASE BeginLower \/ EmitTile \/ Replace
    BY <2>7 DEF BeginLower, EmitTile, Replace, matchVars
  <2>8. CASE UNCHANGED vars
    BY <2>8 DEF vars
  <2> QED BY <2>1, <2>2, <2>3, <2>4, <2>5, <2>6, <2>7, <2>8 DEF Next
<1>3. TypeOK /\ ChoiceInv => OperandsPreserved
  <2> SUFFICES ASSUME TypeOK, ChoiceInv, pc = "lowered"
               PROVE  /\ OperandPreserved(op.lhs, lhs, lhs.signed)
                      /\ OperandPreserved(op.rhs, rhs, rhs.signed)
    BY DEF OperandsPreserved, ChoiceInv, AfterExtension
  <2>1. op.lhs \in OperandDefs /\ op.rhs \in OperandDefs
    BY ContractionsAssumption DEF TypeOK, ContractionType
  <2>2. WellTypedOperand(op.lhs) /\ WellTypedOperand(op.rhs)
    BY OperandsAssumption DEF TypeOK
  <2>3. ExtendedFrom(op.lhs, lhs) /\ ExtendedFrom(op.rhs, rhs)
    BY DEF ChoiceInv, AfterExtension
  <2> QED BY <2>1, <2>2, <2>3, OperandValue
<1> QED BY <1>1, <1>2, <1>3, TypeCorrect, PTL DEF Spec

-----------------------------------------------------------------------------
(***************************************************************************)
(* The lowered code of a row-major contraction computes the contraction.   *)
(***************************************************************************)
\* Element (i, j) after the products of the first k values of the reduction.
PartialElement(i, j, k) ==
  [base |-> <<i, j>>, terms |-> [x \in 1 .. k |-> <<<<i, x - 1>>, <<j, x - 1>>>>]]

\* The flat accumulator of tile (m, n) after the products below k.
Chain(m, n, k) ==
  [g \in 0 .. (M0 * N0) - 1 |-> PartialElement(m + (g \div N0), n + (g % N0), k)]

\* An accumulator tile read from the vector is the chain of no products.
LEMMA ChainStart ==
  ASSUME NEW m \in Nat, NEW n \in Nat
  PROVE  AccSlice(m, n) = Chain(m, n, 0)
<1>1. ASSUME NEW i \in Nat, NEW j \in Nat
      PROVE  PartialElement(i, j, 0) = [base |-> <<i, j>>, terms |-> <<>>]
  <2>1. [x \in 1 .. 0 |-> <<<<i, x - 1>>, <<j, x - 1>>>>] = <<>>
    OBVIOUS
  <2> QED BY <2>1 DEF PartialElement
<1>2. ASSUME NEW g \in 0 .. (M0 * N0) - 1
      PROVE  /\ FlatSlice(m, n, M0, N0)[g] = <<m + (g \div N0), n + (g % N0)>>
             /\ m + (g \div N0) \in Nat /\ n + (g % N0) \in Nat
  BY DEF FlatSlice, M0, N0
<1> QED BY <1>1, <1>2 DEF AccSlice, Chain

\* Appending the next K0 products of an element to its first k.
LEMMA TermsAppend ==
  ASSUME NEW i \in Nat, NEW j \in Nat, NEW k \in Nat
  PROVE  [x \in 1 .. k |-> <<<<i, x - 1>>, <<j, x - 1>>>>]
           \o [x \in 1 .. K0 |-> <<<<i, k + x - 1>>, <<j, k + x - 1>>>>]
         = [x \in 1 .. k + K0 |-> <<<<i, x - 1>>, <<j, x - 1>>>>]
<1> DEFINE u == [x \in 1 .. k |-> <<<<i, x - 1>>, <<j, x - 1>>>>]
           v == [x \in 1 .. K0 |-> <<<<i, k + x - 1>>, <<j, k + x - 1>>>>]
           w == [x \in 1 .. k + K0 |-> <<<<i, x - 1>>, <<j, x - 1>>>>]
           T == (Nat \X Nat) \X (Nat \X Nat)
<1>1. u \in Seq(T) /\ Len(u) = k
  OBVIOUS
<1>2. v \in Seq(T) /\ Len(v) = K0
  BY DEF K0
<1>3. w \in Seq(T) /\ Len(w) = k + K0
  BY DEF K0
<1>4. u \o v \in Seq(T) /\ Len(u \o v) = k + K0
  BY <1>1, <1>2 DEF K0
<1>5. ASSUME NEW x \in 1 .. k + K0
      PROVE  (u \o v)[x] = w[x]
  <2>1. CASE x <= k
    BY <1>1, <1>2, <2>1 DEF K0
  <2>2. CASE x > k
    <3>1. x - k \in 1 .. K0 /\ (u \o v)[x] = v[x - k]
      BY <1>1, <1>2, <2>2 DEF K0
    <3> QED BY <3>1 DEF K0
  <2> QED BY <2>1, <2>2 DEF K0
<1> HIDE DEF u, v, w
<1>6. u \o v = w
  BY <1>3, <1>4, <1>5, SeqEqual
<1> QED BY <1>6 DEF u, v, w

\* One vmadot on the tiles at (m, n, k) extends the chain by the K0 products from k on.
LEMMA ChainStep ==
  ASSUME NEW m \in Nat, NEW n \in Nat, NEW k \in Nat
  PROVE  createIMEOp(Chain(m, n, k), FlatSlice(m, k, M0, K0), FlatSlice(n, k, N0, K0))
           = Chain(m, n, k + K0)
<1> DEFINE l == FlatSlice(m, k, M0, K0)
           r == FlatSlice(n, k, N0, K0)
<1>1. ASSUME NEW g \in 0 .. (M0 * N0) - 1
      PROVE  [base |-> Chain(m, n, k)[g].base, terms |-> Chain(m, n, k)[g].terms \o Products(l, r, g)]
               = Chain(m, n, k + K0)[g]
  <2> DEFINE i == m + (g \div N0)
             j == n + (g % N0)
  <2>1. i \in Nat /\ j \in Nat
    BY DEF M0, N0
  <2>2. ASSUME NEW x \in 1 .. K0
        PROVE  l[(g \div N0) * K0 + x - 1] = <<i, k + x - 1>>
               /\ r[(g % N0) * K0 + x - 1] = <<j, k + x - 1>>
    <3>1. (g \div N0) \in 0 .. 3 /\ (g % N0) \in 0 .. 3
      BY DEF M0, N0
    <3>2. ASSUME NEW d \in 0 .. 3
          PROVE  /\ d * K0 + x - 1 \in 0 .. 31
                 /\ (d * K0 + x - 1) \div K0 = d
                 /\ (d * K0 + x - 1) % K0 = x - 1
      BY DEF K0
    <3>3. ASSUME NEW d \in 0 .. 3, NEW row \in Nat
          PROVE  FlatSlice(row, k, 4, K0)[d * K0 + x - 1] = <<row + d, k + x - 1>>
      <4>1. d * K0 + x - 1 \in 0 .. (4 * K0) - 1
        BY <3>2 DEF K0
      <4>2. FlatSlice(row, k, 4, K0)[d * K0 + x - 1]
              = <<row + ((d * K0 + x - 1) \div K0), k + ((d * K0 + x - 1) % K0)>>
        BY <4>1 DEF FlatSlice
      <4>3. k + (x - 1) = k + x - 1
        BY DEF K0
      <4> QED BY <4>2, <4>3, <3>2
    <3> QED BY <3>1, <3>3 DEF M0, N0
  <2>3. Products(l, r, g) = [x \in 1 .. K0 |-> <<<<i, k + x - 1>>, <<j, k + x - 1>>>>]
    BY <2>2 DEF Products
  <2>4. PartialElement(i, j, k).terms \o Products(l, r, g) = PartialElement(i, j, k + K0).terms
    <3>1. ASSUME NEW kk
          PROVE  PartialElement(i, j, kk).terms
                   = [x \in 1 .. kk |-> <<<<i, x - 1>>, <<j, x - 1>>>>]
      BY DEF PartialElement
    <3> HIDE DEF i, j, l, r
    <3>2. [x \in 1 .. k |-> <<<<i, x - 1>>, <<j, x - 1>>>>]
            \o [x \in 1 .. K0 |-> <<<<i, k + x - 1>>, <<j, k + x - 1>>>>]
            = [x \in 1 .. k + K0 |-> <<<<i, x - 1>>, <<j, x - 1>>>>]
      BY <2>1, TermsAppend, Zenon
    <3>3. /\ PartialElement(i, j, k).terms = [x \in 1 .. k |-> <<<<i, x - 1>>, <<j, x - 1>>>>]
          /\ PartialElement(i, j, k + K0).terms
               = [x \in 1 .. k + K0 |-> <<<<i, x - 1>>, <<j, x - 1>>>>]
      BY <3>1, Zenon
    <3> QED BY <2>3, <3>2, <3>3, Zenon
  <2> QED BY <2>4 DEF Chain, PartialElement
<1> QED BY <1>1 DEF createIMEOp, Chain

(***************************************************************************)
(* The inductive invariant.  While the tile loop runs and no slice has     *)
(* been out of bounds, the tiles before the current offset hold their      *)
(* final elements and the chain holds the products below the current k.    *)
(***************************************************************************)
Final(i, j) == result[<<i, j>>] = PartialElement(i, j, op.size[2])
AllFinal == \A i \in 0 .. op.size[0] - 1, j \in 0 .. op.size[1] - 1 : Final(i, j)
ResultDomain == (0 .. op.size[0] - 1) \X (0 .. op.size[1] - 1)
LoweringSteps == {"begin", "tile", "replace", "lowered", "verifyError"}

DimsInv ==
  /\ pc = "lhsDims" => dims.N = op.size[1] /\ dims.K = op.size[2]
  /\ pc \in {"lhs", "rhs", "select", "acc", "extend"} \cup LoweringSteps =>
       dims.M = op.size[0] /\ dims.N = op.size[1] /\ dims.K = op.size[2]
OffsetInv ==
  pc \in MatchSteps \cup {"begin"} => offset = [m |-> 0, n |-> 0, k |-> 0]
TileInv ==
  pc = "tile" /\ ~illFormed =>
    /\ DOMAIN result = ResultDomain
    /\ offset.k # 0 => kAcc = Chain(offset.m, offset.n, offset.k)
    /\ \A i \in 0 .. op.size[0] - 1, j \in 0 .. op.size[1] - 1 :
         (i < offset.m \/ (i < offset.m + M0 /\ j < offset.n)) => Final(i, j)
DoneInv ==
  /\ pc = "replace" /\ ~illFormed => AllFinal
  /\ pc = "lowered" => AllFinal
IInv == RowMajor(op) => DimsInv /\ OffsetInv /\ TileInv /\ DoneInv

\* What the rewriter's reference means for a row-major contraction.
LEMMA RowMajorReference ==
  ASSUME NEW c \in ContractionType, RowMajor(c), NEW i \in Nat, NEW j \in Nat
  PROVE  ReferenceElement(c, i, j) = PartialElement(i, j, c.size[2])
<1>1. ASSUME NEW k
      PROVE  /\ MapPosition(<<0, 1>>, At(i, j, k)) = <<i, j>>
             /\ MapPosition(<<0, 2>>, At(i, j, k)) = <<i, k>>
             /\ MapPosition(<<1, 2>>, At(i, j, k)) = <<j, k>>
  BY DEF MapPosition, At
<1> QED BY <1>1 DEF ReferenceElement, RowMajor, PartialElement

\* The sizes of a row-major contraction as its maps and shapes give them.
LEMMA RowMajorShapes ==
  ASSUME NEW c \in ContractionType, RowMajor(c)
  PROVE  /\ c.size[0] \in Nat \ {0} /\ c.size[1] \in Nat \ {0} /\ c.size[2] \in Nat \ {0}
         /\ PhysicalDims(c.rhsMap, 1) # {} /\ DimSize(c, c.rhsMap, 1) = c.size[1]
         /\ PhysicalDims(c.rhsMap, 2) # {} /\ DimSize(c, c.rhsMap, 2) = c.size[2]
         /\ PhysicalDims(c.lhsMap, 0) # {} /\ DimSize(c, c.lhsMap, 0) = c.size[0]
         /\ Len(c.lhsMap) = 2
         /\ Shape(c, c.lhsMap) = <<c.size[0], c.size[2]>>
         /\ Shape(c, c.rhsMap) = <<c.size[1], c.size[2]>>
         /\ Shape(c, c.accMap) = <<c.size[0], c.size[1]>>
<1>1. c.lhsMap \in IndexingMaps /\ c.rhsMap \in IndexingMaps
  BY DEF ContractionType
<1>2. /\ PhysicalDims(c.rhsMap, 1) # {} /\ PhysicalDims(c.rhsMap, 2) # {}
      /\ PhysicalDims(c.lhsMap, 0) # {}
  <2>1. 1 \in PhysicalDims(c.rhsMap, 1) /\ 2 \in PhysicalDims(c.rhsMap, 2)
        /\ 1 \in PhysicalDims(c.lhsMap, 0)
    BY DEF RowMajor, PhysicalDims
  <2> QED BY <2>1
<1>3. c.size \in [0 .. 2 -> Nat \ {0}]
  BY DEF ContractionType
<1>4. /\ Shape(c, c.lhsMap) = <<c.size[0], c.size[2]>>
      /\ Shape(c, c.rhsMap) = <<c.size[1], c.size[2]>>
      /\ Shape(c, c.accMap) = <<c.size[0], c.size[1]>>
  BY DEF Shape, RowMajor
<1> QED BY <1>1, <1>2, <1>3, <1>4, DimSizeType DEF RowMajor

\* The tile loop keeps the invariant: one step per place of the tile in the (n, k) order.
LEMMA EmitTileInv ==
  ASSUME TypeOK, IInv, EmitTile, RowMajor(op), ~illFormed'
  PROVE  TileInv' /\ (pc' = "replace" => AllFinal')
<1> DEFINE m == offset.m
           n == offset.n
           k == offset.k
           NN == op.size[1]
           KK == op.size[2]
           MM == op.size[0]
<1>1. /\ op \in ContractionType /\ m \in Nat /\ n \in Nat /\ k \in Nat
      /\ MM \in Nat \ {0} /\ NN \in Nat \ {0} /\ KK \in Nat \ {0}
      /\ Shape(op, op.lhsMap) = <<MM, KK>> /\ Shape(op, op.rhsMap) = <<NN, KK>>
      /\ Shape(op, op.accMap) = <<MM, NN>>
  BY ContractionsAssumption, RowMajorShapes DEF TypeOK, Tiles
<1>2. ~illFormed /\ dims.M = MM /\ dims.N = NN /\ dims.K = KK /\ op' = op
  BY DEF EmitTile, IInv, DimsInv, LoweringSteps
<1>3. /\ DOMAIN result = ResultDomain
      /\ k # 0 => kAcc = Chain(m, n, k)
      /\ \A i \in 0 .. MM - 1, j \in 0 .. NN - 1 :
           (i < m \/ (i < m + M0 /\ j < n)) => Final(i, j)
  BY <1>2 DEF EmitTile, IInv, TileInv
<1>4. kAcc' = Chain(m, n, k + K0)
  <2>1. (IF k = 0 THEN AccSlice(m, n) ELSE kAcc) = Chain(m, n, k)
    BY <1>1, <1>3, ChainStart
  <2>2. kAcc' = createIMEOp(Chain(m, n, k), FlatSlice(m, k, M0, K0), FlatSlice(n, k, N0, K0))
    BY <2>1 DEF EmitTile
  <2> QED BY <1>1, <2>2, ChainStep
<1>5. CASE ~LastK
  <2>1. offset' = [m |-> m, n |-> n, k |-> k + K0] /\ pc' = "tile" /\ result' = result
    BY <1>5 DEF EmitTile, NextOffset
  <2> QED BY <1>1, <1>2, <1>3, <1>4, <2>1 DEF TileInv, Final, ResultDomain, K0
<1>6. CASE LastK
  <2>1. k + K0 <= KK /\ k + K0 >= KK
    <3>1. SliceFits(m, k, M0, K0, <<MM, KK>>)
      BY <1>1 DEF EmitTile
    <3>2. k + K0 <= KK
      BY <3>1 DEF SliceFits
    <3> QED BY <1>2, <1>6, <3>2 DEF LastK
  <2>2. kAcc' = Chain(m, n, KK)
    BY <1>1, <1>4, <2>1 DEF K0
  <2>3. result' = InsertTile(result, Chain(m, n, KK), m, n)
    BY <1>6, <2>2 DEF EmitTile
  <2>4. DOMAIN result' = ResultDomain'
    BY <1>2, <1>3, <2>3 DEF InsertTile, ResultDomain
  <2>5. ASSUME NEW i \in 0 .. MM - 1, NEW j \in 0 .. NN - 1,
               i < m \/ (i < m + M0 /\ j < n + N0)
        PROVE  result'[<<i, j>>] = PartialElement(i, j, KK)
    <3>1. <<i, j>> \in DOMAIN result
      BY <1>3 DEF ResultDomain
    <3>2. CASE i \in m .. m + M0 - 1 /\ j \in n .. n + N0 - 1
      <4>1. result'[<<i, j>>] = Chain(m, n, KK)[(i - m) * N0 + (j - n)]
        BY <2>3, <3>1, <3>2 DEF InsertTile
      <4>2. /\ (i - m) * N0 + (j - n) \in 0 .. (M0 * N0) - 1
            /\ m + (((i - m) * N0 + (j - n)) \div N0) = i
            /\ n + (((i - m) * N0 + (j - n)) % N0) = j
        <5>1. i - m \in 0 .. 3 /\ j - n \in 0 .. 3
          BY <1>1, <3>2 DEF M0, N0
        <5>2. ASSUME NEW d \in 0 .. 3, NEW e \in 0 .. 3
              PROVE  /\ d * N0 + e \in 0 .. (M0 * N0) - 1
                     /\ (d * N0 + e) \div N0 = d
                     /\ (d * N0 + e) % N0 = e
          BY DEF M0, N0
        <5> QED BY <1>1, <5>1, <5>2
      <4> QED BY <4>1, <4>2 DEF Chain
    <3>3. CASE ~(i \in m .. m + M0 - 1 /\ j \in n .. n + N0 - 1)
      <4>1. result'[<<i, j>>] = result[<<i, j>>]
        BY <2>3, <3>1, <3>3 DEF InsertTile
      <4>2. i < m \/ (i < m + M0 /\ j < n)
        BY <1>1, <2>5, <3>3 DEF M0, N0
      <4> QED BY <1>3, <4>1, <4>2 DEF Final
    <3> QED BY <3>2, <3>3
  <2>6. CASE ~LastN
    <3>1. offset' = [m |-> m, n |-> n + N0, k |-> 0] /\ pc' = "tile"
      BY <1>6, <2>6 DEF EmitTile, NextOffset
    <3> QED BY <1>1, <1>2, <2>4, <2>5, <3>1 DEF TileInv, Final
  <2>7. CASE LastN
    <3>1. offset' = [m |-> m + M0, n |-> 0, k |-> 0] /\ n + N0 >= NN
      BY <1>2, <1>6, <2>7 DEF EmitTile, NextOffset, LastN
    <3>2. \A i \in 0 .. MM - 1, j \in 0 .. NN - 1 :
            i < m + M0 => result'[<<i, j>>] = PartialElement(i, j, KK)
      BY <1>1, <2>5, <3>1 DEF N0
    <3>3. TileInv'
      BY <1>1, <1>2, <2>4, <3>1, <3>2 DEF TileInv, Final
    <3>4. ASSUME pc' = "replace" PROVE AllFinal'
      <4>1. m + M0 >= MM
        BY <1>2, <3>4 DEF EmitTile, LastM
      <4>2. \A i \in 0 .. MM - 1 : i < m + M0
        BY <1>1, <4>1 DEF M0
      <4> QED BY <1>2, <3>2, <4>2 DEF AllFinal, Final
    <3> QED BY <3>3, <3>4
  <2> QED
    <3>1. pc' = "replace" => LastN
      BY DEF EmitTile
    <3> QED BY <2>6, <2>7, <3>1
<1> QED BY <1>5, <1>6 DEF EmitTile

\* The match reads the sizes of a row-major contraction correctly and leaves the loop at
\* its first tile.
LEMMA MatchInv ==
  ASSUME TypeOK, IInv, RowMajor(op), op' = op, offset' = offset,
         CheckMask \/ CheckIterators \/ CheckRank \/ CheckRhsDims \/ CheckLhsDims
         \/ CheckLhs \/ CheckRhs \/ SelectOp \/ CheckAcc \/ ExtendOperands
  PROVE  DimsInv' /\ OffsetInv' /\ TileInv' /\ DoneInv'
<1>1. /\ op \in ContractionType
      /\ DimSize(op, op.rhsMap, 1) = op.size[1] /\ DimSize(op, op.rhsMap, 2) = op.size[2]
      /\ DimSize(op, op.lhsMap, 0) = op.size[0] /\ Len(op.lhsMap) = 2
      /\ PhysicalDims(op.lhsMap, 0) # {}
  BY ContractionsAssumption, RowMajorShapes DEF TypeOK
<1>2. pc' \notin {"tile", "replace", "lowered", "verifyError"} /\ pc \in MatchSteps
  BY DEF CheckMask, CheckIterators, CheckRank, CheckRhsDims, CheckLhsDims, CheckLhs, CheckRhs,
         SelectOp, CheckAcc, ExtendOperands, Match, MatchSteps
<1>3. OffsetInv' /\ TileInv' /\ DoneInv'
  BY <1>2 DEF IInv, OffsetInv, TileInv, DoneInv
<1>4. DimsInv'
  <2>1. CASE CheckRhsDims
    <3>1. pc' \in {"lhsDims", "rejected"}
      BY <2>1 DEF CheckRhsDims, Match
    <3>2. ASSUME pc' = "lhsDims" PROVE dims'.N = op.size[1] /\ dims'.K = op.size[2]
      <4>1. dims' = [dims EXCEPT !.N = DimSize(op, op.rhsMap, 1), !.K = DimSize(op, op.rhsMap, 2)]
        BY <2>1, <3>2 DEF CheckRhsDims, Match
      <4> QED BY <1>1, <4>1 DEF TypeOK
    <3> QED BY <3>1, <3>2 DEF DimsInv, LoweringSteps
  <2>2. CASE CheckLhsDims
    <3>1. pc' \in {"lhs", "rejected"}
      BY <2>2 DEF CheckLhsDims, Match
    <3>2. dims' = [dims EXCEPT !.M = op.size[0]]
      <4>1. PhysicalDims(op.lhsMap, 2) # {}
        <5>1. op.lhsMap = <<0, 2>>
          BY DEF RowMajor
        <5>2. 2 \in PhysicalDims(op.lhsMap, 2)
          BY <5>1 DEF PhysicalDims
        <5> QED BY <5>2
      <4> QED BY <1>1, <2>2, <4>1 DEF CheckLhsDims
    <3>3. dims.N = op.size[1] /\ dims.K = op.size[2]
      BY <2>2 DEF CheckLhsDims, Match, IInv, DimsInv
    <3>4. dims'.M = op.size[0] /\ dims'.N = op.size[1] /\ dims'.K = op.size[2]
      BY <3>2, <3>3 DEF TypeOK
    <3> QED BY <3>1, <3>4 DEF DimsInv, LoweringSteps
  <2>3. CASE CheckMask \/ CheckIterators \/ CheckRank
    <3>1. pc' \in {"iterators", "rank", "rhsDims", "rejected"}
      BY <2>3 DEF CheckMask, CheckIterators, CheckRank, Match
    <3> QED BY <3>1 DEF DimsInv, LoweringSteps
  <2>4. CASE CheckLhs \/ CheckRhs \/ SelectOp \/ CheckAcc \/ ExtendOperands
    <3>1. pc \in {"lhs", "rhs", "select", "acc", "extend"} /\ pc' # "lhsDims" /\ dims' = dims
      BY <2>4 DEF CheckLhs, CheckRhs, SelectOp, CheckAcc, ExtendOperands, Match, matchVars
    <3>2. dims.M = op.size[0] /\ dims.N = op.size[1] /\ dims.K = op.size[2]
      BY <3>1 DEF IInv, DimsInv
    <3> QED BY <3>1, <3>2 DEF DimsInv
  <2> QED BY <2>1, <2>2, <2>3, <2>4
<1> QED BY <1>3, <1>4

\* A row-major contraction that comes out of the rewrite computes what the contraction
\* meant (ResultCorrect of the machine), for every size, whole tiles or not.
THEOREM LoweringCorrect == Spec => []ResultCorrect
<1>1. Init => IInv
  BY DEF Init, IInv, DimsInv, OffsetInv, TileInv, DoneInv, LoweringSteps
<1>2. TypeOK /\ IInv /\ [Next]_vars => IInv'
  <2> SUFFICES ASSUME TypeOK, IInv, [Next]_vars, RowMajor(op)'
               PROVE  DimsInv' /\ OffsetInv' /\ TileInv' /\ DoneInv'
    BY DEF IInv
  <2>1. op' = op /\ RowMajor(op)
    BY DEF Next, vars, CheckMask, CheckIterators, CheckRank, CheckRhsDims, CheckLhsDims, CheckLhs,
           CheckRhs, SelectOp, CheckAcc, ExtendOperands, BeginLower, EmitTile, Replace, Match
  <2>2. CASE CheckMask \/ CheckIterators \/ CheckRank \/ CheckRhsDims \/ CheckLhsDims
             \/ CheckLhs \/ CheckRhs \/ SelectOp \/ CheckAcc \/ ExtendOperands
    <3>1. offset' = offset
      BY <2>2 DEF CheckMask, CheckIterators, CheckRank, CheckRhsDims, CheckLhsDims, CheckLhs,
             CheckRhs, SelectOp, CheckAcc, ExtendOperands, Match, lowerVars
    <3> QED BY <2>1, <2>2, <3>1, MatchInv
  <2>3. CASE BeginLower
    <3>1. Shape(op, op.accMap) = <<op.size[0], op.size[1]>>
          /\ op.size[0] \in Nat /\ op.size[1] \in Nat
      BY <2>1, ContractionsAssumption, RowMajorShapes DEF TypeOK
    <3>2. DOMAIN result' = ResultDomain
      BY <2>3, <3>1 DEF BeginLower, ResultDomain
    <3>3. offset' = [m |-> 0, n |-> 0, k |-> 0] /\ pc' = "tile" /\ dims' = dims
      BY <2>1, <2>3 DEF BeginLower, IInv, OffsetInv, matchVars
    <3>4. TileInv'
      BY <2>1, <3>2, <3>3 DEF TileInv, ResultDomain
    <3> QED BY <2>1, <2>3, <3>3, <3>4
            DEF BeginLower, IInv, DimsInv, OffsetInv, DoneInv, MatchSteps, LoweringSteps
  <2>4. CASE EmitTile
    <3>1. pc = "tile" /\ pc' \in {"tile", "replace"} /\ dims' = dims
      BY <2>4 DEF EmitTile, matchVars
    <3>2. DimsInv' /\ OffsetInv'
      BY <2>1, <3>1 DEF IInv, DimsInv, OffsetInv, LoweringSteps, MatchSteps
    <3>3. TileInv' /\ DoneInv'
      BY <2>1, <2>4, <3>1, EmitTileInv DEF TileInv, DoneInv
    <3> QED BY <3>2, <3>3
  <2>5. CASE Replace
    BY <2>1, <2>5 DEF Replace, matchVars, lowerVars, IInv, DimsInv, OffsetInv, TileInv, DoneInv,
       AllFinal, Final, LoweringSteps, MatchSteps
  <2>6. CASE UNCHANGED vars
    BY <2>1, <2>6 DEF vars, IInv, DimsInv, OffsetInv, TileInv, DoneInv, AllFinal, Final, ResultDomain
  <2> QED BY <2>2, <2>3, <2>4, <2>5, <2>6 DEF Next
<1>3. TypeOK /\ IInv => ResultCorrect
  <2> SUFFICES ASSUME TypeOK, IInv, pc = "lowered", RowMajor(op),
                      NEW i \in 0 .. op.size[0] - 1, NEW j \in 0 .. op.size[1] - 1
               PROVE  result[ReferenceElement(op, i, j).base] = ReferenceElement(op, i, j)
    BY DEF ResultCorrect, Correct
  <2>1. op \in ContractionType /\ i \in Nat /\ j \in Nat
    BY ContractionsAssumption, RowMajorShapes DEF TypeOK
  <2>2. ReferenceElement(op, i, j) = PartialElement(i, j, op.size[2])
    BY <2>1, RowMajorReference
  <2>3. Final(i, j)
    BY DEF IInv, DoneInv, AllFinal
  <2> QED BY <2>2, <2>3 DEF Final, PartialElement
<1> QED BY <1>1, <1>2, <1>3, TypeCorrect, PTL DEF Spec
=============================================================================
