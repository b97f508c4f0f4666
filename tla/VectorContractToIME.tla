------------------------- MODULE VectorContractToIME -------------------------
(***************************************************************************)
(* The rewrite of one vector.contract operation into a sequence of         *)
(* riscv_ime.vmadot operations: the match (matchAndRewrite, the two        *)
(* matchAndInit methods), whose early returns are the actions Check..., and *)
(* lower(), whose tile loop is the action EmitTile.                        *)
(*                                                                         *)
(* Values are symbolic: an element of the result is a record of the        *)
(* accumulator element it started from and of the products added to it, in *)
(* order, each product being the pair of physical positions of its factors *)
(* in the LHS and RHS vectors.  What a correct lowering emits is then true *)
(* for all data.                                                           *)
(***************************************************************************)
EXTENDS Integers, Sequences

CONSTANT Contractions   \* the vector.contract operations the rewriter may meet

-----------------------------------------------------------------------------
(***************************************************************************)
(* vector.contract.  Iterators are 0 = m, 1 = n, 2 = k; an indexing map is  *)
(* the sequence of the iterators of its results.  An operand is described  *)
(* by the extension that defines it, the element type before it and the    *)
(* element type of the operand itself.                                     *)
(***************************************************************************)
M0 == 4
N0 == 4
K0 == 8

ExtensionOps == {"none", "extsi", "extui"}
ElementTypes == {"i4", "i8", "i16", "i32", "f32"}
SmallInts == {"i4", "i8"}
Bits == [t \in {"i4", "i8", "i16", "i32"} |->
           CASE t = "i4" -> 4 [] t = "i8" -> 8 [] t = "i16" -> 16 [] t = "i32" -> 32]

OperandDefs == [def : ExtensionOps, in : ElementTypes, elt : ElementTypes]
IndexingMaps == UNION {[1 .. r -> 0 .. 2] : r \in 1 .. 3}

ContractionType ==
  [masked : BOOLEAN, iterators : {"ppr", "pr", "prp"}, size : [0 .. 2 -> Nat \ {0}],
   lhsMap : IndexingMaps, rhsMap : IndexingMaps, accMap : IndexingMaps,
   lhs : OperandDefs, rhs : OperandDefs, accElt : ElementTypes]

ASSUME ContractionsAssumption == Contractions \subseteq ContractionType

\* The verifiers of arith.extsi and arith.extui: the result is wider than the operand.
WellTypedOperand(v) ==
  IF v.def = "none" THEN v.in = v.elt
  ELSE v.in \in DOMAIN Bits /\ v.elt \in DOMAIN Bits /\ Bits[v.in] < Bits[v.elt]
ASSUME OperandsAssumption ==
  \A c \in Contractions : WellTypedOperand(c.lhs) /\ WellTypedOperand(c.rhs)

\* The shape an indexing map gives its operand.
Shape(c, map) == [p \in DOMAIN map |-> c.size[map[p]]]

\* findPhysicalDim: the first physical dimension that the map assigns to iterator i.
PhysicalDims(map, i) == {p \in DOMAIN map : map[p] = i}
FirstOf(S) == CHOOSE p \in S : \A q \in S : p <= q
DimSize(c, map, i) == Shape(c, map)[FirstOf(PhysicalDims(map, i))]

(***************************************************************************)
(* getExtOperand: the operand behind an extension of the given kind, a set *)
(* of at most one.  Its source tells whether it is the extension's input   *)
(* or the contraction's own operand (an implicit sign extension).          *)
(***************************************************************************)
Chosen(t, from, ext) == [elt |-> t, source |-> from, signed |-> ext = "extsi", extended |-> FALSE]
\* Faulty variant of getExtOperand: an explicit extension of any width is taken.
getExtOperandAnyWidth(ext, v) ==
  IF v.def = ext
  THEN IF v.elt = "i32" THEN {Chosen(v.in, "input", ext)} ELSE {}
  ELSE IF ext = "extsi" /\ v.elt \in SmallInts THEN {Chosen(v.elt, "operand", ext)} ELSE {}

getExtOperand(ext, v) ==
  IF v.def = ext
  THEN IF v.in \in SmallInts /\ v.elt = "i32" THEN {Chosen(v.in, "input", ext)} ELSE {}
  ELSE IF ext = "extsi" /\ v.elt \in SmallInts THEN {Chosen(v.elt, "operand", ext)} ELSE {}

\* What the hardware reads as signed: <<vs1, vs2>>.
SignedOperands ==
  [Vmadot |-> <<TRUE, TRUE>>, Vmadotu |-> <<FALSE, FALSE>>,
   Vmadotsu |-> <<TRUE, FALSE>>, Vmadotus |-> <<FALSE, TRUE>>]

IMEOps == {"Nop", "Vmadot", "Vmadotu", "Vmadotsu", "Vmadotus"}

-----------------------------------------------------------------------------
(***************************************************************************)
(* Vectors of the lowered code.                                            *)
(***************************************************************************)
ZeroElement == [base |-> <<>>, terms |-> <<>>]

\* extract2D followed by flattenTo1D: row-major positions of a slice.
FlatSlice(row, col, rows, cols) ==
  [f \in 0 .. (rows * cols) - 1 |-> <<row + (f \div cols), col + (f % cols)>>]

AccSlice(row, col) ==
  [g \in 0 .. (M0 * N0) - 1 |->
     [base |-> FlatSlice(row, col, M0, N0)[g], terms |-> <<>>]]

\* Faulty variant of SliceFits: the columns are never looked at.
SliceFitsRows(row, col, rows, cols, shape) == Len(shape) = 2 /\ row + rows <= shape[1]

\* The slice lies within a rank-2 vector of the given shape.
SliceFits(row, col, rows, cols, shape) ==
  /\ Len(shape) = 2
  /\ row + rows <= shape[1]
  /\ col + cols <= shape[2]

\* The vmadot instruction: acc[i, j] += lhs[i, *] . rhs[j, *] on flat registers.
Products(l, r, g) ==
  [x \in 1 .. K0 |-> <<l[(g \div N0) * K0 + x - 1], r[(g % N0) * K0 + x - 1]>>]
createIMEOp(acc, l, r) ==
  [g \in 0 .. (M0 * N0) - 1 |->
     [base |-> acc[g].base, terms |-> acc[g].terms \o Products(l, r, g)]]

\* unflattenTo followed by InsertStridedSliceOp.
InsertTile(res, tile, row, col) ==
  [p \in DOMAIN res |->
     IF p[1] \in row .. row + M0 - 1 /\ p[2] \in col .. col + N0 - 1
     THEN tile[(p[1] - row) * N0 + (p[2] - col)]
     ELSE res[p]]

-----------------------------------------------------------------------------
VARIABLES
  op,       \* the vector.contract being rewritten
  pc,       \* the step of matchAndRewrite reached
  dims,     \* dimM, dimN, dimK of the rewriter
  lhs, rhs, \* the rewriter's operands: chosen value, signedness, i8 extension created
  imeOp,    \* the chosen instruction
  offset,   \* the tile offsets of the loop in lower()
  kAcc,     \* the flat accumulator threaded through the k tiles
  result,   \* the vector that will replace the contraction
  illFormed \* an op with an out-of-bounds slice was created

vars == <<op, pc, dims, lhs, rhs, imeOp, offset, kAcc, result, illFormed>>
matchVars == <<dims, lhs, rhs, imeOp>>
lowerVars == <<offset, kAcc, result, illFormed>>

MatchedOperands ==
  [elt : SmallInts, source : {"input", "operand"}, signed : BOOLEAN, extended : BOOLEAN]
NoOperand == [elt |-> "i8", source |-> "operand", signed |-> FALSE, extended |-> FALSE]
NoAcc == [g \in 0 .. (M0 * N0) - 1 |-> ZeroElement]
MatchSteps == {"mask", "iterators", "rank", "rhsDims", "lhsDims", "lhs", "rhs",
               "select", "acc", "extend"}

Init ==
  /\ op \in Contractions
  /\ pc = "mask"
  /\ dims = [M |-> 0, N |-> 0, K |-> 0]
  /\ lhs = NoOperand /\ rhs = NoOperand
  /\ imeOp = "Nop"
  /\ offset = [m |-> 0, n |-> 0, k |-> 0]
  /\ kAcc = NoAcc
  /\ result = <<>>
  /\ illFormed = FALSE

\* One early return of the match: proceed when ok, else leave the op to other patterns.
Match(step, ok, next) ==
  /\ pc = step
  /\ pc' = IF ok THEN next ELSE "rejected"
  /\ UNCHANGED <<op, lowerVars>>

CheckMask == Match("mask", ~op.masked, "iterators") /\ UNCHANGED matchVars

CheckIterators ==
  Match("iterators", op.iterators \in {"ppr", "pr"}, "rank") /\ UNCHANGED matchVars

CheckRank ==
  Match("rank", Len(op.lhsMap) <= 2 /\ Len(op.rhsMap) = 2, "rhsDims") /\ UNCHANGED matchVars

CheckRhsDims ==
  LET ok == PhysicalDims(op.rhsMap, 1) # {} /\ PhysicalDims(op.rhsMap, 2) # {}
  IN /\ Match("rhsDims", ok, "lhsDims")
     /\ dims' = IF ok THEN [dims EXCEPT !.N = DimSize(op, op.rhsMap, 1),
                                        !.K = DimSize(op, op.rhsMap, 2)]
                      ELSE dims
     /\ UNCHANGED <<lhs, rhs, imeOp>>

\* Rank 1 takes the LHS as one row of K elements; rank 2 goes through its map.
CheckLhsDims ==
  LET vecmat == Len(op.lhsMap) = 1
      resolved == vecmat \/ (PhysicalDims(op.lhsMap, 0) # {} /\ PhysicalDims(op.lhsMap, 2) # {})
      lhsDimK == IF vecmat THEN Shape(op, op.lhsMap)[1] ELSE DimSize(op, op.lhsMap, 2)
  IN /\ Match("lhsDims", resolved /\ lhsDimK = dims.K, "lhs")
     /\ dims' = IF resolved THEN [dims EXCEPT !.M = IF vecmat THEN 1 ELSE DimSize(op, op.lhsMap, 0)]
                            ELSE dims
     /\ UNCHANGED <<lhs, rhs, imeOp>>

\* getExtOperand is tried with ExtSIOp, then with ExtUIOp.
Operands(v) ==
  IF getExtOperand("extsi", v) # {} THEN getExtOperand("extsi", v) ELSE getExtOperand("extui", v)

CheckLhs ==
  /\ Match("lhs", Operands(op.lhs) # {}, "rhs")
  /\ lhs' \in IF Operands(op.lhs) # {} THEN Operands(op.lhs) ELSE {lhs}
  /\ UNCHANGED <<dims, rhs, imeOp>>

CheckRhs ==
  /\ Match("rhs", Operands(op.rhs) # {}, "select")
  /\ rhs' \in IF Operands(op.rhs) # {} THEN Operands(op.rhs) ELSE {rhs}
  /\ UNCHANGED <<dims, lhs, imeOp>>

\* Faulty variant of SelectOp: the two mixed-signedness instructions are exchanged.
SelectOpExchanged ==
  /\ Match("select", TRUE, "acc")
  /\ imeOp' = CASE lhs.signed /\ rhs.signed   -> "Vmadot"
                [] ~lhs.signed /\ ~rhs.signed -> "Vmadotu"
                [] lhs.signed /\ ~rhs.signed  -> "Vmadotus"
                [] OTHER                      -> "Vmadotsu"
  /\ UNCHANGED <<dims, lhs, rhs>>

SelectOp ==
  /\ Match("select", TRUE, "acc")
  /\ imeOp' = CASE lhs.signed /\ rhs.signed   -> "Vmadot"
                [] ~lhs.signed /\ ~rhs.signed -> "Vmadotu"
                [] lhs.signed /\ ~rhs.signed  -> "Vmadotsu"
                [] OTHER                      -> "Vmadotus"
  /\ UNCHANGED <<dims, lhs, rhs>>

\* Faulty variant of CheckAcc: the operands are extended before the last check.
CheckAccAfterExtension ==
  /\ Match("acc", op.accElt = "i32", "extend")
  /\ lhs' = [lhs EXCEPT !.extended = lhs.elt # "i8"]
  /\ rhs' = [rhs EXCEPT !.extended = rhs.elt # "i8"]
  /\ UNCHANGED <<dims, imeOp>>

CheckAcc == Match("acc", op.accElt = "i32", "extend") /\ UNCHANGED matchVars

\* extendSmallIntVector on both sides: the first ops the rewrite creates.
ExtendOperands ==
  /\ Match("extend", TRUE, "begin")
  /\ lhs' = [lhs EXCEPT !.extended = lhs.elt # "i8"]
  /\ rhs' = [rhs EXCEPT !.extended = rhs.elt # "i8"]
  /\ UNCHANGED <<dims, imeOp>>

\* lower() starts from a zero constant of the accumulator's type.
BeginLower ==
  /\ pc = "begin"
  /\ pc' = "tile"
  /\ result' = [p \in (0 .. Shape(op, op.accMap)[1] - 1) \X (0 .. Shape(op, op.accMap)[2] - 1)
                  |-> ZeroElement]
  /\ UNCHANGED <<op, matchVars, offset, kAcc, illFormed>>

\* StaticTileOffsetRange with loop order (m, n, k): k is the fastest dimension.
LastK == offset.k + K0 >= dims.K
LastN == offset.n + N0 >= dims.N
LastM == offset.m + M0 >= dims.M
\* Faulty variant of NextOffset: the carry out of k does not advance n.
NextOffsetWithoutCarry ==
  CASE ~LastK          -> [m |-> offset.m, n |-> offset.n, k |-> offset.k + K0]
    [] LastK /\ ~LastN -> [m |-> offset.m, n |-> offset.n, k |-> 0]
    [] OTHER           -> [m |-> offset.m + M0, n |-> 0, k |-> 0]

NextOffset ==
  CASE ~LastK          -> [m |-> offset.m, n |-> offset.n, k |-> offset.k + K0]
    [] LastK /\ ~LastN -> [m |-> offset.m, n |-> offset.n + N0, k |-> 0]
    [] OTHER           -> [m |-> offset.m + M0, n |-> 0, k |-> 0]

EmitTile ==
  LET m == offset.m
      n == offset.n
      k == offset.k
      flatAcc == IF k = 0 THEN AccSlice(m, n) ELSE kAcc
      fits == /\ SliceFits(m, k, M0, K0, Shape(op, op.lhsMap))
              /\ SliceFits(n, k, N0, K0, Shape(op, op.rhsMap))
              /\ (k = 0 \/ LastK) => SliceFits(m, n, M0, N0, Shape(op, op.accMap))
  IN /\ pc = "tile"
     /\ kAcc' = createIMEOp(flatAcc, FlatSlice(m, k, M0, K0), FlatSlice(n, k, N0, K0))
     /\ result' = IF LastK THEN InsertTile(result, kAcc', m, n) ELSE result
     /\ illFormed' = (illFormed \/ ~fits)
     /\ offset' = NextOffset
     /\ pc' = IF LastK /\ LastN /\ LastM THEN "replace" ELSE "tile"
     /\ UNCHANGED <<op, matchVars>>

\* replaceOp; the IR verifier then refuses a function with an ill-formed slice.
Replace ==
  /\ pc = "replace"
  /\ pc' = IF illFormed THEN "verifyError" ELSE "lowered"
  /\ UNCHANGED <<op, matchVars, lowerVars>>

Next ==
  \/ CheckMask
  \/ CheckIterators
  \/ CheckRank
  \/ CheckRhsDims
  \/ CheckLhsDims
  \/ CheckLhs
  \/ CheckRhs
  \/ SelectOp
  \/ CheckAcc
  \/ ExtendOperands
  \/ BeginLower
  \/ EmitTile
  \/ Replace

Spec == Init /\ [][Next]_vars /\ WF_vars(Next)

-----------------------------------------------------------------------------
(***************************************************************************)
(* Properties.                                                             *)
(***************************************************************************)
FinalSteps == {"rejected", "verifyError", "lowered"}
Tiles == [m : Nat, n : Nat, k : Nat]

\* Type invariant of the rewriter's fields and of the values it creates.
TypeOK ==
  /\ op \in Contractions
  /\ pc \in MatchSteps \cup {"begin", "tile", "replace"} \cup FinalSteps
  /\ dims \in [M : Nat, N : Nat, K : Nat]
  /\ lhs \in MatchedOperands /\ rhs \in MatchedOperands
  /\ imeOp \in IMEOps
  /\ offset \in Tiles
  /\ DOMAIN kAcc = 0 .. (M0 * N0) - 1
  /\ illFormed \in BOOLEAN

\* The contraction's own meaning: the element at (m, n) and the products it sums.
At(m, n, k) == [i \in 0 .. 2 |-> CASE i = 0 -> m [] i = 1 -> n [] i = 2 -> k]
MapPosition(map, it) == [p \in DOMAIN map |-> it[map[p]]]
ReferenceElement(c, m, n) ==
  [base |-> MapPosition(c.accMap, At(m, n, 0)),
   terms |-> [x \in 1 .. c.size[2] |-> <<MapPosition(c.lhsMap, At(m, n, x - 1)),
                                         MapPosition(c.rhsMap, At(m, n, x - 1))>>]]

\* The result the finished code computes is the contraction's, element by element.
Correct ==
  \A m \in 0 .. op.size[0] - 1, n \in 0 .. op.size[1] - 1 :
    LET e == ReferenceElement(op, m, n) IN result[e.base] = e

\* Layout the extractions assume: row-major (M,K) x (N,K) -> (M,N).
RowMajor(c) == c.lhsMap = <<0, 2>> /\ c.rhsMap = <<1, 2>> /\ c.accMap = <<0, 1>>

\* A row-major contraction that comes out of the rewrite computes what the contraction
\* meant, every product once and in the right element, whatever its sizes: the k chain is
\* started from the right accumulator tile, never reset or carried over to the next (m, n)
\* tile, and sizes that are no multiple of the hardware tile do not slip through (lower()).
ResultCorrect == pc = "lowered" /\ RowMajor(op) => Correct

\* For the bit pattern b of the value before extension, what the contraction multiplies
\* and what the chosen instruction reads after the i8 extension (extendSmallIntVector,
\* SelectOp, the switch of createIMEOp).
ToSigned(b, w) == IF b >= 2 ^ (w - 1) THEN b - 2 ^ w ELSE b
SourceValue(v, b) == IF v.def = "extui" THEN b ELSE ToSigned(b, Bits[v.in])
RegisterByte(x, b) == IF x.extended /\ x.signed THEN ToSigned(b, Bits[x.elt]) % 256 ELSE b
OperandPreserved(v, x, readsSigned) ==
  \A b \in 0 .. 2 ^ Bits[v.in] - 1 :
    LET byte == RegisterByte(x, b)
    IN SourceValue(v, b) = IF readsSigned THEN ToSigned(byte, 8) ELSE byte

\* The signedness survives the three places that encode it: the instruction multiplies the
\* very integers the contraction multiplies, for every bit pattern of both operands.
OperandsPreserved ==
  pc = "lowered" =>
    /\ OperandPreserved(op.lhs, lhs, SignedOperands[imeOp][1])
    /\ OperandPreserved(op.rhs, rhs, SignedOperands[imeOp][2])

\* A match that fails leaves the function untouched for the other patterns: no extension
\* op was created on either side before the last check (matchAndInit).
RejectionLeavesNoTrace == pc = "rejected" => ~lhs.extended /\ ~rhs.extended

\* Every rewrite ends: the offsets of the tile loop reach the last tile.
Termination == <>(pc \in FinalSteps)

(***************************************************************************)
(* Claims of the repository's texts that the code does not meet.           *)
(***************************************************************************)
\* The README's issue 5: (K, N)-ordered contractions are valid and handled.
KNOrderedCorrect ==
  pc = "lowered" /\ op.lhsMap = <<0, 2>> /\ op.rhsMap = <<2, 1>> /\ op.accMap = <<0, 1>> => Correct
=============================================================================
