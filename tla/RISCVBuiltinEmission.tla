-------------------------- MODULE RISCVBuiltinEmission --------------------------
(***************************************************************************)
(* CodeGenFunction::EmitRISCVBuiltinExpr: the arguments of a builtin call, *)
(* in the order of the C function, become the operands of an intrinsic,    *)
(* in the intrinsic's.  Each emitter moves, adds and drops operands by     *)
(* position and takes the types that select the overload from positions    *)
(* of its own; the positions depend on the mask and the passthru operand   *)
(* that the policy of the form gives or omits.                             *)
(*                                                                         *)
(* Operands are names; a form is [emitter, suffix, rm]: the emitter, the   *)
(* policy suffix of the builtin and whether it has a rounding mode.        *)
(***************************************************************************)
EXTENDS Integers, Sequences, SequencesExt

\* The policies: tail agnostic, mask agnostic.  "" and "m" leave both to the machine and have
\* no passthru operand.
Masked(f) == f.suffix \in {"m", "tum", "tumu", "mu"}
VTA(f) == f.suffix \in {"", "m", "mu"}
VMA(f) == f.suffix \in {"", "m", "tum"}
\* Faulty variant of NoPassthru: a form with a mask always has a passthru operand.
NoPassthruUnmasked(f) == ~Masked(f) /\ VTA(f)
NoPassthru(f) == VTA(f) /\ (Masked(f) => VMA(f))

\* The sources of a builtin, between the passthru and the rounding mode.
Sources(emitter) ==
  CASE emitter \in {"vleff", "segloadff"}           -> <<"ptr", "new_vl">>
    [] emitter \in {"vsse", "stridedsegstore"}      -> <<"ptr", "stride", "value">>
    [] emitter \in {"vsxei", "indexedsegstore"}     -> <<"ptr", "index", "value">>
    [] emitter \in {"vse", "segstore"}              -> <<"ptr", "value">>
    [] emitter = "segload"                          -> <<"ptr">>
    [] emitter = "stridedsegload"                   -> <<"ptr", "stride">>
    [] emitter = "indexedsegload"                   -> <<"ptr", "index">>
    [] emitter \in {"vneg", "vnot", "vmmv", "vfneg", "vwcvt", "vncvt", "funary", "fconv"} ->
         <<"op0">>
    [] emitter \in {"fma", "wfma"}                  -> <<"vd", "op1", "op2">>
    [] OTHER                                        -> <<"op0", "op1">>
Stores == {"vsse", "vsxei", "vse", "segstore", "stridedsegstore", "indexedsegstore"}
HasPassthru(f) ==
  f.emitter \notin Stores \cup {"fma", "wfma", "vmmv"} /\ f.suffix \in {"tu", "tum", "tumu", "mu"}
\* The arguments of the builtin.
Arguments(f) ==
  (IF Masked(f) THEN <<"mask">> ELSE <<>>) \o (IF HasPassthru(f) THEN <<"passthru">> ELSE <<>>)
    \o Sources(f.emitter) \o (IF f.rm THEN <<"rm">> ELSE <<>>) \o <<"vl">>

-----------------------------------------------------------------------------
(***************************************************************************)
(* What the emitters have in common.                                       *)
(***************************************************************************)
\* The mask moves from the front to before the last n operands.
MaskBefore(s, n) == SubSeq(s, 2, Len(s) - n) \o <<s[1]>> \o SubSeq(s, Len(s) - n + 1, Len(s))
WithMask(f, s, n) == IF Masked(f) THEN MaskBefore(s, n) ELSE s
WithPoison(f, s) == IF NoPassthru(f) THEN <<"poison">> \o s ELSE s
WithPolicy(f, s) == IF Masked(f) THEN Append(s, "policy") ELSE s
Swap(s, i, j) == [s EXCEPT ![i] = s[j], ![j] = s[i]]
ThirdFirst(s) == <<s[3], s[1], s[2]>> \o SubSeq(s, 4, Len(s))
Emission(ops, types) == [ops |-> ops, types |-> types, newVL |-> "none", align |-> "none"]

\* The rounding mode of a form that has none is the dynamic one; whether it has one is read
\* off the number of arguments.
HasRoundModeOp(f, s, sources) ==
  Len(s) = sources + 2 + (IF Masked(f) THEN 1 ELSE 0) + (IF NoPassthru(f) THEN 0 ELSE 1)
WithRoundMode(s, has) == IF has THEN s ELSE InsertAt(s, Len(s), "dyn")

-----------------------------------------------------------------------------
(***************************************************************************)
(* Loads and stores.                                                       *)
(***************************************************************************)
VLEFF(f) ==
  LET args == Arguments(f)
      all == WithPolicy(f, WithPoison(f, WithMask(f, args, 1)))
  IN [ops |-> RemoveAt(all, 3), newVL |-> all[3],
      types |-> IF Masked(f) THEN <<"result", all[5], all[3]>> ELSE <<"result", all[4], all[2]>>,
      align |-> IF Masked(f) THEN args[Len(args) - 1] ELSE args[2]]

VSSE(f) ==
  LET ops == IF Masked(f) THEN Swap(Arguments(f), 1, 4) ELSE ThirdFirst(Arguments(f))
  IN Emission(ops, <<ops[1], ops[2], IF Masked(f) THEN ops[5] ELSE ops[4]>>)
IndexedStore(f) ==
  LET ops == IF Masked(f) THEN Swap(Arguments(f), 1, 4) ELSE ThirdFirst(Arguments(f))
  IN Emission(ops, SubSeq(ops, 1, 3) \o <<IF Masked(f) THEN ops[5] ELSE ops[4]>>)
VSEMask(f) ==
  LET ops == Swap(Arguments(f), 1, IF Masked(f) THEN 3 ELSE 2)
  IN Emission(ops, <<ops[1], ops[2], IF Masked(f) THEN ops[4] ELSE ops[3]>>)

\* The index of the pointer in the arguments of a segment load.
Offset(f) == (IF Masked(f) THEN 1 ELSE 0) + (IF NoPassthru(f) THEN 0 ELSE 1)
\* The operands of a segment load: the policy, then the element width.
SegOps(f) == Append(WithPolicy(f, WithPoison(f, WithMask(f, Arguments(f), 1))), "sew")
SegLoad(f) ==
  LET args == Arguments(f)
  IN Emission(SegOps(f), IF Masked(f) THEN <<"result", args[Offset(f) + 1], args[1], Last(args)>>
                         ELSE <<"result", args[Offset(f) + 1], Last(args)>>)
SegStore(f) ==
  LET ops == Append(Swap(Arguments(f), 1, IF Masked(f) THEN 3 ELSE 2), "sew")
  IN Emission(ops, SubSeq(ops, 1, IF Masked(f) THEN 4 ELSE 3))
SegLoadFF(f) ==
  LET args == Arguments(f)
  IN [ops |-> RemoveAt(SegOps(f), 3), newVL |-> SegOps(f)[3], align |-> args[Offset(f) + 2],
      types |-> <<"result", Last(args), args[Offset(f) + 1]>>
                  \o (IF Masked(f) THEN <<args[1]>> ELSE <<>>)]
StridedSegLoad(f) ==
  LET args == Arguments(f)
  IN Emission(SegOps(f), <<"result", args[Offset(f) + 1], Last(args)>>
                           \o (IF Masked(f) THEN <<args[1]>> ELSE <<>>))
StridedSegStore(f) ==
  LET ops == Append(IF Masked(f) THEN Swap(Arguments(f), 1, 4) ELSE ThirdFirst(Arguments(f)), "sew")
  IN Emission(ops, IF Masked(f) THEN <<ops[1], ops[2], ops[5], ops[4]>>
                   ELSE <<ops[1], ops[2], ops[4]>>)
IndexedSegLoad(f) ==
  LET ops == SegOps(f)
  IN Emission(ops, <<"result">> \o SubSeq(ops, 2, IF Masked(f) THEN 5 ELSE 4))
IndexedSegStore(f) ==
  LET ops == Append(IF Masked(f) THEN Swap(Arguments(f), 1, 4) ELSE ThirdFirst(Arguments(f)), "sew")
  IN Emission(ops, SubSeq(ops, 1, IF Masked(f) THEN 5 ELSE 4))

-----------------------------------------------------------------------------
(***************************************************************************)
(* Pseudo instructions: another instruction with an operand made up.       *)
(***************************************************************************)
Pseudo(f, made) ==
  WithPolicy(f, InsertAt(WithPoison(f, WithMask(f, Arguments(f), 1)), 3, made))
AtVL(f, ops) == ops[IF Masked(f) THEN 5 ELSE 4]
PseudoUnary(f) ==
  LET ops == Pseudo(f, "zero") IN Emission(ops, <<"result", "elem", AtVL(f, ops)>>)
PseudoVNot(f) ==
  LET ops == Pseudo(f, "ones") IN Emission(ops, <<"result", "elem", AtVL(f, ops)>>)
PseudoMask(f) ==
  LET args == Arguments(f) IN Emission(InsertAt(args, 2, args[1]), <<"result", args[2]>>)
PseudoVFUnary(f) ==
  LET args == WithPoison(f, WithMask(f, Arguments(f), 1))
      ops == WithPolicy(f, InsertAt(args, 3, args[2]))
  IN Emission(ops, IF Masked(f) THEN <<"result", ops[3], Last(ops)>>
                   ELSE <<"result", args[2], args[3]>>)
PseudoVWCVT(f) ==
  LET ops == Pseudo(f, "zero") IN Emission(ops, <<"result", ops[2], "elem", AtVL(f, ops)>>)
PseudoVNCVT(f) ==
  LET ops == Pseudo(f, "xzero")
  IN Emission(ops, <<"result", ops[2], AtVL(f, ops), AtVL(f, ops)>>)

-----------------------------------------------------------------------------
(***************************************************************************)
(* Arithmetic with a rounding mode: it stands between the mask and vl.     *)
(***************************************************************************)
Rounded(f, args) == WithPolicy(f, WithPoison(f, WithMask(f, args, 2)))
WithFrm(f, sources) ==
  WithRoundMode(Arguments(f), HasRoundModeOp(f, Arguments(f), sources))
Averaging(f) ==
  LET ops == Rounded(f, Arguments(f)) IN Emission(ops, <<"result", ops[3], Last(ops)>>)
NarrowingClip(f) ==
  LET ops == Rounded(f, Arguments(f)) IN Emission(ops, <<"result", ops[2], ops[3], Last(ops)>>)
FloatingPoint(f) ==
  LET ops == Rounded(f, WithFrm(f, 2)) IN Emission(ops, <<"result", ops[3], Last(ops)>>)
WideningFloatingPoint(f) ==
  LET ops == Rounded(f, WithFrm(f, 2)) IN Emission(ops, <<"result", ops[2], ops[3], Last(ops)>>)
FloatingUnary(f) ==
  LET ops == Rounded(f, WithFrm(f, 1)) IN Emission(ops, <<"result", Last(ops)>>)
FloatingConv(f) ==
  LET ops == Rounded(f, WithFrm(f, 1)) IN Emission(ops, <<"result", ops[2], Last(ops)>>)
\* A reduction has no policy operand.
FloatingReduction(f) ==
  LET ops == WithPoison(f, WithMask(f, WithFrm(f, 2), 2))
  IN Emission(ops, <<"result", ops[2], Last(ops)>>)
\* The multiply-adds overwrite a source: no passthru, and the policy with or without a mask.
FMAFrm(f) ==
  LET args == Arguments(f) IN WithRoundMode(args, Len(args) = IF Masked(f) THEN 6 ELSE 5)
FMA(f) ==
  LET ops == Append(WithMask(f, FMAFrm(f), 2), "policy")
  IN Emission(ops, <<"result", ops[2], Last(ops)>>)
WideningFMA(f) ==
  LET args == FMAFrm(f)
      ops == Append(IF Masked(f) THEN MaskBefore(args, Len(args) - 4) ELSE args, "policy")
  IN Emission(ops, <<"result", ops[2], ops[3], Last(ops)>>)

EmitVector(f) ==
  CASE f.emitter = "vleff"           -> VLEFF(f)
    [] f.emitter = "vsse"            -> VSSE(f)
    [] f.emitter = "vsxei"           -> IndexedStore(f)
    [] f.emitter = "vse"             -> VSEMask(f)
    [] f.emitter = "segload"         -> SegLoad(f)
    [] f.emitter = "segstore"        -> SegStore(f)
    [] f.emitter = "segloadff"       -> SegLoadFF(f)
    [] f.emitter = "stridedsegload"  -> StridedSegLoad(f)
    [] f.emitter = "stridedsegstore" -> StridedSegStore(f)
    [] f.emitter = "indexedsegload"  -> IndexedSegLoad(f)
    [] f.emitter = "indexedsegstore" -> IndexedSegStore(f)
    [] f.emitter = "vneg"            -> PseudoUnary(f)
    [] f.emitter = "vnot"            -> PseudoVNot(f)
    [] f.emitter = "vmmv"            -> PseudoMask(f)
    [] f.emitter = "vfneg"           -> PseudoVFUnary(f)
    [] f.emitter = "vwcvt"           -> PseudoVWCVT(f)
    [] f.emitter = "vncvt"           -> PseudoVNCVT(f)
    [] f.emitter = "averaging"       -> Averaging(f)
    [] f.emitter = "clip"            -> NarrowingClip(f)
    [] f.emitter = "fbinary"         -> FloatingPoint(f)
    [] f.emitter = "wfbinary"        -> WideningFloatingPoint(f)
    [] f.emitter = "funary"          -> FloatingUnary(f)
    [] f.emitter = "fconv"           -> FloatingConv(f)
    [] f.emitter = "reduction"       -> FloatingReduction(f)
    [] f.emitter = "fma"             -> FMA(f)
    [] f.emitter = "wfma"            -> WideningFMA(f)
-----------------------------------------------------------------------------
(***************************************************************************)
(* Builtins without a policy.                                              *)
(***************************************************************************)
\* vget and vset: where the part begins, an element of a group or a vector of a tuple.
PartOffset(whole, part, i) ==
  IF whole.vectors # 1 THEN i
  ELSE (i % (whole.elts \div part.elts)) * part.elts
\* vcreate: where each of its arguments goes.
CreateOffsets(whole, part, n) ==
  [i \in 1 .. n |-> IF whole.vectors # 1 THEN i - 1 ELSE part.elts * (i - 1)]

\* ntl_load and ntl_store: the domain of the access.
DomainVal(op, args) ==
  LET n == IF op = "ntl_store" THEN 3 ELSE 2 IN IF Len(args) = n THEN args[n] ELSE 5

Bytes == {"8x4", "16x2", "8x8", "16x4"}
Halves == {"16x2", "16x4", "32x2"}
\* The packed builtins of the outer switch: under each heading of the case, its names with the
\* types they have.
Averaged == {"paadd", "paaddu", "pasub", "pasubu"} \X (Bytes \cup {"32x2"})
Exchanged == {"pas", "psa", "psas", "pssa", "paas", "pasa"} \X Halves
Differences == {"pabd", "pabdu", "psabs"} \X Bytes
Merged == {"pmerge"} \X (Bytes \cup {"32x2"})
MultipliedHigh ==
  {"pmulh", "pmulhr", "pmulhu", "pmulhru", "pmulhsu", "pmulhrsu", "pmulq", "pmulqr"} \X Halves
Extended ==
  ({"psext_b"} \X Halves) \cup ({"pzext_b"} \X {"16x2", "16x4"})
    \cup ({"psext_h", "pzext_h"} \X {"32x2"})
Packed == UNION {Averaged, Exchanged, Differences, Merged, MultipliedHigh, Extended}
\* The reductions and the sums of differences, with the type of the sum; the narrowing clips.
Sums ==
  ({"predsum", "predsumu"} \X {"8x4", "16x2", "8x8", "16x4"} \X {"32"})
    \cup ({"predsum", "predsumu"} \X {"8x8", "16x4", "32x2"} \X {"64"})
Clips == {"pnclipp", "pnclipup"} \X (Bytes \cup {"32x2"})
DifferenceSums ==
  {"pabdsumu", "pabdsumau"} \X {<<"8x4", "32">>, <<"8x8", "32">>, <<"8x8", "64">>}
BitManipulation ==
  ({"orc_b", "clmul", "clmulh", "clmulr", "xperm4", "xperm8", "brev8"} \X {"32", "64"})
    \cup ({"zip", "unzip"} \X {"32"})
Scalars == UNION {Packed, Sums, Clips, DifferenceSums, BitManipulation}

\* The labels of the inner switch over the packed builtins, which sets the intrinsic.
Selected(b) ==
  CASE b[1] \in {"paadd", "paaddu", "pasub", "pasubu", "pmerge"} -> b[2] \in Bytes \cup {"32x2"}
    [] b[1] \in {"pabd", "pabdu", "psabs"}                       -> b[2] \in Bytes
    [] b[1] \in {"psext_h", "pzext_h"}                           -> b[2] = "32x2"
    [] b[1] = "pzext_b"                                          -> b[2] \in {"16x2", "16x4"}
    [] OTHER                                                     -> b[2] \in Halves

\* The types of the arguments, and the emission: the intrinsic, the types of its overload.
ScalarArgs(b) ==
  CASE b \in Sums                                  -> <<b[2], b[3]>>
    [] b \in Clips                                 -> <<"wide", "wide">>
    [] b \in DifferenceSums /\ b[1] = "pabdsumau"  -> <<b[2][2], b[2][1], b[2][1]>>
    [] b \in DifferenceSums /\ b[1] = "pabdsumu"   -> <<b[2][1], b[2][1]>>
EmitDifferenceSum(b) == <<b[2][2], Last(ScalarArgs(b))>>
EmitScalar(b) ==
  CASE b \in Packed          -> [intrinsic |-> IF Selected(b) THEN b[1] ELSE "unreachable",
                                 types |-> <<b[2]>>]
    [] b \in Sums            -> [intrinsic |-> b[1], types |-> <<b[3], ScalarArgs(b)[1]>>]
    [] b \in Clips           -> [intrinsic |-> b[1], types |-> <<b[2], ScalarArgs(b)[1]>>]
    [] b \in DifferenceSums  -> [intrinsic |-> b[1], types |-> EmitDifferenceSum(b)]
    [] b \in BitManipulation -> [intrinsic |-> b[1], types |-> <<b[2]>>]
=============================================================================
