--------------------------- MODULE RISCVBuiltinChecks --------------------------
(***************************************************************************)
(* SemaRISCV::CheckBuiltinFunctionCall: what a call of a RISC-V builtin    *)
(* must satisfy before code is generated for it, in a function with the    *)
(* features that RISCVFunctionAttributes computes.  Every form of a        *)
(* builtin is listed by hand with the index of the argument to check, and  *)
(* the index depends on the mask and passthru operands of the form.        *)
(*                                                                         *)
(* A call is [op, suffix, args, types, result, requires]: the builtin or   *)
(* the class of builtins with the same arguments, the policy suffix of the *)
(* form, the arguments, the types of those that have one that matters, the *)
(* type of the result, the extensions of the builtin's target attribute.   *)
(***************************************************************************)
EXTENDS RISCVFunctionAttributes

\* An argument: a constant, a runtime value, or an expression that depends on a template
\* parameter.  The integer read from one that is not constant is 0.
Const(n) == [kind |-> "constant", value |-> n]
Runtime == [kind |-> "runtime", value |-> 0]
Dependent == [kind |-> "dependent", value |-> 0]
Arg(c, i) == c.args[i + 1]

\* A vector type: kind and bits of an element, elements at vscale 1, vectors of a tuple.
Vector(kind, bits, elts, vectors) ==
  [kind |-> kind, elem |-> bits, elts |-> elts, vectors |-> vectors]
\* Faulty variant of ELEN64: only 64-bit elements need them.
ELEN64Elements(type) == type.kind = "int" /\ type.elem = 64
\* (8, mf8), (16, mf4), (32, mf2) and (64, m1).
ELEN64(type) == type.elts = 1 \/ (type.kind = "int" /\ type.elem = 64)
\* checkRVVTypeSupport, of a variable or a parameter of a vector type.
checkRVVTypeSupport(features, type) ==
  /\ type.kind = "double" => "zve64d" \in features
  /\ ELEN64(type) => "zve64x" \in features
  /\ type.kind = "half" => features \cap {"zvfhmin", "xandesvpackfph"} # {}
  /\ type.kind = "bfloat" =>
       features \cap {"zvfbfmin", "xandesvbfhcvt", "experimental-zvfbfa"} # {}
  /\ type.kind = "float" => "zve32f" \in features
  /\ "zve32x" \in features
  /\ type.kind = "fp8" => "experimental-zvfofp8min" \in features

-----------------------------------------------------------------------------
\* Sema::BuiltinConstantArg and its variants: a dependent argument passes.
BuiltinConstantArg(a) == a.kind # "runtime"
\* Faulty variant of BuiltinConstantArgRange: what was read from a dependent one is checked.
BuiltinConstantArgRangeRead(a, low, high) == BuiltinConstantArg(a) /\ a.value \in low .. high
BuiltinConstantArgRange(a, low, high) ==
  BuiltinConstantArg(a) /\ (a.kind = "constant" => a.value \in low .. high)
BuiltinConstantArgMultiple(a, n) ==
  BuiltinConstantArg(a) /\ (a.kind = "constant" => a.value % n = 0)

CheckLMUL(a) ==
  BuiltinConstantArg(a) /\ (a.kind = "constant" => a.value \in (0 .. 3) \cup (5 .. 7))

\* The element group must fit: LMUL * VLEN >= EGW, with what the Zvl extensions guarantee.
CheckInvalidVLENandLMUL(type, egw) ==
  LET egs == egw \div type.elem
  IN \/ egs <= type.elts
     \/ \E e \in DOMAIN VLen : VLen[e] = (egs \div type.elts) * 64 /\ HasFeature(e)

\* e8mf8, e16mf4, e32mf2 and e64.
NeedsELEN64(sew, lmul) == sew = 3 \/ <<sew, lmul>> \in {<<0, 5>>, <<1, 6>>, <<2, 7>>}
CheckVSetVL(sew, lmul) ==
  /\ BuiltinConstantArg(sew) /\ BuiltinConstantArg(lmul)
  /\ NeedsELEN64(sew.value, lmul.value) => HasFeature("zve64x")
  /\ BuiltinConstantArgRange(sew, 0, 3) /\ CheckLMUL(lmul)

\* The matrix multiplications of XSfmm: the tile depends on the width of its elements.
IsTEW64(op, type) == <<op, type.elem>> \in {<<"sf_mm_w1", 64>>, <<"sf_mm_w2", 32>>}
CheckTile(op, mtd, type) ==
  BuiltinConstantArgRange(mtd, 0, 15)
    /\ BuiltinConstantArgMultiple(mtd, IF IsTEW64(op, type) THEN 2 ELSE 4)
TileMultiple(tew) == IF tew \in {16, 64} THEN 2 ELSE 4
CheckTileZero(c) ==
  /\ BuiltinConstantArg(Arg(c, 3)) /\ BuiltinConstantArg(Arg(c, 4))
  /\ BuiltinConstantArgRange(Arg(c, 3), 3, 6)
  /\ Arg(c, 4).value \in {1, 2, 4}
  /\ BuiltinConstantArgRange(Arg(c, 0), 0, 15)
  /\ BuiltinConstantArgMultiple(Arg(c, 0), TileMultiple(2 ^ Arg(c, 3).value * Arg(c, 4).value))

\* vget and vset: the parts of a register group, or the vectors of a tuple.
PartsOf(whole, part) ==
  IF whole.vectors # 1 THEN whole.vectors ELSE whole.elts \div (part.elts * part.vectors)
CheckVGet(c) == BuiltinConstantArgRange(Arg(c, 1), 0, PartsOf(c.types[1], c.result) - 1)
CheckVSet(c) == BuiltinConstantArgRange(Arg(c, 1), 0, PartsOf(c.result, c.types[3]) - 1)

\* Vector crypto: the operands that must hold a whole element group, and the immediate.
HasCheckedSources(c) ==
  c.op = "vaeskf2" \/ (c.op \in {"vaeskf1", "vsm4k"} /\ c.suffix = "tu")
CheckKeySchedule(c) ==
  IF HasCheckedSources(c)
    THEN /\ CheckInvalidVLENandLMUL(c.types[1], 128) /\ CheckInvalidVLENandLMUL(c.types[2], 128)
         /\ BuiltinConstantArgRange(Arg(c, 2), 0, 31)
  ELSE IF c.op = "vsm3c"
    THEN CheckInvalidVLENandLMUL(c.types[1], 256) /\ BuiltinConstantArgRange(Arg(c, 2), 0, 31)
  ELSE CheckInvalidVLENandLMUL(c.types[1], 128) /\ BuiltinConstantArgRange(Arg(c, 1), 0, 31)
CheckAES(c) ==
  CheckInvalidVLENandLMUL(c.types[1], 128) /\ CheckInvalidVLENandLMUL(c.types[2], 128)
CheckSHA2(c) ==
  \A i \in 1 .. 3 : CheckInvalidVLENandLMUL(c.types[i], c.types[1].elem * 4)

\* The coprocessor instructions of SiFive: their immediates, at the index of each.
Bits2(c) == BuiltinConstantArgRange(Arg(c, 0), 0, 3)
Bit1(c) == BuiltinConstantArgRange(Arg(c, 0), 0, 1)
Register(c, i) == BuiltinConstantArgRange(Arg(c, i), 0, 31)
Simm5(c, i) == BuiltinConstantArgRange(Arg(c, i), -16, 15)
CheckVCImmediate(c) ==
  CASE c.op = "vc_i_se"  -> Bits2(c) /\ Register(c, 1) /\ Register(c, 2) /\ Simm5(c, 3)
                              /\ CheckLMUL(Arg(c, 5))
    [] c.op = "vc_iv_se" -> Bits2(c) /\ Register(c, 1) /\ Simm5(c, 3)
    [] c.op = "vc_v_i"   -> Bits2(c) /\ Register(c, 1) /\ Simm5(c, 2)
    [] c.op = "vc_v_iv"  -> Bits2(c) /\ Simm5(c, 2)
    [] c.op = "vc_ivv"   -> Bits2(c) /\ Simm5(c, 3)
CheckVCRegister(c) ==
  CASE c.op = "vc_x_se"                -> Bits2(c) /\ Register(c, 1) /\ Register(c, 2)
                                            /\ CheckLMUL(Arg(c, 5))
    [] c.op \in {"vc_xv_se", "vc_v_x"} -> Bits2(c) /\ Register(c, 1)
    [] c.op \in {"vc_xvv", "vc_v_xv"}  -> Bits2(c)
    [] c.op = "vc_fv_se"               -> Bit1(c) /\ Register(c, 1)
    [] c.op \in {"vc_fvv", "vc_v_fv"}  -> Bit1(c)

-----------------------------------------------------------------------------
(***************************************************************************)
(* The rounding modes: the forms whose mode is the argument with the given *)
(* index.  The classes: the fixed-point operations (vaadd to vnclipu, and  *)
(* vsmul), the floating-point operations with one source, with two         *)
(* (widening ones too), the reductions, sf_vfnrclip, the multiply-adds.    *)
(***************************************************************************)
Pairs(ops, suffixes) == {<<o, s>> : o \in ops, s \in suffixes}
VxrmAt2 == Pairs({"fixed", "vsmul"}, {""})
VxrmAt3 == Pairs({"fixed", "vsmul"}, {"tu", "m"})
VxrmAt4 == Pairs({"fixed", "vsmul"}, {"tum", "tumu", "mu"})
FrmAt1 == Pairs({"unary"}, {""})
FrmAt2 == Pairs({"binary", "reduction", "fnrclip"}, {""}) \cup Pairs({"unary"}, {"tu", "m"})
FrmAt3 ==
  Pairs({"binary", "reduction", "fnrclip"}, {"tu"}) \cup Pairs({"binary", "reduction"}, {"m"})
    \cup Pairs({"unary"}, {"tum", "tumu", "mu"}) \cup Pairs({"fma"}, {"", "tu"})
\* Faulty variant of FrmAt4: a form is forgotten.
FrmAt4Forgotten ==
  Pairs({"binary", "fma", "fnrclip"}, {"tum", "tumu", "mu"}) \cup Pairs({"reduction"}, {"tum"})
FrmAt4 ==
  Pairs({"binary", "fma", "fnrclip"}, {"tum", "tumu", "mu"}) \cup Pairs({"reduction"}, {"tum"})
    \cup Pairs({"fma"}, {"m"})
CheckRoundingMode(c) ==
  LET form == <<c.op, c.suffix>>
  IN /\ form \in VxrmAt2 => BuiltinConstantArgRange(Arg(c, 2), 0, 3)
     /\ form \in VxrmAt3 => BuiltinConstantArgRange(Arg(c, 3), 0, 3)
     /\ form \in VxrmAt4 => BuiltinConstantArgRange(Arg(c, 4), 0, 3)
     /\ form \in FrmAt1 => BuiltinConstantArgRange(Arg(c, 1), 0, 4)
     /\ form \in FrmAt2 => BuiltinConstantArgRange(Arg(c, 2), 0, 4)
     /\ form \in FrmAt3 \ FrmAt2 => BuiltinConstantArgRange(Arg(c, 3), 0, 4)
     /\ form \in FrmAt4 \ FrmAt3 => BuiltinConstantArgRange(Arg(c, 4), 0, 4)

\* ntl_load and ntl_store: the optional domain, the pointer; result: what it points to.
CheckNTL(c) ==
  LET numArgs == IF c.op = "ntl_store" THEN 3 ELSE 2
  IN /\ Len(c.args) \in numArgs - 1 .. numArgs
     /\ Len(c.args) = numArgs => BuiltinConstantArgRange(Arg(c, numArgs - 1), 2, 5)
     /\ c.result \in {"integer", "pointer", "floating", "vector"}

-----------------------------------------------------------------------------
\* The features that the builtin asks for, and those the callee's attribute names.
HasRequired(c) == \A e \in c.requires : HasFeature(e)
\* vmulh and vsmul have no 64-bit elements under Zve64.
IsMulHigh(c) == c.op \in {"vmulh", "vsmul"} /\ c.result.elem = 64
CheckBuiltinFunctionCall(c) ==
  /\ HasRequired(c)
  /\ IsMulHigh(c) => HasFeature("v")
  /\ CASE c.op = "vsetvli"                   -> CheckVSetVL(Arg(c, 1), Arg(c, 2))
       [] c.op = "vsetvlimax"                -> CheckVSetVL(Arg(c, 0), Arg(c, 1))
       [] c.op = "sf_vset"                   -> BuiltinConstantArgRange(Arg(c, 1), 0, 3)
                                                  /\ BuiltinConstantArgRange(Arg(c, 2), 1, 3)
       [] c.op \in {"sf_mm_w1", "sf_mm_w2", "sf_mm_w4"} ->
            CheckTile(c.op, Arg(c, 0), c.types[2])
       [] c.op = "sf_vtzero"                 -> CheckTileZero(c)
       [] c.op = "vget"                      -> CheckVGet(c)
       [] c.op = "vset"                      -> CheckVSet(c)
       [] c.op \in {"vaeskf1", "vaeskf2", "vsm4k", "vsm3c"} -> CheckKeySchedule(c)
       [] c.op = "vaes"                      -> CheckAES(c)
       [] c.op = "vsha2"                     -> CheckSHA2(c)
       [] c.op \in {"vc_i_se", "vc_iv_se", "vc_v_i", "vc_v_iv", "vc_ivv"} -> CheckVCImmediate(c)
       [] c.op \in {"vc_x_se", "vc_xv_se", "vc_v_x", "vc_xvv", "vc_v_xv", "vc_fv_se", "vc_fvv",
                    "vc_v_fv"}               -> CheckVCRegister(c)
       [] c.op = "byteselect"                -> BuiltinConstantArgRange(Arg(c, 2), 0, 3)
       [] c.op = "aes64ks1i"                 -> BuiltinConstantArgRange(Arg(c, 1), 0, 10)
       [] c.op \in {"ntl_load", "ntl_store"} -> CheckNTL(c)
       [] OTHER                              -> CheckRoundingMode(c)
=============================================================================
