---------------------------- MODULE RISCVBuiltinCall ---------------------------
(***************************************************************************)
(* A call of a RISC-V builtin from the function's attributes to the        *)
(* intrinsic: RISCVFunctionAttributes gives the features, Sema checks the  *)
(* call under them (RISCVBuiltinChecks), and code generation rearranges    *)
(* the arguments Sema looked at (RISCVBuiltinEmission).  Each of the two   *)
(* finds an argument by a position it writes down on its own.              *)
(***************************************************************************)
EXTENDS RISCVBuiltinChecks, RISCVBuiltinEmission

CONSTANT Calls  \* the calls a function with func.calls may make
VARIABLES
  call,      \* the call that is compiled, NoCall before
  outcome,   \* "none", "rejected", "accepted" or "emitted"
  emitted    \* what was generated: [ops, types, newVL, align], a position or an intrinsic

callVars == <<call, outcome, emitted>>
NoCall == [op |-> ""]

-----------------------------------------------------------------------------
\* EmitRISCVBuiltinExpr, after the arguments are evaluated in order.
Form(c) == [emitter |-> c.emitter, suffix |-> c.suffix, rm |-> c.rm]
Values(c) == [i \in DOMAIN c.args |-> c.args[i].value]
EmitRISCVBuiltinExpr(c) ==
  CASE c.op = "vget" -> PartOffset(c.types[1], c.result, Arg(c, 1).value)
    [] c.op = "vset" -> PartOffset(c.result, c.types[3], Arg(c, 1).value)
    [] c.op \in {"ntl_load", "ntl_store"} -> DomainVal(c.op, Values(c))
    [] c.op = "scalar" -> EmitScalar(c.builtin)
    [] c.emitter # "" -> EmitVector(Form(c))
    [] OTHER -> <<>>

CallInit == Init /\ call = NoCall /\ outcome = "none" /\ emitted = <<>>

\* The variables of vector types are declared before the call: an error for one leaves no code.
CheckCall ==
  /\ pc = "done" /\ outcome = "none" /\ func.calls
  /\ \E c \in Calls :
       /\ call' = c
       /\ outcome' = IF /\ \A i \in DOMAIN c.types :
                             c.types[i] # <<>> => checkRVVTypeSupport(FunctionFeatures, c.types[i])
                        /\ CheckBuiltinFunctionCall(c)
                       THEN "accepted" ELSE "rejected"
  /\ UNCHANGED <<vars, emitted>>
\* Code is generated for an instance of a template, never for the template.
EmitCall ==
  /\ outcome = "accepted" /\ \A i \in DOMAIN call.args : call.args[i].kind # "dependent"
  /\ outcome' = "emitted"
  /\ emitted' = EmitRISCVBuiltinExpr(call)
  /\ UNCHANGED <<vars, call>>

CallNext == \/ Next /\ UNCHANGED callVars
            \/ CheckCall \/ EmitCall
CallSpec == CallInit /\ [][CallNext]_<<vars, callVars>>

-----------------------------------------------------------------------------
(***************************************************************************)
(* What the builtins and the intrinsics say of themselves.                 *)
(***************************************************************************)
InRange(a, range) == a.kind = "dependent" \/ (a.kind = "constant" /\ a.value \in range)

\* The arguments of the coprocessor builtins, as the comments list them.
FieldsOf(op) ==
  CASE op = "vc_i_se"  -> <<"bit_27_26", "bit_24_20", "bit_11_7", "simm5", "sew", "log2lmul">>
    [] op = "vc_iv_se" -> <<"bit_27_26", "bit_11_7", "vs2", "simm5">>
    [] op = "vc_v_i"   -> <<"bit_27_26", "bit_24_20", "simm5">>
    [] op = "vc_v_iv"  -> <<"bit_27_26", "vs2", "simm5">>
    [] op = "vc_ivv"   -> <<"bit_27_26", "vd", "vs2", "simm5">>
    [] op = "vc_x_se"  -> <<"bit_27_26", "bit_24_20", "bit_11_7", "xs1", "sew", "log2lmul">>
    [] op = "vc_xv_se" -> <<"bit_27_26", "bit_11_7", "vs2", "xs1">>
    [] op = "vc_v_x"   -> <<"bit_27_26", "bit_24_20", "xs1">>
    [] op = "vc_xvv"   -> <<"bit_27_26", "vd", "vs2", "xs1">>
    [] op = "vc_v_xv"  -> <<"bit_27_26", "vs2", "xs1">>
    [] op = "vc_fv_se" -> <<"bit_26", "bit_11_7", "vs2", "fs1">>
    [] op = "vc_fvv"   -> <<"bit_26", "vd", "vs2", "fs1">>
    [] op = "vc_v_fv"  -> <<"bit_26", "vs2", "fs1">>
    [] OTHER           -> <<>>
FieldRange(field) ==
  CASE field = "bit_27_26"                 -> 0 .. 3
    [] field = "bit_26"                    -> 0 .. 1
    [] field \in {"bit_24_20", "bit_11_7"} -> 0 .. 31
    [] field = "simm5"                     -> -16 .. 15
    [] field = "log2lmul"                  -> (0 .. 3) \cup (5 .. 7)

\* The operands of the intrinsics, in the order of their classes in IntrinsicsRISCV.td.
If(condition, s) == IF condition THEN s ELSE <<>>
Undisturbed(f) == f.suffix \in {"tu", "tum", "tumu", "mu"}
Operands(f) ==
  LET pass == <<IF Undisturbed(f) THEN "passthru" ELSE "poison">>
      mask == If(Masked(f), <<"mask">>)
      policy == If(Masked(f), <<"policy">>)
      rm == <<IF f.rm THEN "rm" ELSE "dyn">>
  IN CASE f.emitter = "vleff"           -> pass \o <<"ptr">> \o mask \o <<"vl">> \o policy
       [] f.emitter \in {"vsse", "stridedsegstore"} ->
            <<"value", "ptr", "stride">> \o mask \o <<"vl">> \o If(f.emitter # "vsse", <<"sew">>)
       [] f.emitter \in {"vsxei", "indexedsegstore"} ->
            <<"value", "ptr", "index">> \o mask \o <<"vl">> \o If(f.emitter # "vsxei", <<"sew">>)
       [] f.emitter \in {"vse", "segstore"} ->
            <<"value", "ptr">> \o mask \o <<"vl">> \o If(f.emitter # "vse", <<"sew">>)
       [] f.emitter \in {"segload", "segloadff"} ->
            pass \o <<"ptr">> \o mask \o <<"vl">> \o policy \o <<"sew">>
       [] f.emitter = "stridedsegload"  ->
            pass \o <<"ptr", "stride">> \o mask \o <<"vl">> \o policy \o <<"sew">>
       [] f.emitter = "indexedsegload"  ->
            pass \o <<"ptr", "index">> \o mask \o <<"vl">> \o policy \o <<"sew">>
       [] f.emitter = "vneg"            -> pass \o <<"op0", "zero">> \o mask \o <<"vl">> \o policy
       [] f.emitter = "vwcvt"           -> pass \o <<"op0", "zero">> \o mask \o <<"vl">> \o policy
       [] f.emitter = "vnot"            -> pass \o <<"op0", "ones">> \o mask \o <<"vl">> \o policy
       [] f.emitter = "vncvt"           -> pass \o <<"op0", "xzero">> \o mask \o <<"vl">> \o policy
       [] f.emitter = "vfneg"           -> pass \o <<"op0", "op0">> \o mask \o <<"vl">> \o policy
       [] f.emitter = "vmmv"            -> <<"op0", "op0", "vl">>
       [] f.emitter \in {"averaging", "clip", "fbinary", "wfbinary"} ->
            pass \o <<"op0", "op1">> \o mask \o rm \o <<"vl">> \o policy
       [] f.emitter \in {"funary", "fconv"} -> pass \o <<"op0">> \o mask \o rm \o <<"vl">> \o policy
       [] f.emitter = "reduction"       -> pass \o <<"op0", "op1">> \o mask \o rm \o <<"vl">>
       [] f.emitter \in {"fma", "wfma"} ->
            <<"vd", "op1", "op2">> \o mask \o rm \o <<"vl", "policy">>
\* The types that select the overload: of the result, then of every operand of any type.
Overloads(f) ==
  LET mask == If(Masked(f), <<"mask">>)
  IN CASE f.emitter \in {"vleff"}                          -> <<"result", "vl", "ptr">>
       [] f.emitter = "vsse"                               -> <<"value", "ptr", "vl">>
       [] f.emitter = "vsxei"                              -> <<"value", "ptr", "index", "vl">>
       [] f.emitter = "vse"                                -> <<"value", "ptr", "vl">>
       [] f.emitter = "segload"                            -> <<"result", "ptr">> \o mask \o <<"vl">>
       [] f.emitter = "segloadff"                          -> <<"result", "vl", "ptr">> \o mask
       [] f.emitter = "stridedsegload"                     -> <<"result", "ptr", "vl">> \o mask
       [] f.emitter = "indexedsegload"                     ->
            <<"result", "ptr", "index">> \o mask \o <<"vl">>
       [] f.emitter = "segstore"                           -> <<"value", "ptr">> \o mask \o <<"vl">>
       [] f.emitter = "stridedsegstore"                    -> <<"value", "ptr", "vl">> \o mask
       [] f.emitter = "indexedsegstore"                    ->
            <<"value", "ptr", "index">> \o mask \o <<"vl">>
       [] f.emitter \in {"vneg", "vnot"}                   -> <<"result", "elem", "vl">>
       [] f.emitter \in {"vfneg", "fconv", "reduction"}    -> <<"result", "op0", "vl">>
       [] f.emitter = "vwcvt"                              -> <<"result", "op0", "elem", "vl">>
       [] f.emitter = "vncvt"                              -> <<"result", "op0", "vl", "vl">>
       [] f.emitter \in {"vmmv", "funary"}                 -> <<"result", "vl">>
       [] f.emitter \in {"averaging", "fbinary"}           -> <<"result", "op1", "vl">>
       [] f.emitter = "fma"                                -> <<"result", "op1", "vl">>
       [] f.emitter \in {"clip", "wfbinary"}               -> <<"result", "op0", "op1", "vl">>
       [] f.emitter = "wfma"                               -> <<"result", "op1", "op2", "vl">>
\* The type of an operand: those of the same type have the same name.
TypeOf(operand) ==
  CASE operand \in {"stride", "policy", "dyn", "rm", "sew", "xzero"} -> "vl"
    [] operand = "new_vl"                                            -> "ptr"
    [] operand \in {"zero", "ones"}                                  -> "elem"
    [] operand \in {"poison", "passthru", "vd"}                      -> "result"
    [] OTHER                                                         -> operand

\* The classes of operations with a rounding mode and the emitters they have; the forms.
Rounders ==
  {<<"fixed", "averaging">>, <<"vsmul", "averaging">>, <<"fixed", "clip">>, <<"unary", "funary">>,
   <<"unary", "fconv">>, <<"binary", "fbinary">>, <<"binary", "wfbinary">>,
   <<"reduction", "reduction">>, <<"fma", "fma">>, <<"fma", "wfma">>, <<"fnrclip", "">>}
SuffixesOf(emitter) ==
  CASE emitter \in Stores     -> {"", "m"}
    [] emitter = "vmmv"       -> {""}
    [] emitter = "reduction"  -> {"", "tu", "m", "tum"}
    [] OTHER                  -> {"", "tu", "m", "tum", "tumu", "mu"}
CryptoOps == {"vaeskf1", "vaeskf2", "vsm4k", "vsm3c", "vaes", "vsha2"}
\* The types of a vector crypto operation that has them: of 32 bits, and of 64 for vsha2; those
\* of vsm3c and of vsha2 are one.
IsCryptoTypes(c) ==
  /\ DOMAIN c.types = 1 .. (CASE c.op = "vsha2"                                      -> 3
                             [] c.op \in {"vsm3c", "vaes"} \/ HasCheckedSources(c) -> 2
                             [] OTHER                                              -> 1)
  /\ \A i \in DOMAIN c.types :
       /\ c.types[i].elem \in IF c.op = "vsha2" THEN {32, 64} ELSE {32}
       /\ c.types[i].elts \in {1, 2, 4, 8, 16}
       /\ c.op \in {"vsm3c", "vsha2"} => c.types[i] = c.types[1]
\* The element widths the matrix multiplications of XSfmm have.
TileTypes ==
  {<<"sf_mm_w1", 32>>, <<"sf_mm_w1", 64>>, <<"sf_mm_w2", 16>>, <<"sf_mm_w2", 32>>, <<"sf_mm_w4", 8>>}
\* The number of arguments of the builtins Sema looks at.
NumArguments(c) ==
  IF c.rm THEN Len(Arguments(Form(c)))
  ELSE CASE FieldsOf(c.op) # <<>>                                -> Len(FieldsOf(c.op))
         [] c.op \in {"vget", "vsetvlimax", "aes64ks1i"}         -> 2
         [] c.op \in {"vsetvli", "sf_vset", "sf_mm_w1", "sf_mm_w2", "sf_mm_w4", "vset", "vaes",
                      "byteselect"}                              -> 3
         [] c.op \in {"vaeskf1", "vsm4k"}                        -> IF c.suffix = "tu" THEN 4 ELSE 3
         [] c.op \in {"vaeskf2", "vsm3c", "vsha2"}               -> 4
         [] c.op = "sf_vtzero"                                   -> 5
         [] OTHER                                                -> Len(c.args)
\* A call has, beside the fields of RISCVBuiltinChecks, its emitter ("" when the intrinsic takes
\* the arguments as they are), rm, whether the form has a rounding mode, and builtin, the name
\* and types of a scalar one.
ASSUME CallsAssumption ==
  \A c \in Calls :
    /\ DOMAIN c = {"op", "suffix", "rm", "emitter", "args", "types", "result", "requires", "builtin"}
    /\ Len(c.args) \in Nat /\ DOMAIN c.args = 1 .. Len(c.args) /\ Len(c.args) = NumArguments(c)
    /\ \A i \in DOMAIN c.args : c.args[i].kind \in {"constant", "runtime", "dependent"}
    /\ c.rm => <<c.op, c.emitter>> \in Rounders /\ c.suffix \in SuffixesOf(c.emitter)
    /\ (\E r \in Rounders : c.op = r[1]) => c.rm
    /\ c.op \in CryptoOps => IsCryptoTypes(c)
    /\ c.op \in {"sf_mm_w1", "sf_mm_w2", "sf_mm_w4"} => <<c.op, c.types[2].elem>> \in TileTypes
    /\ c.op \in {"vsetvli", "vsetvlimax"} => c.types = <<>> /\ c.requires \subseteq {"zve32x"}

-----------------------------------------------------------------------------
(***************************************************************************)
(* Properties.                                                             *)
(***************************************************************************)
\* Types of the variables.
CallTypeOK ==
  /\ TypeOK
  /\ outcome \in {"none", "rejected", "accepted", "emitted"}
  /\ outcome = "none" <=> call = NoCall
  /\ call # NoCall => func.calls /\ pc = "done"

\* The rounding mode that code generation moves between the mask and vl is the argument that
\* Sema checked, in every form: a constant in the range of the operation.  The masked
\* sf_vfnrclip is the one the list of Sema leaves out.
RoundingModeFits ==
  (call.rm /\ <<call.op, call.suffix>> # <<"fnrclip", "m">>) =>
    \A i \in DOMAIN Arguments(Form(call)) :
      Arguments(Form(call))[i] = "rm" =>
        InRange(call.args[i], IF call.op \in {"fixed", "vsmul"} THEN 0 .. 3 ELSE 0 .. 4)
\* Every immediate of a coprocessor instruction fits the field it is encoded in.
FieldsFit ==
  \A i \in DOMAIN FieldsOf(call.op) :
    FieldsOf(call.op)[i] \notin {"vs2", "vd", "xs1", "fs1", "sew"} =>
      InRange(call.args[i], FieldRange(FieldsOf(call.op)[i]))
\* A vector crypto operation has a whole element group in each of its operands on every
\* machine the function may run on.
GroupWidth ==
  CASE call.op = "vsm3c" -> 256
    [] call.op = "vsha2" -> 4 * call.types[1].elem
    [] OTHER             -> 128
GroupsFit ==
  call.op \in CryptoOps =>
    LET vlen == MinVLen(isa \cup FunctionFeatures)
        vscale == IF vlen < 64 THEN 1 ELSE vlen \div 64
    IN \A i \in DOMAIN call.types :
         call.types[i].elem * call.types[i].elts * vscale >= GroupWidth

\* An accepted call can be encoded and executed: its immediates fit their fields, which Sema
\* looks for at indexes it lists form by form and code generation moves, and its element groups
\* fit the registers (CheckBuiltinFunctionCall, CheckInvalidVLENandLMUL).
OperandsFit == outcome \in {"accepted", "emitted"} => RoundingModeFits /\ FieldsFit /\ GroupsFit

\* The tiles a matrix multiplication of XSfmm may accumulate to are those that can be zeroed.
Widening(op) == CASE op = "sf_mm_w1" -> 1 [] op = "sf_mm_w2" -> 2 [] op = "sf_mm_w4" -> 4
Log2(n) == CHOOSE k \in 0 .. 10 : 2 ^ k = n
TileShapesAgree ==
  call.op \in {"sf_mm_w1", "sf_mm_w2", "sf_mm_w4"} =>
    LET elem == call.types[2].elem
        zero == [args |-> <<Arg(call, 0), Runtime, Runtime, Const(Log2(elem)),
                            Const(Widening(call.op))>>]
    IN CheckTile(call.op, Arg(call, 0), call.types[2]) <=> CheckTileZero(zero)
\* The configurations vsetvli accepts are those whose vectors may be declared, wherever the
\* type of integers with that width and LMUL exists.
EltsOf(lmul, bits) ==
  IF lmul < 4 THEN (64 * 2 ^ lmul) \div bits ELSE 64 \div (bits * 2 ^ (8 - lmul))
VSetVLMatchesTypes ==
  call.op \in {"vsetvli", "vsetvlimax"} =>
    LET at == IF call.op = "vsetvli" THEN 1 ELSE 0
        sew == Arg(call, at)
        lmul == Arg(call, at + 1)
        bits == 8 * 2 ^ sew.value
        features == isa \cup FunctionFeatures
    IN (/\ sew.kind = "constant" /\ sew.value \in 0 .. 3 /\ lmul.kind = "constant"
        /\ lmul.value \in (0 .. 3) \cup (5 .. 7) /\ EltsOf(lmul.value, bits) >= 1
        /\ "zve32x" \in features) =>
         (outcome # "rejected" <=>
            checkRVVTypeSupport(features, Vector("int", bits, EltsOf(lmul.value, bits), 1)))
\* Where Sema lists one thing twice the lists agree: the tiles of XSfmm in two cases of
\* CheckBuiltinFunctionCall, what needs 64-bit elements in CheckVSetVL and checkRVVTypeSupport.
ListsAgree == outcome # "none" => TileShapesAgree /\ VSetVLMatchesTypes

\* A template is not rejected for what only its instances can tell: a call that is accepted is
\* accepted with its arguments dependent too, except a zeroed tile's.
DependentDeferred ==
  outcome \in {"accepted", "emitted"} /\ call.op # "sf_vtzero" =>
    CheckBuiltinFunctionCall([call EXCEPT !.args = [i \in DOMAIN call.args |-> Dependent]])

\* Each operand of the intrinsic is the argument its position stands for, whatever the mask and
\* the policy of the form add and leave out, and the types the emitter takes from positions it
\* names are those that select the overload.
OperandsInOrder ==
  /\ emitted.ops = Operands(Form(call))
  /\ [i \in DOMAIN emitted.types |-> TypeOf(emitted.types[i])] = Overloads(Form(call))
\* A fault-only-first load stores the new vl through the pointer given for it, with its
\* alignment; the unmasked vle*ff_tu takes the data pointer's.
NewVLStored ==
  call.emitter \in {"vleff", "segloadff"} =>
    /\ emitted.newVL = "new_vl"
    /\ <<call.emitter, call.suffix>> # <<"vleff", "tu">> => emitted.align = "new_vl"
\* The part that vget reads and vset writes is the one the index names, within the whole: the
\* mask that code generation puts on the index never changes an index Sema accepted.
PartAsAsked ==
  call.op \in {"vget", "vset"} =>
    LET whole == IF call.op = "vget" THEN call.types[1] ELSE call.result
        part == IF call.op = "vget" THEN call.result ELSE call.types[3]
        i == Arg(call, 1).value
    IN IF whole.vectors # 1 THEN emitted = i /\ i < whole.vectors
       ELSE emitted = i * part.elts /\ emitted + part.elts <= whole.elts
\* The domain of a nontemporal access is the one asked for, all levels by default.
DomainAsAsked ==
  call.op \in {"ntl_load", "ntl_store"} =>
    emitted = IF Last(call.args).kind = "constant" THEN Last(call.args).value ELSE 5
\* Every packed builtin that the outer switch sends to the inner one has a label there, and the
\* overload is selected by the result and, where the operands are of another type, by the
\* vector operand.
ScalarAsDeclared ==
  call.op = "scalar" =>
    LET b == call.builtin
    IN /\ emitted.intrinsic = b[1]
       /\ emitted.types = CASE b \in Sums           -> <<b[3], b[2]>>
                            [] b \in DifferenceSums -> <<b[2][2], b[2][1]>>
                            [] b \in Clips          -> <<b[2], "wide">>
                            [] OTHER                -> <<b[2]>>
\* The intrinsic that is called is the one IntrinsicsRISCV.td declares, operand by operand and
\* type by type: the emitters of EmitRISCVBuiltinExpr find the operands by positions that the
\* mask, the passthru and the rounding mode shift.
IntrinsicAsDeclared ==
  outcome = "emitted" =>
    /\ call.emitter # "" => OperandsInOrder
    /\ NewVLStored /\ PartAsAsked /\ DomainAsAsked /\ ScalarAsDeclared
=============================================================================
