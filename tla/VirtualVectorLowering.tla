------------------------ MODULE VirtualVectorLowering ------------------------
(***************************************************************************)
(* One function on its way through the CPU pipeline: the executable-target *)
(* pass computes the pipeline's options, then the virtual vector lowering  *)
(* pass runs on the function Invocations times, with other passes creating *)
(* vector operations before and between (phase-3-mlir/README.md, issue     *)
(* 15).  An operation is what the patterns ask about it.                   *)
(***************************************************************************)
EXTENDS GatherToConditionalLoads, FiniteSets

CONSTANTS
  Compiled,     \* the functions: target, a hal.executable.target or NoTarget, ops, the operations
                \* that appear in it, and gathers, what each gather reads
  NoTarget,
  Contractions, \* the vector.contract operations that may appear
  Gathers,      \* the vector.gather operations that may appear
  ImeAccepts,   \* the contractions that the IME rewrite accepts
  I8mmAccepts,  \* the contractions that the Arm I8MM rewrite accepts
  Invocations   \* how often the pass runs

ASSUME PipelineAssumption ==
  /\ Invocations \in Nat \ {0}
  /\ ImeAccepts \subseteq Contractions /\ I8mmAccepts \subseteq Contractions
  /\ Contractions \cap Gathers = {}
  /\ \A f \in Compiled :
       /\ f.ops \subseteq Contractions \cup Gathers
       /\ f.target # NoTarget => f.target.arch \in {"riscv64", "aarch64", "x86_64"}
       /\ DOMAIN f.gathers = Gathers /\ \A g \in Gathers : IsGather(f.gathers[g])

Ops == Contractions \cup Gathers
Forms == {"absent", "vector", "vmadot", "i8mm", "outerproduct", "loads"}

VARIABLES
  ops,       \* the operations of the function
  exeTarget, \* what ExecutableTargetAttr::lookup finds
  options,   \* the options the pipeline hands to each invocation
  form,      \* the form each operation has in the function
  gathers,   \* what each gather reads
  vectors,   \* the vectors that the lowered gathers compute
  pc,        \* "other" passes, or a stage of the pass
  runs       \* invocations of the pass finished

function == <<ops, exeTarget, options, gathers>>
vars == <<function, form, vectors, pc, runs>>

HasTarget == exeTarget # NoTarget
IsRISCV == HasTarget /\ exeTarget.arch = "riscv64"
HasFeature(f) == HasTarget /\ f \in exeTarget.features
AnyV == {"v", "zve32x", "zve32f", "zve64x", "zve64f", "zve64d"}

\* The options LLVMCPULowerExecutableTarget computes once for the whole pipeline.
PipelineOptions ==
  [i8mm |-> HasTarget /\ exeTarget.arch = "aarch64" /\ HasFeature("i8mm"),
   xsmtvdot |-> IsRISCV /\ HasFeature("xsmtvdot")]

\* The pipeline's builders (outside src/) copy the options from struct to struct, and not
\* every one passes an option on (README issue 15): an invocation gets the computed value
\* or the default.
Handed(value) == {value, FALSE}

Init ==
  /\ \E f \in Compiled : ops = f.ops /\ exeTarget = f.target /\ gathers = f.gathers
  /\ vectors = [g \in Gathers |-> <<>>]
  /\ options \in [1 .. Invocations -> [i8mm : Handed(PipelineOptions.i8mm),
                                       xsmtvdot : Handed(PipelineOptions.xsmtvdot)]]
  /\ form = [o \in Ops |-> "absent"]
  /\ pc = "other"
  /\ runs = 0

\* Another pass of the pipeline creates vector operations.
CreateOps(S) ==
  /\ pc = "other" /\ runs < Invocations
  /\ S # {} /\ S \subseteq ops /\ \A o \in S : form[o] = "absent"
  /\ form' = [o \in Ops |-> IF o \in S THEN "vector" ELSE form[o]]
  /\ UNCHANGED <<function, vectors, pc, runs>>

BeginPass ==
  /\ pc = "other" /\ runs < Invocations
  /\ pc' = "neon"
  /\ UNCHANGED <<function, form, vectors, runs>>

\* applyPatternsGreedily: one rewrite at a time, until no pattern applies.
Matching(S) == {o \in S : form[o] = "vector"}
Rewrite(stage, o, into) ==
  /\ pc = stage
  /\ form' = [form EXCEPT ![o] = into]
  /\ UNCHANGED <<function, pc, runs>>
Leave(stage, S, next) ==
  /\ pc = stage /\ Matching(S) = {}
  /\ pc' = next
  /\ UNCHANGED <<function, form, vectors, runs>>

UseI8mm == options[runs + 1].i8mm
\* Faulty variant of UseXsmtvdot: the option threaded through the pipeline is trusted.
UseXsmtvdotThreaded == options[runs + 1].xsmtvdot
UseXsmtvdot == IsRISCV /\ HasFeature("xsmtvdot")
NeonOps == IF UseI8mm THEN I8mmAccepts ELSE {}
ImeOps == IF UseXsmtvdot THEN ImeAccepts ELSE {}

ApplyNeon(o) == Rewrite("neon", o, "i8mm") /\ o \in Matching(NeonOps) /\ UNCHANGED vectors
LeaveNeon == Leave("neon", NeonOps, "ime")

ApplyIme(o) == Rewrite("ime", o, "vmadot") /\ o \in Matching(ImeOps) /\ UNCHANGED vectors
LeaveIme == Leave("ime", ImeOps, "generic")

\* The target-independent patterns: contractions become outer products, gathers become
\* conditional loads, by IREE's pattern where it matches and by upstream's where it does not,
\* unless RVV has indexed loads.
GathersToLower == IF ~IsRISCV \/ exeTarget.features \cap AnyV = {} THEN Gathers ELSE {}
ApplyContract(o) ==
  Rewrite("generic", o, "outerproduct") /\ o \in Matching(Contractions) /\ UNCHANGED vectors
ApplyGather(o) ==
  /\ Rewrite("generic", o, "loads") /\ o \in Matching(GathersToLower)
  /\ vectors' = [vectors EXCEPT ![o] = IF Matches(gathers[o]) THEN matchAndRewrite(gathers[o])
                                      ELSE Gathered(gathers[o])]
LeaveGeneric == Leave("generic", Contractions \cup GathersToLower, "conversions")

\* eliminateHoistableConversions, which may fail the pass.
EliminateConversions ==
  /\ pc = "conversions"
  /\ pc' \in {"other", "failed"}
  /\ runs' = runs + 1
  /\ UNCHANGED <<function, form, vectors>>

Next ==
  \/ \E S \in SUBSET Ops : CreateOps(S)
  \/ BeginPass
  \/ \E o \in Ops : ApplyNeon(o)
  \/ LeaveNeon
  \/ \E o \in Ops : ApplyIme(o)
  \/ LeaveIme
  \/ \E o \in Ops : ApplyContract(o)
  \/ \E o \in Ops : ApplyGather(o)
  \/ LeaveGeneric
  \/ EliminateConversions

Spec == Init /\ [][Next]_vars

-----------------------------------------------------------------------------
\* Type invariant.
TypeOK ==
  /\ ops \subseteq Ops
  /\ options \in [1 .. Invocations -> [i8mm : BOOLEAN, xsmtvdot : BOOLEAN]]
  /\ form \in [Ops -> Forms] /\ \A o \in Ops \ ops : form[o] = "absent"
  /\ pc \in {"other", "neon", "ime", "generic", "conversions", "failed"}
  /\ runs \in 0 .. Invocations
  /\ pc \in {"neon", "ime", "generic", "conversions"} => runs < Invocations

\* A contraction that the IME rewrite accepts becomes a vmadot exactly when the target has
\* the extension, whichever invocation of the pass first sees it and whatever options that
\* invocation was handed (runOnOperation; README issue 15).
FeatureHonoured ==
  \A c \in ImeAccepts \ I8mmAccepts :
    /\ form[c] = "vmadot" => IsRISCV /\ HasFeature("xsmtvdot")
    /\ form[c] = "outerproduct" => ~(IsRISCV /\ HasFeature("xsmtvdot"))

\* A gather stays a vector.gather for the indexed loads of whichever vector subset the
\* target has, and no gather survives an invocation on a target with none; the conditional
\* loads of a lowered one read the very addresses the gather means, the lanes whose index runs
\* over the end of a row included, and a masked-off lane keeps its pass-through value.
HasIndexedLoads == IsRISCV /\ exeTarget.features \cap AnyV # {}
GatherCorrect ==
  \A g \in Gathers :
    /\ form[g] = "loads" => ~HasIndexedLoads /\ vectors[g] = Gathered(gathers[g])
    /\ pc = "conversions" /\ form[g] = "vector" => HasIndexedLoads
=============================================================================
