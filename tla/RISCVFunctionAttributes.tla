------------------------ MODULE RISCVFunctionAttributes ------------------------
(***************************************************************************)
(* The extensions a RISC-V function may use, and who may call it: the      *)
(* command line sets up the target, the attributes of the function are     *)
(* handled in the order they are written (target, target_version,          *)
(* target_clones, interrupt), and the resolver of a function with versions *)
(* tests the extensions of each version on the CPU it runs on.  A version  *)
(* string is read three times, each time by other rules: when Sema checks  *)
(* it, when its features are parsed and when its priority is looked for.   *)
(***************************************************************************)
EXTENDS Integers, Sequences, FiniteSets, SequencesExt

CONSTANTS
  Implied,     \* extension -> the extensions it brings with it, itself included
  Conflicts,   \* sets of extensions that exclude each other
  VLen,        \* the Zvl extensions -> the VLEN they guarantee
  CPUArch,     \* the CPUs with a known architecture -> its extensions
  FeatureBit,  \* the extensions with a bit in __riscv_feature_bits -> <<group, bit>>
  Targets,     \* command lines: [features, abi, vscale]
  Functions    \* functions: [plain, attributes, calls]; plain: void, without parameters; calls: BOOLEAN

\* A feature turns extensions on or off: [on, exts].  A part of an attribute string, between semicolons:
\*   "arch+"  value: the features of arch=+x,-y       "arch"  value: the extensions of a full
\*   "cpu", "tune"  value: a name                             architecture, {} if it is invalid
\*   "priority"  value: a number, -1 if malformed     "exts"  value: the features of +x,-y
\*   "default"                                        "other" anything else
\* spaced: a blank stands before the part.
Extensions == DOMAIN Implied
Feature == [on : BOOLEAN, exts : SUBSET Extensions]
Plus(exts) == <<[on |-> TRUE, exts |-> exts]>>
Minus(exts) == <<[on |-> FALSE, exts |-> exts]>>
Named(fs) == UNION {fs[i].exts : i \in DOMAIN fs}
ASSUME ExtensionsAssumption ==
  /\ Implied \in [Extensions -> SUBSET Extensions]
  /\ \A e \in Extensions :
       e \in Implied[e] /\ \A i \in Implied[e] : Implied[i] \subseteq Implied[e]
  /\ DOMAIN VLen \subseteq Extensions
  /\ \A e \in DOMAIN VLen : VLen[e] \in
       {32, 64, 128, 256, 512, 1024, 2048, 4096, 8192, 16384, 32768, 65536}
  /\ \A c \in DOMAIN CPUArch : CPUArch[c] \subseteq Extensions
  /\ DOMAIN FeatureBit \subseteq Extensions /\ FeatureBit \in [DOMAIN FeatureBit -> Nat \X Nat]
  /\ \A d, e \in DOMAIN FeatureBit : FeatureBit[d] = FeatureBit[e] => d = e
ASSUME TargetsAssumption ==
  Targets \subseteq [features : Seq(Feature), abi : {"", "ilp32", "ilp32d", "ilp32e"},
                     vscale : Nat \X Nat]
IsSequence(s) == s \in Seq(ToSet(s))
\* A feature of the command line or of a string names one extension.
IsPart(p) ==
  /\ DOMAIN p = {"key", "value", "spaced"} /\ p.spaced \in BOOLEAN
  /\ p.key \in {"arch+", "arch", "cpu", "tune", "priority", "exts", "default", "other"}
  /\ p.key \in {"arch+", "exts"} =>
       p.value \in Seq(Feature) /\ \A i \in DOMAIN p.value : p.value[i].exts # {}
  /\ p.key = "arch" => p.value \subseteq Extensions
  /\ p.key \in {"cpu", "tune"} => p.value \in STRING
  /\ p.key = "priority" => p.value \in Int
IsString(s) == IsSequence(s) /\ s # <<>> /\ \A i \in DOMAIN s : IsPart(s[i])
IsAttribute(a) ==
  /\ a.kind \in {"target", "target_version", "target_clones", "interrupt"} /\ IsSequence(a.strings)
  /\ a.kind # "interrupt" => \A i \in DOMAIN a.strings : IsString(a.strings[i])
  /\ a.kind \in {"target", "target_version"} => Len(a.strings) = 1
\* At most one target attribute: a second one is another declaration's.
IsFunction(f) ==
  /\ DOMAIN f = {"plain", "attributes", "calls"} /\ f.plain \in BOOLEAN /\ f.calls \in BOOLEAN
  /\ IsSequence(f.attributes) /\ \A i \in DOMAIN f.attributes : IsAttribute(f.attributes[i])
  /\ \A i, j \in DOMAIN f.attributes :
       f.attributes[i].kind = "target" /\ f.attributes[j].kind = "target" => i = j
ASSUME FunctionsAssumption == \A f \in Functions : IsFunction(f)

VARIABLES
  target,      \* the command line
  isa,         \* ISAInfo: the extensions of the target
  abi,         \* ABI
  func,        \* the function, its attributes still to be handled
  targetAttr,  \* the features of its TargetAttr
  versions,    \* the strings of its TargetVersionAttr or TargetClonesAttr
  interrupt,   \* the types of its RISCVInterruptAttr, {} without one
  pc           \* "target", "attributes", "done" or "failed"

vars == <<target, isa, abi, func, targetAttr, versions, interrupt, pc>>

-----------------------------------------------------------------------------
\* RISCVISAInfo::parseFeatures: the last setting of an extension counts, and what the
\* extensions imply is added.
Enabled(fs) ==
  FoldLeft(LAMBDA on, f : IF f.on THEN on \cup f.exts ELSE on \ f.exts, {}, fs)
parseFeatures(fs) == UNION {Implied[e] : e \in Enabled(fs)}
IsValid(exts) == \A c \in Conflicts : ~(c \subseteq exts)

\* All the extensions of the features are appended: they override any negative.
initFeatureMap(fs) == Enabled(fs \o Plus(parseFeatures(fs)))

\* Feature map of the function with the attributes handled so far.
FunctionFeatures == initFeatureMap(target.features \o targetAttr)
HasFeature(ext) == ext \in isa \/ ext \in FunctionFeatures

MinVLen(exts) ==
  LET lens == {VLen[e] : e \in exts \cap DOMAIN VLen}
  IN IF lens = {} THEN 0 ELSE CHOOSE n \in lens : \A m \in lens : m <= n
\* Faulty variant of AtLeast: the upper bound is taken as it is given.
AtLeastGiven(max, low) == max
\* An upper bound under what is guaranteed is raised to it; 0 is no bound.
AtLeast(max, low) == IF max # 0 /\ max < low THEN low ELSE max
\* The vscale the function may see: the options and the Zvl extensions; <<>> if unknown.
getVScaleRange(exts, min, max) ==
  LET zvl == MinVLen(exts) \div 64
      low == IF min > zvl THEN min ELSE zvl
  IN IF min # 0 \/ max # 0 THEN <<IF low = 0 THEN 1 ELSE low, AtLeast(max, low)>>
     ELSE IF zvl > 0 THEN <<zvl, 65536 \div 64>>
     ELSE <<>>

-----------------------------------------------------------------------------
\* handleFullArchString: every extension is set, to false first; an invalid string is
\* forwarded, where it sets nothing.
handleFullArchString(exts) ==
  IF exts = {} THEN <<>>
  ELSE Minus(Extensions) \o Plus(exts)

\* Faulty variant of SetsFeatures: a cpu= replaces the features of an arch= too.
SetsFeaturesAlways(a, p) == p.value \in DOMAIN CPUArch
SetsFeatures(a, p) == ~a.foundArch /\ p.value \in DOMAIN CPUArch
\* One part of parseTargetAttr.  An arch= replaces the features before it, a cpu= only
\* those before it that no arch= gave.
ParsePart(a, p) ==
  CASE p.key = "arch+" -> [a EXCEPT !.features = p.value, !.foundArch = TRUE,
                                    !.duplicate = @ \/ a.foundArch]
    [] p.key = "arch"  -> [a EXCEPT !.features = handleFullArchString(p.value),
                                    !.foundArch = TRUE, !.duplicate = @ \/ a.foundArch]
    [] p.key = "cpu"   -> [a EXCEPT !.cpu = p.value, !.duplicate = @ \/ a.cpu # "",
                             !.features = IF SetsFeatures(a, p)
                                            THEN handleFullArchString(CPUArch[p.value]) ELSE @]
    [] p.key = "tune"  -> [a EXCEPT !.tune = p.value, !.duplicate = @ \/ a.tune # ""]
    [] p.key = "exts"  -> [a EXCEPT !.features = @ \o p.value]
    [] OTHER           -> a
parseTargetAttr(s) ==
  FoldLeft(ParsePart, [features |-> <<>>, cpu |-> "", tune |-> "", duplicate |-> FALSE,
                       foundArch |-> FALSE], s)

\* Faulty variant of getFMVPriority: only the last part may be the priority.
getFMVPriorityLast(s) ==
  IF Last(s).key = "priority" /\ ~Last(s).spaced THEN Last(s).value ELSE 0
\* The string is cut at its last semicolon; what is left of it is the priority if it begins
\* as one and is no more than that, else what is right of it.
getFMVPriority(s) ==
  LET left == IF Len(s) > 1 THEN Front(s) ELSE s
      Begins(part) == part.key = "priority" /\ ~part.spaced
  IN CASE Begins(left[1])                -> IF Len(left) = 1 THEN left[1].value ELSE 0
       [] ~Begins(left[1]) /\ Begins(Last(s)) -> Last(s).value
       [] OTHER                          -> 0

\* isValidFMVExtension, and a part that the versions of a function may have.
isValidFMVExtension(f) == f.on /\ f.exts \subseteq DOMAIN FeatureBit
IsVersionPart(p) ==
  \/ /\ p.key = "arch+" /\ parseTargetAttr(<<p>>).features # <<>>
     /\ \A i \in DOMAIN parseTargetAttr(<<p>>).features :
          isValidFMVExtension(parseTargetAttr(<<p>>).features[i])
  \/ p.key = "default"
  \/ p.key = "priority" /\ p.value >= 0
HasPart(s, key) == \E i \in DOMAIN s : s[i].key = key

\* checkTargetVersionAttr.  DuplicateAttr is set anew by every part: the last one decides.
DuplicateAttr(s) == \E i \in 1 .. Len(s) - 1 : s[i].key = Last(s).key
checkTargetVersionAttr(s) ==
  /\ \A i \in DOMAIN s : IsVersionPart(s[i])
  /\ ~DuplicateAttr(s)
  /\ HasPart(s, "default") => ~HasPart(s, "priority") /\ ~HasPart(s, "arch+")
  /\ HasPart(s, "priority") => HasPart(s, "arch+")

\* checkTargetClonesAttr: each string is trimmed; one must have the default.
Trimmed(s) == [s EXCEPT ![1].spaced = FALSE]
checkTargetClonesAttr(strings) ==
  /\ \A i \in DOMAIN strings :
       /\ \A j \in DOMAIN strings[i] : IsVersionPart(strings[i][j])
       /\ ~(HasPart(strings[i], "priority") /\ HasPart(strings[i], "default"))
  /\ \E i \in DOMAIN strings : HasPart(strings[i], "default")

-----------------------------------------------------------------------------
(***************************************************************************)
(* The steps: the target, then one attribute after the other.              *)
(***************************************************************************)
Init ==
  /\ target \in Targets /\ func \in Functions
  /\ isa = {} /\ abi = target.abi
  /\ targetAttr = <<>> /\ versions = <<>> /\ interrupt = {} /\ pc = "target"

\* computeDefaultABI, for RV32.
computeDefaultABI(exts) ==
  IF "e" \in exts THEN "ilp32e" ELSE IF "d" \in exts THEN "ilp32d" ELSE "ilp32"

\* handleTargetFeatures: ISAInfo is set before the ABI is checked against it.
handleTargetFeatures ==
  /\ pc = "target"
  /\ IF ~IsValid(parseFeatures(target.features))
       THEN pc' = "failed" /\ UNCHANGED <<isa, abi>>
       ELSE /\ isa' = parseFeatures(target.features)
            /\ abi' = IF abi = "" THEN computeDefaultABI(isa') ELSE abi
            /\ pc' = IF abi' = "ilp32e" /\ "d" \in isa' THEN "failed" ELSE "attributes"
  /\ UNCHANGED <<target, func, targetAttr, versions, interrupt>>

Attribute == Head(func.attributes)
Handles(kind) ==
  /\ pc = "attributes" /\ func.attributes # <<>> /\ Attribute.kind = kind
  /\ func' = [func EXCEPT !.attributes = Tail(@)]
  /\ UNCHANGED <<target, isa, abi, pc>>

\* A target attribute with a part written twice is dropped with a warning.
HandleTarget ==
  /\ Handles("target")
  /\ LET parsed == parseTargetAttr(Attribute.strings[1])
     IN targetAttr' = IF parsed.duplicate THEN <<>> ELSE parsed.features
  /\ UNCHANGED <<versions, interrupt>>

HandleTargetVersion ==
  /\ Handles("target_version")
  /\ versions' = IF checkTargetVersionAttr(Attribute.strings[1])
                   THEN Attribute.strings ELSE versions
  /\ UNCHANGED <<targetAttr, interrupt>>

HandleTargetClones ==
  /\ Handles("target_clones")
  /\ versions' = IF checkTargetClonesAttr(Attribute.strings)
                   THEN [i \in DOMAIN Attribute.strings |-> Trimmed(Attribute.strings[i])]
                   ELSE versions
  /\ UNCHANGED <<targetAttr, interrupt>>

\* The types of an interrupt attribute: those that stand alone, those that need an extension.
UnaryTypes == {"supervisor", "rnmi", "qcinest", "qcinonest"}
CLICTypes == {"SiFiveCLICPreemptible", "SiFiveCLICStackSwap"}
InterruptTypes == UnaryTypes \cup CLICTypes \cup {"machine"}
RequiredExtension(type) ==
  CASE type \in {"qcinest", "qcinonest"} -> {"xqciint"}
    [] type \in CLICTypes                -> {"xsfmclic"}
    [] type = "rnmi"                     -> {"smrnmi"}
    [] OTHER                             -> {}
\* Faulty variant of Accepted: a type that is not known is ignored.
AcceptedUnknown(types, n) == n <= 3 /\ (types \cap UnaryTypes # {} => Cardinality(types) = 1)
\* Faulty variant of Accepted: a CLIC type may stand beside any other.
AcceptedAny(types, n) == n <= 3 /\ types \subseteq InterruptTypes
Accepted(types, n) ==
  /\ n <= 3 /\ types \subseteq InterruptTypes
  /\ types \cap UnaryTypes # {} => Cardinality(types) = 1 /\ types \cap CLICTypes = {}
IsRepeated == interrupt # {}
\* A repeated attribute is ignored; any violation leaves the function without one.
handleInterruptAttr ==
  /\ Handles("interrupt")
  /\ LET written == Attribute.strings
         types == IF written = <<>> THEN {"machine"} ELSE ToSet(written)
     IN interrupt' =
          IF /\ ~IsRepeated /\ func.plain /\ Accepted(types, Len(written))
             /\ \A t \in types : \A e \in RequiredExtension(t) : HasFeature(e)
            THEN types ELSE interrupt
  /\ UNCHANGED <<targetAttr, versions>>

Finish ==
  /\ pc = "attributes" /\ func.attributes = <<>> /\ pc' = "done"
  /\ UNCHANGED <<target, isa, abi, func, targetAttr, versions, interrupt>>

Next == handleTargetFeatures \/ HandleTarget \/ HandleTargetVersion \/ HandleTargetClones
          \/ handleInterruptAttr \/ Finish
Spec == Init /\ [][Next]_vars

-----------------------------------------------------------------------------
(***************************************************************************)
(* The resolver: what EmitRISCVCpuSupports tests, and the version that a   *)
(* CPU with the given extensions runs.                                     *)
(***************************************************************************)
\* The comparisons of the condition, one for each group of bits with a bit to test.  The
\* condition false, of an extension that has no bit, is a comparison nothing passes; the code
\* asserts that there is one.
EmitRISCVCpuSupports(exts) ==
  LET bits == {FeatureBit[e] : e \in exts}
  IN IF ~(exts \subseteq DOMAIN FeatureBit) THEN {<<0, {-1}>>}
     ELSE {<<g, {b[2] : b \in {c \in bits : c[1] = g}}>> : g \in {b[1] : b \in bits}}
FeatureBits(cpu, g) ==
  {FeatureBit[e][2] : e \in {d \in cpu \cap DOMAIN FeatureBit : FeatureBit[d][1] = g}}
Holds(condition, cpu) == \A c \in condition : c[2] \subseteq FeatureBits(cpu, c[1])

Condition(v) == EmitRISCVCpuSupports(Named(parseTargetAttr(v).features))
\* The versions with features are tried in the order of their priority.
Runs(cpu) ==
  LET tested == {i \in DOMAIN versions : parseTargetAttr(versions[i]).features # <<>>}
      able == {i \in tested : Holds(Condition(versions[i]), cpu)}
  IN {i \in able : \A j \in able : getFMVPriority(versions[j]) <= getFMVPriority(versions[i])}

-----------------------------------------------------------------------------
(***************************************************************************)
(* Properties.                                                             *)
(***************************************************************************)
\* Types of the variables.
TypeOK ==
  /\ target \in Targets
  /\ isa \subseteq Extensions /\ abi \in {"", "ilp32", "ilp32d", "ilp32e"}
  /\ targetAttr \in Seq(Feature) /\ interrupt \subseteq InterruptTypes
  /\ pc \in {"target", "attributes", "done", "failed"}

\* The extensions of the target and of the function are closed under implication, and no
\* target that is accepted combines ILP32E with D, with the ABI given or the default
\* (handleTargetFeatures, initFeatureMap).
FeaturesClosed ==
  /\ \A e \in isa : Implied[e] \subseteq isa
  /\ \A e \in FunctionFeatures : Implied[e] \subseteq FunctionFeatures
  /\ ~(abi = "ilp32e" /\ "d" \in isa)
\* vscale has a value in the range of the target whatever the options are, and none below what
\* the Zvl extensions guarantee (getVScaleRange).
VScaleRangeSound ==
  LET range == getVScaleRange(isa, target.vscale[1], target.vscale[2])
  IN range # <<>> =>
       /\ range[1] >= 1 /\ range[1] * 64 >= MinVLen(isa) /\ range[1] >= target.vscale[1]
       /\ range[2] = 0 \/ range[1] <= range[2]
\* What the command line and the attributes leave is a target that exists.
TargetSound == pc \in {"attributes", "done"} => FeaturesClosed /\ VScaleRangeSound

\* The parts of a version string that Sema and the parsers read alike: one architecture and
\* at most one priority, without a blank before it.
WellWritten(v) ==
  /\ \A i, j \in DOMAIN v : v[i].key = v[j].key => i = j
  /\ \A i \in DOMAIN v : ~v[i].spaced
  /\ v = <<v[1]>> \/ ~HasPart(v, "default")
  /\ HasPart(v, "priority") => HasPart(v, "arch+")
AskedFor(v) ==
  UNION {Named(v[i].value) : i \in {k \in DOMAIN v : v[k].key = "arch+"}}
PriorityOf(v) ==
  LET at == {i \in DOMAIN v : v[i].key = "priority"}
  IN IF at = {} THEN 0 ELSE v[CHOOSE i \in at : TRUE].value

\* The resolver of a function whose versions are well written runs one the CPU has the
\* extensions for, and none it has them for is of higher priority, wherever the priority is
\* written; the default runs only where no other version can (checkTargetVersionAttr,
\* parseTargetAttr, getFMVPriority and EmitRISCVCpuSupports read the string on their own); a
\* version with extensions gives the resolver a condition to test, which the code asserts, and
\* some CPU runs it.
ResolverPicksBest ==
  pc = "done" /\ (\A i \in DOMAIN versions : WellWritten(versions[i])) =>
    \A cpu \in SUBSET DOMAIN FeatureBit :
      LET able == {i \in DOMAIN versions :
                     AskedFor(versions[i]) # {} /\ AskedFor(versions[i]) \subseteq cpu}
      IN /\ Runs(cpu) = {i \in able : \A j \in able :
                            PriorityOf(versions[j]) <= PriorityOf(versions[i])}
         /\ \A i \in DOMAIN versions :
              AskedFor(versions[i]) # {} =>
                Condition(versions[i]) # {} /\ Holds(Condition(versions[i]), DOMAIN FeatureBit)

\* What a target attribute with one arch= and one cpu= means does not depend on the order of
\* its parts: the architecture given decides over the CPU's, which decides over the
\* command line (parseTargetAttr).
FeaturesAsAsked ==
  [][HandleTarget =>
       LET s == Attribute.strings[1]
           arch == {i \in DOMAIN s : s[i].key \in {"arch", "arch+"}}
           cpu == {i \in DOMAIN s : s[i].key = "cpu" /\ s[i].value \in DOMAIN CPUArch}
       IN (Cardinality(arch) = 1 /\ Cardinality(cpu) = 1 /\ ~HasPart(s, "exts")
             /\ ~parseTargetAttr(s).duplicate) =>
            LET p == s[CHOOSE i \in arch : TRUE]
            IN FunctionFeatures' =
                 IF p.key = "arch" /\ p.value # {} THEN parseFeatures(Plus(p.value))
                 ELSE IF p.key = "arch" THEN parseFeatures(target.features)
                 ELSE parseFeatures(target.features \o p.value)]_vars

\* The function keeps the types of its first good interrupt attribute; they may be combined,
\* and an extension they need is one of the target or of a target attribute written before
\* (handleInterruptAttr, which asks for the features while the attributes are handled).
InterruptLegal ==
  interrupt # {} =>
    /\ interrupt \subseteq {"machine"} \cup CLICTypes \/ Cardinality(interrupt) = 1
    /\ \A t \in interrupt : RequiredExtension(t) \subseteq isa \cup FunctionFeatures
=============================================================================
