--------------------- MODULE SerializeExecutable_proofs ---------------------
(***************************************************************************)
(* Proofs about SerializeExecutable, for every variant and every set of    *)
(* libraries: the functions that the object file defines and shows.        *)
(***************************************************************************)
EXTENDS SerializeExecutable, SequenceTheorems, TLAPS

-----------------------------------------------------------------------------
(***************************************************************************)
(* Type correctness.                                                       *)
(***************************************************************************)
Artifacts == Contents \cup {"base", "empty"}

\* There are no more artifacts than the steps that add one have been taken.
ObjectsInv ==
  /\ TypeOK
  /\ objectFiles \in Seq(Artifacts)
  /\ Len(objectFiles) <= nextObject

LEMMA ObjectFacts ==
  ASSUME variant \in Variants
  PROVE  /\ Len(variant.objects) \in Nat
         /\ DOMAIN variant.objects = 1 .. Len(variant.objects)
         /\ \A i \in DOMAIN variant.objects : variant.objects[i].content \in Contents
<1> DEFINE Object == [content : Contents, inline : BOOLEAN, found : BOOLEAN]
<1>1. variant.objects \in Seq(Object)
  BY VariantsAssumption
<1>2. Len(variant.objects) \in Nat /\ DOMAIN variant.objects = 1 .. Len(variant.objects)
  <2> HIDE DEF Object
  <2> QED BY <1>1
<1>3. \A i \in DOMAIN variant.objects : variant.objects[i] \in Object
  <2> HIDE DEF Object
  <2> QED BY <1>1, <1>2, ElementOfSeq
<1> QED BY <1>2, <1>3

\* Linking and optimising leave every function external or internal.
LEMMA LinkageTypes ==
  ASSUME TypeOK
  PROVE  /\ \A library : \A f \in DOMAIN LinkAll(library) :
              LinkAll(library)[f] \in {"external", "internal"}
         /\ \A library : \A f \in DOMAIN LinkOnlyNeeded(library) :
              LinkOnlyNeeded(library)[f] \in {"external", "internal"}
         /\ \A lk \in Optimized(linkage) : \A f \in DOMAIN lk : lk[f] \in {"external", "internal"}
<1>1. \A library : \A f \in DOMAIN LinkAll(library) :
        LinkAll(library)[f] \in {"external", "internal"}
  BY DEF LinkAll, TypeOK, Defined
<1>2. \A library : \A f \in DOMAIN LinkOnlyNeeded(library) :
        LinkOnlyNeeded(library)[f] \in {"external", "internal"}
  BY DEF LinkOnlyNeeded, TypeOK, Defined
<1>3. \A lk \in Optimized(linkage) : \A f \in DOMAIN lk : lk[f] \in {"external", "internal"}
  BY DEF Optimized, Internal, TypeOK, Defined
<1> QED BY <1>1, <1>2, <1>3

\* A step that may fail goes on to the next part or fails.
LEMMA StepTypes ==
  ASSUME NEW step, NEW ok, NEW next \in Steps
  PROVE  (Step(step, ok, next) \/ Attempt(step, ok, next)) => pc' \in Steps
BY DEF Step, Attempt, Steps

LEMMA ObjectsKept == ObjectsInv /\ [Next]_vars => ObjectsInv'
<1> SUFFICES ASSUME ObjectsInv, [Next]_vars PROVE ObjectsInv'
  OBVIOUS
<1> USE DEF ObjectsInv, TypeOK
<1>1. CASE CheckFlags
  <2>1. pc' \in Steps
    BY <1>1, StepTypes DEF CheckFlags, Steps
  <2> QED BY <1>1, <2>1 DEF CheckFlags, Defined, target
<1>2. CASE Translate
  <2>1. pc' \in Steps
    BY <1>2, StepTypes DEF Translate, Steps
  <2>2. \A f \in DOMAIN linkage' : linkage'[f] \in {"external", "internal"}
    BY <1>2 DEF Translate, Defined
  <2> QED BY <1>2, <2>1, <2>2 DEF Translate, Defined, target
<1>3. CASE BuildLibrary
  <2>1. pc' \in Steps
    BY <1>3, StepTypes DEF BuildLibrary, Steps
  <2>2. \A f \in DOMAIN linkage' : linkage'[f] \in {"external", "internal"}
    BY <1>3 DEF BuildLibrary, Defined
  <2> QED BY <1>3, <2>1, <2>2 DEF BuildLibrary, Defined, target
<1>4. CASE ConfigureLinkerTool
  <2>1. pc' \in Steps
    BY <1>4, StepTypes DEF ConfigureLinkerTool, Steps
  <2>2. \A f \in DOMAIN linkage' : linkage'[f] \in {"external", "internal"}
    BY <1>4 DEF ConfigureLinkerTool, Defined
  <2> QED BY <1>4, <2>1, <2>2 DEF ConfigureLinkerTool, Defined, target
<1>5. CASE LinkCmdlineBitcode \/ LinkBitcodeObjects \/ LinkLibdevice \/ LinkMusl \/ LinkUkernel
  <2>1. pc' \in Steps
    BY <1>5, StepTypes
       DEF LinkCmdlineBitcode, LinkBitcodeObjects, LinkLibdevice, LinkMusl, LinkUkernel, Steps
  <2>2. \A f \in DOMAIN linkage' : linkage'[f] \in {"external", "internal"}
    BY <1>5, LinkageTypes
       DEF LinkCmdlineBitcode, LinkBitcodeObjects, LinkLibdevice, LinkMusl, LinkUkernel, Defined
  <2> QED BY <1>5, <2>1, <2>2
          DEF LinkCmdlineBitcode, LinkBitcodeObjects, LinkLibdevice, LinkMusl, LinkUkernel,
              Defined, target
<1>6. CASE RunLLVMIRPasses
  <2>1. pc' \in Steps
    BY <1>6, StepTypes DEF RunLLVMIRPasses, Steps
  <2>2. \A f \in DOMAIN linkage' : linkage'[f] \in {"external", "internal"}
    BY <1>6, LinkageTypes DEF RunLLVMIRPasses, Defined
  <2> QED BY <1>6, <2>1, <2>2 DEF RunLLVMIRPasses, Defined, target
<1>7. CASE FixupVisibility
  <2>1. pc' \in Steps
    BY <1>7, StepTypes DEF FixupVisibility, Steps
  <2>2. \A f \in DOMAIN linkage' : linkage'[f] \in {"external", "internal"}
    BY <1>7 DEF FixupVisibility, fixupVisibility, Defined
  <2> QED BY <1>7, <2>1, <2>2 DEF FixupVisibility, Defined, target
<1>8. CASE EmitObject
  <2>1. pc' \in Steps
    BY <1>8, StepTypes DEF EmitObject, Steps
  <2>2. objectFiles' \in Seq(Artifacts) /\ Len(objectFiles') <= nextObject
    <3>1. CASE Succeeds
      <4>1. objectFiles' = <<"base">>
        BY <1>8, <3>1 DEF EmitObject
      <4>2. 1 <= nextObject
        BY ObjectFacts
      <4>3. "base" \in Artifacts
        BY DEF Artifacts
      <4>4. objectFiles' \in Seq(Artifacts) /\ Len(objectFiles') = 1
        BY <4>1, <4>3
      <4> QED BY <4>2, <4>4
    <3>2. CASE ~Succeeds
      BY <1>8, <3>2 DEF EmitObject
    <3> QED BY <3>1, <3>2
  <2> QED BY <1>8, <2>1, <2>2, ObjectFacts DEF EmitObject, Defined, target
<1>9. CASE EmitAssembly
  <2>1. pc' \in Steps
    BY <1>9, StepTypes DEF EmitAssembly, Steps
  <2> QED BY <1>9, <2>1 DEF EmitAssembly, Defined, target
<1>10. CASE AddCustomObject
  <2>1. pc' \in Steps
    BY <1>10, StepTypes DEF AddCustomObject, Steps
  <2>2. objectFiles' \in Seq(Artifacts) /\ Len(objectFiles') <= nextObject + 1
    <3> DEFINE content == IF variant.objects[nextObject].inline THEN "empty"
                          ELSE variant.objects[nextObject].content
    <3>1. content \in Artifacts
      <4>1. nextObject \in DOMAIN variant.objects
        BY <1>10 DEF AddCustomObject
      <4>2. variant.objects[nextObject].content \in Artifacts
        BY <4>1, ObjectFacts DEF Artifacts
      <4>3. "empty" \in Artifacts
        BY DEF Artifacts
      <4> QED BY <4>2, <4>3
    <3>2. objectFiles' = objectFiles \/ objectFiles' = Append(objectFiles, content)
      BY <1>10 DEF AddCustomObject
    <3>3. nextObject \in Nat /\ Len(objectFiles) \in Nat
      BY ObjectFacts
    <3> HIDE DEF content
    <3>4. Append(objectFiles, content) \in Seq(Artifacts)
          /\ Len(Append(objectFiles, content)) = Len(objectFiles) + 1
      BY <3>1, AppendProperties
    <3>5. Len(objectFiles) <= nextObject
      OBVIOUS
    <3> QED BY <3>2, <3>3, <3>4, <3>5
  <2>3. nextObject + 1 \in 1 .. Len(variant.objects) + 1
    BY <1>10, ObjectFacts DEF AddCustomObject
  <2> QED BY <1>10, <2>1, <2>2, <2>3, ObjectFacts DEF AddCustomObject, Defined, target
<1>11. CASE SerializeStatic
  <2>1. pc' \in Steps
    BY <1>11, StepTypes DEF SerializeStatic, Steps
  <2> QED BY <1>11, <2>1 DEF SerializeStatic, Defined, target
<1>12. CASE SerializeDynamic
  <2>1. pc' \in Steps
    BY <1>12, StepTypes DEF SerializeDynamic, Steps
  <2>2. binary'.format \in {<<>>, <<"static">>, Format(target)}
    BY <1>12 DEF SerializeDynamic
  <2> QED BY <1>12, <2>1, <2>2 DEF SerializeDynamic, Defined, target
<1>13. CASE UNCHANGED vars
  BY <1>13 DEF vars, Defined, target
<1> QED BY <1>1, <1>2, <1>3, <1>4, <1>5, <1>6, <1>7, <1>8, <1>9, <1>10, <1>11, <1>12, <1>13 DEF Next

\* The variables keep their types, for any libraries and any custom objects (TypeOK of the
\* machine).
THEOREM TypeCorrect == Spec => []TypeOK
<1>1. Init => ObjectsInv
  <2> SUFFICES ASSUME Init PROVE ObjectsInv
    OBVIOUS
  <2>1. nextObject \in 1 .. Len(variant.objects) + 1
    BY ObjectFacts DEF Init
  <2> QED BY <2>1, ObjectFacts DEF Init, ObjectsInv, TypeOK, Steps, Defined, NoBinary
<1>2. ObjectsInv => TypeOK
  BY DEF ObjectsInv
<1> QED BY <1>1, <1>2, ObjectsKept, PTL DEF Spec

-----------------------------------------------------------------------------
(***************************************************************************)
(* The symbols.                                                            *)
(***************************************************************************)
\* From the query function's creation to the end.
Optimizing == {"ukernel", "passes", "fixup"}
Linking == {"linkerTool", "cmdline", "bitcodeObjects", "libdevice", "musl"} \cup Optimizing
Built == Linking \cup Emitted

\* The query function is there and visible, and its table holds the entry points alive.
LibraryInv ==
  /\ pc = "library" => Defined = variant.functions
  /\ pc \in Built => /\ QueryName \in Defined /\ linkage[QueryName] = "external"
                     /\ exported \subseteq Defined
                     /\ variant.exports \cap variant.functions \subseteq exported
SymbolsInv == LibraryInv /\ OnlyQueryVisible

\* Linking keeps what is defined, and the query function as it is.
LEMMA LinkingKeeps ==
  ASSUME QueryName \in Defined, linkage[QueryName] = "external"
  PROVE  /\ \A library : LET lk == LinkAll(library)
                         IN Defined \subseteq DOMAIN lk /\ lk[QueryName] = "external"
         /\ \A library : LET lk == LinkOnlyNeeded(library)
                         IN Defined \subseteq DOMAIN lk /\ lk[QueryName] = "external"
BY DEF LinkAll, LinkOnlyNeeded

\* The passes keep what is external, and with the query function all the functions of its table.
LEMMA OptimizedKeeps ==
  ASSUME QueryName \in Defined, linkage[QueryName] = "external", exported \subseteq Defined,
         NEW lk \in Optimized(linkage)
  PROVE  /\ DOMAIN lk \subseteq Defined /\ \A f \in DOMAIN lk : lk[f] = linkage[f]
         /\ Defined \ Internal(linkage) \subseteq DOMAIN lk
         /\ \A f \in DOMAIN lk : CalledBy(f) \cap Defined \subseteq DOMAIN lk
         /\ QueryName \in DOMAIN lk /\ exported \subseteq DOMAIN lk
<1>1. PICK kept \in SUBSET Defined :
        /\ Defined \ Internal(linkage) \subseteq kept
        /\ MayKeep(linkage, kept)
        /\ lk = [f \in kept |-> linkage[f]]
  BY DEF Optimized, Internal, Defined
<1>2. DOMAIN lk = kept /\ \A f \in kept : lk[f] = linkage[f]
  BY <1>1
<1>3. \A f \in kept : CalledBy(f) \cap Defined \subseteq kept
  BY <1>1 DEF MayKeep, Defined
<1>4. QueryName \in kept
  BY <1>1 DEF Internal, Defined
<1>5. CalledBy(QueryName) = exported
  BY DEF CalledBy
<1>6. exported \subseteq kept
  BY <1>3, <1>4, <1>5
<1> QED BY <1>1, <1>2, <1>3, <1>4, <1>6

LEMMA SymbolsKept == SymbolsInv /\ [Next]_vars => SymbolsInv'
<1> SUFFICES ASSUME SymbolsInv, [Next]_vars PROVE SymbolsInv'
  OBVIOUS
<1>a. variant' = variant /\ QueryName' = QueryName
  BY DEF Next, vars, QueryName, target, CheckFlags, Translate, BuildLibrary, ConfigureLinkerTool,
         LinkCmdlineBitcode, LinkBitcodeObjects, LinkLibdevice, LinkMusl, LinkUkernel,
         RunLLVMIRPasses, FixupVisibility, EmitObject, EmitAssembly, AddCustomObject,
         SerializeStatic, SerializeDynamic
<1> USE <1>a DEF SymbolsInv, LibraryInv, OnlyQueryVisible, Built, Linking, Optimizing, Emitted,
                 Step, Attempt, Succeeds
<1>1. CASE CheckFlags
  BY <1>1 DEF CheckFlags, Defined
<1>2. CASE Translate
  BY <1>2 DEF Translate, Defined
<1>3. CASE BuildLibrary
  <2> DEFINE exports == variant.exports \cap Defined
  <2>1. /\ pc = "library" /\ pc' \in {"cmdline", "linkerTool"} /\ exported' = exports
        /\ linkage' = [f \in Defined \cup {QueryName} |->
                         IF f = QueryName THEN "external"
                         ELSE IF f \in exports THEN "internal" ELSE linkage[f]]
    BY <1>3 DEF BuildLibrary
  <2>2. Defined' = Defined \cup {QueryName} /\ linkage'[QueryName] = "external"
    BY <2>1 DEF Defined
  <2> QED BY <2>1, <2>2
<1>4. CASE ConfigureLinkerTool
  <2>1. pc = "linkerTool" /\ pc' \in {"cmdline", "failed"} /\ exported' = exported
    BY <1>4 DEF ConfigureLinkerTool
  <2>2. Defined \subseteq Defined' /\ linkage'[QueryName] = "external"
    BY <1>4, <2>1 DEF ConfigureLinkerTool, Defined
  <2> QED BY <2>1, <2>2
<1>5. CASE LinkCmdlineBitcode \/ LinkBitcodeObjects \/ LinkLibdevice \/ LinkMusl \/ LinkUkernel
  <2> USE DEF LinkCmdlineBitcode, LinkBitcodeObjects, LinkLibdevice, LinkMusl, LinkUkernel
  <2>1. pc \in Linking /\ pc' \in Linking \cup {"failed"} /\ exported' = exported
    BY <1>5
  <2>2. Defined \subseteq DOMAIN linkage' /\ linkage'[QueryName] = "external"
    BY <1>5, <2>1, LinkingKeeps DEF Defined
  <2> QED BY <2>1, <2>2 DEF Defined
<1>6. CASE RunLLVMIRPasses
  <2>1. pc = "passes" /\ pc' \in {"fixup", "failed"} /\ exported' = exported
    BY <1>6 DEF RunLLVMIRPasses
  <2>2. QueryName \in Defined' /\ linkage'[QueryName] = "external" /\ exported \subseteq Defined'
    <3>1. CASE linkage' = linkage
      BY <2>1, <3>1 DEF Defined
    <3>2. CASE linkage' \in Optimized(linkage)
      BY <2>1, <3>2, OptimizedKeeps DEF Defined
    <3> QED BY <1>6, <3>1, <3>2 DEF RunLLVMIRPasses
  <2> QED BY <2>1, <2>2
<1>7. CASE FixupVisibility
  <2>1. pc = "fixup" /\ pc' = "object" /\ exported' = exported
    BY <1>7 DEF FixupVisibility
  <2>2. linkage' = [f \in Defined |-> IF f \in {QueryName, "iree_dll_main"} THEN linkage[f]
                                      ELSE "internal"]
    BY <1>7 DEF FixupVisibility, fixupVisibility, Defined
  <2>3. Defined' = Defined /\ linkage'[QueryName] = "external"
    BY <2>1, <2>2 DEF Defined
  <2>4. \A f \in Defined' : linkage'[f] = "external" => f \in {QueryName, "iree_dll_main"}
    BY <2>2, <2>3
  <2> QED BY <2>1, <2>3, <2>4
<1>8. CASE EmitObject
  BY <1>8 DEF EmitObject, Defined
<1>9. CASE EmitAssembly
  BY <1>9 DEF EmitAssembly, Defined
<1>10. CASE AddCustomObject
  BY <1>10 DEF AddCustomObject, Defined
<1>11. CASE SerializeStatic
  BY <1>11 DEF SerializeStatic, Defined
<1>12. CASE SerializeDynamic
  BY <1>12 DEF SerializeDynamic, Defined
<1>13. CASE UNCHANGED vars
  BY <1>13 DEF vars, Defined
<1> QED BY <1>1, <1>2, <1>3, <1>4, <1>5, <1>6, <1>7, <1>8, <1>9, <1>10, <1>11, <1>12, <1>13 DEF Next

\* Whatever the libraries and whatever the passes drop, the object file shows its query function
\* and nothing else, and has every entry point (SymbolsRight of the machine): the functions are
\* hidden after the passes, and the query function's table keeps the entry points alive.
THEOREM SymbolsCorrect == Spec => []SymbolsRight
<1>1. Init => SymbolsInv
  BY DEF Init, SymbolsInv, LibraryInv, OnlyQueryVisible, Built, Linking, Optimizing, Emitted
<1>2. SymbolsInv => SymbolsRight
  BY DEF SymbolsInv, LibraryInv, SymbolsRight, ExportsKept, Built
<1> QED BY <1>1, <1>2, SymbolsKept, PTL DEF Spec

-----------------------------------------------------------------------------
(***************************************************************************)
(* The calls of an embedded ELF.                                           *)
(***************************************************************************)
\* The whole libraries linked so far, and those whose functions may still be missing.
Linked ==
  (IF pc \in {"bitcodeObjects", "libdevice", "musl"} \cup Optimizing \cup Emitted THEN Cmdline ELSE {})
    \cup (IF pc \in {"musl"} \cup Optimizing \cup Emitted THEN Libdevice ELSE {})
    \cup (IF pc \in Optimizing \cup Emitted THEN Musl ELSE {})
Missing ==
  (IF pc \in {"linkerTool", "cmdline", "bitcodeObjects"} THEN variant.bitcode ELSE {})
    \cup WholeLibraries \cup Ukernel

\* What is linked whole is visible, so that the passes keep it for calls they do not see.
LinkedInv ==
  /\ pc \in {"linkerTool", "cmdline"} => variant.functions \subseteq Defined
  /\ pc \in Built => Linked \subseteq Defined
  /\ pc \in Linking => \A f \in Linked : linkage[f] = "external"
CallsInv == pc \in Built => \A f \in Defined : CalledBy(f) \subseteq Defined \cup Missing
ClosedInv == SymbolsInv /\ (target.embedded => LinkedInv /\ CallsInv)

\* What a library needs of its own comes with what is needed of it.
LEMMA NeededFacts ==
  ASSUME NEW library
  PROVE  /\ Needed(library) \subseteq library
         /\ Undefined \cap library \subseteq Needed(library)
         /\ \A f \in Needed(library) : CalledBy(f) \cap library \subseteq Needed(library)
<1>1. Needed(library) \subseteq library
  BY DEF Needed
<1>2. Undefined \cap library \subseteq Needed(library)
  BY DEF Needed, Suffices
<1>3. ASSUME NEW f \in Needed(library), NEW g \in CalledBy(f) \cap library
      PROVE  g \in Needed(library)
  <2>1. ASSUME NEW part \in SUBSET library, Suffices(library, part) PROVE g \in part
    <3>1. f \in part
      BY <2>1 DEF Needed
    <3> QED BY <2>1, <3>1, <1>3 DEF Suffices
  <2> QED BY <2>1, <1>3 DEF Needed
<1> QED BY <1>1, <1>2, <1>3

\* Linking a library whole resolves the calls of it, and may bring others.
LEMMA LinkAllCalls ==
  ASSUME NEW library, NEW missing,
         \A f \in Defined : CalledBy(f) \subseteq Defined \cup missing,
         \A f \in library : CalledBy(f) \subseteq Defined \cup missing
  PROVE  \A f \in DOMAIN LinkAll(library) : CalledBy(f) \subseteq DOMAIN LinkAll(library) \cup missing
BY DEF LinkAll

\* Linking what is needed of a library resolves the calls of it.
LEMMA LinkNeededCalls ==
  ASSUME NEW library, NEW missing,
         \A f \in Defined \cup library : CalledBy(f) \subseteq Defined \cup library \cup missing
  PROVE  \A f \in DOMAIN LinkOnlyNeeded(library) :
           CalledBy(f) \subseteq DOMAIN LinkOnlyNeeded(library) \cup missing
<1>1. DOMAIN LinkOnlyNeeded(library) = Defined \cup Needed(library)
  BY DEF LinkOnlyNeeded
<1>2. ASSUME NEW f \in Defined PROVE CalledBy(f) \subseteq Defined \cup Needed(library) \cup missing
  <2>1. CalledBy(f) \subseteq Defined \cup Undefined
    <3>1. CalledBy(f) \subseteq UNION {CalledBy(g) : g \in Defined}
      OBVIOUS
    <3> QED BY <3>1 DEF Undefined
  <2> QED BY <2>1, NeededFacts
<1>3. ASSUME NEW f \in Needed(library)
      PROVE  CalledBy(f) \subseteq Defined \cup Needed(library) \cup missing
  BY NeededFacts
<1> QED BY <1>1, <1>2, <1>3

\* The functions of the libraries call what the assumption says.
LEMMA LibraryCalls ==
  ASSUME variant \in Variants, target.embedded, exported \subseteq Defined
  PROVE  /\ \A f \in variant.functions \cup Cmdline :
              CalledBy(f) \subseteq Defined \cup variant.functions \cup variant.bitcode \cup WholeLibraries
                                   \cup Ukernel
         /\ \A f \in variant.bitcode :
              CalledBy(f) \subseteq Defined \cup variant.bitcode \cup WholeLibraries \cup Ukernel
         /\ \A f \in Libdevice \cup Musl \cup Ukernel :
              CalledBy(f) \subseteq Defined \cup WholeLibraries \cup Ukernel
BY LibrariesAssumption DEF CalledBy, target

LEMMA ClosedKept ==
  variant \in Variants /\ ClosedInv /\ SymbolsInv' /\ [Next]_vars => ClosedInv'
<1> SUFFICES ASSUME variant \in Variants, ClosedInv, SymbolsInv', [Next]_vars
             PROVE  ClosedInv'
  OBVIOUS
<1>a. variant' = variant /\ QueryName' = QueryName /\ target' = target
  BY DEF Next, vars, QueryName, target, CheckFlags, Translate, BuildLibrary, ConfigureLinkerTool,
         LinkCmdlineBitcode, LinkBitcodeObjects, LinkLibdevice, LinkMusl, LinkUkernel,
         RunLLVMIRPasses, FixupVisibility, EmitObject, EmitAssembly, AddCustomObject,
         SerializeStatic, SerializeDynamic
<1> SUFFICES ASSUME target.embedded, pc' \in Built PROVE LinkedInv' /\ CallsInv'
  <2>1. pc' \notin Built => LinkedInv' /\ CallsInv'
    BY DEF LinkedInv, CallsInv, Built, Linking
  <2> QED BY <1>a, <2>1 DEF ClosedInv
<1>b. LinkedInv /\ CallsInv /\ LibraryInv
  BY DEF ClosedInv, SymbolsInv
\* The table of the query function is filled once: then calls do not change.
<1>c. ASSUME exported' = exported PROVE \A f : CalledBy(f)' = CalledBy(f)
  BY <1>a, <1>c DEF CalledBy
<1>d. Defined' = DOMAIN linkage'
  BY DEF Defined
<1> USE DEF Built, Linking, Optimizing, Emitted, Step, Attempt, Succeeds
<1>1. CASE CheckFlags
  BY <1>1 DEF CheckFlags
<1>2. CASE Translate
  BY <1>2 DEF Translate
<1>3. CASE BuildLibrary
  <2>1. pc = "library" /\ pc' \in {"cmdline", "linkerTool"}
    BY <1>3 DEF BuildLibrary
  <2>2. Defined = variant.functions /\ Defined' = Defined \cup {QueryName}
    BY <1>3, <1>b, <2>1 DEF BuildLibrary, LibraryInv, Defined
  <2>3. exported' \subseteq Defined
    BY <1>3 DEF BuildLibrary
  <2>4. \A f \in Defined' : CalledBy(f)' \subseteq Defined' \cup Missing'
    <3>1. \A f \in Defined' : CalledBy(f)' \subseteq exported' \cup CallsOf(Calls, f)
      BY <1>a DEF CalledBy
    <3>2. \A f : f = QueryName => CalledBy(f)' = exported'
      BY <1>a DEF CalledBy
    <3>3. \A f \in variant.functions :
            CallsOf(Calls, f) \subseteq variant.functions \cup variant.bitcode \cup WholeLibraries \cup Ukernel
      BY LibrariesAssumption DEF target
    <3>4. Missing' = variant.bitcode \cup WholeLibraries \cup Ukernel
      BY <1>a, <2>1 DEF Missing
    <3>5. TAKE f \in Defined'
    <3>6. CASE f = QueryName
      BY <2>2, <2>3, <3>2, <3>6
    <3>7. CASE f \in variant.functions
      BY <2>2, <2>3, <3>1, <3>3, <3>4, <3>7
    <3> QED BY <2>2, <3>6, <3>7
  <2>5. Linked' = {}
    BY <2>1 DEF Linked
  <2> QED BY <1>a, <2>1, <2>2, <2>4, <2>5 DEF LinkedInv, CallsInv
<1>4. CASE ConfigureLinkerTool
  <2>1. pc = "linkerTool" /\ pc' = "cmdline" /\ exported' = exported /\ linkage' = linkage
    BY <1>4 DEF ConfigureLinkerTool
  <2>2. Linked' = {} /\ Missing' = Missing /\ Defined' = Defined
    BY <1>a, <2>1 DEF Linked, Missing, Defined
  <2> QED BY <1>a, <1>b, <1>c, <2>1, <2>2 DEF LinkedInv, CallsInv
<1>5. CASE LinkCmdlineBitcode
  <2>1. pc = "cmdline" /\ pc' = "bitcodeObjects" /\ exported' = exported
        /\ linkage' = LinkAll(Cmdline)
    BY <1>5 DEF LinkCmdlineBitcode
  <2>2. Linked' = Cmdline /\ Missing' = Missing
    BY <1>a, <2>1 DEF Linked, Missing
  <2>3. \A f \in Cmdline : CalledBy(f) \subseteq Defined \cup Missing
    BY <1>b, <2>1, LibraryCalls DEF LinkedInv, LibraryInv, Missing
  <2>4. \A f \in DOMAIN LinkAll(Cmdline) : CalledBy(f) \subseteq DOMAIN LinkAll(Cmdline) \cup Missing
    BY <1>b, <2>1, <2>3, LinkAllCalls DEF CallsInv
  <2>5. Cmdline \subseteq DOMAIN LinkAll(Cmdline) /\ \A f \in Cmdline : LinkAll(Cmdline)[f] = "external"
    BY DEF LinkAll
  <2> QED BY <1>c, <1>d, <2>1, <2>2, <2>4, <2>5 DEF LinkedInv, CallsInv
<1>6. CASE LinkBitcodeObjects
  <2> DEFINE lk == LinkOnlyNeeded(variant.bitcode)
             missing == WholeLibraries \cup Ukernel
  <2>1. pc = "bitcodeObjects" /\ pc' = "libdevice" /\ exported' = exported /\ linkage' = lk
    BY <1>6 DEF LinkBitcodeObjects
  <2>2. Linked' = Linked /\ Missing' = missing /\ Missing = variant.bitcode \cup missing
    BY <1>a, <2>1 DEF Linked, Missing
  <2>3. \A f \in Defined \cup variant.bitcode :
          CalledBy(f) \subseteq Defined \cup variant.bitcode \cup missing
    BY <1>b, <2>1, <2>2, LibraryCalls DEF CallsInv, LibraryInv
  <2>4. \A f \in DOMAIN lk : CalledBy(f) \subseteq DOMAIN lk \cup missing
    <3> HIDE DEF missing
    <3> QED BY <2>3, LinkNeededCalls
  <2>5. Defined \subseteq DOMAIN lk /\ \A f \in Defined : lk[f] = linkage[f]
    BY DEF LinkOnlyNeeded
  <2> QED BY <1>b, <1>c, <1>d, <2>1, <2>2, <2>4, <2>5 DEF LinkedInv, CallsInv
<1>7. CASE LinkLibdevice \/ LinkMusl
  <2>1. PICK library \in {Libdevice, Musl} :
          /\ pc \in {"libdevice", "musl"} /\ pc' \in {"musl", "ukernel"} /\ exported' = exported
          /\ linkage' = LinkAll(library) /\ Linked' = Linked \cup library
    BY <1>7 DEF LinkLibdevice, LinkMusl, Linked
  <2>2. Missing' = Missing /\ Missing = WholeLibraries \cup Ukernel
    BY <1>a, <2>1 DEF Missing
  <2>3. \A f \in library : CalledBy(f) \subseteq Defined \cup Missing
    BY <1>b, <2>1, <2>2, LibraryCalls DEF LibraryInv
  <2>4. \A f \in DOMAIN LinkAll(library) : CalledBy(f) \subseteq DOMAIN LinkAll(library) \cup Missing
    BY <1>b, <2>1, <2>3, LinkAllCalls DEF CallsInv
  <2>5. /\ Defined \cup library \subseteq DOMAIN LinkAll(library)
        /\ \A f \in Linked \cup library : linkage'[f] = "external"
    BY <1>b, <2>1 DEF LinkAll, LinkedInv
  <2> QED BY <1>b, <1>c, <1>d, <2>1, <2>2, <2>4, <2>5 DEF LinkedInv, CallsInv
<1>8. CASE LinkUkernel
  <2> DEFINE lk == LinkOnlyNeeded(Ukernel)
  <2>1. pc = "ukernel" /\ pc' = "passes" /\ exported' = exported /\ linkage' \in {linkage, lk}
    BY <1>8 DEF LinkUkernel
  <2>2. Linked' = Linked /\ Missing' = Missing /\ Missing = WholeLibraries \cup Ukernel
    BY <1>a, <2>1 DEF Linked, Missing
  <2>3. \A f \in Defined \cup Ukernel : CalledBy(f) \subseteq Defined \cup Ukernel \cup Missing
    BY <1>b, <2>1, <2>2, LibraryCalls DEF CallsInv, LibraryInv
  <2>4. \A f \in DOMAIN lk : CalledBy(f) \subseteq DOMAIN lk \cup Missing
    BY <2>3, LinkNeededCalls
  <2>5. Defined \subseteq DOMAIN lk /\ \A f \in Defined : lk[f] = linkage[f]
    BY DEF LinkOnlyNeeded
  <2>6. CASE linkage' = lk
    BY <1>b, <1>c, <1>d, <2>1, <2>2, <2>4, <2>5, <2>6 DEF LinkedInv, CallsInv
  <2>7. CASE linkage' = linkage
    BY <1>b, <1>c, <1>d, <2>1, <2>2, <2>7 DEF LinkedInv, CallsInv, Defined
  <2> QED BY <2>1, <2>6, <2>7
<1>9. CASE RunLLVMIRPasses
  <2>1. pc = "passes" /\ pc' = "fixup" /\ exported' = exported /\ linkage' \in Optimized(linkage)
    BY <1>9 DEF RunLLVMIRPasses
  <2>2. Linked' = Linked /\ Missing' = Missing
    BY <1>a, <2>1 DEF Linked, Missing
  <2>3. /\ Defined' \subseteq Defined /\ \A f \in Defined' : linkage'[f] = linkage[f]
        /\ Defined \ Internal(linkage) \subseteq Defined'
        /\ \A f \in Defined' : CalledBy(f) \cap Defined \subseteq Defined'
    BY <1>b, <1>d, <2>1, OptimizedKeeps DEF LibraryInv
  <2>4. Linked \subseteq Defined'
    BY <1>b, <2>1, <2>3 DEF LinkedInv, Internal
  <2>5. \A f \in Linked' : linkage'[f] = "external"
    BY <1>b, <2>1, <2>2, <2>3, <2>4 DEF LinkedInv
  <2>6. \A f \in Defined' : CalledBy(f) \subseteq Defined' \cup Missing
    BY <1>b, <2>1, <2>3 DEF CallsInv
  <2> QED BY <1>c, <2>1, <2>2, <2>4, <2>5, <2>6 DEF LinkedInv, CallsInv
<1>10. CASE FixupVisibility \/ EmitObject \/ EmitAssembly \/ AddCustomObject \/ SerializeStatic
            \/ SerializeDynamic
  <2>1. pc \in {"fixup"} \cup Emitted /\ pc' \in Emitted /\ exported' = exported
    BY <1>10 DEF FixupVisibility, EmitObject, EmitAssembly, AddCustomObject, SerializeStatic,
                 SerializeDynamic
  <2>2. Defined' = Defined
    BY <1>10 DEF FixupVisibility, EmitObject, EmitAssembly, AddCustomObject, SerializeStatic,
                 SerializeDynamic, fixupVisibility, Defined
  <2>3. Linked' = Linked /\ Missing' = Missing
    BY <1>a, <2>1 DEF Linked, Missing
  <2> QED BY <1>b, <1>c, <2>1, <2>2, <2>3 DEF LinkedInv, CallsInv
<1>11. CASE UNCHANGED vars
  <2>1. pc' = pc /\ exported' = exported /\ linkage' = linkage
    BY <1>11 DEF vars
  <2>2. Linked' = Linked /\ Missing' = Missing /\ Defined' = Defined
    BY <1>a, <2>1 DEF Linked, Missing, Defined
  <2> QED BY <1>a, <1>b, <1>c, <2>1, <2>2 DEF LinkedInv, CallsInv
<1> QED BY <1>1, <1>2, <1>3, <1>4, <1>5, <1>6, <1>7, <1>8, <1>9, <1>10, <1>11 DEF Next

\* An embedded ELF defines all that its code calls and all that the passes and the instruction
\* selection make it call, whatever the libraries are and whatever the passes drop
\* (SelfContained of the machine): the libraries are linked whole, or as far as they are needed,
\* in an order in which none calls back, and hidden only after the passes.
THEOREM CallsResolved == Spec => []SelfContained
<1>1. Init => ClosedInv
  BY DEF Init, ClosedInv, SymbolsInv, LibraryInv, OnlyQueryVisible, LinkedInv, CallsInv, Built,
         Linking, Optimizing, Emitted
<1>2. TypeOK /\ ClosedInv => SelfContained
  <2> SUFFICES ASSUME TypeOK, ClosedInv, pc \in Emitted, target.embedded, NEW f \in Defined
               PROVE  CalledBy(f) \cup CallsOf(PassCalls, f) \cup CallsOf(CodegenCalls, f)
                        \subseteq Defined \cup Ukernel
    BY DEF SelfContained
  <2>1. Linked = WholeLibraries /\ Missing = WholeLibraries \cup Ukernel
    BY DEF Linked, Missing, WholeLibraries, Emitted
  <2>2. WholeLibraries \subseteq Defined /\ CalledBy(f) \subseteq Defined \cup Missing
    BY <2>1 DEF ClosedInv, LinkedInv, CallsInv, Built
  <2>3. CallsOf(PassCalls, f) \subseteq WholeLibraries /\ CallsOf(CodegenCalls, f) \subseteq WholeLibraries
    BY LibrariesAssumption DEF TypeOK, CallsOf, target
  <2> QED BY <2>1, <2>2, <2>3
<1>3. TypeOK /\ ClosedInv /\ [Next]_vars => ClosedInv'
  BY ClosedKept, SymbolsKept DEF TypeOK, ClosedInv
<1> QED BY <1>1, <1>2, <1>3, TypeCorrect, PTL DEF Spec

=============================================================================
