------------------------- MODULE SerializeExecutable -------------------------
(***************************************************************************)
(* LLVMCPUTargetBackend::serializeExecutable: one executable variant is    *)
(* translated to an LLVM module, the module is linked with bitcode         *)
(* libraries, optimised, has its symbols hidden, is compiled to an object  *)
(* file and becomes the binary of the executable.  Every tool and library  *)
(* called may fail; the order of the steps decides which functions are     *)
(* still there, and which are visible, when the object file is written.    *)
(***************************************************************************)
EXTENDS Integers, Sequences, FiniteSets, SequencesExt

CONSTANTS
  Variants,     \* the variants and targets that may be serialized
  Contents,     \* what custom objects contain
  Calls,        \* function name -> the functions its body calls
  PassCalls,    \* ... that the optimisation passes make it call (llvm.frem -> fmodf)
  CodegenCalls, \* ... that instruction selection makes it call (llvm.memcpy -> memcpy)
  Cmdline, Libdevice, Musl, Ukernel  \* the functions each bitcode library defines

\* The calls that the code of f makes, which map lists.
CallsOf(map, f) == IF f \in DOMAIN map THEN map[f] ELSE {}
\* The libraries that are linked whole into an embedded ELF.
WholeLibraries == Cmdline \cup Libdevice \cup Musl

ASSUME VariantsAssumption ==
  \A v \in Variants :
    v.objects \in Seq([content : Contents, inline : BOOLEAN, found : BOOLEAN])
\* Some library has each function that is called for an embedded ELF, and no library calls back
\* into one that is linked before it.
ASSUME LibrariesAssumption ==
  \A v \in Variants : v.target.embedded =>
    /\ \A f \in v.functions \cup Cmdline :
         CallsOf(Calls, f) \subseteq v.functions \cup v.bitcode \cup WholeLibraries \cup Ukernel
    /\ \A f \in v.bitcode : CallsOf(Calls, f) \subseteq v.bitcode \cup WholeLibraries \cup Ukernel
    /\ \A f \in Libdevice \cup Musl \cup Ukernel : CallsOf(Calls, f) \subseteq WholeLibraries \cup Ukernel
    /\ \A f \in DOMAIN PassCalls : PassCalls[f] \subseteq WholeLibraries
    /\ \A f \in DOMAIN CodegenCalls : CodegenCalls[f] \subseteq WholeLibraries

ObjectFormats == {"COFF", "ELF", "MachO", "Wasm", "other"}
VARIABLES
  variant,   \* the variant and its target; constant
  imports,   \* the variant still has its hal.executable.imports attribute
  pc,        \* the part of serializeExecutable reached
  linkage,   \* the functions the LLVM module defines, with their linkage
  exported,  \* the functions in the library's export table
  nextObject, \* the next custom object to add
  objectFiles, \* the contents of the artifacts to link, in order
  binary     \* the hal.executable.binary created, or NoBinary

vars == <<variant, imports, pc, linkage, exported, nextObject, objectFiles, binary>>
NoBinary == [format |-> <<>>, mime |-> "none", contents |-> <<>>]

Init ==
  /\ variant \in Variants
  /\ imports = TRUE
  /\ pc = "flags"
  /\ linkage = <<>>
  /\ exported = {}
  /\ nextObject = 1
  /\ objectFiles = <<>>
  /\ binary = NoBinary

target == variant.target

\* A step that goes on to next when ok, or returns failure; a step that relies on a tool
\* or a library may return failure anyway.
Step(step, ok, next) == pc = step /\ pc' = IF ok THEN next ELSE "failed"
Attempt(step, ok, next) == Step(step, ok, next) \/ Step(step, FALSE, next)
Succeeds == pc' # "failed"

-----------------------------------------------------------------------------
Elements(s) == {s[i] : i \in DOMAIN s}

\* getExecutableTarget: the format by which the runtime selects the loader.
Format(t) ==
  IF t.static THEN <<"static">>
  ELSE IF t.embedded THEN <<"embedded", "elf">>
  ELSE <<"system",
         CASE t.objectFormat = "COFF"  -> "dll"
           [] t.objectFormat = "ELF"   -> "elf"
           [] t.objectFormat = "MachO" -> "dylib"
           [] t.objectFormat = "Wasm"  -> "wasm"
           [] OTHER                    -> "unknown">>

\* serializeDynamicLibraryExecutable: the MIME type of the dynamic library.
MimeType(t) ==
  IF t.embedded THEN "application/x-elf"
  ELSE CASE t.objectFormat = "COFF"  -> "application/x-msdownload"
         [] t.objectFormat = "ELF"   -> "application/x-elf"
         [] t.objectFormat = "MachO" -> "application/x-dylib"
         [] t.objectFormat = "Wasm"  -> "application/wasm"
         [] OTHER                    -> "application/octet-stream"

\* The query function; its name is unique to the library when linking statically.
QueryName == IF target.static THEN "library_library_query" ELSE "iree_hal_executable_library_query"

-----------------------------------------------------------------------------
(***************************************************************************)
(* The LLVM module: functions with their linkage.                          *)
(***************************************************************************)
Defined == DOMAIN linkage
CalledBy(f) == IF f = QueryName THEN exported ELSE CallsOf(Calls, f)
Undefined == (UNION {CalledBy(f) : f \in Defined}) \ Defined

\* llvm::Linker: all of a library, or what the module needs of it, and replacing or
\* completing what is there; what comes in has external linkage.
LinkAll(library) ==
  [f \in Defined \cup library |-> IF f \in library THEN "external" ELSE linkage[f]]
\* A part of the library has what the module needs of it, and what that part needs in turn.
Suffices(library, part) ==
  (Undefined \cup (UNION {CalledBy(f) : f \in part})) \cap library \subseteq part
Needed(library) ==
  {f \in library : \A part \in SUBSET library : Suffices(library, part) => f \in part}
LinkOnlyNeeded(library) ==
  [f \in Defined \cup Needed(library) |-> IF f \in Defined THEN linkage[f] ELSE "external"]

-----------------------------------------------------------------------------
(***************************************************************************)
(* The steps of serializeExecutable.                                       *)
(***************************************************************************)
\* getVariantTarget, and the two link modes that exclude each other.
CheckFlags ==
  /\ Attempt("flags", ~(target.embedded /\ target.static), "translate")
  /\ UNCHANGED <<variant, imports, linkage, exported, nextObject, objectFiles, binary>>

\* createTargetMachine and translateModuleToLLVMIR.
Translate ==
  /\ Attempt("translate", TRUE, "library")
  /\ linkage' = IF ~Succeeds THEN linkage
                ELSE [f \in variant.functions |->
                        IF f \in variant.private THEN "internal" ELSE "external"]
  /\ UNCHANGED <<variant, imports, exported, nextObject, objectFiles, binary>>

\* The library's imports, exports and query function.  An export without a function of
\* its name is skipped; the others are hidden at once, the query function is not.
BuildLibrary ==
  LET exports == variant.exports \cap Defined
  IN /\ Step("library", TRUE, IF target.static THEN "cmdline" ELSE "linkerTool")
     /\ imports' = FALSE
     /\ exported' = exports
     /\ linkage' = [f \in Defined \cup {QueryName} |->
                      IF f = QueryName THEN "external"
                      ELSE IF f \in exports THEN "internal" ELSE linkage[f]]
     /\ UNCHANGED <<variant, nextObject, objectFiles, binary>>

\* LinkerTool::getForTarget and configureModule, which gives a DLL its entry point.
ConfigureLinkerTool ==
  /\ Attempt("linkerTool", TRUE, "cmdline")
  /\ linkage' = IF Succeeds /\ target.objectFormat = "COFF" /\ ~target.embedded
                THEN [f \in Defined \cup {"iree_dll_main"} |->
                        IF f = "iree_dll_main" THEN "external" ELSE linkage[f]]
                ELSE linkage
  /\ UNCHANGED <<variant, imports, exported, nextObject, objectFiles, binary>>

LinkCmdlineBitcode ==
  /\ Attempt("cmdline", TRUE, "bitcodeObjects")
  /\ linkage' = IF Succeeds THEN LinkAll(Cmdline) ELSE linkage
  /\ UNCHANGED <<variant, imports, exported, nextObject, objectFiles, binary>>

LinkBitcodeObjects ==
  /\ Attempt("bitcodeObjects", TRUE, "libdevice")
  /\ linkage' = IF Succeeds THEN LinkOnlyNeeded(variant.bitcode) ELSE linkage
  /\ UNCHANGED <<variant, imports, exported, nextObject, objectFiles, binary>>

LinkLibdevice ==
  /\ Attempt("libdevice", TRUE, IF target.embedded THEN "musl" ELSE "ukernel")
  /\ linkage' = IF Succeeds THEN LinkAll(Libdevice) ELSE linkage
  /\ UNCHANGED <<variant, imports, exported, nextObject, objectFiles, binary>>

LinkMusl ==
  /\ Attempt("musl", TRUE, "ukernel")
  /\ linkage' = IF Succeeds THEN LinkAll(Musl) ELSE linkage
  /\ UNCHANGED <<variant, imports, exported, nextObject, objectFiles, binary>>

\* Only with --iree-llvmcpu-link-ukernel-bitcode and ukernels enabled for the target; an
\* architecture without ukernel bitcode is no failure.
LinkUkernel ==
  /\ IF target.ukernel THEN Attempt("ukernel", TRUE, "passes") ELSE Step("ukernel", TRUE, "passes")
  /\ linkage' \in IF ~Succeeds \/ ~target.ukernel THEN {linkage}
                  ELSE {linkage, LinkOnlyNeeded(Ukernel)}
  /\ UNCHANGED <<variant, imports, exported, nextObject, objectFiles, binary>>

\* runLLVMIRPasses may drop what is internal and not called by what it keeps.
Internal(lk) == {f \in DOMAIN lk : lk[f] = "internal"}
MayKeep(lk, kept) == \A f \in kept : CalledBy(f) \cap DOMAIN lk \subseteq kept
Optimized(lk) ==
  LET left == {(DOMAIN lk \ Internal(lk)) \cup d : d \in SUBSET Internal(lk)}
  IN {[f \in kept |-> lk[f]] : kept \in {k \in left : MayKeep(lk, k)}}
\* Faulty variant of RunLLVMIRPasses: what fixupVisibility hides is hidden before it.
RunLLVMIRPassesAfterFixup ==
  /\ Attempt("passes", TRUE, "fixup")
  /\ linkage' \in
       IF Succeeds
       THEN Optimized([f \in Defined |-> IF f = QueryName THEN linkage[f] ELSE "internal"])
       ELSE {linkage}
  /\ UNCHANGED <<variant, imports, exported, nextObject, objectFiles, binary>>

RunLLVMIRPasses ==
  /\ Attempt("passes", TRUE, "fixup")
  /\ linkage' \in IF Succeeds THEN Optimized(linkage) ELSE {linkage}
  /\ UNCHANGED <<variant, imports, exported, nextObject, objectFiles, binary>>

\* Faulty variant of fixupVisibility: only the module's own functions are hidden.
fixupVisibilityOwn(lk) ==
  [f \in DOMAIN lk |-> IF f \in variant.functions THEN "internal" ELSE lk[f]]

\* fixupVisibility, with the query function as the only one to preserve.
fixupVisibility(lk) ==
  [f \in DOMAIN lk |-> IF f \in {QueryName, "iree_dll_main"} THEN lk[f] ELSE "internal"]
FixupVisibility ==
  /\ Step("fixup", TRUE, "object")
  /\ linkage' = fixupVisibility(linkage)
  /\ UNCHANGED <<variant, imports, exported, nextObject, objectFiles, binary>>

\* The object file comes first; dumping intermediates compiles the module once more.
EmitObject ==
  /\ Attempt("object", TRUE, IF variant.dump THEN "assembly" ELSE "customObjects")
  /\ objectFiles' = IF Succeeds THEN <<"base">> ELSE objectFiles
  /\ UNCHANGED <<variant, imports, linkage, exported, nextObject, binary>>

EmitAssembly ==
  /\ Attempt("assembly", TRUE, "customObjects")
  /\ UNCHANGED <<variant, imports, linkage, exported, nextObject, objectFiles, binary>>

\* Faulty variant of AddCustomObject: the temporary is added beside what is found.
AddCustomObjectBoth ==
  LET object == variant.objects[nextObject]
  IN /\ nextObject \in DOMAIN variant.objects
     /\ Step("customObjects", object.inline \/ object.found, "customObjects")
     /\ objectFiles' = IF ~Succeeds THEN objectFiles
                       ELSE objectFiles \o <<"empty", object.content>>
     /\ nextObject' = nextObject + 1
     /\ UNCHANGED <<variant, imports, linkage, exported, binary>>

\* One custom object: a new temporary file when its data is inline, else the file found.
AddCustomObject ==
  LET object == variant.objects[nextObject]
  IN /\ nextObject \in DOMAIN variant.objects
     /\ Step("customObjects", object.inline \/ object.found, "customObjects")
     /\ objectFiles' = IF ~Succeeds THEN objectFiles
                       ELSE Append(objectFiles, IF object.inline THEN "empty" ELSE object.content)
     /\ nextObject' = nextObject + 1
     /\ UNCHANGED <<variant, imports, linkage, exported, binary>>

\* serializeStaticLibraryExecutable: one object file, written beside a header file.
SerializeStatic ==
  /\ nextObject \notin DOMAIN variant.objects /\ target.static
  /\ Attempt("customObjects", Len(objectFiles) = 1, "done")
  /\ binary' = IF Succeeds THEN [format |-> <<"static">>, mime |-> "none", contents |-> <<"name">>]
               ELSE binary
  /\ UNCHANGED <<variant, imports, linkage, exported, nextObject, objectFiles>>

\* serializeDynamicLibraryExecutable: link, read back, append the debug database.
SerializeDynamic ==
  /\ nextObject \notin DOMAIN variant.objects /\ ~target.static
  /\ Attempt("customObjects", TRUE, "done")
  /\ binary' \in IF Succeeds
                 THEN {[format |-> Format(target), mime |-> MimeType(target),
                        contents |-> objectFiles \o debug] :
                         debug \in {<<>>} \cup (IF target.debugSymbols /\ ~target.embedded
                                                THEN {<<"debugDatabase">>} ELSE {})}
                 ELSE {binary}
  /\ UNCHANGED <<variant, imports, linkage, exported, nextObject, objectFiles>>

Next ==
  \/ CheckFlags
  \/ Translate
  \/ BuildLibrary
  \/ ConfigureLinkerTool
  \/ LinkCmdlineBitcode
  \/ LinkBitcodeObjects
  \/ LinkLibdevice
  \/ LinkMusl
  \/ LinkUkernel
  \/ RunLLVMIRPasses
  \/ FixupVisibility
  \/ EmitObject
  \/ EmitAssembly
  \/ AddCustomObject
  \/ SerializeStatic
  \/ SerializeDynamic

Spec == Init /\ [][Next]_vars

-----------------------------------------------------------------------------
Steps == {"flags", "translate", "library", "linkerTool", "cmdline", "bitcodeObjects", "libdevice",
          "musl", "ukernel", "passes", "fixup", "object", "assembly", "customObjects", "done",
          "failed"}
Emitted == {"object", "assembly", "customObjects", "done"}

\* Type invariant.
TypeOK ==
  /\ variant \in Variants
  /\ imports \in BOOLEAN
  /\ pc \in Steps
  /\ \A f \in Defined : linkage[f] \in {"external", "internal"}
  /\ exported \subseteq variant.exports
  /\ nextObject \in 1 .. Len(variant.objects) + 1
  /\ Len(objectFiles) <= 1 + Len(variant.objects)
  /\ binary.format \in {<<>>, <<"static">>, Format(target)}

\* When the object file is written, of all the functions translated, linked in or added
\* by a tool the library shows its query function (and a DLL its entry point) and nothing
\* else, so two executables loaded together cannot meet by name (fixupVisibility).
OnlyQueryVisible ==
  pc \in Emitted =>
    \A f \in Defined : linkage[f] = "external" => f \in {QueryName, "iree_dll_main"}

\* An embedded ELF has no system library to fall back on: every function that its code
\* calls is defined in it, the calls that the passes and the instruction selection create
\* included, whatever the passes dropped (the link order, and fixupVisibility after them).
\* Ukernels are excepted: the bitcode may not have been asked for, or not exist.
SelfContained ==
  pc \in Emitted /\ target.embedded =>
    \A f \in Defined :
      CalledBy(f) \cup CallsOf(PassCalls, f) \cup CallsOf(CodegenCalls, f)
        \subseteq Defined \cup Ukernel

\* The entry points are hidden long before the passes run, and still none of them is lost: the
\* query function's table keeps them alive.
ExportsKept ==
  pc \in Emitted => variant.exports \cap variant.functions \subseteq Defined
\* What the runtime asks for it finds, and nothing else meets by name: hiding the symbols must
\* come late enough for the passes and soon enough for the object file (serializeExecutable).
SymbolsRight == OnlyQueryVisible /\ ExportsKept

(***************************************************************************)
(* What the comment on custom object files says, which the code does not   *)
(* do.                                                                     *)
(***************************************************************************)
\* Custom objects are linked statically into the resulting dynamic library.
CustomObjectsLinked ==
  pc = "done" /\ ~target.static =>
    \A i \in DOMAIN variant.objects : variant.objects[i].content \in Elements(binary.contents)
=============================================================================
