# Verification of the SpacemiT IME support in LLVM and IREE

This directory holds TLA+ models of the code under `src/`, the TLC configurations that check
them on small instances, and TLAPS proofs for the parts where a result for every instance is
worth having. `src/` adds the SpacemiT IME matrix extension (`smt.vmadot` and its kin) to three
systems, and ships modified copies of the upstream files the change touches:

* phase 1, `phase-1-llvm/`: the Clang intrinsics (`__riscv_smt_vmadot...`) and their tables;
* phase 2, `phase-2-iree/`: the mmt4d ukernel tile functions that use them;
* phase 3, `phase-3-mlir/`: an MLIR dialect, the rewrite of `vector.contract` into it, and its
  place in IREE's CPU pipeline.

Nothing in this code runs concurrently: every part is a sequential procedure. What makes it
hard is long chains of small steps that must agree (three encodings of signedness, three
element orders, three ways to count an ID), state that a later step reads under assumptions an
earlier one made (the vector configuration, lazily built tables, threaded options), steps that
fail half way, and, on the Clang side, requests in an order that the program compiled decides.

## Inventory

| Component | State it keeps | Operations | Modules |
|---|---|---|---|
| IME lowering of `vector.contract` (`LowerContractionToRISCVIMEVMADOTPattern.cpp`) | the rewriter's fields `lhs rhs acc imeOp dimM dimN dimK`, the loop's offsets, `kAcc`, `result` | `matchAndRewrite`, two `matchAndInit`, `lower`, `createIMEOp`, extension helpers | `VectorContractToIME` |
| RISCVIME dialect and its LLVM IR translation | none | op definitions, one case of a translation switch | its meaning only: `Products`, `SignedOperands` |
| mmt4d tile functions (`mmt4d_riscv_64_xsmtvdot.c`) | panel pointers, accumulator groups, panel registers, vector configuration, output tile | the 3x4, 2x4 and 1x4 bodies | `Mmt4dTile`, `Mmt4dXsmtvdot` |
| Intrinsic manager (`SemaRISCV.cpp` to 548, `PragmaRISCVHandler`, `LookupBuiltin`) | Declare and Constructed flags per kind, `IntrinsicList`, two name maps | pragma, `InitIntrinsicList`, `CreateIntrinsicIfFound` | `RISCVIntrinsicManager` |
| Builtin IDs (`Builtins.cpp`, `TargetBuiltins.h`, `Targets/RISCV.cpp`) | target and aux shards with their counts, identifier table | `InitializeTarget`, `initializeBuiltins`, `getShardAndInfo` and its callers | `BuiltinShards` |
| CPU serialization (`LLVMCPUTarget.cpp`) | the LLVM module's functions and linkage, export table, object files, the binary | `serializeExecutable` and its static and dynamic ends | `SerializeExecutable` |
| CPU pipeline around the virtual vector lowering (`LLVMCPULowerExecutableTarget.cpp`, `LLVMCPUVirtualVectorLowering.cpp`, `Utils.cpp`) | pipeline options, the function's vector operations | option computation, pattern stages, gather pattern | `VirtualVectorLowering`, `GatherToConditionalLoads` |
| Function attributes and target description (`Targets/RISCV.cpp`, `SemaRISCV.cpp` from 1640, part of `CodeGen/TargetBuiltins/RISCV.cpp`) | extensions and ABI of the target; the features, versions and interrupt types of a function | `handleTargetFeatures`, the handlers of the target, target_version, target_clones and interrupt attributes, `getVScaleRange`, `getFMVPriority`, the CPU test of the resolver | `RISCVFunctionAttributes` |
| Semantic checks of RISC-V builtin calls (`SemaRISCV.cpp` 550 to 1640) | the call under check | `CheckBuiltinFunctionCall` and its helpers, `checkRVVTypeSupport` | `RISCVBuiltinChecks`, `RISCVBuiltinCall` |
| RISC-V builtin code generation (`CodeGen/TargetBuiltins/RISCV.cpp`) | the operand list and the overload types, rearranged in place | `EmitRISCVBuiltinExpr` and its emitters | `RISCVBuiltinEmission`, `RISCVBuiltinCall` |
| Name lookup (`SemaLookup.cpp`) | `LookupResult`; the scope and context of the walk; `UDirs`, queue and visited set of the using directives | `resolveKind`, `CppLookupName`, `CppNamespaceLookup`, `LookupName`, `LookupQualifiedName`, `LookupParsedName` | `LookupResult`, `CppNameLookup` (`LookupBuiltin`: `RISCVIntrinsicManager`) |
| Pragma handlers (`ParsePragma.cpp`) | the parser's token, the tokens entered before the file's, what Sema was told | the preprocessor's handler and the parser's handler of each pragma | `PragmaHandlers`, `PragmaGrammar` |
| TableGen driver and records | none | a switch over backends; declarative records | not modelled |
| Dialect registration, build files, test passes | none | straight-line registration | not modelled |

How they meet. A translation unit with `#pragma clang riscv intrinsic spacemit_vector` (the
ukernel has one) sets a flag in Sema; the next lookup of an undeclared name builds the tables
of the intrinsic manager and declares overloads that carry a builtin alias; the alias names a
builtin whose ID comes from the shards. A call of it is checked by Sema under the features that
the function's attributes leave, and its operands are rearranged by code generation, which finds
each by a position it writes down a second time (`RISCVBuiltinCall` composes the three). A name
that is not a builtin is found by the walk of `CppNameLookup`, which fills the `LookupResult` and
resolves it, sometimes more than once. The tile functions run under the vector configuration
that the generated code leaves. In IREE, the executable-target pass computes options from the
target's features, the virtual vector lowering applies the IME rewrite when the feature is
there, the result is translated to LLVM IR, linked with libraries (the ukernels among them) and
serialized.

What makes each component correct:

* Lowering: a contraction is either rejected without a trace or replaced by code with the same
  result, for every signedness, size and map.
* Tile functions: each cell of the tile ends as its old value (or zero) plus all its products,
  no panel is read past its end, no store undoes another, whatever the vector configuration.
* Intrinsic manager: a lookup sees all overloads of the kinds declared so far and each of them
  once, in whatever order pragmas, declarations and lookups came.
* Builtin IDs: the enumerators, the IDs counted out and the shard scan agree.
* Serialization: the object defines all that it calls, shows only its query function, keeps its
  entry points, and says of itself what the runtime must know.
* Function attributes: the features of a function are those asked for and closed under
  implication, the resolver runs the best version its CPU can, and an interrupt handler has the
  extensions its type needs.
* Builtin checks and code generation: what Sema lets through fits its instruction, a template is
  not rejected for what only an instance can tell, and the intrinsic gets each operand where it is
  declared.
* Name lookup: the innermost region around the name that declares it answers, with the names of a
  nominated namespace in the nearest common one, each entity once, ambiguous exactly when two
  do not overload; whatever the order of scopes, directives and base paths.
* Pragmas: Sema is told what a line says, before the next declaration and not before an earlier
  one, and no token of it is left in the stream. A line that is ill-formed says nothing, except of
  `clang section`, `intrinsic`, `export` and loop hints, which take effect item by item.
* Pipeline: the target's features decide and nothing that was not theirs is lost.

`PROJECT.json` lists the hazards one by one at their lines, with the properties that cover them
and, where none does, the reason.

## Modules

Values are symbolic throughout the numeric parts: an accumulator element is a record of the
element it started from (`base`) and the sequence of products added to it (`terms`), each a pair
of positions. A result that is right symbolically is right for all data, overflow included,
because the code and its specification add the same 32-bit terms.

**VectorContractToIME.** One action for each early return of the match, in the code's order
(`CheckMask` to `CheckAcc`), then `ExtendOperands`, `BeginLower`, `EmitTile` (one iteration of
the tile loop with its two slices, the accumulator, the hardware call and the insertion after
the last k) and `Replace`. `getExtOperand` is a set of at most one operand. A slice that leaves
its operand sets `illFormed`; the verifier refuses such a function after the rewrite
(`verifyError`). External: `vector.contract` itself, the slice verifier, `smt.vmadot`.
Contractions are taken to combine with addition and VLEN is 256, as the code assumes.

**Mmt4dTile / Mmt4dXsmtvdot.** The abstract module replaces a tile by its accumulated product
in one step. The detailed one has the three bodies: `InitAccumulators` (gather or broadcast),
`LoadLhs`/`LoadRhs` (the loads of an iteration in any order, as the compiler may schedule them),
`MultiplyIntrinsics` or `MultiplyAsm`, `StoreGroup`. `config` is the vector configuration in
effect: intrinsics set it, inline assembly inherits it. `K1` is `(int)(params->K)` with `IntBits`
bits. Registers and panels hold byte addresses; `LhsAddress` and `RhsAddress` state the layouts of
the header comment. The mapping of the refinement, `CallerTile`, reads addresses back as matrix
coordinates and shows the tile to the caller only on return.

**RISCVIntrinsicManager.** `HandlePragma`, `Declare` (the program declares a name itself),
`LookupBuiltin`, the loop of `InitIntrinsicList` one kind (`ConstructRVVIntrinsics`) and one
intrinsic (`InitRVVIntrinsic`) at a time, `CreateIntrinsicIfFound`, `CreateBuiltin`, `Resume`. A name
is the sequence of its parts between underscores. `Variants` and `IntrinsicsOf` follow the nested
loops of `ConstructRVVIntrinsics`.

**RISCVFunctionAttributes.** `handleTargetFeatures` sets up the target; the attributes of the
function are then handled in the order they are written, one action each, because each reads what
those before it left: an extension an interrupt type needs counts only when the target attribute
that turns it on comes first. A version string is read three times by different rules, and the three are three
operators: `getFMVPriority` does not see a priority with a blank before it, and a part given twice
is accepted and the last one counts. Extensions are names with what they imply (`Implied`), exclude
(`Conflicts`) and guarantee (`VLen`); the tables are constants, as `RISCVISAInfo` is external.

**RISCVBuiltinChecks.** `CheckBuiltinFunctionCall` as an operator over calls. Builtins checked
alike stand for one another; the positions of the checked arguments are written down form by form,
as in the code. Two facts met on the way: the `_m` forms of `fnrclip` have their rounding mode
left unchecked (the list names other forms), and the comment on `sf_vtzero` allows 16 tiles for a
TEW of 8 where the code checks for a multiple of four.

**RISCVBuiltinEmission.** The emitters as operators on sequences of operand names: each moves, adds
and drops operands by position and takes overload types by position. Operands are names, so that a
swap shows. One fact met on the way: the unmasked `_tu` form of a fault-only-first load stores the new
vl with the alignment of what the data pointer points to, because the passthru has moved the pointer
to the position where the other forms have `new_vl`.

**RISCVBuiltinCall.** Extends the two and `RISCVFunctionAttributes`: after the attributes are done
a call is checked (`CheckCall`) and, if accepted, emitted (`EmitCall`). The reference side is in this
module: the fields of the coprocessor instructions as their comments list them, the signatures of the
intrinsics as `IntrinsicsRISCV.td` upstream declares them, the shapes of tiles.

**LookupResult.** `resolveKind` one declaration at a time: `RemoveCurrent` (invalid or hidden),
`Merge` (a type or entity met before, in place), `Classify` (the flags), `Remove` (the holes from
the end), `Decide`, and the fast cases. A declaration is a record of what the code asks about it;
redeclarations of an entity are taken to be valid or invalid together. The declarations of a scope
are found together, as the lookups search one scope after the other: found apart, `f` of A, a
newer `f` of B and the tag `f` of A would leave the tag unhidden, because the entry that hides it
has been replaced.

`ResultSpec` is what the module asks of whoever uses a result, and all that its proofs know of one:
between two calls of `resolveKind` a user collects more declarations (`Collect`), begins a result of
its own or joins it to the one it is a part of (`Begin`, `Join`: the namespaces of a qualified
lookup), or names an ambiguity or failure it has found itself (`Conclude`). It resolves a result only
when tags stand next to what hides them (`HidersClose`), and what it adds to a result that was resolved
hides no tag that was there before (`Apart`). That the walk of `CppNameLookup` keeps to it is checked by the run `name_lookup`
and proved.

**CppNameLookup.** Extends `LookupResult` with the walk that fills it: `Lexical` (a scope's own
declarations), the loop over the contexts of a function or class, `BeginVisits`, `Visit`, `Expand`
(the using directives become pairs of namespace and common ancestor), the namespaces outside,
redeclaration lookups that add without stopping, and the qualified lookup with its namespaces
and base-class paths. A program is what one point of it sees: scopes from the inside out, contexts
with their parents, tables and directives. What the walk does, and the properties therefore allow:
a using directive in a block of a function defined out of line is entered with the file scope around the
definition as its context; a redeclaration in it goes beyond its namespace in the loop over the
local scopes; and a tag with a typedef of the same type in another namespace is reported as hiding
across namespaces. What it does with the local externs of a namespace around a function defined out
of line is left out instead: see "A divergence that no run states".

**PragmaHandlers.** A pragma is handled twice, and the model keeps both: the preprocessor's
handler runs when the lexer reaches the line (`LexPragma`) and acts at once or enters an annotation
(with its tokens and an eof, for some); the parser's handler (`HandlePragma...`, one action each)
acts when the annotation becomes the parser's token, and consuming it lexes the token behind, which
runs the handlers of the following lines: the lexer is one token ahead. Handlers that act in the
preprocessor therefore may precede an annotation of the line before (`clang section` before an MS
section pragma). Handlers read tokens through small readers that give up at the first wrong one.
A numeral need not be a valid constant: `pack` with an invalid alignment is consumed and has no effect.
`intrinsic` declares a builtin unless an earlier name of `intrinsic` has declared it; a builtin that
the program itself declares is not part of the model.
`acts` is the list of what Sema was told, each with its line.

**PragmaGrammar.** The other side: the forms of each pragma written out whole, from the comments on
the handlers, and what a form says; it reads no token twice and knows no lexer. Where a handler
takes more than its comment says, the form is the handler's: `align` takes `packed`, `ms_struct`
takes `reset`, `unused` takes a list, `visibility` needs the parenthesis its comment makes optional,
a section pragma may end in a comma, `float_control` takes `push` twice.

**BuiltinShards.** `InitializeTarget`, the three registration loops, the `-fno-builtin` loop and
the scan of `getShardAndInfo` as separate loops, because that they agree is the question. `First` are
the enumerators of `TargetBuiltins.h`; `EnumeratorsAssumption` is what the `static_assert`s say.
`isAuxBuiltinID` and `getAuxBuiltinID` are inline functions of a header that is not in `src/`.

**SerializeExecutable.** The steps of `serializeExecutable` in order, each of which may return
failure where the code tests a result. A function is a name with a linkage; the export table is the
set of functions in it. Calls that optimisation passes or instruction selection create are constants,
and so are the libraries; `LibrariesAssumption` says that each call for an embedded ELF has a library
that answers it, linked no earlier than what calls it. Linking and the passes are LLVM's and external:
`LinkOnlyNeeded` adds the least part of a library that has what the module needs and what that part
needs in turn (`Needed`), and the passes may drop, or inline, any part that is internal and not
called by what they keep (`Optimized`).

**VirtualVectorLowering / GatherToConditionalLoads.** The first has the option computation and the
pass's pattern stages over operations that other passes create before and between two
invocations; which contractions a rewrite accepts is a constant. `Handed` is the gap that the
repository's own README describes (issue 15): an invocation gets the computed option or its
default. The second is IREE's gather pattern, lane by lane.

**MC...** modules give the constants values. Definitions with the comment "Faulty variant of"
are not part of a model: each states a plausible slip in the definition it precedes, and with it
in place TLC finds the property violated that it was written for.

## Runs

| Run | Question | Bounds, and why they are enough |
|---|---|---|
| `vector_contract` | Is what is lowered right, what is rejected untouched, and does every rewrite end? | Grids of 1 to 3 x 1 to 2 x 1 to 3 tiles: a first, a middle and a last tile of the k chain and carries into n and m; partial tiles in each dimension; 12 x 12 operand kinds with 3 accumulator types; one contraction for each early return. |
| `vector_contract_kn` | A statement of the repository that the code does not meet. | As above; square operands in all layouts. |
| `mmt4d_tile` | Is the tile right for all load orders, with and without accumulation, and is a body one atomic product that returns? | One to three atom rows, K of 0, 1 and 2 panels (none, first, chained), atoms 4 and 8, two VLENs. `IntBits = 3` puts the truncation of K within reach (K = 5 is read as -3): no load leaves its buffer even then, but `TileCorrect` is stated for K that fits (`KFitsInt`), since a K that is cut off gives too few iterations. |
| `intrinsic_manager` | Does a lookup see exactly the kinds declared so far? | Four kinds (one empty), with shared overload names, masked and policy variants; every order of pragmas and lookups is reached because the state space is closed. |
| `serialize` | Which functions are defined and visible at the end, and what is the runtime told? | Every target, all failures, up to two custom objects; a library chain three calls deep, and a private function that nothing calls, which the passes may keep or drop. |
| `serialize_inline` | A statement of a comment that the code does not meet. | As above. |
| `virtual_vector_lowering` | Do the target's features decide, whatever options are handed on, and do the conditional loads read the addresses that a gather means? | Seven targets, two invocations, three contractions and gathers created at any time; gathers of rank one to three, padded, column-major and contiguous, with two lanes that run over row ends. |
| `builtin_shards` | Do enumerators, counted IDs and scans agree? | Six shards, one empty, names shared within and across targets, every subset of supported builtins, every ID. |
| `name_lookup` | Does the walk find what the regions around a name declare, does the scan keep and classify it rightly, and is the result used as `ResultSpec` says? | Flat programs of three namespaces with every choice of 8 x 18 x 6 lists of declarations, in both orders, with every sort of declaration, redeclarations, a typedef of a tag, invalid and equivalent ones; a namespace opened again, whose scope has a part of its table; nested namespaces with directives in cycles and every choice of who declares the name; members defined out of line with nine sets of base paths; local classes; plain C. Lookups of ordinary names, tags, namespaces, members, friends and redeclarations. Every sort meets every other in each of its two orders, and three stand between the parts of a scan, of a queue or of a set of paths: a first, one that replaces or hides it and one that comes after. |
| `builtin_call` | Are the features those asked for, does what Sema lets through fit its instruction, and does the intrinsic get each operand where it is declared? | Ten command lines (none, base I and E, vector with and without 64-bit elements, conflicting, two ABIs); attribute strings of up to three parts in every order; every policy form of every emitter and rounding class; immediates below, at and above each limit, constant, not constant and dependent. |
| `pragmas` | Is Sema told what each line says, at the right time, whatever the line? | Every pragma in its forms and with every change of one token (left out, replaced, added) before a declaration; every two pragmas of five targets with and without a declaration between them. One slip is what separates a handler that stops from one that runs on; two lines are as far as the lexer gets ahead. |
| `pragma_hints` | A statement of a comment that the code does not meet. | A loop hint with every change of one token, followed by two declarations and another pragma. |

`CHECK_DEADLOCK FALSE` is set where the procedure returns and the model has nothing left to do.

**Fairness.** `VectorContractToIME` and `Mmt4dXsmtvdot` assume weak fairness of `Next`: a
sequential procedure that can take a step takes it. It is used by `Termination` and by
`ImplementsTile` (the tile function returns). No other property is a liveness property; the
others are invariants that need no fairness.

## What the violation runs show

* `KNOrderedCorrect`: `phase-3-mlir/README.md` counts a (K, N)-ordered right-hand side among the
  valid ones; `matchAndInit` resolves its sizes through the map, but `lower` slices `{n, k}` whatever
  the order, and a square one is lowered to wrong products.
* `CustomObjectsLinked`: inline data of a custom object is never written into the temporary file
  that is linked for it.
* `HintsResynchronised`: after the comma of `vectorize_width(4,)` the parser takes the eof that ends
  the hint for the missing word; the loop that is to remove the rest of the hint then removes the
  rest of the file.

The lines are quoted in `PROJECT.json`.

**A divergence that no run states.** `CppLookupName` says that without redeclaration lookup it does
"not look for local extern declarations outside of a function scope" (`SemaLookup.cpp:1491-1492`), but
it drops them (1493) only after the loop over the scopes, in which it has already looked in the
namespace around a function defined out of line (1453). There it finds what another function of
the namespace has declared `extern` in a block: with `namespace M { void g(); void f(); void g() { extern int
x; } }` and, outside, `void M::f() { x; }`, the name `x` is found. `UnqualifiedExact` looks for such names
nowhere but in function scopes, as the comment asks, and leaves these lookups out by a precondition of
its own (`ExternOutOfLine`): the programs of the run have them, and without the precondition TLC
finds the property violated.

## Proofs

Each proof module EXTENDS the module it is about. The theorems hold for every value of the
constants that satisfies the named assumptions, which TLC evaluates in the runs.

**VectorContractToIME_proofs** (assumes `ContractionsAssumption`: the contractions are well-typed
records; `OperandsAssumption`: an extension widens, which the verifiers of `arith.extsi` and
`arith.extui` demand).

* `TypeCorrect`: `Spec => []TypeOK`.
* `LoweringCorrect`: `Spec => []ResultCorrect`, for contractions of every size. `ResultCorrect` speaks
  only of the end, so the induction needs what the loop has done half way. `IInv` says, for a
  row-major contraction: `DimsInv`, the rewriter's dimensions are the contraction's; `OffsetInv`, the
  loop starts at zero; `TileInv`, as long as no slice has left its operand, all cells before the
  current tile are final and `kAcc` is the chain of the first `offset.k` products (`Chain`); `DoneInv`,
  after the last tile all cells are. The arithmetic is in `ChainStart` and `ChainStep` (the hardware
  call extends a chain by K0 products) and in `EmitTileInv` (a tile ends where the next begins, and
  a partial one is caught by the slice check).
* `RejectionTraceless`: `Spec => []RejectionLeavesNoTrace`. The invariant `NoTrace` adds that before
  `ExtendOperands` nothing has been created, so that every early return leaves nothing.
* `SignednessCorrect`: `Spec => []OperandsPreserved`. `ChoiceInv` says which operand and which
  instruction have been chosen; the lemma `OperandValue` says that the integer the instruction reads
  from the extended bits is the one the contraction's own extension reads.

**BuiltinShards_proofs** (assumes `ShardsAssumption` and `EnumeratorsAssumption`, the latter being
what the `static_assert`s say).

* `TypeCorrect`, `LookupsCorrect`, `ScansEnd`, `NamesCorrect`: the type invariant, `LookupCorrect`,
  `ScanEnds` and `NamesAgree` for any number of shards of any size. `IInv` adds to them what relates
  the loops: `Counting` (the counts so far are differences of enumerators), `Numbering` (the next ID is
  the enumerator of the next builtin) and `Scanning` (what is left of an ID plus the enumerator
  of the current shard is the ID asked for, and it lies before the end of its kind).
* `NoBuiltinCorrect`: `Spec => []NoBuiltinHonoured`. It needs, beside `IInv`, `TableInv` (the
  identifier table has for each name the last builtin registered under it, or nothing once an
  argument that matches it has been handled) and `ProgressInv` (no argument is handled before the
  registration has ended, and a scan made for one looks for the ID the table gives its name). That IDs are
  injective (`IdInjective`) is what lets a name's ID stand for its builtin.

**Mmt4dXsmtvdot_proofs** (assumes `CallsAssumption`: the sizes for which the functions are
selected, with registers long enough for a panel; `IntBitsAssumption`: two facts about
powers of two).

* `TypeCorrect`, `TileComputed` (`TileCorrect`), `LoadsStayInBounds` (`LoadsInBounds`): for every K,
  every atom, every vector length and every order of the loads. The inductive invariant has four
  parts: `LoopInv` (how many panels are done, and where the pointers are), `PanelsInv` (each
  register loaded holds its panel of this iteration, and its load has left the vector configuration
  that the inline assembly relies on), `AccInv` (an accumulator is its start plus the products of
  the panels done) and `OutInv` (the groups stored are final and the others untouched). Each
  register's bytes are matched with matrix coordinates by `LhsAddress` and `RhsAddress`, one atom at
  a time: there are three.
* `TileRefined`: `Spec => Tile!Safety`, the safety half of `ImplementsTile`: every step but the last
  is a stutter of the abstract tile and the last is its atomic product.

**RISCVIntrinsicManager_proofs** (assumes `IntrinsicsAssumption`: TableGen emits no intrinsic twice).

* `TypeCorrect` and `LookupsExact` (`Spec => []LookupExact`), for any records and any order of
  pragmas, declarations and lookups. What a lookup sees is not inductive: between two lookups only
  the flags and the tables stand for it. `QueueInv` says that what is still queued belongs to a
  constructed kind and each once; `TablesInv` that the list and the two maps hold exactly the
  constructed kinds less the queue (`Built`); `LookupInv` that a lookup goes on to the builtins only
  when nothing declared has its name.

**VirtualVectorLowering_proofs** (assumes `PipelineAssumption`, which gives the gathers their types).

* `TypeCorrect` (`Spec => []TypeOK`, proved and in no run) and `TargetDecides`
  (`Spec => []FeatureHonoured`), for any operations and any number of
  invocations. `PastIme` says that once an invocation has left its IME stage on a target with the
  extension no contraction the rewrite accepts is left.
* `GathersLowered`: `Spec => []GatherCorrect`, for memrefs of every rank and shape and any number of
  lanes. `GatherInv` adds that the function's gathers are well-formed and that each has a vector;
  the substance is in the lemma `LanesGathered`: what `matchAndRewrite` folds together is what the
  gather means. The code adds a lane's index to the last offset, where it may run over the ends of
  rows; the meaning moves a linear index through the elements and takes it apart again. The
  strides of a row-major contiguous memref are the sizes of its rows (`RowSizes`), so both address the
  linear index itself: `OffsetsAddress` for the one, `PositionAddress` for the other, by
  `MixedRadix`, that the digits of a number in a mixed radix add up to it.

**SerializeExecutable_proofs** (assumes `VariantsAssumption`, the type of custom objects, and
`LibrariesAssumption`).

* `TypeCorrect`: `Spec => []TypeOK`.
* `SymbolsCorrect`: `Spec => []SymbolsRight`, for any libraries. `LibraryInv` says why the entry points,
  which are internal long before the passes run, survive them: the query function is external and its
  table names them.
* `CallsResolved`: `Spec => []SelfContained`. A call may wait for a library that is linked several steps
  later, so `CallsInv` says that what is called is defined or `Missing`, that is in a library still to
  be linked; `LinkedInv` that what was linked whole is still there and external, which is why the
  passes keep it for calls that only they or the instruction selection will create. Were
  `fixupVisibility` to run before the passes, `LinkedInv` would break, and that is the fault the run
  `serialize` catches.

**RISCVBuiltinCall_proofs** (assumes, of `RISCVFunctionAttributes`, `ExtensionsAssumption`: what an
extension implies is closed under implication and feature bits tell extensions apart;
`TargetsAssumption` and `FunctionsAssumption`: command lines and attributes are well-typed and a
declaration has at most one target attribute; `CallsAssumption`, the forms the builtins are
declared with: how many arguments each has, the emitter and suffixes of those with a rounding mode, the
types of the vector crypto operations and of the matrix multiplications, but no value of an
argument).

* `AttributesInvariant`: `CallSpec => []AttributesInv`. Each theorem below speaks of one variable, and each
  attribute's handler reads what the others have left, so the induction takes all of them
  together. `SetUp`: what `handleTargetFeatures` made of the command line still holds while the attributes
  are handled. `VersionsChecked`: the version strings kept are those whose parts passed Sema, which is
  what the resolver relies on. `InterruptChecked`: the extensions of an accepted interrupt type come
  from the target alone as long as a target attribute is still to be handled, because that one could
  replace all others.
* `TypeCorrect` (`CallTypeOK`), `TargetsSound` (`TargetSound`), `InterruptsLegal` (`InterruptLegal`): from
  the invariant, for any tables of extensions.
* `ResolverCorrect` (`ResolverPicksBest`) and `FeaturesCorrect` (the action property `FeaturesAsAsked`):
  for strings of any length with their parts in any order. They rest on what the fold of
  `parseTargetAttr` computes: `EnabledPrefix`, by induction on the features, and a lemma for each field
  that says which part decided it.
* `AcceptedFits` (`OperandsFit`), `TemplatesPass` (`DependentDeferred`) and `ListsSame` (`ListsAgree`): for calls
  with any arguments in functions with any features. `CheckedInv` says that `outcome` is what
  `CheckBuiltinFunctionCall` finds under the features of the function, which no later step changes
  (`SupportedNow`). The rounding mode is where `Arguments` puts it (`RoundingModeAt`), and every form is
  in Sema's list for that index (`RoundingModeForms`); `FieldsChecked` does the same for the immediates of the
  coprocessor. `GroupFits` is why the checked width is enough at run time: vscale is at least
  what the longest Zvl extension of the function guarantees (`MinVLenType`).

**CppNameLookup_proofs** proves about `LookupResult` and about the walk that extends it: first what a
user of a result may rely on, then that the walk is such a user.

The result (assumes `DeclaredAssumption`: redeclarations of an entity have its kind, type, validity and
module group).

* `EveryEntityKept` (`EntitiesKept`), `AmbiguityExactAlways` (`AmbiguityExact`) and `ResolvedAgainSame` (the
  action property `ResolvedStable`): from `ResultSpec`, for any declarations, collected in any number,
  order and number of resolutions.
* `ResultInvAlways`: the inductive invariant they need. The three properties speak of a resolved
  result, and the scan works on a list that shrinks, with entries replaced in place. `Represented` is
  the thread: at every moment each visible declaration has one among those left that stands for it,
  is as good as it, and is not hidden itself. It survives the removal of an invalid or hidden entry
  (such an entry stands for nothing visible), a replacement (`KeptStands`: the preferred of two
  redeclarations stands for both) and the filling of holes (`RemoveFacts`). `HidersAhead` says that a tag
  still to be scanned will meet what hides it although entries before it may have been replaced:
  this is what `HidersClose` is for. `Stays` says that the scan never removes all declarations, which
  rests on the hidden tag's hider being merged into something that is still there. `FlagsExact` says
  that the flags, which forget what set them, count as the set of scanned declarations does, up to
  the distinction that matters: none, one, or two that do not overload. `Settled` is what a resolved
  result keeps until it is resolved again, and `SecondScan` concludes that the second scan finds
  nothing to do.

The walk (assumes also, of the programs, `ScopesAssumption`, `ContextsAssumption`, `RequestsAssumption` and
`TagsAssumption`, justified below).

* `WalkImplementsResult`: `Spec => ResultSpec`, a refinement: every step of the walk is a step of the result,
  a use of it that `ResultSpec` allows, or a stutter. With the theorems above it gives
  `WalkEntitiesKept`, `WalkAmbiguityExact` and `WalkResolvedStable`: the three properties for every lookup in
  every program that satisfies the assumptions, with any nesting of scopes and contexts and any graph of using directives.
* `WalkTypeOK`: `Spec => []TypeOK`.
* `WalkInvAlways`: the inductive invariant. What has to be shown is that a result is resolved only
  when each tag in it stands next to what hides it (`HidersClose`) and that what is added hides
  nothing that is there (`Apart`), and both depend on what the walk has already searched: the
  declarations of a namespace are in two structures, the identifier's list and the context's table,
  and are found from both. `FoundInv` says that what was found is `Collected`: every declaration comes
  from a local scope or a context of the program, and with each tag is something that hides it if
  anything may (a tag of a block, which only a redeclaration with linkage keeps while it goes on, is
  instead hidden by nothing found elsewhere). What is added at once is `Covered`: what may hide a tag of
  it stands near the tag; and it `Fits`: it hides no tag found before that was not hidden.
  What the scope of a namespace has given before its table is looked in (`OpenScope`) need not
  be `Collected`, but it is then all there is, and not resolved. `PassedInv` says that before a context is
  looked in only a redeclaration with linkage has found anything, and only in local scopes;
  `PlaceInv` where the walk is in the scopes; `TablesInv` which contexts the marks, the queue and the pairs
  of the using directives hold; `NestedInv` what a qualified lookup, which resolves each namespace
  on its own and joins it to the whole, has set aside.

What the assumptions on programs say, and why they hold of the code's:

* The scope around a namespace is the scope of a namespace, of a linkage specification or of the
  translation unit. A linkage specification's scope has no declarations of its own, because
  `PushOnScopeChains` passes over transparent scopes; the contexts are a tree with one translation unit.
* A declaration in a file scope's list is in the table of its context.
* A tag and what hides it share their context (`HideTags` asks for it), hence a table, and no declaration of
  another context stands between them in it. A base path has the table of its class.
  The identifier's list in the scope of a namespace has only what the current opening declares: it
  may have a tag without what hides it, or the other way round.
* A builtin is a function of the translation unit: it hides no tag of another context.
* For a redeclaration with linkage, which alone is looked up in all the blocks outwards and passes over
  what has no linkage: a tag of a block is hidden only by what the same function declares without
  linkage, a tag with linkage by something with linkage, and the scope of a namespace has what
  hides a tag of it. For these lookups alone this leaves out a function that declares one name
  locally as a tag and as an extern, and an extern in a block of a namespace that is opened again, with
  the tag in one opening and what hides it in the other. Nothing is proved of them: the walk may
  resolve between adding the tag and adding what hides it.

**Induction over data.** What a fold computes is proved by induction on the length of the prefix that
has been folded. The library's induction theorems take the property as a parameter; here the
least counterexample is taken instead (`LeastElement`, from the well-foundedness of `<` on the naturals)
and `InductiveSet` makes it a rule for sets. `FoldDefined`, `SequenceFold` and `UnorderedFold` give the
recursion equations of the folds of the community modules, which their definitions as a `CHOOSE`
of a function do not show by themselves.

**Only model-checked.**

* Liveness: `Termination` and the liveness half of `ImplementsTile`.
* `IntrinsicAsDeclared` of `RISCVBuiltinCall`: it compares two tables of operands, form by form. The forms
  are finitely many and the run enumerates them all, so there is no larger instance to prove it
  for.
* `UnqualifiedExact`, `QualifiedExact` and `RedeclarationConfined` of `CppNameLookup`: they compare the walk
  with what the regions around a name declare. The two definitions are recursive over the tree of
  contexts in opposite directions, and the qualified lookup over bases compares the sets of types a
  path finds where the definition compares entities; the run enumerates the trees.
* `PragmaActsAsWritten` and `PragmasInOrder`: a handler and the grammar it is compared with are two
  readings of the same tokens by many small readers; the run gives them every form with every
  change of one token.

## Not modelled

* TableGen records (`*.td`) and the TableGen driver: declarations and a switch.
* The RISCVIME dialect's registration and translation, `RegisterAllDialects.cpp`, build files:
  no state.
* Upstream patterns of the vector lowering other than IREE's own gather pattern: they are not in
  this repository. The convergence of the greedy driver is assumed.
* What the hardware does beyond the product of a tile: tail policy, timing. VLEN other than 256 in
  the rewrite, which has 256 compiled in, and combining kinds other than addition, which it does
  not read.
* The debug database of the serialization and the registration of its backend: they write a file
  and register a name.
* Attribute-string queries of `Builtins.cpp` after line 355: parsing of constant strings.
* Checks and builtins that are one entry of a switch each (Zk, XCValu, XAndes, `cpu_is`), `isAliasValid`,
  the compatibility of vector types, predefined macros and register names: no interaction.
* Name lookup: `__super`, conversion-function templates, Objective-C, OpenCL builtins,
  argument-dependent lookup, the enumeration of visible declarations, typo correction and module
  visibility.
* Pragmas: OpenMP and OpenACC, whose lines are forwarded whole; captured, dump and debug;
  `runtime_checks`, which is ignored, and `max_tokens_here`, which only warns; code completion. What
  Sema does with what it is told is in files that are not in `src/`.

## Plan

Done in this order: the repository's own code (the rewrite, the ukernel, the serialization, the
pipeline), the two Clang mechanisms the new intrinsics depend on (intrinsic manager, builtin IDs),
then the Clang files around them (attributes, checks and code generation of builtin calls, name
lookup, pragmas) and the proofs. What is left:

1. **Name lookup**: argument-dependent lookup and the enumeration of visible declarations, which
   share the using-directive walk.
2. **Debug database** (`LLVMCPUTarget.cpp` 111 to 145): alignment and footer that its reader
   relies on.
