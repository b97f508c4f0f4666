----------------------------- MODULE PragmaHandlers ----------------------------
(***************************************************************************)
(* The pragma handlers of ParsePragma.cpp.  A pragma is handled twice: the *)
(* preprocessor's handler reads its line when the lexer comes to it, and   *)
(* acts on Sema at once or puts an annotation in the place of the line;    *)
(* the parser's handler acts when the parser comes to the annotation, and  *)
(* must then have consumed what was put there, no more and no less.  The   *)
(* lexer is one token ahead of the parser: lexing the token after a pragma *)
(* runs the preprocessor's handlers of the lines that follow.              *)
(***************************************************************************)
EXTENDS Integers, Sequences, FiniteSets, SequencesExt

CONSTANTS
  Programs,     \* translation units, sequences of lines, each with its options and target
  Identifiers,  \* the identifiers among the tokens, of pragmas and of the program
  Builtins,     \* those that name a builtin function
  Extensions    \* the OpenCL extensions that are known, with a pragma, and supported

\* ms: MicrosoftExt; strictFP: the target has it or it is forced; apple, xl: ApplePragmaPack and
\* XLPragmaPack; elf, aix: the object format and the system; msvc: the environment.
Flags == {"ms", "strictFP", "apple", "xl", "zos", "cuda", "opencl", "elf", "aix", "msvc"}
ASSUME ProgramsAssumption ==
  /\ \A program \in Programs : program.lang \subseteq Flags
  /\ Builtins \cup Extensions \subseteq Identifiers

VARIABLES
  lang,    \* the options of the translation unit
  unit,    \* the translation unit
  at,      \* the lines the lexer has read
  tok,     \* Tok: the parser's token, an annotation or not
  stream,  \* tokens entered before the rest of the file
  acts     \* what was done to Sema, each act with its line

vars == <<lang, unit, at, tok, stream, acts>>
Has(flag) == flag \in lang

\* Tokens.  Keywords have an IdentifierInfo too; adjacent strings are one token.  A numeric
\* constant need not be a valid one.
Ints == {"0", "1", "2", "3", "4"}
InvalidInt == "0z"
NumericConstants == Ints \cup {InvalidInt}
Strings == {"''", "'s'"}
Keywords == {"double", "export", "long", "short"}
Named == Identifiers \cup Keywords

\* A handler reads the tokens of its line, up to the eod or eof at their end, and gives up at
\* the first that is not what it must be.
Reading(s) == [rest |-> s, ok |-> TRUE, value |-> <<>>, acts |-> <<>>]
Tok(p) == IF p.rest = <<>> THEN "beyond" ELSE Head(p.rest)
Lex(p) == IF p.rest = <<>> THEN p ELSE [p EXCEPT !.rest = Tail(@)]
Say(p, word) == [p EXCEPT !.value = Append(@, word)]
Keep(p) == Lex(Say(p, Tok(p)))
Fail(p) == [p EXCEPT !.ok = FALSE]
Expect(p, s) == IF p.ok /\ Tok(p) \in s THEN Lex(p) ELSE Fail(p)
Take(p, s) == IF p.ok /\ Tok(p) \in s THEN Keep(p) ELSE Fail(p)
Act(p) == IF p.ok THEN [p EXCEPT !.acts = Append(@, p.value), !.value = <<>>] ELSE p
While(p, Cond(_), Body(_)) ==
  FoldLeft(LAMBDA q, t : IF q.ok /\ Cond(q) THEN Body(q) ELSE q, p, p.rest)
AtEnd(p) == p.ok /\ Len(p.rest) = 1

-----------------------------------------------------------------------------
(***************************************************************************)
(* The preprocessor's handlers.  What is said is what the annotation tells *)
(* the parser.                                                             *)
(***************************************************************************)
PragmaGCCVisibilityHandler(p) ==
  IF Tok(p) = "push" THEN Expect(Take(Expect(Keep(p), {"("}), Named), {")"})
  ELSE Take(p, {"pop"})

\* The label and the alignment after push or pop.
PackSlot(p) ==
  LET q == Lex(p)
      label == Take(q, Identifiers)
  IN IF Tok(p) # "," THEN p
     ELSE IF Tok(q) \in NumericConstants THEN Keep(q)
     ELSE IF Tok(label) = "," THEN Take(Lex(label), NumericConstants) ELSE label
MapPack == [packed |-> "1", full |-> "4", twobyte |-> "2"]
PragmaPackHandler(p) ==
  LET q == Expect(p, {"("})
      pushes == Has("apple") \/ Has("xl")
      r == IF Tok(q) \in NumericConstants THEN Keep(IF pushes THEN Say(q, "push") ELSE q)
           ELSE IF Tok(q) = "show" THEN Keep(q)
           ELSE IF Has("zos") /\ Tok(q) \in DOMAIN MapPack
                THEN Lex(Say(Say(q, "push"), MapPack[Tok(q)]))
           ELSE IF Has("zos") /\ Tok(q) = "reset" THEN Lex(Say(q, "pop"))
           ELSE IF Tok(q) \in Identifiers THEN PackSlot(Take(q, {"push", "pop"}))
           ELSE IF pushes THEN Say(q, "pop") ELSE q
  IN Expect(r, {")"})

PragmaMSStructHandler(p) ==
  IF Tok(p) = "reset" THEN Lex(Say(p, "off")) ELSE Take(p, {"on", "off"})

AlignKinds == {"native", "natural", "packed", "power", "mac68k", "reset"}
ParseAlignPragma(p, isOptions) ==
  LET q == IF isOptions THEN Expect(p, {"align"}) ELSE p
  IN IF Has("xl") THEN Expect(Take(Expect(q, {"("}), AlignKinds), {")"})
     ELSE Take(Expect(q, {"="}), AlignKinds)

\* One name or more, with commas between them.
NameList(p) ==
  While(Take(p, Identifiers), LAMBDA q : Tok(q) = ",", LAMBDA q : Take(Lex(q), Identifiers))
PragmaUnusedHandler(p) == Expect(NameList(Expect(p, {"("})), {")"})
PragmaWeakHandler(p) ==
  LET q == Take(p, Identifiers) IN IF Tok(q) = "=" THEN Take(Lex(q), Identifiers) ELSE q
PragmaRedefineExtnameHandler(p) == Take(Take(p, Identifiers), Identifiers)

\* LexOnOffSwitch only warns of more tokens.
LexOnOffSwitch(p) ==
  LET q == Take(p, {"ON", "OFF", "DEFAULT"}) IN [q EXCEPT !.rest = <<"eod">>]
StrictFPOnly(p) == IF Has("strictFP") THEN p ELSE Fail(p)
PragmaMSFenvAccessHandler(p) ==
  Expect(Take(Expect(StrictFPOnly(p), {"("}), {"on", "off"}), {")"})
RoundingModes == {"FE_TOWARDZERO", "FE_TONEAREST", "FE_UPWARD", "FE_DOWNWARD",
                  "FE_TONEARESTFROMZERO", "FE_DYNAMIC"}
PragmaSTDC_FENV_ROUNDHandler(p) == Take(StrictFPOnly(p), RoundingModes)

PragmaOpenCLExtensionHandler(p) ==
  Take(Expect(Take(p, Identifiers), {":"}), {"enable", "disable", "begin", "end"})

Inheritance == {"single_inheritance", "multiple_inheritance", "virtual_inheritance"}
PragmaMSPointersToMembers(p) ==
  LET q == Expect(p, {"("})
      general == Lex(q)
      r == IF Tok(q) = "best_case" THEN Keep(q)
           ELSE IF Tok(q) = "full_generality" /\ Tok(general) = ")" THEN
                  Say(general, "virtual_inheritance")
           ELSE IF Tok(q) = "full_generality" THEN Take(Expect(general, {","}), Inheritance)
           ELSE Take(q, Inheritance)
  IN Expect(r, {")"})

\* The mode of vtordisp as a number.
VtorDispMode(p) ==
  CASE Tok(p) = "off" -> Lex(Say(p, "0"))
    [] Tok(p) = "on"  -> Lex(Say(p, "1"))
    [] OTHER          -> Take(p, {"0", "1", "2"})
PragmaMSVtorDisp(p) ==
  LET q == Expect(p, {"("})
      r == CASE Tok(q) = "push" -> VtorDispMode(Expect(Keep(q), {","}))
             [] Tok(q) = "pop"  -> Keep(q)
             [] Tok(q) = ")"    -> Say(q, "reset")
             [] OTHER           -> VtorDispMode(q)
  IN Expect(r, {")"})

\* Kind and Action of float_control.
Setting(p) ==
  LET q == Lex(p)
      setting == CASE Tok(q) = "on"  -> Lex(q)
                   [] Tok(q) = "off" -> Lex([q EXCEPT !.value = <<"no">> \o @])
                   [] OTHER          -> Take(q, {"push"})
  IN IF Tok(setting) # "," THEN setting
     ELSE IF Last(setting.value) = "push" THEN Expect(Lex(setting), {"push"})
     ELSE Take(Lex(setting), {"push"})
PragmaFloatControlHandler(p) ==
  LET q == Expect(StrictFPOnly(p), {"("})
      r == CASE Tok(q) \in {"push", "pop"} -> Keep(q)
             [] OTHER -> LET kind == Take(q, {"precise", "except"})
                         IN IF kind.ok /\ Tok(kind) = "," THEN Setting(kind) ELSE kind
  IN Expect(r, {")"})

PragmaDetectMismatchHandler(p) ==
  Expect(Take(Expect(Take(Expect(p, {"("}), Strings), {","}), Strings), {")"})
PragmaOptimizeHandler(p) == Take(p, {"on", "off"})
PragmaForceCUDAHostDeviceHandler(p) ==
  LET q == Take(p, {"begin", "end"}) IN [q EXCEPT !.rest = <<"eod">>]
PragmaMaxTokensTotalHandler(p) == Take(p, Ints)

\* The kinds of comment the target knows.
CommentKinds ==
  CASE Has("aix") -> {"copyright"}
    [] Has("elf") -> {"lib"}
    [] OTHER      -> {"linker", "lib", "compiler", "exestr", "user", "copyright"}
CommentKind(p) == Take(Expect(p, {"("}), CommentKinds)
IsCopyright(p) == CommentKind(p).ok /\ CommentKind(p).value = <<"copyright">>
\* seen: SeenCopyrightInTU.  An empty copyright is not told to Sema.
PragmaCommentHandler(p, seen) ==
  LET q == CommentKind(p)
      r == IF Tok(q) = "," THEN Take(Lex(q), Strings) ELSE Say(q, "''")
  IN IF IsCopyright(p) /\ (seen \/ Last(r.value) = "''") THEN Fail(r) ELSE Expect(r, {")"})

\* Each section is set as it is read.
SectionKinds == {"bss", "data", "rodata", "relro", "text"}
PragmaClangSectionHandler(p) ==
  While(p, LAMBDA q : Tok(q) # "eod",
        LAMBDA q : Act(Take(Expect(Take(q, SectionKinds), {"="}), Strings)))

FPOptions == <<"reassociate", "reciprocal", "contract", "exceptions", "eval_method">>
FPArguments(option) ==
  CASE option = "contract"    -> {"on", "off", "fast"}
    [] option = "exceptions"  -> {"ignore", "maytrap", "strict"}
    [] option = "eval_method" -> {"source", "double", "extended"}
    [] OTHER                  -> {"on", "off"}
FPOption(p) ==
  LET option == Tok(p)
  IN Expect(Take(Expect(Take(p, ToSet(FPOptions)), {"("}), FPArguments(option)), {")"})
PragmaFPHandler(p) ==
  While(FPOption(p), LAMBDA q : Tok(q) \in Identifiers, FPOption)

\* The payload up to the parenthesis that closes it, or up to the end; an eof is put after it.
Payload(rest, open) ==
  LET Opened(n) == open + Cardinality({i \in 1..n : rest[i] = "("})
                        - Cardinality({i \in 1..n : rest[i] = ")"})
      ends == {n \in 1..Len(rest) : rest[n] = "eod" \/ (open > 0 /\ Opened(n) = 0)}
  IN SubSeq(rest, 1, Min(ends) - 1)
Carry(p, open) ==
  LET n == Len(Payload(p.rest, open))
  IN [p EXCEPT !.rest = SubSeq(@, n + 1, Len(@)),
               !.value = @ \o Append(Payload(p.rest, open), "eof")]

StateOptions == {"vectorize", "interleave", "vectorize_predicate", "unroll", "distribute",
                 "pipeline", "licm"}
ValueOptions == {"vectorize_width", "interleave_count", "unroll_count",
                 "pipeline_initiation_interval"}
\* Each act of the reading is a hint for the parser: the option and its payload.
LoopHint(p) ==
  LET option == Expect(Take(p, StateOptions \cup ValueOptions), {"("})
      r == Expect(Carry(option, 1), {")"})
  IN IF option.ok THEN Act(r) ELSE option
PragmaLoopHintHandler(p) == While(LoopHint(p), LAMBDA q : Tok(q) \in Identifiers, LoopHint)
PragmaUnrollHintHandler(p, name) ==
  LET q == Say(p, name)
      r == IF Tok(q) = "eod" THEN q
           ELSE IF name \in {"nounroll", "nounroll_and_jam"} THEN Fail(q)
           ELSE IF Tok(q) = "(" THEN Expect(Carry(Lex(q), 1), {")"})
           ELSE Carry(q, 0)
  IN IF AtEnd(r) THEN Act(r) ELSE r

\* push, pop or attribute, the namespace or "", and the attribute's tokens.  More tokens are
\* only warned of.
PragmaAttributeHandler(p) ==
  LET named == Tok(p) \in Identifiers \ {"push", "pop"}
      name == IF named THEN Tok(p) ELSE ""
      q == IF named THEN Expect(Lex(p), {"."}) ELSE p
      action == IF Tok(q) = "(" /\ ~named THEN Say(q, "attribute") ELSE Take(q, {"push", "pop"})
      r == Say(action, name)
      payload == Expect(r, {"("})
      s == IF ~r.ok \/ Head(r.value) = "pop" THEN r
           ELSE IF Head(r.value) = "push" /\ Tok(r) = "eod" THEN r
           ELSE IF Payload(payload.rest, 1) = <<>> THEN Fail(r)
           ELSE Expect(Carry(payload, 1), {")"})
  IN IF s.ok THEN [s EXCEPT !.rest = <<"eod">>] ELSE s

-----------------------------------------------------------------------------
(***************************************************************************)
(* Lexing a line.  A pragma whose reading ends at the eod leaves tokens in *)
(* the place of its line, or acts on Sema at once.                         *)
(***************************************************************************)
MSSegments == {"data_seg", "bss_seg", "const_seg", "code_seg"}
MSPragmas == MSSegments \cup {"section", "init_seg", "strict_gs_check", "function", "alloc_text",
                              "optimize", "intrinsic"}
STDCSwitches == {"STDC FP_CONTRACT", "STDC FENV_ACCESS", "STDC CX_LIMITED_RANGE"}
OpenCLPragmas == {"OPENCL EXTENSION", "OPENCL FP_CONTRACT"}
UnrollHints == {"unroll", "nounroll", "unroll_and_jam", "nounroll_and_jam"}
\* Faulty variant of Immediate: float_control acts when its line is lexed.
ImmediateAndFloatControl ==
  {"clang section", "clang optimize", "comment", "detect_mismatch", "float_control",
   "clang force_cuda_host_device", "clang max_tokens_total"}
Immediate == {"clang section", "clang optimize", "comment", "detect_mismatch",
              "clang force_cuda_host_device", "clang max_tokens_total"}

\* What initializePragmaHandlers gives handlers.
Registered(pragma) ==
  /\ pragma \in OpenCLPragmas => Has("opencl")
  /\ pragma \in MSPragmas \cup {"detect_mismatch", "pointers_to_members", "vtordisp", "fenv_access"}
       => Has("ms")
  /\ pragma = "comment" => lang \cap {"ms", "elf", "aix"} # {}
  /\ pragma = "clang force_cuda_host_device" => Has("cuda")
  /\ pragma = "export" => Has("zos")

IsDeclaration(l) == unit[l].pragma = ""
Line(l) == Reading(Append(unit[l].tokens, "eod"))
SeenCopyrightInTU(l) ==
  \E k \in 1..(l - 1) : unit[k].pragma = "comment" /\ Registered("comment") /\ IsCopyright(Line(k))

HandlePragma(l) ==
  LET pragma == unit[l].pragma
      p == Line(l)
  IN CASE pragma = "GCC visibility"       -> PragmaGCCVisibilityHandler(p)
       [] pragma = "pack"                 -> PragmaPackHandler(p)
       [] pragma = "ms_struct"            -> PragmaMSStructHandler(p)
       [] pragma = "align"                -> ParseAlignPragma(p, FALSE)
       [] pragma = "options"              -> ParseAlignPragma(p, TRUE)
       [] pragma = "unused"               -> PragmaUnusedHandler(p)
       [] pragma = "weak"                 -> PragmaWeakHandler(p)
       [] pragma = "redefine_extname"     -> PragmaRedefineExtnameHandler(p)
       [] pragma = "STDC FENV_ACCESS"     -> LexOnOffSwitch(StrictFPOnly(p))
       [] pragma \in STDCSwitches \cup {"OPENCL FP_CONTRACT"} -> LexOnOffSwitch(p)
       [] pragma = "STDC FENV_ROUND"      -> PragmaSTDC_FENV_ROUNDHandler(p)
       [] pragma = "fenv_access"          -> PragmaMSFenvAccessHandler(p)
       [] pragma = "OPENCL EXTENSION"     -> PragmaOpenCLExtensionHandler(p)
       [] pragma = "pointers_to_members"  -> PragmaMSPointersToMembers(p)
       [] pragma = "vtordisp"             -> PragmaMSVtorDisp(p)
       [] pragma = "float_control"        -> PragmaFloatControlHandler(p)
       [] pragma = "clang fp"             -> PragmaFPHandler(p)
       [] pragma = "clang loop"           -> PragmaLoopHintHandler(p)
       [] pragma \in UnrollHints          -> PragmaUnrollHintHandler(p, pragma)
       [] pragma = "clang attribute"      -> PragmaAttributeHandler(p)
       [] pragma = "clang section"        -> PragmaClangSectionHandler(p)
       [] pragma = "clang optimize"       -> PragmaOptimizeHandler(p)
       [] pragma = "detect_mismatch"      -> PragmaDetectMismatchHandler(p)
       [] pragma = "comment"              -> PragmaCommentHandler(p, SeenCopyrightInTU(l))
       [] pragma = "clang max_tokens_total" -> PragmaMaxTokensTotalHandler(p)
       [] pragma = "clang force_cuda_host_device" -> PragmaForceCUDAHostDeviceHandler(p)
       \* PragmaMSPragma and PragmaExportHandler forward their tokens.
       [] OTHER -> [p EXCEPT !.rest = <<"eod">>, !.value = Append(unit[l].tokens, "eof")]

\* Tokens of the stream: annotations, and identifiers entered with them.
Token(annot, value, l) == [annot |-> annot, value |-> value, line |-> l]
Enter(l, p) ==
  LET pragma == unit[l].pragma
      Word(name) == Token("", <<name>>, l)
  IN IF ~AtEnd(p) \/ pragma \in Immediate THEN <<>>
     ELSE IF pragma = "unused" THEN
            [i \in 1..(2 * Len(p.value)) |->
              IF i % 2 = 1 THEN Token("unused", <<>>, l) ELSE Word(p.value[i \div 2])]
     ELSE IF pragma \in {"weak", "redefine_extname"} THEN
            <<Token(IF Len(p.value) = 1 \/ pragma # "weak" THEN pragma ELSE "weakalias", <<>>, l)>>
              \o [i \in DOMAIN p.value |-> Word(p.value[i])]
     ELSE IF pragma = "clang loop" \/ pragma \in UnrollHints THEN
            [i \in DOMAIN p.acts |-> Token("loop_hint", p.acts[i], l)]
     ELSE <<Token(pragma, p.value, l)>>

\* What a pragma does to Sema when it is read.  Sections are set one by one; a bad end of the
\* CUDA pragma is only warned of.
Done(l, what) == [line |-> l, what |-> what]
ActsAtOnce(l, p) ==
  LET whats == IF unit[l].pragma = "clang section" THEN p.acts
               ELSE IF AtEnd(p) THEN <<p.value>> ELSE <<>>
  IN IF unit[l].pragma \in Immediate THEN [i \in DOMAIN whats |-> Done(l, whats[i])] ELSE <<>>

\* The lexer reads a line when the parser waits for a token, or waits for none but an eof; the
\* value of what it waits in is what it then does.
Waiting == tok.annot \in {"lexing", "lexing to eof"}
ReadLine(l, entered, done) ==
  LET found == entered # <<>> /\ tok.annot = "lexing"
  IN /\ at' = l
     /\ tok' = IF found THEN Head(entered) ELSE tok
     /\ stream' = IF found THEN Tail(entered) ELSE stream
     /\ acts' = acts \o done \o IF found THEN tok.value ELSE <<>>
     /\ UNCHANGED <<lang, unit>>
LexDeclaration ==
  /\ Waiting /\ at < Len(unit) /\ IsDeclaration(at + 1)
  /\ ReadLine(at + 1, <<Token("declaration", <<>>, at + 1)>>, <<>>)
ReadPragma(l, p) == ReadLine(l, Enter(l, p), ActsAtOnce(l, p))
LexPragma ==
  /\ Waiting /\ at < Len(unit) /\ ~IsDeclaration(at + 1)
  /\ IF Registered(unit[at + 1].pragma) THEN ReadPragma(at + 1, HandlePragma(at + 1))
     ELSE ReadLine(at + 1, <<>>, <<>>)
LexEndOfFile ==
  /\ Waiting /\ at = Len(unit)
  /\ tok' = Token("eof", <<>>, Len(unit) + 1)
  /\ acts' = acts \o tok.value
  /\ UNCHANGED <<lang, unit, at, stream>>

-----------------------------------------------------------------------------
(***************************************************************************)
(* The parser's handlers.  Some act and then consume their tokens, so that *)
(* Sema sees the pragma before the lines that follow are lexed; others     *)
(* consume first.                                                          *)
(***************************************************************************)
Own(whats) == [i \in DOMAIN whats |-> Done(tok.line, whats[i])]
\* The current token and those after it are consumed, n of them: what was done before that, and
\* what is done after.
Proceed(n, before, after) ==
  /\ IF n <= Len(stream)
     THEN /\ tok' = stream[n]
          /\ stream' = SubSeq(stream, n + 1, Len(stream))
          /\ acts' = acts \o before \o after
     ELSE /\ tok' = Token("lexing", after, tok.line)
          /\ stream' = <<>>
          /\ acts' = acts \o before
  /\ UNCHANGED <<lang, unit, at>>
\* Everything up to an eof is consumed, and there is none but that of the file.
Swallow(after) ==
  /\ tok' = Token("lexing to eof", after, tok.line)
  /\ stream' = <<>>
  /\ UNCHANGED <<lang, unit, at, acts>>
Handles(annots) == tok.annot \in annots
ActThenConsume(n, whats) == Proceed(n, Own(whats), <<>>)
ConsumeThenAct(n, whats) == Proceed(n, <<>>, Own(whats))
Operand(i) == Head(stream[i].value)

HandlePragmaUnused == Handles({"unused"}) /\ ActThenConsume(2, <<<<Operand(1)>>>>)
HandlePragmaWeak == Handles({"weak"}) /\ ActThenConsume(2, <<<<Operand(1)>>>>)
\* Faulty variant of HandlePragmaWeakAlias: the alias is left in the stream.
WeakAliasLeftBehind ==
  Handles({"weakalias"}) /\ ConsumeThenAct(2, <<<<Operand(1), Operand(2)>>>>)
HandlePragmaWeakAlias ==
  Handles({"weakalias"}) /\ ConsumeThenAct(3, <<<<Operand(1), Operand(2)>>>>)
HandlePragmaRedefineExtname ==
  Handles({"redefine_extname"}) /\ ConsumeThenAct(3, <<<<Operand(1), Operand(2)>>>>)
\* An alignment that is no valid constant has no effect.
HandlePragmaPack ==
  /\ Handles({"pack"})
  /\ ActThenConsume(1, IF Contains(tok.value, InvalidInt) THEN <<>> ELSE <<tok.value>>)
HandlePragmaMSStruct == Handles({"ms_struct"}) /\ ActThenConsume(1, <<tok.value>>)
HandlePragmaAlign == Handles({"align", "options"}) /\ ActThenConsume(1, <<tok.value>>)
HandlePragmaVisibility == Handles({"GCC visibility"}) /\ ConsumeThenAct(1, <<tok.value>>)
HandlePragmaFPContract ==
  Handles({"STDC FP_CONTRACT", "OPENCL FP_CONTRACT"}) /\ ConsumeThenAct(1, <<tok.value>>)
HandlePragmaFloatControl == Handles({"float_control"}) /\ ConsumeThenAct(1, <<tok.value>>)
\* DEFAULT is off.
HandlePragmaFEnvAccess ==
  /\ Handles({"STDC FENV_ACCESS", "fenv_access"})
  /\ ConsumeThenAct(1, <<<<IF Head(tok.value) \in {"ON", "on"} THEN "on" ELSE "off">>>>)
HandlePragmaFEnvRound == Handles({"STDC FENV_ROUND"}) /\ ConsumeThenAct(1, <<tok.value>>)
HandlePragmaCXLimitedRange ==
  Handles({"STDC CX_LIMITED_RANGE"}) /\ ConsumeThenAct(1, <<tok.value>>)
HandlePragmaMSPointersToMembers ==
  Handles({"pointers_to_members"}) /\ ConsumeThenAct(1, <<tok.value>>)
HandlePragmaMSVtorDisp == Handles({"vtordisp"}) /\ ConsumeThenAct(1, <<tok.value>>)
\* Each option once, in the order of FPOptions: what was said last of it.
FPActs(value) ==
  LET Said(option) == {i \in DOMAIN value : i % 2 = 1 /\ value[i] = option}
      said == SelectSeq(FPOptions, LAMBDA option : Said(option) # {})
  IN [i \in DOMAIN said |-> <<said[i], value[Max(Said(said[i])) + 1]>>]
HandlePragmaFP == Handles({"clang fp"}) /\ ActThenConsume(1, FPActs(tok.value))

\* An extension that is begun is supported from then on.
Supported(name) ==
  name \in Extensions \/ \E i \in DOMAIN acts : acts[i].what = <<name, "begin">>
OpenCLActs(name, state) ==
  LET accepted == IF name = "all" THEN state = "disable"
                  ELSE IF state = "begin" THEN ~Supported(name)
                  ELSE state # "end" /\ Supported(name)
  IN IF accepted THEN <<<<name, state>>>> ELSE <<>>
HandlePragmaOpenCLExtension ==
  Handles({"OPENCL EXTENSION"}) /\ ConsumeThenAct(1, OpenCLActs(tok.value[1], tok.value[2]))

\* A section may be written unless it has attributes and write is not one of them.
HandlePragmaMSSection(p) ==
  LET Attribute(q) == IF Tok(q) \in {"long", "short"} THEN Lex(q)
                      ELSE Take(q, {"read", "write", "execute"})
      r == While(Take(Expect(p, {"("}), Strings), LAMBDA q : Tok(q) = ",",
                 LAMBDA q : Attribute(Lex(q)))
      Set(flag) == Contains(r.value, flag) \/ (flag = "write" /\ Len(r.value) = 1)
      flags == SelectSeq(<<"write", "execute">>, Set)
      name == SelectSeq(r.value, LAMBDA word : word \in Strings)
  IN Expect([r EXCEPT !.value = name \o flags], {")"})
\* Setting the section "" has no effect.
HandlePragmaMSSegment(p) ==
  LET q == Expect(p, {"("})
      slot == Take(q, {"push", "pop"})
      label == Keep(Lex(slot))
      r == IF Tok(q) \notin Identifiers THEN q
           ELSE IF Tok(slot) # "," THEN IF Tok(slot) = ")" THEN slot ELSE Fail(slot)
           ELSE IF Tok(Lex(slot)) \notin Identifiers THEN Lex(slot)
           ELSE IF Tok(label) = "," THEN Lex(label)
           ELSE IF Tok(label) = ")" THEN label ELSE Fail(label)
      s == IF Tok(r) = ")" THEN r ELSE Take(r, Strings)
  IN Expect([s EXCEPT !.value = SelectSeq(@, LAMBDA word : word # "''")], {")"})
HandlePragmaMSInitSeg(p) ==
  LET q == IF Has("msvc") THEN Expect(p, {"("}) ELSE Fail(p)
  IN Expect(Take(q, {"compiler", "lib", "user"} \cup Strings), {")"})
HandlePragmaMSStrictGuardStackCheck(p) ==
  LET q == Expect(p, {"("})
      r == IF Tok(q) = "push" THEN Expect(Keep(q), {","}) ELSE q
  IN Expect(Take(r, IF Tok(q) = "push" THEN {"on", "off"} ELSE {"on", "off", "pop"}), {")"})
HandlePragmaMSAllocText(p) ==
  Expect(NameList(Expect(Take(Expect(p, {"("}), Strings \cup Identifiers), {","})), {")"})
\* The names of function and of intrinsic: those that are no builtin are only warned of.
BuiltinNames(p, Name(_)) ==
  LET Next1(q) == IF Tok(q) \in Builtins THEN Name(Keep(q)) ELSE Lex(q)
      Punctuated(q) == CASE Tok(q) = "," -> Lex(q)
                         [] Tok(q) = ")" -> q
                         [] OTHER        -> Fail(q)
  IN Expect(While(Expect(p, {"("}), LAMBDA q : Tok(q) \in Identifiers,
                  LAMBDA q : Punctuated(Next1(q))), {")"})
HandlePragmaMSFunction(p) == BuiltinNames(p, LAMBDA q : q)
\* A builtin that an earlier name of intrinsic has declared is not declared again.
DeclaredBuiltins ==
  {acts[i].what : i \in {j \in DOMAIN acts : unit[acts[j].line].pragma = "intrinsic"}}
HandlePragmaMSIntrinsic(p) ==
  BuiltinNames(p, LAMBDA q : IF q.value \in DeclaredBuiltins \/ Contains(q.acts, q.value)
                             THEN [q EXCEPT !.value = <<>>] ELSE Act(q))
HandlePragmaMSOptimize(p) ==
  Expect(Take(Expect(Expect(Expect(p, {"("}), {"''"}), {","}), {"on", "off"}), {")"})

\* What a handler leaves of its tokens, it drops.  The builtins of intrinsic are declared one by
\* one as they are read.
MSHandler(pragma, p) ==
  CASE pragma \in MSSegments      -> HandlePragmaMSSegment(p)
    [] pragma = "section"         -> HandlePragmaMSSection(p)
    [] pragma = "init_seg"        -> HandlePragmaMSInitSeg(p)
    [] pragma = "strict_gs_check" -> HandlePragmaMSStrictGuardStackCheck(p)
    [] pragma = "function"        -> HandlePragmaMSFunction(p)
    [] pragma = "alloc_text"      -> HandlePragmaMSAllocText(p)
    [] pragma = "optimize"        -> HandlePragmaMSOptimize(p)
    [] pragma = "intrinsic"       -> HandlePragmaMSIntrinsic(p)
HandlePragmaMSPragma ==
  /\ Handles(MSPragmas)
  /\ LET p == MSHandler(tok.annot, Reading(tok.value))
     IN IF tok.annot = "intrinsic" THEN ActThenConsume(1, p.acts)
        ELSE ConsumeThenAct(1, IF AtEnd(p) THEN <<p.value>> ELSE <<>>)

\* Each name is exported as it is read, whatever follows it.
Export(p) == Act(Expect(Take(Expect(p, {"("}), Identifiers), {")"}))
zOSHandlePragmaHelper(p) ==
  While(Export(p), LAMBDA q : Tok(q) \in Identifiers \cup {"export"}, LAMBDA q : Export(Lex(q)))
HandlePragmaExport ==
  Handles({"export"}) /\ ActThenConsume(1, zOSHandlePragmaHelper(Reading(tok.value)).acts)

-----------------------------------------------------------------------------
\* Loop hints: the option or the name of the pragma, and the tokens of the payload with its eof.
StateArguments(option) ==
  {"disable"}
    \cup (IF option \in {"pipeline", "licm"} THEN {} ELSE {"enable"})
    \cup (IF option = "unroll" THEN {"full"} ELSE {})
    \cup (IF option \in {"unroll", "distribute", "pipeline", "licm"} THEN {} ELSE {"assume_safety"})

\* External: an invalid constant and an unknown identifier are consumed, another token is not.
ParseConstantExpression(p) ==
  CASE Tok(p) \in Ints                       -> Keep(p)
    [] Tok(p) \in Identifiers \cup Strings \cup {InvalidInt} -> Fail(Lex(p))
    [] OTHER                                 -> Fail(p)
Hint(p) == IF p.ok THEN <<p.value>> ELSE <<>>
Scalability == {"fixed", "scalable"}

\* vectorize_width: fixed or scalable, or a width and perhaps one of them.  What follows the
\* comma is consumed whatever it is, and then everything up to an eof.
HandleVectorizeWidth(p) ==
  LET width == ParseConstantExpression(p)
      second == Lex(width)
      hint == IF width.ok /\ Tok(p) # "0" /\ (Tok(width) = "," => Tok(second) \in Scalability)
              THEN <<IF Tok(width) = "," THEN Say(width, Tok(second)).value ELSE width.value>>
              ELSE <<>>
      overruns == Tok(width) = "," /\ Tok(Lex(second)) = "beyond"
  IN IF Tok(p) \in Scalability THEN ConsumeThenAct(1, Hint(Keep(p)))
     ELSE IF overruns THEN Swallow(Own(hint))
     ELSE ConsumeThenAct(1, hint)
HandlePragmaLoopHint ==
  /\ Handles({"loop_hint"})
  /\ LET option == Head(tok.value)
         p == Say(Reading(Tail(tok.value)), option)
         unrolls == unit[tok.line].pragma \in UnrollHints
     IN IF p.rest = <<>> THEN ConsumeThenAct(1, Hint(p))
        ELSE IF Tok(p) = "eof" THEN ConsumeThenAct(1, <<>>)
        ELSE IF ~unrolls /\ option \in StateOptions THEN
               ConsumeThenAct(1, Hint(Take(p, StateArguments(option))))
        ELSE IF ~unrolls /\ option = "vectorize_width" THEN HandleVectorizeWidth(p)
        ELSE ConsumeThenAct(1, Hint(ParseConstantExpression(p)))

-----------------------------------------------------------------------------
\* The rules of AttrSubMatchRules.inc, some of them: a rule and its sub-rules, with unless or not.
SubjectRules == {"function", "variable", "record", "hasType"}
AbstractRules == {"hasType"}
SubRules(rule, unless) ==
  CASE rule = "variable" -> IF unless THEN {"is_parameter"} ELSE {"is_parameter", "is_global"}
    [] rule = "record"   -> IF unless THEN {"is_union"} ELSE {}
    [] rule = "hasType"  -> IF unless THEN {} ELSE {"functionType"}
    [] OTHER             -> IF unless THEN {} ELSE {"is_member"}

\* A rule that was given before is only warned of.
SubjectRule(p) ==
  LET rule == Tok(p)
      named == Take(p, SubjectRules)
      open == Expect(named, {"("})
      unless == Expect(Keep(open), {"("})
      sub == IF Tok(open) = "unless" THEN Expect(Take(unless, SubRules(rule, TRUE)), {")"})
             ELSE Take(open, SubRules(rule, FALSE))
      r == IF named.ok /\ Tok(named) # "(" /\ rule \notin AbstractRules THEN named
           ELSE Expect(IF open.ok THEN sub ELSE open, {")"})
  IN IF Contains(r.acts, r.value) THEN [r EXCEPT !.value = <<>>] ELSE Act(r)
ParsePragmaAttributeSubjectMatchRuleSet(p) ==
  IF Tok(p) # "any" THEN SubjectRule(p)
  ELSE Expect(While(SubjectRule(Expect(Lex(p), {"("})), LAMBDA q : Tok(q) = ",",
                    LAMBDA q : SubjectRule(Lex(q))), {")"})

\* The attribute itself is one token, "attr".  A bad payload is dropped up to its eof.
HandlePragmaAttribute ==
  /\ Handles({"clang attribute"})
  /\ LET action == tok.value[1]
         payload == Reading(SubSeq(tok.value, 3, Len(tok.value)))
         subjects == Expect(Expect(Expect(Expect(payload, {"attr"}), {","}), {"apply_to"}), {"="})
         rules == ParsePragmaAttributeSubjectMatchRuleSet(subjects)
         pushed == IF action = "push" THEN <<SubSeq(tok.value, 1, 2)>> ELSE <<>>
     IN IF payload.rest = <<>> THEN ConsumeThenAct(1, <<SubSeq(tok.value, 1, 2)>>)
        ELSE IF AtEnd(rules)
             THEN ConsumeThenAct(1, Append(pushed, <<"attr">> \o FlattenSeq(rules.acts)))
        ELSE ConsumeThenAct(1, <<>>)

-----------------------------------------------------------------------------
\* External: ParseExternalDeclaration.
ParseDeclaration == Handles({"declaration"}) /\ ActThenConsume(1, <<<<"declaration">>>>)

Init ==
  /\ \E program \in Programs : lang = program.lang /\ unit = program.unit
  /\ at = 0
  /\ tok = Token("lexing", <<>>, 0)
  /\ stream = <<>>
  /\ acts = <<>>

Next ==
  \/ LexDeclaration \/ LexPragma \/ LexEndOfFile
  \/ ParseDeclaration
  \/ HandlePragmaUnused \/ HandlePragmaWeak \/ HandlePragmaWeakAlias \/ HandlePragmaRedefineExtname
  \/ HandlePragmaPack \/ HandlePragmaMSStruct \/ HandlePragmaAlign \/ HandlePragmaVisibility
  \/ HandlePragmaFPContract \/ HandlePragmaFloatControl \/ HandlePragmaFEnvAccess
  \/ HandlePragmaFEnvRound \/ HandlePragmaCXLimitedRange \/ HandlePragmaFP
  \/ HandlePragmaMSPointersToMembers \/ HandlePragmaMSVtorDisp \/ HandlePragmaMSPragma
  \/ HandlePragmaOpenCLExtension \/ HandlePragmaExport \/ HandlePragmaLoopHint
  \/ HandlePragmaAttribute

Spec == Init /\ [][Next]_vars
=============================================================================
