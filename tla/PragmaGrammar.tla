------------------------------ MODULE PragmaGrammar -----------------------------
(***************************************************************************)
(* What the pragmas of PragmaHandlers are to do: for each its forms, and   *)
(* what each form says to Sema.  The forms are those that the comments on  *)
(* the handlers give; where a handler takes more, or other, than its       *)
(* comment says, or has none, the form is what the handler takes.  They    *)
(* are written out, token by token, and a line is compared with them as a  *)
(* whole: nothing is read from left to right, and nothing is handed from a *)
(* lexer to a parser.                                                      *)
(***************************************************************************)
EXTENDS PragmaHandlers

\* A form is a sequence of sets of tokens.
Fits(t, form) == Len(t) = Len(form) /\ \A i \in DOMAIN t : t[i] \in form[i]
LP == {"("}
RP == {")"}
Comma == {","}
\* Names with commas between them, as many as a line of n tokens can hold.
Commas(n, names) == [i \in 1..n |-> IF i % 2 = 1 THEN names ELSE Comma]
Odd(s) == [i \in 1..((Len(s) + 1) \div 2) |-> s[2 * i - 1]]
Inner(t) == SubSeq(t, 2, Len(t) - 1)
\* The first n tokens of t.
FirstTokens(t, n) == SubSeq(t, 1, n)

-----------------------------------------------------------------------------
\* Forms whose acts are one.  said is empty, or has what the line says.
Alignment(pragma, t) ==
  LET When(form, said) == IF Fits(t, form) THEN {said} ELSE {}
      pushes == Has("apple") \/ Has("xl")
      PushPop == {"push", "pop"}
      Kinds == {"native", "natural", "packed", "power", "mac68k", "reset"}
      Align(t1) == IF Has("xl") THEN IF Fits(t1, <<LP, Kinds, RP>>) THEN {<<t1[2]>>} ELSE {}
                   ELSE IF Fits(t1, <<{"="}, Kinds>>) THEN {<<t1[2]>>} ELSE {}
  IN CASE pragma = "align" -> Align(t)
       [] pragma = "options" -> IF t # <<>> /\ t[1] = "align" THEN Align(Tail(t)) ELSE {}
       [] pragma = "pack" ->
            When(<<LP, RP>>, IF pushes THEN <<"pop">> ELSE <<>>)
              \cup When(<<LP, Ints, RP>>, IF pushes THEN <<"push", t[2]>> ELSE <<t[2]>>)
              \cup When(<<LP, {"show"} \cup PushPop, RP>>, <<t[2]>>)
              \cup When(<<LP, PushPop, Comma, Identifiers \cup Ints, RP>>, <<t[2], t[4]>>)
              \cup When(<<LP, PushPop, Comma, Identifiers, Comma, Ints, RP>>, <<t[2], t[4], t[6]>>)
              \cup IF ~Has("zos") THEN {}
                   ELSE When(<<LP, {"packed"}, RP>>, <<"push", "1">>)
                          \cup When(<<LP, {"full"}, RP>>, <<"push", "4">>)
                          \cup When(<<LP, {"twobyte"}, RP>>, <<"push", "2">>)
                          \cup When(<<LP, {"reset"}, RP>>, <<"pop">>)

\* float_control(keyword[, setting] [,push]), and push twice.
FloatControl(t) ==
  LET When(form, said) == IF Fits(t, form) THEN {said} ELSE {}
      Kind == {"precise", "except"}
      set == IF Len(t) >= 4 /\ t[4] = "off" THEN <<"no", t[2]>> ELSE <<t[2]>>
  IN When(<<LP, {"push", "pop"} \cup Kind, RP>>, <<t[2]>>)
       \cup When(<<LP, Kind, Comma, {"on", "off"}, RP>>, set)
       \cup When(<<LP, Kind, Comma, {"push"}, RP>>, <<t[2], "push">>)
       \cup When(<<LP, Kind, Comma, {"on", "off", "push"}, Comma, {"push"}, RP>>,
                 Append(set, "push"))

\* The switches of STDC take more tokens after the first; DEFAULT turns FENV_ACCESS off.
FloatingPoint(pragma, t) ==
  LET switched == t # <<>> /\ t[1] \in {"ON", "OFF", "DEFAULT"}
      access == IF switched THEN {<<IF t[1] = "ON" THEN "on" ELSE "off">>}
                ELSE {}
  IN CASE pragma = "STDC FENV_ACCESS" -> IF Has("strictFP") THEN access ELSE {}
       [] pragma \in {"STDC FP_CONTRACT", "STDC CX_LIMITED_RANGE", "OPENCL FP_CONTRACT"} ->
            IF switched THEN {<<t[1]>>} ELSE {}
       [] pragma = "fenv_access" ->
            IF Has("strictFP") /\ Fits(t, <<LP, {"on", "off"}, RP>>) THEN {<<t[2]>>} ELSE {}
       [] pragma = "STDC FENV_ROUND" ->
            IF Has("strictFP") /\ Len(t) = 1
               /\ t[1] \in {"FE_TOWARDZERO", "FE_TONEAREST", "FE_UPWARD", "FE_DOWNWARD",
                                       "FE_TONEARESTFROMZERO", "FE_DYNAMIC"} THEN {t} ELSE {}
       [] pragma = "float_control" -> IF Has("strictFP") THEN FloatControl(t) ELSE {}

\* An extension is known, or was begun on a line before.
OpenCLExtension(l, t) ==
  LET states == {"enable", "disable", "begin", "end"}
      begun == \E k \in 1..(l - 1) : unit[k].tokens = <<t[1], ":", "begin">>
      known == t[1] \in Extensions \/ begun
  IN IF ~Fits(t, <<Identifiers, {":"}, states>>) THEN {}
     ELSE IF t[1] = "all" THEN IF t[3] = "disable" THEN {<<t[1], t[3]>>} ELSE {}
     ELSE IF t[3] # "end" /\ (known <=> t[3] # "begin") THEN {<<t[1], t[3]>>} ELSE {}

\* Comments of the kinds of the target; the first copyright of the unit, and it says something.
Comment(l, t) ==
  LET kinds == {"linker", "lib", "compiler", "exestr", "user", "copyright"}
      kept == {k \in kinds : (Has("aix") => k = "copyright") /\ (Has("elf") => k = "lib")}
      IsLate == \E k \in 1..(l - 1) :
        /\ unit[k].pragma = "comment" /\ Len(unit[k].tokens) >= 2
        /\ FirstTokens(unit[k].tokens, 2) = <<"(", "copyright">>
      fits == Fits(t, <<LP, kept, RP>>) \/ Fits(t, <<LP, kept, Comma, Strings, RP>>)
      text == IF Len(t) = 5 THEN t[4] ELSE "''"
  IN IF fits /\ (t[2] = "copyright" => text # "''" /\ ~IsLate) THEN {<<t[2], text>>} ELSE {}

\* pointers_to_members and vtordisp.
MicrosoftClasses(pragma, t) ==
  LET When(form, said) == IF Fits(t, form) THEN {said} ELSE {}
      Model == {"single_inheritance", "multiple_inheritance", "virtual_inheritance"}
      Mode == {"off", "on", "0", "1", "2"}
      mode == CASE t[Len(t) - 1] = "off" -> "0"
                [] t[Len(t) - 1] = "on"  -> "1"
                [] OTHER                 -> t[Len(t) - 1]
  IN CASE pragma = "pointers_to_members" ->
            When(<<LP, {"best_case"} \cup Model, RP>>, <<t[2]>>)
              \cup When(<<LP, {"full_generality"}, RP>>, <<"virtual_inheritance">>)
              \cup When(<<LP, {"full_generality"}, Comma, Model, RP>>, <<t[4]>>)
       [] pragma = "vtordisp" ->
            When(<<LP, RP>>, <<"reset">>)
              \cup When(<<LP, {"pop"}, RP>>, <<"pop">>)
              \cup When(<<LP, Mode, RP>>, <<mode>>)
              \cup When(<<LP, {"push"}, Comma, Mode, RP>>, <<"push", mode>>)

\* The sections, functions and switches of Microsoft.  A comma before the closing parenthesis
\* is let pass after push, pop and a label, and after the names of function.
Microsoft(pragma, t) ==
  LET When(form, said) == IF Fits(t, form) THEN {said} ELSE {}
      PushPop == {"push", "pop"}
      named == SelectSeq(t, LAMBDA word : word \in Identifiers)
      Flag == {"read", "write", "execute", "short", "long"}
      IsSet(flag) == \/ flag \in ToSet(t)
                     \/ flag = "write" /\ ToSet(t) \cap {"read", "execute"} = {}
      set == SelectSeq(Inner(t), LAMBDA word : word \notin {",", "''"})
  IN CASE pragma \in MSSegments ->
            When(<<LP, RP>>, <<>>) \cup When(<<LP, Strings, RP>>, set)
              \cup When(<<LP, PushPop, RP>>, set) \cup When(<<LP, PushPop, Comma, RP>>, set)
              \cup When(<<LP, PushPop, Comma, Identifiers \cup Strings, RP>>, set)
              \cup When(<<LP, PushPop, Comma, Identifiers, Comma, RP>>, set)
              \cup When(<<LP, PushPop, Comma, Identifiers, Comma, Strings, RP>>, set)
       [] pragma = "section" ->
            IF Len(t) % 2 = 0 THEN {}
            ELSE When(<<LP, Strings>>
                        \o [i \in 1..(Len(t) - 3) |-> IF i % 2 = 1 THEN Comma ELSE Flag] \o <<RP>>,
                      <<t[2]>> \o SelectSeq(<<"write", "execute">>, IsSet))
       [] pragma = "init_seg" ->
            IF Has("msvc") THEN When(<<LP, {"compiler", "lib", "user"} \cup Strings, RP>>, <<t[2]>>)
            ELSE {}
       [] pragma = "strict_gs_check" ->
            When(<<LP, {"on", "off", "pop"}, RP>>, <<t[2]>>)
              \cup When(<<LP, {"push"}, Comma, {"on", "off"}, RP>>, <<t[2], t[4]>>)
       [] pragma = "function" ->
            When(<<LP>> \o Commas(Len(t) - 2, Identifiers) \o <<RP>>,
                 SelectSeq(named, LAMBDA word : word \in Builtins))
       [] pragma = "alloc_text" ->
            IF Len(t) >= 5 /\ Len(t) % 2 = 1
            THEN When(<<LP, Strings \cup Identifiers, Comma>>
                        \o Commas(Len(t) - 4, Identifiers) \o <<RP>>,
                      <<t[2]>> \o Odd(SubSeq(t, 4, Len(t) - 1)))
            ELSE {}
       [] pragma = "optimize" -> When(<<LP, {"''"}, Comma, {"on", "off"}, RP>>, <<t[4]>>)

Names(pragma, t) ==
  LET When(form, said) == IF Fits(t, form) THEN {said} ELSE {}
  IN CASE pragma = "weak" ->
            When(<<Identifiers>>, t) \cup When(<<Identifiers, {"="}, Identifiers>>, <<t[1], t[3]>>)
       [] pragma = "redefine_extname" -> When(<<Identifiers, Identifiers>>, t)
       [] pragma = "GCC visibility" ->
            When(<<{"pop"}>>, t) \cup When(<<{"push"}, LP, Named, RP>>, <<t[1], t[3]>>)
       [] pragma = "ms_struct" ->
            When(<<{"on", "off"}>>, t) \cup When(<<{"reset"}>>, <<"off">>)
       [] pragma = "clang optimize" -> When(<<{"on", "off"}>>, t)
       [] pragma = "detect_mismatch" -> When(<<LP, Strings, Comma, Strings, RP>>, <<t[2], t[4]>>)
       [] pragma = "clang max_tokens_total" -> When(<<Ints>>, t)
       [] pragma = "clang force_cuda_host_device" ->
            IF t # <<>> /\ t[1] \in {"begin", "end"} THEN {<<t[1]>>} ELSE {}

One(said) == IF said = {} THEN <<>> ELSE <<CHOOSE what \in said : TRUE>>

-----------------------------------------------------------------------------
\* Forms of several acts.
Unused(t) ==
  IF Len(t) % 2 = 1 /\ Fits(t, <<LP>> \o Commas(Len(t) - 2, Identifiers) \o <<RP>>)
  THEN [i \in DOMAIN Odd(Inner(t)) |-> <<Odd(Inner(t))[i]>>] ELSE <<>>

\* As many whole items of n tokens as the line begins with; export has a word between them.
Whole(t, n, Item(_)) ==
  Max({m \in 0..(Len(t) \div n) : \A k \in 1..m : Item(SubSeq(t, n * (k - 1) + 1, n * k))})
Sections(t) ==
  LET IsSection(item) == Fits(item, <<{"bss", "data", "rodata", "relro", "text"}, {"="}, Strings>>)
  IN [k \in 1..Whole(t, 3, IsSection) |-> <<t[3 * k - 2], t[3 * k]>>]
Exports(t) ==
  LET IsExport(item) == Fits(item, <<Identifiers \cup {"export"}, LP, Identifiers, RP>>)
      words == <<"export">> \o t
  IN [k \in 1..Whole(words, 4, IsExport) |-> <<words[4 * k - 1]>>]
\* The names up to the first token that is out of place; a builtin is declared by the first of
\* its names in the unit.
IntrinsicNames(t) ==
  LET ends == {n \in 1..Len(t) : Fits(FirstTokens(t, n), <<LP>> \o Commas(n - 1, Identifiers))}
      names == IF ends = {} THEN <<>> ELSE Odd(SubSeq(t, 2, Max(ends)))
  IN SelectSeq(names, LAMBDA name : name \in Builtins)
Intrinsics(l) ==
  LET names == IntrinsicNames(unit[l].tokens)
      Said(k) == IF unit[k].pragma = "intrinsic" THEN ToSet(IntrinsicNames(unit[k].tokens)) ELSE {}
      IsFirst(i) == /\ \A k \in 1..(l - 1) : names[i] \notin Said(k)
                    /\ \A j \in 1..(i - 1) : names[j] # names[i]
      first == SelectSeq([i \in DOMAIN names |-> i], IsFirst)
  IN [i \in DOMAIN first |-> <<names[first[i]]>>]

\* Each option once, with what is said last of it, in the order of PFK kinds.
FPForms(t) ==
  LET Switch(item) == Fits(item, <<{"reassociate", "reciprocal"}, LP, {"on", "off"}, RP>>)
                        \/ Fits(item, <<{"contract"}, LP, {"on", "off", "fast"}, RP>>)
                        \/ Fits(item, <<{"exceptions"}, LP, {"ignore", "maytrap", "strict"}, RP>>)
                        \/ Fits(item, <<{"eval_method"}, LP, {"source", "double", "extended"}, RP>>)
      items == Whole(t, 4, Switch)
      Last1(option) == {k \in 1..items : t[4 * k - 3] = option
                                          /\ \A j \in (k + 1)..items : t[4 * j - 3] # option}
      Said(option) == IF Last1(option) = {} THEN <<>>
                      ELSE <<<<option, t[4 * (CHOOSE k \in Last1(option) : TRUE) - 1]>>>>
  IN IF items * 4 # Len(t) THEN <<>>
     ELSE Said("reassociate") \o Said("reciprocal") \o Said("contract") \o Said("exceptions")
            \o Said("eval_method")

-----------------------------------------------------------------------------
\* Loop hints: an option and an argument in parentheses, without parentheses in it.  More tokens
\* after a good argument are only warned of.
Closers(t) == {i \in DOMAIN t : t[i] = ")"}
HintItems(t) ==
  LET End(k) == CHOOSE i \in Closers(t) : Cardinality({j \in Closers(t) : j <= i}) = k
  IN [k \in 1..Cardinality(Closers(t)) |->
       SubSeq(t, IF k = 1 THEN 1 ELSE End(k - 1) + 1, End(k))]
HintWords == [vectorize           |-> {"enable", "disable", "assume_safety"},
              interleave          |-> {"enable", "disable", "assume_safety"},
              vectorize_predicate |-> {"enable", "disable", "assume_safety"},
              unroll              |-> {"enable", "disable", "full"},
              distribute          |-> {"enable", "disable"},
              pipeline            |-> {"disable"},
              licm                |-> {"disable"}]
HintValues ==
  {"vectorize_width", "interleave_count", "unroll_count", "pipeline_initiation_interval"}
IsHint(item) ==
  /\ Len(item) >= 3
  /\ item[1] \in DOMAIN HintWords \cup HintValues
  /\ item[2] = "("
  /\ \A i \in 3..Len(item) : item[i] # "("
HintSaid(item) ==
  LET option == item[1]
      first == item[3]
      scalable == {"fixed", "scalable"}
  IN IF option \in DOMAIN HintWords THEN
            IF first \in HintWords[option] THEN <<<<option, first>>>> ELSE <<>>
     ELSE IF option # "vectorize_width" THEN IF first \in Ints THEN <<<<option, first>>>> ELSE <<>>
     ELSE IF first \in scalable THEN <<<<option, first>>>>
     ELSE IF first \notin Ints \ {"0"} THEN <<>>
     ELSE IF item[4] # "," THEN <<<<option, first>>>>
     ELSE IF item[5] \in scalable THEN <<<<option, first, item[5]>>>>
     ELSE <<>>
LoopHints(t) ==
  LET items == HintItems(t)
  IN IF t # <<>> /\ t[Len(t)] = ")" /\ \A k \in DOMAIN items : IsHint(items[k])
     THEN FlattenSeq([k \in DOMAIN items |-> HintSaid(items[k])]) ELSE <<>>
UnrollHint(pragma, t) ==
  LET parenthesised == t # <<>> /\ t[1] = "("
      first == IF parenthesised THEN 2 ELSE 1
  IN IF t = <<>> THEN <<<<pragma>>>>
     ELSE IF /\ pragma \in {"unroll", "unroll_and_jam"}
             /\ parenthesised => Closers(t) = {Len(t)} /\ \A i \in 2..Len(t) : t[i] # "("
             /\ first \in DOMAIN t /\ t[first] \in Ints
          THEN <<<<pragma, t[first]>>>> ELSE <<>>

\* The subjects of an attribute: a rule, or any of some.
RuleTexts ==
  {<<"function">>, <<"variable">>, <<"record">>,
   <<"function", "(", "is_member", ")">>, <<"hasType", "(", "functionType", ")">>,
   <<"variable", "(", "is_parameter", ")">>, <<"variable", "(", "is_global", ")">>,
   <<"variable", "(", "unless", "(", "is_parameter", ")", ")">>,
   <<"record", "(", "unless", "(", "is_union", ")", ")">>}
AnyText(rules) == <<"any", "(">> \o rules \o <<")">>
Subjects ==
  RuleTexts \cup {AnyText(r) : r \in RuleTexts}
    \cup {AnyText(r \o <<",">> \o s) : r, s \in RuleTexts}
SubjectsSaid(subjects) ==
  LET half == (Len(subjects) - 4) \div 2
      twice == Len(subjects) % 2 = 0 /\ subjects[1] = "any"
                 /\ SubSeq(subjects, 3, 2 + half) = SubSeq(subjects, 4 + half, 3 + 2 * half)
      once == IF twice THEN SubSeq(subjects, 3, 2 + half) ELSE subjects
  IN SelectSeq(once, LAMBDA word : word \notin {"any", "(", ")", ","})
\* The attribute and its subjects in parentheses, up to token n.
AttributeSaid(t, n) ==
  LET subjects == SubSeq(t, 6, n - 1)
  IN IF n >= 6 /\ FirstTokens(t, 5) = <<"(", "attr", ",", "apply_to", "=">> /\ t[n] = ")"
         /\ subjects \in Subjects
     THEN {<<"attr">> \o SubjectsSaid(subjects)} ELSE {}
ClangAttribute(t) ==
  LET named == Len(t) >= 2 /\ t[1] \in Identifiers \ {"push", "pop"} /\ t[2] = "."
      name == IF named THEN t[1] ELSE ""
      r == IF named THEN SubSeq(t, 3, Len(t)) ELSE t
      rest == Tail(r)
      attributes(s) == UNION {AttributeSaid(s, n) : n \in DOMAIN s}
  IN IF r = <<>> THEN <<>>
     ELSE IF r[1] = "pop" THEN <<<<"pop", name>>>>
     ELSE IF r = <<"push">> THEN <<<<"push", name>>>>
     ELSE IF r[1] = "push" THEN IF attributes(rest) = {} THEN <<>>
                           ELSE <<<<"push", name>>>> \o One(attributes(rest))
     ELSE IF named THEN <<>> ELSE One(attributes(r))

-----------------------------------------------------------------------------
\* What a line says to Sema.
Written(l) ==
  LET pragma == unit[l].pragma
      t == unit[l].tokens
  IN IF pragma = "" THEN <<<<"declaration">>>>
     ELSE IF ~Registered(pragma) THEN <<>>
     ELSE
     CASE pragma \in {"align", "options", "pack"} -> One(Alignment(pragma, t))
       [] pragma \in STDCSwitches \cup {"OPENCL FP_CONTRACT", "fenv_access", "STDC FENV_ROUND",
                                        "float_control"} -> One(FloatingPoint(pragma, t))
       [] pragma = "OPENCL EXTENSION" -> One(OpenCLExtension(l, t))
       [] pragma = "comment" -> One(Comment(l, t))
       [] pragma \in {"pointers_to_members", "vtordisp"} -> One(MicrosoftClasses(pragma, t))
       [] pragma = "intrinsic" -> Intrinsics(l)
       [] pragma \in MSPragmas -> One(Microsoft(pragma, t))
       [] pragma = "unused" -> Unused(t)
       [] pragma = "clang section" -> Sections(t)
       [] pragma = "export" -> Exports(t)
       [] pragma = "clang fp" -> FPForms(t)
       [] pragma = "clang loop" -> LoopHints(t)
       [] pragma \in UnrollHints -> UnrollHint(pragma, t)
       [] pragma = "clang attribute" -> ClangAttribute(t)
       [] OTHER -> One(Names(pragma, t))

\* A width with a comma and nothing after it.
Overruns(l) ==
  /\ unit[l].pragma = "clang loop"
  /\ LET t == unit[l].tokens
     IN \E i, j \in DOMAIN t :
          /\ j - i \in {3, 4}
          /\ t[i] = "vectorize_width" /\ t[j - 1] = "," /\ t[j] = ")"

\* A pragma takes effect for what comes after it and for nothing before it: when the parser comes
\* to a declaration, or to the end of the file, Sema has been told exactly what the lines before
\* it say, each in full, and nothing of the lines after it, though the lexer is ahead of the
\* parser; and no token of a pragma is left for the parser to take for a declaration.  Units with
\* a hint that overruns its line are the subject of HintsResynchronised.
PragmaActsAsWritten ==
  LET Told(l) == LET told == SelectSeq(acts, LAMBDA act : act.line = l)
                 IN [i \in DOMAIN told |-> told[i].what]
  IN (\E l \in DOMAIN unit : Overruns(l))
       \/ /\ tok.annot # ""
          /\ tok.annot \in {"declaration", "eof"} =>
               \A l \in DOMAIN unit : Told(l) = IF l < tok.line THEN Written(l) ELSE <<>>

\* Pragmas that set the same state of Sema, the alignment, the floating point options, the
\* sections of Microsoft or that of the pragma itself, are told to it in the order of the source,
\* though some act when they are lexed, some before their last token is consumed and some after.
SemaState(pragma) ==
  CASE pragma \in {"pack", "align", "options"} -> "alignment"
    [] pragma \in STDCSwitches \cup {"OPENCL FP_CONTRACT", "fenv_access", "STDC FENV_ROUND",
                                     "float_control", "clang fp"} -> "FPFeatures"
    [] pragma \in MSSegments \cup {"section", "init_seg", "alloc_text"} -> "sections"
    [] pragma \in UnrollHints \cup {"clang loop"} -> "hints"
    [] OTHER -> pragma
PragmasInOrder ==
  \A i, j \in DOMAIN acts :
    i < j /\ SemaState(unit[acts[i].line].pragma) = SemaState(unit[acts[j].line].pragma)
      => acts[i].line <= acts[j].line

\* HandlePragmaLoopHint: "Tokens following an error in an ill-formed constant expression will
\* remain in the token stream and must be removed."  No more than those: the parser goes on with
\* the next token of the file, and when it comes to the end it has passed over no declaration.
HintsResynchronised ==
  tok.annot = "eof" =>
    \A l \in DOMAIN unit : IsDeclaration(l) => \E i \in DOMAIN acts : acts[i].line = l
=============================================================================
