------------------------------- MODULE MCPragmas -------------------------------
(***************************************************************************)
(* Units for PragmaGrammar: each pragma in its forms and with every change *)
(* of one token, before a declaration, and units of several pragmas.       *)
(***************************************************************************)
EXTENDS PragmaGrammar

Linux   == {"elf", "strictFP"}
NoFP    == {"elf"}
Windows == {"ms", "msvc", "strictFP"}
MinGW   == {"ms", "strictFP"}
Darwin  == {"apple"}
AIX     == {"aix", "xl", "strictFP"}
ZOS     == {"zos"}
CUDA    == {"cuda", "elf", "strictFP"}
OpenCL  == {"opencl", "elf"}

P(pragma, langs, lines) == [pragma |-> pragma, langs |-> langs, lines |-> lines]
Seeds == {
  P("GCC visibility", {Linux}, {<<"push", "(", "x", ")">>, <<"pop">>}),
  P("pack", {Linux, Darwin, AIX, ZOS},
    {<<"(", ")">>, <<"(", "4", ")">>, <<"(", "show", ")">>, <<"(", "push", ",", "x", ",", "2", ")">>,
     <<"(", "pop", ",", "x", ")">>, <<"(", "packed", ")">>, <<"(", "reset", ")">>,
     <<"(", "0z", ")">>}),
  P("ms_struct", {Linux}, {<<"on">>, <<"off">>, <<"reset">>}),
  P("align", {Linux, AIX}, {<<"=", "power">>, <<"(", "mac68k", ")">>}),
  P("options", {Linux, AIX}, {<<"align", "=", "natural">>, <<"align", "(", "reset", ")">>}),
  P("unused", {Linux}, {<<"(", "x", ",", "y", ")">>}),
  P("weak", {Linux}, {<<"x">>, <<"x", "=", "y">>}),
  P("redefine_extname", {Linux}, {<<"x", "y">>}),
  P("STDC FP_CONTRACT", {Linux}, {<<"ON">>, <<"DEFAULT">>}),
  P("STDC FENV_ACCESS", {Linux, NoFP}, {<<"ON">>, <<"DEFAULT">>}),
  P("STDC CX_LIMITED_RANGE", {Linux}, {<<"OFF">>, <<"DEFAULT">>}),
  P("STDC FENV_ROUND", {Linux, NoFP}, {<<"FE_UPWARD">>, <<"FE_DYNAMIC">>}),
  P("fenv_access", {Windows, Linux}, {<<"(", "on", ")">>, <<"(", "off", ")">>}),
  P("OPENCL FP_CONTRACT", {OpenCL, Linux}, {<<"ON">>}),
  P("OPENCL EXTENSION", {OpenCL},
    {<<"cl_khr_fp64", ":", "enable">>, <<"all", ":", "disable">>, <<"x", ":", "begin">>,
     <<"cl_khr_fp64", ":", "end">>}),
  P("pointers_to_members", {Windows},
    {<<"(", "full_generality", ",", "single_inheritance", ")">>, <<"(", "best_case", ")">>,
     <<"(", "full_generality", ")">>}),
  P("vtordisp", {Windows}, {<<"(", "push", ",", "on", ")">>, <<"(", "pop", ")">>, <<"(", "2", ")">>,
                            <<"(", ")">>, <<"(", "3", ")">>}),
  P("float_control", {Linux, NoFP},
    {<<"(", "precise", ",", "off", ",", "push", ")">>, <<"(", "except", ",", "on", ")">>,
     <<"(", "push", ")">>, <<"(", "pop", ")">>}),
  P("detect_mismatch", {Windows, Linux}, {<<"(", "'s'", ",", "''", ")">>}),
  P("comment", {Windows, Linux, AIX},
    {<<"(", "linker", ",", "'s'", ")">>, <<"(", "copyright", ",", "'s'", ")">>, <<"(", "lib", ")">>,
     <<"(", "user", ",", "''", ")">>}),
  P("clang section", {Linux}, {<<"bss", "=", "'s'", "data", "=", "''">>, <<"relro", "=", "'s'">>}),
  P("clang optimize", {Linux}, {<<"on">>, <<"off">>}),
  P("clang fp", {Linux},
    {<<"contract", "(", "fast", ")", "reassociate", "(", "on", ")">>,
     <<"exceptions", "(", "strict", ")", "exceptions", "(", "ignore", ")">>,
     <<"eval_method", "(", "double", ")">>, <<"reciprocal", "(", "off", ")">>}),
  P("clang loop", {Linux},
    {<<"vectorize", "(", "enable", ")", "unroll_count", "(", "4", ")">>,
     <<"vectorize_width", "(", "4", ",", "fixed", ")">>, <<"vectorize_width", "(", "scalable", ")">>,
     <<"unroll", "(", "full", ")">>, <<"distribute", "(", "disable", ")">>,
     <<"pipeline", "(", "disable", ")">>, <<"interleave", "(", "assume_safety", ")">>,
     <<"pipeline_initiation_interval", "(", "0", ")">>}),
  P("unroll", {Linux}, {<<>>, <<"4">>, <<"0z">>, <<"(", "4", ")">>}),
  P("nounroll", {Linux}, {<<>>}),
  P("unroll_and_jam", {Linux}, {<<"(", "4", ")">>}),
  P("clang attribute", {Linux},
    {<<"push">>, <<"x", ".", "pop">>, <<"pop">>,
     <<"push", "(", "attr", ",", "apply_to", "=", "function", ")">>,
     <<"(", "attr", ",", "apply_to", "=", "variable", "(", "is_global", ")", ")">>,
     <<"(", "attr", ",", "apply_to", "=", "any", "(", "function", ",", "hasType", "(",
       "functionType", ")", ")", ")">>,
     <<"x", ".", "push", "(", "attr", ",", "apply_to", "=", "any", "(", "record", "(", "unless",
       "(", "is_union", ")", ")", ",", "record", ")", ")">>}),
  P("clang max_tokens_total", {Linux}, {<<"4">>}),
  P("clang force_cuda_host_device", {CUDA, Linux}, {<<"begin">>, <<"end">>}),
  P("export", {ZOS, Linux}, {<<"(", "x", ")", "export", "(", "y", ")">>}),
  P("data_seg", {Windows, Linux},
    {<<"(", "push", ",", "x", ",", "'s'", ")">>, <<"(", "'s'", ")">>, <<"(", "''", ")">>,
     <<"(", "pop", ")">>, <<"(", ")">>}),
  P("section", {Windows},
    {<<"(", "'s'", ",", "read", ",", "execute", ")">>, <<"(", "'s'", ",", "long", ")">>}),
  P("init_seg", {Windows, MinGW}, {<<"(", "lib", ")">>, <<"(", "'s'", ")">>}),
  P("strict_gs_check", {Windows}, {<<"(", "push", ",", "on", ")">>, <<"(", "off", ")">>}),
  P("function", {Windows}, {<<"(", "memset", ",", "x", ")">>}),
  P("intrinsic", {Windows}, {<<"(", "memset", ",", "memcpy", ")">>}),
  P("alloc_text", {Windows}, {<<"(", "'s'", ",", "x", ",", "y", ")">>}),
  P("optimize", {Windows}, {<<"(", "''", ",", "on", ")">>})
}

NoTwoStrings(t) == \A i \in 1..(Len(t) - 1) : ~(t[i] \in Strings /\ t[i + 1] \in Strings)
\* A token left out, another word of the pragma in its place, or one more.
Changes(lines) ==
  LET words == UNION {ToSet(t) : t \in lines} \cup {"x", "(", ")", ","}
      Changed(t) ==
        {RemoveAt(t, i) : i \in DOMAIN t}
          \cup {[t EXCEPT ![i] = w] : i \in DOMAIN t, w \in words}
          \cup {InsertAt(t, i, w) : i \in 1..(Len(t) + 1), w \in words}
  IN {t \in lines \cup UNION {Changed(u) : u \in lines} : NoTwoStrings(t)}

L(pragma, tokens) == [pragma |-> pragma, tokens |-> tokens]
Declaration == L("", <<>>)
Single ==
  UNION {[lang : seed.langs,
          unit : {<<L(seed.pragma, t), Declaration>> : t \in Changes(seed.lines)}] : seed \in Seeds}

\* Units of two pragmas, with and without a declaration between them, and of two of the same kind.
Pairs(target) ==
  LET lines == UNION {{L(seed.pragma, t) : t \in seed.lines} :
                        seed \in {s \in Seeds : target \in s.langs /\ s.pragma # "clang attribute"}}
  IN [lang : {target},
      unit : {<<p, q, Declaration>> : p, q \in lines} \cup {<<p, Declaration, q>> : p, q \in lines}]

MCPrograms == Single \cup UNION {Pairs(target) : target \in {Linux, Windows, AIX, ZOS, OpenCL}}

HintPrograms ==
  [lang : {Linux},
   unit : {<<L("clang loop", t), Declaration, L("pack", <<"(", "4", ")">>), Declaration>> :
             t \in Changes({<<"vectorize_width", "(", "4", ",", "fixed", ")">>})}]

MCIdentifiers ==
  (UNION {ToSet(t) : t \in UNION {seed.lines : seed \in Seeds}} \cup {"x"})
    \ ({"(", ")", ",", "=", ":", ".", "attr"} \cup NumericConstants \cup Strings \cup Keywords)
MCBuiltins == {"memset", "memcpy"}
MCExtensions == {"cl_khr_fp64"}
=============================================================================
