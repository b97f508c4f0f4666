---------------------------- MODULE MCCppNameLookup ----------------------------
EXTENDS CppNameLookup

Namespaces(sort) ==
  CASE sort = "tag" -> {"Tag", "Type"}        [] sort = "typedef"    -> {"Ordinary", "Type"}
    [] sort = "namespace" -> {"Namespace"}    [] sort = "unresolved" -> {"Ordinary", "Using"}
    [] OTHER -> {"Ordinary"}
Declaration(entity, sort, context) ==
  [entity |-> entity, kind |-> sort, type |-> IF sort \in Types THEN entity ELSE "none",
   context |-> context, invalid |-> FALSE, visible |-> TRUE, rank |-> 0, args |-> 2,
   defaults |-> {}, variable |-> sort = "object", complete |-> TRUE, shadow |-> FALSE, placeholder |-> FALSE, group |-> 0,
   idns |-> Namespaces(sort), linkage |-> TRUE, templateParam |-> FALSE, static |-> TRUE]

\* 1 .. 15: declarations of every sort in three namespaces, with using shadows that hold an
\* older or newer redeclaration of A's function f, and typedefs of the same type.
\* 16 .. 34: one for each place of the programs that are walked; 35: a redeclaration of g.
MCDeclared ==
  <<Declaration("S", "tag", "A"),
   Declaration("T", "tag", "B"),
   [Declaration("alias", "typedef", "B") EXCEPT !.type = "S"],
   Declaration("f", "function", "A"),
   [Declaration("f", "function", "B") EXCEPT !.rank = 1, !.shadow = TRUE],
   [Declaration("f", "function", "C") EXCEPT !.rank = 2, !.args = 1, !.shadow = TRUE],
   Declaration("g", "template", "B"),
   Declaration("x", "object", "A"),
   [Declaration("y", "object", "B") EXCEPT !.placeholder = TRUE],
   [Declaration("bad", "function", "B") EXCEPT !.invalid = TRUE],
   [Declaration("bad2", "object", "C") EXCEPT !.invalid = TRUE],
   [Declaration("i1", "object", "B") EXCEPT !.group = 1],
   [Declaration("i2", "object", "C") EXCEPT !.group = 1],
   [Declaration("alias2", "typedef", "C") EXCEPT !.type = "T"],
   [Declaration("f", "function", "A") EXCEPT !.rank = 3],
   [Declaration("local", "object", "block") EXCEPT !.linkage = FALSE],
   [Declaration("extern", "object", "M") EXCEPT !.idns = {"LocalExtern"}],
   Declaration("M", "function", "M"), Declaration("N", "function", "N"),
   Declaration("G", "function", "G"), Declaration("X", "function", "X"),
   Declaration("Y", "tag", "Y"), Declaration("Z", "function", "Z"),
   Declaration("__builtin", "function", "G"),
   [Declaration("member", "function", "K") EXCEPT !.idns = {"Member"}, !.static = FALSE],
   [Declaration("b1", "function", "B1") EXCEPT !.idns = {"Member"}],
   [Declaration("b1", "function", "B2") EXCEPT !.idns = {"Member"}, !.shadow = TRUE],
   [Declaration("b3", "function", "B3") EXCEPT !.idns = {"Member"}, !.static = FALSE],
   [Declaration("param", "typedef", "template") EXCEPT !.templateParam = TRUE, !.linkage = FALSE],
   [Declaration("u", "unresolved", "block") EXCEPT !.linkage = FALSE],
   [Declaration("lt", "tag", "block") EXCEPT !.linkage = FALSE],
   Declaration("Xt", "tag", "X"), Declaration("t4", "tag", "B4"),
   [Declaration("b4", "function", "B4") EXCEPT !.idns = {"Member"}],
   [Declaration("g", "template", "C") EXCEPT !.defaults = {2}, !.shadow = TRUE]>>
LocalVar == 16
LocalExtern == 17
InM == 18
InN == 19
InG == 20
InX == 21
InY == 22
InZ == 23
BuiltinFunction == 24
Member == 25
Param == 29
Unresolved == 30
LocalTag == 31
TagInX == 32

Bit(n, k) == (n \div 2 ^ k) % 2 = 1
If(b, d) == IF b THEN <<d>> ELSE <<>>
Scope(sort, entity, ds) == [kind |-> sort, entity |-> entity, decls |-> ds, usings |-> <<>>]
Context(sort, parent, ds, usings) ==
  [kind |-> sort, parent |-> parent, decls |-> ds, usings |-> usings, paths |-> <<>>,
   dependent |-> FALSE]

\* Flat programs: three namespaces, one of them the translation unit or all nominated by it.
InA == <<<<>>, <<1>>, <<4>>, <<8>>, <<1, 4>>, <<4, 1>>, <<1, 8>>, <<8, 1>>>>
InB == <<<<>>, <<2>>, <<3>>, <<5>>, <<7>>, <<9>>, <<10>>, <<12>>, <<2, 5>>, <<5, 2>>, <<9, 2>>,
         <<2, 7>>, <<5, 7>>, <<10, 5>>, <<2, 5, 7>>, <<10, 2>>, <<2, 10>>, <<12, 2>>>>
InC == <<<<>>, <<6>>, <<14>>, <<13>>, <<11>>, <<35>>>>
Flat(tu, nominated, a, b, c) ==
  LET table == [n \in {"A", "B", "C", "G"} |->
                  CASE n = "A" -> InA[a] [] n = "B" -> InB[b] [] n = "C" -> InC[c] [] OTHER -> <<>>]
  IN [scopes |-> <<Scope("file", tu, table[tu])>>,
      contexts |-> [n \in {tu} \cup {nominated[k] : k \in DOMAIN nominated} |->
                      IF n = tu THEN Context("tu", NoContext, table[n], nominated)
                      ELSE Context("namespace", tu, table[n], <<>>)],
      builtin |-> <<>>]
FlatCount == Len(InA) * Len(InB) * Len(InC)
FlatProgram(tu, nominated, n) ==
  Flat(tu, nominated, 1 + (n % Len(InA)), 1 + ((n \div Len(InA)) % Len(InB)),
       1 + ((n \div (Len(InA) * Len(InB))) % Len(InC)))
\* B, opened again by its latest declaration, in a translation unit that nominates all three.
Reopened(n) ==
  LET p == FlatProgram("G", <<"A", "B", "C">>, n)
      table == p.contexts["B"].decls
  IN [p EXCEPT !.scopes = <<Scope("file", "B", SubSeq(table, 1, Min({1, Len(table)}))), Scope("file", "G", <<>>)>>]

\* Nested namespaces: a block in a function of M in N in the translation unit G, with
\* X beside M and Y, Z beside N; the bits choose the directives and who declares the name.
Nested(n) ==
  LET local == IF Bit(n, 0) THEN <<LocalVar>> ELSE If(Bit(n, 1), LocalExtern)
      own == If(Bit(n, 2), InM)
      m == If(Bit(n, 1), LocalExtern) \o own
      g == If(Bit(n, 4), InG)
  IN [scopes |-> <<[Scope("block", NoContext, local) EXCEPT !.usings = If(Bit(n, 8), "X")],
                   Scope("function", "f", <<>>), Scope("file", "M", own),
                   Scope("file", "N", If(Bit(n, 3), InN)), Scope("linkage", "L", <<>>),
                   Scope("file", "G", g)>>,
      contexts |-> [c \in {"f", "M", "N", "L", "G", "X", "Y", "Z"} |->
        CASE c = "f" -> Context("function", "M", <<>>, <<>>)
          [] c = "M" -> Context("namespace", "N", m, If(Bit(n, 9), "Y"))
          [] c = "N" -> Context("namespace", "L", If(Bit(n, 3), InN), If(Bit(n, 10), "M"))
          [] c = "L" -> Context("linkage", "G", <<>>, <<>>)
          [] c = "G" -> Context("tu", NoContext, g, If(Bit(n, 11), "Z") \o If(Bit(n, 11), "Y"))
          [] c = "X" -> Context("namespace", "N", If(Bit(n, 5), InX), <<"Z">>)
          [] c = "Y" -> Context("namespace", "G", If(Bit(n, 6), InY), <<"X", "M">>)
          [] c = "Z" -> Context("namespace", "G", If(Bit(n, 7), InZ), <<"Y">>)],
      builtin |-> If(~Bit(n, 7), BuiltinFunction)]

\* A member function of a template K in N, defined in the translation unit, with the base
\* classes of K.
Base(name, number, ds) == [base |-> name, number |-> number, decls |-> ds]
BasePaths ==
  <<<<>>, <<Base("B1", 1, <<26>>)>>, <<Base("B1", 1, <<26>>), Base("B2", 1, <<27>>)>>,
    <<Base("B1", 1, <<26>>), Base("B1", 2, <<26>>)>>, <<Base("B3", 1, <<28>>), Base("B3", 2, <<28>>)>>,
    <<Base("B3", 1, <<28>>), Base("B3", 1, <<28>>)>>, <<Base("B3", 1, <<28>>), Base("B1", 1, <<26>>)>>,
    <<Base("B1", 1, <<26>>), Base("B3", 1, <<28>>), Base("B1", 2, <<26>>)>>,
    <<Base("B1", 1, <<26>>), Base("B2", 1, <<27>>), Base("B1", 2, <<26>>)>>,
    <<Base("B4", 1, <<33, 34>>), Base("B4", 2, <<33, 34>>)>>>>
OutOfLine(n, paths, dependent) ==
  LET g == If(Bit(n, 4), InG)
      m == If(Bit(n, 3), InN) \o If(Bit(n, 7), LocalExtern)
  IN [scopes |-> <<[Scope("block", NoContext, If(Bit(n, 0), LocalVar)) EXCEPT !.usings = <<"X">>],
                   Scope("function", "f", If(Bit(n, 6), LocalTag)),
                   Scope("template", "N", If(Bit(n, 1), Param)), Scope("file", "G", g)>>,
      contexts |-> [c \in {"f", "K", "N", "G", "X"} |->
        CASE c = "f" -> Context("function", "K", <<>>, <<>>)
          [] c = "K" -> [Context("class", "N", If(Bit(n, 2), Member), <<>>)
                           EXCEPT !.paths = BasePaths[paths], !.dependent = dependent]
          [] c = "N" -> Context("namespace", "G", m, <<>>)
          [] c = "G" -> Context("tu", NoContext, g, <<>>)
          [] c = "X" -> Context("namespace", "N", If(Bit(n, 5), TagInX), <<>>)],
      builtin |-> <<>>]

\* A local class in a function of the translation unit, and plain C.
Local(n) ==
  [scopes |-> <<Scope("class", "K", If(Bit(n, 0), Member)),
                Scope("block", NoContext, If(Bit(n, 1), LocalVar) \o If(Bit(n, 2), LocalTag)
                                            \o If(Bit(n, 5), Unresolved)),
                Scope("function", "f", If(Bit(n, 3), LocalExtern)),
                Scope("file", "G", If(Bit(n, 4), InG))>>,
   contexts |-> [c \in {"K", "f", "G"} |->
     CASE c = "K" -> Context("class", "f", If(Bit(n, 0), Member), <<>>)
       [] c = "f" -> Context("function", "G", <<>>, <<>>)
       [] c = "G" -> Context("tu", NoContext, If(Bit(n, 3), LocalExtern) \o If(Bit(n, 4), InG), <<>>)],
   builtin |-> <<BuiltinFunction>>]

FlatPrograms(tu, nominated, mod, rest) ==
  {FlatProgram(tu, nominated, n) : n \in {m \in 1 .. FlatCount : m % mod = rest}}
ReopenedPrograms(mod, rest) == {Reopened(n) : n \in {m \in 1 .. FlatCount : m % mod = rest}}
NestedPrograms(mod, rest) == {Nested(n) : n \in {m \in 1 .. 4096 : m % mod = rest}}
OutOfLinePrograms(mod) ==
  {OutOfLine(n, paths, n % 2 = 0) : n \in {m \in 1 .. 256 : m % mod = 0}, paths \in DOMAIN BasePaths}
LocalPrograms == {Local(n) : n \in 1 .. 64}

Request(programs, specifiers, nameKinds, redeclarations) ==
  [program : programs, cplusplus : {TRUE}, specifier : specifiers, kind : nameKinds,
   redeclaration : redeclarations, hideTags : {TRUE}, builtins : {FALSE}]
WithTags(requests) == {[r EXCEPT !.hideTags = FALSE] : r \in requests}
PlainC(requests) == {[r EXCEPT !.cplusplus = FALSE, !.builtins = TRUE] : r \in requests}

Ordinary == {"LookupOrdinaryName"}
Redeclaring == {"LookupRedeclarationWithLinkage"}
MCRequests ==
  LET flat == FlatPrograms("A", <<"B", "C">>, 1, 0) \cup FlatPrograms("B", <<"C", "A">>, 5, 1)
      some == FlatPrograms("A", <<"B", "C">>, 5, 2) \cup FlatPrograms("B", <<"C", "A">>, 5, 3)
      unnamed == FlatPrograms("G", <<"A", "B", "C">>, 3, 1)
                   \cup FlatPrograms("G", <<"C", "B", "A">>, 5, 2)
  IN UNION
       {Request(flat, {"none"}, Ordinary, {FALSE}), WithTags(Request(some, {"none"}, Ordinary, {FALSE})),
        Request(some, {"none"}, {"LookupTagName"}, {FALSE}),
        Request(unnamed, {"G"}, Ordinary, {FALSE}),
        Request(ReopenedPrograms(5, 4), {"none"}, Ordinary, BOOLEAN),
        Request(NestedPrograms(3, 0), {"none"}, Ordinary, {FALSE}),
        Request(NestedPrograms(7, 1), {"none"}, Redeclaring, {TRUE}),
        Request(NestedPrograms(11, 3), {"none"}, {"LookupMemberName"}, {FALSE}),
        Request(NestedPrograms(11, 1), {"N", "G"}, Ordinary, BOOLEAN),
        Request(OutOfLinePrograms(3), {"none"}, Ordinary, {FALSE}),
        Request(OutOfLinePrograms(5), {"K"}, Ordinary \cup {"LookupNamespaceName"}, {FALSE}),
        Request(OutOfLinePrograms(7), {"none"}, Redeclaring, {TRUE}),
        Request(LocalPrograms, {"none"}, Ordinary \cup {"LookupTagName"}, {FALSE}),
        Request(LocalPrograms, {"none"}, Redeclaring \cup {"LookupLocalFriendName"}, {TRUE}),
        Request({Local(1)}, {"invalid", "incomplete", "dependent"}, Ordinary, {FALSE}),
        PlainC(Request(LocalPrograms, {"none"}, Ordinary, {FALSE})),
        PlainC(Request(LocalPrograms, {"none"}, Redeclaring, {TRUE}))}
=============================================================================
