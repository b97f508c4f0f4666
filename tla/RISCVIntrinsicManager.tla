------------------------ MODULE RISCVIntrinsicManager ------------------------
(***************************************************************************)
(* The vector intrinsics of one translation unit: the pragma that declares *)
(* a kind of intrinsics (PragmaRISCVHandler), the lazy construction of the *)
(* tables (RISCVIntrinsicManagerImpl) and the lookup that consults them    *)
(* (Sema::LookupBuiltin).  Pragmas, declarations and lookups come in any   *)
(* order, so a table may have to grow after it has already been used.      *)
(*                                                                         *)
(* A name is the sequence of its parts, the strings between underscores:   *)
(* __riscv_smt_vmadot_vv_i32m1 has the prefix and the name                 *)
(* <<"smt", "vmadot", "vv", "i32m1">>.                                     *)
(***************************************************************************)
EXTENDS Integers, Sequences, SequencesExt

CONSTANTS
  Records,        \* the intrinsic records TableGen emits, a sequence per kind
  Points,         \* every (base type, LMUL) in the order of the two loops
  Identifiers,    \* the identifiers the program looks up
  Builtins,       \* the identifiers that have a builtin ID ...
  LibFunctions,   \* ... and those among them that are predefined library functions
  CPlusPlus       \* LangOpts.CPlusPlus

Kinds == <<"vector", "sifive_vector", "andes_vector", "spacemit_vector">>
KindSet == {Kinds[i] : i \in DOMAIN Kinds}

\* A name variant: updateNamesAndPolicy gives the parts it appends to the two names.
Variant(name, overload) == [name |-> name, overload |-> overload]
PolicyVariants(policies) == [i \in DOMAIN policies |-> Variant(<<policies[i]>>, <<policies[i]>>)]

\* The variants of a record, in the order ConstructRVVIntrinsics creates them.
Variants(r) ==
  <<Variant(<<>>, <<>>)>> \o PolicyVariants(r.policies) \o
  (IF r.hasMasked THEN <<Variant(<<"m">>, <<>>)>> \o PolicyVariants(r.maskedPolicies) ELSE <<>>)

\* InitRVVIntrinsic: the two names and the definition of one intrinsic.
OverloadedBase(r) == IF r.overloadedName = <<>> THEN <<Head(r.name)>> ELSE r.overloadedName
Intrinsic(kind, r, point, v) ==
  [name |-> r.name \o (IF r.suffix THEN <<point>> ELSE <<>>) \o v.name,
   overload |-> OverloadedBase(r) \o (IF r.overloadedSuffix THEN <<point>> ELSE <<>>) \o v.overload,
   def |-> [kind |-> kind, builtin |-> r.name \o v.name, signature |-> point]]

\* ConstructRVVIntrinsics: every record, legal point and variant, as the loops visit them.
PointsOf(r) == SelectSeq(Points, LAMBDA p : p \in r.points)
IntrinsicsOfRecord(kind, r) ==
  FlattenSeq([i \in DOMAIN PointsOf(r) |->
                [j \in DOMAIN Variants(r) |-> Intrinsic(kind, r, PointsOf(r)[i], Variants(r)[j])]])
IntrinsicsOf(kind) ==
  FlattenSeq([i \in DOMAIN Records[kind] |-> IntrinsicsOfRecord(kind, Records[kind][i])])

Elements(s) == {s[i] : i \in DOMAIN s}
AllIntrinsics == UNION {Elements(IntrinsicsOf(kind)) : kind \in KindSet}
Names == {x.name : x \in AllIntrinsics}
Overloads == {x.overload : x \in AllIntrinsics}
Definitions == {x.def : x \in AllIntrinsics}

\* TableGen emits no intrinsic twice.
ASSUME IntrinsicsAssumption ==
  \A kind \in KindSet :
    /\ IntrinsicsOf(kind) \in Seq(AllIntrinsics)
    /\ \A i, j \in DOMAIN IntrinsicsOf(kind) :
         IntrinsicsOf(kind)[i].def = IntrinsicsOf(kind)[j].def => i = j
    /\ \A x \in Elements(IntrinsicsOf(kind)) : x.def.kind = kind

-----------------------------------------------------------------------------
VARIABLES
  declare,       \* the Declare...Builtins flag of each kind
  constructed,   \* the Constructed...Builtins flag of each kind
  queue,         \* what ConstructRVVIntrinsics has still to create
  intrinsicList, \* IntrinsicList
  intrinsics,    \* Intrinsics: a name's index, 0 when the map has no such name
  overloads,     \* OverloadIntrinsics: an overloaded name's indexes
  scope,         \* the identifiers declared in the translation unit
  pc,            \* where the lookup is: "parse" when there is none
  lookup,        \* the identifier looked up
  answer         \* who answered it, and the declarations added to the LookupResult

tables == <<intrinsicList, intrinsics, overloads>>
vars == <<declare, constructed, queue, intrinsicList, intrinsics, overloads, scope, pc, lookup, answer>>

NoAnswer == [by |-> "none", decls |-> <<>>]

Init ==
  /\ declare = [kind \in KindSet |-> FALSE]
  /\ constructed = [kind \in KindSet |-> FALSE]
  /\ queue = <<>>
  /\ intrinsicList = <<>>
  /\ intrinsics = [n \in Names |-> 0]
  /\ overloads = [n \in Overloads |-> <<>>]
  /\ scope = {}
  /\ pc = "parse"
  /\ lookup \in Identifiers
  /\ answer = NoAnswer

\* #pragma clang riscv <command> <argument> <rest>; a malformed one warns and does nothing.
HandlePragma(command, argument, rest) ==
  /\ pc = "parse"
  /\ declare' = IF command = "intrinsic" /\ argument \in KindSet /\ rest = "eod"
                THEN [declare EXCEPT ![argument] = TRUE]
                ELSE declare
  /\ UNCHANGED <<constructed, queue, tables, scope, pc, lookup, answer>>

\* The program declares an identifier itself.
Declare(id) ==
  /\ pc = "parse"
  /\ scope' = scope \cup {id}
  /\ UNCHANGED <<declare, constructed, queue, tables, pc, lookup, answer>>

\* A name that no scope declares; LookupBuiltin serves two of the lookup kinds only.
LookupBuiltin(id, nameKind) ==
  /\ pc = "parse"
  /\ id \notin scope
  /\ lookup' = id
  /\ answer' = NoAnswer
  /\ pc' = IF nameKind \notin {"LookupOrdinaryName", "LookupRedeclarationWithLinkage"}
           THEN "parse"
           ELSE IF \E kind \in KindSet : declare[kind] THEN "init" ELSE "builtin"
  /\ UNCHANGED <<declare, constructed, queue, tables, scope>>

\* Faulty variant of Pending: the tables are built once, for the kinds declared by then.
PendingOnce(i) == declare[Kinds[i]] /\ intrinsicList = <<>>
\* InitIntrinsicList: the kinds declared and not yet constructed, in order.
Pending(i) == declare[Kinds[i]] /\ ~constructed[Kinds[i]]
ConstructRVVIntrinsics(i) ==
  /\ pc = "init" /\ queue = <<>>
  /\ Pending(i)
  /\ \A j \in 1 .. i - 1 : ~Pending(j)
  /\ constructed' = [constructed EXCEPT ![Kinds[i]] = TRUE]
  /\ queue' = IntrinsicsOf(Kinds[i])
  /\ UNCHANGED <<declare, tables, scope, pc, lookup, answer>>

\* Faulty variant of InitRVVIntrinsic: the index is one past the new element.
InitRVVIntrinsicPastEnd ==
  LET x == Head(queue)
      index == Len(intrinsicList) + 2
  IN /\ queue # <<>>
     /\ queue' = Tail(queue)
     /\ intrinsicList' = Append(intrinsicList, x.def)
     /\ intrinsics' = IF intrinsics[x.name] = 0 THEN [intrinsics EXCEPT ![x.name] = index]
                      ELSE intrinsics
     /\ overloads' = [overloads EXCEPT ![x.overload] = Append(@, index)]
     /\ UNCHANGED <<declare, constructed, scope, pc, lookup, answer>>

\* The next intrinsic goes to the end of the list and into both maps.
InitRVVIntrinsic ==
  LET x == Head(queue)
      index == Len(intrinsicList) + 1
  IN /\ queue # <<>>
     /\ queue' = Tail(queue)
     /\ intrinsicList' = Append(intrinsicList, x.def)
     /\ intrinsics' = IF intrinsics[x.name] = 0 THEN [intrinsics EXCEPT ![x.name] = index]
                      ELSE intrinsics
     /\ overloads' = [overloads EXCEPT ![x.overload] = Append(@, index)]
     /\ UNCHANGED <<declare, constructed, scope, pc, lookup, answer>>

\* CreateIntrinsicIfFound: every overload of the name, else the intrinsic of that name.
OverloadsFound == IF lookup.riscv /\ lookup.name \in Overloads THEN overloads[lookup.name] ELSE <<>>
IntrinsicFound == IF lookup.riscv /\ lookup.name \in Names THEN intrinsics[lookup.name] ELSE 0
CreateIntrinsicIfFound ==
  LET indexes == IF OverloadsFound # <<>> THEN OverloadsFound
                 ELSE IF IntrinsicFound # 0 THEN <<IntrinsicFound>> ELSE <<>>
  IN /\ pc = "init" /\ queue = <<>>
     /\ \A i \in DOMAIN Kinds : ~Pending(i)
     /\ pc' = IF indexes # <<>> THEN "answered" ELSE "builtin"
     /\ answer' = IF indexes = <<>> THEN answer
                  ELSE [by |-> IF OverloadsFound # <<>> THEN "overload" ELSE "intrinsic",
                        decls |-> [i \in DOMAIN indexes |-> intrinsicList[indexes[i]]]]
     /\ UNCHANGED <<declare, constructed, queue, tables, scope, lookup>>

\* LazilyCreateBuiltin declares the builtin in the translation unit, or fails.
CreateBuiltin ==
  /\ pc = "builtin"
  /\ pc' = "answered"
  /\ \/ /\ lookup \in Builtins /\ ~(CPlusPlus /\ lookup \in LibFunctions)
        /\ answer' = [answer EXCEPT !.by = "builtin"]
        /\ scope' = scope \cup {lookup}
     \/ UNCHANGED <<answer, scope>>
  /\ UNCHANGED <<declare, constructed, queue, tables, lookup>>

\* The caller of the lookup goes on.
Resume ==
  /\ pc = "answered"
  /\ pc' = "parse"
  /\ answer' = NoAnswer
  /\ UNCHANGED <<declare, constructed, queue, tables, scope, lookup>>

Next ==
  \/ \E command \in {"intrinsic", "other"}, argument \in KindSet \cup {"other"},
        rest \in {"eod", "token"} : HandlePragma(command, argument, rest)
  \/ \E id \in Identifiers : Declare(id)
  \/ \E id \in Identifiers,
        nameKind \in {"LookupOrdinaryName", "LookupRedeclarationWithLinkage", "LookupTagName"} :
       LookupBuiltin(id, nameKind)
  \/ \E i \in DOMAIN Kinds : ConstructRVVIntrinsics(i)
  \/ InitRVVIntrinsic
  \/ CreateIntrinsicIfFound
  \/ CreateBuiltin
  \/ Resume

Spec == Init /\ [][Next]_vars

-----------------------------------------------------------------------------
\* Type invariant: the tables hold only indexes of the list.
TypeOK ==
  /\ declare \in [KindSet -> BOOLEAN]
  /\ constructed \in [KindSet -> BOOLEAN]
  /\ queue \in Seq(AllIntrinsics)
  /\ intrinsicList \in Seq(Definitions)
  /\ intrinsics \in [Names -> 0 .. Len(intrinsicList)]
  /\ overloads \in [Overloads -> Seq(1 .. Len(intrinsicList))]
  /\ scope \subseteq Identifiers
  /\ pc \in {"parse", "init", "builtin", "answered"}
  /\ lookup \in Identifiers
  /\ answer \in [by : {"none", "overload", "intrinsic", "builtin"}, decls : Seq(Definitions)]

\* The intrinsics of the kinds whose pragma has been seen.
Declared == UNION {Elements(IntrinsicsOf(kind)) : kind \in {kd \in KindSet : declare[kd]}}

\* A lookup finds all the overloads of the name among the kinds declared so far and no other
\* intrinsic, and only without overloads the one of that exact name.
LookupComplete ==
  pc = "answered" /\ lookup.riscv =>
    LET overloaded == {x \in Declared : x.overload = lookup.name}
        exact == {x \in Declared : x.name = lookup.name}
        found == Elements(answer.decls)
    IN IF overloaded # {} THEN found = {x.def : x \in overloaded}
       ELSE IF exact # {} THEN found \subseteq {x.def : x \in exact} /\ Len(answer.decls) = 1
       ELSE found = {}

\* No overload set names one intrinsic twice: each kind is constructed once.
CandidatesDistinct ==
  \A n \in Overloads : \A i, j \in DOMAIN overloads[n] :
    intrinsicList[overloads[n][i]] = intrinsicList[overloads[n][j]] => i = j

\* Whatever order the pragmas and the earlier lookups came in, what a lookup finds depends on
\* the kinds declared so far only, and no candidate comes twice, which would make every call
\* ambiguous (InitIntrinsicList, CreateIntrinsicIfFound).
LookupExact == LookupComplete /\ CandidatesDistinct
=============================================================================
