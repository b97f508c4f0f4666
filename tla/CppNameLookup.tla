----------------------------- MODULE CppNameLookup -----------------------------
(***************************************************************************)
(* Sema::LookupParsedName and the lookups it chooses from: the walk over   *)
(* the scopes and the contexts of a program, which adds the declarations   *)
(* of a name to a LookupResult and has it resolved.  The walk searches two *)
(* structures that overlap: the declarations attached to the identifier,   *)
(* scope by scope, and the tables of the contexts, with the namespaces     *)
(* that using directives nominate.                                         *)
(***************************************************************************)
EXTENDS LookupResult

CONSTANTS
  Requests,  \* the lookups: [program, cplusplus, specifier, kind, redeclaration, hideTags,
             \* builtins (whether they may be created)]
  NoContext

\* A program as one point of it sees it.  scopes: from the inside out, [kind, entity, decls
\* (the identifier's, latest first), usings (of a block)].  contexts: [kind, parent, decls,
\* usings, paths (to the bases that declare the name: [base, number, decls]), dependent].
\* builtin: the declaration LookupBuiltin creates, if any.
FileKinds == {"tu", "namespace"}
LocalKinds == {"block", "function", "template"}
NoScope == {"none", "invalid", "incomplete", "dependent"}
FilesOf(p) == {c \in DOMAIN p.contexts : p.contexts[c].kind \in FileKinds}
IsSeq(s) == s \in Seq(Range(s))

\* Around a namespace scope there are only such scopes and those of linkage specifications,
\* which hold no declaration of their own, up to that of the translation unit.
ASSUME ScopesAssumption ==
  \A r \in Requests :
    LET p == r.program
        last == p.scopes[Len(p.scopes)]
    IN /\ IsSeq(p.scopes) /\ p.scopes # <<>>
       /\ last.kind = "file" /\ p.contexts[last.entity].kind = "tu"
       /\ \A i \in DOMAIN p.scopes :
            LET S == p.scopes[i]
            IN /\ S.entity \in DOMAIN p.contexts \cup {NoContext}
               /\ S.decls \in Lists /\ S.usings \in Seq(FilesOf(p))
               /\ S.kind = "linkage" => S.decls = <<>>
               /\ S.kind = "file" =>
                    /\ S.entity \in FilesOf(p)
                    /\ Range(S.decls) \subseteq Range(p.contexts[S.entity].decls)
                    /\ \A j \in DOMAIN p.scopes : j > i =>
                         p.scopes[j].kind \in {"file", "linkage"} /\ p.scopes[j].entity # S.entity
\* The contexts form a tree, with the translation unit at its root.
ASSUME ContextsAssumption ==
  \A r \in Requests :
    LET p == r.program
        contexts == DOMAIN p.contexts
    IN /\ contexts \cap ({NoContext} \cup NoScope) = {}
       /\ \A S \in SUBSET contexts : S # {} => \E c \in S : p.contexts[c].parent \notin S
       /\ \A c, d \in contexts : p.contexts[c].kind = "tu" /\ p.contexts[d].kind = "tu" => c = d
       /\ \A c \in contexts :
            LET C == p.contexts[c]
            IN /\ C.kind \in FileKinds \cup {"linkage", "function", "class"}
               /\ IF C.kind = "tu" THEN C.parent = NoContext ELSE C.parent \in contexts
               /\ C.decls \in Lists /\ C.usings \in Seq(FilesOf(p)) /\ IsInjective(C.usings)
               /\ IsSeq(C.paths) /\ \A k \in DOMAIN C.paths : C.paths[k].decls \in Lists
       /\ p.builtin \in Lists /\ \A d \in Range(p.builtin) : Declared[d].kind = "function"
\* A lookup of a redeclaration with linkage is for a redeclaration.
ASSUME RequestsAssumption ==
  \A r \in Requests :
    /\ r.specifier \in NoScope \cup DOMAIN r.program.contexts
    /\ r.kind = "LookupRedeclarationWithLinkage" => r.redeclaration
    /\ {r.cplusplus, r.redeclaration, r.hideTags, r.builtins} \subseteq BOOLEAN

\* Where the declarations of a tag are, and of what hides it (what shares its DeclContext). A
\* tag of a context is next to what hides it in the table of the context, and found with it; so
\* are those of a base class, and those of a scope as far as both are declared in it (a namespace
\* may be opened more than once, and its scope has only what the current opening declares). A
\* builtin hides only what the translation unit declares. A redeclaration with linkage, which
\* is looked up in all the blocks around it and passes over what has no linkage, asks for more:
\* the scope of a namespace has what hides a tag of it, a tag of a block is hidden by what the
\* same function declares without linkage, and one with linkage by something with linkage.
Tables(p) ==
  {p.contexts[c].decls : c \in DOMAIN p.contexts}
    \cup {p.scopes[i].decls : i \in {j \in DOMAIN p.scopes : p.scopes[j].kind \notin LocalKinds \cup {"file"}}}
ContextLists(p) ==
  Tables(p) \cup {p.scopes[i].decls : i \in {j \in DOMAIN p.scopes : p.scopes[j].kind = "file"}}
ListsOf(p) == ContextLists(p) \cup {p.scopes[i].decls : i \in DOMAIN p.scopes}
IsTag(d) == Declared[d].kind = "tag"
Hider(e, d) == Hides(Declared[e], Declared[d])
Free(d) == Declared[d].linkage \/ Declared[d].templateParam
Near(s, j, i) ==
  Hider(s[j], s[i]) /\ \A k \in j .. i : Declared[s[k]].context = Declared[s[i]].context
ASSUME TagsAssumption ==
  \A r \in Requests :
    LET p == r.program
        tu == UNION {Range(p.contexts[c].decls) :
                       c \in {x \in DOMAIN p.contexts : p.contexts[x].kind = "tu"}}
        redeclares == r.kind = "LookupRedeclarationWithLinkage"
        whole == IF redeclares THEN ContextLists(p) ELSE Tables(p)
    IN /\ \A s \in ListsOf(p) : \A i \in {k \in DOMAIN s : IsTag(s[k])} :
            /\ \A t \in ListsOf(p) : \A e \in Range(t) :
                 Hider(e, s[i]) /\ (s \in whole \/ t = s) =>
                   \E j \in DOMAIN s :
                     /\ Near(s, j, i) /\ Declared[e].idns \subseteq Declared[s[j]].idns
                     /\ redeclares /\ Free(s[i]) => Free(s[j])
            /\ redeclares /\ s \notin whole =>
                 /\ ~Free(s[i])
                 /\ \A t \in ListsOf(p) : \A e \in Range(t) :
                      Hider(e, s[i]) => t \notin whole /\ ~Free(e)
            /\ \A e \in Range(p.builtin) : Hider(e, s[i]) => s[i] \in tu
       /\ \A i \in DOMAIN p.scopes : p.scopes[i].kind # "file" =>
            \A d \in Range(p.scopes[i].decls) : IsTag(d) => \A e \in Range(p.builtin) : ~Hider(e, d)
       /\ \A c \in DOMAIN p.contexts :
            LET paths == p.contexts[c].paths
            IN \A k, m \in DOMAIN paths :
                 LET s == paths[k].decls
                 IN \A i \in {n \in DOMAIN s : IsTag(s[n])} : \A e \in Range(paths[m].decls) :
                      Hider(e, s[i]) =>
                        /\ paths[m].decls = s
                        /\ \E j \in DOMAIN s : Near(s, j, i) /\ Declared[e].idns \subseteq Declared[s[j]].idns

VARIABLES
  walk,        \* what the walk does next
  answer,      \* the value returned
  scope, ctx,  \* S and Ctx
  here,        \* Found: the current scope or context has a declaration
  shadowed, namingClass, localExtern,
  udirs,       \* UDirs: the nominated namespaces with their common ancestors
  begun, visits, \* whether UDirs is filled, the contexts and directives still to visit
  queue, visited, \* the namespaces to expand, and those met
  enclosed,    \* while a namespace is resolved on its own: the result it is added to
  foundTags    \* FoundTag and FoundNonTag

position == <<scope, ctx, here>>
marks == <<shadowed, namingClass, localExtern>>
directives == <<udirs, begun, visits, queue, visited>>
nested == <<enclosed, foundTags>>
walking == <<walk, answer, position, marks, directives, nested>>
scanning == <<lookup, pc, next, removed, unique2, flags>>
vars == <<resolution, walking>>

P == lookup.program
Contexts == DOMAIN P.contexts
Unqualified == lookup.specifier = "none"
Idle == pc = "done"
Visited == begun /\ visits = <<>>

Init ==
  /\ lookup \in Requests /\ Empty
  /\ walk = "start" /\ answer = FALSE
  /\ scope = 1 /\ ctx = NoContext /\ here = FALSE
  /\ shadowed = FALSE /\ namingClass = NoContext /\ localExtern = FALSE
  /\ udirs = <<>> /\ begun = FALSE /\ visits = <<>> /\ queue = <<>> /\ visited = {}
  /\ enclosed = <<>> /\ foundTags = {}

-----------------------------------------------------------------------------
(***************************************************************************)
(* What a lookup accepts, and where it looks.                              *)
(***************************************************************************)
\* getIDNS: the identifier namespaces a kind of lookup accepts.
OrdinaryKinds == {"LookupOrdinaryName", "LookupRedeclarationWithLinkage", "LookupLocalFriendName",
                  "LookupDestructorName", "LookupObjCImplicitSelfParam"}
getIDNS(nameKind, cplusplus, redeclaration) ==
  CASE nameKind \in OrdinaryKinds ->
         {"Ordinary"} \cup (IF cplusplus THEN {"Tag", "Member", "Namespace"} ELSE {})
           \cup (IF cplusplus /\ redeclaration THEN {"TagFriend", "OrdinaryFriend"} ELSE {})
           \cup (IF redeclaration THEN {"LocalExtern"} ELSE {})
    [] nameKind = "LookupOperatorName" -> {"NonMemberOperator"}
    [] nameKind = "LookupTagName" ->
         IF ~cplusplus THEN {"Tag"}
         ELSE {"Type"} \cup (IF redeclaration THEN {"Tag", "TagFriend", "Namespace"} ELSE {})
    [] nameKind = "LookupLabel" -> {"Label"}
    [] nameKind = "LookupMemberName" ->
         {"Member"} \cup (IF cplusplus THEN {"Tag", "Ordinary"} ELSE {})
    [] nameKind = "LookupNestedNameSpecifierName" -> {"Type", "Namespace"}
    [] nameKind = "LookupNamespaceName" -> {"Namespace"}
    [] nameKind = "LookupUsingDeclName" ->
         {"Ordinary", "Tag", "Member", "Using", "TagFriend", "OrdinaryFriend", "LocalExtern"}
    [] nameKind = "LookupObjCProtocolName" -> {"ObjCProtocol"}
    [] nameKind = "LookupOMPReductionName" -> {"OMPReduction"}
    [] nameKind = "LookupOMPMapperName" -> {"OMPMapper"}
    [] nameKind = "LookupAnyName" ->
         {"Ordinary", "Tag", "Member", "Using", "Namespace", "ObjCProtocol", "Type"}

Asked == getIDNS(lookup.kind, lookup.cplusplus, lookup.redeclaration)
IDNS == IF localExtern THEN Asked \cup {"LocalExtern"} ELSE Asked
Accepted(d, namespaces) == Declared[d].idns \cap namespaces # {}
\* Lists joined to one, and what is kept of a list, as functions.
Joined(lists) ==
  LET upTo[k \in 0 .. Len(lists)] == IF k = 0 THEN <<>> ELSE upTo[k - 1] \o lists[k]
  IN upTo[Len(lists)]
Kept(s, keep) == Joined([i \in DOMAIN s |-> IF i \in keep THEN <<s[i]>> ELSE <<>>])
Accepting(s) == {i \in DOMAIN s : Accepted(s[i], IDNS)}
Acceptable(s) == Kept(s, Accepting(s))
WithLinkage == lookup.kind = "LookupRedeclarationWithLinkage"

\* FindLocalExternScope: declarations local to a block are found in it.
LocalExternToo == Asked \cap {"Ordinary", "NonMemberOperator"} # {}

IsFile(c) == P.contexts[c].kind \in FileKinds
Parent(c) == P.contexts[c].parent
IsFileScope(i) == P.scopes[i].kind = "file"
Enclosing(c) ==
  LET up[x \in Contexts \cup {NoContext}] == IF x = NoContext THEN {} ELSE {x} \cup up[Parent(x)]
  IN up[c]
Innermost(cs) == CHOOSE c \in cs : \A d \in cs : d \in Enclosing(c)

\* findOuterContext.
OuterContext(i) ==
  LET outer == {j \in i + 1 .. Len(P.scopes) : P.scopes[j].entity # NoContext}
  IN IF outer = {} THEN NoContext ELSE P.scopes[Min(outer)].entity

\* LookupBuiltin, for the kinds of lookup that create builtins.
BuiltinDecl ==
  IF lookup.kind \in {"LookupOrdinaryName", "LookupRedeclarationWithLinkage"}
  THEN P.builtin ELSE <<>>
\* LookupDirect: the translation unit offers a builtin for want of a declaration.
DirectDecls(c) ==
  LET direct == Acceptable(P.contexts[c].decls)
  IN IF direct = <<>> /\ P.contexts[c].kind = "tu" THEN BuiltinDecl ELSE direct

\* Faulty variant of CommonAncestor: the names appear where the directive is.
CommonAncestorHere(nominated, effective) == effective
\* addUsingDirective: the names of a namespace appear in the innermost namespace around it
\* and the directive.
CommonAncestor(nominated, effective) ==
  Innermost({c \in Enclosing(nominated) \cap Enclosing(effective) : IsFile(c)})
\* CppNamespaceLookup: the table of the context, and those of the namespaces that appear in
\* it, in the order they were visited in (the sort is stable).
NamespaceDecls(c) ==
  DirectDecls(c) \o Joined([k \in DOMAIN udirs |->
                              IF udirs[k].ancestor = c THEN DirectDecls(udirs[k].nominated) ELSE <<>>])

-----------------------------------------------------------------------------
(***************************************************************************)
(* Returning.                                                              *)
(***************************************************************************)
Answer(b) == walk' = "returned" /\ answer' = b
Resolve == pc' = "begin" /\ UNCHANGED <<lookup, next, removed, unique2, flags>>
ResolveAndReturn == Resolve /\ Answer(TRUE)
\* A qualified lookup that is part of an unqualified one fails: the walk goes on.
QualifiedFails ==
  IF Unqualified
  THEN walk' = "context" /\ ctx' = Parent(ctx) /\ UNCHANGED <<answer, scope, here>>
  ELSE Answer(FALSE) /\ UNCHANGED position

\* LookupParsedName: an invalid or incomplete scope specifier, one that is dependent, a
\* context, or none.
Start ==
  /\ walk = "start"
  /\ CASE lookup.specifier \in {"invalid", "incomplete", "dependent"} ->
            Answer(FALSE) /\ UNCHANGED <<ctx, localExtern>>
       [] Unqualified ->
            /\ walk' = IF lookup.cplusplus THEN "scope" ELSE "lexical"
            /\ localExtern' = LocalExternToo
            /\ UNCHANGED <<answer, ctx>>
       [] OTHER ->
            walk' = "qualified" /\ ctx' = lookup.specifier /\ UNCHANGED <<answer, localExtern>>
  /\ kind' = IF lookup.specifier = "dependent" THEN "NotFoundInCurrentInstantiation" ELSE kind
  /\ UNCHANGED <<scanning, found, decls, resolved, scope, here, shadowed, namingClass,
                 directives, nested>>

\* The end of LookupName: nothing is found but a builtin, which may be created.
LookupFails ==
  /\ walk = "failed"
  /\ LET builtin == IF lookup.builtins THEN BuiltinDecl ELSE <<>>
     IN addDecls(builtin) /\ Answer(builtin # <<>>)
  /\ UNCHANGED <<scanning, position, marks, directives, nested>>
Fails == walk' = "failed" /\ UNCHANGED answer
-----------------------------------------------------------------------------
(***************************************************************************)
(* CppLookupName: from the innermost scope to the first one of a namespace.*)
(***************************************************************************)
\* A redeclaration with linkage passes over what is outside the starting scope and has none.
Taken(s) ==
  IF WithLinkage /\ scope # 1 THEN Kept(s, {i \in DOMAIN s : Free(s[i])}) ELSE s
InScope == walk = "scope" /\ Idle /\ ~IsFileScope(scope)
LocalDecls == Acceptable(P.scopes[scope].decls)
LocalStops ==
  \E i \in DOMAIN LocalDecls : ~WithLinkage \/ Declared[LocalDecls[i]].templateParam

LocalFound ==
  /\ InScope /\ LocalStops
  /\ addDecls(Taken(LocalDecls))
  /\ shadowed' = (shadowed \/ Taken(LocalDecls) # LocalDecls)
  /\ namingClass' = IF P.scopes[scope].kind = "class" THEN P.scopes[scope].entity ELSE namingClass
  /\ pc' = "begin" /\ Answer(TRUE)
  /\ UNCHANGED <<lookup, next, removed, unique2, flags, position, localExtern, directives, nested>>

\* A friend of a local class is looked up no further than the scope around the class.
FriendScope == lookup.kind = "LookupLocalFriendName" /\ P.scopes[scope].kind # "class"
LocalPassed ==
  /\ InScope /\ ~LocalStops
  /\ addDecls(Taken(LocalDecls))
  /\ shadowed' = (shadowed \/ Taken(LocalDecls) # LocalDecls)
  /\ IF FriendScope
     THEN Fails /\ UNCHANGED ctx
     ELSE walk' = "context" /\ ctx' = P.scopes[scope].entity /\ UNCHANGED answer
  /\ UNCHANGED <<scanning, scope, here, namingClass, localExtern, directives, nested>>

\* The contexts of the scope, up to that of the next scope that has one.
ContextsEnd ==
  /\ walk = "context"
  /\ ctx \in {NoContext, OuterContext(scope)}
  /\ walk' = "scope" /\ scope' = scope + 1
  /\ UNCHANGED <<resolution, answer, ctx, here, marks, directives, nested>>
InContext == walk = "context" /\ ctx \notin {NoContext, OuterContext(scope)}

\* A transparent context, or a function, whose names are in the scopes.
SkipContext ==
  /\ InContext /\ P.contexts[ctx].kind \in {"linkage", "function"}
  /\ ctx' = Parent(ctx)
  /\ UNCHANGED <<resolution, walk, answer, scope, here, marks, directives, nested>>

\* A class: a qualified lookup.
ClassContext ==
  /\ InContext /\ P.contexts[ctx].kind = "class"
  /\ walk' = "qualified"
  /\ UNCHANGED <<resolution, answer, position, marks, directives, nested>>

\* A namespace, around a function that is defined outside of it.
NamespaceContext ==
  /\ InContext /\ IsFile(ctx) /\ Visited
  /\ here' = (NamespaceDecls(ctx) # <<>>)
  /\ addDecls(NamespaceDecls(ctx))
  /\ pc' = "begin" /\ walk' = "looked"
  /\ UNCHANGED <<lookup, next, removed, unique2, flags, answer, scope, ctx, marks, directives, nested>>
NamespaceLooked ==
  /\ walk = "looked" /\ Idle
  /\ IF here THEN ResolveAndReturn /\ UNCHANGED ctx
     ELSE walk' = "context" /\ ctx' = Parent(ctx) /\ UNCHANGED <<answer, scanning>>
  /\ UNCHANGED <<result, resolved, scope, here, marks, directives, nested>>

-----------------------------------------------------------------------------
(***************************************************************************)
(* UnqualUsingDirectiveSet: the using directives that are in force.        *)
(***************************************************************************)
ToVisit(c, directive, effective) == [ns |-> c, directive |-> directive, effective |-> effective]
FileScopes == {i \in scope .. Len(P.scopes) : IsFileScope(i)}
InnermostFile == P.scopes[Min(FileScopes)].entity

\* Around a context that is no scope's: the contexts from it outwards.
ContextVisits ==
  LET chain[c \in Contexts \cup {NoContext}] ==
        IF c = NoContext THEN <<>>
        ELSE (IF P.contexts[c].kind = "linkage" THEN <<>> ELSE <<ToVisit(c, FALSE, c)>>)
               \o chain[Parent(c)]
  IN chain[ctx]
\* visitScopeChain: namespaces as they are, the directives of blocks and functions as if in
\* the innermost namespace scope.
ScopeVisits ==
  Joined([i \in DOMAIN P.scopes |->
            LET S == P.scopes[i]
            IN IF S.kind = "file" THEN <<ToVisit(S.entity, FALSE, S.entity)>>
               ELSE [k \in DOMAIN S.usings |-> ToVisit(S.usings[k], TRUE, InnermostFile)]])

\* The namespaces that a namespace nominates and that are not yet met.
Unvisited(c, met) ==
  LET s == P.contexts[c].usings IN Kept(s, {k \in DOMAIN s : s[k] \notin visited \cup met})

BeginVisits ==
  /\ ~begun /\ begun' = TRUE
  /\ \/ InContext /\ IsFile(ctx) /\ visits' = ContextVisits \o ScopeVisits
     \/ walk = "namespaces" /\ visits' = ScopeVisits
  /\ UNCHANGED <<resolution, walk, answer, position, marks, udirs, queue, visited, nested>>

\* visit: a context or a directive, the first time its namespace is met.
Visit ==
  /\ visits # <<>> /\ queue = <<>>
  /\ LET v == Head(visits)
     IN IF v.ns \in visited
        THEN visits' = Tail(visits) /\ UNCHANGED <<udirs, queue, visited>>
        ELSE /\ visited' = visited \cup {v.ns}
             /\ udirs' = IF v.directive
                         THEN Append(udirs, [nominated |-> v.ns,
                                             ancestor |-> CommonAncestor(v.ns, v.effective)])
                         ELSE udirs
             /\ queue' = <<v.ns>>
             /\ UNCHANGED visits
  /\ UNCHANGED <<resolution, walk, answer, position, marks, begun, nested>>

\* addUsingDirectives: the directives of a namespace count as those of the effective context.
Expand ==
  /\ visits # <<>> /\ queue # <<>>
  /\ LET effective == Head(visits).effective
         new == Unvisited(queue[Len(queue)], {})
     IN /\ udirs' = udirs \o [k \in DOMAIN new |->
                               [nominated |-> new[k], ancestor |-> CommonAncestor(new[k], effective)]]
        /\ visited' = visited \cup Range(new)
        /\ queue' = SubSeq(queue, 1, Len(queue) - 1) \o new
        /\ visits' = IF queue' = <<>> THEN Tail(visits) ELSE visits
  /\ UNCHANGED <<resolution, walk, answer, position, marks, begun, nested>>

-----------------------------------------------------------------------------
(***************************************************************************)
(* CppLookupName: the namespaces around it, innermost first.  (A template  *)
(* parameter scope cannot enclose a namespace: its case is never met here.)*)
(***************************************************************************)
ReachNamespaces ==
  /\ walk = "scope" /\ scope \in DOMAIN P.scopes /\ IsFileScope(scope)
  /\ IF lookup.kind = "LookupMemberName"
     THEN Fails /\ UNCHANGED localExtern
     ELSE /\ walk' = "namespaces" /\ UNCHANGED answer
          /\ localExtern' = (localExtern /\ lookup.redeclaration)
  /\ UNCHANGED <<resolution, position, shadowed, namingClass, directives, nested>>

\* The declarations of the identifier in the scope, then its contexts.
NamespaceScope ==
  /\ walk = "namespaces" /\ Visited /\ scope \in DOMAIN P.scopes
  /\ addDecls(LocalDecls)
  /\ here' = (LocalDecls # <<>>)
  /\ ctx' = P.scopes[scope].entity
  /\ walk' = "namespaceContext"
  /\ UNCHANGED <<scanning, answer, scope, marks, directives, nested>>

InNamespace == walk = "namespaceContext" /\ ctx \notin {NoContext, OuterContext(scope)}
SkipTransparent ==
  /\ InNamespace /\ P.contexts[ctx].kind = "linkage"
  /\ ctx' = Parent(ctx)
  /\ UNCHANGED <<resolution, walk, answer, scope, here, marks, directives, nested>>
LookInNamespace ==
  /\ InNamespace /\ IsFile(ctx)
  /\ addDecls(NamespaceDecls(ctx))
  /\ here' = (here \/ NamespaceDecls(ctx) # <<>>)
  /\ pc' = "begin" /\ walk' = "namespaceLooked"
  /\ UNCHANGED <<lookup, next, removed, unique2, flags, answer, scope, ctx, marks, directives, nested>>

\* Faulty variant of AfterNamespace: a redeclaration is looked up in the outer namespaces too.
AfterNamespaceOutwards ==
  IF here THEN ResolveAndReturn /\ UNCHANGED ctx
  ELSE walk' = "namespaceContext" /\ ctx' = Parent(ctx) /\ UNCHANGED <<scanning, answer>>
\* Something found is resolved once more; a redeclaration is of this namespace or new.
AfterNamespace ==
  CASE here -> ResolveAndReturn /\ UNCHANGED ctx
    [] ~here /\ lookup.redeclaration -> Fails /\ UNCHANGED <<ctx, scanning>>
    [] OTHER -> walk' = "namespaceContext" /\ ctx' = Parent(ctx) /\ UNCHANGED <<scanning, answer>>
LeaveNamespace ==
  /\ walk = "namespaceLooked" /\ Idle
  /\ AfterNamespace
  /\ UNCHANGED <<result, resolved, scope, here, marks, directives, nested>>

NamespaceContextsEnd ==
  /\ walk = "namespaceContext" /\ ctx \in {NoContext, OuterContext(scope)}
  /\ walk' = "namespaces" /\ scope' = scope + 1
  /\ UNCHANGED <<resolution, answer, ctx, here, marks, directives, nested>>
NamespacesEnd ==
  /\ walk = "namespaces" /\ scope \notin DOMAIN P.scopes
  /\ IF decls # <<>> THEN Answer(TRUE) ELSE Fails
  /\ UNCHANGED <<resolution, position, marks, directives, nested>>

-----------------------------------------------------------------------------
(***************************************************************************)
(* LookupQualifiedName.                                                    *)
(***************************************************************************)
InQualified == walk = "qualified" /\ Idle
IsClass(c) == P.contexts[c].kind = "class"
QualifiedDirect ==
  /\ InQualified /\ DirectDecls(ctx) # <<>>
  /\ addDecls(DirectDecls(ctx))
  /\ namingClass' = IF IsClass(ctx) THEN ctx ELSE namingClass
  /\ pc' = "begin" /\ Answer(TRUE)
  /\ UNCHANGED <<lookup, next, removed, unique2, flags, position, shadowed, localExtern,
                 directives, nested>>
NotDirect == InQualified /\ DirectDecls(ctx) = <<>>

\* No implied contexts for a redeclaration; no bases for some kinds of lookup, nor for
\* what is no class.  A dependent base may declare the name.
NeverInBases == {"LookupOperatorName", "LookupNamespaceName", "LookupObjCProtocolName", "LookupLabel"}
InBases == IsClass(ctx) /\ ~lookup.redeclaration /\ lookup.kind \notin NeverInBases
Postponed == InBases /\ ~Unqualified /\ P.contexts[ctx].dependent
NoImplied ==
  /\ NotDirect
  /\ lookup.redeclaration \/ Postponed \/ (~IsFile(ctx) /\ ~InBases)
  /\ kind' = IF Postponed THEN "NotFoundInCurrentInstantiation" ELSE kind
  /\ QualifiedFails
  /\ UNCHANGED <<scanning, found, decls, resolved, marks, directives, nested>>

\* A path as BaseCallback leaves it: from the first declaration accepted on.
PathDecls(p) == SubSeq(p.decls, Min(Accepting(p.decls)), Len(p.decls))
Paths == LET s == P.contexts[ctx].paths IN Kept(s, {k \in DOMAIN s : Accepting(s[k].decls) # {}})
HasOnlyStaticMembers(p) == \A k \in Accepting(p.decls) : Declared[p.decls[k]].static
HasSameDeclarations(p, q) ==
  LET members(r) == {IF Declared[r.decls[k]].kind \in Types
                     THEN Declared[r.decls[k]].type ELSE Declared[r.decls[k]].entity :
                       k \in Accepting(r.decls)}
  IN members(p) = members(q)
\* The paths after the first, each compared with the first alone.
Verdicts(p, q) ==
  CASE p.base # q.base /\ ~(HasOnlyStaticMembers(q) /\ HasSameDeclarations(p, q)) ->
         {"AmbiguousBaseSubobjectTypes"}
    [] p.base = q.base /\ p.number # q.number /\ ~HasOnlyStaticMembers(q) ->
         {"AmbiguousBaseSubobjects"}
    [] OTHER -> {}
\* Faulty variant of Clashes: neighbours on the list of paths are compared.
ClashesOfNeighbours == {k \in 3 .. Len(Paths) : Verdicts(Paths[k - 1], Paths[k]) # {}}
Clashes == {k \in 2 .. Len(Paths) : Verdicts(Paths[1], Paths[k]) # {}}
InBaseClasses == NotDirect /\ InBases /\ ~Postponed
NoBases ==
  /\ InBaseClasses /\ Paths = <<>>
  /\ QualifiedFails
  /\ UNCHANGED <<result, scanning, resolved, marks, directives, nested>>
FoundInBases ==
  /\ InBaseClasses /\ Paths # <<>> /\ Clashes = {}
  /\ addDecls(Acceptable(Paths[1].decls))
  /\ namingClass' = ctx
  /\ pc' = "begin" /\ Answer(TRUE)
  /\ UNCHANGED <<lookup, next, removed, unique2, flags, position, shadowed, localExtern,
                 directives, nested>>
\* setAmbiguousBaseSubobjects and its twin: the declarations of all paths are added, and
\* the kind is set after they are resolved.
ClashInBases ==
  /\ InBaseClasses /\ Clashes # {}
  /\ addDecls(Joined([k \in DOMAIN Paths |-> PathDecls(Paths[k])]))
  /\ namingClass' = ctx
  /\ pc' = "begin" /\ walk' = "clash"
  /\ UNCHANGED <<lookup, next, removed, unique2, flags, answer, position, shadowed, localExtern,
                 directives, nested>>
SetAmbiguous ==
  /\ walk = "clash" /\ Idle
  /\ kind' \in Verdicts(Paths[1], Paths[Min(Clashes)])
  /\ Answer(TRUE)
  /\ UNCHANGED <<scanning, found, decls, resolved, position, marks, directives, nested>>

-----------------------------------------------------------------------------
(***************************************************************************)
(* LookupQualifiedNameInUsingDirectives.                                   *)
(***************************************************************************)
Nominated(c) == Unvisited(c, {c})
EnterDirectives ==
  /\ NotDirect /\ IsFile(ctx) /\ ~lookup.redeclaration
  /\ queue' = Nominated(ctx)
  /\ visited' = visited \cup {ctx} \cup Range(queue')
  /\ walk' = "directives"
  /\ UNCHANGED <<resolution, answer, position, marks, udirs, begun, visits, nested>>

InDirectives == walk = "directives" /\ Idle /\ queue # <<>>
Popped == SubSeq(queue, 1, Len(queue) - 1)
\* A namespace with nothing of its own stands for those it nominates.
PassNamespace ==
  LET n == queue[Len(queue)]
  IN /\ InDirectives /\ DirectDecls(n) = <<>>
     /\ queue' = Popped \o Nominated(n)
     /\ visited' = visited \cup Range(queue')
     /\ UNCHANGED <<resolution, walk, answer, position, marks, udirs, begun, visits, nested>>
\* Faulty variant of FindInNamespace: all that is found is put into the same result.
FindInNamespaceTogether ==
  LET direct == DirectDecls(queue[Len(queue)])
  IN /\ InDirectives /\ direct # <<>>
     /\ queue' = Popped
     /\ addDecls(direct)
     /\ pc' = "begin" /\ walk' = "directiveLooked"
     /\ UNCHANGED <<lookup, next, removed, unique2, flags, answer, position, marks,
                    udirs, begun, visits, visited, nested>>
\* The first find is resolved in place, the others on their own and then added.
FindInNamespace ==
  LET direct == DirectDecls(queue[Len(queue)])
  IN /\ InDirectives /\ direct # <<>>
     /\ queue' = Popped
     /\ enclosed' = IF decls = <<>> THEN <<>> ELSE <<[found |-> found, decls |-> decls]>>
     /\ decls' = direct /\ kind' = "Found" /\ resolved' = FALSE
     /\ found' = direct
     /\ pc' = "begin" /\ walk' = "directiveLooked"
     /\ UNCHANGED <<lookup, next, removed, unique2, flags, answer, position, marks,
                    udirs, begun, visits, visited, foundTags>>
IsSingleTag == kind = "Found" /\ Found(1).kind = "tag"
AddNamespace ==
  /\ walk = "directiveLooked" /\ Idle
  /\ foundTags' = foundTags \cup {IsSingleTag}
  /\ IF enclosed = <<>> THEN UNCHANGED <<result, resolved>>
     ELSE /\ found' = enclosed[1].found \o found /\ decls' = enclosed[1].decls \o decls
          /\ kind' = "Found" /\ resolved' = FALSE
  /\ enclosed' = <<>>
  /\ walk' = "directives"
  /\ UNCHANGED <<scanning, answer, position, marks, directives>>

TagsMixed == foundTags = BOOLEAN
DirectivesEnd ==
  /\ walk = "directives" /\ Idle /\ queue = <<>>
  /\ CASE foundTags = {} -> Answer(FALSE) /\ UNCHANGED <<kind, scanning>>
       [] TagsMixed       -> kind' = "AmbiguousTagHiding" /\ Answer(TRUE) /\ UNCHANGED scanning
       [] OTHER           -> ResolveAndReturn /\ UNCHANGED kind
  /\ UNCHANGED <<found, decls, resolved, position, marks, directives, nested>>

-----------------------------------------------------------------------------
(***************************************************************************)
(* LookupName in C: the identifier's declarations, scope by scope.         *)
(***************************************************************************)
\* The declarations of a scope from the first one taken on: that one may need linkage, those
\* after it are taken as they are.
TakenFrom(i) ==
  LET s == Acceptable(P.scopes[i].decls)
      first == {k \in DOMAIN s : ~WithLinkage \/ i = 1 \/ Declared[s[k]].linkage}
  IN IF first = {} THEN <<>> ELSE SubSeq(s, Min(first), Len(s))
Lexical ==
  LET holders == {i \in DOMAIN P.scopes : TakenFrom(i) # <<>>}
      last == IF holders = {} THEN Len(P.scopes) ELSE Min(holders)
  IN /\ walk = "lexical"
     /\ shadowed' = \E i \in 1 .. last : TakenFrom(i) # Acceptable(P.scopes[i].decls)
     /\ IF holders = {}
        THEN Fails /\ UNCHANGED <<result, resolved, pc>>
        ELSE addDecls(TakenFrom(last)) /\ pc' = "begin" /\ Answer(TRUE)
     /\ UNCHANGED <<lookup, next, removed, unique2, flags, position, namingClass, localExtern,
                    directives, nested>>

Next ==
  \/ resolveKind /\ UNCHANGED walking
  \/ Start \/ LookupFails \/ Lexical
  \/ LocalFound \/ LocalPassed \/ ContextsEnd \/ SkipContext \/ ClassContext
  \/ NamespaceContext \/ NamespaceLooked
  \/ BeginVisits \/ Visit \/ Expand
  \/ ReachNamespaces \/ NamespaceScope \/ SkipTransparent \/ LookInNamespace \/ LeaveNamespace
  \/ NamespaceContextsEnd \/ NamespacesEnd
  \/ QualifiedDirect \/ NoImplied \/ NoBases \/ FoundInBases \/ ClashInBases \/ SetAmbiguous
  \/ EnterDirectives \/ PassNamespace \/ FindInNamespace \/ AddNamespace \/ DirectivesEnd
Spec == Init /\ [][Next]_vars

-----------------------------------------------------------------------------
Returned == walk = "returned" /\ Idle

\* Type invariant.
TypeOK ==
  /\ ResultOK
  /\ walk \in {"start", "scope", "context", "looked", "namespaces", "namespaceContext",
              "namespaceLooked", "qualified", "clash", "directives", "directiveLooked",
              "lexical", "failed", "returned"}
  /\ scope \in 1 .. Len(P.scopes) + 1 /\ {ctx, namingClass} \subseteq Contexts \cup {NoContext}
  /\ {answer, here, shadowed, localExtern, begun} \subseteq BOOLEAN
  /\ \A k \in DOMAIN udirs : IsFile(udirs[k].nominated) /\ IsFile(udirs[k].ancestor)
  /\ Range(queue) \subseteq visited /\ visited \subseteq Contexts
  /\ Len(enclosed) <= 1 /\ foundTags \subseteq BOOLEAN

(***************************************************************************)
(* The reference: the program as a list of regions, the innermost first.   *)
(***************************************************************************)
Names(s, namespaces) == {d \in Range(s) : Accepted(d, namespaces)}
Extern == IF LocalExternToo THEN Asked \cup {"LocalExtern"} ELSE Asked

\* The directives in force, each with the namespace that encloses it: those of the blocks
\* and of the namespaces around, and the directives of nominated namespaces as well.
Around == UNION {Enclosing(P.scopes[i].entity) : i \in DOMAIN P.scopes}
InForce ==
  LET blocks == UNION {Range(P.scopes[i].usings) : i \in DOMAIN P.scopes}
      files == {i \in DOMAIN P.scopes : IsFileScope(i)}
      given == {<<P.scopes[Min(files)].entity, n>> : n \in blocks}
                 \cup UNION {{<<c, n>> : n \in Range(P.contexts[c].usings)} : c \in Around \cap
                             {f \in Contexts : IsFile(f)}}
      closed[n \in 0 .. Cardinality(Contexts)] ==
        IF n = 0 THEN given
        ELSE LET before == closed[n - 1]
             IN before \cup UNION {{<<p[1], m>> : m \in Range(P.contexts[p[2]].usings)} : p \in before}
  IN closed[Cardinality(Contexts)]
\* "The nearest enclosing namespace which contains both."
AppearsIn(n, e, c) ==
  /\ IsFile(c) /\ {n, e} \subseteq {x \in Contexts : c \in Enclosing(x)}
  /\ \A d \in Enclosing(n) \cap Enclosing(e) : IsFile(d) => d \in Enclosing(c)
NamespaceNames(c, namespaces, directed) ==
  LET own(n) == Names(P.contexts[n].decls, namespaces)
      direct == IF own(c) = {} /\ P.contexts[c].kind = "tu" THEN Range(BuiltinDecl) ELSE own(c)
  IN direct \cup UNION {own(p[2]) : p \in {q \in directed : AppearsIn(q[2], q[1], c)}}
\* A class: its members, or those of all its bases.
ClassNames(c, namespaces) ==
  LET own == Names(P.contexts[c].decls, namespaces)
      paths == P.contexts[c].paths
  IN IF own # {} THEN own ELSE UNION {Names(paths[k].decls, namespaces) : k \in DOMAIN paths}
\* The regions: a scope, or a context that the lookup goes through on behalf of it.
Regions ==
  UNION {{<<i, c>> : c \in {NoContext} \cup (Enclosing(P.scopes[i].entity) \ Enclosing(OuterContext(i)))} :
           i \in DOMAIN P.scopes}
Within(r, s) ==
  \/ r[1] < s[1]
  \/ r[1] = s[1] /\ (r[2] = NoContext \/ s[2] \in Enclosing(r[2]))
\* Only the scopes of a function offer what is declared extern in them: a namespace or a class
\* has the names that are asked for.
RegionNames(r, directed) ==
  LET inScope == r[2] = NoContext
  IN IF inScope
     THEN IF lookup.cplusplus /\ IsFileScope(r[1]) THEN {} ELSE Names(P.scopes[r[1]].decls, Extern)
     ELSE IF ~lookup.cplusplus \/ (IsFileScope(r[1]) /\ lookup.kind = "LookupMemberName") THEN {}
     ELSE CASE IsFile(r[2])  -> NamespaceNames(r[2], Asked, directed)
            [] IsClass(r[2]) -> ClassNames(r[2], Asked)
            [] OTHER         -> {}
Entities(ds) == {Declared[d].entity : d \in ds}

\* A namespace around a function that is defined outside of it is reached before any region that
\* has the name, and blocks of other functions have declared it extern there.  "If we're not
\* performing redeclaration lookup, do not look for local extern declarations outside of a function
\* scope", says the code, but it drops LocalExtern only after this namespace has been looked in.
ExternOutOfLine(directed) ==
  \E r \in Regions :
    /\ r[2] # NoContext /\ IsFile(r[2]) /\ ~IsFileScope(r[1])
    /\ NamespaceNames(r[2], Extern, directed) # NamespaceNames(r[2], Asked, directed)
    /\ \A s \in Regions : RegionNames(s, directed) # {} => Within(r, s)

\* An unqualified lookup finds the declarations of the innermost region that has any, where
\* the names of a nominated namespace appear in the nearest namespace around it and the
\* directive, and none of another region (CppLookupName, UnqualUsingDirectiveSet, which
\* visits each namespace once, and the C lookup).  Left out are lookups in which the code finds
\* another function's local extern, against its own comment (ExternOutOfLine).
UnqualifiedExact ==
  Returned /\ Unqualified /\ ~lookup.redeclaration /\ ~ExternOutOfLine(InForce) =>
    LET expected ==
          LET directed == InForce
              full == {r \in Regions : RegionNames(r, directed) # {}}
          IN IF full # {} THEN RegionNames(CHOOSE r \in full : \A s \in full : Within(r, s), directed)
             ELSE IF lookup.builtins THEN Range(BuiltinDecl) ELSE {}
    IN /\ Entities(Range(found)) = Entities(expected)
       /\ answer <=> expected # {}

\* Two subobjects clash, whichever comes first: members of different base types that are
\* not the same static ones, or non-static members of two subobjects of one type.
Static(p) == \A d \in Names(p.decls, IDNS) : Declared[d].static
SubobjectsClash(p, q) ==
  IF p.base = q.base THEN p.number # q.number /\ ~Static(p)
  ELSE ~(Static(p) /\ Static(q) /\ Entities(Names(p.decls, IDNS)) = Entities(Names(q.decls, IDNS)))

\* The namespaces a qualified lookup reaches: through those that have no declaration.
Reached(c) ==
  LET step(ns) == ns \cup UNION {Range(P.contexts[n].usings) :
                                 n \in {m \in ns : Names(P.contexts[m].decls, IDNS) = {}}}
      closed[k \in 0 .. Cardinality(Contexts)] == IF k = 0 THEN {c} ELSE step(closed[k - 1])
  IN closed[Cardinality(Contexts)]
OwnResult(n) ==
  LET own == {Declared[d] : d \in Names(P.contexts[n].decls, IDNS)}
      valid == {d \in own : ~d.invalid}
      hidden == {d \in valid : lookup.hideTags /\ d.kind = "tag"
                                /\ \E e \in valid : canHideTag(e) /\ e.context = d.context}
  IN IF valid = {} THEN own ELSE valid \ hidden
OnlyTag(n) == Cardinality(OwnResult(n)) = 1 /\ \A d \in OwnResult(n) : d.kind = "tag"

\* A qualified lookup in a namespace finds what the namespaces reached through empty ones
\* declare, whatever cycles the directives form, and mixes no tag of one with something
\* else of another; a lookup in a class is ambiguous exactly when some two subobjects clash,
\* in whatever order the paths to them come (LookupQualifiedName and the lookup in its
\* using directives, which compare and remember one thing at a time).
QualifiedExact ==
  Returned /\ lookup.specifier \in Contexts /\ ~lookup.redeclaration =>
    LET c == lookup.specifier
        own == Names(P.contexts[c].decls, IDNS)
        holders == {n \in Reached(c) : OwnResult(n) # {}}
        paths == Range(Paths)
    IN /\ IsFile(c) =>
            /\ own # {} => Range(found) = own
            /\ own = {} /\ (BuiltinDecl = <<>> \/ P.contexts[c].kind # "tu") =>
                 /\ Range(found) = UNION {Names(P.contexts[n].decls, IDNS) : n \in holders}
                 /\ kind = "AmbiguousTagHiding" <=>
                      \E n, m \in holders : OnlyTag(n) /\ ~OnlyTag(m)
       /\ IsClass(c) /\ own = {} /\ InBases /\ ~Postponed =>
            /\ kind \in Subobjects <=> \E p, q \in paths : SubobjectsClash(p, q)
            /\ answer <=> paths # {}
            /\ answer => namingClass = c

\* A lookup for a redeclaration, in a function defined in its namespace, finds nothing
\* beyond that namespace, and outside the starting scope nothing local without linkage;
\* what it passed over, it reports (the loops of CppLookupName that add without stopping).
RedeclarationConfined ==
  Returned /\ Unqualified /\ lookup.redeclaration /\ lookup.cplusplus =>
    LET file == Min({i \in DOMAIN P.scopes : IsFileScope(i)})
        home == P.scopes[file].entity
        inner == UNION {Names(P.scopes[i].decls, Extern) : i \in 1 .. file - 1}
        member == UNION {ClassNames(c, Extern) : c \in {x \in Around : IsClass(x)}}
        free(d) == Declared[d].linkage \/ Declared[d].templateParam
        passed == UNION {{d \in Names(P.scopes[i].decls, Extern) : ~free(d)} : i \in 2 .. file - 1}
    IN (\A i \in 1 .. file - 1 : P.scopes[i].entity # NoContext =>
          \A c \in Enclosing(P.scopes[i].entity) : IsFile(c) => c \in Enclosing(home))
       => /\ Range(found) \subseteq inner \cup member \cup NamespaceNames(home, Asked, InForce)
                                        \cup (IF lookup.builtins THEN Range(BuiltinDecl) ELSE {})
          /\ WithLinkage => Range(found) \cap passed \subseteq Range(P.scopes[1].decls)
          /\ shadowed => passed # {}
=============================================================================
