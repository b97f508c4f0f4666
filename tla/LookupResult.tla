----------------------------- MODULE LookupResult ------------------------------
(***************************************************************************)
(* LookupResult::resolveKind: the declarations that a name lookup has      *)
(* collected, in whatever order it met them, are reduced to one for each   *)
(* entity and the result is classified.  The scan looks at one declaration *)
(* at a time and keeps a few flags, while hiding, redeclaration and        *)
(* ambiguity are questions about the whole set.  CppNameLookup is the      *)
(* lookup that adds the declarations and calls resolveKind, often twice.   *)
(***************************************************************************)
EXTENDS Integers, Sequences, FiniteSets, FiniteSetsExt

CONSTANT Declared  \* the declarations: what each of them declares

\* A declaration: its canonical entity, what it declares, its canonical type (types only),
\* its scope, whether it is invalid or visible, its place in the redeclaration chain, the
\* arguments it requires (functions and templates), its parameters with a visible default
\* (templates), whether it is a variable (objects, which fields and enumerators are too) and of
\* complete type, whether it is a using shadow or a placeholder variable, the group of equivalent internal-linkage
\* declarations of different modules it belongs to (0 for none); for the walk, the
\* identifier namespaces it is in, whether it has linkage, is a template parameter or needs
\* an object (isCXXInstanceMember).
Types == {"tag", "typedef"}
Functions == {"function", "template"}
References == {"AmbiguousReference", "AmbiguousPlaceholder"}
Subobjects == {"AmbiguousBaseSubobjects", "AmbiguousBaseSubobjectTypes"}
Ambiguities == References \cup Subobjects \cup {"AmbiguousTagHiding"}
Kinds == Types \cup Functions \cup {"object", "unresolved", "namespace"}
ASSUME DeclaredAssumption ==
  \A d, e \in DOMAIN Declared :
    /\ Declared[d].kind \in Kinds /\ Declared[d].rank \in Nat /\ Declared[d].args \in Nat
    /\ Declared[d].entity = Declared[e].entity =>
         /\ Declared[d].kind = Declared[e].kind /\ Declared[d].type = Declared[e].type
         /\ Declared[d].invalid = Declared[e].invalid /\ Declared[d].group = Declared[e].group

VARIABLES
  lookup,     \* the lookup: among others its kind and the HideTags option
  found,      \* what was added to the result so far, in order
  decls,      \* Decls
  kind,       \* ResultKind, with the kind of ambiguity
  pc,         \* "begin", "scan", "remove" or "done"
  resolved,   \* nothing was added since the last call of resolveKind
  next,       \* the next declaration to look at
  removed,    \* RemovedDecls
  uniqueTypes, unique, \* the indexes that stand for a type or an entity
  seen,       \* the flags HasTag, HasFunction, HasFunctionTemplate, HasUnresolved that are set
  nonFunction, \* HasNonFunction: the last such declaration, or none
  ambiguous, placeholder

result == <<found, decls, kind>>
unique2 == <<uniqueTypes, unique>>
flags == <<seen, nonFunction, ambiguous, placeholder>>
resolution == <<lookup, result, pc, resolved, next, removed, unique2, flags>>

\* An empty result, and addDecl: the kind becomes Found, whatever is added after.
Empty ==
  /\ found = <<>> /\ decls = <<>> /\ kind = "NotFound"
  /\ pc = "done" /\ resolved = FALSE
  /\ next = 1 /\ removed = {} /\ uniqueTypes = {} /\ unique = {}
  /\ seen = {} /\ nonFunction = {} /\ ambiguous = FALSE /\ placeholder = FALSE
addDecls(s) ==
  /\ found' = found \o s /\ decls' = decls \o s
  /\ kind' = IF s = <<>> THEN kind ELSE "Found"
  /\ resolved' = (resolved /\ s = <<>>)

-----------------------------------------------------------------------------
\* isPreferredLookupResult: d is to stand for the entity instead of e.
WantTag == lookup.kind \in {"LookupTagName", "LookupDestructorName"}
Preferred(d, e) ==
  \/ lookup.kind = "LookupUsingDeclName" /\ d.shadow /\ ~e.shadow
  \/ d.entity # e.entity /\ (e.kind = "tag") # WantTag
  \/ /\ d.entity = e.entity
     /\ IF d.kind \in Functions /\ d.args # e.args THEN d.args < e.args
        ELSE CASE d.kind = "function" -> d.rank > e.rank
               [] d.kind = "template" -> d.defaults \ e.defaults # {} \/ ~e.visible
               [] d.kind = "object" /\ d.variable -> ~e.complete /\ d.complete /\ d.visible
               [] OTHER -> ~e.visible

canHideTag(d) == d.kind \in {"object", "unresolved"} \cup Functions

\* The declaration looked at, and what becomes of it: the first that applies.
Found(i) == Declared[decls[i]]
Current == Found(next)
Looking == pc = "scan" /\ next \in DOMAIN decls
IsInvalid == Current.invalid /\ Len(decls) - Cardinality(removed) > 1
IsHidden ==
  /\ lookup.hideTags /\ Current.kind = "tag"
  /\ \E j \in DOMAIN decls :
       canHideTag(Found(j)) /\ ~Found(j).invalid /\ Found(j).context = Current.context

\* The index that stands for its type or entity already: at most one.
Existing ==
  LET sameType == {j \in uniqueTypes : Current.kind \in Types /\ Found(j).type = Current.type}
  IN IF sameType # {} THEN sameType ELSE {j \in unique : Found(j).entity = Current.entity}

IsNonFunction == Current.kind \in {"typedef", "object", "namespace"}
IsEquivalent == IsNonFunction /\ \E d \in nonFunction : d.group # 0 /\ d.group = Current.group

-----------------------------------------------------------------------------
(***************************************************************************)
(* resolveKind.                                                            *)
(***************************************************************************)
Return(k) == pc' = "done" /\ resolved' = TRUE /\ kind' = k

\* No or one declaration, or known to be ambiguous.
FastKind ==
  CASE Len(decls) = 1 /\ Found(1).kind = "template"   -> "FoundOverloaded"
    [] Len(decls) = 1 /\ Found(1).kind = "unresolved" -> "FoundUnresolvedValue"
    [] OTHER                                          -> kind
FastCase ==
  /\ pc = "begin"
  /\ Len(decls) <= 1 \/ kind \in Ambiguities
  /\ Return(FastKind)
  /\ UNCHANGED <<lookup, found, decls, next, removed, unique2, flags>>

\* Faulty variant of BeginScan: the scan starts before the first declaration.
BeginScanAtZero ==
  /\ pc = "begin"
  /\ Len(decls) > 1 /\ kind \notin Ambiguities
  /\ pc' = "scan"
  /\ next' = 0 /\ removed' = {} /\ uniqueTypes' = {} /\ unique' = {}
  /\ seen' = {} /\ nonFunction' = {} /\ ambiguous' = FALSE /\ placeholder' = FALSE
  /\ UNCHANGED <<lookup, result, resolved>>
BeginScan ==
  /\ pc = "begin"
  /\ Len(decls) > 1 /\ kind \notin Ambiguities
  /\ pc' = "scan"
  /\ next' = 1 /\ removed' = {} /\ uniqueTypes' = {} /\ unique' = {}
  /\ seen' = {} /\ nonFunction' = {} /\ ambiguous' = FALSE /\ placeholder' = FALSE
  /\ UNCHANGED <<lookup, result, resolved>>

\* An invalid declaration, unless it is the only one left, or a tag that is hidden.  (An
\* HLSL buffer, which the code treats as invalid, is one of the invalid declarations.)
RemoveCurrent ==
  /\ Looking /\ (IsInvalid \/ IsHidden)
  /\ removed' = removed \cup {next}
  /\ next' = next + 1
  /\ UNCHANGED <<lookup, result, pc, resolved, unique2, flags>>

\* A type or an entity met before: the better of the two stays.
Merge ==
  /\ Looking /\ ~IsInvalid /\ ~IsHidden
  /\ \E j \in Existing :
       decls' = IF Preferred(Current, Found(j)) THEN [decls EXCEPT ![j] = decls[next]] ELSE decls
  /\ removed' = removed \cup {next}
  /\ next' = next + 1
  /\ UNCHANGED <<lookup, found, kind, pc, resolved, unique2, flags>>

Classify ==
  /\ Looking /\ ~IsInvalid /\ ~IsHidden /\ Existing = {}
  /\ unique' = unique \cup {next}
  /\ uniqueTypes' = IF Current.kind \in Types THEN uniqueTypes \cup {next} ELSE uniqueTypes
  /\ IF IsEquivalent
     THEN removed' = removed \cup {next} /\ UNCHANGED flags
     ELSE /\ seen' = IF IsNonFunction THEN seen ELSE seen \cup {Current.kind}
          /\ nonFunction' = IF IsNonFunction THEN {Current} ELSE nonFunction
          /\ ambiguous' = (ambiguous \/ (Current.kind = "tag" /\ "tag" \in seen)
                                     \/ (IsNonFunction /\ nonFunction # {}))
          /\ placeholder' =
               (placeholder \/ (IsNonFunction /\ nonFunction # {} /\ Current.placeholder))
          /\ UNCHANGED removed
  /\ next' = next + 1
  /\ UNCHANGED <<lookup, result, pc, resolved>>

EndScan ==
  /\ pc = "scan" /\ next \notin DOMAIN decls
  /\ pc' = "remove"
  /\ UNCHANGED <<lookup, result, resolved, next, removed, unique2, flags>>

\* Faulty variant of Remove: the holes are filled from the front.
RemoveFromFront ==
  /\ pc = "remove" /\ removed # {}
  /\ decls' = SubSeq([decls EXCEPT ![Min(removed)] = decls[Len(decls)]], 1, Len(decls) - 1)
  /\ removed' = removed \ {Min(removed)}
  /\ UNCHANGED <<lookup, found, kind, pc, resolved, next, unique2, flags>>
\* The holes are filled from the end, the last hole first.
Remove ==
  /\ pc = "remove" /\ removed # {}
  /\ decls' = SubSeq([decls EXCEPT ![Max(removed)] = decls[Len(decls)]], 1, Len(decls) - 1)
  /\ removed' = removed \ {Max(removed)}
  /\ UNCHANGED <<lookup, found, kind, pc, resolved, next, unique2, flags>>

HasFunction == seen \cap Functions # {}
\* Faulty variant of IsAmbiguous: a tag of another scope is taken to be hidden.
IsAmbiguousNoTags == ambiguous \/ (nonFunction # {} /\ (HasFunction \/ "unresolved" \in seen))
IsAmbiguous ==
  \/ ambiguous
  \/ nonFunction # {} /\ (HasFunction \/ "unresolved" \in seen)
  \/ lookup.hideTags /\ "tag" \in seen /\ (HasFunction \/ nonFunction # {} \/ "unresolved" \in seen)
\* Faulty variant of Decision: functions do not overload, only templates do.
DecisionTemplatesOnly ==
  IF IsAmbiguous THEN IF placeholder THEN "AmbiguousPlaceholder" ELSE "AmbiguousReference"
  ELSE IF "unresolved" \in seen THEN "FoundUnresolvedValue"
  ELSE IF "template" \in seen THEN "FoundOverloaded"
  ELSE "Found"
Decision ==
  IF IsAmbiguous THEN IF placeholder THEN "AmbiguousPlaceholder" ELSE "AmbiguousReference"
  ELSE IF "unresolved" \in seen THEN "FoundUnresolvedValue"
  ELSE IF Len(decls) > 1 \/ "template" \in seen THEN "FoundOverloaded"
  ELSE "Found"
Decide ==
  /\ pc = "remove" /\ removed = {}
  /\ Return(Decision)
  /\ UNCHANGED <<lookup, found, decls, next, removed, unique2, flags>>

resolveKind == FastCase \/ BeginScan \/ RemoveCurrent \/ Merge \/ Classify \/ EndScan
               \/ Remove \/ Decide

-----------------------------------------------------------------------------
Resolved == pc = "done" /\ resolved

\* The part of the type invariant that concerns a result.
ResultOK ==
  /\ found \in Seq(DOMAIN Declared) /\ decls \in Seq(DOMAIN Declared)
  /\ kind \in {"NotFound", "NotFoundInCurrentInstantiation", "Found", "FoundOverloaded",
              "FoundUnresolvedValue"} \cup Ambiguities
  /\ pc \in {"begin", "scan", "remove", "done"}
  /\ pc \in {"scan", "remove"} =>
       /\ next \in 1 .. Len(found) + 1
       /\ removed \cup uniqueTypes \cup unique \subseteq 1 .. Len(found)
  /\ seen \subseteq Kinds
  /\ resolved \in BOOLEAN /\ ambiguous \in BOOLEAN /\ placeholder \in BOOLEAN

(***************************************************************************)
(* What the scan is to find, in terms of the set of declarations.          *)
(***************************************************************************)
Same(d, e) == d.entity = e.entity \/ (d.kind \in Types /\ e.kind \in Types /\ d.type = e.type)
ValidIn(s) == {d \in {Declared[s[i]] : i \in DOMAIN s} : ~d.invalid}
Hides(e, d) == canHideTag(e) /\ ~e.invalid /\ e.context = d.context
HiddenIn(d, s) == lookup.hideTags /\ d.kind = "tag" /\ \E e \in ValidIn(s) : Hides(e, d)
VisibleIn(s) == {d \in ValidIn(s) : ~HiddenIn(d, s)}
NoEquivalentsIn(s) == \A i \in DOMAIN s : Declared[s[i]].group = 0
Valid == ValidIn(found)
Visible == VisibleIn(found)
NoEquivalents == NoEquivalentsIn(found)

\* Of the declarations of a function, the better one needs fewer arguments or is newer.
AsGood(d, e) == d.args < e.args \/ (d.args = e.args /\ d.rank >= e.rank)

(***************************************************************************)
(* What the lookups may do with a result between two calls of resolveKind: *)
(* the rest of this module is right for every caller that keeps to it.     *)
(***************************************************************************)
\* A list that was resolved says of the declarations it comes from all that matters.
StandsFor(d, e) ==
  /\ ~d.invalid /\ Same(d, e)
  /\ lookup.kind # "LookupUsingDeclName" /\ e.kind = "function" => AsGood(d, e)
Represents(s, all) ==
  /\ Len(s) <= Len(all) /\ \A i \in DOMAIN s : \E k \in DOMAIN all : s[i] = all[k]
  /\ NoEquivalentsIn(all) =>
       \A d \in VisibleIn(all) :
         \E i \in DOMAIN s : StandsFor(Declared[s[i]], d) /\ ~HiddenIn(Declared[s[i]], all)

\* A tag is collected together with what hides it: a redeclaration of another context, which
\* may take the place of the other, does not come between them.
HidersClose ==
  \A i \in DOMAIN decls :
    HiddenIn(Found(i), found) =>
      \E j \in DOMAIN decls :
        Hides(Found(j), Found(i)) /\ \A k \in j .. i : Found(k).context = Found(i).context

\* What is added to a result hides no tag that was there, nor the other way round, unless the
\* tag came with something that hides it.
Apart(s, all, t, more) ==
  /\ \A i \in DOMAIN s : HiddenIn(Declared[s[i]], more) => HiddenIn(Declared[s[i]], all)
  /\ \A i \in DOMAIN t : HiddenIn(Declared[t[i]], all) => HiddenIn(Declared[t[i]], more)

Lists == Seq(DOMAIN Declared)
\* More declarations; any, as long as the scan has left those that are there as they came.
Collect ==
  LET s == SubSeq(found', Len(found) + 1, Len(found'))
  IN s \in Lists /\ addDecls(s) /\ (decls = found \/ Apart(decls, found, s, s))
\* A result of its own, and its return into the one it is a part of.
Begin ==
  /\ found' \in Lists \ {<<>>} /\ decls' = found' /\ kind' = "Found" /\ resolved' = FALSE
Join ==
  LET all == SubSeq(found', 1, Len(found') - Len(found))
      s == SubSeq(decls', 1, Len(decls') - Len(decls))
  IN /\ {all, s} \subseteq Lists \ {<<>>} /\ Represents(s, all) /\ Apart(s, all, decls, found)
     /\ decls # <<>>
     /\ found' = all \o found /\ decls' = s \o decls /\ kind' = "Found" /\ resolved' = FALSE
\* An ambiguity or a failure that the lookup itself has found.
Conclude ==
  /\ \/ kind' = kind
     \/ kind' = "NotFoundInCurrentInstantiation" /\ found = <<>> /\ decls = <<>>
     \/ kind' \in Subobjects /\ decls # <<>> /\ resolved
     \/ kind' = "AmbiguousTagHiding" /\ Len(decls) > 1 /\ ~resolved
  /\ UNCHANGED <<found, decls, resolved>>
Use ==
  /\ pc = "done" /\ pc' \in {"done", "begin"}
  /\ Collect \/ Begin \/ Join \/ Conclude
  /\ pc' = "begin" => HidersClose' /\ kind' \notin Subobjects \cup {"AmbiguousTagHiding"}
  /\ UNCHANGED <<lookup, next, removed, unique2, flags>>

\* Every lookup uses its result so: it resolves what it collected, has its tags and what
\* hides them next to one another, joins a result to one that stands for all that was added
\* to it, and names an ambiguity of its own only at the end (LookupName, LookupQualifiedName,
\* LookupQualifiedNameInUsingDirectives).
ResultSpec == Empty /\ [][resolveKind \/ Use]_resolution

\* When some declaration is valid, the result is one declaration for each entity that is
\* not hidden, and none twice, in whatever order the scopes were searched (the scan, the
\* removal from the end and the replacement of declarations in place); a function is
\* represented by the declaration that needs the fewest arguments, and among those by the
\* newest (isPreferredLookupResult).
EntitiesKept ==
  Resolved /\ Valid # {} /\ NoEquivalents =>
    LET visible == Visible
    IN /\ \A d \in visible : \E i \in DOMAIN decls : Same(Found(i), d)
       /\ \A i \in DOMAIN decls :
            /\ Found(i) \in visible
            /\ \A j \in DOMAIN decls : Same(Found(i), Found(j)) => i = j
            /\ lookup.kind # "LookupUsingDeclName" /\ Found(i).kind = "function" =>
                 \A d \in visible : d.entity = Found(i).entity => AsGood(Found(i), d)

\* The classification fits the declarations that are left (checkDebugAssumptions), and a
\* lookup that hides tags is an ambiguous reference exactly when two entities that are
\* visible do not overload: the flags of the scan, which forget what they were set for, say
\* the same as the set (resolveKind).
AmbiguityExact ==
  Resolved =>
    /\ kind = "NotFound" => decls = <<>>
    /\ kind = "Found" => Len(decls) = 1
    /\ kind = "FoundOverloaded" =>
         Len(decls) > 1 \/ (Len(decls) = 1 /\ Found(1).kind = "template")
    /\ kind \in Ambiguities => Len(decls) > 1 \/ (kind \in Subobjects /\ Len(decls) = 1)
    /\ lookup.hideTags /\ Valid # {} /\ NoEquivalents /\ kind \notin Subobjects =>
         (kind \in References <=>
            LET visible == Visible
            IN \E d, e \in visible :
                 ~Same(d, e) /\ ~({d.kind, e.kind} \subseteq Functions \cup {"unresolved"}))

\* Resolving a result again does not change it (CppNamespaceLookup resolves, and so does its
\* caller): the declarations that are left say the same as all of them did.  A lookup that
\* does not hide tags is left out: its classification leans on a tag that was merged into a
\* typedef, which the second scan no longer sees.
ResolvedStable ==
  [][lookup.hideTags /\ resolved /\ pc # "done" /\ pc' = "done" => kind' = kind]_resolution
=============================================================================
