-------------------------- MODULE CppNameLookup_proofs --------------------------
(***************************************************************************)
(* Two components, one on the other.                                       *)
(*                                                                         *)
(* A result that is used as ResultSpec says is reduced and classified      *)
(* rightly, whatever the declarations are, however many of them a lookup   *)
(* collects, in whatever order, and however often it has them resolved.    *)
(* The scan is followed declaration by declaration: what stands for a      *)
(* visible one is never lost, and the flags never say less than the set.   *)
(*                                                                         *)
(* The walk over scopes, namespaces and bases uses its result as           *)
(* ResultSpec says, whatever the program is: every declaration it adds has *)
(* in the result, near it, what may hide it. What is proved of the result  *)
(* is therefore true of the walk.                                          *)
(***************************************************************************)
EXTENDS CppNameLookup, FiniteSetTheorems, TLAPS

-----------------------------------------------------------------------------
(***************************************************************************)
(* The inductive invariant.                                                *)
(***************************************************************************)
\* What is not removed, and what of it the scan has looked at.
Left == DOMAIN decls \ removed
Scanned == {i \in Left : i < next}
Scanning == pc \in {"scan", "remove"}
Overloads(d) == d.kind \in Functions \cup {"unresolved"}
Failures == {"NotFound", "NotFoundInCurrentInstantiation"}

TypeInv ==
  /\ found \in Lists /\ decls \in Lists /\ Len(decls) <= Len(found)
  /\ \A i \in DOMAIN decls : \E k \in DOMAIN found : decls[i] = found[k]
  /\ pc \in {"begin", "scan", "remove", "done"} /\ resolved \in BOOLEAN
  /\ removed \subseteq DOMAIN decls /\ (~Scanning => removed = {})
  /\ found # <<>> => decls # <<>>

\* Whatever is visible has a declaration that stands for it among those left.
Represented ==
  NoEquivalents => \A d \in Visible :
    \E i \in Left : StandsFor(Found(i), d) /\ ~HiddenIn(Found(i), found)

\* The indexes the scan keeps: of what was looked at, all but the removed are unique.
IndexesInv ==
  /\ next \in 1 .. Len(decls) + 1
  /\ removed \cup unique = 1 .. next - 1
  /\ NoEquivalents => removed \cap unique = {}
  /\ uniqueTypes = {j \in unique : Found(j).kind \in Types}
  /\ \A i, j \in unique : Same(Found(i), Found(j)) => i = j
\* Nothing is merged into, or hidden by, a declaration that is gone with all others.
Stays ==
  /\ unique # {} => Scanned # {}
  /\ unique = {} => \A j \in removed : ~(canHideTag(Found(j)) /\ ~Found(j).invalid)
\* What hides a tag is still there when the scan comes to the tag.
HidersAhead ==
  \A i \in next .. Len(decls) :
    HiddenIn(Found(i), found) =>
      \E j \in DOMAIN decls :
        /\ Hides(Found(j), Found(i))
        /\ \A k \in j .. i : k >= next => Found(k).context = Found(i).context

FlagsExact ==
  /\ \A sort \in Functions \cup {"unresolved"} :
       sort \in seen <=> \E i \in Scanned : Found(i).kind = sort
  /\ ("tag" \in seen \/ nonFunction # {}) <=> \E i \in Scanned : ~Overloads(Found(i))
  /\ (ambiguous \/ ("tag" \in seen /\ nonFunction # {})) <=>
       \E i, j \in Scanned : i # j /\ ~Overloads(Found(i)) /\ ~Overloads(Found(j))
ScannedInv ==
  /\ decls # <<>> /\ Left # {} /\ kind \notin Ambiguities
  /\ \A i, j \in Scanned : Same(Found(i), Found(j)) => i = j
  /\ \A i \in Scanned : ~HiddenIn(Found(i), found) /\ (Found(i).invalid => Left = {i})
  /\ FlagsExact
  /\ pc = "remove" => next \in Nat /\ next > Len(decls)

\* A resolved result: nothing is left to merge or to hide, and the kind says what is there.
Classified ==
  IF \E i \in DOMAIN decls : Found(i).kind = "unresolved" THEN "FoundUnresolvedValue"
  ELSE IF Len(decls) > 1 \/ \E i \in DOMAIN decls : Found(i).kind = "template" THEN "FoundOverloaded"
  ELSE "Found"
Settled ==
  /\ \A i, j \in DOMAIN decls : Same(Found(i), Found(j)) => i = j
  /\ Len(decls) > 1 => \A i \in DOMAIN decls : ~Found(i).invalid
  /\ NoEquivalents /\ Valid # {} => \A i \in DOMAIN decls : Found(i) \in Visible
  /\ kind \notin Ambiguities =>
       /\ decls # <<>> => kind = Classified
       /\ lookup.hideTags =>
            \A i, j \in DOMAIN decls : i # j => Overloads(Found(i)) /\ Overloads(Found(j))
Conflict == \E d, e \in Visible : ~Same(d, e) /\ ~(Overloads(d) /\ Overloads(e))
KindInv ==
  /\ kind \in Failures <=> decls = <<>>
  /\ kind \in Failures \cup {"Found", "FoundOverloaded", "FoundUnresolvedValue"} \cup Ambiguities
  /\ ~resolved => kind \in Failures \cup {"Found", "AmbiguousTagHiding"}
  /\ kind = "AmbiguousTagHiding" => pc = "done" /\ ~resolved /\ Len(decls) > 1
  /\ kind \in Subobjects => pc = "done" /\ resolved
  /\ kind \in References =>
       /\ Len(decls) > 1 /\ resolved
       /\ lookup.hideTags /\ NoEquivalents /\ Valid # {} => Conflict
  /\ resolved /\ (~Scanning \/ lookup.hideTags) => Settled
  /\ resolved /\ lookup.hideTags => removed = {}

ResultInv ==
  /\ TypeInv /\ Represented /\ KindInv
  /\ pc = "begin" => HidersClose
  /\ pc = "scan" => IndexesInv /\ Stays /\ HidersAhead
  /\ Scanning => ScannedInv

-----------------------------------------------------------------------------
(***************************************************************************)
(* Declarations and what holds of any two of them.                         *)
(***************************************************************************)
Decls == {Declared[d] : d \in DOMAIN Declared}

LEMMA DeclFacts ==
  ASSUME NEW d \in Decls, NEW e \in Decls
  PROVE  /\ d.kind \in Kinds /\ d.rank \in Nat /\ d.args \in Nat
         /\ d.entity = e.entity => /\ d.kind = e.kind /\ d.type = e.type
                                   /\ d.invalid = e.invalid /\ d.group = e.group
BY DeclaredAssumption DEF Decls

\* Same is an equivalence that leaves apart what is a type and what is not.
LEMMA SameFacts ==
  ASSUME NEW d \in Decls, NEW e \in Decls
  PROVE  /\ Same(d, d)
         /\ Same(d, e) => Same(e, d)
         /\ Same(d, e) => (d.kind \in Types <=> e.kind \in Types)
         /\ Same(d, e) /\ d.kind \notin Types => d.kind = e.kind /\ d.entity = e.entity
         /\ Same(d, e) => (Overloads(d) <=> Overloads(e))
         /\ Same(d, e) /\ canHideTag(d) => canHideTag(e) /\ d.invalid = e.invalid
<1>1. /\ d.kind \in Kinds /\ e.kind \in Kinds
      /\ d.entity = e.entity => d.kind = e.kind /\ d.type = e.type /\ d.invalid = e.invalid
  BY DeclFacts
<1> QED
  BY <1>1 DEF Same, Overloads, canHideTag, Types, Functions

LEMMA SameTransitive ==
  ASSUME NEW d \in Decls, NEW e \in Decls, NEW f \in Decls, Same(d, e), Same(e, f)
  PROVE  Same(d, f)
<1>1. /\ d.entity = e.entity => d.kind = e.kind /\ d.type = e.type
      /\ e.entity = f.entity => e.kind = f.kind /\ e.type = f.type
  BY DeclFacts
<1> QED BY <1>1 DEF Same

\* What stands for a declaration stands for those it stands for.
LEMMA StandsForTransitive ==
  ASSUME NEW d \in Decls, NEW e \in Decls, NEW f \in Decls, StandsFor(d, e), StandsFor(e, f)
  PROVE  StandsFor(d, f)
<1>1. Same(d, f)
  BY SameTransitive DEF StandsFor
<1>2. f.kind = "function" => e.kind = "function"
  <2>1. Same(f, e)
    BY SameFacts DEF StandsFor
  <2> QED BY <2>1, SameFacts DEF Types
<1>3. \A g \in {d, e, f} : g.args \in Nat /\ g.rank \in Nat
  BY DeclFacts
<1> QED BY <1>1, <1>2, <1>3 DEF StandsFor, AsGood

\* Of two declarations that are the same, the one that resolveKind keeps stands for both.
LEMMA KeptStands ==
  ASSUME NEW d \in Decls, NEW e \in Decls, Same(d, e), ~d.invalid, ~e.invalid
  PROVE  /\ Preferred(d, e) => StandsFor(d, e)
         /\ ~Preferred(d, e) => StandsFor(e, d)
         /\ StandsFor(d, d)
<1>1. d.args \in Nat /\ e.args \in Nat /\ d.rank \in Nat /\ e.rank \in Nat
  BY DeclFacts
<1>2. Same(e, d) /\ Same(d, d)
  BY SameFacts
<1>3. d.kind = "function" \/ e.kind = "function" =>
        d.kind = "function" /\ e.kind = "function" /\ d.entity = e.entity
  BY <1>2, SameFacts DEF Types
<1>4. CASE lookup.kind = "LookupUsingDeclName" \/ (d.kind # "function" /\ e.kind # "function")
  BY <1>2, <1>4 DEF StandsFor
<1>5. CASE lookup.kind # "LookupUsingDeclName" /\ d.kind = "function" /\ e.kind = "function"
  <2>1. d.entity = e.entity
    BY <1>3, <1>5
  <2>2. Preferred(d, e) <=> IF d.args # e.args THEN d.args < e.args ELSE d.rank > e.rank
    BY <1>5, <2>1 DEF Preferred, Functions
  <2>3. /\ Preferred(d, e) => AsGood(d, e)
        /\ ~Preferred(d, e) => AsGood(e, d)
        /\ AsGood(d, d)
    BY <1>1, <2>2 DEF AsGood
  <2> QED BY <1>2, <2>3 DEF StandsFor
<1> QED BY <1>3, <1>4, <1>5

LEMMA FoundIn ==
  ASSUME decls \in Lists
  PROVE  /\ Len(decls) \in Nat /\ DOMAIN decls = 1 .. Len(decls)
         /\ \A i \in DOMAIN decls : decls[i] \in DOMAIN Declared /\ Found(i) \in Decls
BY DEF Lists, Found, Decls

LEMMA VisibleFacts ==
  ASSUME NEW s \in Lists
  PROVE  /\ ValidIn(s) \subseteq Decls /\ VisibleIn(s) \subseteq ValidIn(s)
         /\ \A d \in ValidIn(s) : ~d.invalid
         /\ \A e \in ValidIn(s) : canHideTag(e) => e \in VisibleIn(s)
         /\ ValidIn(s) # {} => VisibleIn(s) # {}
<1>1. ValidIn(s) \subseteq Decls /\ \A d \in ValidIn(s) : ~d.invalid
  BY DEF ValidIn, Decls, Lists
<1>2. VisibleIn(s) \subseteq ValidIn(s)
  BY DEF VisibleIn
<1>3. ASSUME NEW e \in ValidIn(s), canHideTag(e) PROVE e \in VisibleIn(s)
  <2>1. e.kind # "tag"
    BY <1>3 DEF canHideTag, Functions
  <2> QED BY <2>1 DEF VisibleIn, HiddenIn
<1>4. ASSUME ValidIn(s) # {} PROVE VisibleIn(s) # {}
  <2>1. PICK d \in ValidIn(s) : TRUE
    BY <1>4
  <2>2. CASE HiddenIn(d, s)
    <3>1. PICK e \in ValidIn(s) : Hides(e, d)
      BY <2>2 DEF HiddenIn
    <3> QED BY <1>3, <3>1 DEF Hides
  <2>3. CASE ~HiddenIn(d, s)
    BY <2>3 DEF VisibleIn
  <2> QED BY <2>2, <2>3
<1> QED BY <1>1, <1>2, <1>3, <1>4

\* More declarations make no more visible.
LEMMA VisibleOfBoth ==
  ASSUME NEW s \in Lists, NEW t \in Lists
  PROVE  /\ s \o t \in Lists
         /\ ValidIn(s \o t) = ValidIn(s) \cup ValidIn(t)
         /\ VisibleIn(s \o t) \subseteq VisibleIn(s) \cup VisibleIn(t)
         /\ NoEquivalentsIn(s \o t) <=> NoEquivalentsIn(s) /\ NoEquivalentsIn(t)
         /\ \A d : HiddenIn(d, s \o t) <=> HiddenIn(d, s) \/ HiddenIn(d, t)
<1>1. /\ s \o t \in Lists /\ DOMAIN (s \o t) = 1 .. Len(s) + Len(t)
      /\ Len(s) \in Nat /\ Len(t) \in Nat /\ DOMAIN s = 1 .. Len(s) /\ DOMAIN t = 1 .. Len(t)
      /\ \A i \in 1 .. Len(s) + Len(t) : (s \o t)[i] = IF i <= Len(s) THEN s[i] ELSE t[i - Len(s)]
  BY DEF Lists
<1>2. \A i \in DOMAIN s : i \in DOMAIN (s \o t) /\ (s \o t)[i] = s[i]
  BY <1>1
<1>3. \A i \in DOMAIN t : i + Len(s) \in DOMAIN (s \o t) /\ (s \o t)[i + Len(s)] = t[i]
  BY <1>1
<1>4. \A i \in DOMAIN (s \o t) :
        \/ i \in DOMAIN s /\ (s \o t)[i] = s[i]
        \/ i - Len(s) \in DOMAIN t /\ (s \o t)[i] = t[i - Len(s)]
  BY <1>1
<1> DEFINE u == s \o t
<1> HIDE DEF u
<1>5. ValidIn(u) = ValidIn(s) \cup ValidIn(t)
  <2>1. ASSUME NEW d \in ValidIn(u) PROVE d \in ValidIn(s) \cup ValidIn(t)
    <3>1. PICK i \in DOMAIN u : d = Declared[u[i]] /\ ~d.invalid
      BY DEF ValidIn
    <3> QED BY <1>4, <3>1 DEF ValidIn, u
  <2>2. ASSUME NEW d \in ValidIn(s) PROVE d \in ValidIn(u)
    <3>1. PICK i \in DOMAIN s : d = Declared[s[i]] /\ ~d.invalid
      BY DEF ValidIn
    <3> QED BY <1>2, <3>1 DEF ValidIn, u
  <2>3. ASSUME NEW d \in ValidIn(t) PROVE d \in ValidIn(u)
    <3>1. PICK i \in DOMAIN t : d = Declared[t[i]] /\ ~d.invalid
      BY DEF ValidIn
    <3> QED BY <1>3, <3>1 DEF ValidIn, u
  <2> QED BY <2>1, <2>2, <2>3
<1>6. NoEquivalentsIn(u) <=> NoEquivalentsIn(s) /\ NoEquivalentsIn(t)
  <2>1. ASSUME NoEquivalentsIn(u) PROVE NoEquivalentsIn(s) /\ NoEquivalentsIn(t)
    BY <1>2, <1>3, <2>1 DEF NoEquivalentsIn, u
  <2>2. ASSUME NoEquivalentsIn(s), NoEquivalentsIn(t) PROVE NoEquivalentsIn(u)
    BY <1>4, <2>2 DEF NoEquivalentsIn, u
  <2> QED BY <2>1, <2>2
<1>7. \A d : HiddenIn(d, u) <=> HiddenIn(d, s) \/ HiddenIn(d, t)
  BY <1>5 DEF HiddenIn
<1>8. VisibleIn(u) \subseteq VisibleIn(s) \cup VisibleIn(t)
  BY <1>5, <1>7 DEF VisibleIn
<1> QED BY <1>1, <1>5, <1>6, <1>7, <1>8 DEF u

LEMMA AllUnchanged ==
  ASSUME UNCHANGED lookup
  PROVE  /\ \A d, s : HiddenIn(d, s)' <=> HiddenIn(d, s)
         /\ \A s : VisibleIn(s)' = VisibleIn(s) /\ ValidIn(s)' = ValidIn(s)
         /\ \A d, e : StandsFor(d, e)' <=> StandsFor(d, e)
         /\ \A s, t : Represents(s, t)' <=> Represents(s, t)
         /\ \A s : NoEquivalentsIn(s)' <=> NoEquivalentsIn(s)
<1>1. \A s : ValidIn(s)' = ValidIn(s)
  BY DEF ValidIn
<1>2. \A d, s : HiddenIn(d, s)' <=> HiddenIn(d, s)
  BY <1>1 DEF HiddenIn, Hides
<1>3. \A s : VisibleIn(s)' = VisibleIn(s)
  BY <1>1, <1>2 DEF VisibleIn
<1>4. \A d, e : StandsFor(d, e)' <=> StandsFor(d, e)
  BY DEF StandsFor
<1>5. \A s : NoEquivalentsIn(s)' <=> NoEquivalentsIn(s)
  BY DEF NoEquivalentsIn
<1> QED BY <1>1, <1>2, <1>3, <1>4, <1>5 DEF Represents

-----------------------------------------------------------------------------
(***************************************************************************)
(* What the callers do.                                                    *)
(***************************************************************************)
LEMMA RepresentsItself ==
  ASSUME NEW s \in Lists
  PROVE  Represents(s, s)
<1>1. Len(s) \in Nat
  BY DEF Lists
<1>2. ASSUME NEW d \in VisibleIn(s)
      PROVE \E i \in DOMAIN s : StandsFor(Declared[s[i]], d) /\ ~HiddenIn(Declared[s[i]], s)
  <2>1. d \in Decls /\ d \in ValidIn(s) /\ ~d.invalid /\ ~HiddenIn(d, s)
    BY VisibleFacts DEF VisibleIn
  <2>2. StandsFor(d, d)
    BY <2>1, KeptStands, SameFacts
  <2> QED BY <2>1, <2>2 DEF ValidIn
<1> QED BY <1>1, <1>2 DEF Represents

LEMMA RepresentsBoth ==
  ASSUME NEW s \in Lists, NEW all \in Lists, NEW t \in Lists, NEW more \in Lists,
         Represents(s, all), Represents(t, more), Apart(s, all, t, more)
  PROVE  Represents(s \o t, all \o more)
<1>1. /\ DOMAIN s = 1 .. Len(s) /\ DOMAIN t = 1 .. Len(t) /\ DOMAIN (s \o t) = 1 .. Len(s) + Len(t)
      /\ Len(s) \in Nat /\ Len(t) \in Nat /\ Len(s \o t) = Len(s) + Len(t)
      /\ \A i \in DOMAIN (s \o t) : (s \o t)[i] = IF i <= Len(s) THEN s[i] ELSE t[i - Len(s)]
  BY DEF Lists
<1>2. /\ DOMAIN all = 1 .. Len(all) /\ DOMAIN more = 1 .. Len(more)
      /\ DOMAIN (all \o more) = 1 .. Len(all) + Len(more)
      /\ Len(all) \in Nat /\ Len(more) \in Nat /\ Len(all \o more) = Len(all) + Len(more)
      /\ \A i \in DOMAIN (all \o more) :
           (all \o more)[i] = IF i <= Len(all) THEN all[i] ELSE more[i - Len(all)]
  BY DEF Lists
<1> DEFINE u == s \o t
           f == all \o more
<1> HIDE DEF u, f
<1>3. Len(u) <= Len(f)
  BY <1>1, <1>2 DEF Represents, u, f
<1>4. ASSUME NEW i \in DOMAIN u PROVE \E k \in DOMAIN f : u[i] = f[k]
  <2>1. CASE i <= Len(s)
    <3>1. i \in DOMAIN s /\ u[i] = s[i]
      BY <1>1, <2>1 DEF u
    <3>2. PICK k \in DOMAIN all : s[i] = all[k]
      BY <3>1 DEF Represents
    <3>3. k \in DOMAIN f /\ f[k] = all[k]
      BY <1>2 DEF f
    <3> QED BY <3>1, <3>2, <3>3
  <2>2. CASE ~(i <= Len(s))
    <3>1. i - Len(s) \in DOMAIN t /\ u[i] = t[i - Len(s)]
      BY <1>1, <2>2 DEF u
    <3>2. PICK k \in DOMAIN more : t[i - Len(s)] = more[k]
      BY <3>1 DEF Represents
    <3>3. k + Len(all) \in DOMAIN f /\ f[k + Len(all)] = more[k]
      BY <1>2 DEF f
    <3> QED BY <3>1, <3>2, <3>3
  <2> QED BY <2>1, <2>2
<1>5. ASSUME NoEquivalentsIn(f), NEW d \in VisibleIn(f)
      PROVE  \E i \in DOMAIN u : StandsFor(Declared[u[i]], d) /\ ~HiddenIn(Declared[u[i]], f)
  <2>1. NoEquivalentsIn(all) /\ NoEquivalentsIn(more) /\ d \in VisibleIn(all) \cup VisibleIn(more)
    BY <1>5, VisibleOfBoth DEF f
  <2>2. CASE d \in VisibleIn(all)
    <3>1. PICK i \in DOMAIN s : StandsFor(Declared[s[i]], d) /\ ~HiddenIn(Declared[s[i]], all)
      BY <2>1, <2>2 DEF Represents
    <3>2. i \in DOMAIN u /\ u[i] = s[i]
      BY <1>1 DEF u
    <3>3. ~HiddenIn(Declared[u[i]], f)
      BY <3>1, <3>2, VisibleOfBoth DEF Apart, f
    <3> QED BY <3>1, <3>2, <3>3
  <2>3. CASE d \in VisibleIn(more)
    <3>1. PICK i \in DOMAIN t : StandsFor(Declared[t[i]], d) /\ ~HiddenIn(Declared[t[i]], more)
      BY <2>1, <2>3 DEF Represents
    <3>2. i + Len(s) \in DOMAIN u /\ u[i + Len(s)] = t[i]
      BY <1>1 DEF u
    <3>3. ~HiddenIn(Declared[u[i + Len(s)]], f)
      BY <3>1, <3>2, VisibleOfBoth DEF Apart, f
    <3> QED BY <3>1, <3>2, <3>3
  <2> QED BY <2>1, <2>2, <2>3
<1> QED BY <1>3, <1>4, <1>5 DEF Represents, u, f

LEMMA RepresentedNow ==
  ASSUME TypeInv, removed = {}
  PROVE  Represented <=> Represents(decls, found)
BY DEF TypeInv, Represented, Represents, Visible, NoEquivalents, Left, Found

\* Something new is unresolved, whatever was found before.
LEMMA NewKind ==
  ASSUME kind' = "Found", ~resolved', decls' # <<>>
  PROVE  KindInv'
BY DEF KindInv, Failures, Ambiguities, References, Subobjects

LEMMA SettledUnchanged ==
  ASSUME Settled, UNCHANGED <<lookup, found, decls, kind>>
  PROVE  Settled'
<1>1. (\A i \in DOMAIN decls : Found(i) \in Visible)' <=> \A i \in DOMAIN decls : Found(i) \in Visible
  BY AllUnchanged DEF Visible, Found
<1>2. Valid' = Valid /\ (NoEquivalents' <=> NoEquivalents) /\ Classified' = Classified
  BY AllUnchanged DEF Valid, NoEquivalents, Classified, Found
<1>3. /\ (\A i, j \in DOMAIN decls : Same(Found(i), Found(j)) => i = j)'
      /\ (Len(decls) > 1 => \A i \in DOMAIN decls : ~Found(i).invalid)'
  BY DEF Settled, Found
<1>4. (kind \notin Ambiguities =>
         /\ decls # <<>> => kind = Classified
         /\ lookup.hideTags =>
              \A i, j \in DOMAIN decls : i # j => Overloads(Found(i)) /\ Overloads(Found(j)))'
  BY <1>2 DEF Settled, Found
<1> QED BY <1>1, <1>2, <1>3, <1>4 DEF Settled

LEMMA ConflictUnchanged ==
  ASSUME UNCHANGED <<lookup, found>>
  PROVE  (Conflict' <=> Conflict) /\ (NoEquivalents' <=> NoEquivalents) /\ Valid' = Valid
         /\ Visible' = Visible
BY AllUnchanged DEF Conflict, Visible, NoEquivalents, Valid

\* Nothing new: the kind and what it stands on stay.
LEMMA KindUnchanged ==
  ASSUME KindInv, pc = "done", pc' \in {"done", "begin"}, removed' = {},
         UNCHANGED <<lookup, found, decls, resolved, kind>>,
         pc' = "begin" => kind' \notin Subobjects \cup {"AmbiguousTagHiding"}
  PROVE  KindInv'
<1>1. /\ kind' \in Failures <=> decls' = <<>>
      /\ kind' \in Failures \cup {"Found", "FoundOverloaded", "FoundUnresolvedValue"} \cup Ambiguities
      /\ ~resolved' => kind' \in Failures \cup {"Found", "AmbiguousTagHiding"}
      /\ kind' = "AmbiguousTagHiding" => pc' = "done" /\ ~resolved' /\ Len(decls') > 1
      /\ kind' \in Subobjects => pc' = "done" /\ resolved'
  BY DEF KindInv
<1>2. (kind \in References =>
         /\ Len(decls) > 1 /\ resolved
         /\ lookup.hideTags /\ NoEquivalents /\ Valid # {} => Conflict)'
  BY ConflictUnchanged DEF KindInv
<1>3. resolved' => Settled'
  BY SettledUnchanged DEF KindInv, Scanning
<1> QED BY <1>1, <1>2, <1>3 DEF KindInv

LEMMA CollectStep ==
  ASSUME ResultInv, Use, Collect
  PROVE  TypeInv' /\ Represents(decls, found)' /\ KindInv'
<1> DEFINE s == SubSeq(found', Len(found) + 1, Len(found'))
<1>1. s \in Lists /\ addDecls(s) /\ (decls = found \/ Apart(decls, found, s, s))
  BY DEF Collect
<1> HIDE DEF s
<1>2. /\ removed = {} /\ removed' = {} /\ pc = "done" /\ pc' \in {"done", "begin"} /\ UNCHANGED lookup
      /\ pc' = "begin" => kind' \notin Subobjects \cup {"AmbiguousTagHiding"}
  BY DEF ResultInv, TypeInv, Use, Scanning
<1>3. found \in Lists /\ decls \in Lists /\ Represents(decls, found)
  BY <1>2, RepresentedNow DEF ResultInv, TypeInv
<1>4. found' \in Lists /\ decls' \in Lists /\ found' = found \o s /\ decls' = decls \o s
  BY <1>1, <1>3 DEF addDecls, Lists
<1>5. Represents(decls', found')
  <2>1. CASE decls = found
    BY <1>4, <2>1, RepresentsItself
  <2>2. CASE Apart(decls, found, s, s)
    BY <1>1, <1>3, <1>4, <2>2, RepresentsItself, RepresentsBoth
  <2> QED BY <1>1, <2>1, <2>2
<1>6. Represents(decls, found)'
  BY <1>2, <1>5 DEF Represents, StandsFor, VisibleIn, HiddenIn, Hides, ValidIn, NoEquivalentsIn
<1>7. CASE s = <<>>
  <2>1. UNCHANGED <<lookup, found, decls, resolved, kind>>
    <3>1. found \o <<>> = found /\ decls \o <<>> = decls
      BY <1>3 DEF Lists
    <3>2. (resolved /\ TRUE) = resolved
      BY DEF ResultInv, TypeInv
    <3> QED BY <1>1, <1>2, <1>4, <1>7, <3>1, <3>2 DEF addDecls
  <2>2. KindInv'
    BY <1>2, <2>1, KindUnchanged DEF ResultInv
  <2>3. TypeInv'
    BY <1>2, <2>1 DEF ResultInv, TypeInv
  <2> QED BY <1>6, <2>2, <2>3
<1>8. CASE s # <<>>
  <2>1. decls' # <<>>
    BY <1>1, <1>3, <1>4, <1>8 DEF Lists
  <2>2. kind' = "Found" /\ resolved' = FALSE
    BY <1>1, <1>8 DEF addDecls
  <2>3. KindInv'
    BY <2>1, <2>2, NewKind
  <2>4. TypeInv'
    BY <1>2, <1>4, <1>6, <2>1, <2>2 DEF TypeInv, Represents
  <2> QED BY <1>6, <2>3, <2>4
<1> QED BY <1>7, <1>8

LEMMA BeginStep ==
  ASSUME ResultInv, Use, Begin
  PROVE  TypeInv' /\ Represents(decls, found)' /\ KindInv'
<1>1. removed' = {} /\ pc' \in {"done", "begin"} /\ UNCHANGED lookup
  BY DEF ResultInv, TypeInv, Use, Scanning
<1>2. Represents(decls', found')
  BY RepresentsItself DEF Begin
<1>3. Represents(decls, found)'
  BY <1>1, <1>2 DEF Represents, StandsFor, VisibleIn, HiddenIn, Hides, ValidIn, NoEquivalentsIn
<1>4. KindInv'
  BY NewKind DEF Begin
<1>5. /\ found' \in Lists /\ decls' \in Lists /\ decls' = found' /\ found' # <<>>
      /\ resolved' \in BOOLEAN
  BY DEF Begin
<1>6. TypeInv'
  BY <1>1, <1>3, <1>5 DEF TypeInv, Represents
<1> QED BY <1>3, <1>4, <1>6

LEMMA JoinStep ==
  ASSUME ResultInv, Use, Join
  PROVE  TypeInv' /\ Represents(decls, found)' /\ KindInv'
<1> DEFINE all == SubSeq(found', 1, Len(found') - Len(found))
           s == SubSeq(decls', 1, Len(decls') - Len(decls))
<1>1. /\ all \in Lists \ {<<>>} /\ s \in Lists \ {<<>>} /\ Represents(s, all)
      /\ Apart(s, all, decls, found)
      /\ found' = all \o found /\ decls' = s \o decls /\ kind' = "Found" /\ resolved' = FALSE
  BY DEF Join
<1> HIDE DEF all, s
<1>2. removed = {} /\ removed' = {} /\ pc = "done" /\ pc' \in {"done", "begin"} /\ UNCHANGED lookup
  BY DEF ResultInv, TypeInv, Use, Scanning
<1>3. found \in Lists /\ decls \in Lists /\ Represents(decls, found)
  BY <1>2, RepresentedNow DEF ResultInv, TypeInv
<1>4. Represents(decls', found')
  BY <1>1, <1>3, RepresentsBoth
<1>5. Represents(decls, found)'
  BY <1>2, <1>4 DEF Represents, StandsFor, VisibleIn, HiddenIn, Hides, ValidIn, NoEquivalentsIn
<1>6. found' \in Lists /\ decls' \in Lists /\ decls' # <<>>
  BY <1>1, <1>3 DEF Lists
<1>7. TypeInv'
  BY <1>1, <1>2, <1>5, <1>6 DEF TypeInv, Represents
<1>8. KindInv'
  BY <1>1, <1>6, NewKind
<1> QED BY <1>5, <1>7, <1>8

LEMMA ConcludeStep ==
  ASSUME ResultInv, Use, Conclude
  PROVE  TypeInv' /\ Represents(decls, found)' /\ KindInv'
<1>1. /\ removed = {} /\ removed' = {} /\ pc = "done" /\ pc' \in {"done", "begin"} /\ UNCHANGED lookup
      /\ UNCHANGED <<found, decls, resolved>>
      /\ pc' = "begin" => kind' \notin Subobjects \cup {"AmbiguousTagHiding"}
  BY DEF ResultInv, TypeInv, Use, Scanning, Conclude
<1>2. Represents(decls, found)'
  BY <1>1, RepresentedNow, AllUnchanged DEF ResultInv
<1>3. TypeInv'
  BY <1>1 DEF ResultInv, TypeInv, Conclude
<1>4. CASE kind' = kind
  BY <1>1, <1>2, <1>3, <1>4, KindUnchanged DEF ResultInv
<1>5. CASE kind' = "NotFoundInCurrentInstantiation" /\ found = <<>> /\ decls = <<>>
  <2>1. Len(decls') = 0 /\ DOMAIN decls' = {}
    BY <1>1, <1>5
  <2>2. Settled'
    BY <1>1, <1>5, <2>1 DEF Settled
  <2> QED BY <1>1, <1>2, <1>3, <1>5, <2>1, <2>2
          DEF KindInv, Failures, Ambiguities, References, Subobjects
<1>6. CASE kind' \in Subobjects /\ decls # <<>> /\ resolved
  <2>1. /\ Settled /\ kind' \in Ambiguities
        /\ kind' \notin Failures \cup References \cup {"AmbiguousTagHiding"}
    BY <1>1, <1>6 DEF ResultInv, KindInv, Scanning, Subobjects, References, Ambiguities, Failures
  <2>2. /\ (\A i \in DOMAIN decls : Found(i) \in Visible)' <=>
             \A i \in DOMAIN decls : Found(i) \in Visible
        /\ Valid' = Valid /\ (NoEquivalents' <=> NoEquivalents)
    BY <1>1, ConflictUnchanged DEF Found
  <2>3. Settled'
    BY <1>1, <2>1, <2>2 DEF Settled, Found
  <2> QED BY <1>1, <1>2, <1>3, <1>6, <2>1, <2>3 DEF KindInv
<1>7. CASE kind' = "AmbiguousTagHiding" /\ Len(decls) > 1 /\ ~resolved
  <2>1. decls' # <<>>
    BY <1>1, <1>7
  <2> QED BY <1>1, <1>2, <1>3, <1>7, <2>1 DEF KindInv, Failures, Ambiguities, References, Subobjects
<1> QED BY <1>4, <1>5, <1>6, <1>7 DEF Conclude

LEMMA UseStep ==
  ASSUME ResultInv, Use
  PROVE  ResultInv'
<1>1. TypeInv' /\ Represents(decls, found)' /\ KindInv'
  BY CollectStep, BeginStep, JoinStep, ConcludeStep DEF Use
<1>2. pc' \in {"done", "begin"} /\ (pc' = "begin" => HidersClose') /\ ~Scanning' /\ removed' = {}
  BY DEF Use, ResultInv, TypeInv, Scanning
<1>3. Represented'
  BY <1>1, <1>2 DEF TypeInv, Represented, Represents, Visible, NoEquivalents, Left, Found
<1> QED BY <1>1, <1>2, <1>3 DEF ResultInv

-----------------------------------------------------------------------------
(***************************************************************************)
(* resolveKind: what a state in the middle of the scan says.               *)
(***************************************************************************)
LEMMA LeftCount ==
  ASSUME NEW n \in Nat, NEW R \in SUBSET (1 .. n), NEW k \in (1 .. n) \ R
  PROVE  n - Cardinality(R) > 1 <=> \E j \in (1 .. n) \ R : j # k
<1> DEFINE L == (1 .. n) \ R
<1>1. IsFiniteSet(1 .. n) /\ Cardinality(1 .. n) = n
  BY FS_Interval
<1>2. IsFiniteSet(L) /\ Cardinality(L) = n - Cardinality(R)
  <2>1. (1 .. n) \cap R = R
    OBVIOUS
  <2> QED BY <1>1, <2>1, FS_Difference
<1>3. IsFiniteSet(L \ {k}) /\ Cardinality(L \ {k}) = Cardinality(L) - 1
  BY <1>2, FS_RemoveElement
<1>4. Cardinality(L \ {k}) = 0 <=> L \ {k} = {}
  BY <1>3, FS_EmptySet
<1>5. Cardinality(L \ {k}) \in Nat
  BY <1>3, FS_CardinalityType
<1>6. Cardinality(L) \in Nat
  BY <1>2, FS_CardinalityType
<1>7. n - Cardinality(R) > 1 <=> L \ {k} # {}
  BY <1>2, <1>3, <1>4, <1>5, <1>6
<1> QED BY <1>7

LEMMA LookFacts ==
  ASSUME ResultInv, Looking
  PROVE  /\ Len(decls) \in Nat /\ DOMAIN decls = 1 .. Len(decls)
         /\ next \in 1 .. Len(decls) /\ next \in Left /\ Current \in Decls
         /\ \A i \in DOMAIN decls : decls[i] \in DOMAIN Declared /\ Found(i) \in Decls
         /\ unique \subseteq 1 .. next - 1 /\ removed \subseteq 1 .. next - 1
         /\ Scanned \subseteq unique /\ Scanned \subseteq Left
         /\ \A i \in Left : i # next /\ i \notin Scanned => i > next
         /\ IsInvalid <=> Current.invalid /\ \E j \in Left : j # next
<1>1. decls \in Lists /\ TypeInv /\ IndexesInv /\ next \in DOMAIN decls
  BY DEF ResultInv, TypeInv, Looking
<1>2. Len(decls) \in Nat /\ DOMAIN decls = 1 .. Len(decls)
      /\ \A i \in DOMAIN decls : decls[i] \in DOMAIN Declared /\ Found(i) \in Decls
  BY <1>1, FoundIn
<1>3. removed \cup unique = 1 .. next - 1
  BY <1>1 DEF IndexesInv
<1>4. next \in Left
  BY <1>1, <1>2, <1>3 DEF Left
<1>5. IsInvalid <=> Current.invalid /\ \E j \in Left : j # next
  <2>1. removed \in SUBSET (1 .. Len(decls)) /\ Left = (1 .. Len(decls)) \ removed
    BY <1>1, <1>2 DEF TypeInv, Left
  <2>2. Len(decls) - Cardinality(removed) > 1 <=> \E j \in (1 .. Len(decls)) \ removed : j # next
    BY <1>2, <1>4, <2>1, LeftCount
  <2> QED BY <2>1, <2>2 DEF IsInvalid
<1> QED BY <1>1, <1>2, <1>3, <1>4, <1>5 DEF Scanned, Left, Current

\* What the scan passes over as not hidden is not hidden by anything that was found.
LEMMA NotHidden ==
  ASSUME ResultInv, Looking, ~IsHidden
  PROVE  ~HiddenIn(Current, found)
<1>1. SUFFICES ASSUME HiddenIn(Current, found) PROVE FALSE
  OBVIOUS
<1>2. next \in next .. Len(decls)
  BY LookFacts
<1>3. PICK j \in DOMAIN decls : Hides(Found(j), Current)
  BY <1>1, <1>2 DEF ResultInv, Looking, HidersAhead, Current
<1> QED BY <1>1, <1>3 DEF IsHidden, HiddenIn, Hides

\* And what it passes over as hidden is hidden, by a declaration that is another one.
LEMMA HiddenByOther ==
  ASSUME ResultInv, Looking, IsHidden
  PROVE  /\ HiddenIn(Current, found)
         /\ \E j \in DOMAIN decls : j # next /\ canHideTag(Found(j)) /\ ~Found(j).invalid
<1>1. PICK j \in DOMAIN decls :
        canHideTag(Found(j)) /\ ~Found(j).invalid /\ Found(j).context = Current.context
  BY DEF IsHidden
<1>2. j # next
  BY <1>1 DEF IsHidden, canHideTag, Current, Functions
<1>3. Found(j) \in ValidIn(found)
  BY <1>1 DEF ResultInv, TypeInv, ValidIn, Found
<1> QED BY <1>1, <1>2, <1>3 DEF IsHidden, HiddenIn, Hides

\* A second scan has nothing to do.
LEMMA SecondScan ==
  ASSUME ResultInv, Looking, resolved, lookup.hideTags
  PROVE  /\ ~IsInvalid /\ ~IsHidden /\ Existing = {} /\ ~IsEquivalent
         /\ removed = {} /\ Settled
<1>1. Settled /\ removed = {} /\ kind \notin Ambiguities /\ FlagsExact
  BY DEF ResultInv, KindInv, Looking, Scanning, ScannedInv
<1>2. \A i \in DOMAIN decls : i # next => Overloads(Found(i)) /\ Overloads(Current)
  BY <1>1, LookFacts DEF Settled, Current
<1>3. ~IsInvalid
  <2>1. SUFFICES ASSUME IsInvalid PROVE FALSE
    OBVIOUS
  <2>2. Current.invalid /\ \E j \in 1 .. Len(decls) : j # next
    BY <2>1, LookFacts DEF Left
  <2>3. Len(decls) > 1
    BY <2>2, LookFacts
  <2> QED BY <1>1, <2>2, <2>3, LookFacts DEF Settled, Current
<1>4. ~IsHidden
  BY <1>2, HiddenByOther DEF IsHidden, Overloads, Functions
<1>5. Existing = {}
  <2>1. SUFFICES ASSUME NEW j \in Existing PROVE FALSE
    OBVIOUS
  <2>2. j \in unique /\ Same(Found(j), Current)
    BY DEF Existing, Same, ResultInv, IndexesInv, Looking
  <2>3. j \in DOMAIN decls /\ j # next
    BY <2>2, LookFacts
  <2> QED BY <1>1, <2>2, <2>3, LookFacts DEF Settled, Current
<1>6. ~IsEquivalent
  <2>1. SUFFICES ASSUME IsEquivalent PROVE FALSE
    OBVIOUS
  <2>2. ~Overloads(Current)
    BY <2>1 DEF IsEquivalent, IsNonFunction, Overloads, Functions
  <2>3. PICK i \in Scanned : ~Overloads(Found(i))
    BY <1>1, <2>1 DEF FlagsExact, IsEquivalent
  <2>4. i \in DOMAIN decls /\ i # next
    BY LookFacts
  <2> QED BY <1>2, <2>3, <2>4
<1> QED BY <1>1, <1>3, <1>4, <1>5, <1>6

LEMMA ExistingFacts ==
  ASSUME ResultInv, Looking
  PROVE  /\ \A j \in Existing : j \in unique /\ Same(Found(j), Current)
         /\ Existing = {} => \A j \in unique : ~Same(Found(j), Current)
<1>1. uniqueTypes = {j \in unique : Found(j).kind \in Types}
  BY DEF ResultInv, IndexesInv, Looking
<1>2. ASSUME NEW j \in Existing PROVE j \in unique /\ Same(Found(j), Current)
  <2> DEFINE sameType == {k \in uniqueTypes : Current.kind \in Types /\ Found(k).type = Current.type}
  <2>1. j \in sameType \/ (j \in unique /\ Found(j).entity = Current.entity)
    BY DEF Existing
  <2>2. CASE j \in sameType
    BY <1>1, <2>2 DEF Same
  <2>3. CASE j \in unique /\ Found(j).entity = Current.entity
    BY <2>3 DEF Same
  <2> QED BY <2>1, <2>2, <2>3
<1>3. ASSUME Existing = {}, NEW j \in unique, Same(Found(j), Current) PROVE FALSE
  <2>1. {k \in uniqueTypes : Current.kind \in Types /\ Found(k).type = Current.type} = {}
    BY <1>3 DEF Existing
  <2>2. Found(j).entity # Current.entity
    BY <1>3, <2>1 DEF Existing
  <2>3. j \in uniqueTypes
    BY <1>1, <1>3, <2>2 DEF Same
  <2> QED BY <1>3, <2>1, <2>2, <2>3 DEF Same
<1> QED BY <1>2, <1>3

\* The kind is not touched while the scan looks at a declaration.
LEMMA KindInScan ==
  ASSUME ResultInv, Scanning, Scanning', UNCHANGED <<lookup, found, kind, resolved>>,
         decls' # <<>>,
         resolved /\ lookup.hideTags => removed' = {} /\ UNCHANGED decls
  PROVE  KindInv'
<1>1. /\ kind \notin Ambiguities /\ decls # <<>> /\ KindInv
      /\ kind \notin Failures
  BY DEF ResultInv, ScannedInv, KindInv
<1>2. resolved' /\ lookup'.hideTags => Settled'
  BY <1>1, SettledUnchanged DEF KindInv
<1> QED BY <1>1, <1>2 DEF KindInv, Ambiguities

-----------------------------------------------------------------------------
(***************************************************************************)
(* resolveKind, step by step.                                              *)
(***************************************************************************)
LEMMA BeginScanStep ==
  ASSUME ResultInv, BeginScan
  PROVE  ResultInv'
<1>1. /\ pc = "begin" /\ pc' = "scan" /\ Len(decls) > 1 /\ kind \notin Ambiguities
      /\ removed = {} /\ removed' = {} /\ next' = 1 /\ unique' = {} /\ uniqueTypes' = {}
      /\ seen' = {} /\ nonFunction' = {} /\ ambiguous' = FALSE
      /\ UNCHANGED <<lookup, found, decls, kind, resolved>>
      /\ TypeInv /\ Represented /\ KindInv /\ HidersClose
  BY DEF BeginScan, result, ResultInv, TypeInv, Scanning
<1>2. Len(decls) \in Nat /\ DOMAIN decls = 1 .. Len(decls) /\ decls # <<>>
  BY <1>1, FoundIn DEF TypeInv
<1>3. TypeInv'
  BY <1>1 DEF TypeInv
<1>4. Represented'
  BY <1>1, ConflictUnchanged, AllUnchanged DEF Represented, Left, Found
<1>5. Left' = DOMAIN decls /\ Scanned' = {}
  BY <1>1, <1>2 DEF Left, Scanned
<1>6. IndexesInv' /\ Stays'
  BY <1>1, <1>2 DEF IndexesInv, Stays
<1>7. HidersAhead'
  <2>1. ASSUME NEW i \in 1 .. Len(decls), HiddenIn(Found(i), found)
        PROVE  \E j \in DOMAIN decls :
                 /\ Hides(Found(j), Found(i))
                 /\ \A k \in j .. i : k >= 1 => Found(k).context = Found(i).context
    BY <1>1, <1>2, <2>1 DEF HidersClose
  <2> QED BY <1>1, <2>1, AllUnchanged DEF HidersAhead, Found, Hides, canHideTag
<1>8. FlagsExact'
  BY <1>1, <1>5 DEF FlagsExact
<1>9. ScannedInv'
  BY <1>1, <1>2, <1>5, <1>8 DEF ScannedInv
<1>10. KindInv'
  <2>1. resolved' /\ lookup'.hideTags => Settled'
    BY <1>1, SettledUnchanged DEF KindInv, Scanning
  <2> QED BY <1>1, <1>2, <2>1 DEF KindInv, Scanning, Ambiguities
<1> QED BY <1>1, <1>3, <1>4, <1>6, <1>7, <1>9, <1>10 DEF ResultInv

LEMMA RemoveCurrentStep ==
  ASSUME ResultInv, RemoveCurrent
  PROVE  ResultInv'
<1>1. /\ Looking /\ pc = "scan" /\ pc' = "scan" /\ (IsInvalid \/ IsHidden)
      /\ removed' = removed \cup {next} /\ next' = next + 1
      /\ UNCHANGED <<lookup, found, decls, kind, resolved, unique, uniqueTypes, seen, nonFunction,
                     ambiguous>>
  BY DEF RemoveCurrent, Looking, result, unique2, flags
<1>2. TypeInv /\ Represented /\ KindInv /\ IndexesInv /\ Stays /\ HidersAhead /\ ScannedInv
  BY <1>1 DEF ResultInv, Scanning
<1>3. /\ Len(decls) \in Nat /\ DOMAIN decls = 1 .. Len(decls) /\ next \in 1 .. Len(decls)
      /\ next \in Left /\ unique \subseteq 1 .. next - 1 /\ removed \subseteq 1 .. next - 1
      /\ Scanned \subseteq unique /\ Scanned \subseteq Left
  BY <1>1, LookFacts
<1>4. Left' = Left \ {next} /\ Scanned' = Scanned
  BY <1>1, <1>3 DEF Left, Scanned
<1>5. TypeInv'
  BY <1>1, <1>2, <1>3 DEF TypeInv, Scanning
<1>6. \A d : StandsFor(Current, d) => HiddenIn(Current, found)
  <2>1. CASE IsInvalid
    BY <2>1 DEF IsInvalid, StandsFor
  <2>2. CASE IsHidden
    BY <1>1, <2>2, HiddenByOther
  <2> QED BY <1>1, <2>1, <2>2
<1>7. Represented'
  <2>1. ASSUME NoEquivalents, NEW d \in Visible
        PROVE  \E i \in Left' : StandsFor(Found(i), d) /\ ~HiddenIn(Found(i), found)
    BY <1>2, <1>4, <1>6, <2>1 DEF Represented, Current
  <2> QED BY <1>1, <2>1, ConflictUnchanged, AllUnchanged DEF Represented, Found
<1>8. IndexesInv'
  <2>1. removed \cup {next} \cup unique = 1 .. next + 1 - 1 /\ next \notin unique
    <3>1. removed \cup unique = 1 .. next - 1
      BY <1>2 DEF IndexesInv
    <3> QED BY <1>3, <3>1
  <2>2. next + 1 \in 1 .. Len(decls) + 1
    BY <1>3
  <2>3. NoEquivalents' <=> NoEquivalents
    BY <1>1, ConflictUnchanged
  <2> QED BY <1>1, <1>2, <2>1, <2>2, <2>3 DEF IndexesInv, Found
<1>9. ~(canHideTag(Current) /\ ~Current.invalid)
  BY <1>1 DEF IsInvalid, IsHidden, canHideTag, Functions
<1>10. Stays'
  BY <1>1, <1>2, <1>4, <1>9 DEF Stays, Found, Current, canHideTag
<1>11. HidersAhead'
  <2>1. ASSUME NEW i \in next + 1 .. Len(decls), HiddenIn(Found(i), found)
        PROVE  \E j \in DOMAIN decls :
                 /\ Hides(Found(j), Found(i))
                 /\ \A k \in j .. i : k >= next + 1 => Found(k).context = Found(i).context
    <3>1. i \in next .. Len(decls)
      BY <1>3
    <3>2. PICK j \in DOMAIN decls :
            /\ Hides(Found(j), Found(i))
            /\ \A k \in j .. i : k >= next => Found(k).context = Found(i).context
      BY <1>2, <2>1, <3>1 DEF HidersAhead
    <3>3. \A k \in j .. i : k >= next + 1 => k >= next
      BY <1>3, <3>2
    <3> QED BY <3>2, <3>3
  <2> QED BY <1>1, <2>1, AllUnchanged DEF HidersAhead, Found, Hides, canHideTag
<1>12. Left' # {}
  <2>1. CASE IsInvalid
    BY <1>1, <1>4, <2>1, LookFacts
  <2>2. CASE IsHidden
    <3>1. PICK j \in DOMAIN decls : j # next /\ canHideTag(Found(j)) /\ ~Found(j).invalid
      BY <1>1, <2>2, HiddenByOther
    <3>2. CASE j \in Left
      BY <1>4, <3>1, <3>2
    <3>3. CASE j \in removed
      <4>1. Scanned # {}
        BY <1>2, <3>1, <3>3 DEF Stays
      <4>2. next \notin Scanned
        BY <1>3
      <4> QED BY <1>3, <1>4, <4>1, <4>2
    <3> QED BY <3>2, <3>3 DEF Left
  <2> QED BY <1>1, <2>1, <2>2
<1>13. FlagsExact'
  BY <1>1, <1>2, <1>4 DEF ScannedInv, FlagsExact, Found
<1>14. \A i \in Scanned : ~Found(i).invalid /\ ~HiddenIn(Found(i), found)
  <2>1. next \notin Scanned
    BY <1>3
  <2> QED BY <1>2, <1>3, <2>1 DEF ScannedInv
<1>15. ScannedInv'
  BY <1>1, <1>2, <1>4, <1>12, <1>13, <1>14, AllUnchanged DEF ScannedInv, Found
<1>16. KindInv'
  BY <1>1, <1>2, KindInScan, SecondScan DEF Scanning, ScannedInv
<1> QED BY <1>1, <1>5, <1>7, <1>8, <1>10, <1>11, <1>15, <1>16 DEF ResultInv

LEMMA MergeStep ==
  ASSUME ResultInv, Merge
  PROVE  ResultInv'
<1>1. /\ Looking /\ pc = "scan" /\ pc' = "scan" /\ ~IsInvalid /\ ~IsHidden
      /\ removed' = removed \cup {next} /\ next' = next + 1
      /\ UNCHANGED <<lookup, found, kind, resolved, unique, uniqueTypes, seen, nonFunction, ambiguous>>
  BY DEF Merge, Looking, unique2, flags
<1>2. PICK j \in Existing :
        decls' = IF Preferred(Current, Found(j)) THEN [decls EXCEPT ![j] = decls[next]] ELSE decls
  BY DEF Merge
<1>3. TypeInv /\ Represented /\ KindInv /\ IndexesInv /\ Stays /\ HidersAhead /\ ScannedInv
  BY <1>1 DEF ResultInv, Scanning
<1>4. /\ Len(decls) \in Nat /\ DOMAIN decls = 1 .. Len(decls) /\ next \in 1 .. Len(decls)
      /\ next \in Left /\ unique \subseteq 1 .. next - 1 /\ removed \subseteq 1 .. next - 1
      /\ Scanned \subseteq unique /\ Scanned \subseteq Left /\ Current \in Decls
      /\ \A i \in DOMAIN decls : decls[i] \in DOMAIN Declared /\ Found(i) \in Decls
      /\ ~(Current.invalid /\ \E i \in Left : i # next)
      /\ decls \in Lists
  BY <1>1, <1>3, LookFacts DEF TypeInv
<1>5. j \in unique /\ j \in DOMAIN decls /\ j < next /\ Same(Found(j), Current)
  <2>1. j \in unique /\ Same(Found(j), Current)
    BY <1>1, ExistingFacts
  <2>2. j \in 1 .. next - 1
    BY <1>4, <2>1
  <2> QED BY <1>4, <2>1, <2>2
\* What is at an index after the step.
<1>6. /\ decls' \in Lists /\ Len(decls') = Len(decls) /\ DOMAIN decls' = DOMAIN decls
      /\ \A i \in DOMAIN decls : i # j => decls'[i] = decls[i]
      /\ decls'[j] = IF Preferred(Current, Found(j)) THEN decls[next] ELSE decls[j]
  <2>1. decls \in Seq(DOMAIN Declared) /\ decls[next] \in DOMAIN Declared
    BY <1>4 DEF Lists
  <2> DEFINE t == [decls EXCEPT ![j] = decls[next]]
  <2>2. /\ t \in Seq(DOMAIN Declared) /\ Len(t) = Len(decls) /\ DOMAIN t = DOMAIN decls
        /\ \A i \in DOMAIN decls : i # j => t[i] = decls[i]
        /\ t[j] = decls[next]
    BY <1>4, <1>5, <2>1
  <2> HIDE DEF t
  <2>3. decls' = IF Preferred(Current, Found(j)) THEN t ELSE decls
    BY <1>2 DEF t
  <2>4. CASE Preferred(Current, Found(j))
    BY <2>2, <2>3, <2>4 DEF Lists
  <2>5. CASE ~Preferred(Current, Found(j))
    BY <1>4, <2>3, <2>5
  <2> QED BY <2>4, <2>5
<1>7. /\ \A i \in DOMAIN decls : i # j => Found(i)' = Found(i)
      /\ Found(j)' = IF Preferred(Current, Found(j)) THEN Current ELSE Found(j)
  BY <1>5, <1>6 DEF Found, Current
<1>8. \A i \in DOMAIN decls : Found(i)' \in Decls /\ Same(Found(i)', Found(i))
  BY <1>4, <1>5, <1>7, SameFacts
<1>9. ~HiddenIn(Current, found)
  BY <1>1, NotHidden
<1>10. Left' = Left \ {next} /\ Scanned' = Scanned
  BY <1>1, <1>4, <1>6 DEF Left, Scanned
<1>11. \A i \in Scanned : ~Found(i).invalid /\ ~HiddenIn(Found(i), found)
  <2>1. next \notin Scanned
    BY <1>4
  <2> QED BY <1>3, <1>4, <2>1 DEF ScannedInv
<1>12. j \in Left => j \in Scanned /\ ~Found(j).invalid /\ ~Current.invalid
  <2>1. j \in Left => j \in Scanned
    BY <1>5 DEF Scanned
  <2> QED BY <1>4, <1>5, <1>11, <2>1
<1>13. \A i \in Scanned : ~Found(i)'.invalid /\ ~HiddenIn(Found(i)', found)
  BY <1>4, <1>7, <1>9, <1>11, <1>12
<1>14. TypeInv'
  <2>1. \A i \in DOMAIN decls' : \E k \in DOMAIN found : decls'[i] = found[k]
    BY <1>3, <1>4, <1>5, <1>6 DEF TypeInv
  <2>2. decls' # <<>>
    BY <1>4, <1>6
  <2> QED BY <1>1, <1>3, <1>4, <1>6, <2>1, <2>2 DEF TypeInv, Scanning
<1>15. Represented'
  <2>1. ASSUME NoEquivalents, NEW d \in Visible
        PROVE  \E i \in Left' : StandsFor(Found(i)', d) /\ ~HiddenIn(Found(i)', found)
    <3>1. PICK i \in Left : StandsFor(Found(i), d) /\ ~HiddenIn(Found(i), found)
      BY <1>3, <2>1 DEF Represented
    <3>2. j \in Left'
      BY <1>3, <1>4, <1>5, <1>10, <2>1 DEF IndexesInv, Left
    <3>3. CASE i \notin {j, next}
      BY <1>7, <1>10, <3>1, <3>3 DEF Left
    <3>4. CASE i \in {j, next}
      <4>1. d \in Decls
        BY VisibleFacts, <1>3 DEF Visible, TypeInv
      <4>2. j \in Left /\ j \in Scanned /\ ~Found(j).invalid /\ ~Current.invalid
        BY <1>10, <1>12, <3>2
      <4>3. Same(Current, Found(j)) /\ Found(j) \in Decls
        BY <1>4, <1>5, SameFacts
      <4>4. StandsFor(Found(j)', Found(j)) /\ StandsFor(Found(j)', Current)
        BY <1>4, <1>5, <1>7, <4>2, <4>3, KeptStands, SameFacts
      <4>5. StandsFor(Found(j)', d)
        <5>1. StandsFor(Found(j)', Found(i))
          BY <3>4, <4>4 DEF Current
        <5>2. Found(j)' \in Decls /\ Found(i) \in Decls
          BY <1>4, <1>5, <1>8, <3>1 DEF Left
        <5> QED BY <3>1, <4>1, <5>1, <5>2, StandsForTransitive
      <4> QED BY <1>13, <3>2, <4>2, <4>5
    <3> QED BY <3>3, <3>4
  <2> QED BY <1>1, <2>1, ConflictUnchanged, AllUnchanged DEF Represented
<1>16. IndexesInv'
  <2>1. removed \cup {next} \cup unique = 1 .. next + 1 - 1 /\ next \notin unique
    <3>1. removed \cup unique = 1 .. next - 1
      BY <1>3 DEF IndexesInv
    <3> QED BY <1>4, <3>1
  <2>2. next + 1 \in 1 .. Len(decls) + 1
    BY <1>4
  <2>3. NoEquivalents' <=> NoEquivalents
    BY <1>1, ConflictUnchanged
  <2>4. unique \subseteq DOMAIN decls
    BY <1>4
  <2>5. \A i \in unique : Found(i)'.kind \in Types <=> Found(i).kind \in Types
    BY <1>4, <1>8, <2>4, SameFacts
  <2>6. ASSUME NEW a \in unique, NEW b \in unique, Same(Found(a)', Found(b)') PROVE a = b
    <3>1. Same(Found(a), Found(a)') /\ Same(Found(b)', Found(b))
      BY <1>4, <1>8, <2>4, SameFacts
    <3>2. Same(Found(a), Found(b))
      BY <1>4, <1>8, <2>4, <2>6, <3>1, SameTransitive
    <3> QED BY <1>3, <3>2 DEF IndexesInv
  <2>7. uniqueTypes' = {i \in unique : Found(i)'.kind \in Types}
    BY <1>1, <1>3, <2>5 DEF IndexesInv
  <2> QED BY <1>1, <1>3, <1>6, <2>1, <2>2, <2>3, <2>6, <2>7 DEF IndexesInv
<1>17. Stays'
  BY <1>1, <1>3, <1>5, <1>10 DEF Stays
<1>18. HidersAhead'
  <2>1. ASSUME NEW i \in next + 1 .. Len(decls), HiddenIn(Found(i), found)
        PROVE  \E h \in DOMAIN decls :
                 /\ Hides(Found(h)', Found(i))
                 /\ \A k \in h .. i : k >= next + 1 => Found(k)'.context = Found(i).context
    <3>1. i \in next .. Len(decls) /\ i \in Nat /\ next \in Nat /\ next < i
      BY <1>4
    <3>2. PICK h \in DOMAIN decls :
            /\ Hides(Found(h), Found(i))
            /\ \A k \in h .. i : k >= next => Found(k).context = Found(i).context
      BY <1>3, <2>1, <3>1 DEF HidersAhead
    <3>3. \A k \in h .. i : k >= next + 1 => k >= next /\ k # j /\ k \in DOMAIN decls
      BY <1>4, <1>5, <3>1
    <3>4. \A k \in h .. i : k >= next + 1 => Found(k)'.context = Found(i).context
      BY <1>7, <3>2, <3>3
    <3>5. Hides(Found(h)', Found(i))
      <4>1. CASE Found(h)' = Found(h)
        BY <3>2, <4>1
      <4>2. CASE Found(h)' # Found(h)
        <5>1. h = j /\ Found(h)' = Current
          BY <1>7, <4>2
        <5>2. next \in h .. i
          BY <1>4, <1>5, <3>1, <5>1
        <5>3. Current.context = Found(i).context
          BY <1>4, <3>2, <5>2 DEF Current
        <5>4. canHideTag(Current) /\ ~Current.invalid
          BY <1>4, <1>5, <3>2, <5>1, SameFacts DEF Hides
        <5> QED BY <5>1, <5>3, <5>4 DEF Hides
      <4> QED BY <4>1, <4>2
    <3> QED BY <3>4, <3>5
  <2>2. \A i \in next + 1 .. Len(decls) : Found(i)' = Found(i)
    BY <1>4, <1>5, <1>7
  <2> QED BY <1>1, <1>6, <2>1, <2>2, AllUnchanged DEF HidersAhead, Hides, canHideTag
<1>19. FlagsExact'
  <2>1. \A i \in Scanned : /\ Overloads(Found(i)') <=> Overloads(Found(i))
                           /\ Found(i)'.kind \in Functions \cup {"unresolved"}
                                \/ Found(i).kind \in Functions \cup {"unresolved"}
                                => Found(i)'.kind = Found(i).kind
    <3> TAKE i \in Scanned
    <3>1. /\ Same(Found(i)', Found(i)) /\ Same(Found(i), Found(i)')
          /\ Found(i)' \in Decls /\ Found(i) \in Decls
      BY <1>4, <1>8, SameFacts
    <3> QED BY <3>1, SameFacts DEF Types, Functions
  <2> QED BY <1>1, <1>3, <1>10, <2>1 DEF ScannedInv, FlagsExact, Overloads
<1>20. ScannedInv'
  <2>1. ASSUME NEW a \in Scanned, NEW b \in Scanned, Same(Found(a)', Found(b)') PROVE a = b
    BY <1>1, <1>4, <1>10, <1>16, <2>1 DEF IndexesInv
  <2>2. Left' # {}
    <3>1. Scanned # {} /\ next \notin Scanned
      BY <1>3, <1>4, <1>5 DEF Stays
    <3> QED BY <1>4, <1>10, <3>1
  <2>3. decls' # <<>> /\ kind' \notin Ambiguities
    BY <1>1, <1>3, <1>4, <1>6 DEF ScannedInv
  <2> QED BY <1>1, <1>10, <1>13, <1>19, <2>1, <2>2, <2>3, AllUnchanged DEF ScannedInv
<1>21. KindInv'
  BY <1>1, <1>2, <1>4, <1>6, KindInScan, SecondScan DEF Scanning
<1> QED BY <1>1, <1>14, <1>15, <1>16, <1>17, <1>18, <1>20, <1>21 DEF ResultInv

LEMMA ClassifyStep ==
  ASSUME ResultInv, Classify
  PROVE  ResultInv'
<1>1. /\ Looking /\ pc = "scan" /\ pc' = "scan" /\ ~IsInvalid /\ ~IsHidden /\ Existing = {}
      /\ unique' = unique \cup {next} /\ next' = next + 1
      /\ uniqueTypes' = IF Current.kind \in Types THEN uniqueTypes \cup {next} ELSE uniqueTypes
      /\ UNCHANGED <<lookup, found, decls, kind, resolved>>
  BY DEF Classify, Looking, result
<1>2. TypeInv /\ Represented /\ KindInv /\ IndexesInv /\ Stays /\ HidersAhead /\ ScannedInv
  BY <1>1 DEF ResultInv, Scanning
<1>3. /\ Len(decls) \in Nat /\ DOMAIN decls = 1 .. Len(decls) /\ next \in 1 .. Len(decls)
      /\ next \in Left /\ unique \subseteq 1 .. next - 1 /\ removed \subseteq 1 .. next - 1
      /\ Scanned \subseteq unique /\ Scanned \subseteq Left /\ Current \in Decls
      /\ \A i \in DOMAIN decls : decls[i] \in DOMAIN Declared /\ Found(i) \in Decls
      /\ ~(Current.invalid /\ \E i \in Left : i # next)
  BY <1>1, LookFacts
<1>4. next \notin unique /\ next \notin Scanned
  BY <1>3
<1>5. ~HiddenIn(Current, found)
  BY <1>1, NotHidden
<1>6. \A i \in Scanned : ~Found(i).invalid /\ ~HiddenIn(Found(i), found)
  BY <1>2, <1>3, <1>4 DEF ScannedInv
<1>7. \A i \in unique : ~Same(Found(i), Current) /\ ~Same(Current, Found(i))
  <2> TAKE i \in unique
  <2>1. ~Same(Found(i), Current)
    BY <1>1, ExistingFacts
  <2>2. Found(i) \in Decls
    BY <1>3
  <2> QED BY <1>3, <2>1, <2>2, SameFacts
<1>8. HidersAhead'
  <2>1. ASSUME NEW i \in next + 1 .. Len(decls), HiddenIn(Found(i), found)
        PROVE  \E j \in DOMAIN decls :
                 /\ Hides(Found(j), Found(i))
                 /\ \A k \in j .. i : k >= next + 1 => Found(k).context = Found(i).context
    <3>1. i \in next .. Len(decls)
      BY <1>3
    <3>2. PICK j \in DOMAIN decls :
            /\ Hides(Found(j), Found(i))
            /\ \A k \in j .. i : k >= next => Found(k).context = Found(i).context
      BY <1>2, <2>1, <3>1 DEF HidersAhead
    <3>3. \A k \in j .. i : k >= next + 1 => k >= next
      BY <1>3, <3>2
    <3> QED BY <3>2, <3>3
  <2> QED BY <1>1, <2>1, AllUnchanged DEF HidersAhead, Found, Hides, canHideTag
<1>9. /\ (NoEquivalents' <=> NoEquivalents) /\ next + 1 \in 1 .. Len(decls) + 1
      /\ removed \cup unique \cup {next} = 1 .. next + 1 - 1
  <2>1. removed \cup unique = 1 .. next - 1
    BY <1>2 DEF IndexesInv
  <2> QED BY <1>1, <1>3, <2>1, ConflictUnchanged
<1>10. \A i, j \in unique' : Same(Found(i), Found(j)) => i = j
  BY <1>1, <1>2, <1>3, <1>7 DEF IndexesInv, Current
<1>11. uniqueTypes' = {j \in unique' : Found(j).kind \in Types}
  BY <1>1, <1>2, <1>4 DEF IndexesInv, Current
<1>12. CASE IsEquivalent
  <2>1. removed' = removed \cup {next} /\ UNCHANGED <<seen, nonFunction, ambiguous>>
    BY <1>12 DEF Classify, flags
  <2>2. Left' = Left \ {next} /\ Scanned' = Scanned
    BY <1>1, <1>3, <2>1 DEF Left, Scanned
  <2>3. ~NoEquivalents
    BY <1>2, <1>3, <1>12
       DEF IsEquivalent, NoEquivalents, NoEquivalentsIn, TypeInv, Current, Found
  <2>4. Scanned # {}
    BY <1>2, <1>12 DEF IsEquivalent, ScannedInv, FlagsExact
  <2>5. TypeInv'
    BY <1>1, <1>2, <1>3, <2>1 DEF TypeInv, Scanning
  <2>6. Represented' /\ IndexesInv'
    BY <1>1, <1>9, <1>10, <1>11, <2>1, <2>3 DEF Represented, IndexesInv, Found
  <2>7. Stays'
    BY <1>1, <2>2, <2>4 DEF Stays
  <2>8. Left' # {}
    BY <1>3, <1>4, <2>2, <2>4
  <2>9. FlagsExact'
    BY <1>1, <1>2, <2>1, <2>2 DEF ScannedInv, FlagsExact, Found
  <2>10. ScannedInv'
    BY <1>1, <1>2, <1>6, <2>2, <2>8, <2>9, AllUnchanged DEF ScannedInv, Found
  <2>11. KindInv'
    BY <1>1, <1>2, <1>12, KindInScan, SecondScan DEF Scanning, ScannedInv
  <2> QED BY <1>1, <1>8, <2>5, <2>6, <2>7, <2>10, <2>11 DEF ResultInv
<1>13. CASE ~IsEquivalent
  <2>1. /\ removed' = removed
        /\ seen' = IF IsNonFunction THEN seen ELSE seen \cup {Current.kind}
        /\ nonFunction' = IF IsNonFunction THEN {Current} ELSE nonFunction
        /\ ambiguous' = (ambiguous \/ (Current.kind = "tag" /\ "tag" \in seen)
                                   \/ (IsNonFunction /\ nonFunction # {}))
    BY <1>13 DEF Classify
  <2>2. Left' = Left /\ Scanned' = Scanned \cup {next}
    BY <1>1, <1>3, <2>1 DEF Left, Scanned
  <2>3. TypeInv'
    BY <1>1, <1>2, <1>3, <2>1 DEF TypeInv, Scanning
  <2>4. Represented'
    BY <1>1, <1>2, <2>2, ConflictUnchanged, AllUnchanged DEF Represented, Found
  <2>5. IndexesInv'
    <3>1. NoEquivalents => removed \cap (unique \cup {next}) = {}
      BY <1>2, <1>3 DEF IndexesInv
    <3> QED BY <1>1, <1>9, <1>10, <1>11, <2>1, <3>1 DEF IndexesInv, Found
  <2>6. Stays'
    BY <1>1, <2>2 DEF Stays
  <2>7. FlagsExact'
    <3> DEFINE old(i) == ~Overloads(Found(i))
    <3>1. /\ Current.kind \in Kinds
          /\ IsNonFunction <=> Current.kind \in {"typedef", "object", "namespace"}
          /\ Overloads(Current) <=> Current.kind \in Functions \cup {"unresolved"}
      BY <1>3, DeclFacts DEF IsNonFunction, Overloads
    <3>2. /\ \A sort \in Functions \cup {"unresolved"} :
               sort \in seen' <=> sort \in seen \/ Current.kind = sort
          /\ "tag" \in seen' <=> "tag" \in seen \/ Current.kind = "tag"
          /\ nonFunction' # {} <=>
               nonFunction # {} \/ Current.kind \in {"typedef", "object", "namespace"}
          /\ ~Overloads(Current) <=> Current.kind \in {"tag", "typedef", "object", "namespace"}
          /\ ambiguous' <=>
                \/ ambiguous \/ (Current.kind = "tag" /\ "tag" \in seen)
                \/ (Current.kind \in {"typedef", "object", "namespace"} /\ nonFunction # {})
      BY <2>1, <3>1 DEF Kinds, Types, Functions
    <3>3. FlagsExact
      BY <1>2 DEF ScannedInv
    <3>4. \A sort \in Functions \cup {"unresolved"} :
            sort \in seen' <=> \E i \in Scanned' : Found(i).kind = sort
      BY <2>2, <3>2, <3>3 DEF FlagsExact, Current
    <3>5. ("tag" \in seen' \/ nonFunction' # {}) <=> \E i \in Scanned' : ~Overloads(Found(i))
      BY <2>2, <3>2, <3>3 DEF FlagsExact, Current
    <3>6. (ambiguous' \/ ("tag" \in seen' /\ nonFunction' # {})) <=>
            \/ ambiguous \/ ("tag" \in seen /\ nonFunction # {})
            \/ ~Overloads(Current) /\ ("tag" \in seen \/ nonFunction # {})
      BY <3>2
    <3>7. (\E i, j \in Scanned' : i # j /\ ~Overloads(Found(i)) /\ ~Overloads(Found(j))) <=>
            \/ \E i, j \in Scanned : i # j /\ ~Overloads(Found(i)) /\ ~Overloads(Found(j))
            \/ ~Overloads(Current) /\ \E i \in Scanned : ~Overloads(Found(i))
      BY <1>4, <2>2 DEF Current
    <3>8. (ambiguous' \/ ("tag" \in seen' /\ nonFunction' # {})) <=>
            \E i, j \in Scanned' : i # j /\ ~Overloads(Found(i)) /\ ~Overloads(Found(j))
      BY <3>3, <3>6, <3>7 DEF FlagsExact
    <3>9. \A i : Found(i)' = Found(i)
      BY <1>1 DEF Found
    <3> QED BY <3>4, <3>5, <3>8, <3>9 DEF FlagsExact
  <2>8. \A i \in Scanned' : ~HiddenIn(Found(i), found) /\ (Found(i).invalid => Left' = {i})
    BY <1>3, <1>5, <1>6, <2>2 DEF Current
  <2>9. \A i, j \in Scanned' : Same(Found(i), Found(j)) => i = j
    BY <1>1, <1>3, <1>10, <2>2
  <2>10. ScannedInv'
    BY <1>1, <1>2, <2>2, <2>7, <2>8, <2>9, AllUnchanged DEF ScannedInv, Found
  <2>11. KindInv'
    BY <1>1, <1>2, <2>1, KindInScan, SecondScan DEF Scanning, ScannedInv
  <2> QED BY <1>1, <1>8, <2>3, <2>4, <2>5, <2>6, <2>10, <2>11 DEF ResultInv
<1> QED BY <1>12, <1>13

LEMMA EndScanStep ==
  ASSUME ResultInv, EndScan
  PROVE  ResultInv'
<1>1. /\ pc = "scan" /\ next \notin DOMAIN decls /\ pc' = "remove"
      /\ UNCHANGED <<lookup, found, decls, kind, resolved, next, removed, seen, nonFunction, ambiguous>>
  BY DEF EndScan, result, flags
<1>2. TypeInv /\ Represented /\ KindInv /\ IndexesInv /\ ScannedInv
  BY <1>1 DEF ResultInv, Scanning
<1>3. next \in Nat /\ next > Len(decls)
  BY <1>1, <1>2, FoundIn DEF TypeInv, IndexesInv
<1>4. TypeInv'
  BY <1>1, <1>2 DEF TypeInv, Scanning
<1>5. Represented'
  BY <1>1, <1>2, ConflictUnchanged, AllUnchanged DEF Represented, Left, Found
<1>6. FlagsExact'
  BY <1>1, <1>2 DEF ScannedInv, FlagsExact, Scanned, Left, Found
<1>7. ScannedInv'
  BY <1>1, <1>2, <1>3, <1>6, AllUnchanged DEF ScannedInv, Scanned, Left, Found
<1>8. KindInv'
  BY <1>1, <1>2, KindInScan DEF Scanning, ScannedInv, KindInv
<1> QED BY <1>1, <1>4, <1>5, <1>7, <1>8 DEF ResultInv

LEMMA LeastElement ==
  ASSUME NEW T \in SUBSET Nat, T # {}
  PROVE  \E n \in T : \A m \in T : n <= m
<1> DEFINE R == OpToRel(<, Nat)
<1>1. IsWellFoundedOn(R, Nat)
  BY NatLessThanWellFounded
<1>2. \A m, n \in Nat : <<m, n>> \in R <=> m < n
  BY DEF OpToRel
<1> HIDE DEF R
<1>3. PICK n \in T : \A m \in T : ~(<<m, n>> \in R)
  BY <1>1, WFMin
<1>4. ASSUME NEW m \in T PROVE n <= m
  <2>1. ~(m < n)
    BY <1>2, <1>3
  <2> QED BY <2>1
<1> QED BY <1>4

LEMMA HasMax ==
  ASSUME NEW n \in Nat, NEW s \in SUBSET (1 .. n), s # {}
  PROVE  Max(s) \in s /\ \A x \in s : x <= Max(s)
<1> DEFINE T == {n - x : x \in s}
<1>1. T \subseteq Nat /\ T # {}
  <2>1. \A x \in s : n - x \in Nat
    OBVIOUS
  <2> QED BY <2>1
<1>2. PICK d \in T : \A e \in T : d <= e
  BY <1>1, LeastElement
<1>3. PICK x \in s : d = n - x
  OBVIOUS
<1>4. \A y \in s : x >= y
  <2> TAKE y \in s
  <2>1. d <= n - y
    BY <1>2
  <2> QED BY <1>3, <2>1
<1>5. Max(s) \in s /\ \A y \in s : Max(s) >= y
  BY <1>4 DEF Max
<1> QED BY <1>5

\* A list whose last element has taken the place of another one.
Filled(s, m) == SubSeq([s EXCEPT ![m] = s[Len(s)]], 1, Len(s) - 1)
LEMMA HoleFilled ==
  ASSUME NEW s \in Lists, NEW m \in DOMAIN s
  PROVE  /\ Filled(s, m) \in Lists /\ Len(Filled(s, m)) = Len(s) - 1
         /\ DOMAIN Filled(s, m) = 1 .. Len(s) - 1
         /\ \A i \in 1 .. Len(s) - 1 : Filled(s, m)[i] = IF i = m THEN s[Len(s)] ELSE s[i]
<1> DEFINE u == [s EXCEPT ![m] = s[Len(s)]]
           t == Filled(s, m)
<1>1. s \in Seq(DOMAIN Declared) /\ Len(s) \in Nat /\ DOMAIN s = 1 .. Len(s) /\ Len(s) > 0
  BY DEF Lists
<1>2. /\ u \in Seq(DOMAIN Declared) /\ Len(u) = Len(s)
      /\ \A i \in 1 .. Len(s) : u[i] = IF i = m THEN s[Len(s)] ELSE s[i]
  BY <1>1
<1> HIDE DEF u
<1>3. t = SubSeq(u, 1, Len(s) - 1)
  BY DEF u, Filled
<1> HIDE DEF t
<1>4. /\ t \in Seq(DOMAIN Declared) /\ Len(t) = Len(s) - 1 /\ DOMAIN t = 1 .. Len(s) - 1
      /\ \A i \in 1 .. Len(s) - 1 : t[i] = u[i]
  BY <1>1, <1>2, <1>3
<1> QED BY <1>1, <1>2, <1>4 DEF Lists, t

\* What is left stays, each declaration at an index of its own.
LEMMA RemoveFacts ==
  ASSUME TypeInv, Remove
  PROVE  /\ decls' \in Lists /\ Len(decls') = Len(decls) - 1 /\ Len(decls) \in Nat
         /\ \A i \in DOMAIN decls' : \E k \in DOMAIN decls : decls'[i] = decls[k]
         /\ removed' \subseteq DOMAIN decls'
         /\ \A i \in Left : \E k \in Left' : Found(k)' = Found(i)
         /\ \E h \in [Left' -> Left] :
              /\ \A i \in Left' : Found(i)' = Found(h[i])
              /\ \A i, k \in Left' : h[i] = h[k] => i = k
<1> DEFINE n == Len(decls)
           m == Max(removed)
<1>1. decls \in Lists /\ n \in Nat /\ DOMAIN decls = 1 .. n /\ removed \subseteq 1 .. n /\ removed # {}
  BY FoundIn DEF TypeInv, Remove
<1>2. m \in removed /\ \A x \in removed : x <= m
  BY <1>1, HasMax
<1>3. /\ decls' = Filled(decls, m)
      /\ removed' = removed \ {m}
  BY DEF Remove, Filled
<1> HIDE DEF m
<1>4. m \in DOMAIN decls
  BY <1>1, <1>2
<1>5. /\ decls' \in Lists /\ Len(decls') = n - 1 /\ DOMAIN decls' = 1 .. n - 1
      /\ \A i \in DOMAIN decls' : decls'[i] = IF i = m THEN decls[n] ELSE decls[i]
  BY <1>1, <1>3, <1>4, HoleFilled
<1> HIDE DEF n
<1>6. m \in 1 .. n /\ n \in 1 .. n
  BY <1>1, <1>2
<1>7. removed' \subseteq 1 .. n - 1
  BY <1>1, <1>2, <1>3
<1>8. Left = (1 .. n) \ removed /\ Left' = (1 .. n - 1) \ (removed \ {m})
  BY <1>1, <1>3, <1>5 DEF Left
<1>9. m # n => n \in Left
  BY <1>1, <1>2, <1>6, <1>8
<1> DEFINE h == [i \in Left' |-> IF i = m THEN n ELSE i]
<1>10. \A i \in Left' : h[i] \in Left /\ Found(i)' = Found(h[i])
  <2> TAKE i \in Left'
  <2>1. i \in DOMAIN decls' /\ i \in 1 .. n - 1
    BY <1>5, <1>8
  <2>2. CASE i = m
    BY <1>1, <1>5, <1>9, <2>1, <2>2 DEF Found
  <2>3. CASE i # m
    BY <1>1, <1>5, <1>8, <2>1, <2>3 DEF Found
  <2> QED BY <2>2, <2>3
<1>11. \A i, k \in Left' : h[i] = h[k] => i = k
  BY <1>1, <1>8
<1>12. \A i \in Left : \E k \in Left' : Found(k)' = Found(i)
  <2> TAKE i \in Left
  <2>1. i \in 1 .. n /\ i # m
    BY <1>2, <1>8
  <2>2. CASE i = n
    <3>1. m \in Left' /\ m \in DOMAIN decls'
      BY <1>1, <1>5, <1>6, <1>8, <2>1, <2>2
    <3> QED BY <1>5, <2>2, <3>1 DEF Found
  <2>3. CASE i # n
    <3>1. i \in Left' /\ i \in DOMAIN decls'
      BY <1>1, <1>5, <1>8, <2>1, <2>3
    <3> QED BY <1>5, <2>1, <3>1 DEF Found
  <2> QED BY <2>2, <2>3
<1>13. \A i \in DOMAIN decls' : \E k \in DOMAIN decls : decls'[i] = decls[k]
  BY <1>1, <1>5, <1>6
<1>14. h \in [Left' -> Left]
  BY <1>10
<1>15. \E g \in [Left' -> Left] :
         /\ \A i \in Left' : Found(i)' = Found(g[i])
         /\ \A i, k \in Left' : g[i] = g[k] => i = k
  <2> HIDE DEF h
  <2> WITNESS h \in [Left' -> Left]
  <2> QED BY <1>10, <1>11
<1> QED BY <1>1, <1>5, <1>7, <1>12, <1>13, <1>15 DEF n

LEMMA RemoveStep ==
  ASSUME ResultInv, Remove
  PROVE  ResultInv'
<1>1. /\ pc = "remove" /\ pc' = "remove" /\ removed # {}
      /\ UNCHANGED <<lookup, found, kind, resolved, next, seen, nonFunction, ambiguous>>
  BY DEF Remove, flags
<1>2. TypeInv /\ Represented /\ KindInv /\ ScannedInv
  BY <1>1 DEF ResultInv, Scanning
<1>3. /\ decls' \in Lists /\ Len(decls') = Len(decls) - 1 /\ Len(decls) \in Nat
      /\ \A i \in DOMAIN decls' : \E k \in DOMAIN decls : decls'[i] = decls[k]
      /\ removed' \subseteq DOMAIN decls'
      /\ \A i \in Left : \E k \in Left' : Found(k)' = Found(i)
  BY <1>2, RemoveFacts
<1>4. PICK h \in [Left' -> Left] :
        /\ \A i \in Left' : Found(i)' = Found(h[i])
        /\ \A i, k \in Left' : h[i] = h[k] => i = k
  BY <1>2, RemoveFacts
<1>5. DOMAIN decls = 1 .. Len(decls) /\ DOMAIN decls' = 1 .. Len(decls) - 1
      /\ next \in Nat /\ next > Len(decls)
  BY <1>1, <1>2, <1>3, FoundIn DEF TypeInv, ScannedInv, Lists
<1>6. Left' # {} /\ decls' # <<>>
  <2>1. PICK i \in Left : TRUE
    BY <1>2 DEF ScannedInv
  <2>2. PICK k \in Left' : TRUE
    BY <1>3, <2>1
  <2>3. k \in DOMAIN decls'
    BY <2>2 DEF Left
  <2> QED BY <1>3, <1>5, <2>2, <2>3
<1>7. Scanned = Left /\ Scanned' = Left'
  <2>1. \A i \in 1 .. Len(decls) : i < next
    BY <1>3, <1>5
  <2> QED BY <1>1, <1>3, <1>5, <2>1 DEF Scanned, Left
<1>8. TypeInv'
  <2>1. \A i \in DOMAIN decls' : \E k \in DOMAIN found : decls'[i] = found[k]
    BY <1>2, <1>3 DEF TypeInv
  <2>2. Len(decls') <= Len(found)
    BY <1>2, <1>3 DEF TypeInv, Lists
  <2> QED BY <1>1, <1>2, <1>3, <1>6, <2>1, <2>2 DEF TypeInv, Scanning
<1>9. Represented'
  <2>1. ASSUME NoEquivalents, NEW d \in Visible
        PROVE  \E i \in Left' : StandsFor(Found(i)', d) /\ ~HiddenIn(Found(i)', found)
    <3>1. PICK i \in Left : StandsFor(Found(i), d) /\ ~HiddenIn(Found(i), found)
      BY <1>2, <2>1 DEF Represented
    <3> QED BY <1>3, <3>1
  <2> QED BY <1>1, <2>1, ConflictUnchanged, AllUnchanged DEF Represented
<1>10. FlagsExact'
  <2>1. \A sort \in Functions \cup {"unresolved"} :
          (\E i \in Left' : Found(i)'.kind = sort) <=> \E i \in Left : Found(i).kind = sort
    BY <1>3, <1>4
  <2>2. (\E i \in Left' : ~Overloads(Found(i)')) <=> \E i \in Left : ~Overloads(Found(i))
    BY <1>3, <1>4
  <2>3. (\E i, j \in Left' : i # j /\ ~Overloads(Found(i)') /\ ~Overloads(Found(j)')) <=>
          \E i, j \in Left : i # j /\ ~Overloads(Found(i)) /\ ~Overloads(Found(j))
    <3>1. ASSUME NEW i \in Left, NEW j \in Left, i # j, ~Overloads(Found(i)), ~Overloads(Found(j))
          PROVE  \E k, l \in Left' : k # l /\ ~Overloads(Found(k)') /\ ~Overloads(Found(l)')
      <4>1. PICK k \in Left', l \in Left' : Found(k)' = Found(i) /\ Found(l)' = Found(j)
        BY <1>3
      <4>2. Found(i) # Found(j)
        BY <1>2, <1>7, <3>1 DEF ScannedInv, Same
      <4> QED BY <3>1, <4>1, <4>2
    <3>2. ASSUME NEW i \in Left', NEW j \in Left', i # j,
                 ~Overloads(Found(i)'), ~Overloads(Found(j)')
          PROVE  \E k, l \in Left : k # l /\ ~Overloads(Found(k)) /\ ~Overloads(Found(l))
      BY <1>4, <3>2
    <3> QED BY <3>1, <3>2
  <2> QED BY <1>1, <1>2, <1>7, <2>1, <2>2, <2>3 DEF ScannedInv, FlagsExact, Overloads
<1>11. ScannedInv'
  <2>1. \A i, j \in Left' : Same(Found(i)', Found(j)') => i = j
    BY <1>2, <1>4, <1>7 DEF ScannedInv
  <2>2. \A i \in Left' : ~HiddenIn(Found(i)', found)
    BY <1>2, <1>4, <1>7 DEF ScannedInv
  <2>3. \A i \in Left' : Found(i)'.invalid => Left' = {i}
    BY <1>2, <1>4, <1>7 DEF ScannedInv
  <2>4. next' > Len(decls')
    BY <1>1, <1>2, <1>3, <1>5 DEF ScannedInv
  <2> QED BY <1>1, <1>2, <1>6, <1>7, <1>10, <2>1, <2>2, <2>3, <2>4, AllUnchanged DEF ScannedInv, Same
<1>12. KindInv'
  BY <1>1, <1>2, <1>6, KindInScan DEF Scanning, KindInv
<1> QED BY <1>1, <1>8, <1>9, <1>11, <1>12 DEF ResultInv, Scanning

\* The flags say the same as the declarations that are left.
LEMMA DecisionFacts ==
  ASSUME ResultInv, pc = "remove", removed = {}
  PROVE  /\ ~IsAmbiguous => Decision = Classified
         /\ IsAmbiguous => /\ Decision \in References
                           /\ \E i, j \in DOMAIN decls :
                                i # j /\ ~(Overloads(Found(i)) /\ Overloads(Found(j)))
         /\ lookup.hideTags /\ ~IsAmbiguous =>
              \A i, j \in DOMAIN decls : i # j => Overloads(Found(i)) /\ Overloads(Found(j))
<1> DEFINE over(i) == Overloads(Found(i))
<1>1. TypeInv /\ ScannedInv
  BY DEF ResultInv, Scanning
<1>2. /\ Len(decls) \in Nat /\ DOMAIN decls = 1 .. Len(decls)
      /\ next \in Nat /\ next > Len(decls)
  BY <1>1, FoundIn DEF TypeInv, ScannedInv
<1>3. Scanned = DOMAIN decls
  <2>1. \A i \in 1 .. Len(decls) : i < next
    BY <1>2
  <2> QED BY <1>2, <2>1 DEF Scanned, Left
<1>4. /\ \A sort \in Functions \cup {"unresolved"} :
           sort \in seen <=> \E i \in DOMAIN decls : Found(i).kind = sort
      /\ ("tag" \in seen \/ nonFunction # {}) <=> \E i \in DOMAIN decls : ~over(i)
      /\ (ambiguous \/ ("tag" \in seen /\ nonFunction # {})) <=>
           \E i, j \in DOMAIN decls : i # j /\ ~over(i) /\ ~over(j)
  BY <1>1, <1>3 DEF ScannedInv, FlagsExact
<1>5. (HasFunction \/ "unresolved" \in seen) <=> \E i \in DOMAIN decls : over(i)
  BY <1>4 DEF HasFunction, Overloads
<1> HIDE DEF over
<1>6. ASSUME IsAmbiguous PROVE \E i, j \in DOMAIN decls : i # j /\ ~(over(i) /\ over(j))
  <2>1. CASE \E i, j \in DOMAIN decls : i # j /\ ~over(i) /\ ~over(j)
    BY <2>1
  <2>2. CASE (\E i \in DOMAIN decls : ~over(i)) /\ (\E j \in DOMAIN decls : over(j))
    BY <2>2
  <2> QED BY <1>4, <1>5, <1>6, <2>1, <2>2 DEF IsAmbiguous
<1>7. ASSUME lookup.hideTags, ~IsAmbiguous, NEW i \in DOMAIN decls, NEW j \in DOMAIN decls, i # j
      PROVE  over(i) /\ over(j)
  <2>1. ~over(i) => ~over(j)
    BY <1>4, <1>5, <1>7 DEF IsAmbiguous
  <2>2. ~over(j) => ~over(i)
    BY <1>4, <1>5, <1>7 DEF IsAmbiguous
  <2>3. over(i) \/ over(j)
    BY <1>4, <1>5, <1>7 DEF IsAmbiguous
  <2> QED BY <2>1, <2>2, <2>3
<1>8. ~IsAmbiguous => Decision = Classified
  BY <1>4 DEF Decision, Classified, Functions
<1>9. IsAmbiguous => Decision \in References
  BY DEF Decision, References
<1> QED BY <1>6, <1>7, <1>8, <1>9 DEF over

LEMMA DecideStep ==
  ASSUME ResultInv, Decide
  PROVE  ResultInv' /\ (lookup.hideTags /\ resolved => kind' = kind)
<1>1. /\ pc = "remove" /\ removed = {} /\ pc' = "done" /\ resolved' = TRUE /\ kind' = Decision
      /\ UNCHANGED <<lookup, found, decls, removed>>
  BY DEF Decide, Return
<1>2. TypeInv /\ Represented /\ KindInv /\ ScannedInv /\ decls \in Lists
  BY <1>1 DEF ResultInv, Scanning, TypeInv
<1>3. /\ Len(decls) \in Nat /\ DOMAIN decls = 1 .. Len(decls) /\ Left = DOMAIN decls /\ decls # <<>>
      /\ Len(decls) > 0
  BY <1>1, <1>2, FoundIn DEF ScannedInv, Left
<1>4. Scanned = DOMAIN decls
  <2>1. next \in Nat /\ next > Len(decls)
    BY <1>1, <1>2 DEF ScannedInv
  <2>2. \A i \in 1 .. Len(decls) : i < next
    BY <1>3, <2>1
  <2> QED BY <1>3, <2>2 DEF Scanned
<1>5. /\ \A i, j \in DOMAIN decls : Same(Found(i), Found(j)) => i = j
      /\ \A i \in DOMAIN decls :
           ~HiddenIn(Found(i), found) /\ (Found(i).invalid => DOMAIN decls = {i})
      /\ kind \notin Ambiguities
  BY <1>2, <1>3, <1>4 DEF ScannedInv
<1>6. \A i \in DOMAIN decls : ~Found(i).invalid => Found(i) \in Visible
  BY <1>2, <1>5 DEF TypeInv, Visible, VisibleIn, ValidIn, Found
<1>7. NoEquivalents /\ Valid # {} => \A i \in DOMAIN decls : Found(i) \in Visible
  <2>1. SUFFICES ASSUME NoEquivalents, Valid # {}, NEW i \in DOMAIN decls, Found(i).invalid
                 PROVE  FALSE
    BY <1>6
  <2>2. PICK d \in Visible : TRUE
    BY <1>2, <2>1, VisibleFacts DEF Visible, Valid, TypeInv
  <2>3. PICK k \in DOMAIN decls : StandsFor(Found(k), d)
    BY <1>2, <1>3, <2>1, <2>2 DEF Represented
  <2>4. k = i
    BY <1>5, <2>1
  <2>5. ~Found(k).invalid
    BY <2>3 DEF StandsFor
  <2> QED BY <2>1, <2>4, <2>5
<1>8. Len(decls) > 1 => \A i \in DOMAIN decls : ~Found(i).invalid
  <2>1. SUFFICES ASSUME Len(decls) > 1, NEW i \in DOMAIN decls, Found(i).invalid PROVE FALSE
    OBVIOUS
  <2>2. 1 \in DOMAIN decls /\ 2 \in DOMAIN decls
    BY <1>3, <2>1
  <2>3. \A k \in DOMAIN decls : k = i
    BY <1>5, <2>1
  <2> QED BY <2>2, <2>3
<1>9. /\ ~IsAmbiguous => Decision = Classified
      /\ IsAmbiguous => /\ Decision \in References
                        /\ \E i, j \in DOMAIN decls :
                             i # j /\ ~(Overloads(Found(i)) /\ Overloads(Found(j)))
      /\ lookup.hideTags /\ ~IsAmbiguous =>
           \A i, j \in DOMAIN decls : i # j => Overloads(Found(i)) /\ Overloads(Found(j))
  BY <1>1, DecisionFacts
<1>10. Decision \in References =>
         Len(decls) > 1 /\ (NoEquivalents /\ Valid # {} => Conflict)
  <2>1. SUFFICES ASSUME Decision \in References
                 PROVE  Len(decls) > 1 /\ (NoEquivalents /\ Valid # {} => Conflict)
    OBVIOUS
  <2>2. IsAmbiguous
    BY <1>9, <2>1 DEF Classified, References
  <2>3. PICK i \in DOMAIN decls, j \in DOMAIN decls :
          i # j /\ ~(Overloads(Found(i)) /\ Overloads(Found(j)))
    BY <1>9, <2>2
  <2>4. Len(decls) > 1
    BY <1>3, <2>3
  <2>5. ~Same(Found(i), Found(j))
    BY <1>5, <2>3
  <2> QED BY <1>7, <2>3, <2>4, <2>5 DEF Conflict
<1>11. Decision \in {"Found", "FoundOverloaded", "FoundUnresolvedValue"} \cup References
  BY DEF Decision, References
<1>12. Decision \notin Ambiguities => ~IsAmbiguous
  BY <1>9 DEF Ambiguities
<1>13. \A i : Found(i)' = Found(i)
  BY <1>1 DEF Found
<1>14. Visible' = Visible /\ Valid' = Valid /\ (NoEquivalents' <=> NoEquivalents)
       /\ (Conflict' <=> Conflict)
  BY <1>1, ConflictUnchanged
<1>15. Classified' = Classified
  BY <1>1, <1>13 DEF Classified
<1>16. Settled'
  BY <1>1, <1>5, <1>7, <1>8, <1>9, <1>12, <1>13, <1>14, <1>15 DEF Settled, Same, Overloads
<1>17. KindInv'
  BY <1>1, <1>3, <1>10, <1>11, <1>14, <1>16
     DEF KindInv, Failures, References, Subobjects, Ambiguities
<1>18. TypeInv'
  BY <1>1, <1>2 DEF TypeInv
<1>19. Represented'
  BY <1>1, <1>2, <1>13, <1>14, AllUnchanged DEF Represented, Left
<1>20. ASSUME lookup.hideTags, resolved PROVE kind' = kind
  <2>1. Settled
    BY <1>2, <1>20 DEF KindInv
  <2>2. ~IsAmbiguous
    BY <1>5, <1>9, <1>20, <2>1 DEF Settled
  <2> QED BY <1>1, <1>3, <1>5, <1>9, <2>1, <2>2 DEF Settled
<1> QED BY <1>1, <1>17, <1>18, <1>19, <1>20 DEF ResultInv, Scanning

LEMMA FastCaseStep ==
  ASSUME ResultInv, FastCase
  PROVE  ResultInv' /\ (resolved => kind' = kind)
<1>1. /\ pc = "begin" /\ removed = {} /\ removed' = {} /\ pc' = "done" /\ resolved' = TRUE
      /\ kind' = FastKind /\ (Len(decls) <= 1 \/ kind \in Ambiguities)
      /\ UNCHANGED <<lookup, found, decls>>
  BY DEF FastCase, Return, ResultInv, TypeInv, Scanning
<1>2. TypeInv /\ Represented /\ KindInv /\ decls \in Lists /\ (resolved => Settled)
  BY <1>1 DEF ResultInv, TypeInv, KindInv, Scanning
<1>3. /\ Len(decls) \in Nat /\ DOMAIN decls = 1 .. Len(decls) /\ Left = DOMAIN decls
      /\ (decls = <<>> <=> Len(decls) = 0)
  BY <1>1, <1>2, FoundIn DEF Left, Lists
<1>4. \A i : Found(i)' = Found(i)
  BY <1>1 DEF Found
<1>5. Visible' = Visible /\ Valid' = Valid /\ (NoEquivalents' <=> NoEquivalents)
      /\ (Conflict' <=> Conflict)
  BY <1>1, ConflictUnchanged
<1>6. TypeInv'
  BY <1>1, <1>2 DEF TypeInv
<1>7. Represented'
  BY <1>1, <1>2, <1>4, <1>5, AllUnchanged DEF Represented, Left
<1>8. kind \in Ambiguities => kind \in References /\ Len(decls) > 1 /\ resolved
  BY <1>1, <1>2 DEF KindInv, Ambiguities
<1>9. CASE kind \in Ambiguities
  <2>1. kind' = kind /\ resolved
    BY <1>1, <1>3, <1>8, <1>9 DEF FastKind
  <2>2. Settled'
    BY <1>1, <1>2, <2>1, SettledUnchanged
  <2>3. KindInv'
    BY <1>1, <1>2, <1>5, <1>8, <1>9, <2>1, <2>2 DEF KindInv, Ambiguities, References, Subobjects
  <2> QED BY <1>1, <1>6, <1>7, <2>1, <2>3 DEF ResultInv, Scanning
<1>10. CASE kind \notin Ambiguities /\ Len(decls) = 0
  <2>1. kind' = kind /\ kind \in Failures
    BY <1>1, <1>2, <1>3, <1>10 DEF FastKind, KindInv
  <2>2. DOMAIN decls' = {} /\ decls' = <<>>
    BY <1>1, <1>3, <1>10
  <2>3. Settled'
    BY <1>1, <1>10, <2>2 DEF Settled
  <2>4. KindInv'
    BY <1>1, <1>2, <2>1, <2>2, <2>3 DEF KindInv, Ambiguities, References, Subobjects, Failures
  <2> QED BY <1>1, <1>6, <1>7, <2>1, <2>4 DEF ResultInv, Scanning
<1>11. CASE kind \notin Ambiguities /\ Len(decls) = 1
  <2>1. DOMAIN decls = {1} /\ decls # <<>>
    BY <1>3, <1>11
  <2>2. FastKind = Classified
    <3>1. ~resolved => kind = "Found"
      BY <1>2, <1>11, <2>1 DEF KindInv, Ambiguities
    <3>2. resolved => kind = Classified
      BY <1>2, <1>11, <2>1 DEF Settled
    <3> QED BY <1>11, <2>1, <3>1, <3>2 DEF FastKind, Classified
  <2>3. resolved => kind' = kind
    BY <1>1, <1>2, <1>11, <2>1, <2>2 DEF Settled
  <2>4. NoEquivalents /\ Valid # {} => Found(1) \in Visible
    <3>1. SUFFICES ASSUME NoEquivalents, Valid # {} PROVE Found(1) \in Visible
      OBVIOUS
    <3>2. PICK d \in Visible : TRUE
      BY <1>2, <3>1, VisibleFacts DEF Visible, Valid, TypeInv
    <3>3. StandsFor(Found(1), d) /\ ~HiddenIn(Found(1), found)
      BY <1>2, <1>3, <2>1, <3>1, <3>2 DEF Represented
    <3> QED BY <1>2, <2>1, <3>3 DEF TypeInv, StandsFor, Visible, VisibleIn, ValidIn, Found
  <2>5. Classified' = Classified
    BY <1>1, <1>4 DEF Classified
  <2>6. Settled'
    BY <1>1, <1>4, <1>5, <1>11, <2>1, <2>2, <2>4, <2>5 DEF Settled
  <2>7. Classified \in {"Found", "FoundOverloaded", "FoundUnresolvedValue"}
    BY DEF Classified
  <2>8. KindInv'
    BY <1>1, <2>1, <2>2, <2>6, <2>7 DEF KindInv, Ambiguities, References, Subobjects, Failures
  <2> QED BY <1>1, <1>6, <1>7, <2>3, <2>8 DEF ResultInv, Scanning
<1> QED BY <1>1, <1>3, <1>9, <1>10, <1>11

-----------------------------------------------------------------------------
(***************************************************************************)
(* The theorems.                                                           *)
(***************************************************************************)
LEMMA InitInv ==
  ASSUME Empty
  PROVE  ResultInv
<1>1. /\ found = <<>> /\ decls = <<>> /\ kind = "NotFound" /\ pc = "done" /\ resolved = FALSE
      /\ removed = {} /\ DOMAIN decls = {} /\ DOMAIN found = {} /\ Len(found) = 0 /\ Len(decls) = 0
  BY DEF Empty
<1>2. TypeInv
  <2>1. <<>> \in Lists
    BY DEF Lists
  <2>2. found \in Lists /\ decls \in Lists
    BY <1>1, <2>1
  <2>3. resolved \in BOOLEAN
    BY <1>1, Zenon
  <2>4. /\ Len(decls) <= Len(found) /\ removed \subseteq DOMAIN decls
        /\ pc \in {"begin", "scan", "remove", "done"}
    BY <1>1
  <2>5. \A i \in DOMAIN decls : \E k \in DOMAIN found : decls[i] = found[k]
    BY <1>1
  <2> QED BY <1>1, <2>2, <2>3, <2>4, <2>5 DEF TypeInv
<1>3. Visible = {}
  BY <1>1 DEF Visible, VisibleIn, ValidIn
<1>4. KindInv
  BY <1>1 DEF KindInv, Failures, Ambiguities, References, Subobjects
<1> QED BY <1>1, <1>2, <1>3, <1>4 DEF ResultInv, Represented, Scanning

LEMMA NoStep ==
  ASSUME ResultInv, UNCHANGED resolution
  PROVE  ResultInv'
<1>1. UNCHANGED <<lookup, found, decls, kind, pc, resolved, next, removed, uniqueTypes, unique,
                  seen, nonFunction, ambiguous>>
  BY DEF resolution, result, unique2, flags
<1>2. /\ \A i : Found(i)' = Found(i)
      /\ Left' = Left /\ Scanned' = Scanned /\ (Scanning' <=> Scanning)
  BY <1>1 DEF Found, Left, Scanned, Scanning
<1>3. /\ Visible' = Visible /\ Valid' = Valid /\ (NoEquivalents' <=> NoEquivalents)
      /\ (Conflict' <=> Conflict)
  BY <1>1, ConflictUnchanged
<1>4. TypeInv' /\ Represented'
  BY <1>1, <1>2, <1>3, AllUnchanged DEF ResultInv, TypeInv, Represented
<1>5. KindInv'
  BY <1>1, <1>2, <1>3, SettledUnchanged DEF ResultInv, KindInv
<1>6. pc = "begin" => HidersClose'
  BY <1>1, <1>2, AllUnchanged DEF ResultInv, HidersClose, Hides, canHideTag
<1>7. pc = "scan" => IndexesInv' /\ Stays' /\ HidersAhead'
  <2>1. SUFFICES ASSUME pc = "scan" PROVE IndexesInv' /\ Stays' /\ HidersAhead'
    OBVIOUS
  <2>2. IndexesInv'
    BY <1>1, <1>2, <1>3, <2>1 DEF ResultInv, IndexesInv, Same
  <2>3. Stays'
    BY <1>1, <1>2, <2>1 DEF ResultInv, Stays, canHideTag
  <2>4. HidersAhead'
    BY <1>1, <1>2, <2>1, AllUnchanged DEF ResultInv, HidersAhead, Hides, canHideTag
  <2> QED BY <2>2, <2>3, <2>4
<1>8. Scanning => ScannedInv'
  <2>1. SUFFICES ASSUME Scanning PROVE ScannedInv'
    OBVIOUS
  <2>2. FlagsExact'
    BY <1>1, <1>2, <2>1 DEF ResultInv, ScannedInv, FlagsExact, Overloads
  <2> QED BY <1>1, <1>2, <2>1, <2>2, AllUnchanged DEF ResultInv, ScannedInv, Same
<1> QED BY <1>1, <1>2, <1>4, <1>5, <1>6, <1>7, <1>8 DEF ResultInv

LEMMA StepInv ==
  ASSUME ResultInv, [resolveKind \/ Use]_resolution
  PROVE  ResultInv'
BY NoStep, UseStep, FastCaseStep, BeginScanStep, RemoveCurrentStep, MergeStep, ClassifyStep,
   EndScanStep, RemoveStep, DecideStep DEF resolveKind

\* The inductive invariant of a result, whatever its user adds to it and resolves.
THEOREM ResultInvAlways == ResultSpec => []ResultInv
<1>1. Empty => ResultInv
  BY InitInv
<1>2. ResultInv /\ [resolveKind \/ Use]_resolution => ResultInv'
  BY StepInv
<1> QED BY <1>1, <1>2, PTL DEF ResultSpec

LEMMA ResolvedSettled ==
  ASSUME ResultInv, Resolved
  PROVE  /\ Settled /\ KindInv /\ TypeInv /\ Left = DOMAIN decls
         /\ NoEquivalents => \A d \in Visible : \E i \in DOMAIN decls : StandsFor(Found(i), d)
<1>1. pc = "done" /\ resolved /\ ~Scanning /\ removed = {} /\ TypeInv /\ KindInv
  BY DEF ResultInv, Resolved, Scanning, TypeInv
<1>2. Left = DOMAIN decls
  BY <1>1 DEF Left
<1> QED BY <1>1, <1>2 DEF ResultInv, KindInv, Represented

\* When some declaration is valid, a resolved result has one declaration for each entity that
\* is not hidden, and none twice; a function is represented by the declaration that needs the
\* fewest arguments, and among those by the newest (resolveKind, isPreferredLookupResult):
\* for every set of declarations and whatever the lookup collects, in any order.
THEOREM EveryEntityKept == ResultSpec => []EntitiesKept
<1>1. ASSUME ResultInv PROVE EntitiesKept
  <2>1. SUFFICES ASSUME Resolved, Valid # {}, NoEquivalents
                 PROVE  /\ \A d \in Visible : \E i \in DOMAIN decls : Same(Found(i), d)
                        /\ \A i \in DOMAIN decls :
                             /\ Found(i) \in Visible
                             /\ \A j \in DOMAIN decls : Same(Found(i), Found(j)) => i = j
                             /\ lookup.kind # "LookupUsingDeclName" /\ Found(i).kind = "function" =>
                                  \A d \in Visible : d.entity = Found(i).entity => AsGood(Found(i), d)
    BY DEF EntitiesKept
  <2>2. /\ Settled /\ TypeInv
        /\ \A d \in Visible : \E i \in DOMAIN decls : StandsFor(Found(i), d)
    BY <1>1, <2>1, ResolvedSettled
  <2>3. /\ \A i \in DOMAIN decls : Found(i) \in Decls
        /\ Visible \subseteq Decls
    BY <2>2, FoundIn, VisibleFacts DEF TypeInv, Visible
  <2>4. ASSUME NEW i \in DOMAIN decls, NEW d \in Visible, d.entity = Found(i).entity,
               lookup.kind # "LookupUsingDeclName", Found(i).kind = "function"
        PROVE  AsGood(Found(i), d)
    <3>1. d \in Decls /\ Found(i) \in Decls /\ d.kind = "function"
      BY <2>3, <2>4, DeclFacts
    <3>2. PICK k \in DOMAIN decls : StandsFor(Found(k), d)
      BY <2>2, <2>4
    <3>3. Found(k) \in Decls /\ Same(Found(k), d) /\ Same(d, Found(i))
      BY <2>3, <2>4, <3>2 DEF StandsFor, Same
    <3>4. Same(Found(k), Found(i))
      BY <3>1, <3>3, SameTransitive
    <3>5. k = i
      BY <2>2, <3>4 DEF Settled
    <3> QED BY <2>4, <3>1, <3>2, <3>5 DEF StandsFor
  <2> QED BY <2>1, <2>2, <2>4 DEF StandsFor, Settled
<1> QED BY <1>1, ResultInvAlways, PTL

\* The classification of a resolved result fits the declarations that are left, and a lookup
\* that hides tags is an ambiguous reference exactly when two visible entities do not overload
\* (resolveKind, checkDebugAssumptions): the flags of the scan say the same as the set.
THEOREM AmbiguityExactAlways == ResultSpec => []AmbiguityExact
<1>1. ASSUME ResultInv, Resolved
      PROVE  /\ kind = "NotFound" => decls = <<>>
             /\ kind = "Found" => Len(decls) = 1
             /\ kind = "FoundOverloaded" =>
                  Len(decls) > 1 \/ (Len(decls) = 1 /\ Found(1).kind = "template")
             /\ kind \in Ambiguities => Len(decls) > 1 \/ (kind \in Subobjects /\ Len(decls) = 1)
             /\ lookup.hideTags /\ Valid # {} /\ NoEquivalents /\ kind \notin Subobjects =>
                  (kind \in References <=> Conflict)
  <2>1. /\ Settled /\ KindInv /\ TypeInv /\ resolved
        /\ NoEquivalents => \A d \in Visible : \E i \in DOMAIN decls : StandsFor(Found(i), d)
    BY <1>1, ResolvedSettled DEF Resolved
  <2>2. /\ Len(decls) \in Nat /\ DOMAIN decls = 1 .. Len(decls)
        /\ (decls = <<>> <=> Len(decls) = 0)
        /\ \A i \in DOMAIN decls : Found(i) \in Decls
        /\ Visible \subseteq Decls
    BY <2>1, FoundIn, VisibleFacts DEF TypeInv, Visible, Lists
  <2>3. kind \in Failures <=> decls = <<>>
    BY <2>1 DEF KindInv
  <2>4. ASSUME kind \in {"Found", "FoundOverloaded"} PROVE kind = Classified /\ Len(decls) > 0
    <3>1. kind \notin Ambiguities /\ kind \notin Failures
      BY <2>4 DEF Ambiguities, References, Subobjects, Failures
    <3> QED BY <2>1, <2>2, <2>3, <3>1 DEF Settled
  <2>5. kind = "Found" => Len(decls) = 1
    BY <2>2, <2>4 DEF Classified
  <2>6. ASSUME kind = "FoundOverloaded"
        PROVE  Len(decls) > 1 \/ (Len(decls) = 1 /\ Found(1).kind = "template")
    <3>1. Len(decls) > 1 \/ \E i \in 1 .. Len(decls) : Found(i).kind = "template"
      BY <2>2, <2>4, <2>6 DEF Classified
    <3> QED BY <2>2, <2>4, <2>6, <3>1
  <2>7. ASSUME kind \in Ambiguities
        PROVE  Len(decls) > 1 \/ (kind \in Subobjects /\ Len(decls) = 1)
    <3>1. Len(decls) > 0
      BY <2>2, <2>3, <2>7 DEF Ambiguities, References, Subobjects, Failures
    <3> QED BY <2>1, <2>2, <2>7, <3>1 DEF KindInv, Ambiguities
  <2>8. ASSUME lookup.hideTags, Valid # {}, NoEquivalents, kind \notin Subobjects, Conflict
        PROVE  kind \in References
    <3>1. SUFFICES ASSUME kind \notin References PROVE FALSE
      OBVIOUS
    <3>2. kind \notin Ambiguities
      BY <2>1, <2>8, <3>1 DEF KindInv, Ambiguities
    <3>3. \A i, j \in DOMAIN decls : i # j => Overloads(Found(i)) /\ Overloads(Found(j))
      BY <2>1, <2>8, <3>2 DEF Settled
    <3>4. PICK d \in Visible, e \in Visible : ~Same(d, e) /\ ~(Overloads(d) /\ Overloads(e))
      BY <2>8 DEF Conflict
    <3>5. PICK i \in DOMAIN decls, j \in DOMAIN decls :
            StandsFor(Found(i), d) /\ StandsFor(Found(j), e)
      BY <2>1, <2>8
    <3>6. /\ Same(Found(i), d) /\ Same(Found(j), e) /\ Same(d, Found(i))
          /\ (Overloads(Found(i)) <=> Overloads(d)) /\ (Overloads(Found(j)) <=> Overloads(e))
          /\ d \in Decls /\ e \in Decls /\ Found(i) \in Decls /\ Found(j) \in Decls
      BY <2>2, <3>5, SameFacts DEF StandsFor
    <3>7. CASE i = j
      <4>1. Same(d, e)
        BY <3>6, <3>7, SameTransitive
      <4> QED BY <3>4, <4>1
    <3>8. CASE i # j
      BY <3>3, <3>4, <3>6, <3>8
    <3> QED BY <3>7, <3>8
  <2>9. lookup.hideTags /\ Valid # {} /\ NoEquivalents /\ kind \in References => Conflict
    BY <2>1 DEF KindInv
  <2> QED BY <2>3, <2>5, <2>6, <2>7, <2>8, <2>9 DEF Failures
<1>2. Conflict <=>
        LET visible == Visible
        IN \E d, e \in visible :
             ~Same(d, e) /\ ~({d.kind, e.kind} \subseteq Functions \cup {"unresolved"})
  BY DEF Conflict, Overloads
<1>3. ResultInv => AmbiguityExact
  BY <1>1, <1>2 DEF AmbiguityExact
<1> QED BY <1>3, ResultInvAlways, PTL

\* Resolving a resolved result again does not change it, when the lookup hides tags
\* (CppNamespaceLookup and its caller both call resolveKind).
THEOREM ResolvedAgainSame == ResultSpec => ResolvedStable
<1>1. ASSUME ResultInv, [resolveKind \/ Use]_resolution
      PROVE  [lookup.hideTags /\ resolved /\ pc # "done" /\ pc' = "done" => kind' = kind]_resolution
  <2>1. CASE FastCase \/ Decide
    BY <1>1, <2>1, FastCaseStep, DecideStep
  <2>2. CASE Use
    BY <2>2 DEF Use
  <2>3. CASE BeginScan \/ RemoveCurrent \/ Merge \/ Classify \/ EndScan \/ Remove
    <3>1. pc' # "done"
      BY <2>3 DEF BeginScan, RemoveCurrent, Merge, Classify, EndScan, Remove, Looking
    <3> QED BY <3>1
  <2> QED BY <1>1, <2>1, <2>2, <2>3 DEF resolveKind
<1> QED BY <1>1, ResultInvAlways, PTL DEF ResultSpec, ResolvedStable

-----------------------------------------------------------------------------
(***************************************************************************)
(* The walk: its inductive invariant.                                      *)
(***************************************************************************)
Files == FilesOf(P)
Everywhere == ListsOf(P)
NotFile(i) == ~IsFileScope(i)
\* The lists that have what hides a tag of them.

\* A declaration in the result comes from a context or a block and is accepted, or it is the
\* builtin for want of an accepted declaration of the translation unit.
Whole == IF lookup.kind = "LookupRedeclarationWithLinkage" THEN ContextLists(P) ELSE Tables(P)
InContexts(d) == \E s \in ContextLists(P) : d \in Range(s)
InBlocks(d) == \E s \in Everywhere \ ContextLists(P) : d \in Range(s)
ForWant(d) ==
  d \in Range(BuiltinDecl) /\ \A c \in Contexts : P.contexts[c].kind = "tu" =>
                                \A e \in Range(P.contexts[c].decls) : ~Accepted(e, IDNS)
Sourced(d) == ForWant(d) \/ (Accepted(d, IDNS) /\ (InContexts(d) \/ InBlocks(d)))
\* Whatever may hide a tag of a context is in the result with it, near it in what is added at
\* once; a tag of a block, when more is collected, is not hidden by what is found elsewhere.
MayHide(e, d) == Hider(e, d) /\ Accepted(e, IDNS) /\ (InContexts(e) \/ InBlocks(e))
HiderNear(x, i) == \E j \in DOMAIN x : Near(x, j, i)
Covered(x) ==
  /\ x \in Lists
  /\ \A i \in DOMAIN x :
       /\ ForWant(x[i]) \/ (Accepted(x[i], IDNS) /\ InContexts(x[i]))
       /\ IsTag(x[i]) => \A e \in DOMAIN Declared : MayHide(e, x[i]) => HiderNear(x, i)
HiderIn(f, d) == \E h \in Range(f) : Hider(h, d)
Collected(f) ==
  \A d \in Range(f) :
    /\ Sourced(d)
    /\ IsTag(d) => \/ InBlocks(d) /\ WithLinkage
                   \/ \A e \in DOMAIN Declared : MayHide(e, d) => HiderIn(f, d)
\* What is added hides no tag that is not hidden, and what hides a tag of it is near the tag.
Fits(f, x) ==
  /\ \A d \in Range(f) : IsTag(d) => \A e \in Range(x) : Hider(e, d) => HiderIn(f, d)
  /\ \A i \in DOMAIN x : IsTag(x[i]) =>
       \A e \in Range(f) \cup Range(x) : Hider(e, x[i]) => HiderNear(x, i)
OutOfBlocks(f) == \A d \in Range(f) : ForWant(d) \/ InContexts(d)
CloseTo(s, f) ==
  \A i \in DOMAIN s : HiddenIn(Declared[s[i]], f) => HiderNear(s, i)

\* Where the walk is, and what its marks and tables hold.
PlaceInv ==
  /\ lookup \in Requests
  /\ walk \in {"start", "scope", "context", "looked", "namespaces", "namespaceContext",
               "namespaceLooked", "qualified", "clash", "directives", "directiveLooked",
               "lexical", "failed", "returned"}
  /\ scope \in 1 .. Len(P.scopes) + 1 /\ ctx \in Contexts \cup {NoContext}
  /\ here \in BOOLEAN /\ localExtern \in BOOLEAN
  /\ walk \in {"start", "scope", "context", "looked", "qualified"} =>
       scope <= Len(P.scopes) /\ \A j \in 1 .. scope - 1 : NotFile(j)
  /\ walk \in {"context", "looked"} \/ (walk = "qualified" /\ Unqualified) => NotFile(scope)
  /\ walk \in {"qualified", "looked", "clash"} => ctx \in Contexts
  /\ walk = "qualified" /\ Unqualified => IsClass(ctx)
  /\ walk \in {"scope", "context", "looked"} => Unqualified
  /\ walk \in {"namespaces", "namespaceContext", "namespaceLooked"} =>
       \E j \in 1 .. scope : j <= Len(P.scopes) /\ IsFileScope(j)
  /\ walk \in {"namespaceContext", "namespaceLooked"} => scope <= Len(P.scopes) /\ begun
  /\ walk = "namespaces" /\ ~begun => scope <= Len(P.scopes)
  /\ walk = "namespaceLooked" => ctx \in Contexts
  /\ walk = "namespaceContext" /\ here => IsFileScope(scope) /\ ctx = P.scopes[scope].entity
Visits == {v \in [ns : Contexts, directive : BOOLEAN, effective : Contexts] : v.directive => v.ns \in Files}
Nominations == [nominated : Files, ancestor : Files]
TablesInv ==
  /\ udirs \in Seq(Nominations) /\ begun \in BOOLEAN /\ visits \in Seq(Visits)
  /\ queue \in Seq(visited) /\ visited \subseteq Contexts

\* What was collected so far, and how it is joined.
NothingHere == here = FALSE
\* The declarations of a scope of a namespace may hide, or have, tags of another opening of it,
\* until its table is looked in: nothing else was collected, and nothing resolved.
OpenScope == walk = "namespaceContext" /\ here = TRUE /\ ~WithLinkage
FoundInv ==
  /\ pc # "done" => walk \in {"looked", "namespaceLooked", "directiveLooked", "clash", "returned"}
  /\ walk # "returned" => kind \notin Subobjects \cup {"AmbiguousTagHiding"}
  /\ walk \in {"looked", "namespaceLooked", "directiveLooked", "clash"} /\ pc = "done" => resolved
  /\ walk \in {"directiveLooked", "clash"} => found # <<>>
  /\ walk \notin {"clash", "returned"} => Collected(found) \/ OpenScope
  /\ OpenScope => decls = found /\ found = LocalDecls
  /\ ~Scanning => HidersClose
PassedInv ==
  /\ walk \in {"start", "lexical"} \/ (walk = "scope" /\ scope = 1) => found = <<>>
  /\ walk = "qualified" /\ ~Unqualified => found = <<>>
  /\ walk \in {"scope", "context", "qualified", "namespaces", "failed"}
       \/ (walk \in {"looked", "namespaceContext", "namespaceLooked"} /\ NothingHere) =>
       /\ found # <<>> => WithLinkage
       /\ \A d \in Range(found) : \E i \in DOMAIN P.scopes : NotFile(i) /\ d \in Range(P.scopes[i].decls)
NestedInv ==
  /\ enclosed # <<>> =>
       LET f == enclosed[1].found
           s == enclosed[1].decls
       IN /\ walk = "directiveLooked" /\ Len(enclosed) = 1
          /\ f \in Lists \ {<<>>} /\ s \in Lists \ {<<>>} /\ Represents(s, f)
          /\ CloseTo(s, f) /\ Collected(f) /\ OutOfBlocks(f)
  /\ walk \in {"directives", "directiveLooked"} => OutOfBlocks(found)
  /\ foundTags \subseteq BOOLEAN
  /\ walk \notin {"directives", "directiveLooked", "returned"} => foundTags = {}
  /\ walk = "directives" =>
       /\ foundTags # {} => decls # <<>>
       /\ foundTags = BOOLEAN => ~resolved /\ Len(decls) > 1
  /\ walk = "directiveLooked" /\ foundTags # {} => enclosed # <<>>
WalkInv == PlaceInv /\ TablesInv /\ FoundInv /\ PassedInv /\ NestedInv

-----------------------------------------------------------------------------
(***************************************************************************)
(* Lists joined to one, and what is kept of a list.                        *)
(***************************************************************************)
LEMMA UpTo ==
  ASSUME NEW n \in Nat, NEW S, 0 \in S, \A k \in 1 .. n : k - 1 \in S => k \in S
  PROVE  \A k \in 0 .. n : k \in S
<1> DEFINE T == {k \in 0 .. n : k \notin S}
<1>1. SUFFICES ASSUME T # {} PROVE FALSE
  OBVIOUS
<1>2. T \in SUBSET Nat
  OBVIOUS
<1>3. PICK k \in T : \A m \in T : k <= m
  <2> HIDE DEF T
  <2> QED BY <1>1, <1>2, LeastElement
<1>4. k \in 1 .. n /\ k - 1 \in 0 .. n /\ k - 1 \notin T
  BY <1>3
<1> QED BY <1>3, <1>4

\* The lists joined so far, from the first on.
IsJoin(F, l, n, T) ==
  F \in [0 .. n -> Seq(T)] /\ F[0] = <<>> /\ \A k \in 1 .. n : F[k] = F[k - 1] \o l[k]

LEMMA JoinGoesOn ==
  ASSUME NEW T, NEW l \in Seq(Seq(T)), NEW n \in 1 .. Len(l), NEW G, IsJoin(G, l, n - 1, T)
  PROVE  \E H : IsJoin(H, l, n, T)
<1> DEFINE H == [k \in 0 .. n |-> IF k = n THEN G[n - 1] \o l[n] ELSE G[k]]
<1>1. /\ Len(l) \in Nat /\ l[n] \in Seq(T) /\ n \in Nat /\ n > 0
      /\ \A k \in 0 .. n : k = n \/ k \in 0 .. n - 1
  OBVIOUS
<1>2. /\ G \in [0 .. n - 1 -> Seq(T)] /\ G[0] = <<>>
      /\ \A k \in 1 .. n - 1 : G[k] = G[k - 1] \o l[k]
  BY DEF IsJoin
<1>3. G[n - 1] \in Seq(T) /\ G[n - 1] \o l[n] \in Seq(T)
  <2>1. n - 1 \in 0 .. n - 1
    BY <1>1
  <2>2. G[n - 1] \in Seq(T)
    BY <1>2, <2>1
  <2> QED BY <1>1, <2>2
<1>4. H[n] = G[n - 1] \o l[n] /\ \A k \in 0 .. n - 1 : H[k] = G[k]
  <2>1. H[n] = G[n - 1] \o l[n]
    <3>1. n \in 0 .. n
      BY <1>1
    <3> QED BY <3>1, Zenon
  <2>2. ASSUME NEW k \in 0 .. n - 1 PROVE H[k] = G[k]
    <3>1. k \in 0 .. n /\ k # n
      BY <1>1
    <3> QED BY <3>1
  <2> QED BY <2>1, <2>2
<1>5. H \in [0 .. n -> Seq(T)]
  <2>1. \A k \in 0 .. n : (IF k = n THEN G[n - 1] \o l[n] ELSE G[k]) \in Seq(T)
    BY <1>1, <1>2, <1>3
  <2> QED BY <2>1
<1> HIDE DEF H
<1>6. ASSUME NEW k \in 1 .. n PROVE H[k] = H[k - 1] \o l[k]
  <2>1. CASE k = n
    <3>1. H[n - 1] = G[n - 1]
      BY <1>1, <1>4
    <3> QED BY <1>4, <2>1, <3>1
  <2>2. CASE k # n
    <3>1. k \in 1 .. n - 1 /\ k \in 0 .. n - 1 /\ k - 1 \in 0 .. n - 1
      BY <1>1, <2>2
    <3>2. H[k] = G[k] /\ H[k - 1] = G[k - 1]
      BY <1>4, <3>1
    <3>3. G[k] = G[k - 1] \o l[k]
      BY <1>2, <3>1
    <3> QED BY <3>2, <3>3
  <2> QED BY <2>1, <2>2
<1>7. H[0] = <<>>
  BY <1>1, <1>2, <1>4
<1>8. IsJoin(H, l, n, T)
  BY <1>5, <1>6, <1>7 DEF IsJoin
<1> QED BY <1>8

LEMMA JoinExists ==
  ASSUME NEW T, NEW l \in Seq(Seq(T))
  PROVE  \E G : IsJoin(G, l, Len(l), T)
<1> DEFINE S == {n \in 0 .. Len(l) : \E G : IsJoin(G, l, n, T)}
<1>1. Len(l) \in Nat
  OBVIOUS
<1>2. 0 \in S
  <2> DEFINE G == [k \in 0 .. 0 |-> <<>>]
  <2>1. G \in [0 .. 0 -> Seq(T)] /\ G[0] = <<>> /\ \A k \in 1 .. 0 : FALSE
    OBVIOUS
  <2>2. IsJoin(G, l, 0, T)
    BY <2>1 DEF IsJoin
  <2> QED BY <1>1, <2>2
<1>3. ASSUME NEW n \in 1 .. Len(l), n - 1 \in S PROVE n \in S
  <2>1. PICK G : IsJoin(G, l, n - 1, T)
    BY <1>3
  <2>2. \E H : IsJoin(H, l, n, T)
    BY <2>1, JoinGoesOn
  <2> QED BY <1>1, <2>2
<1> HIDE DEF S
<1>4. \A k \in 0 .. Len(l) : k \in S
  BY <1>1, <1>2, <1>3, UpTo
<1>5. Len(l) \in S
  BY <1>1, <1>4
<1> QED BY <1>5 DEF S

LEMMA JoinedBySteps ==
  ASSUME NEW T, NEW l \in Seq(Seq(T))
  PROVE  \E F : IsJoin(F, l, Len(l), T) /\ Joined(l) = F[Len(l)]
<1>1. Len(l) \in Nat /\ \A k \in 1 .. Len(l) : l[k] \in Seq(T)
  OBVIOUS
<1>2. PICK G : IsJoin(G, l, Len(l), T)
  BY JoinExists
<1> DEFINE Body(F) == [k \in 0 .. Len(l) |-> IF k = 0 THEN <<>> ELSE F[k - 1] \o l[k]]
<1>3. G = Body(G)
  <2>1. \A k \in 0 .. Len(l) : G[k] = IF k = 0 THEN <<>> ELSE G[k - 1] \o l[k]
    <3> TAKE k \in 0 .. Len(l)
    <3>1. CASE k = 0
      BY <1>2, <3>1 DEF IsJoin
    <3>2. CASE k # 0
      <4>1. k \in 1 .. Len(l)
        BY <1>1, <3>2
      <4> QED BY <1>2, <3>2, <4>1 DEF IsJoin
    <3> QED BY <3>1, <3>2
  <2>2. G \in [0 .. Len(l) -> Seq(T)]
    BY <1>2 DEF IsJoin
  <2> QED BY <2>1, <2>2
<1>4. PICK F : F = Body(F) /\ Joined(l) = F[Len(l)]
  BY <1>3 DEF Joined
<1>5. /\ \A k \in 0 .. Len(l) : F[k] = IF k = 0 THEN <<>> ELSE F[k - 1] \o l[k]
      /\ F = [k \in 0 .. Len(l) |-> F[k]]
  BY <1>1, <1>4
<1>6. F[0] = <<>> /\ \A k \in 1 .. Len(l) : F[k] = F[k - 1] \o l[k]
  <2>1. 0 \in 0 .. Len(l) /\ \A k \in 1 .. Len(l) : k \in 0 .. Len(l) /\ k # 0
    BY <1>1
  <2> QED BY <1>5, <2>1
<1> DEFINE R == {k \in 0 .. Len(l) : F[k] \in Seq(T)}
<1>7. 0 \in R
  <2>1. <<>> \in Seq(T) /\ 0 \in 0 .. Len(l)
    BY <1>1
  <2> QED BY <1>6, <2>1
<1>8. ASSUME NEW k \in 1 .. Len(l), k - 1 \in R PROVE k \in R
  <2>1. F[k - 1] \in Seq(T) /\ l[k] \in Seq(T) /\ k \in 0 .. Len(l)
    BY <1>1, <1>8
  <2>2. F[k - 1] \o l[k] \in Seq(T)
    BY <2>1
  <2> QED BY <1>6, <2>1, <2>2
<1> HIDE DEF R
<1>9. \A k \in 0 .. Len(l) : k \in R
  BY <1>1, <1>7, <1>8, UpTo
<1>10. \A k \in 0 .. Len(l) : F[k] \in Seq(T)
  BY <1>9 DEF R
<1>11. F \in [0 .. Len(l) -> Seq(T)]
  BY <1>5, <1>10
<1>12. IsJoin(F, l, Len(l), T)
  BY <1>6, <1>11 DEF IsJoin
<1> QED BY <1>4, <1>12

\* The elements kept are kept in order, each once: g says where they come from.
KeptFrom(t, s, keep, g) ==
  /\ g \in [1 .. Len(t) -> keep]
  /\ \A x \in 1 .. Len(t) : t[x] = s[g[x]]
  /\ \A x, y \in 1 .. Len(t) : x < y => g[x] < g[y]
  /\ \A i \in keep : \E x \in 1 .. Len(t) : g[x] = i

LEMMA KeptGoesOn ==
  ASSUME NEW T, NEW t \in Seq(T), NEW s, NEW k \in Nat \ {0}, NEW keep \in SUBSET (1 .. k - 1),
         NEW g, KeptFrom(t, s, keep, g)
  PROVE  \E h : KeptFrom(t \o <<s[k]>>, s, keep \cup {k}, h)
<1> DEFINE n == Len(t)
           u == t \o <<s[k]>>
           h == [x \in 1 .. n + 1 |-> IF x = n + 1 THEN k ELSE g[x]]
<1>1. n \in Nat
  OBVIOUS
<1>2. Len(u) = n + 1 /\ u[n + 1] = s[k] /\ \A x \in 1 .. n : u[x] = t[x]
  OBVIOUS
<1>3. \A x \in 1 .. n : g[x] \in keep /\ g[x] < k /\ t[x] = s[g[x]]
  <2> TAKE x \in 1 .. n
  <2>1. g[x] \in keep /\ t[x] = s[g[x]]
    BY DEF KeptFrom
  <2>2. g[x] \in 1 .. k - 1
    BY <2>1
  <2> QED BY <2>1, <2>2
<1>4. h[n + 1] = k /\ \A x \in 1 .. n : h[x] = g[x]
  BY <1>1
<1>5. \A x \in 1 .. n + 1 : x = n + 1 \/ x \in 1 .. n
  BY <1>1
<1>6. h \in [1 .. n + 1 -> keep \cup {k}]
  <2>1. \A x \in 1 .. n + 1 : (IF x = n + 1 THEN k ELSE g[x]) \in keep \cup {k}
    BY <1>3, <1>5
  <2> QED BY <2>1
<1> HIDE DEF h, u, n
<1>7. \A x \in 1 .. n + 1 : u[x] = s[h[x]]
  BY <1>2, <1>3, <1>4, <1>5
<1>8. \A x, y \in 1 .. n + 1 : x < y => h[x] < h[y]
  <2> TAKE x, y \in 1 .. n + 1
  <2>1. HAVE x < y
  <2>2. x \in 1 .. n
    BY <1>1, <2>1
  <2>3. CASE y = n + 1
    BY <1>3, <1>4, <2>2, <2>3
  <2>4. CASE y \in 1 .. n
    BY <1>4, <2>1, <2>2, <2>4 DEF KeptFrom, n
  <2> QED BY <1>5, <2>3, <2>4
<1>9. \A i \in keep \cup {k} : \E x \in 1 .. n + 1 : h[x] = i
  <2> TAKE i \in keep \cup {k}
  <2>1. n + 1 \in 1 .. n + 1 /\ \A x \in 1 .. n : x \in 1 .. n + 1
    BY <1>1
  <2>2. CASE i = k
    BY <1>4, <2>1, <2>2
  <2>3. CASE i \in keep
    <3>1. PICK x \in 1 .. n : g[x] = i
      BY <2>3 DEF KeptFrom, n
    <3> QED BY <1>4, <2>1, <3>1
  <2> QED BY <2>2, <2>3
<1>10. KeptFrom(u, s, keep \cup {k}, h)
  BY <1>2, <1>6, <1>7, <1>8, <1>9 DEF KeptFrom
<1> QED BY <1>10 DEF u

LEMMA KeptInOrder ==
  ASSUME NEW T, NEW s \in Seq(T), NEW keep \in SUBSET DOMAIN s
  PROVE  Kept(s, keep) \in Seq(T) /\ \E g : KeptFrom(Kept(s, keep), s, keep, g)
<1> DEFINE l == [i \in DOMAIN s |-> IF i \in keep THEN <<s[i]>> ELSE <<>>]
<1>1. Len(s) \in Nat /\ DOMAIN s = 1 .. Len(s) /\ \A i \in 1 .. Len(s) : s[i] \in T
  OBVIOUS
<1>2. l \in Seq(Seq(T)) /\ Len(l) = Len(s)
  <2>1. \A i \in 1 .. Len(s) : (IF i \in keep THEN <<s[i]>> ELSE <<>>) \in Seq(T)
    BY <1>1
  <2> QED BY <1>1, <2>1
<1>3. \A i \in 1 .. Len(s) : l[i] = IF i \in keep THEN <<s[i]>> ELSE <<>>
  BY <1>1
<1>4. Kept(s, keep) = Joined(l)
  BY DEF Kept
<1> HIDE DEF l
<1>5. PICK F : IsJoin(F, l, Len(s), T) /\ Joined(l) = F[Len(s)]
  BY <1>2, JoinedBySteps
<1> DEFINE S == {k \in 0 .. Len(s) : \E g : KeptFrom(F[k], s, keep \cap (1 .. k), g)}
<1>6. 0 \in S
  <2>1. Len(F[0]) = 0
    BY <1>5 DEF IsJoin
  <2> DEFINE g == [x \in 1 .. 0 |-> 0]
  <2>2. KeptFrom(F[0], s, keep \cap (1 .. 0), g)
    <3>1. 1 .. Len(F[0]) = {} /\ keep \cap (1 .. 0) = {}
      BY <2>1
    <3>2. g \in [1 .. Len(F[0]) -> keep \cap (1 .. 0)]
      BY <2>1
    <3> QED BY <3>1, <3>2 DEF KeptFrom
  <2> QED BY <1>1, <2>2
<1>7. ASSUME NEW k \in 1 .. Len(s), k - 1 \in S PROVE k \in S
  <2>1. PICK g : KeptFrom(F[k - 1], s, keep \cap (1 .. k - 1), g)
    BY <1>7
  <2>2. k - 1 \in 0 .. Len(s) /\ F[k - 1] \in Seq(T) /\ F[k] = F[k - 1] \o l[k]
    <3>1. k - 1 \in 0 .. Len(s)
      BY <1>1
    <3> QED BY <1>5, <3>1 DEF IsJoin
  <2>3. CASE k \notin keep
    <3>1. l[k] = <<>>
      BY <1>3, <2>3
    <3>2. F[k] = F[k - 1]
      BY <2>2, <3>1
    <3>3. keep \cap (1 .. k) = keep \cap (1 .. k - 1)
      BY <2>3, <1>1
    <3>4. KeptFrom(F[k], s, keep \cap (1 .. k), g)
      BY <2>1, <3>2, <3>3
    <3> QED BY <1>1, <3>4
  <2>4. CASE k \in keep
    <3>1. l[k] = <<s[k]>>
      BY <1>3, <2>4
    <3>2. (keep \cap (1 .. k - 1)) \cup {k} = keep \cap (1 .. k)
      BY <2>4, <1>1
    <3>3. k \in Nat \ {0} /\ keep \cap (1 .. k - 1) \in SUBSET (1 .. k - 1)
      OBVIOUS
    <3>4. \E h : KeptFrom(F[k - 1] \o <<s[k]>>, s, (keep \cap (1 .. k - 1)) \cup {k}, h)
      BY <2>1, <2>2, <3>3, KeptGoesOn
    <3>5. \E h : KeptFrom(F[k], s, keep \cap (1 .. k), h)
      BY <2>2, <3>1, <3>2, <3>4
    <3> QED BY <1>1, <3>5
  <2> QED BY <2>3, <2>4
<1> HIDE DEF S
<1>8. \A k \in 0 .. Len(s) : k \in S
  BY <1>1, <1>6, <1>7, UpTo
<1>9. Len(s) \in S /\ Len(s) \in 0 .. Len(s)
  BY <1>1, <1>8
<1>10. PICK g : KeptFrom(F[Len(s)], s, keep \cap (1 .. Len(s)), g)
  BY <1>9 DEF S
<1>11. keep \cap (1 .. Len(s)) = keep
  BY <1>1
<1>12. F[Len(s)] = Kept(s, keep) /\ F[Len(s)] \in Seq(T)
  BY <1>4, <1>5, <1>9 DEF IsJoin
<1> QED BY <1>10, <1>11, <1>12

-----------------------------------------------------------------------------
(***************************************************************************)
(* A program: its scopes, its contexts and its tags.                       *)
(***************************************************************************)
LEMMA ScopeFacts ==
  ASSUME lookup \in Requests
  PROVE  /\ Len(P.scopes) \in Nat \ {0} /\ DOMAIN P.scopes = 1 .. Len(P.scopes)
         /\ IsFileScope(Len(P.scopes))
         /\ P.contexts[P.scopes[Len(P.scopes)].entity].kind = "tu"
         /\ \A i \in DOMAIN P.scopes :
              /\ P.scopes[i].entity \in Contexts \cup {NoContext}
              /\ P.scopes[i].decls \in Lists /\ P.scopes[i].usings \in Seq(Files)
              /\ P.scopes[i].kind = "linkage" => P.scopes[i].decls = <<>>
              /\ IsFileScope(i) =>
                   /\ P.scopes[i].entity \in Files
                   /\ Range(P.scopes[i].decls) \subseteq Range(P.contexts[P.scopes[i].entity].decls)
                   /\ \A j \in DOMAIN P.scopes : j > i =>
                        /\ P.scopes[j].kind \in {"file", "linkage"}
                        /\ P.scopes[j].entity # P.scopes[i].entity
<1>1. IsSeq(P.scopes) /\ P.scopes # <<>>
  BY ScopesAssumption DEF P
<1>2. Len(P.scopes) \in Nat \ {0} /\ DOMAIN P.scopes = 1 .. Len(P.scopes)
  BY <1>1 DEF IsSeq
<1>3. IsFileScope(Len(P.scopes)) /\ P.contexts[P.scopes[Len(P.scopes)].entity].kind = "tu"
  BY ScopesAssumption DEF P, IsFileScope
<1>4. \A i \in DOMAIN P.scopes :
        /\ P.scopes[i].entity \in Contexts \cup {NoContext}
        /\ P.scopes[i].decls \in Lists /\ P.scopes[i].usings \in Seq(Files)
        /\ P.scopes[i].kind = "linkage" => P.scopes[i].decls = <<>>
  BY ScopesAssumption DEF P, Contexts, Files
<1>5. \A i \in DOMAIN P.scopes : IsFileScope(i) =>
        /\ P.scopes[i].entity \in Files
        /\ Range(P.scopes[i].decls) \subseteq Range(P.contexts[P.scopes[i].entity].decls)
        /\ \A j \in DOMAIN P.scopes : j > i =>
             P.scopes[j].kind \in {"file", "linkage"} /\ P.scopes[j].entity # P.scopes[i].entity
  BY ScopesAssumption DEF P, IsFileScope, Files
<1> QED BY <1>2, <1>3, <1>4, <1>5

LEMMA ContextFacts ==
  ASSUME lookup \in Requests
  PROVE  /\ NoContext \notin Contexts /\ NoScope \cap Contexts = {} /\ Files \subseteq Contexts
         /\ P.builtin \in Lists /\ \A d \in Range(P.builtin) : Declared[d].kind = "function"
         /\ \A S \in SUBSET Contexts : S # {} => \E c \in S : Parent(c) \notin S
         /\ \A c, d \in Contexts : P.contexts[c].kind = "tu" /\ P.contexts[d].kind = "tu" => c = d
         /\ \A c \in Contexts :
              /\ P.contexts[c].kind \in FileKinds \cup {"linkage", "function", "class"}
              /\ IF P.contexts[c].kind = "tu" THEN Parent(c) = NoContext ELSE Parent(c) \in Contexts
              /\ P.contexts[c].decls \in Lists /\ P.contexts[c].usings \in Seq(Files)
              /\ P.contexts[c].decls \in Whole
              /\ IsSeq(P.contexts[c].paths)
              /\ \A k \in DOMAIN P.contexts[c].paths : P.contexts[c].paths[k].decls \in Lists
              /\ IsFile(c) <=> c \in Files
<1>1. NoContext \notin Contexts /\ NoScope \cap Contexts = {} /\ Files \subseteq Contexts
  BY ContextsAssumption DEF P, Contexts, Files, FilesOf
<1>2. P.builtin \in Lists /\ \A d \in Range(P.builtin) : Declared[d].kind = "function"
  BY ContextsAssumption DEF P
<1>3. /\ \A S \in SUBSET Contexts : S # {} => \E c \in S : Parent(c) \notin S
      /\ \A c, d \in Contexts : P.contexts[c].kind = "tu" /\ P.contexts[d].kind = "tu" => c = d
  BY ContextsAssumption DEF P, Contexts, Parent
<1>4. \A c \in Contexts :
        /\ P.contexts[c].kind \in FileKinds \cup {"linkage", "function", "class"}
        /\ IF P.contexts[c].kind = "tu" THEN Parent(c) = NoContext ELSE Parent(c) \in Contexts
  BY ContextsAssumption DEF P, Contexts, Parent
<1>5. \A c \in Contexts :
        /\ P.contexts[c].decls \in Lists /\ P.contexts[c].usings \in Seq(Files)
        /\ IsSeq(P.contexts[c].paths)
        /\ \A k \in DOMAIN P.contexts[c].paths : P.contexts[c].paths[k].decls \in Lists
  BY ContextsAssumption DEF P, Contexts, Files
<1>6. \A c \in Contexts : P.contexts[c].decls \in Whole /\ (IsFile(c) <=> c \in Files)
  BY DEF Contexts, Whole, ContextLists, Tables, IsFile, Files, FilesOf
<1> QED BY <1>1, <1>2, <1>3, <1>4, <1>5, <1>6

LEMMA ListFacts ==
  ASSUME lookup \in Requests
  PROVE  /\ Whole \subseteq ContextLists(P) /\ (WithLinkage => Whole = ContextLists(P))
         /\ ContextLists(P) \subseteq Everywhere /\ Everywhere \subseteq Lists
         /\ \A i \in DOMAIN P.scopes :
              /\ P.scopes[i].decls \in Everywhere
              /\ IsFileScope(i) => P.scopes[i].decls \in ContextLists(P)
         /\ \A s \in Lists : DOMAIN s = 1 .. Len(s) /\ Len(s) \in Nat
                             /\ Range(s) = {s[i] : i \in DOMAIN s} /\ Range(s) \subseteq DOMAIN Declared
<1>1. /\ Whole \subseteq ContextLists(P) /\ (WithLinkage => Whole = ContextLists(P))
      /\ ContextLists(P) \subseteq Everywhere
  BY DEF Everywhere, ListsOf, Whole, ContextLists, WithLinkage
<1>2. \A i \in DOMAIN P.scopes :
        P.scopes[i].decls \in Everywhere /\ (IsFileScope(i) => P.scopes[i].decls \in ContextLists(P))
  BY DEF Everywhere, ListsOf, ContextLists, IsFileScope
<1>3. Everywhere \subseteq Lists
  BY ScopeFacts, ContextFacts DEF Everywhere, ListsOf, ContextLists, Tables, Contexts
<1>4. \A s \in Lists : DOMAIN s = 1 .. Len(s) /\ Len(s) \in Nat
                       /\ Range(s) = {s[i] : i \in DOMAIN s} /\ Range(s) \subseteq DOMAIN Declared
  BY DEF Lists, Range
<1> QED BY <1>1, <1>2, <1>3, <1>4

\* A tag of a context is near what hides it, wherever that is found.
LEMMA ContextTagFacts ==
  ASSUME lookup \in Requests, NEW s \in Whole, NEW i \in DOMAIN s, IsTag(s[i]),
         NEW t \in Everywhere, NEW e \in Range(t), Hider(e, s[i])
  PROVE  \E j \in DOMAIN s : /\ Near(s, j, i) /\ Declared[e].idns \subseteq Declared[s[j]].idns
                             /\ WithLinkage /\ Free(s[i]) => Free(s[j])
<1>1. s \in Everywhere
  BY ListFacts
<1>2. \A d \in Range(t) : Hider(d, s[i]) /\ s \in Whole =>
        \E j \in DOMAIN s : /\ Near(s, j, i) /\ Declared[d].idns \subseteq Declared[s[j]].idns
                            /\ WithLinkage /\ Free(s[i]) => Free(s[j])
  BY <1>1, TagsAssumption DEF P, Everywhere, Whole, WithLinkage
<1> QED BY <1>2

\* A tag of a block, likewise, in its own list; for a redeclaration, what hides it is local.
LEMMA BlockTagFacts ==
  ASSUME lookup \in Requests, NEW s \in Everywhere, NEW i \in DOMAIN s, IsTag(s[i])
  PROVE  /\ \A e \in Range(s) : Hider(e, s[i]) =>
              \E j \in DOMAIN s : Near(s, j, i) /\ Declared[e].idns \subseteq Declared[s[j]].idns
         /\ WithLinkage /\ s \notin ContextLists(P) =>
              /\ ~Free(s[i])
              /\ \A t \in Everywhere : \A e \in Range(t) : Hider(e, s[i]) =>
                   t \notin ContextLists(P) /\ ~Free(e)
<1>1. \A e \in Range(s) : Hider(e, s[i]) =>
        \E j \in DOMAIN s : Near(s, j, i) /\ Declared[e].idns \subseteq Declared[s[j]].idns
  <2> TAKE e \in Range(s)
  <2>1. HAVE Hider(e, s[i])
  <2>2. \A t \in Everywhere : \A d \in Range(t) :
          Hider(d, s[i]) /\ (s \in Whole \/ t = s) =>
            \E j \in DOMAIN s :
              /\ Near(s, j, i) /\ Declared[d].idns \subseteq Declared[s[j]].idns
              /\ WithLinkage /\ Free(s[i]) => Free(s[j])
    BY TagsAssumption DEF P, Everywhere, Whole, WithLinkage
  <2> QED BY <2>1, <2>2
<1>2. ASSUME WithLinkage, s \notin ContextLists(P)
      PROVE  /\ ~Free(s[i])
             /\ \A t \in Everywhere : \A e \in Range(t) : Hider(e, s[i]) =>
                  t \notin ContextLists(P) /\ ~Free(e)
  BY <1>2, TagsAssumption DEF P, Everywhere, WithLinkage
<1> QED BY <1>1, <1>2

LEMMA BuiltinFacts ==
  ASSUME lookup \in Requests
  PROVE  /\ BuiltinDecl \in Lists /\ \A d \in Range(BuiltinDecl) : ~IsTag(d)
         /\ \A s \in Everywhere : \A d \in Range(s) : IsTag(d) =>
              \A e \in Range(BuiltinDecl) : Hider(e, d) =>
                \E c \in Contexts : P.contexts[c].kind = "tu" /\ d \in Range(P.contexts[c].decls)
         /\ \A i \in DOMAIN P.scopes : NotFile(i) =>
              \A d \in Range(P.scopes[i].decls) : IsTag(d) =>
                \A e \in Range(BuiltinDecl) : ~Hider(e, d)
<1>1. P.builtin \in Lists /\ \A d \in Range(P.builtin) : Declared[d].kind = "function"
  BY ContextFacts
<1>2. BuiltinDecl = P.builtin \/ BuiltinDecl = <<>>
  BY DEF BuiltinDecl
<1>3. <<>> \in Lists /\ Range(<<>>) = {}
  BY DEF Lists, Range
<1>4. Range(BuiltinDecl) \subseteq Range(P.builtin)
  BY <1>2, <1>3
<1>5. BuiltinDecl \in Lists /\ \A d \in Range(BuiltinDecl) : ~IsTag(d)
  BY <1>1, <1>2, <1>3 DEF IsTag
<1>6. \A s \in Everywhere : \A i \in DOMAIN s : IsTag(s[i]) =>
        \A e \in Range(P.builtin) : Hider(e, s[i]) =>
          s[i] \in UNION {Range(P.contexts[c].decls) : c \in {x \in Contexts : P.contexts[x].kind = "tu"}}
  BY TagsAssumption DEF P, Everywhere, Contexts
<1>7. \A s \in Everywhere : Range(s) = {s[i] : i \in DOMAIN s}
  BY ListFacts
<1>8. \A i \in DOMAIN P.scopes : NotFile(i) =>
        \A d \in Range(P.scopes[i].decls) : IsTag(d) => \A e \in Range(P.builtin) : ~Hider(e, d)
  BY TagsAssumption DEF P, NotFile, IsFileScope
<1> QED BY <1>4, <1>5, <1>6, <1>7, <1>8

LEMMA PathFacts ==
  ASSUME lookup \in Requests, NEW c \in Contexts, NEW k \in DOMAIN P.contexts[c].paths,
         NEW m \in DOMAIN P.contexts[c].paths,
         NEW i \in DOMAIN P.contexts[c].paths[k].decls, IsTag(P.contexts[c].paths[k].decls[i]),
         NEW e \in Range(P.contexts[c].paths[m].decls), Hider(e, P.contexts[c].paths[k].decls[i])
  PROVE  /\ P.contexts[c].paths[m].decls = P.contexts[c].paths[k].decls
         /\ \E j \in DOMAIN P.contexts[c].paths[k].decls :
              /\ Near(P.contexts[c].paths[k].decls, j, i)
              /\ Declared[e].idns \subseteq Declared[P.contexts[c].paths[k].decls[j]].idns
<1> DEFINE paths == P.contexts[c].paths
<1>1. \A n \in {x \in DOMAIN paths[k].decls : IsTag(paths[k].decls[x])} : \A d \in Range(paths[m].decls) :
        Hider(d, paths[k].decls[n]) =>
          /\ paths[m].decls = paths[k].decls
          /\ \E j \in DOMAIN paths[k].decls :
               Near(paths[k].decls, j, n) /\ Declared[d].idns \subseteq Declared[paths[k].decls[j]].idns
  <2>1. \A x, y \in DOMAIN P.contexts[c].paths :
          LET s == P.contexts[c].paths[x].decls
          IN \A n \in {z \in DOMAIN s : IsTag(s[z])} : \A d \in Range(P.contexts[c].paths[y].decls) :
               Hider(d, s[n]) =>
                 /\ P.contexts[c].paths[y].decls = s
                 /\ \E j \in DOMAIN s : Near(s, j, n) /\ Declared[d].idns \subseteq Declared[s[j]].idns
    <3>1. \A z \in DOMAIN P.contexts :
            LET all == P.contexts[z].paths
            IN \A x, y \in DOMAIN all :
                 LET s == all[x].decls
                 IN \A n \in {v \in DOMAIN s : IsTag(s[v])} : \A d \in Range(all[y].decls) :
                      Hider(d, s[n]) =>
                        /\ all[y].decls = s
                        /\ \E j \in DOMAIN s : Near(s, j, n) /\ Declared[d].idns \subseteq Declared[s[j]].idns
      BY Zenon, TagsAssumption DEF P
    <3> QED BY <3>1, Zenon DEF Contexts
  <2> QED BY <2>1
<1> HIDE DEF paths
<1>2. i \in {x \in DOMAIN paths[k].decls : IsTag(paths[k].decls[x])}
  BY DEF paths
<1> QED BY <1>1, <1>2 DEF paths

-----------------------------------------------------------------------------
(***************************************************************************)
(* What is taken from a list of a context covers its tags.                 *)
(***************************************************************************)
LEMMA RangeOf ==
  ASSUME NEW s \in Lists
  PROVE  /\ DOMAIN s = 1 .. Len(s) /\ Len(s) \in Nat /\ Range(s) \subseteq DOMAIN Declared
         /\ \A d : d \in Range(s) <=> \E i \in DOMAIN s : s[i] = d
BY DEF Lists, Range

LEMMA RangeOfBoth ==
  ASSUME NEW s \in Lists, NEW t \in Lists
  PROVE  /\ s \o t \in Lists /\ Len(s \o t) = Len(s) + Len(t) /\ Range(s \o t) = Range(s) \cup Range(t)
         /\ \A i \in DOMAIN s : i \in DOMAIN (s \o t) /\ (s \o t)[i] = s[i]
         /\ \A i \in DOMAIN t : i + Len(s) \in DOMAIN (s \o t) /\ (s \o t)[i + Len(s)] = t[i]
         /\ \A k \in DOMAIN (s \o t) : k \in DOMAIN s \/ \E i \in DOMAIN t : k = i + Len(s)
<1>1. /\ s \o t \in Lists /\ DOMAIN (s \o t) = 1 .. Len(s) + Len(t) /\ Len(s \o t) = Len(s) + Len(t)
      /\ Len(s) \in Nat /\ Len(t) \in Nat /\ DOMAIN s = 1 .. Len(s) /\ DOMAIN t = 1 .. Len(t)
      /\ \A i \in 1 .. Len(s) + Len(t) : (s \o t)[i] = IF i <= Len(s) THEN s[i] ELSE t[i - Len(s)]
  BY DEF Lists
<1>2. \A i \in DOMAIN s : i \in DOMAIN (s \o t) /\ (s \o t)[i] = s[i]
  BY <1>1
<1>3. \A i \in DOMAIN t : i + Len(s) \in DOMAIN (s \o t) /\ (s \o t)[i + Len(s)] = t[i]
  BY <1>1
<1>4. ASSUME NEW k \in DOMAIN (s \o t)
      PROVE k \in DOMAIN s \/ \E i \in DOMAIN t : k = i + Len(s)
  <2>1. CASE k <= Len(s)
    BY <1>1, <2>1
  <2>2. CASE ~(k <= Len(s))
    <3>1. k - Len(s) \in DOMAIN t /\ k = (k - Len(s)) + Len(s)
      BY <1>1, <2>2
    <3> QED BY <3>1
  <2> QED BY <2>1, <2>2
<1>5. Range(s \o t) = Range(s) \cup Range(t)
  <2>1. \A d : d \in Range(s \o t) <=> d \in Range(s) \/ d \in Range(t)
    <3> DEFINE u == s \o t
    <3> TAKE d
    <3>1. u \in Lists
      BY <1>1
    <3>2. /\ d \in Range(s) <=> \E i \in DOMAIN s : s[i] = d
          /\ d \in Range(t) <=> \E i \in DOMAIN t : t[i] = d
      BY RangeOf
    <3>3. d \in Range(u) <=> \E i \in DOMAIN u : u[i] = d
      BY <3>1, RangeOf
    <3>4. /\ \A i \in DOMAIN s : i \in DOMAIN u /\ u[i] = s[i]
          /\ \A i \in DOMAIN t : i + Len(s) \in DOMAIN u /\ u[i + Len(s)] = t[i]
          /\ \A k \in DOMAIN u : k \in DOMAIN s \/ \E i \in DOMAIN t : k = i + Len(s)
      BY <1>2, <1>3, <1>4
    <3> HIDE DEF u
    <3>5. ASSUME NEW k \in DOMAIN u, u[k] = d PROVE d \in Range(s) \/ d \in Range(t)
      <4>1. CASE k \in DOMAIN s
        BY <3>2, <3>4, <3>5, <4>1
      <4>2. ASSUME NEW i \in DOMAIN t, k = i + Len(s) PROVE d \in Range(t)
        BY <3>2, <3>4, <3>5, <4>2
      <4> QED BY <3>4, <4>1, <4>2
    <3>6. d \in Range(s) \/ d \in Range(t) => d \in Range(u)
      BY <3>2, <3>3, <3>4
    <3>7. d \in Range(u) => d \in Range(s) \/ d \in Range(t)
      BY <3>3, <3>5
    <3> QED BY <3>6, <3>7 DEF u
  <2> QED BY <2>1
<1> QED BY <1>1, <1>2, <1>3, <1>4, <1>5

LEMMA NearOfBoth ==
  ASSUME NEW s \in Lists, NEW t \in Lists
  PROVE  /\ \A i \in DOMAIN s : HiderNear(s, i) => HiderNear(s \o t, i)
         /\ \A i \in DOMAIN t : HiderNear(t, i) => HiderNear(s \o t, i + Len(s))
<1>1. /\ Len(s) \in Nat /\ Len(t) \in Nat /\ DOMAIN s = 1 .. Len(s) /\ DOMAIN t = 1 .. Len(t)
  BY RangeOf
<1>2. ASSUME NEW i \in DOMAIN s, NEW j \in DOMAIN s, Near(s, j, i)
      PROVE HiderNear(s \o t, i)
  <2>1. \A k \in j .. i : k \in DOMAIN s
    BY <1>1
  <2>2. Near(s \o t, j, i)
    BY <1>2, <2>1, RangeOfBoth DEF Near
  <2> QED BY <2>2, RangeOfBoth DEF HiderNear
<1>3. ASSUME NEW i \in DOMAIN t, NEW j \in DOMAIN t, Near(t, j, i)
      PROVE HiderNear(s \o t, i + Len(s))
  <2>1. ASSUME NEW k \in j + Len(s) .. i + Len(s)
        PROVE Declared[(s \o t)[k]].context = Declared[(s \o t)[i + Len(s)]].context
    <3>1. k - Len(s) \in j .. i /\ k - Len(s) \in DOMAIN t /\ (k - Len(s)) + Len(s) = k
      BY <1>1
    <3>2. (s \o t)[k] = t[k - Len(s)] /\ (s \o t)[i + Len(s)] = t[i]
      BY <3>1, RangeOfBoth
    <3> QED BY <1>3, <3>1, <3>2 DEF Near
  <2>2. Near(s \o t, j + Len(s), i + Len(s))
    BY <1>3, <2>1, RangeOfBoth DEF Near
  <2> QED BY <2>2, RangeOfBoth DEF HiderNear
<1> QED BY <1>2, <1>3 DEF HiderNear

LEMMA CoveredBoth ==
  ASSUME NEW x, NEW y, Covered(x), Covered(y)
  PROVE  Covered(x \o y)
<1>1. x \in Lists /\ y \in Lists
  BY DEF Covered
<1>2. ASSUME NEW i \in DOMAIN (x \o y)
      PROVE /\ ForWant((x \o y)[i]) \/ (Accepted((x \o y)[i], IDNS) /\ InContexts((x \o y)[i]))
            /\ IsTag((x \o y)[i]) => \A e \in DOMAIN Declared : MayHide(e, (x \o y)[i]) => HiderNear(x \o y, i)
  <2>1. CASE i \in DOMAIN x
    <3>1. (x \o y)[i] = x[i]
      BY <1>1, <2>1, RangeOfBoth
    <3>2. HiderNear(x, i) => HiderNear(x \o y, i)
      BY <1>1, <2>1, NearOfBoth
    <3> QED BY <2>1, <3>1, <3>2 DEF Covered
  <2>2. ASSUME NEW k \in DOMAIN y, i = k + Len(x)
        PROVE /\ ForWant((x \o y)[i]) \/ (Accepted((x \o y)[i], IDNS) /\ InContexts((x \o y)[i]))
              /\ IsTag((x \o y)[i]) => \A e \in DOMAIN Declared : MayHide(e, (x \o y)[i]) => HiderNear(x \o y, i)
    <3>1. (x \o y)[i] = y[k]
      BY <1>1, <2>2, RangeOfBoth
    <3>2. HiderNear(y, k) => HiderNear(x \o y, i)
      BY <1>1, <2>2, NearOfBoth
    <3> QED BY <2>2, <3>1, <3>2 DEF Covered
  <2>3. i \in DOMAIN x \/ \E k \in DOMAIN y : i = k + Len(x)
    BY <1>1, RangeOfBoth
  <2> QED BY <2>1, <2>2, <2>3
<1>3. x \o y \in Lists
  BY <1>1, RangeOfBoth
<1> QED BY <1>2, <1>3 DEF Covered

LEMMA CoveredNone == Covered(<<>>)
<1>1. <<>> \in Lists /\ DOMAIN <<>> = {}
  BY DEF Lists
<1> QED BY <1>1 DEF Covered

LEMMA CoveredJoined ==
  ASSUME NEW l \in Seq(Lists), \A k \in DOMAIN l : Covered(l[k])
  PROVE  Covered(Joined(l))
<1>1. Len(l) \in Nat /\ DOMAIN l = 1 .. Len(l)
  OBVIOUS
<1>2. PICK F : IsJoin(F, l, Len(l), DOMAIN Declared) /\ Joined(l) = F[Len(l)]
  BY JoinedBySteps DEF Lists
<1> DEFINE S == {k \in 0 .. Len(l) : Covered(F[k])}
<1>3. 0 \in S
  BY <1>1, <1>2, CoveredNone DEF IsJoin
<1>4. ASSUME NEW k \in 1 .. Len(l), k - 1 \in S PROVE k \in S
  <2>1. F[k] = F[k - 1] \o l[k]
    BY <1>2 DEF IsJoin
  <2>2. Covered(F[k - 1]) /\ Covered(l[k]) /\ k \in 0 .. Len(l)
    BY <1>1, <1>4
  <2> QED BY <2>1, <2>2, CoveredBoth
<1> HIDE DEF S
<1>5. \A k \in 0 .. Len(l) : k \in S
  BY <1>1, <1>3, <1>4, UpTo
<1>6. Covered(F[Len(l)])
  BY <1>1, <1>5 DEF S
<1> QED BY <1>2, <1>6

LEMMA KeptNear ==
  ASSUME NEW s \in Lists, NEW keep \in SUBSET DOMAIN s, NEW t \in Lists, NEW g, KeptFrom(t, s, keep, g),
         NEW x \in DOMAIN t, NEW j \in keep, Near(s, j, g[x])
  PROVE  \E y \in DOMAIN t : g[y] = j /\ Near(t, y, x)
<1>1. Len(t) \in Nat /\ DOMAIN t = 1 .. Len(t) /\ DOMAIN s = 1 .. Len(s) /\ Len(s) \in Nat
  BY RangeOf
<1>2. PICK y \in 1 .. Len(t) : g[y] = j
  BY DEF KeptFrom
<1>3. t[x] = s[g[x]] /\ t[y] = s[g[y]]
  BY <1>1 DEF KeptFrom
<1>4. ASSUME NEW k \in y .. x PROVE Declared[t[k]].context = Declared[t[x]].context
  <2>1. k \in 1 .. Len(t) /\ k \in Nat /\ x \in Nat /\ y \in Nat
    BY <1>1
  <2>2. g[k] \in keep /\ g[x] \in keep /\ g[y] \in keep
    BY <1>1, <2>1 DEF KeptFrom
  <2>3. (y < k => g[y] < g[k]) /\ (k < x => g[k] < g[x])
    BY <1>1, <2>1 DEF KeptFrom
  <2>4. g[k] \in Nat /\ g[x] \in Nat /\ g[y] \in Nat
    BY <1>1, <2>2
  <2>5. g[k] \in g[y] .. g[x]
    BY <2>1, <2>3, <2>4
  <2>6. Declared[s[g[k]]].context = Declared[s[g[x]]].context
    BY <1>2, <2>5 DEF Near
  <2>7. t[k] = s[g[k]]
    BY <2>1 DEF KeptFrom
  <2> QED BY <1>3, <2>6, <2>7
<1>5. Near(t, y, x)
  BY <1>2, <1>3, <1>4 DEF Near
<1> QED BY <1>1, <1>2, <1>5

LEMMA AcceptedFrom ==
  ASSUME NEW s \in Lists
  PROVE  /\ Acceptable(s) \in Lists
         /\ \E g : KeptFrom(Acceptable(s), s, Accepting(s), g)
         /\ \A d \in Range(Acceptable(s)) : d \in Range(s) /\ Accepted(d, IDNS)
         /\ \A d \in Range(s) : Accepted(d, IDNS) => d \in Range(Acceptable(s))
<1>1. Accepting(s) \in SUBSET DOMAIN s
  BY DEF Accepting
<1>2. Acceptable(s) \in Lists /\ \E g : KeptFrom(Acceptable(s), s, Accepting(s), g)
  BY <1>1, KeptInOrder DEF Lists, Acceptable
<1>3. PICK g : KeptFrom(Acceptable(s), s, Accepting(s), g)
  BY <1>2
<1> DEFINE t == Acceptable(s)
<1>4. DOMAIN t = 1 .. Len(t) /\ \A d : d \in Range(t) <=> \E i \in DOMAIN t : t[i] = d
  BY <1>2, RangeOf
<1>5. \A d : d \in Range(s) <=> \E i \in DOMAIN s : s[i] = d
  BY RangeOf
<1> HIDE DEF t
<1>6. /\ g \in [DOMAIN t -> Accepting(s)] /\ \A x \in DOMAIN t : t[x] = s[g[x]]
      /\ \A i \in Accepting(s) : \E x \in DOMAIN t : g[x] = i
  BY <1>3, <1>4 DEF KeptFrom, t
<1>7. ASSUME NEW d \in Range(t) PROVE d \in Range(s) /\ Accepted(d, IDNS)
  <2>1. PICK x \in DOMAIN t : t[x] = d
    BY <1>4
  <2>2. g[x] \in Accepting(s) /\ s[g[x]] = d
    BY <1>6, <2>1
  <2> QED BY <1>5, <2>2 DEF Accepting
<1>8. ASSUME NEW d \in Range(s), Accepted(d, IDNS) PROVE d \in Range(t)
  <2>1. PICK i \in DOMAIN s : s[i] = d
    BY <1>5
  <2>2. i \in Accepting(s)
    BY <1>8, <2>1 DEF Accepting
  <2> QED BY <1>4, <1>6, <2>1, <2>2
<1> QED BY <1>2, <1>7, <1>8 DEF t

\* What hides an accepted tag of a context is accepted with it, and as free as the tag.
LEMMA AcceptedNear ==
  ASSUME lookup \in Requests, NEW s \in Whole, NEW i \in DOMAIN Acceptable(s),
         IsTag(Acceptable(s)[i]), NEW e \in DOMAIN Declared, MayHide(e, Acceptable(s)[i])
  PROVE  \E j \in DOMAIN Acceptable(s) :
           /\ Near(Acceptable(s), j, i)
           /\ WithLinkage /\ Free(Acceptable(s)[i]) => Free(Acceptable(s)[j])
<1>1. s \in Lists /\ s \in Everywhere
  BY ListFacts
<1>2. Acceptable(s) \in Lists /\ Accepting(s) \in SUBSET DOMAIN s
  BY <1>1, AcceptedFrom DEF Accepting
<1>3. PICK g : KeptFrom(Acceptable(s), s, Accepting(s), g)
  BY <1>1, AcceptedFrom
<1> DEFINE t == Acceptable(s)
<1>4. DOMAIN t = 1 .. Len(t)
  BY <1>2, RangeOf
<1>5. \A x \in DOMAIN t : g[x] \in Accepting(s) /\ t[x] = s[g[x]]
  BY <1>3, <1>4 DEF KeptFrom
<1>6. g[i] \in DOMAIN s /\ t[i] = s[g[i]] /\ Accepted(s[g[i]], IDNS)
  BY <1>5 DEF Accepting
<1>7. PICK u \in Everywhere : e \in Range(u)
  BY ListFacts DEF MayHide, InContexts, InBlocks
<1>8. IsTag(s[g[i]]) /\ Hider(e, s[g[i]]) /\ Accepted(e, IDNS)
  BY <1>6 DEF MayHide
<1>9. PICK j \in DOMAIN s : /\ Near(s, j, g[i]) /\ Declared[e].idns \subseteq Declared[s[j]].idns
                            /\ WithLinkage /\ Free(s[g[i]]) => Free(s[j])
  BY <1>6, <1>7, <1>8, ContextTagFacts
<1>10. j \in Accepting(s)
  BY <1>8, <1>9 DEF Accepting, Accepted
<1>11. PICK y \in DOMAIN t : g[y] = j /\ Near(t, y, i)
  <2> DEFINE keep == Accepting(s)
  <2>1. /\ i \in DOMAIN t /\ t \in Lists /\ keep \in SUBSET DOMAIN s /\ j \in keep
        /\ KeptFrom(t, s, keep, g) /\ Near(s, j, g[i])
    BY <1>2, <1>3, <1>9, <1>10
  <2> HIDE DEF t, keep
  <2> QED BY <1>1, <2>1, KeptNear
<1>12. t[y] = s[j]
  BY <1>5, <1>11
<1> QED BY <1>6, <1>9, <1>11, <1>12

LEMMA CoveredAccepted ==
  ASSUME lookup \in Requests, NEW s \in Whole
  PROVE  Covered(Acceptable(s))
<1>1. s \in Lists /\ Acceptable(s) \in Lists
  BY ListFacts, AcceptedFrom
<1>2. ASSUME NEW i \in DOMAIN Acceptable(s)
      PROVE  Accepted(Acceptable(s)[i], IDNS) /\ InContexts(Acceptable(s)[i])
  <2>1. Acceptable(s)[i] \in Range(Acceptable(s))
    BY <1>1, RangeOf
  <2> QED BY <1>1, <2>1, AcceptedFrom, ListFacts DEF InContexts
<1>3. ASSUME NEW i \in DOMAIN Acceptable(s), IsTag(Acceptable(s)[i]),
             NEW e \in DOMAIN Declared, MayHide(e, Acceptable(s)[i])
      PROVE  HiderNear(Acceptable(s), i)
  BY <1>3, AcceptedNear DEF HiderNear
<1> QED BY <1>1, <1>2, <1>3 DEF Covered

LEMMA TakenFacts ==
  ASSUME NEW s \in Lists
  PROVE  /\ Taken(s) \in Lists /\ Range(Taken(s)) \subseteq Range(s)
         /\ ~(WithLinkage /\ scope # 1) => Taken(s) = s
         /\ WithLinkage /\ scope # 1 =>
              /\ \E g : KeptFrom(Taken(s), s, {i \in DOMAIN s : Free(s[i])}, g)
              /\ \A d \in Range(Taken(s)) : Free(d)
<1>1. CASE ~(WithLinkage /\ scope # 1)
  BY <1>1 DEF Taken
<1>2. CASE WithLinkage /\ scope # 1
  <2> DEFINE keep == {i \in DOMAIN s : Free(s[i])}
  <2>1. Taken(s) = Kept(s, keep) /\ keep \in SUBSET DOMAIN s
    BY <1>2 DEF Taken
  <2>2. Taken(s) \in Lists /\ \E g : KeptFrom(Taken(s), s, keep, g)
    BY <2>1, KeptInOrder DEF Lists
  <2>3. PICK g : KeptFrom(Taken(s), s, keep, g)
    BY <2>2
  <2>4. ASSUME NEW d \in Range(Taken(s)) PROVE d \in Range(s) /\ Free(d)
    <3>1. PICK x \in DOMAIN Taken(s) : Taken(s)[x] = d /\ x \in 1 .. Len(Taken(s))
      BY <2>2, RangeOf
    <3>2. g[x] \in keep /\ d = s[g[x]]
      BY <2>3, <3>1 DEF KeptFrom
    <3> QED BY <3>2, RangeOf
  <2> QED BY <1>2, <2>2, <2>4
<1> QED BY <1>1, <1>2

LEMMA CoveredTaken ==
  ASSUME lookup \in Requests, NEW s \in Whole
  PROVE  Covered(Taken(Acceptable(s)))
<1> DEFINE u == Acceptable(s)
           keep == {i \in DOMAIN u : Free(u[i])}
<1>1. u \in Lists /\ Covered(u)
  BY ListFacts, AcceptedFrom, CoveredAccepted
<1>2. CASE ~(WithLinkage /\ scope # 1)
  <2>1. Taken(u) = u
    BY <1>1, <1>2, TakenFacts
  <2> QED BY <1>1, <2>1
<1>3. CASE WithLinkage /\ scope # 1
  <2>1. Taken(u) \in Lists /\ keep \in SUBSET DOMAIN u /\ \E g : KeptFrom(Taken(u), u, keep, g)
    BY <1>1, <1>3, TakenFacts
  <2> DEFINE t == Taken(u)
  <2>2. PICK g : KeptFrom(t, u, keep, g)
    BY <2>1
  <2>3. DOMAIN t = 1 .. Len(t)
    BY <2>1, RangeOf
  <2>4. \A x \in DOMAIN t : g[x] \in keep /\ t[x] = u[g[x]]
    BY <2>2, <2>3 DEF KeptFrom
  <2>5. ASSUME NEW i \in DOMAIN t, IsTag(t[i]), NEW e \in DOMAIN Declared, MayHide(e, t[i])
        PROVE  HiderNear(t, i)
    <3>1. g[i] \in DOMAIN u /\ t[i] = u[g[i]] /\ Free(u[g[i]])
      BY <2>4
    <3>2. PICK j \in DOMAIN u : Near(u, j, g[i]) /\ Free(u[j])
      BY <1>3, <2>5, <3>1, AcceptedNear
    <3>3. j \in keep
      BY <3>2
    <3>4. \E y \in DOMAIN t : g[y] = j /\ Near(t, y, i)
      <4> HIDE DEF t, u, keep
      <4> QED BY <1>1, <2>1, <2>2, <3>2, <3>3, KeptNear DEF t
    <3> QED BY <3>4 DEF HiderNear
  <2>6. ASSUME NEW i \in DOMAIN t
        PROVE ForWant(t[i]) \/ (Accepted(t[i], IDNS) /\ InContexts(t[i]))
    <3>1. g[i] \in DOMAIN u /\ t[i] = u[g[i]]
      BY <2>4
    <3> QED BY <1>1, <3>1 DEF Covered
  <2> QED BY <2>1, <2>5, <2>6 DEF Covered
<1> QED BY <1>2, <1>3

LEMMA CoveredBuiltin ==
  ASSUME lookup \in Requests,
         \A c \in Contexts : P.contexts[c].kind = "tu" =>
           \A e \in Range(P.contexts[c].decls) : ~Accepted(e, IDNS)
  PROVE  Covered(BuiltinDecl)
<1>1. BuiltinDecl \in Lists /\ \A d \in Range(BuiltinDecl) : ~IsTag(d)
  BY BuiltinFacts
<1>2. \A i \in DOMAIN BuiltinDecl : BuiltinDecl[i] \in Range(BuiltinDecl)
  BY <1>1, RangeOf
<1> QED BY <1>1, <1>2 DEF Covered, ForWant

LEMMA CoveredDirect ==
  ASSUME lookup \in Requests, NEW c \in Contexts
  PROVE  Covered(DirectDecls(c))
<1>1. P.contexts[c].decls \in Whole /\ P.contexts[c].decls \in Lists
  BY ContextFacts
<1>2. Covered(Acceptable(P.contexts[c].decls))
  BY <1>1, CoveredAccepted
<1>3. CASE Acceptable(P.contexts[c].decls) = <<>> /\ P.contexts[c].kind = "tu"
  <2>1. \A x \in Contexts : P.contexts[x].kind = "tu" =>
          \A e \in Range(P.contexts[x].decls) : ~Accepted(e, IDNS)
    <3>1. TAKE x \in Contexts
    <3>2. HAVE P.contexts[x].kind = "tu"
    <3>3. x = c
      BY <1>3, <3>2, ContextFacts
    <3>4. Range(Acceptable(P.contexts[c].decls)) = {}
      BY <1>3 DEF Range
    <3> QED BY <1>1, <3>3, <3>4, AcceptedFrom
  <2> QED BY <1>3, <2>1, CoveredBuiltin DEF DirectDecls
<1>4. CASE ~(Acceptable(P.contexts[c].decls) = <<>> /\ P.contexts[c].kind = "tu")
  BY <1>2, <1>4 DEF DirectDecls
<1> QED BY <1>3, <1>4

LEMMA CoveredNamespace ==
  ASSUME lookup \in Requests, NEW c \in Contexts, udirs \in Seq(Nominations)
  PROVE  Covered(NamespaceDecls(c)) /\ Range(DirectDecls(c)) \subseteq Range(NamespaceDecls(c))
<1> DEFINE item(k) == IF udirs[k].ancestor = c THEN DirectDecls(udirs[k].nominated) ELSE <<>>
           l == [k \in DOMAIN udirs |-> item(k)]
<1>1. \A k \in DOMAIN udirs : Covered(item(k))
  <2> TAKE k \in DOMAIN udirs
  <2>1. udirs[k].nominated \in Contexts
    <3> DEFINE T == Nominations
    <3>1. udirs \in Seq(T)
      OBVIOUS
    <3>2. udirs[k] \in T
      <4> HIDE DEF T, item
      <4> QED BY <3>1
    <3>3. udirs[k].nominated \in Files
      BY <3>2 DEF Nominations
    <3> QED BY <3>3, ContextFacts
  <2>2. CASE udirs[k].ancestor = c
    BY <2>1, <2>2, CoveredDirect
  <2>3. CASE udirs[k].ancestor # c
    BY <2>3, CoveredNone
  <2> QED BY <2>2, <2>3
<1>2. DOMAIN udirs = 1 .. Len(udirs) /\ Len(udirs) \in Nat
  OBVIOUS
<1> HIDE DEF item
<1>3. \A k \in DOMAIN l : l[k] = item(k) /\ Covered(l[k])
  BY <1>1
<1>4. \A k \in 1 .. Len(udirs) : item(k) \in Lists
  BY <1>1, <1>2 DEF Covered
<1>5. l \in Seq(Lists)
  BY <1>2, <1>4
<1>6. Covered(Joined(l))
  <2> HIDE DEF l
  <2> QED BY <1>3, <1>5, CoveredJoined DEF l
<1>7. NamespaceDecls(c) = DirectDecls(c) \o Joined(l)
  BY DEF NamespaceDecls, item
<1>8. Covered(DirectDecls(c))
  BY CoveredDirect
<1> HIDE DEF l
<1>9. Range(DirectDecls(c)) \subseteq Range(DirectDecls(c) \o Joined(l))
  BY <1>6, <1>8, RangeOfBoth DEF Covered
<1> QED BY <1>6, <1>7, <1>8, <1>9, CoveredBoth

-----------------------------------------------------------------------------
(***************************************************************************)
(* What is added to a result fits what was collected before.               *)
(***************************************************************************)
\* A tag of a block is hidden by no builtin, and for a redeclaration by nothing of a context.
LEMMA BlockNoBuiltin ==
  ASSUME lookup \in Requests, NEW d, InBlocks(d), IsTag(d), NEW e, Hider(e, d)
  PROVE  ~ForWant(e)
<1>1. PICK s \in Everywhere \ ContextLists(P) : d \in Range(s)
  BY DEF InBlocks
<1>2. PICK k \in DOMAIN P.scopes : s = P.scopes[k].decls
  BY <1>1 DEF Everywhere, ListsOf
<1>3. NotFile(k)
  BY <1>1, <1>2, ListFacts DEF NotFile
<1> QED BY <1>1, <1>2, <1>3, BuiltinFacts DEF ForWant

LEMMA BlockTagApart ==
  ASSUME lookup \in Requests, WithLinkage, NEW d, InBlocks(d), IsTag(d), NEW e, Hider(e, d)
  PROVE  ~InContexts(e) /\ ~ForWant(e) /\ (InBlocks(e) => ~Free(e))
<1>1. PICK s \in Everywhere \ ContextLists(P) : d \in Range(s)
  BY DEF InBlocks
<1>2. s \in Lists
  BY <1>1, ListFacts
<1>3. PICK i \in DOMAIN s : s[i] = d
  BY <1>1, <1>2, RangeOf
<1>4. ~Free(d) /\ \A t \in Everywhere : e \in Range(t) => t \notin ContextLists(P) /\ ~Free(e)
  BY <1>1, <1>3, BlockTagFacts
<1>5. ~InContexts(e) /\ (InBlocks(e) => ~Free(e))
  BY <1>4, ListFacts DEF InContexts, InBlocks
<1> QED BY <1>5, BlockNoBuiltin

LEMMA BuiltinApart ==
  ASSUME lookup \in Requests, NEW d, InContexts(d), IsTag(d), Accepted(d, IDNS), NEW e, ForWant(e)
  PROVE  ~Hider(e, d)
<1>1. SUFFICES ASSUME Hider(e, d) PROVE FALSE
  OBVIOUS
<1>2. PICK s \in Everywhere : d \in Range(s)
  BY ListFacts DEF InContexts
<1>3. PICK c \in Contexts : P.contexts[c].kind = "tu" /\ d \in Range(P.contexts[c].decls)
  BY <1>1, <1>2, BuiltinFacts DEF ForWant
<1> QED BY <1>3 DEF ForWant

LEMMA CollectedNone == Collected(<<>>)
<1>1. Range(<<>>) = {}
  BY DEF Range
<1> QED BY <1>1 DEF Collected

LEMMA SourcedFacts ==
  ASSUME lookup \in Requests, NEW d, Sourced(d)
  PROVE  /\ IsTag(d) => ~ForWant(d) /\ Accepted(d, IDNS) /\ (InContexts(d) \/ InBlocks(d))
         /\ \A t : IsTag(t) /\ Hider(d, t) /\ ~ForWant(d) => MayHide(d, t)
<1>1. ForWant(d) => ~IsTag(d)
  BY BuiltinFacts DEF ForWant
<1> QED BY <1>1 DEF Sourced, MayHide

LEMMA CoveredFits ==
  ASSUME lookup \in Requests, NEW f \in Lists, Collected(f), NEW x, Covered(x)
  PROVE  Fits(f, x) /\ Collected(f \o x)
<1>1. x \in Lists /\ Range(f) \subseteq DOMAIN Declared /\ Range(x) \subseteq DOMAIN Declared
  BY RangeOf DEF Covered
<1>2. \A d \in Range(x) : \E i \in DOMAIN x : x[i] = d
  BY <1>1, RangeOf
<1>3. ASSUME NEW d \in Range(x)
      PROVE  Sourced(d) /\ (ForWant(d) \/ (Accepted(d, IDNS) /\ InContexts(d)))
  BY <1>2 DEF Covered, Sourced
<1>4. ASSUME NEW d \in Range(f), IsTag(d), NEW e \in Range(x), Hider(e, d) PROVE HiderIn(f, d)
  <2>1. Sourced(d) /\ Accepted(d, IDNS) /\ (InContexts(d) \/ InBlocks(d))
    BY <1>4, SourcedFacts DEF Collected
  <2>2. ForWant(e) \/ (Accepted(e, IDNS) /\ InContexts(e))
    BY <1>3
  <2>3. ~(InBlocks(d) /\ WithLinkage)
    BY <1>4, <2>2, BlockTagApart
  <2>4. ~ForWant(e)
    BY <1>4, <2>1, BlockNoBuiltin, BuiltinApart
  <2>5. MayHide(e, d)
    BY <1>4, <2>2, <2>4 DEF MayHide
  <2> QED BY <1>1, <1>4, <2>3, <2>5 DEF Collected
<1>5. ASSUME NEW i \in DOMAIN x, IsTag(x[i]), NEW e \in Range(f) \cup Range(x), Hider(e, x[i])
      PROVE  HiderNear(x, i)
  <2>1. x[i] \in Range(x)
    BY <1>1, RangeOf
  <2>2. Accepted(x[i], IDNS) /\ InContexts(x[i])
    BY <1>3, <1>5, <2>1, SourcedFacts
  <2>3. Sourced(e) /\ e \in DOMAIN Declared
    BY <1>1, <1>3 DEF Collected
  <2>4. ~ForWant(e)
    BY <1>5, <2>2, BuiltinApart
  <2>5. MayHide(e, x[i])
    BY <1>5, <2>3, <2>4, SourcedFacts
  <2> QED BY <1>5, <2>3, <2>5 DEF Covered
<1>6. Fits(f, x)
  BY <1>4, <1>5 DEF Fits
<1>7. Range(f \o x) = Range(f) \cup Range(x)
  BY <1>1, RangeOfBoth
<1>8. ASSUME NEW d \in Range(f)
      PROVE  /\ Sourced(d)
             /\ IsTag(d) => \/ InBlocks(d) /\ WithLinkage
                            \/ \A e \in DOMAIN Declared : MayHide(e, d) => HiderIn(f \o x, d)
  BY <1>7 DEF Collected, HiderIn
<1>9. ASSUME NEW d \in Range(x), IsTag(d), NEW e \in DOMAIN Declared, MayHide(e, d)
      PROVE  HiderIn(f \o x, d)
  <2>1. PICK i \in DOMAIN x : x[i] = d
    BY <1>2
  <2>2. PICK j \in DOMAIN x : Hider(x[j], d)
    BY <1>9, <2>1 DEF Covered, HiderNear, Near
  <2>3. x[j] \in Range(f \o x)
    BY <1>1, <1>7, <2>2, RangeOf
  <2> QED BY <2>2, <2>3 DEF HiderIn
<1>10. Collected(f \o x)
  BY <1>3, <1>7, <1>8, <1>9 DEF Collected
<1> QED BY <1>6, <1>10

LEMMA AcceptedClose ==
  ASSUME NEW s \in Lists, NEW i \in DOMAIN Acceptable(s), IsTag(Acceptable(s)[i]),
         NEW e \in Range(Acceptable(s)), Hider(e, Acceptable(s)[i]),
         \A k \in DOMAIN s : IsTag(s[k]) /\ Hider(e, s[k]) /\ e \in Range(s) =>
           \E j \in DOMAIN s : Near(s, j, k) /\ Declared[e].idns \subseteq Declared[s[j]].idns
  PROVE  HiderNear(Acceptable(s), i)
<1> DEFINE u == Acceptable(s)
           keep == Accepting(s)
<1>1. /\ u \in Lists /\ Range(u) \subseteq Range(s) /\ keep \in SUBSET DOMAIN s
      /\ \A d \in Range(u) : Accepted(d, IDNS)
  BY AcceptedFrom DEF Accepting
<1>2. PICK g : KeptFrom(u, s, keep, g)
  BY AcceptedFrom
<1>3. g[i] \in keep /\ u[i] = s[g[i]]
  BY <1>1, <1>2, RangeOf DEF KeptFrom
<1>4. e \in Range(s) /\ Accepted(e, IDNS)
  BY <1>1
<1>5. PICK j \in DOMAIN s : Near(s, j, g[i]) /\ Declared[e].idns \subseteq Declared[s[j]].idns
  BY <1>1, <1>3, <1>4
<1>6. j \in keep
  BY <1>4, <1>5 DEF Accepting, Accepted
<1>7. i \in DOMAIN u
  OBVIOUS
<1> HIDE DEF u, keep
<1>8. \E y \in DOMAIN u : g[y] = j /\ Near(u, y, i)
  BY <1>1, <1>2, <1>5, <1>6, <1>7, KeptNear
<1> QED BY <1>8 DEF HiderNear, u

\* What of a list hides a tag of it, accepted like the tag, is near it.
LEMMA AcceptedOwn ==
  ASSUME lookup \in Requests, NEW s \in Everywhere, NEW i \in DOMAIN Acceptable(s),
         IsTag(Acceptable(s)[i]), NEW e \in Range(Acceptable(s)), Hider(e, Acceptable(s)[i])
  PROVE  HiderNear(Acceptable(s), i)
<1>1. s \in Lists
  BY ListFacts
<1>2. \A k \in DOMAIN s : IsTag(s[k]) /\ Hider(e, s[k]) /\ e \in Range(s) =>
        \E j \in DOMAIN s : Near(s, j, k) /\ Declared[e].idns \subseteq Declared[s[j]].idns
  BY BlockTagFacts
<1> QED BY <1>1, <1>2, AcceptedClose

\* The declarations of a list, where nothing was collected before.
LEMMA OwnFits ==
  ASSUME lookup \in Requests, NEW s \in Everywhere
  PROVE  Acceptable(s) \in Lists /\ Fits(<<>>, Acceptable(s))
<1> DEFINE u == Acceptable(s)
<1>1. u \in Lists /\ Range(<<>>) = {}
  BY ListFacts, AcceptedFrom DEF Range
<1>2. ASSUME NEW i \in DOMAIN u, IsTag(u[i]), NEW e \in Range(u), Hider(e, u[i]) PROVE HiderNear(u, i)
  BY <1>2, AcceptedOwn
<1> QED BY <1>1, <1>2 DEF Fits

\* The declarations of a block: with others only if they are free, of which no tag is.
LEMMA BlockFits ==
  ASSUME lookup \in Requests, NEW s \in Everywhere \ ContextLists(P), NEW f \in Lists, Collected(f),
         f # <<>> => WithLinkage /\ scope # 1
  PROVE  /\ Fits(f, Taken(Acceptable(s)))
         /\ WithLinkage \/ Acceptable(s) = <<>> => Collected(f \o Taken(Acceptable(s)))
<1> DEFINE u == Acceptable(s)
           x == Taken(u)
<1>1. /\ s \in Lists /\ u \in Lists /\ x \in Lists /\ Range(x) \subseteq Range(u) /\ Range(u) \subseteq Range(s)
      /\ \A d \in Range(u) : Accepted(d, IDNS)
  BY ListFacts, AcceptedFrom, TakenFacts
<1>2. Range(f \o x) = Range(f) \cup Range(x)
  BY <1>1, RangeOfBoth
<1>3. \A d \in Range(x) : InBlocks(d) /\ Accepted(d, IDNS) /\ Sourced(d)
  BY <1>1 DEF InBlocks, Sourced
<1>4. CASE WithLinkage /\ scope # 1
  <2>1. \A d \in Range(x) : Free(d)
    BY <1>1, <1>4, TakenFacts
  <2>2. \A d \in Range(x) : ~IsTag(d)
    <3> TAKE d \in Range(x)
    <3>1. PICK i \in DOMAIN s : s[i] = d
      BY <1>1, RangeOf
    <3> QED BY <1>4, <2>1, <3>1, BlockTagFacts
  <2>3. ASSUME NEW d \in Range(f), IsTag(d), NEW e \in Range(x), Hider(e, d) PROVE HiderIn(f, d)
    <3>1. ~InBlocks(d)
      BY <1>3, <1>4, <2>1, <2>3, BlockTagApart
    <3>2. MayHide(e, d) /\ e \in DOMAIN Declared
      BY <1>1, <1>3, <2>3, RangeOf DEF MayHide
    <3> QED BY <2>3, <3>1, <3>2 DEF Collected
  <2>4. Fits(f, x)
    <3>1. \A i \in DOMAIN x : x[i] \in Range(x)
      BY <1>1, RangeOf
    <3> QED BY <2>2, <2>3, <3>1 DEF Fits
  <2>5. Collected(f \o x)
    BY <1>2, <1>3, <2>2 DEF Collected, HiderIn
  <2> QED BY <2>4, <2>5
<1>5. CASE f = <<>> /\ ~(WithLinkage /\ scope # 1)
  <2>1. x = u /\ Range(f) = {}
    BY <1>1, <1>5, TakenFacts DEF Range
  <2>3. Fits(f, x)
    BY <1>5, <2>1, OwnFits
  <2>4. WithLinkage \/ u = <<>> => Collected(f \o x)
    <3>1. u = <<>> => Range(x) = {}
      BY <2>1 DEF Range
    <3> QED BY <1>2, <1>3, <2>1, <3>1 DEF Collected
  <2> QED BY <2>3, <2>4
<1> QED BY <1>4, <1>5

-----------------------------------------------------------------------------
(***************************************************************************)
(* What fits may be added: the walk uses its result as ResultSpec says.    *)
(***************************************************************************)
LEMMA HiddenBy ==
  ASSUME NEW s \in Lists
  PROVE  \A d : HiddenIn(Declared[d], s) <=> lookup.hideTags /\ IsTag(d) /\ HiderIn(s, d)
<1> TAKE d
<1>1. HiddenIn(Declared[d], s) => lookup.hideTags /\ IsTag(d) /\ HiderIn(s, d)
  <2>1. SUFFICES ASSUME HiddenIn(Declared[d], s) PROVE lookup.hideTags /\ IsTag(d) /\ HiderIn(s, d)
    OBVIOUS
  <2>2. PICK e \in ValidIn(s) : Hides(e, Declared[d])
    BY <2>1 DEF HiddenIn
  <2>3. PICK i \in DOMAIN s : e = Declared[s[i]]
    BY <2>2 DEF ValidIn
  <2>4. s[i] \in Range(s) /\ Hider(s[i], d)
    BY <2>2, <2>3, RangeOf DEF Hider
  <2> QED BY <2>1, <2>4 DEF HiddenIn, IsTag, HiderIn
<1>2. ASSUME lookup.hideTags, IsTag(d), HiderIn(s, d) PROVE HiddenIn(Declared[d], s)
  <2>1. PICK h \in Range(s) : Hider(h, d)
    BY <1>2 DEF HiderIn
  <2>2. PICK i \in DOMAIN s : s[i] = h
    BY <2>1, RangeOf
  <2>3. Declared[h] \in ValidIn(s)
    BY <2>1, <2>2 DEF ValidIn, Hider, Hides
  <2> QED BY <1>2, <2>1, <2>3 DEF HiddenIn, IsTag, Hider
<1> QED BY <1>1, <1>2

LEMMA CloseFacts == HidersClose <=> CloseTo(decls, found)
BY DEF HidersClose, CloseTo, HiderNear, Near, Hider, Found

LEMMA ResultFacts ==
  ASSUME ResultInv
  PROVE  /\ found \in Lists /\ decls \in Lists /\ Len(decls) <= Len(found)
         /\ Range(decls) \subseteq Range(found) /\ (found = <<>> <=> decls = <<>>)
         /\ pc = "done" => Represents(decls, found)
<1>1. /\ found \in Lists /\ decls \in Lists /\ Len(decls) <= Len(found) /\ (found # <<>> => decls # <<>>)
      /\ \A i \in DOMAIN decls : \E k \in DOMAIN found : decls[i] = found[k]
  BY DEF ResultInv, TypeInv
<1>2. Range(decls) \subseteq Range(found)
  <2>1. /\ \A d : d \in Range(decls) <=> \E i \in DOMAIN decls : decls[i] = d
        /\ \A d : d \in Range(found) <=> \E i \in DOMAIN found : found[i] = d
    BY <1>1, RangeOf
  <2> QED BY <1>1, <2>1
<1>3. found = <<>> => decls = <<>>
  <2>1. Len(found) \in Nat /\ Len(decls) \in Nat
    BY <1>1, RangeOf
  <2>2. found = <<>> => Len(decls) = 0
    BY <1>1, <2>1
  <2> QED BY <1>1, <2>2 DEF Lists
<1>4. pc = "done" => Represents(decls, found)
  BY RepresentedNow DEF ResultInv, TypeInv, Scanning
<1> QED BY <1>1, <1>2, <1>3, <1>4

LEMMA CloseOfBoth ==
  ASSUME NEW s \in Lists, NEW f \in Lists, NEW t \in Lists, NEW x \in Lists,
         CloseTo(s, f), CloseTo(t, x), Apart(s, f, t, x)
  PROVE  CloseTo(s \o t, f \o x)
<1>1. ASSUME NEW i \in DOMAIN (s \o t), HiddenIn(Declared[(s \o t)[i]], f \o x)
      PROVE  HiderNear(s \o t, i)
  <2>1. HiddenIn(Declared[(s \o t)[i]], f) \/ HiddenIn(Declared[(s \o t)[i]], x)
    BY <1>1, VisibleOfBoth
  <2>2. CASE i \in DOMAIN s
    <3>1. (s \o t)[i] = s[i]
      BY <2>2, RangeOfBoth
    <3>2. HiddenIn(Declared[s[i]], f)
      BY <2>1, <2>2, <3>1 DEF Apart
    <3> QED BY <2>2, <3>2, NearOfBoth DEF CloseTo
  <2>3. ASSUME NEW k \in DOMAIN t, i = k + Len(s) PROVE HiderNear(s \o t, i)
    <3>1. (s \o t)[i] = t[k]
      BY <2>3, RangeOfBoth
    <3>2. HiddenIn(Declared[t[k]], x)
      BY <2>1, <2>3, <3>1 DEF Apart
    <3> QED BY <2>3, <3>2, NearOfBoth DEF CloseTo
  <2>4. i \in DOMAIN s \/ \E k \in DOMAIN t : i = k + Len(s)
    BY RangeOfBoth
  <2> QED BY <2>2, <2>3, <2>4
<1> QED BY <1>1 DEF CloseTo

LEMMA FitsApart ==
  ASSUME ResultInv, NEW x \in Lists, Fits(found, x)
  PROVE  Apart(decls, found, x, x) /\ CloseTo(x, x)
<1>1. found \in Lists /\ decls \in Lists /\ Range(decls) \subseteq Range(found)
  BY ResultFacts
<1>2. ASSUME NEW i \in DOMAIN decls, HiddenIn(Declared[decls[i]], x)
      PROVE  HiddenIn(Declared[decls[i]], found)
  <2>1. decls[i] \in Range(found)
    BY <1>1, RangeOf
  <2>2. lookup.hideTags /\ IsTag(decls[i]) /\ HiderIn(x, decls[i])
    BY <1>2, HiddenBy
  <2>3. HiderIn(found, decls[i])
    BY <2>1, <2>2 DEF Fits, HiderIn
  <2> QED BY <1>1, <2>2, <2>3, HiddenBy
<1>3. ASSUME NEW i \in DOMAIN x, HiddenIn(Declared[x[i]], x) \/ HiddenIn(Declared[x[i]], found)
      PROVE  HiderNear(x, i) /\ HiddenIn(Declared[x[i]], x)
  <2>1. lookup.hideTags /\ IsTag(x[i]) /\ (HiderIn(x, x[i]) \/ HiderIn(found, x[i]))
    BY <1>1, <1>3, HiddenBy
  <2>2. HiderNear(x, i)
    BY <2>1 DEF Fits, HiderIn
  <2>3. PICK j \in DOMAIN x : Hider(x[j], x[i])
    BY <2>2 DEF HiderNear, Near
  <2>4. HiderIn(x, x[i])
    BY <2>3, RangeOf DEF HiderIn
  <2> QED BY <2>1, <2>2, <2>4, HiddenBy
<1> QED BY <1>2, <1>3 DEF Apart, CloseTo

LEMMA AddedPart ==
  ASSUME NEW f \in Lists, NEW x \in Lists
  PROVE  SubSeq(f \o x, Len(f) + 1, Len(f \o x)) = x /\ SubSeq(f \o x, 1, Len(f \o x) - Len(x)) = f
<1>1. /\ Len(f) \in Nat /\ Len(x) \in Nat /\ Len(f \o x) = Len(f) + Len(x) /\ f \o x \in Lists
      /\ DOMAIN f = 1 .. Len(f) /\ DOMAIN x = 1 .. Len(x)
  BY RangeOfBoth, RangeOf
<1> DEFINE u == f \o x
           a == SubSeq(u, Len(f) + 1, Len(u))
           b == SubSeq(u, 1, Len(u) - Len(x))
<1>2. a \in Lists /\ Len(a) = Len(x) /\ \A i \in 1 .. Len(x) : a[i] = u[Len(f) + i]
  BY <1>1 DEF Lists
<1>3. b \in Lists /\ Len(b) = Len(f) /\ \A i \in 1 .. Len(f) : b[i] = u[i]
  BY <1>1 DEF Lists
<1>4. /\ \A i \in 1 .. Len(x) : u[Len(f) + i] = x[i]
      /\ \A i \in 1 .. Len(f) : u[i] = f[i]
  BY <1>1 DEF Lists
<1> HIDE DEF a, b, u
<1>5. a = x
  BY <1>1, <1>2, <1>4 DEF Lists
<1>6. b = f
  BY <1>1, <1>3, <1>4 DEF Lists
<1> QED BY <1>5, <1>6 DEF a, b, u

LEMMA CollectUse ==
  ASSUME ResultInv, HidersClose, pc = "done", pc' \in {"done", "begin"},
         kind \notin Subobjects \cup {"AmbiguousTagHiding"},
         NEW x \in Lists, addDecls(x), Fits(found, x),
         UNCHANGED <<lookup, next, removed, unique2, flags>>
  PROVE  Use /\ HidersClose' /\ found' = found \o x
<1>1. found \in Lists /\ decls \in Lists
  BY ResultFacts
<1>2. found' = found \o x /\ decls' = decls \o x /\ kind' = IF x = <<>> THEN kind ELSE "Found"
  BY DEF addDecls
<1>3. Apart(decls, found, x, x) /\ CloseTo(x, x) /\ CloseTo(decls, found)
  BY FitsApart, CloseFacts
<1>4. SubSeq(found', Len(found) + 1, Len(found')) = x
  BY <1>1, <1>2, AddedPart
<1>5. Collect
  BY <1>3, <1>4 DEF Collect
<1>6. CloseTo(decls \o x, found \o x)
  BY <1>1, <1>3, CloseOfBoth
<1>7. CloseTo(decls, found)'
  BY <1>2, <1>6, AllUnchanged DEF CloseTo, HiderNear, Near, Hider
<1>8. HidersClose'
  BY <1>7 DEF HidersClose, CloseTo, HiderNear, Near, Hider, Found
<1>9. kind' \notin Subobjects \cup {"AmbiguousTagHiding"}
  BY <1>2 DEF Subobjects
<1> QED BY <1>2, <1>5, <1>8, <1>9 DEF Use

\* What adds again all that is there, as it came, and fits alone, may be added too.
LEMMA OpenUse ==
  ASSUME ResultInv, pc = "done", pc' \in {"done", "begin"},
         kind \notin Subobjects \cup {"AmbiguousTagHiding"}, decls = found,
         NEW x \in Lists, addDecls(x), Range(found) \subseteq Range(x), Fits(<<>>, x),
         UNCHANGED <<lookup, next, removed, unique2, flags>>
  PROVE  Use /\ HidersClose' /\ found' = found \o x
<1> DEFINE u == found \o x
<1>1. found \in Lists
  BY ResultFacts
<1>2. found' = u /\ decls' = u /\ kind' = IF x = <<>> THEN kind ELSE "Found"
  BY DEF addDecls
<1>3. /\ u \in Lists /\ Range(u) = Range(x)
      /\ \A i \in DOMAIN u : i \in DOMAIN found \/ \E k \in DOMAIN x : i = k + Len(found)
      /\ \A k \in DOMAIN x : k + Len(found) \in DOMAIN u /\ u[k + Len(found)] = x[k]
  BY <1>1, RangeOfBoth
<1> HIDE DEF u
<1>4. ASSUME NEW i \in DOMAIN u, IsTag(u[i]), HiderIn(u, u[i]) PROVE HiderNear(u, i)
  <2>1. PICK e \in Range(x) : Hider(e, u[i])
    BY <1>3, <1>4 DEF HiderIn
  <2>2. CASE i \in DOMAIN found
    <3>1. PICK k \in DOMAIN x : x[k] = e
      BY <2>1, RangeOf
    <3>2. Hider(u[k + Len(found)], u[i])
      BY <1>3, <2>1, <3>1
    <3>3. (k + Len(found)) .. i = {}
      <4>1. k \in 1 .. Len(x) /\ i \in 1 .. Len(found) /\ Len(found) \in Nat /\ Len(x) \in Nat
        BY <1>1, <2>2, RangeOf
      <4>2. k + Len(found) > i
        BY <4>1
      <4> QED BY <4>1, <4>2
    <3>4. Near(u, k + Len(found), i)
      BY <3>2, <3>3 DEF Near
    <3> QED BY <1>3, <3>4 DEF HiderNear
  <2>3. ASSUME NEW k \in DOMAIN x, i = k + Len(found) PROVE HiderNear(u, i)
    <3>1. HiderNear(x, k)
      BY <1>3, <1>4, <2>1, <2>3 DEF Fits
    <3> QED BY <1>1, <2>3, <3>1, NearOfBoth DEF u
  <2> QED BY <1>3, <2>2, <2>3
<1>5. CloseTo(u, u)
  BY <1>3, <1>4, HiddenBy DEF CloseTo
<1>6. CloseTo(decls, found)'
  BY <1>2, <1>5, AllUnchanged DEF CloseTo, HiderNear, Near, Hider
<1>7. HidersClose'
  BY <1>6 DEF HidersClose, CloseTo, HiderNear, Near, Hider, Found
<1>8. SubSeq(found', Len(found) + 1, Len(found')) = x
  BY <1>1, <1>2, AddedPart DEF u
<1>9. Collect
  BY <1>8 DEF Collect
<1>10. kind' \notin Subobjects \cup {"AmbiguousTagHiding"}
  BY <1>2 DEF Subobjects
<1> QED BY <1>2, <1>7, <1>9, <1>10 DEF Use, u

LEMMA BeginUse ==
  ASSUME ResultInv, pc = "done", pc' \in {"done", "begin"}, NEW x \in Lists \ {<<>>}, Fits(<<>>, x),
         found' = x, decls' = x, kind' = "Found", resolved' = FALSE,
         UNCHANGED <<lookup, next, removed, unique2, flags>>
  PROVE  Use /\ HidersClose'
<1>1. CloseTo(x, x)
  <2>1. ASSUME NEW i \in DOMAIN x, HiddenIn(Declared[x[i]], x) PROVE HiderNear(x, i)
    <3>1. IsTag(x[i]) /\ HiderIn(x, x[i])
      BY <2>1, HiddenBy
    <3> QED BY <3>1 DEF Fits, HiderIn
  <2> QED BY <2>1 DEF CloseTo
<1>2. CloseTo(decls, found)'
  BY <1>1, AllUnchanged DEF CloseTo, HiderNear, Near, Hider
<1>3. HidersClose'
  BY <1>2 DEF HidersClose, CloseTo, HiderNear, Near, Hider, Found
<1>4. Begin
  BY DEF Begin
<1> QED BY <1>3, <1>4 DEF Use, Subobjects

LEMMA JoinUse ==
  ASSUME ResultInv, HidersClose, pc = "done", pc' = "done", found # <<>>,
         NEW f \in Lists \ {<<>>}, NEW s \in Lists \ {<<>>}, Represents(s, f), CloseTo(s, f),
         Apart(s, f, decls, found),
         found' = f \o found, decls' = s \o decls, kind' = "Found", resolved' = FALSE,
         UNCHANGED <<lookup, next, removed, unique2, flags>>
  PROVE  Use /\ HidersClose'
<1>1. found \in Lists /\ decls \in Lists /\ decls # <<>> /\ CloseTo(decls, found)
  BY ResultFacts, CloseFacts
<1>2. /\ SubSeq(found', 1, Len(found') - Len(found)) = f
      /\ SubSeq(decls', 1, Len(decls') - Len(decls)) = s
  BY <1>1, AddedPart
<1>3. Join
  BY <1>1, <1>2 DEF Join
<1>4. CloseTo(s \o decls, f \o found)
  BY <1>1, CloseOfBoth
<1>5. CloseTo(decls, found)'
  BY <1>4, AllUnchanged DEF CloseTo, HiderNear, Near, Hider
<1>6. HidersClose'
  BY <1>5 DEF HidersClose, CloseTo, HiderNear, Near, Hider, Found
<1> QED BY <1>3, <1>6 DEF Use

-----------------------------------------------------------------------------
(***************************************************************************)
(* What the bases of a class and the C lookup add, to an empty result.     *)
(***************************************************************************)
LEMMA MinFacts ==
  ASSUME NEW S \in SUBSET Nat, S # {}
  PROVE  Min(S) \in S /\ \A m \in S : Min(S) <= m
<1>1. PICK n \in S : \A m \in S : n <= m
  BY LeastElement
<1> QED BY <1>1 DEF Min

\* The end of a list, from some declaration on.
LEMMA EndPart ==
  ASSUME NEW s \in Lists, NEW m \in DOMAIN s
  PROVE  LET t == SubSeq(s, m, Len(s))
         IN  /\ t \in Lists /\ Len(s) \in Nat /\ m \in 1 .. Len(s) /\ DOMAIN s = 1 .. Len(s)
             /\ DOMAIN t = 1 .. Len(s) - m + 1
             /\ \A k \in 1 .. Len(s) - m + 1 : t[k] = s[k + m - 1] /\ k + m - 1 \in DOMAIN s
<1>1. s \in Seq(DOMAIN Declared) /\ Len(s) \in Nat /\ DOMAIN s = 1 .. Len(s) /\ m \in 1 .. Len(s)
  BY RangeOf DEF Lists
<1>2. SubSeq(s, m, Len(s)) \in Seq(DOMAIN Declared) /\ DOMAIN SubSeq(s, m, Len(s)) = 1 .. Len(s) - m + 1
  BY <1>1
<1>3. ASSUME NEW k \in 1 .. Len(s) - m + 1
      PROVE  SubSeq(s, m, Len(s))[k] = s[k + m - 1] /\ k + m - 1 \in DOMAIN s
  <2>1. k + m - 1 \in 1 .. Len(s) /\ m + k - 1 = k + m - 1 /\ k \in Nat /\ m \in Nat
    BY <1>1
  <2>2. SubSeq(s, m, Len(s))[k] = s[m + k - 1]
    BY <1>1
  <2> QED BY <1>1, <2>1, <2>2
<1> QED BY <1>1, <1>2, <1>3 DEF Lists

\* The end of a list, from some declaration on, with what of it hides a tag.
LEMMA EndNear ==
  ASSUME NEW s \in Lists, NEW m \in DOMAIN s, NEW i \in DOMAIN SubSeq(s, m, Len(s)),
         NEW e \in Range(SubSeq(s, m, Len(s))), Hider(e, SubSeq(s, m, Len(s))[i]),
         NEW j \in DOMAIN s, Near(s, j, i + m - 1)
  PROVE  HiderNear(SubSeq(s, m, Len(s)), i)
<1> DEFINE t == SubSeq(s, m, Len(s))
<1>1. Len(s) \in Nat /\ DOMAIN s = 1 .. Len(s)
  BY RangeOf
<1>2. /\ t \in Lists /\ DOMAIN t = 1 .. Len(s) - m + 1 /\ i \in DOMAIN t /\ e \in Range(t)
      /\ \A k \in 1 .. Len(s) - m + 1 : t[k] = s[k + m - 1] /\ k + m - 1 \in DOMAIN s
  BY EndPart
<1>3. Hider(e, t[i])
  OBVIOUS
<1> HIDE DEF t
<1>4. t[i] = s[i + m - 1] /\ i \in Nat /\ m \in Nat /\ j \in Nat
  BY <1>1, <1>2
<1>5. CASE j >= m
  <2>1. j - m + 1 \in DOMAIN t /\ t[j - m + 1] = s[j]
    BY <1>1, <1>2, <1>4, <1>5
  <2>2. ASSUME NEW k \in j - m + 1 .. i PROVE Declared[t[k]].context = Declared[t[i]].context
    <3>1. k \in DOMAIN t /\ k + m - 1 \in j .. i + m - 1
      BY <1>1, <1>2, <1>4, <1>5
    <3> QED BY <1>2, <1>4, <3>1 DEF Near
  <2>3. Near(t, j - m + 1, i)
    BY <1>4, <2>1, <2>2 DEF Near
  <2> QED BY <2>1, <2>3 DEF HiderNear, t
<1>6. CASE ~(j >= m)
  <2>1. PICK p \in DOMAIN t : t[p] = e
    BY <1>2, RangeOf
  <2>2. ASSUME NEW k \in p .. i PROVE Declared[t[k]].context = Declared[t[i]].context
    <3>1. k \in DOMAIN t /\ k + m - 1 \in j .. i + m - 1
      BY <1>1, <1>2, <1>4, <1>6
    <3> QED BY <1>2, <1>4, <3>1 DEF Near
  <2>3. Near(t, p, i)
    BY <1>3, <2>1, <2>2 DEF Near
  <2> QED BY <2>1, <2>3 DEF HiderNear, t
<1> QED BY <1>5, <1>6

LEMMA FitsNone ==
  ASSUME NEW x, \A i \in DOMAIN x : IsTag(x[i]) => \A e \in Range(x) : Hider(e, x[i]) => HiderNear(x, i)
  PROVE  Fits(<<>>, x)
<1>1. Range(<<>>) = {}
  BY DEF Range
<1> QED BY <1>1 DEF Fits

LEMMA TakenFromFits ==
  ASSUME lookup \in Requests, NEW n \in DOMAIN P.scopes
  PROVE  TakenFrom(n) \in Lists /\ Fits(<<>>, TakenFrom(n))
<1> DEFINE s == P.scopes[n].decls
           u == Acceptable(s)
           first == {k \in DOMAIN u : ~WithLinkage \/ n = 1 \/ Declared[u[k]].linkage}
<1>1. s \in Everywhere /\ s \in Lists /\ u \in Lists
  BY ListFacts, AcceptedFrom
<1>2. DOMAIN u = 1 .. Len(u) /\ Len(u) \in Nat
  BY <1>1, RangeOf
<1>3. CASE first = {}
  <2>1. TakenFrom(n) = <<>>
    BY <1>3 DEF TakenFrom
  <2>2. <<>> \in Lists /\ DOMAIN <<>> = {}
    BY DEF Lists
  <2> QED BY <2>1, <2>2, FitsNone
<1>4. CASE first # {}
  <2> DEFINE m == Min(first)
             t == SubSeq(u, m, Len(u))
  <2>1. first \in SUBSET Nat
    BY <1>2
  <2>2. m \in DOMAIN u
    <3>1. m \in first
      <4> HIDE DEF first
      <4> QED BY <1>4, <2>1, MinFacts
    <3> QED BY <3>1
  <2>3. TakenFrom(n) = t
    BY <1>4 DEF TakenFrom
  <2> HIDE DEF m, first
  <2>4. /\ t \in Lists /\ DOMAIN t = 1 .. Len(u) - m + 1
        /\ \A k \in DOMAIN t : t[k] = u[k + m - 1] /\ k + m - 1 \in DOMAIN u
    BY <1>1, <1>2, <2>2 DEF Lists
  <2>5. ASSUME NEW i \in DOMAIN t, IsTag(t[i]), NEW e \in Range(t), Hider(e, t[i])
        PROVE  HiderNear(t, i)
    <3>1. PICK p \in DOMAIN t : t[p] = e
      BY <2>4, RangeOf
    <3>2. e \in Range(u)
      BY <1>1, <2>4, <3>1, RangeOf
    <3>3. HiderNear(u, i + m - 1)
      BY <1>1, <2>4, <2>5, <3>2, AcceptedOwn
    <3>4. PICK j \in DOMAIN u : Near(u, j, i + m - 1)
      BY <3>3 DEF HiderNear
    <3> HIDE DEF u
    <3> QED BY <1>1, <2>2, <2>5, <3>4, EndNear
  <2> QED BY <2>3, <2>4, <2>5, FitsNone
<1> QED BY <1>3, <1>4

\* What hides a tag of x, of all that is in E, is near it.
Closed(x, E) ==
  /\ x \in Lists /\ Range(x) \subseteq E
  /\ \A i \in DOMAIN x : IsTag(x[i]) => \A e \in E : Hider(e, x[i]) => HiderNear(x, i)

LEMMA ClosedBoth ==
  ASSUME NEW E, NEW x, NEW y, Closed(x, E), Closed(y, E)
  PROVE  Closed(x \o y, E)
<1>1. x \in Lists /\ y \in Lists /\ x \o y \in Lists /\ Range(x \o y) \subseteq E
  BY RangeOfBoth DEF Closed
<1>2. ASSUME NEW i \in DOMAIN (x \o y), IsTag((x \o y)[i]), NEW e \in E, Hider(e, (x \o y)[i])
      PROVE  HiderNear(x \o y, i)
  <2>1. CASE i \in DOMAIN x
    <3>1. (x \o y)[i] = x[i] /\ (HiderNear(x, i) => HiderNear(x \o y, i))
      BY <1>1, <2>1, RangeOfBoth, NearOfBoth
    <3> QED BY <1>2, <2>1, <3>1 DEF Closed
  <2>2. ASSUME NEW k \in DOMAIN y, i = k + Len(x) PROVE HiderNear(x \o y, i)
    <3>1. (x \o y)[i] = y[k] /\ (HiderNear(y, k) => HiderNear(x \o y, i))
      BY <1>1, <2>2, RangeOfBoth, NearOfBoth
    <3> QED BY <1>2, <2>2, <3>1 DEF Closed
  <2>3. i \in DOMAIN x \/ \E k \in DOMAIN y : i = k + Len(x)
    BY <1>1, RangeOfBoth
  <2> QED BY <2>1, <2>2, <2>3
<1> QED BY <1>1, <1>2 DEF Closed

LEMMA ClosedJoined ==
  ASSUME NEW E, NEW l \in Seq(Lists), \A k \in DOMAIN l : Closed(l[k], E)
  PROVE  Closed(Joined(l), E)
<1>1. Len(l) \in Nat /\ DOMAIN l = 1 .. Len(l)
  OBVIOUS
<1>2. PICK F : IsJoin(F, l, Len(l), DOMAIN Declared) /\ Joined(l) = F[Len(l)]
  BY JoinedBySteps DEF Lists
<1> DEFINE S == {k \in 0 .. Len(l) : Closed(F[k], E)}
<1>3. 0 \in S
  <2>1. <<>> \in Lists /\ DOMAIN <<>> = {} /\ Range(<<>>) = {}
    BY DEF Lists, Range
  <2>2. Closed(<<>>, E)
    BY <2>1 DEF Closed
  <2> QED BY <1>1, <1>2, <2>2 DEF IsJoin
<1>4. ASSUME NEW k \in 1 .. Len(l), k - 1 \in S PROVE k \in S
  <2>1. F[k] = F[k - 1] \o l[k]
    BY <1>2 DEF IsJoin
  <2>2. Closed(F[k - 1], E) /\ Closed(l[k], E) /\ k \in 0 .. Len(l)
    BY <1>1, <1>4
  <2> QED BY <2>1, <2>2, ClosedBoth
<1> HIDE DEF S
<1>5. \A k \in 0 .. Len(l) : k \in S
  BY <1>1, <1>3, <1>4, UpTo
<1>6. Closed(F[Len(l)], E)
  BY <1>1, <1>5 DEF S
<1> QED BY <1>2, <1>6

LEMMA JoinedGrows ==
  ASSUME NEW l \in Seq(Lists), NEW n \in DOMAIN l, l[n] # <<>>
  PROVE  Joined(l) # <<>>
<1>1. Len(l) \in Nat /\ DOMAIN l = 1 .. Len(l)
  OBVIOUS
<1>2. PICK F : IsJoin(F, l, Len(l), DOMAIN Declared) /\ Joined(l) = F[Len(l)]
  BY JoinedBySteps DEF Lists
<1>3. \A k \in 0 .. Len(l) : F[k] \in Lists
  BY <1>2 DEF IsJoin, Lists
<1> DEFINE S == {k \in 0 .. Len(l) : k >= n => Len(F[k]) > 0}
<1>4. 0 \in S
  BY <1>1
<1>5. ASSUME NEW k \in 1 .. Len(l), k - 1 \in S PROVE k \in S
  <2>1. F[k] = F[k - 1] \o l[k] /\ k \in 0 .. Len(l) /\ k - 1 \in 0 .. Len(l)
    BY <1>1, <1>2 DEF IsJoin
  <2>2. F[k - 1] \in Lists /\ l[k] \in Lists
    BY <1>1, <1>3, <2>1
  <2>3. Len(F[k - 1] \o l[k]) = Len(F[k - 1]) + Len(l[k])
    BY <2>2, RangeOfBoth
  <2>4. Len(F[k - 1]) \in Nat /\ Len(l[k]) \in Nat
    BY <2>2, RangeOf
  <2>5. k > n => Len(F[k - 1]) > 0
    BY <1>1, <1>5
  <2>6. k = n => Len(l[k]) # 0
    BY <2>2 DEF Lists
  <2> DEFINE a == Len(F[k - 1])
             b == Len(l[k])
  <2>7. Len(F[k]) = a + b
    BY <2>1, <2>3
  <2>8. a \in Nat /\ b \in Nat /\ (k > n => a > 0) /\ (k = n => b # 0)
    BY <2>4, <2>5, <2>6
  <2> HIDE DEF a, b
  <2>9. k >= n => a + b > 0
    BY <1>1, <2>8
  <2> QED BY <2>1, <2>7, <2>9
<1> HIDE DEF S
<1>6. \A k \in 0 .. Len(l) : k \in S
  BY <1>1, <1>4, <1>5, UpTo
<1>7. Len(F[Len(l)]) > 0
  BY <1>1, <1>6 DEF S
<1> QED BY <1>2, <1>7

LEMMA PathsFacts ==
  ASSUME lookup \in Requests, ctx \in Contexts
  PROVE  /\ DOMAIN Paths = 1 .. Len(Paths) /\ Len(Paths) \in Nat /\ (Paths # <<>> => Len(Paths) # 0)
         /\ \A k \in DOMAIN Paths :
              \E m \in DOMAIN P.contexts[ctx].paths :
                 Paths[k] = P.contexts[ctx].paths[m] /\ Accepting(Paths[k].decls) # {}
                 /\ Paths[k].decls \in Lists
<1> DEFINE s == P.contexts[ctx].paths
           keep == {k \in DOMAIN s : Accepting(s[k].decls) # {}}
           T == Range(s)
<1>1. s \in Seq(T) /\ \A k \in DOMAIN s : s[k].decls \in Lists
  BY ContextFacts DEF IsSeq
<1>2. keep \in SUBSET DOMAIN s /\ Paths = Kept(s, keep) /\ \A k \in keep : Accepting(s[k].decls) # {}
  BY DEF Paths
<1> HIDE DEF s, keep, T
<1>3. Paths \in Seq(T) /\ \E g : KeptFrom(Paths, s, keep, g)
  BY <1>1, <1>2, KeptInOrder
<1>4. PICK g : KeptFrom(Paths, s, keep, g)
  BY <1>3
<1>5. DOMAIN Paths = 1 .. Len(Paths) /\ Len(Paths) \in Nat /\ (Paths # <<>> => Len(Paths) # 0)
  BY <1>3
<1>6. ASSUME NEW k \in DOMAIN Paths
      PROVE \E m \in DOMAIN s : Paths[k] = s[m] /\ Accepting(Paths[k].decls) # {} /\ Paths[k].decls \in Lists
  <2>1. g[k] \in keep /\ Paths[k] = s[g[k]]
    BY <1>4, <1>5 DEF KeptFrom
  <2> QED BY <1>1, <1>2, <2>1
<1> QED BY <1>5, <1>6 DEF s

LEMMA FirstPathFits ==
  ASSUME lookup \in Requests, ctx \in Contexts, Paths # <<>>
  PROVE  Acceptable(Paths[1].decls) \in Lists /\ Fits(<<>>, Acceptable(Paths[1].decls))
<1>1. 1 \in DOMAIN Paths
  <2>1. Len(Paths) # 0
    BY PathsFacts
  <2> QED BY <2>1, PathsFacts
<1>2. PICK m \in DOMAIN P.contexts[ctx].paths : Paths[1] = P.contexts[ctx].paths[m] /\ Paths[1].decls \in Lists
  BY <1>1, PathsFacts
<1> DEFINE s == Paths[1].decls
           x == Acceptable(s)
<1>3. x \in Lists
  BY <1>2, AcceptedFrom
<1>4. ASSUME NEW i \in DOMAIN x, IsTag(x[i]), NEW e \in Range(x), Hider(e, x[i])
      PROVE  HiderNear(x, i)
  <2>1. \A k \in DOMAIN s : IsTag(s[k]) /\ Hider(e, s[k]) /\ e \in Range(s) =>
          \E j \in DOMAIN s : Near(s, j, k) /\ Declared[e].idns \subseteq Declared[s[j]].idns
    <3>1. SUFFICES ASSUME NEW k \in DOMAIN s, IsTag(s[k]), Hider(e, s[k]), e \in Range(s)
                   PROVE  \E j \in DOMAIN s : Near(s, j, k) /\ Declared[e].idns \subseteq Declared[s[j]].idns
      OBVIOUS
    <3>2. s = P.contexts[ctx].paths[m].decls
      BY <1>2
    <3> HIDE DEF s
    <3> QED BY <3>1, <3>2, PathFacts
  <2> QED BY <1>2, <1>4, <2>1, AcceptedClose
<1> QED BY <1>3, <1>4, FitsNone

LEMMA PathDeclsFacts ==
  ASSUME NEW p, p.decls \in Lists, Accepting(p.decls) # {}
  PROVE  /\ PathDecls(p) \in Lists \ {<<>>}
         /\ \E m \in DOMAIN p.decls :
              /\ PathDecls(p) = SubSeq(p.decls, m, Len(p.decls))
              /\ \A i \in DOMAIN PathDecls(p) :
                   i + m - 1 \in DOMAIN p.decls /\ PathDecls(p)[i] = p.decls[i + m - 1]
<1> DEFINE s == p.decls
           m == Min(Accepting(s))
           t == SubSeq(s, m, Len(s))
<1>1. DOMAIN s = 1 .. Len(s) /\ Len(s) \in Nat
  BY RangeOf
<1>2. Accepting(s) \subseteq DOMAIN s /\ Accepting(s) \in SUBSET Nat
  BY <1>1 DEF Accepting
<1>3. m \in DOMAIN s
  BY <1>2, MinFacts
<1>4. PathDecls(p) = t
  BY DEF PathDecls
<1> HIDE DEF m
<1>5. /\ t \in Lists /\ Len(t) = Len(s) - m + 1 /\ DOMAIN t = 1 .. Len(s) - m + 1
      /\ \A k \in DOMAIN t : t[k] = s[k + m - 1] /\ k + m - 1 \in DOMAIN s
  BY <1>1, <1>3 DEF Lists
<1>6. t # <<>>
  <2>1. Len(t) # 0
    BY <1>1, <1>3, <1>5
  <2> HIDE DEF t
  <2> QED BY <1>5, <2>1 DEF Lists
<1> QED BY <1>3, <1>4, <1>5, <1>6

LEMMA ClashFits ==
  ASSUME lookup \in Requests, ctx \in Contexts, NEW x, x = Joined([k \in DOMAIN Paths |-> PathDecls(Paths[k])])
  PROVE  x \in Lists /\ Fits(<<>>, x) /\ (DOMAIN Paths # {} => x # <<>>)
<1> DEFINE l == [k \in DOMAIN Paths |-> PathDecls(Paths[k])]
           E == UNION {Range(l[k]) : k \in DOMAIN l}
           C == P.contexts[ctx]
<1>1. /\ DOMAIN Paths = 1 .. Len(Paths) /\ Len(Paths) \in Nat /\ DOMAIN l = DOMAIN Paths
      /\ \A k \in DOMAIN l : l[k] = PathDecls(Paths[k])
  BY PathsFacts
<1>2. \A k \in DOMAIN Paths : \E m \in DOMAIN C.paths :
        Paths[k] = C.paths[m] /\ Accepting(Paths[k].decls) # {} /\ Paths[k].decls \in Lists
  BY PathsFacts
<1>3. \A k \in DOMAIN Paths : PathDecls(Paths[k]) \in Lists \ {<<>>}
  BY <1>2, PathDeclsFacts
<1>4. l \in Seq(Lists)
  <2>1. \A k \in 1 .. Len(Paths) : PathDecls(Paths[k]) \in Lists
    BY <1>1, <1>3
  <2> QED BY <1>1, <2>1
<1>5. ASSUME NEW k \in DOMAIN l, NEW i \in DOMAIN l[k], IsTag(l[k][i]), NEW e \in E, Hider(e, l[k][i])
      PROVE  HiderNear(l[k], i)
  <2>1. PICK n \in DOMAIN l : e \in Range(l[n])
    BY <1>5
  <2> DEFINE p == Paths[k]
             q == Paths[n]
  <2>2. l[k] = PathDecls(p) /\ l[n] = PathDecls(q) /\ k \in DOMAIN Paths /\ n \in DOMAIN Paths
    BY <1>1
  <2>3. PICK y \in DOMAIN C.paths : p = C.paths[y] /\ Accepting(p.decls) # {} /\ p.decls \in Lists
    BY <1>2, <2>2
  <2>4. PICK z \in DOMAIN C.paths : q = C.paths[z] /\ Accepting(q.decls) # {} /\ q.decls \in Lists
    BY <1>2, <2>2
  <2> HIDE DEF l, E, p, q
  <2>5. PICK m \in DOMAIN p.decls :
          /\ PathDecls(p) = SubSeq(p.decls, m, Len(p.decls))
          /\ \A v \in DOMAIN PathDecls(p) :
               v + m - 1 \in DOMAIN p.decls /\ PathDecls(p)[v] = p.decls[v + m - 1]
    BY <2>3, PathDeclsFacts
  <2>6. e \in Range(q.decls)
    <3>1. PICK r \in DOMAIN q.decls :
            /\ PathDecls(q) = SubSeq(q.decls, r, Len(q.decls))
            /\ \A v \in DOMAIN PathDecls(q) :
                 v + r - 1 \in DOMAIN q.decls /\ PathDecls(q)[v] = q.decls[v + r - 1]
      BY <2>4, PathDeclsFacts
    <3>2. PathDecls(q) \in Lists
      BY <2>4, PathDeclsFacts
    <3>3. PICK v \in DOMAIN PathDecls(q) : PathDecls(q)[v] = e
      BY <2>1, <2>2, <3>2, RangeOf
    <3>4. v + r - 1 \in DOMAIN q.decls /\ q.decls[v + r - 1] = e
      BY <3>1, <3>3
    <3> QED BY <2>4, <3>4, RangeOf
  <2>7. i + m - 1 \in DOMAIN p.decls /\ l[k][i] = p.decls[i + m - 1]
    BY <2>2, <2>5
  <2>8. /\ q.decls = p.decls
        /\ \E j \in DOMAIN p.decls : Near(p.decls, j, i + m - 1)
    BY <1>5, <2>3, <2>4, <2>6, <2>7, PathFacts
  <2>9. PathDecls(q) = PathDecls(p)
    BY <2>8 DEF PathDecls
  <2>10. e \in Range(PathDecls(p)) /\ i \in DOMAIN PathDecls(p) /\ Hider(e, PathDecls(p)[i])
    BY <1>5, <2>1, <2>2, <2>9
  <2>11. HiderNear(PathDecls(p), i)
    BY <2>3, <2>5, <2>8, <2>10, EndNear
  <2> QED BY <2>2, <2>11
<1>6. \A k \in DOMAIN l : Closed(l[k], E)
  <2>1. \A k \in DOMAIN l : l[k] \in Lists
    BY <1>1, <1>3
  <2> QED BY <1>5, <2>1 DEF Closed
<1>7. x = Joined(l)
  OBVIOUS
<1> HIDE DEF l, E
<1>8. Closed(x, E)
  BY <1>4, <1>6, <1>7, ClosedJoined
<1>9. Fits(<<>>, x)
  <2>1. \A i \in DOMAIN x : IsTag(x[i]) => \A e \in Range(x) : Hider(e, x[i]) => HiderNear(x, i)
    BY <1>8 DEF Closed
  <2> QED BY <2>1, FitsNone
<1>10. DOMAIN Paths # {} => x # <<>>
  <2>1. \A k \in DOMAIN l : l[k] # <<>>
    BY <1>1, <1>3
  <2> QED BY <1>1, <1>4, <1>7, <2>1, JoinedGrows
<1> QED BY <1>8, <1>9, <1>10 DEF Closed

-----------------------------------------------------------------------------
(***************************************************************************)
(* Where the walk goes.                                                    *)
(***************************************************************************)
LEMMA SameProgram ==
  ASSUME UNCHANGED lookup
  PROVE  /\ P' = P /\ Contexts' = Contexts /\ Files' = Files /\ Everywhere' = Everywhere
         /\ \A i : (IsFileScope(i)' <=> IsFileScope(i)) /\ (NotFile(i)' <=> NotFile(i))
         /\ \A c : (IsClass(c)' <=> IsClass(c)) /\ (IsFile(c)' <=> IsFile(c)) /\ Parent(c)' = Parent(c)
         /\ (Unqualified' <=> Unqualified) /\ (WithLinkage' <=> WithLinkage) /\ BuiltinDecl' = BuiltinDecl
         /\ Asked' = Asked
<1>1. P' = P
  BY DEF P
<1> QED BY <1>1 DEF Contexts, Files, Everywhere, IsFileScope, NotFile, IsClass, IsFile, Parent,
                    Unqualified, WithLinkage, BuiltinDecl, Asked

LEMMA SameNamespaces ==
  ASSUME UNCHANGED <<lookup, localExtern>>
  PROVE  /\ IDNS' = IDNS
         /\ \A f : Collected(f)' <=> Collected(f)
         /\ \A f : OutOfBlocks(f)' <=> OutOfBlocks(f)
<1>1. IDNS' = IDNS /\ P' = P /\ Contexts' = Contexts /\ Everywhere' = Everywhere /\ BuiltinDecl' = BuiltinDecl
  BY SameProgram DEF IDNS
<1>2. \A d : /\ ForWant(d)' <=> ForWant(d)
             /\ InContexts(d)' <=> InContexts(d)
             /\ InBlocks(d)' <=> InBlocks(d)
  BY <1>1 DEF ForWant, InContexts, InBlocks
<1>3. \A d : Sourced(d)' <=> Sourced(d)
  BY <1>1, <1>2 DEF Sourced
<1>4. \A d, e : MayHide(e, d)' <=> MayHide(e, d)
  BY <1>1, <1>2 DEF MayHide, Hider
<1>5. \A f, d : HiderIn(f, d)' <=> HiderIn(f, d)
  BY DEF HiderIn, Hider
<1>6. \A f : Collected(f)' <=> Collected(f)
  BY <1>2, <1>3, <1>4, <1>5 DEF Collected, IsTag, WithLinkage
<1>7. \A f : OutOfBlocks(f)' <=> OutOfBlocks(f)
  BY <1>2 DEF OutOfBlocks
<1> QED BY <1>1, <1>6, <1>7

LEMMA SameLocal ==
  ASSUME UNCHANGED <<lookup, localExtern, scope>>
  PROVE  LocalDecls' = LocalDecls /\ (WithLinkage' <=> WithLinkage)
<1>1. P' = P /\ IDNS' = IDNS /\ (WithLinkage' <=> WithLinkage)
  BY SameProgram, SameNamespaces
<1> QED BY <1>1 DEF LocalDecls, Acceptable, Accepting, Accepted

LEMMA NothingAccepted == Acceptable(<<>>) = <<>>
<1>1. <<>> \in Lists /\ Range(<<>>) = {}
  BY DEF Lists, Range
<1>2. Acceptable(<<>>) \in Lists /\ Range(Acceptable(<<>>)) = {}
  BY <1>1, AcceptedFrom
<1> DEFINE a == Acceptable(<<>>)
<1>3. a \in Lists /\ DOMAIN a = 1 .. Len(a) /\ Len(a) \in Nat /\ \A i \in DOMAIN a : a[i] \in Range(a)
  BY <1>2, RangeOf
<1>4. Len(a) = 0
  <2>1. 1 \notin DOMAIN a
    BY <1>2, <1>3
  <2> HIDE DEF a
  <2> QED BY <1>3, <2>1
<1> HIDE DEF a
<1>5. a = <<>>
  BY <1>3, <1>4 DEF Lists
<1> QED BY <1>5 DEF a

LEMMA OuterFacts ==
  ASSUME lookup \in Requests, NEW i \in DOMAIN P.scopes
  PROVE  /\ OuterContext(i) \in Contexts \cup {NoContext}
         /\ IsFileScope(i) => OuterContext(i) # P.scopes[i].entity
<1> DEFINE outer == {j \in i + 1 .. Len(P.scopes) : P.scopes[j].entity # NoContext}
<1>1. Len(P.scopes) \in Nat /\ DOMAIN P.scopes = 1 .. Len(P.scopes)
  BY ScopeFacts
<1>2. CASE outer = {}
  <2>1. OuterContext(i) = NoContext
    BY <1>2 DEF OuterContext
  <2>2. IsFileScope(i) => P.scopes[i].entity # NoContext
    BY ScopeFacts, ContextFacts
  <2> QED BY <2>1, <2>2
<1>3. CASE outer # {}
  <2>1. OuterContext(i) = P.scopes[Min(outer)].entity
    BY <1>3 DEF OuterContext
  <2>2. outer \in SUBSET Nat
    BY <1>1
  <2> HIDE DEF outer
  <2>3. Min(outer) \in outer
    BY <1>3, <2>2, MinFacts
  <2>4. Min(outer) \in i + 1 .. Len(P.scopes)
    BY <2>3 DEF outer
  <2> DEFINE j == Min(outer)
  <2> HIDE DEF j
  <2>5. j \in DOMAIN P.scopes /\ j > i /\ OuterContext(i) = P.scopes[j].entity
    BY <1>1, <2>1, <2>4 DEF j
  <2> QED BY <2>5, ScopeFacts
<1> QED BY <1>2, <1>3

LEMMA PlaceFacts ==
  ASSUME PlaceInv
  PROVE  /\ Len(P.scopes) \in Nat \ {0} /\ scope \in Nat \ {0} /\ DOMAIN P.scopes = 1 .. Len(P.scopes)
         /\ IsFileScope(Len(P.scopes))
         /\ \A c \in Contexts : c # NoContext /\ Parent(c) \in Contexts \cup {NoContext}
         /\ \A j, i \in 1 .. Len(P.scopes) : IsFileScope(j) /\ j < i =>
              P.scopes[i].kind \in {"file", "linkage"}
         /\ \A i \in 1 .. Len(P.scopes) :
              /\ P.scopes[i].entity \in Contexts \cup {NoContext}
              /\ P.scopes[i].kind = "linkage" => P.scopes[i].decls = <<>>
              /\ IsFileScope(i) =>
                   /\ P.scopes[i].entity \in Contexts /\ IsFile(P.scopes[i].entity)
                   /\ OuterContext(i) # P.scopes[i].entity
<1>1. lookup \in Requests /\ Len(P.scopes) \in Nat \ {0} /\ DOMAIN P.scopes = 1 .. Len(P.scopes)
  BY ScopeFacts DEF PlaceInv
<1>2. scope \in Nat \ {0}
  BY <1>1 DEF PlaceInv
<1>3. \A c \in Contexts : c # NoContext /\ Parent(c) \in Contexts \cup {NoContext}
  BY <1>1, ContextFacts
<1>4. \A j, i \in 1 .. Len(P.scopes) : IsFileScope(j) /\ j < i => P.scopes[i].kind \in {"file", "linkage"}
  BY <1>1, ScopeFacts
<1>5. ASSUME NEW i \in 1 .. Len(P.scopes), IsFileScope(i)
      PROVE P.scopes[i].entity \in Contexts /\ IsFile(P.scopes[i].entity) /\ OuterContext(i) # P.scopes[i].entity
  BY <1>1, <1>5, ScopeFacts, ContextFacts, OuterFacts
<1> QED BY <1>1, <1>2, <1>3, <1>4, <1>5, ScopeFacts

\* The scan changes only what it decides.
LEMMA ResolveKeeps ==
  ASSUME resolveKind
  PROVE  UNCHANGED <<lookup, found>> /\ pc # "done"
BY DEF resolveKind, FastCase, BeginScan, RemoveCurrent, Merge, Classify, EndScan, Remove, Decide,
       Looking, result, unique2, flags

LEMMA LookupStays ==
  ASSUME Next
  PROVE  UNCHANGED lookup
<1>1. CASE resolveKind
  BY <1>1, ResolveKeeps
<1>2. CASE \/ Start \/ LookupFails \/ Lexical \/ LocalFound \/ LocalPassed \/ ContextsEnd \/ SkipContext
           \/ ClassContext \/ NamespaceContext \/ NamespaceLooked
  BY <1>2 DEF Start, LookupFails, Lexical, LocalFound, LocalPassed, ContextsEnd, SkipContext,
              ClassContext, NamespaceContext, NamespaceLooked, scanning, resolution, ResolveAndReturn,
              Resolve
<1>3. CASE \/ BeginVisits \/ Visit \/ Expand \/ ReachNamespaces \/ NamespaceScope \/ SkipTransparent
           \/ LookInNamespace \/ LeaveNamespace \/ NamespaceContextsEnd \/ NamespacesEnd
  BY <1>3 DEF BeginVisits, Visit, Expand, ReachNamespaces, NamespaceScope, SkipTransparent,
              LookInNamespace, LeaveNamespace, AfterNamespace, NamespaceContextsEnd, NamespacesEnd,
              scanning, resolution, ResolveAndReturn, Resolve
<1>4. CASE \/ QualifiedDirect \/ NoImplied \/ NoBases \/ FoundInBases \/ ClashInBases \/ SetAmbiguous
           \/ EnterDirectives \/ PassNamespace \/ FindInNamespace \/ AddNamespace \/ DirectivesEnd
  BY <1>4 DEF QualifiedDirect, NoImplied, NoBases, FoundInBases, ClashInBases, SetAmbiguous,
              EnterDirectives, PassNamespace, FindInNamespace, AddNamespace, DirectivesEnd,
              scanning, resolution, ResolveAndReturn, Resolve
<1> QED BY <1>1, <1>2, <1>3, <1>4 DEF Next

LEMMA PlaceStep ==
  ASSUME PlaceInv, Next
  PROVE  PlaceInv'
<1>1. /\ lookup' = lookup /\ P' = P /\ Contexts' = Contexts /\ (Unqualified' <=> Unqualified)
      /\ \A i : (IsFileScope(i)' <=> IsFileScope(i)) /\ (NotFile(i)' <=> NotFile(i))
      /\ \A c : IsClass(c)' <=> IsClass(c)
  BY LookupStays, SameProgram
<1>2. /\ Len(P.scopes) \in Nat \ {0} /\ scope \in Nat \ {0} /\ DOMAIN P.scopes = 1 .. Len(P.scopes)
      /\ IsFileScope(Len(P.scopes))
      /\ \A c \in Contexts : c # NoContext /\ Parent(c) \in Contexts \cup {NoContext}
  BY PlaceFacts
<1>3. /\ lookup \in Requests /\ scope \in 1 .. Len(P.scopes) + 1 /\ ctx \in Contexts \cup {NoContext}
      /\ here \in BOOLEAN /\ localExtern \in BOOLEAN
  BY DEF PlaceInv
\* A walk that ends is nowhere any more.
<1>4. ASSUME UNCHANGED <<scope, ctx, localExtern>>, here' \in BOOLEAN,
             walk' \in {"returned", "failed", "lexical", "directives", "directiveLooked"}
      PROVE  PlaceInv'
  BY <1>1, <1>3, <1>4 DEF PlaceInv
<1>5. CASE UNCHANGED <<walk, scope, ctx, here, localExtern>> /\ (begun => begun')
  BY <1>1, <1>3, <1>5 DEF PlaceInv
<1>6. CASE Start
  <2>1. /\ walk = "start" /\ UNCHANGED <<scope, here>> /\ scope <= Len(P.scopes)
        /\ \A j \in 1 .. scope - 1 : NotFile(j)
    BY <1>6 DEF Start, PlaceInv
  <2>2. CASE lookup.specifier \in {"invalid", "incomplete", "dependent"}
    <3>1. walk' = "returned" /\ UNCHANGED <<ctx, localExtern>>
      BY <1>6, <2>2 DEF Start, Answer, Unqualified
    <3> QED BY <1>3, <1>4, <2>1, <3>1
  <2>3. CASE lookup.specifier \notin {"invalid", "incomplete", "dependent"} /\ Unqualified
    <3>1. walk' \in {"scope", "lexical"} /\ localExtern' = LocalExternToo /\ ctx' = ctx
      BY <1>6, <2>3 DEF Start
    <3>2. localExtern' \in BOOLEAN
      BY <3>1 DEF LocalExternToo
    <3> QED BY <1>1, <1>3, <2>1, <2>3, <3>1, <3>2 DEF PlaceInv
  <2>4. CASE lookup.specifier \notin {"invalid", "incomplete", "dependent"} /\ ~Unqualified
    <3>1. walk' = "qualified" /\ ctx' = lookup.specifier /\ localExtern' = localExtern
      BY <1>6, <2>4 DEF Start
    <3>2. ctx' \in Contexts
      BY <1>3, <2>4, <3>1, RequestsAssumption DEF NoScope, Contexts, P, Unqualified
    <3> QED BY <1>1, <1>3, <2>1, <2>4, <3>1, <3>2 DEF PlaceInv
  <2> QED BY <2>2, <2>3, <2>4
<1>7. CASE LookupFails \/ Lexical \/ LocalFound \/ NoBases \/ QualifiedDirect \/ FoundInBases
  <2>1. CASE NoBases
    <3>1. /\ walk = "qualified" /\ IF Unqualified
             THEN walk' = "context" /\ ctx' = Parent(ctx) /\ UNCHANGED <<scope, here>>
             ELSE walk' = "returned" /\ UNCHANGED <<scope, ctx, here>>
          /\ UNCHANGED localExtern
      BY <2>1 DEF NoBases, InBaseClasses, NotDirect, InQualified, QualifiedFails, Answer, position, marks
    <3> QED BY <1>1, <1>2, <1>3, <1>4, <3>1 DEF PlaceInv
  <2>2. CASE LookupFails \/ Lexical \/ LocalFound \/ QualifiedDirect \/ FoundInBases
    <3>1. UNCHANGED <<scope, ctx, here, localExtern>> /\ walk' \in {"returned", "failed"}
      BY <2>2 DEF LookupFails, Lexical, LocalFound, QualifiedDirect, FoundInBases, Answer, Fails,
                  position, marks
    <3> QED BY <1>3, <1>4, <3>1
  <2> QED BY <1>7, <2>1, <2>2
<1>8. CASE LocalPassed
  <2>1. /\ walk = "scope" /\ ~IsFileScope(scope) /\ UNCHANGED <<scope, here, localExtern>>
        /\ \/ walk' = "failed" /\ UNCHANGED ctx
           \/ walk' = "context" /\ ctx' = P.scopes[scope].entity
    BY <1>8 DEF LocalPassed, InScope, Fails
  <2>2. scope \in 1 .. Len(P.scopes) /\ P.scopes[scope].entity \in Contexts \cup {NoContext}
    <3>1. scope \in 1 .. Len(P.scopes)
      BY <1>2, <2>1 DEF PlaceInv
    <3> QED BY <3>1, PlaceFacts
  <2> QED BY <1>1, <1>2, <1>3, <1>4, <2>1, <2>2 DEF PlaceInv, NotFile
<1>9. CASE ContextsEnd
  <2>1. walk = "context" /\ walk' = "scope" /\ scope' = scope + 1 /\ UNCHANGED <<ctx, here, localExtern>>
    BY <1>9 DEF ContextsEnd, marks
  <2>2. NotFile(scope) /\ scope <= Len(P.scopes) /\ \A j \in 1 .. scope - 1 : NotFile(j)
    BY <2>1 DEF PlaceInv
  <2>3. scope # Len(P.scopes)
    BY <1>2, <2>2 DEF NotFile
  <2>4. scope + 1 <= Len(P.scopes) /\ \A j \in 1 .. (scope + 1) - 1 : NotFile(j)
    BY <1>2, <2>2, <2>3
  <2> QED BY <1>1, <1>2, <1>3, <2>1, <2>4 DEF PlaceInv
<1>10. CASE SkipContext \/ ClassContext \/ NamespaceContext
  <2>1. /\ walk = "context" /\ ctx # NoContext /\ ctx \in Contexts /\ UNCHANGED <<scope, localExtern>>
        /\ \/ walk' = "context" /\ ctx' = Parent(ctx) /\ here' = here
           \/ walk' = "qualified" /\ ctx' = ctx /\ IsClass(ctx) /\ here' = here
           \/ walk' = "looked" /\ ctx' = ctx /\ here' \in BOOLEAN
    BY <1>3, <1>10 DEF SkipContext, ClassContext, NamespaceContext, InContext, position, marks, IsClass
  <2> QED BY <1>1, <1>2, <1>3, <2>1 DEF PlaceInv
<1>11. CASE NamespaceLooked
  <2>1. /\ walk = "looked" /\ ctx \in Contexts /\ UNCHANGED <<scope, here, localExtern>>
        /\ \/ walk' = "returned" /\ ctx' = ctx
           \/ walk' = "context" /\ ctx' = Parent(ctx)
    BY <1>11 DEF NamespaceLooked, ResolveAndReturn, Answer, marks, PlaceInv
  <2> QED BY <1>1, <1>2, <1>3, <1>4, <2>1 DEF PlaceInv
<1>12. CASE resolveKind /\ UNCHANGED walking
  BY <1>5, <1>12 DEF walking, position, marks, directives
<1>13. CASE BeginVisits \/ Visit \/ Expand
  <2>1. UNCHANGED <<walk, scope, ctx, here, localExtern>> /\ (begun' = TRUE \/ begun' = begun)
    BY <1>13 DEF BeginVisits, Visit, Expand, position, marks
  <2> QED BY <1>5, <2>1
<1>14. CASE ReachNamespaces
  <2>1. /\ walk = "scope" /\ scope \in DOMAIN P.scopes /\ IsFileScope(scope) /\ UNCHANGED <<scope, ctx, here>>
        /\ \/ walk' = "failed" /\ localExtern' = localExtern
           \/ walk' = "namespaces" /\ localExtern' = (localExtern /\ lookup.redeclaration)
    BY <1>14 DEF ReachNamespaces, Fails, position
  <2>2. CASE walk' = "failed"
    BY <1>3, <1>4, <2>1, <2>2
  <2>3. CASE walk' = "namespaces"
    <3>1. localExtern' \in BOOLEAN
      BY <2>1, <2>3
    <3>2. \E j \in 1 .. scope : j <= Len(P.scopes) /\ IsFileScope(j)
      BY <1>2, <2>1
    <3> QED BY <1>1, <1>2, <1>3, <2>1, <2>3, <3>1, <3>2 DEF PlaceInv
  <2> QED BY <2>1, <2>2, <2>3
<1>15. CASE NamespaceScope
  <2>1. /\ walk = "namespaces" /\ begun /\ begun' = begun /\ scope \in DOMAIN P.scopes
        /\ walk' = "namespaceContext"
        /\ UNCHANGED <<scope, localExtern>> /\ ctx' = P.scopes[scope].entity /\ here' = (LocalDecls # <<>>)
    BY <1>15 DEF NamespaceScope, Visited, marks, directives
  <2>2. PICK j \in 1 .. scope : j <= Len(P.scopes) /\ IsFileScope(j)
    BY <2>1 DEF PlaceInv
  <2>3. P.scopes[scope].entity \in Contexts \cup {NoContext}
    BY <1>2, <2>1, PlaceFacts
  <2>4. LocalDecls # <<>> => IsFileScope(scope)
    <3>1. IsFileScope(scope) \/ P.scopes[scope].kind = "linkage"
      <4>1. CASE j = scope
        BY <2>2, <4>1
      <4>2. CASE j # scope
        <5>1. j \in 1 .. Len(P.scopes) /\ scope \in 1 .. Len(P.scopes) /\ j < scope
          BY <1>2, <2>1, <2>2, <4>2
        <5> QED BY <2>2, <5>1, PlaceFacts DEF IsFileScope
      <4> QED BY <4>1, <4>2
    <3>2. P.scopes[scope].kind = "linkage" => LocalDecls = <<>>
      BY <1>2, <2>1, PlaceFacts, NothingAccepted DEF LocalDecls
    <3> QED BY <3>1, <3>2
  <2>5. scope <= Len(P.scopes)
    BY <1>2, <2>1
  <2> QED BY <1>1, <1>2, <1>3, <2>1, <2>2, <2>3, <2>4, <2>5 DEF PlaceInv
<1>16. CASE SkipTransparent
  <2>1. /\ walk = "namespaceContext" /\ ctx \in Contexts /\ P.contexts[ctx].kind = "linkage"
        /\ UNCHANGED <<walk, scope, here, localExtern, begun>> /\ ctx' = Parent(ctx)
    BY <1>3, <1>16 DEF SkipTransparent, InNamespace, marks, directives
  <2>2. ~here
    <3>1. here => ctx = P.scopes[scope].entity /\ IsFileScope(scope) /\ scope \in 1 .. Len(P.scopes)
      BY <1>2, <1>3, <2>1 DEF PlaceInv
    <3>2. here => IsFile(ctx)
      BY <3>1, PlaceFacts
    <3> QED BY <2>1, <3>2 DEF IsFile, FileKinds
  <2> QED BY <1>1, <1>2, <1>3, <2>1, <2>2 DEF PlaceInv
<1>17. CASE LookInNamespace
  <2>1. /\ walk = "namespaceContext" /\ ctx \in Contexts /\ UNCHANGED <<scope, ctx, localExtern, begun>>
        /\ walk' = "namespaceLooked" /\ here' \in BOOLEAN
    BY <1>3, <1>17 DEF LookInNamespace, InNamespace, marks, directives
  <2> QED BY <1>1, <1>2, <1>3, <2>1 DEF PlaceInv
<1>18. CASE LeaveNamespace
  <2>1. /\ walk = "namespaceLooked" /\ UNCHANGED <<scope, here, localExtern, begun>> /\ ctx \in Contexts
        /\ \/ walk' \in {"returned", "failed"} /\ ctx' = ctx
           \/ ~here /\ walk' = "namespaceContext" /\ ctx' = Parent(ctx)
    BY <1>18 DEF LeaveNamespace, AfterNamespace, ResolveAndReturn, Answer, Fails, marks, directives, PlaceInv
  <2> QED BY <1>1, <1>2, <1>3, <1>4, <2>1 DEF PlaceInv
<1>19. CASE NamespaceContextsEnd
  <2>1. /\ walk = "namespaceContext" /\ walk' = "namespaces" /\ scope' = scope + 1
        /\ UNCHANGED <<ctx, here, localExtern, begun>> /\ scope <= Len(P.scopes) /\ begun
    BY <1>19 DEF NamespaceContextsEnd, marks, directives, PlaceInv
  <2>2. PICK j \in 1 .. scope : j <= Len(P.scopes) /\ IsFileScope(j)
    BY <2>1 DEF PlaceInv
  <2>3. j \in 1 .. scope + 1 /\ scope + 1 \in 1 .. Len(P.scopes) + 1
    BY <1>2, <2>1, <2>2
  <2> QED BY <1>1, <1>2, <1>3, <2>1, <2>2, <2>3 DEF PlaceInv
<1>20. CASE NamespacesEnd \/ EnterDirectives \/ PassNamespace \/ FindInNamespace \/ AddNamespace \/ DirectivesEnd
  <2>1. /\ UNCHANGED <<scope, ctx, here, localExtern>>
        /\ walk' \in {"returned", "failed", "directives", "directiveLooked"}
    BY <1>20 DEF NamespacesEnd, EnterDirectives, PassNamespace, FindInNamespace, AddNamespace, DirectivesEnd,
                 InDirectives, Answer, Fails, ResolveAndReturn, position, marks
  <2> QED BY <1>3, <1>4, <2>1
<1>21. CASE NoImplied
  <2>1. /\ walk = "qualified" /\ IF Unqualified
           THEN walk' = "context" /\ ctx' = Parent(ctx) /\ UNCHANGED <<scope, here>>
           ELSE walk' = "returned" /\ UNCHANGED <<scope, ctx, here>>
        /\ UNCHANGED localExtern
    BY <1>21 DEF NoImplied, NotDirect, InQualified, QualifiedFails, Answer, position, marks
  <2> QED BY <1>1, <1>2, <1>3, <1>4, <2>1 DEF PlaceInv
<1>22. CASE ClashInBases \/ SetAmbiguous
  <2>1. CASE ClashInBases
    <3>1. walk = "qualified" /\ walk' = "clash" /\ UNCHANGED <<scope, ctx, here, localExtern>> /\ ctx \in Contexts
      BY <2>1 DEF ClashInBases, InBaseClasses, NotDirect, InQualified, position, PlaceInv
    <3> QED BY <1>1, <1>3, <3>1 DEF PlaceInv
  <2>2. CASE SetAmbiguous
    <3>1. walk' = "returned" /\ UNCHANGED <<scope, ctx, here, localExtern>>
      BY <2>2 DEF SetAmbiguous, Answer, position, marks
    <3> QED BY <1>3, <1>4, <3>1
  <2> QED BY <1>22, <2>1, <2>2
<1> QED BY <1>6, <1>7, <1>8, <1>9, <1>10, <1>11, <1>12, <1>13, <1>14, <1>15, <1>16, <1>17, <1>18,
           <1>19, <1>20, <1>21, <1>22 DEF Next

-----------------------------------------------------------------------------
(***************************************************************************)
(* The tree of the contexts, and the directives in force.                  *)
(***************************************************************************)
LEMMA TreeInduction ==
  ASSUME lookup \in Requests, NEW S,
         \A c \in Contexts : Parent(c) \in S \/ Parent(c) \notin Contexts => c \in S
  PROVE  Contexts \subseteq S
<1> DEFINE T == Contexts \ S
<1>1. SUFFICES ASSUME T # {} PROVE FALSE
  OBVIOUS
<1>2. T \in SUBSET Contexts
  OBVIOUS
<1>3. PICK c \in T : Parent(c) \notin T
  <2> HIDE DEF T
  <2> QED BY <1>1, <1>2, ContextFacts
<1> QED BY <1>3

\* A function on the contexts may be defined from that of the parent.
StepsIn(step, V) == step \in [Contexts -> [V -> V]]
Follows(G, V, b, step) ==
  /\ G \in [Contexts \cup {NoContext} -> V]
  /\ G[NoContext] = b /\ \A c \in Contexts : G[c] = step[c][G[Parent(c)]]
LEMMA TreeRecursion ==
  ASSUME lookup \in Requests, NEW V, NEW b, b \in V, NEW step, StepsIn(step, V)
  PROVE  \E G : Follows(G, V, b, step)
<1> DEFINE All == Contexts \cup {NoContext}
           Steps(Q) == /\ <<NoContext, b>> \in Q
                       /\ \A c \in Contexts, v \in V : <<Parent(c), v>> \in Q => <<c, step[c][v]>> \in Q
           R == {p \in All \X V : \A Q \in SUBSET (All \X V) : Steps(Q) => p \in Q}
<1>1. NoContext \notin Contexts /\ \A c \in Contexts : Parent(c) \in All
  BY ContextFacts
<1>2. \A c \in Contexts, v \in V : step[c][v] \in V
  BY DEF StepsIn
<1>3. Steps(R)
  <2>1. <<NoContext, b>> \in R
    OBVIOUS
  <2>2. ASSUME NEW c \in Contexts, NEW v \in V, <<Parent(c), v>> \in R PROVE <<c, step[c][v]>> \in R
    <3>1. <<c, step[c][v]>> \in All \X V
      BY <1>2
    <3>2. ASSUME NEW Q \in SUBSET (All \X V), Steps(Q) PROVE <<c, step[c][v]>> \in Q
      <4>1. <<Parent(c), v>> \in Q
        BY <2>2, <3>2
      <4> QED BY <3>2, <4>1
    <3> QED BY <3>1, <3>2
  <2> QED BY <2>1, <2>2
<1>4. \A Q \in SUBSET (All \X V) : Steps(Q) => R \subseteq Q
  OBVIOUS
<1>5. R \in SUBSET (All \X V)
  OBVIOUS
<1> HIDE DEF R
<1> DEFINE One(c) == \E v \in V : <<c, v>> \in R /\ \A w \in V : <<c, w>> \in R => w = v
<1>6. One(NoContext)
  <2> DEFINE Q == {p \in R : p[1] = NoContext => p[2] = b}
  <2>1. Q \in SUBSET (All \X V)
    BY <1>5
  <2>2. <<NoContext, b>> \in Q
    BY <1>3
  <2>3. ASSUME NEW c \in Contexts, NEW v \in V, <<Parent(c), v>> \in Q PROVE <<c, step[c][v]>> \in Q
    <3>1. <<c, step[c][v]>> \in R
      BY <1>3, <2>3
    <3> QED BY <1>1, <3>1
  <2>4. Steps(Q)
    BY <2>2, <2>3
  <2>5. R \subseteq Q
    BY <1>4, <2>1, <2>4
  <2>6. \A w \in V : <<NoContext, w>> \in R => w = b
    BY <2>5
  <2> QED BY <1>3, <2>6
<1>7. ASSUME NEW c \in Contexts, One(Parent(c)) PROVE One(c)
  <2>1. PICK v \in V : <<Parent(c), v>> \in R /\ \A w \in V : <<Parent(c), w>> \in R => w = v
    BY <1>7
  <2> DEFINE Q == {p \in R : p[1] = c => p[2] = step[c][v]}
  <2>2. Q \in SUBSET (All \X V)
    BY <1>5
  <2>3. <<NoContext, b>> \in Q
    BY <1>1, <1>3
  <2>4. ASSUME NEW x \in Contexts, NEW u \in V, <<Parent(x), u>> \in Q PROVE <<x, step[x][u]>> \in Q
    <3>1. <<Parent(x), u>> \in R
      BY <2>4
    <3>2. <<x, step[x][u]>> \in R
      BY <1>3, <3>1
    <3>3. x = c => u = v
      BY <2>1, <3>1
    <3> QED BY <3>2, <3>3
  <2>5. Steps(Q)
    BY <2>3, <2>4
  <2>6. R \subseteq Q
    BY <1>4, <2>2, <2>5
  <2>7. \A w \in V : <<c, w>> \in R => w = step[c][v]
    BY <2>6
  <2>8. <<c, step[c][v]>> \in R /\ step[c][v] \in V
    BY <1>2, <1>3, <2>1
  <2> QED BY <2>7, <2>8
<1>8. \A c \in All : One(c)
  <2> DEFINE S == {c \in All : One(c)}
  <2>1. \A c \in Contexts : Parent(c) \in S \/ Parent(c) \notin Contexts => c \in S
    BY <1>1, <1>6, <1>7
  <2> HIDE DEF One
  <2>2. Contexts \subseteq S
    <3> HIDE DEF S
    <3> QED BY <2>1, TreeInduction
  <2> QED BY <1>6, <2>2
<1> DEFINE G == [c \in All |-> CHOOSE v \in V : <<c, v>> \in R]
<1>9. \A c \in All : G[c] \in V /\ <<c, G[c]>> \in R /\ \A w \in V : <<c, w>> \in R => w = G[c]
  BY <1>8
<1>10. G \in [All -> V]
  BY <1>9
<1>11. G[NoContext] = b
  <2>1. <<NoContext, b>> \in R /\ NoContext \in All
    BY <1>3
  <2> HIDE DEF G
  <2> QED BY <1>9, <2>1
<1>12. ASSUME NEW c \in Contexts PROVE G[c] = step[c][G[Parent(c)]]
  <2>1. Parent(c) \in All /\ c \in All
    BY <1>1
  <2> HIDE DEF G
  <2>2. <<Parent(c), G[Parent(c)]>> \in R /\ G[Parent(c)] \in V
    BY <1>9, <2>1
  <2>3. <<c, step[c][G[Parent(c)]]>> \in R /\ step[c][G[Parent(c)]] \in V
    BY <1>2, <1>3, <2>2
  <2> QED BY <1>9, <2>1, <2>3
<1>13. Follows(G, V, b, step)
  BY <1>10, <1>11, <1>12 DEF Follows
<1> QED BY <1>13

\* What encloses a context: itself and what encloses its parent.
LEMMA EnclosingSteps ==
  ASSUME lookup \in Requests
  PROVE  /\ Enclosing(NoContext) = {}
         /\ \A c \in Contexts : Enclosing(c) = {c} \cup Enclosing(Parent(c))
<1> DEFINE All == Contexts \cup {NoContext}
           V == SUBSET Contexts
           step == [c \in Contexts |-> [v \in V |-> {c} \cup v]]
           Body(F) == [x \in All |-> IF x = NoContext THEN {} ELSE {x} \cup F[Parent(x)]]
<1>1. NoContext \notin Contexts /\ \A c \in Contexts : Parent(c) \in All
  BY ContextFacts
<1>2. \E G : G = Body(G)
  <2>1. step \in [Contexts -> [V -> V]] /\ {} \in V
    OBVIOUS
  <2>2. \A c \in Contexts, v \in V : step[c][v] = {c} \cup v
    OBVIOUS
  <2> DEFINE b == {}
  <2>a. b = {} /\ b \in V
    BY <2>1
  <2> HIDE DEF step, V, b
  <2>b. StepsIn(step, V)
    BY <2>1 DEF StepsIn
  <2>c. \E G : Follows(G, V, b, step)
    BY <2>a, <2>b, TreeRecursion
  <2>3. PICK G \in [All -> V] : G[NoContext] = {} /\ \A c \in Contexts : G[c] = step[c][G[Parent(c)]]
    BY <2>a, <2>c DEF Follows
  <2>4. \A x \in All : G[x] = IF x = NoContext THEN {} ELSE {x} \cup G[Parent(x)]
    <3> TAKE x \in All
    <3>1. CASE x = NoContext
      BY <2>3, <3>1
    <3>2. CASE x # NoContext
      <4>1. x \in Contexts /\ Parent(x) \in All
        BY <1>1, <3>2
      <4>2. G[Parent(x)] \in V
        BY <4>1
      <4> QED BY <2>2, <2>3, <3>2, <4>1, <4>2
    <3> QED BY <3>1, <3>2
  <2>5. G = Body(G)
    BY <2>4
  <2> QED BY <2>5
<1>3. PICK F : F = Body(F) /\ \A c : Enclosing(c) = F[c]
  BY <1>2 DEF Enclosing
<1>4. \A x \in All : F[x] = IF x = NoContext THEN {} ELSE {x} \cup F[Parent(x)]
  BY <1>3
<1>5. F[NoContext] = {} /\ \A c \in Contexts : F[c] = {c} \cup F[Parent(c)]
  BY <1>1, <1>4
<1> QED BY <1>3, <1>5

LEMMA EnclosingFacts ==
  ASSUME lookup \in Requests
  PROVE  \A c \in Contexts :
           /\ Enclosing(c) \subseteq Contexts /\ c \in Enclosing(c)
           /\ \A x \in Contexts : P.contexts[x].kind = "tu" => x \in Enclosing(c)
<1>1. \A c \in Contexts : IF P.contexts[c].kind = "tu" THEN Parent(c) = NoContext ELSE Parent(c) \in Contexts
  BY ContextFacts
<1>2. \A c, d \in Contexts : P.contexts[c].kind = "tu" /\ P.contexts[d].kind = "tu" => c = d
  BY ContextFacts
<1>3. NoContext \notin Contexts
  BY ContextFacts
<1> DEFINE Good(c) == /\ Enclosing(c) \subseteq Contexts
                      /\ \A x \in Contexts : P.contexts[x].kind = "tu" => x \in Enclosing(c)
           S == {c \in Contexts : Good(c)}
<1>4. ASSUME NEW c \in Contexts, Parent(c) \in S \/ Parent(c) \notin Contexts PROVE c \in S
  <2>1. Enclosing(c) = {c} \cup Enclosing(Parent(c))
    BY EnclosingSteps
  <2>2. CASE P.contexts[c].kind = "tu"
    <3>1. Enclosing(Parent(c)) = {}
      BY <1>1, <2>2, EnclosingSteps
    <3> QED BY <1>2, <2>1, <2>2, <3>1
  <2>3. CASE P.contexts[c].kind # "tu"
    <3>1. Good(Parent(c))
      BY <1>1, <1>4, <2>3
    <3> QED BY <2>1, <3>1
  <2> QED BY <2>2, <2>3
<1>5. Contexts \subseteq S
  <2> HIDE DEF S
  <2> QED BY <1>4, TreeInduction
<1> QED BY <1>5, EnclosingSteps

\* Among contexts that enclose one another, one is the innermost.
LEMMA InnermostIn ==
  ASSUME lookup \in Requests, NEW a \in Contexts, NEW cs \in SUBSET Enclosing(a), cs # {}
  PROVE  Innermost(cs) \in cs
<1> DEFINE S == {x \in Contexts : cs \subseteq Enclosing(x)}
<1>1. S \in SUBSET Contexts /\ a \in S
  OBVIOUS
<1>2. PICK c \in S : Parent(c) \notin S
  <2> HIDE DEF S
  <2> QED BY <1>1, ContextFacts
<1>3. Enclosing(c) = {c} \cup Enclosing(Parent(c)) /\ cs \subseteq Enclosing(c)
  BY EnclosingSteps
<1>4. c \in cs
  <2>1. SUFFICES ASSUME c \notin cs PROVE FALSE
    OBVIOUS
  <2>2. cs \subseteq Enclosing(Parent(c))
    BY <1>3, <2>1
  <2>3. Parent(c) \notin Contexts
    BY <1>2, <2>2
  <2>4. Parent(c) = NoContext
    BY <2>3, ContextFacts
  <2> QED BY <2>2, <2>4, EnclosingSteps
<1>5. \E d \in cs : \A e \in cs : e \in Enclosing(d)
  BY <1>3, <1>4
<1> QED BY <1>5 DEF Innermost

LEMMA AncestorIn ==
  ASSUME lookup \in Requests, NEW n \in Contexts, NEW e \in Contexts
  PROVE  CommonAncestor(n, e) \in Files
<1> DEFINE cs == {c \in Enclosing(n) \cap Enclosing(e) : IsFile(c)}
<1>1. PICK c \in Contexts : P.contexts[c].kind = "tu"
  BY ScopeFacts, ContextFacts
<1>2. c \in cs
  BY <1>1, EnclosingFacts DEF IsFile, FileKinds
<1>3. cs \in SUBSET Enclosing(n) /\ cs # {}
  BY <1>2
<1>4. Innermost(cs) \in cs
  <2> HIDE DEF cs
  <2> QED BY <1>3, InnermostIn
<1>5. Innermost(cs) \in Contexts /\ IsFile(Innermost(cs))
  BY <1>4, EnclosingFacts
<1> QED BY <1>5, ContextFacts DEF CommonAncestor

-----------------------------------------------------------------------------
(***************************************************************************)
(* The tables of the walk.                                                 *)
(***************************************************************************)
LEMMA ContextVisitsIn ==
  ASSUME lookup \in Requests, ctx \in Contexts
  PROVE  ContextVisits \in Seq(Visits)
<1> DEFINE All == Contexts \cup {NoContext}
           V == Seq(Visits)
           item(c) == IF P.contexts[c].kind = "linkage" THEN <<>> ELSE <<ToVisit(c, FALSE, c)>>
           step == [c \in Contexts |-> [v \in V |-> item(c) \o v]]
           Body(F) == [x \in All |-> IF x = NoContext THEN <<>> ELSE item(x) \o F[Parent(x)]]
<1>1. NoContext \notin Contexts /\ \A c \in Contexts : Parent(c) \in All
  BY ContextFacts
<1>2. \A c \in Contexts : item(c) \in V
  <2> TAKE c \in Contexts
  <2> DEFINE z == ToVisit(c, FALSE, c)
  <2>1. z \in Visits
    BY DEF ToVisit, Visits
  <2>2. <<>> \in V /\ <<z>> \in V
    <3> HIDE DEF z
    <3>1. z \in Visits => <<z>> \in Seq(Visits)
      OBVIOUS
    <3>2. <<>> \in Seq(Visits)
      OBVIOUS
    <3> QED BY <2>1, <3>1, <3>2 DEF V
  <2> HIDE DEF V
  <2> QED BY <2>2
<1>3. \A c \in Contexts, v \in V : item(c) \o v \in V
  <2> HIDE DEF item
  <2> QED BY <1>2
<1>4. <<>> \in V
  OBVIOUS
<1> HIDE DEF item, V
<1>5. \E G : G = Body(G)
  <2>1. step \in [Contexts -> [V -> V]]
    BY <1>3
  <2>2. \A c \in Contexts, v \in V : step[c][v] = item(c) \o v
    OBVIOUS
  <2> DEFINE b == <<>>
  <2>a. b = <<>> /\ b \in V
    BY <1>4
  <2> HIDE DEF step, b
  <2>b. StepsIn(step, V)
    BY <2>1 DEF StepsIn
  <2>c. \E G : Follows(G, V, b, step)
    BY <2>a, <2>b, TreeRecursion
  <2>3. PICK G \in [All -> V] : G[NoContext] = <<>> /\ \A c \in Contexts : G[c] = step[c][G[Parent(c)]]
    BY <2>a, <2>c DEF Follows
  <2>4. \A x \in All : G[x] = IF x = NoContext THEN <<>> ELSE item(x) \o G[Parent(x)]
    <3> TAKE x \in All
    <3>1. CASE x = NoContext
      BY <2>3, <3>1
    <3>2. CASE x # NoContext
      <4>1. x \in Contexts /\ Parent(x) \in All
        BY <1>1, <3>2
      <4>2. G[Parent(x)] \in V
        BY <4>1
      <4>3. G[x] = item(x) \o G[Parent(x)]
        BY <2>2, <2>3, <4>1, <4>2
      <4> QED BY <3>2, <4>3
    <3> QED BY <3>1, <3>2
  <2>5. G = Body(G)
    BY <2>4
  <2> QED BY <2>5
<1>6. PICK F : F = Body(F) /\ ContextVisits = F[ctx]
  BY <1>5 DEF ContextVisits, item
<1>7. \A x \in All : F[x] = IF x = NoContext THEN <<>> ELSE item(x) \o F[Parent(x)]
  BY <1>6
<1>8. F[NoContext] = <<>> /\ \A c \in Contexts : F[c] = item(c) \o F[Parent(c)]
  BY <1>1, <1>7
<1> DEFINE S == {c \in Contexts : F[c] \in V}
<1>9. ASSUME NEW c \in Contexts, Parent(c) \in S \/ Parent(c) \notin Contexts PROVE c \in S
  <2>1. F[Parent(c)] \in V
    BY <1>1, <1>4, <1>8, <1>9
  <2>2. F[c] = item(c) \o F[Parent(c)]
    BY <1>8
  <2>3. F[c] \in V
    BY <1>3, <2>1, <2>2
  <2> QED BY <2>3
<1>10. Contexts \subseteq S
  <2> HIDE DEF S
  <2> QED BY <1>9, TreeInduction
<1>11. F[ctx] \in V
  BY <1>10
<1> QED BY <1>6, <1>11 DEF V

LEMMA ScopeVisitsIn ==
  ASSUME lookup \in Requests, scope \in 1 .. Len(P.scopes)
  PROVE  ScopeVisits \in Seq(Visits)
<1> DEFINE l == [i \in DOMAIN P.scopes |->
                  LET S == P.scopes[i]
                  IN IF S.kind = "file" THEN <<ToVisit(S.entity, FALSE, S.entity)>>
                     ELSE [k \in DOMAIN S.usings |-> ToVisit(S.usings[k], TRUE, InnermostFile)]]
<1>1. /\ Len(P.scopes) \in Nat \ {0} /\ DOMAIN P.scopes = 1 .. Len(P.scopes) /\ IsFileScope(Len(P.scopes))
      /\ \A i \in DOMAIN P.scopes : P.scopes[i].usings \in Seq(Files)
                                    /\ (IsFileScope(i) => P.scopes[i].entity \in Contexts)
  BY ScopeFacts, ContextFacts
<1>2. InnermostFile \in Contexts
  <2>1. FileScopes \in SUBSET Nat /\ Len(P.scopes) \in FileScopes
    BY <1>1 DEF FileScopes
  <2>2. Min(FileScopes) \in FileScopes
    BY <2>1, MinFacts
  <2> DEFINE n == Min(FileScopes)
  <2>3. n \in 1 .. Len(P.scopes) /\ IsFileScope(n)
    BY <2>2 DEF FileScopes
  <2>4. P.scopes[n].entity \in Contexts
    BY <1>1, <2>3
  <2> QED BY <2>4 DEF InnermostFile
<1>3. ASSUME NEW i \in DOMAIN P.scopes PROVE l[i] \in Seq(Visits)
  <2>1. CASE P.scopes[i].kind = "file"
    <3>1. ToVisit(P.scopes[i].entity, FALSE, P.scopes[i].entity) \in Visits
      BY <1>1, <2>1 DEF ToVisit, Visits, IsFileScope
    <3>2. l[i] = <<ToVisit(P.scopes[i].entity, FALSE, P.scopes[i].entity)>>
      BY <2>1
    <3> HIDE DEF l
    <3>3. \A z \in Visits : <<z>> \in Seq(Visits)
      OBVIOUS
    <3> QED BY <3>1, <3>2, <3>3
  <2>2. CASE P.scopes[i].kind # "file"
    <3> DEFINE u == P.scopes[i].usings
               w == [k \in DOMAIN u |-> ToVisit(u[k], TRUE, InnermostFile)]
    <3>1. u \in Seq(Files)
      BY <1>1
    <3>2. \A k \in DOMAIN u : ToVisit(u[k], TRUE, InnermostFile) \in Visits
      <4> HIDE DEF u
      <4>1. \A k \in DOMAIN u : u[k] \in Files /\ u[k] \in Contexts
        BY <3>1, ContextFacts
      <4> QED BY <1>2, <4>1 DEF ToVisit, Visits
    <3>3. l[i] = w
      BY <2>2
    <3>4. w \in Seq(Visits)
      <4> HIDE DEF u
      <4>1. DOMAIN u = 1 .. Len(u) /\ Len(u) \in Nat
        BY <3>1
      <4>2. w \in [1 .. Len(u) -> Visits]
        BY <3>2, <4>1
      <4> HIDE DEF w
      <4> QED BY <4>1, <4>2
    <3> HIDE DEF w
    <3> QED BY <3>3, <3>4
  <2> QED BY <2>1, <2>2
<1>4. l \in Seq(Seq(Visits))
  <2>1. DOMAIN l = 1 .. Len(P.scopes)
    BY <1>1
  <2> HIDE DEF l
  <2>2. l \in [1 .. Len(P.scopes) -> Seq(Visits)]
    <3>1. l = [i \in 1 .. Len(P.scopes) |-> l[i]]
      BY <1>1, <2>1 DEF l
    <3> QED BY <1>1, <1>3, <2>1, <3>1
  <2> QED BY <1>1, <2>2
<1>5. Len(l) \in Nat
  <2> HIDE DEF l
  <2> QED BY <1>4
<1>6. Joined(l) \in Seq(Visits)
  <2> HIDE DEF l
  <2>1. PICK F : IsJoin(F, l, Len(l), Visits) /\ Joined(l) = F[Len(l)]
    BY <1>4, JoinedBySteps
  <2> QED BY <1>5, <2>1 DEF IsJoin
<1> QED BY <1>6 DEF ScopeVisits

LEMMA UnvisitedIn ==
  ASSUME lookup \in Requests, NEW c \in Contexts, NEW met
  PROVE  Unvisited(c, met) \in Seq(Files)
<1> DEFINE s == P.contexts[c].usings
           keep == {k \in DOMAIN s : s[k] \notin visited \cup met}
<1>1. s \in Seq(Files) /\ keep \in SUBSET DOMAIN s
  BY ContextFacts
<1>2. Kept(s, keep) \in Seq(Files)
  <2> HIDE DEF s, keep
  <2> QED BY <1>1, KeptInOrder
<1> QED BY <1>2 DEF Unvisited

LEMMA EndOf ==
  ASSUME NEW T, NEW s \in Seq(T), s # <<>>
  PROVE  /\ s[Len(s)] \in T /\ SubSeq(s, 1, Len(s) - 1) \in Seq(T)
         /\ Head(s) \in T /\ Tail(s) \in Seq(T)
<1>1. Len(s) \in Nat /\ Len(s) # 0 /\ DOMAIN s = 1 .. Len(s)
  OBVIOUS
<1>2. s[Len(s)] \in T
  BY <1>1
<1>3. SubSeq(s, 1, Len(s) - 1) \in Seq(T)
  BY <1>1
<1> QED BY <1>2, <1>3

LEMMA WiderSeq ==
  ASSUME NEW T, NEW S, NEW s \in Seq(T), Range(s) \subseteq S
  PROVE  s \in Seq(S)
<1>1. Len(s) \in Nat /\ DOMAIN s = 1 .. Len(s) /\ \A k \in DOMAIN s : s[k] \in Range(s)
  BY DEF Range
<1>2. s \in [1 .. Len(s) -> S]
  BY <1>1
<1> QED BY <1>1, <1>2

LEMMA NominationsIn ==
  ASSUME lookup \in Requests, NEW e \in Contexts, NEW new \in Seq(Files)
  PROVE  [k \in DOMAIN new |-> [nominated |-> new[k], ancestor |-> CommonAncestor(new[k], e)]]
           \in Seq(Nominations)
<1> DEFINE w == [k \in DOMAIN new |-> [nominated |-> new[k], ancestor |-> CommonAncestor(new[k], e)]]
<1>1. DOMAIN new = 1 .. Len(new) /\ Len(new) \in Nat /\ \A k \in DOMAIN new : new[k] \in Files
  OBVIOUS
<1>2. ASSUME NEW k \in DOMAIN new
      PROVE [nominated |-> new[k], ancestor |-> CommonAncestor(new[k], e)] \in Nominations
  <2>1. new[k] \in Files /\ new[k] \in Contexts
    BY <1>1, ContextFacts
  <2>2. CommonAncestor(new[k], e) \in Files
    BY <2>1, AncestorIn
  <2> QED BY <2>1, <2>2 DEF Nominations
<1>3. w \in [1 .. Len(new) -> Nominations]
  BY <1>1, <1>2
<1>4. w \in Seq(Nominations)
  <2> HIDE DEF w
  <2> QED BY <1>1, <1>3
<1> QED BY <1>4

LEMMA TablesStep ==
  ASSUME PlaceInv, TablesInv, Next
  PROVE  TablesInv'
<1>1. lookup' = lookup /\ Contexts' = Contexts /\ Files' = Files
  BY LookupStays, SameProgram
<1>2. Nominations' = Nominations /\ Visits' = Visits /\ lookup \in Requests
  BY <1>1 DEF Nominations, Visits, PlaceInv
<1>3. /\ udirs \in Seq(Nominations) /\ begun \in BOOLEAN /\ visits \in Seq(Visits)
      /\ queue \in Seq(visited) /\ visited \subseteq Contexts
  BY DEF TablesInv
<1>4. SUFFICES /\ udirs' \in Seq(Nominations) /\ begun' \in BOOLEAN /\ visits' \in Seq(Visits)
               /\ queue' \in Seq(visited') /\ visited' \subseteq Contexts
  BY <1>1, <1>2 DEF TablesInv
<1>5. CASE UNCHANGED directives
  BY <1>3, <1>5 DEF directives
<1>6. CASE BeginVisits
  <2>1. UNCHANGED <<udirs, queue, visited>> /\ begun' = TRUE
    BY <1>6 DEF BeginVisits
  <2>2. scope \in 1 .. Len(P.scopes)
    BY <1>6, PlaceFacts DEF BeginVisits, InContext, PlaceInv
  <2>3. ScopeVisits \in Seq(Visits)
    BY <1>2, <2>2, ScopeVisitsIn
  <2>4. visits' \in Seq(Visits)
    <3>1. CASE visits' = ScopeVisits
      BY <2>3, <3>1
    <3>2. CASE InContext /\ visits' = ContextVisits \o ScopeVisits
      <4>1. ctx \in Contexts
        BY <3>2 DEF InContext, PlaceInv
      <4>2. ContextVisits \in Seq(Visits)
        BY <1>2, <4>1, ContextVisitsIn
      <4> QED BY <2>3, <3>2, <4>2
    <3> QED BY <1>6, <3>1, <3>2 DEF BeginVisits
  <2> QED BY <1>3, <2>1, <2>4
<1>7. CASE Visit
  <2> DEFINE v == Head(visits)
  <2>1. v \in Visits /\ Tail(visits) \in Seq(Visits)
    BY <1>3, <1>7, EndOf DEF Visit
  <2>2. v.ns \in Contexts /\ v.effective \in Contexts /\ (v.directive => v.ns \in Files)
    BY <2>1 DEF Visits
  <2>3. begun' = begun
    BY <1>7 DEF Visit
  <2>4. CASE v.ns \in visited
    <3>1. visits' = Tail(visits) /\ UNCHANGED <<udirs, queue, visited>>
      BY <1>7, <2>4 DEF Visit
    <3> QED BY <1>3, <2>1, <2>3, <3>1
  <2>5. CASE v.ns \notin visited
    <3> DEFINE n == [nominated |-> v.ns, ancestor |-> CommonAncestor(v.ns, v.effective)]
    <3>1. /\ visited' = visited \cup {v.ns} /\ queue' = <<v.ns>> /\ visits' = visits
          /\ udirs' = IF v.directive THEN Append(udirs, n) ELSE udirs
      BY <1>7, <2>5 DEF Visit
    <3>2. CommonAncestor(v.ns, v.effective) \in Files
      BY <1>2, <2>2, AncestorIn
    <3>3. v.directive => n \in Nominations
      BY <2>2, <3>2 DEF Nominations
    <3>4. udirs' \in Seq(Nominations)
      <4> HIDE DEF n, v
      <4> QED BY <1>3, <3>1, <3>3
    <3>5. queue' \in Seq(visited') /\ visited' \subseteq Contexts
      <4> HIDE DEF v
      <4>1. v.ns \in visited'
        BY <3>1
      <4>2. \A x : x \in visited' => <<x>> \in Seq(visited')
        OBVIOUS
      <4> QED BY <1>3, <2>2, <3>1, <4>1, <4>2
    <3> QED BY <1>3, <2>3, <3>1, <3>4, <3>5
  <2> QED BY <2>4, <2>5
<1>8. CASE Expand
  <2> DEFINE v == Head(visits)
             n == queue[Len(queue)]
             new == Unvisited(n, {})
             w == [k \in DOMAIN new |-> [nominated |-> new[k], ancestor |-> CommonAncestor(new[k], v.effective)]]
             popped == SubSeq(queue, 1, Len(queue) - 1)
  <2>1. v \in Visits /\ Tail(visits) \in Seq(Visits) /\ n \in visited /\ popped \in Seq(visited)
    BY <1>3, <1>8, EndOf DEF Expand
  <2>2. v.effective \in Contexts /\ n \in Contexts
    BY <1>3, <2>1 DEF Visits
  <2>3. /\ udirs' = udirs \o w /\ visited' = visited \cup Range(new) /\ queue' = popped \o new
        /\ visits' = (IF queue' = <<>> THEN Tail(visits) ELSE visits) /\ begun' = begun
    BY <1>8 DEF Expand
  <2> HIDE DEF v, n, popped
  <2>4. new \in Seq(Files)
    BY <1>2, <2>2, UnvisitedIn
  <2> HIDE DEF new
  <2>5. w \in Seq(Nominations)
    BY <1>2, <2>2, <2>4, NominationsIn
  <2> HIDE DEF w
  <2>6. Range(new) \subseteq Contexts /\ new \in Seq(visited')
    <3>1. Range(new) \subseteq Files
      BY <2>4 DEF Range
    <3>2. new \in Seq(visited')
      BY <2>3, <2>4, WiderSeq
    <3> QED BY <1>2, <3>1, <3>2, ContextFacts
  <2>7. popped \in Seq(visited')
    <3>1. Range(popped) \subseteq visited'
      BY <2>1, <2>3 DEF Range
    <3> QED BY <2>1, <3>1, WiderSeq
  <2>8. popped \o new \in Seq(visited')
    BY <2>6, <2>7
  <2>9. udirs \o w \in Seq(Nominations)
    BY <1>3, <2>5
  <2>10. visits' \in Seq(Visits)
    BY <1>3, <2>1, <2>3
  <2> QED BY <1>3, <2>3, <2>6, <2>8, <2>9, <2>10
<1>9. CASE EnterDirectives \/ PassNamespace
  <2>1. PICK c \in Contexts, rest \in Seq(visited) :
            /\ UNCHANGED <<udirs, begun, visits>>
            /\ queue' = rest \o Nominated(c) /\ visited \cup Range(queue') \subseteq visited'
            /\ visited' \subseteq visited \cup Range(queue') \cup {c}
    <3>1. CASE EnterDirectives
      <4>1. ctx \in Contexts
        BY <3>1 DEF EnterDirectives, NotDirect, InQualified, PlaceInv
      <4>2. Nominated(ctx) \in Seq(Files)
        BY <1>2, <4>1, UnvisitedIn DEF Nominated
      <4>3. <<>> \o Nominated(ctx) = Nominated(ctx) /\ <<>> \in Seq(visited)
        BY <4>2
      <4> QED BY <3>1, <4>1, <4>3 DEF EnterDirectives
    <3>2. CASE PassNamespace
      <4>1. Popped \in Seq(visited) /\ queue[Len(queue)] \in visited
        BY <1>3, <3>2, EndOf DEF PassNamespace, InDirectives, Popped
      <4> QED BY <1>3, <3>2, <4>1 DEF PassNamespace
    <3> QED BY <1>9, <3>1, <3>2
  <2>2. Nominated(c) \in Seq(Files)
    BY <1>2, UnvisitedIn DEF Nominated
  <2> DEFINE new == Nominated(c)
  <2> HIDE DEF new
  <2>3. queue' = rest \o new /\ new \in Seq(Files) /\ \A k \in DOMAIN new : new[k] \in Contexts
    BY <1>2, <2>1, <2>2, ContextFacts DEF new
  <2>4. /\ queue' \in Seq(Contexts)
    <3>1. new \in Seq(Contexts)
      <4>1. Range(new) \subseteq Contexts
        BY <2>3 DEF Range
      <4> QED BY <2>3, <4>1, WiderSeq
    <3>2. rest \in Seq(Contexts)
      <4>1. Range(rest) \subseteq Contexts
        BY <1>3 DEF Range
      <4> QED BY <4>1, WiderSeq
    <3> QED BY <2>3, <3>1, <3>2
  <2>5. Range(queue') \subseteq Contexts
    BY <2>4 DEF Range
  <2>6. queue' \in Seq(visited')
    BY <2>1, <2>4, WiderSeq
  <2> QED BY <1>3, <2>1, <2>5, <2>6
<1>10. CASE FindInNamespace
  <2>1. Popped \in Seq(visited)
    BY <1>3, <1>10, EndOf DEF FindInNamespace, InDirectives, Popped
  <2> QED BY <1>3, <1>10, <2>1 DEF FindInNamespace
<1>11. CASE \/ resolveKind /\ UNCHANGED walking
            \/ Start \/ LookupFails \/ Lexical \/ LocalFound \/ LocalPassed \/ ContextsEnd \/ SkipContext
            \/ ClassContext \/ NamespaceContext \/ NamespaceLooked
  BY <1>5, <1>11 DEF walking, Start, LookupFails, Lexical, LocalFound, LocalPassed, ContextsEnd, SkipContext,
                    ClassContext, NamespaceContext, NamespaceLooked
<1>12. CASE \/ ReachNamespaces \/ NamespaceScope \/ SkipTransparent \/ LookInNamespace \/ LeaveNamespace
            \/ NamespaceContextsEnd \/ NamespacesEnd \/ QualifiedDirect \/ NoImplied \/ NoBases
            \/ FoundInBases \/ ClashInBases \/ SetAmbiguous \/ AddNamespace \/ DirectivesEnd
  BY <1>5, <1>12 DEF ReachNamespaces, NamespaceScope, SkipTransparent, LookInNamespace, LeaveNamespace,
                     NamespaceContextsEnd, NamespacesEnd, QualifiedDirect, NoImplied, NoBases,
                     FoundInBases, ClashInBases, SetAmbiguous, AddNamespace, DirectivesEnd
<1> QED BY <1>6, <1>7, <1>8, <1>9, <1>10, <1>11, <1>12 DEF Next

-----------------------------------------------------------------------------
(***************************************************************************)
(* What every step does to the result.                                     *)
(***************************************************************************)
BadKinds == Subobjects \cup {"AmbiguousTagHiding"}

LEMMA SameClose ==
  ASSUME UNCHANGED <<lookup, found, decls>>
  PROVE  HidersClose' <=> HidersClose
<1>1. \A d, s : HiddenIn(d, s)' <=> HiddenIn(d, s)
  BY AllUnchanged
<1> QED BY <1>1 DEF HidersClose, Found

\* Once everything was scanned, no tag that is left is hidden.
LEMMA ResolveUse ==
  ASSUME ResultInv, FoundInv, resolveKind, UNCHANGED walking
  PROVE  FoundInv'
<1>1. /\ UNCHANGED <<lookup, found, walk, localExtern>> /\ pc # "done"
  BY ResolveKeeps DEF walking, marks
<1>2. Collected(found)' <=> Collected(found)
  <2>1. \A f : Collected(f)' <=> Collected(f)
    BY <1>1, SameNamespaces
  <2> QED BY <1>1, <2>1 DEF Collected
<1>3. pc' = "done" => resolved'
  BY <1>1 DEF resolveKind, FastCase, BeginScan, RemoveCurrent, Merge, Classify, EndScan, Remove, Decide,
              Return, Looking
<1>4. walk' # "returned" => kind' \notin BadKinds
  BY <1>1 DEF resolveKind, FastCase, BeginScan, RemoveCurrent, Merge, Classify, EndScan, Remove, Decide,
              Return, FastKind, Decision, result, Subobjects, BadKinds, FoundInv
<1>5. ~Scanning' => HidersClose'
  <2>1. CASE FastCase
    <3>1. pc = "begin" /\ UNCHANGED <<lookup, found, decls>>
      BY <2>1 DEF FastCase
    <3>2. HidersClose
      BY <3>1 DEF FoundInv, Scanning
    <3> QED BY <3>1, <3>2, SameClose
  <2>2. CASE BeginScan \/ RemoveCurrent \/ Merge \/ Classify \/ EndScan \/ Remove
    BY <2>2 DEF BeginScan, RemoveCurrent, Merge, Classify, EndScan, Remove, Looking, Scanning
  <2>3. CASE Decide
    <3>1. pc = "remove" /\ removed = {} /\ UNCHANGED <<lookup, found, decls>>
      BY <2>3 DEF Decide
    <3>2. ScannedInv /\ decls \in Lists
      BY <3>1 DEF ResultInv, Scanning, TypeInv
    <3>3. next \in Nat /\ next > Len(decls) /\ \A i \in Scanned : ~HiddenIn(Found(i), found)
      BY <3>1, <3>2 DEF ScannedInv
    <3>4. \A i \in DOMAIN decls : i \in Scanned
      BY <3>1, <3>2, <3>3, FoundIn DEF Scanned, Left
    <3>5. HidersClose
      BY <3>3, <3>4 DEF HidersClose
    <3> QED BY <3>1, <3>5, SameClose
  <2> QED BY <2>1, <2>2, <2>3 DEF resolveKind
<1> QED BY <1>1, <1>2, <1>3, <1>4, <1>5 DEF FoundInv, BadKinds, OpenScope

Looks == {"looked", "namespaceLooked", "directiveLooked", "clash"}
\* A step that adds declarations, one that changes nothing, and one that ends the walk.
LEMMA CollectWalk ==
  ASSUME ResultInv, FoundInv, pc = "done", pc' \in {"done", "begin"}, walk # "returned",
         NEW x, x \in Lists, addDecls(x), Fits(found, x),
         UNCHANGED <<lookup, next, removed, unique2, flags>>,
         walk' \in Looks \cup {"returned"} \/ pc' = "done",
         walk' \in Looks => pc' = "begin",
         walk' \in {"directiveLooked", "clash"} => x # <<>>,
         walk' \notin {"clash", "returned"} /\ ~OpenScope' =>
           Collected(found \o x) /\ localExtern' = localExtern,
         OpenScope' => found = <<>> /\ x = LocalDecls'
  PROVE  Use /\ FoundInv' /\ found' = found \o x
<1>1. kind \notin BadKinds /\ HidersClose
  BY DEF FoundInv, Scanning, BadKinds
<1>2. Use /\ HidersClose' /\ found' = found \o x
  BY <1>1, CollectUse DEF BadKinds
<1>3. kind' \notin BadKinds
  BY <1>1 DEF addDecls, BadKinds, Subobjects
<1>4. walk' \notin {"clash", "returned"} => Collected(found)' \/ OpenScope'
  <2>1. walk' \notin {"clash", "returned"} /\ ~OpenScope' => \A f : Collected(f)' <=> Collected(f)
    BY SameNamespaces
  <2>2. PICK f : f = found \o x
    OBVIOUS
  <2>3. walk' \notin {"clash", "returned"} /\ ~OpenScope' => Collected(f)'
    BY <2>1, <2>2
  <2> QED BY <1>2, <2>2, <2>3 DEF Collected
<1>5. x # <<>> => found' # <<>>
  <2>1. found \in Lists /\ x \in Lists
    BY ResultFacts
  <2>2. x # <<>> => Len(found \o x) # 0
    BY <2>1, RangeOfBoth DEF Lists
  <2> QED BY <1>2, <2>2
<1>6. OpenScope' => decls' = found' /\ found' = LocalDecls'
  <2>1. found = <<>> => decls = <<>>
    BY ResultFacts
  <2>2. <<>> \o x = x
    BY DEF Lists
  <2> QED BY <1>2, <2>1, <2>2 DEF addDecls
<1> QED BY <1>2, <1>3, <1>4, <1>5, <1>6 DEF FoundInv, BadKinds, Looks

LEMMA KeepWalk ==
  ASSUME FoundInv, UNCHANGED resolution, pc = "done", walk \notin {"returned", "clash"},
         walk' \notin Looks, walk' # "returned" => Collected(found)', ~OpenScope'
  PROVE  FoundInv'
<1>1. UNCHANGED <<lookup, found, decls, kind, pc, resolved>>
  BY DEF resolution, result
<1>2. HidersClose'
  BY <1>1, SameClose DEF FoundInv, Scanning
<1> QED BY <1>1, <1>2 DEF FoundInv, Looks

LEMMA ConcludeWalk ==
  ASSUME ResultInv, FoundInv, pc = "done", pc' \in {"done", "begin"}, walk # "returned",
         UNCHANGED <<found, decls, resolved>>, UNCHANGED <<lookup, next, removed, unique2, flags>>,
         \/ kind' = kind
         \/ kind' = "NotFoundInCurrentInstantiation" /\ found = <<>>
         \/ kind' \in Subobjects /\ decls # <<>> /\ resolved /\ pc' = "done"
         \/ kind' = "AmbiguousTagHiding" /\ Len(decls) > 1 /\ ~resolved /\ pc' = "done",
         walk' = "returned"
           \/ (walk' \notin Looks /\ pc' = "done" /\ kind' \notin BadKinds /\ Collected(found)' /\ ~OpenScope')
  PROVE  Use /\ FoundInv'
<1>1. HidersClose' /\ kind \notin BadKinds
  BY SameClose DEF FoundInv, Scanning, BadKinds
<1>2. found = <<>> => decls = <<>>
  BY ResultFacts
<1>3. Conclude
  BY <1>2 DEF Conclude
<1>4. pc' = "begin" => kind' \notin BadKinds
  BY <1>1 DEF BadKinds, Subobjects
<1>5. Use
  BY <1>1, <1>3, <1>4 DEF Use, BadKinds
<1>6. FoundInv'
  BY <1>1 DEF FoundInv, Looks, BadKinds, OpenScope
<1> QED BY <1>5, <1>6

\* A scope that is no namespace's.
LEMMA LocalFits ==
  ASSUME WalkInv, ResultInv, InScope
  PROVE  /\ Taken(LocalDecls) \in Lists /\ Fits(found, Taken(LocalDecls))
         /\ WithLinkage \/ LocalDecls = <<>> => Collected(found \o Taken(LocalDecls))
         /\ Range(Taken(LocalDecls)) \subseteq Range(P.scopes[scope].decls)
<1> DEFINE s == P.scopes[scope].decls
<1>1. /\ lookup \in Requests /\ scope \in DOMAIN P.scopes /\ found \in Lists /\ Collected(found)
      /\ found # <<>> => WithLinkage /\ scope # 1
  <2>1. lookup \in Requests /\ scope \in DOMAIN P.scopes
    BY PlaceFacts DEF WalkInv, PlaceInv, InScope
  <2> QED BY <2>1, ResultFacts DEF WalkInv, FoundInv, PassedInv, InScope, OpenScope
<1>2. s \in Everywhere /\ s \in Lists
  BY <1>1, ListFacts
<1>3. LocalDecls = Acceptable(s)
  BY DEF LocalDecls
<1>4. Taken(LocalDecls) \in Lists /\ Range(Taken(LocalDecls)) \subseteq Range(s)
  <2>1. Acceptable(s) \in Lists /\ Range(Acceptable(s)) \subseteq Range(s)
    BY <1>2, AcceptedFrom
  <2> HIDE DEF s
  <2> QED BY <1>3, <2>1, TakenFacts
<1> HIDE DEF s
<1>5. CASE s \in Whole
  <2>1. Covered(Taken(LocalDecls))
    BY <1>1, <1>3, <1>5, CoveredTaken
  <2> QED BY <1>1, <1>4, <2>1, CoveredFits DEF s
<1>6. CASE s \notin ContextLists(P)
  BY <1>1, <1>2, <1>3, <1>4, <1>6, BlockFits DEF s
<1>7. CASE s \in ContextLists(P) /\ s \notin Whole
  <2>1. ~WithLinkage /\ found = <<>>
    BY <1>1, <1>7, ListFacts
  <2>2. Taken(LocalDecls) = LocalDecls
    BY <2>1 DEF Taken
  <2>3. Fits(found, LocalDecls)
    BY <1>1, <1>2, <1>3, <2>1, OwnFits
  <2>4. LocalDecls = <<>> => Collected(found \o LocalDecls)
    BY <2>1, CollectedNone
  <2> QED BY <1>4, <2>1, <2>2, <2>3, <2>4 DEF s
<1> QED BY <1>5, <1>6, <1>7

\* The scope of a namespace, for a redeclaration with linkage.
LEMMA NamespaceCovered ==
  ASSUME WalkInv, NamespaceScope, WithLinkage
  PROVE  Covered(LocalDecls)
<1>1. /\ lookup \in Requests /\ scope \in DOMAIN P.scopes /\ DOMAIN P.scopes = 1 .. Len(P.scopes)
      /\ Len(P.scopes) \in Nat /\ \E j \in 1 .. scope : j <= Len(P.scopes) /\ IsFileScope(j)
  BY PlaceFacts DEF WalkInv, PlaceInv, NamespaceScope
<1>2. PICK j \in 1 .. scope : j <= Len(P.scopes) /\ IsFileScope(j)
  BY <1>1
<1>3. P.scopes[scope].kind \in {"file", "linkage"}
  <2>1. CASE j = scope
    BY <1>2, <2>1 DEF IsFileScope
  <2>2. CASE j # scope
    <3>1. j \in 1 .. Len(P.scopes) /\ scope \in 1 .. Len(P.scopes) /\ j < scope
      BY <1>1, <1>2, <2>2
    <3> QED BY <1>2, <3>1, PlaceFacts DEF WalkInv
  <2> QED BY <2>1, <2>2
<1>4. P.scopes[scope].decls \in Whole
  <2>1. P.scopes[scope].decls \in ContextLists(P)
    BY <1>1, <1>3 DEF ContextLists, Tables, LocalKinds
  <2> QED BY <1>1, <2>1, ListFacts
<1> QED BY <1>1, <1>4, CoveredAccepted DEF LocalDecls

\* In a class or for want of a declaration in a namespace, nothing was collected before.
LEMMA NothingBefore ==
  ASSUME WalkInv, walk = "qualified", ~lookup.redeclaration
  PROVE  found = <<>>
<1>1. lookup.kind = "LookupRedeclarationWithLinkage" => lookup.redeclaration
  BY RequestsAssumption DEF WalkInv, PlaceInv
<1> QED BY <1>1 DEF WalkInv, PassedInv, WithLinkage

\* What is common to the steps that add declarations of contexts.
LEMMA CoveredWalk ==
  ASSUME WalkInv, ResultInv, NEW x, Covered(x), walk \notin {"returned", "clash"}, ~OpenScope
  PROVE  x \in Lists /\ Fits(found, x) /\ Collected(found \o x)
<1>1. lookup \in Requests /\ found \in Lists /\ Collected(found)
  BY ResultFacts DEF WalkInv, PlaceInv, FoundInv
<1> QED BY <1>1, CoveredFits DEF Covered

LEMMA IdleWalk ==
  ASSUME WalkInv, walk \notin Looks \cup {"returned"}
  PROVE  pc = "done"
BY DEF WalkInv, FoundInv, Looks

LEMMA StartFound ==
  ASSUME WalkInv, ResultInv, Start
  PROVE  (UNCHANGED resolution \/ Use) /\ FoundInv'
<1>1. walk = "start" /\ pc = "done" /\ found = <<>>
  BY IdleWalk DEF Start, Looks, WalkInv, PassedInv
<1>2. UNCHANGED <<lookup, pc, next, removed, unique2, flags, found, decls, resolved>>
  BY DEF Start, scanning
<1>3. kind' = kind \/ kind' = "NotFoundInCurrentInstantiation"
  BY DEF Start
<1>4. walk' \notin Looks /\ ~OpenScope'
  BY DEF Start, Answer, Looks, OpenScope
<1>5. Collected(found)'
  BY <1>1, <1>2 DEF Collected, Range
<1>6. CASE walk' = "returned"
  BY <1>1, <1>2, <1>3, <1>6, ConcludeWalk DEF WalkInv
<1>7. CASE walk' # "returned"
  <2>1. lookup.specifier # "dependent"
    BY <1>7 DEF Start, Answer, Unqualified
  <2>2. UNCHANGED resolution
    BY <1>2, <2>1 DEF Start, resolution, result
  <2> QED BY <1>1, <1>4, <1>5, <2>2, KeepWalk DEF WalkInv
<1> QED BY <1>6, <1>7

LEMMA LookupFailsFound ==
  ASSUME WalkInv, ResultInv, LookupFails
  PROVE  Use /\ FoundInv'
<1> DEFINE x == IF lookup.builtins THEN BuiltinDecl ELSE <<>>
<1>1. walk = "failed" /\ pc = "done" /\ addDecls(x) /\ walk' = "returned"
      /\ UNCHANGED <<lookup, pc, next, removed, unique2, flags>>
  BY IdleWalk DEF LookupFails, Looks, scanning, Answer
<1>2. lookup \in Requests /\ found \in Lists
      /\ \A d \in Range(found) : \E i \in DOMAIN P.scopes : NotFile(i) /\ d \in Range(P.scopes[i].decls)
  BY <1>1, ResultFacts DEF WalkInv, PlaceInv, PassedInv
<1>3. /\ x \in Lists /\ \A d \in Range(x) : d \in Range(BuiltinDecl) /\ ~IsTag(d)
  <2>1. <<>> \in Lists /\ Range(<<>>) = {}
    BY DEF Lists, Range
  <2> QED BY <1>2, <2>1, BuiltinFacts
<1> HIDE DEF x
<1>4. Fits(found, x)
  <2>1. ASSUME NEW d \in Range(found), IsTag(d), NEW e \in Range(x) PROVE ~Hider(e, d)
    BY <1>2, <1>3, <2>1, BuiltinFacts
  <2>2. \A i \in DOMAIN x : x[i] \in Range(x)
    BY <1>3, RangeOf
  <2> QED BY <1>3, <2>1, <2>2 DEF Fits
<1> QED BY <1>1, <1>3, <1>4, CollectWalk DEF WalkInv, Looks, OpenScope

LEMMA LexicalFound ==
  ASSUME WalkInv, ResultInv, Lexical
  PROVE  (UNCHANGED resolution \/ Use) /\ FoundInv'
<1> DEFINE holders == {i \in DOMAIN P.scopes : TakenFrom(i) # <<>>}
           last == IF holders = {} THEN Len(P.scopes) ELSE Min(holders)
           x == TakenFrom(last)
<1>1. walk = "lexical" /\ pc = "done" /\ found = <<>> /\ lookup \in Requests
      /\ UNCHANGED <<lookup, next, removed, unique2, flags, localExtern>>
  BY IdleWalk DEF Lexical, Looks, WalkInv, PassedInv, PlaceInv, marks
<1>2. CASE holders = {}
  <2>1. UNCHANGED resolution /\ walk' = "failed"
    BY <1>1, <1>2 DEF Lexical, Fails, resolution
  <2>2. Collected(found)'
    BY <1>1, <2>1 DEF Collected, Range, resolution, result
  <2> QED BY <1>1, <2>1, <2>2, KeepWalk DEF WalkInv, Looks, OpenScope
<1>3. CASE holders # {}
  <2>1. last = Min(holders) /\ addDecls(x) /\ pc' = "begin" /\ walk' = "returned"
    BY <1>3 DEF Lexical, Answer
  <2>2. holders \in SUBSET Nat
    BY <1>1, ScopeFacts
  <2>3. last \in DOMAIN P.scopes
    <3> HIDE DEF holders
    <3>1. Min(holders) \in holders
      BY <1>3, <2>2, MinFacts
    <3> QED BY <2>1, <3>1 DEF holders
  <2> HIDE DEF last, holders
  <2>4. x \in Lists /\ Fits(<<>>, x)
    BY <1>1, <2>3, TakenFromFits
  <2> HIDE DEF x
  <2> QED BY <1>1, <2>1, <2>4, CollectWalk DEF WalkInv, Looks, OpenScope
<1> QED BY <1>2, <1>3

LEMMA LocalStep ==
  ASSUME WalkInv, ResultInv, LocalFound \/ LocalPassed
  PROVE  Use /\ FoundInv' /\ found' = found \o Taken(LocalDecls)
<1> DEFINE x == Taken(LocalDecls)
<1>1. InScope /\ walk = "scope" /\ pc = "done" /\ addDecls(x)
      /\ UNCHANGED <<lookup, next, removed, unique2, flags, localExtern>>
  BY DEF LocalFound, LocalPassed, InScope, Idle, scanning
<1>2. /\ x \in Lists /\ Fits(found, x)
      /\ WithLinkage \/ LocalDecls = <<>> => Collected(found \o x)
  BY <1>1, LocalFits
<1>5. WithLinkage \/ LocalDecls = <<>> \/ walk' = "returned"
  <2>1. CASE LocalFound
    BY <2>1 DEF LocalFound, Answer
  <2>2. ASSUME ~LocalStops, ~WithLinkage PROVE LocalDecls = <<>>
    <3>1. \A i \in DOMAIN LocalDecls : FALSE
      BY <2>2 DEF LocalStops
    <3>2. LocalDecls \in Lists
      <4>1. P.scopes[scope].decls \in Lists
        BY <1>1, PlaceFacts, ListFacts DEF WalkInv, PlaceInv
      <4> QED BY <4>1, AcceptedFrom DEF LocalDecls
    <3>3. LocalDecls # <<>> => 1 \in DOMAIN LocalDecls
      BY <3>2, RangeOf DEF Lists
    <3> QED BY <3>1, <3>3
  <2> QED BY <2>1, <2>2 DEF LocalPassed
<1> HIDE DEF x
<1>3. /\ walk' = "returned" \/ (walk' \in {"failed", "context"} /\ pc' = "done")
      /\ pc' \in {"done", "begin"}
  BY <1>1 DEF LocalFound, LocalPassed, Answer, Fails, scanning
<1>4. Use /\ FoundInv' /\ found' = found \o x
  BY <1>1, <1>2, <1>3, <1>5, CollectWalk DEF WalkInv, Looks, OpenScope
<1> QED BY <1>4 DEF x

\* The table of a namespace has all that its scope has.
LEMMA LookOpen ==
  ASSUME WalkInv, ResultInv, LookInNamespace, OpenScope
  PROVE  Use /\ FoundInv' /\ found' = found \o NamespaceDecls(ctx)
<1> DEFINE x == NamespaceDecls(ctx)
<1>1. /\ walk = "namespaceContext" /\ addDecls(x) /\ pc' = "begin" /\ walk' = "namespaceLooked"
      /\ UNCHANGED <<lookup, next, removed, unique2, flags, localExtern>> /\ ctx # NoContext
  BY DEF LookInNamespace, InNamespace, marks
<1>2. /\ ctx \in Contexts /\ lookup \in Requests /\ udirs \in Seq(Nominations) /\ scope \in DOMAIN P.scopes
      /\ IsFileScope(scope) /\ ctx = P.scopes[scope].entity
  BY <1>1, PlaceFacts DEF WalkInv, PlaceInv, TablesInv, OpenScope
<1>3. decls = found /\ found = LocalDecls /\ kind \notin BadKinds /\ pc = "done"
  BY <1>1, IdleWalk DEF WalkInv, FoundInv, BadKinds, Looks
<1>4. Covered(x) /\ x \in Lists /\ found \in Lists
  BY <1>2, CoveredNamespace, ResultFacts DEF Covered
<1>5. Range(found) \subseteq Range(x)
  <2>1. /\ P.scopes[scope].decls \in Lists /\ P.contexts[ctx].decls \in Lists
        /\ Range(P.scopes[scope].decls) \subseteq Range(P.contexts[ctx].decls)
    BY <1>2, ScopeFacts, ContextFacts
  <2>2. ASSUME NEW d \in Range(found) PROVE d \in Range(Acceptable(P.contexts[ctx].decls))
    BY <1>3, <2>1, AcceptedFrom DEF LocalDecls
  <2>3. \A d \in Range(found) : d \in Range(DirectDecls(ctx))
    <3>1. Acceptable(P.contexts[ctx].decls) = <<>> => Range(Acceptable(P.contexts[ctx].decls)) = {}
      BY DEF Range
    <3> QED BY <2>2, <3>1 DEF DirectDecls
  <2>4. Range(DirectDecls(ctx)) \subseteq Range(x)
    BY <1>2, CoveredNamespace
  <2> QED BY <2>3, <2>4
<1> HIDE DEF x
<1>6. Fits(<<>>, x) /\ Collected(<<>> \o x) /\ <<>> \o x = x
  <2>1. <<>> \in Lists /\ <<>> \o x = x
    BY <1>4 DEF Lists
  <2>2. Fits(<<>>, x) /\ Collected(<<>> \o x)
    BY <1>2, <1>4, <2>1, CollectedNone, CoveredFits
  <2> QED BY <2>1, <2>2
<1>7. Use /\ HidersClose' /\ found' = found \o x
  BY <1>1, <1>3, <1>4, <1>5, <1>6, OpenUse DEF BadKinds
<1>8. Collected(found)'
  <2>1. Range(found \o x) = Range(x)
    BY <1>4, <1>5, RangeOfBoth
  <2>2. Collected(found \o x)
    BY <1>6, <2>1 DEF Collected, HiderIn
  <2>3. \A f : Collected(f)' <=> Collected(f)
    BY <1>1, SameNamespaces
  <2>4. PICK f : f = found \o x /\ Collected(f)'
    BY <2>2, <2>3
  <2> QED BY <1>7, <2>4 DEF Collected
<1>9. kind' \notin BadKinds
  BY <1>1, <1>3 DEF addDecls, BadKinds, Subobjects
<1>10. FoundInv'
  BY <1>1, <1>7, <1>8, <1>9 DEF FoundInv, BadKinds, OpenScope
<1> QED BY <1>7, <1>10 DEF x

LEMMA LookStep ==
  ASSUME WalkInv, ResultInv, NamespaceContext \/ LookInNamespace
  PROVE  Use /\ FoundInv' /\ found' = found \o NamespaceDecls(ctx)
<1> DEFINE x == NamespaceDecls(ctx)
<1>1. /\ walk \in {"context", "namespaceContext"} /\ addDecls(x) /\ pc' = "begin"
      /\ walk' \in {"looked", "namespaceLooked"}
      /\ UNCHANGED <<lookup, next, removed, unique2, flags, localExtern>>
      /\ ctx # NoContext
  BY DEF NamespaceContext, LookInNamespace, InContext, InNamespace, marks
<1>2. ctx \in Contexts /\ lookup \in Requests /\ udirs \in Seq(Nominations)
  BY <1>1 DEF WalkInv, PlaceInv, TablesInv
<1>3. Covered(x)
  BY <1>2, CoveredNamespace
<1> HIDE DEF x
<1>4. CASE ~OpenScope
  <2>1. x \in Lists /\ Fits(found, x) /\ Collected(found \o x) /\ pc = "done"
    BY <1>1, <1>3, <1>4, CoveredWalk, IdleWalk DEF Looks
  <2>2. ~OpenScope'
    BY <1>1 DEF OpenScope
  <2>3. Use /\ FoundInv' /\ found' = found \o x
    BY <1>1, <2>1, <2>2, CollectWalk DEF WalkInv, Looks
  <2> QED BY <2>3 DEF x
<1>5. CASE OpenScope
  <2>1. LookInNamespace
    BY <1>5 DEF OpenScope, NamespaceContext, InContext
  <2> QED BY <1>5, <2>1, LookOpen
<1> QED BY <1>4, <1>5

LEMMA NamespaceScopeFound ==
  ASSUME WalkInv, ResultInv, NamespaceScope
  PROVE  Use /\ FoundInv' /\ found' = found \o LocalDecls
<1> DEFINE x == LocalDecls
<1>1. /\ walk = "namespaces" /\ addDecls(x) /\ walk' = "namespaceContext" /\ (here' <=> x # <<>>)
      /\ UNCHANGED <<lookup, pc, next, removed, unique2, flags, localExtern, scope>>
      /\ scope \in DOMAIN P.scopes /\ lookup \in Requests /\ pc = "done"
  BY IdleWalk DEF NamespaceScope, scanning, marks, WalkInv, PlaceInv, Looks
<1>2. LocalDecls' = LocalDecls /\ (WithLinkage' <=> WithLinkage)
  BY <1>1, SameLocal
<1>3. CASE WithLinkage
  <2>1. Covered(x)
    BY <1>3, NamespaceCovered
  <2> HIDE DEF x
  <2>2. x \in Lists /\ Fits(found, x) /\ Collected(found \o x)
    BY <1>1, <2>1, CoveredWalk DEF OpenScope
  <2>3. ~OpenScope'
    BY <1>2, <1>3 DEF OpenScope
  <2>4. Use /\ FoundInv' /\ found' = found \o x
    BY <1>1, <2>2, <2>3, CollectWalk DEF WalkInv, Looks
  <2> QED BY <2>4 DEF x
<1>4. CASE ~WithLinkage
  <2>1. found = <<>>
    BY <1>1, <1>4 DEF WalkInv, PassedInv
  <2>2. x \in Lists /\ Fits(found, x)
    <3>1. P.scopes[scope].decls \in Everywhere
      BY <1>1, ListFacts
    <3> QED BY <1>1, <2>1, <3>1, OwnFits DEF LocalDecls
  <2> HIDE DEF x
  <2>3. ~OpenScope' => Collected(found \o x)
    <3>1. ~OpenScope' => x = <<>>
      BY <1>1, <1>2, <1>4 DEF OpenScope
    <3> QED BY <2>1, <3>1, CollectedNone
  <2>4. OpenScope' => found = <<>> /\ x = LocalDecls'
    BY <1>2, <2>1 DEF x
  <2>5. Use /\ FoundInv' /\ found' = found \o x
    BY <1>1, <2>2, <2>3, <2>4, CollectWalk DEF WalkInv, Looks
  <2> QED BY <2>5 DEF x
<1> QED BY <1>3, <1>4

LEMMA QualifiedDirectFound ==
  ASSUME WalkInv, ResultInv, QualifiedDirect
  PROVE  Use /\ FoundInv'
<1> DEFINE x == DirectDecls(ctx)
<1>1. /\ walk = "qualified" /\ addDecls(x) /\ walk' = "returned" /\ pc' = "begin"
      /\ UNCHANGED <<lookup, next, removed, unique2, flags>>
  BY DEF QualifiedDirect, InQualified, Answer
<1>2. Covered(x)
  BY <1>1, CoveredDirect DEF WalkInv, PlaceInv
<1> HIDE DEF x
<1>3. x \in Lists /\ Fits(found, x) /\ pc = "done"
  BY <1>1, <1>2, CoveredWalk, IdleWalk DEF Looks, OpenScope
<1> QED BY <1>1, <1>3, CollectWalk DEF WalkInv, Looks, OpenScope

LEMMA BasesFound ==
  ASSUME WalkInv, ResultInv, FoundInBases \/ ClashInBases
  PROVE  Use /\ FoundInv'
<1>1. /\ walk = "qualified" /\ pc' = "begin" /\ UNCHANGED <<lookup, next, removed, unique2, flags>>
      /\ ~lookup.redeclaration /\ ctx \in Contexts /\ lookup \in Requests
  BY DEF FoundInBases, ClashInBases, InBaseClasses, NotDirect, InQualified, InBases, WalkInv, PlaceInv
<1>2. found = <<>> /\ pc = "done"
  BY <1>1, NothingBefore, IdleWalk DEF Looks
<1>3. CASE FoundInBases
  <2> DEFINE x == Acceptable(Paths[1].decls)
  <2>1. addDecls(x) /\ walk' = "returned" /\ Paths # <<>>
    BY <1>3 DEF FoundInBases, Answer
  <2>2. x \in Lists /\ Fits(<<>>, x)
    BY <1>1, <2>1, FirstPathFits
  <2> HIDE DEF x
  <2> QED BY <1>1, <1>2, <2>1, <2>2, CollectWalk DEF WalkInv, Looks, OpenScope
<1>4. CASE ClashInBases
  <2> DEFINE x == Joined([k \in DOMAIN Paths |-> PathDecls(Paths[k])])
  <2>1. addDecls(x) /\ walk' = "clash" /\ Clashes # {}
    BY <1>4 DEF ClashInBases
  <2>2. DOMAIN Paths # {}
    <3>1. PICK k \in Clashes : TRUE
      BY <2>1
    <3>2. DOMAIN Paths = 1 .. Len(Paths) /\ Len(Paths) \in Nat
      BY <1>1, PathsFacts
    <3> QED BY <3>1, <3>2 DEF Clashes
  <2>3. x \in Lists /\ Fits(<<>>, x) /\ x # <<>>
    BY <1>1, <2>2, ClashFits
  <2> HIDE DEF x
  <2> QED BY <1>1, <1>2, <2>1, <2>3, CollectWalk DEF WalkInv, Looks, OpenScope
<1> QED BY <1>3, <1>4

LEMMA SetAmbiguousFound ==
  ASSUME WalkInv, ResultInv, SetAmbiguous
  PROVE  Use /\ FoundInv'
<1>1. /\ walk = "clash" /\ pc = "done" /\ resolved /\ found # <<>> /\ walk' = "returned"
      /\ UNCHANGED <<lookup, pc, next, removed, unique2, flags, found, decls, resolved>>
  BY DEF SetAmbiguous, Idle, scanning, Answer, WalkInv, FoundInv
<1>2. kind' \in Subobjects
  BY DEF SetAmbiguous, Verdicts, Subobjects
<1>3. decls # <<>>
  BY <1>1, ResultFacts
<1> QED BY <1>1, <1>2, <1>3, ConcludeWalk DEF WalkInv

\* A qualified lookup that finds nothing.
LEMMA QualifiedFailsFound ==
  ASSUME WalkInv, ResultInv, NoImplied \/ NoBases
  PROVE  (UNCHANGED resolution \/ Use) /\ FoundInv'
<1>1. /\ walk = "qualified" /\ UNCHANGED <<lookup, pc, next, removed, unique2, flags, localExtern>>
      /\ UNCHANGED <<found, decls, resolved>>
      /\ walk' = "returned" \/ (walk' = "context" /\ Unqualified)
  BY DEF NoImplied, NoBases, InBaseClasses, NotDirect, InQualified, QualifiedFails, Answer, scanning,
         result, marks
<1>2. pc = "done" /\ Collected(found)
  BY <1>1, IdleWalk DEF Looks, WalkInv, FoundInv, OpenScope
<1>3. Collected(found)'
  <2>1. \A f : Collected(f)' <=> Collected(f)
    BY <1>1, SameNamespaces
  <2>2. PICK f : f = found /\ Collected(f)'
    BY <1>2, <2>1
  <2> QED BY <1>1, <2>2 DEF Collected
<1>4. kind' = kind \/ (kind' = "NotFoundInCurrentInstantiation" /\ ~Unqualified)
  BY DEF NoImplied, NoBases, Postponed, result
<1>5. ~Unqualified => found = <<>>
  BY <1>1 DEF WalkInv, PassedInv
<1>6. CASE kind' = kind
  <2>1. UNCHANGED resolution
    BY <1>1, <1>6 DEF resolution, result
  <2>2. walk' = "returned" => FoundInv'
    BY <1>1, <1>2, <1>6, ConcludeWalk DEF WalkInv
  <2>3. walk' = "context" => FoundInv'
    BY <1>1, <1>2, <1>3, <2>1, KeepWalk DEF WalkInv, Looks, OpenScope
  <2> QED BY <1>1, <2>1, <2>2, <2>3
<1>7. CASE kind' = "NotFoundInCurrentInstantiation" /\ ~Unqualified
  BY <1>1, <1>2, <1>5, <1>7, ConcludeWalk DEF WalkInv
<1> QED BY <1>4, <1>6, <1>7

\* Another look, once what was found is resolved, or the end of the walk.
LEMMA LookedFound ==
  ASSUME WalkInv, ResultInv, NamespaceLooked \/ LeaveNamespace
  PROVE  (UNCHANGED resolution \/ Use) /\ FoundInv'
<1>1. /\ walk \in {"looked", "namespaceLooked"} /\ pc = "done" /\ UNCHANGED <<result, resolved, localExtern>>
      /\ \/ walk' = "returned" /\ pc' = "begin" /\ UNCHANGED <<lookup, next, removed, unique2, flags>>
         \/ walk' \in {"context", "failed", "namespaceContext"} /\ UNCHANGED scanning
  BY DEF NamespaceLooked, LeaveNamespace, AfterNamespace, ResolveAndReturn, Resolve, Answer, Fails, Idle, marks
<1>2. CASE walk' = "returned"
  <2>1. pc' = "begin" /\ UNCHANGED <<lookup, next, removed, unique2, flags>>
    BY <1>1, <1>2
  <2> QED BY <1>1, <1>2, <2>1, ConcludeWalk DEF WalkInv, result
<1>3. CASE walk' # "returned"
  <2>1. UNCHANGED resolution /\ walk' \in {"context", "failed", "namespaceContext"} /\ lookup' = lookup
    BY <1>1, <1>3 DEF resolution, scanning
  <2>2. Collected(found)'
    <3>1. \A f : Collected(f)' <=> Collected(f)
      BY <1>1, <2>1, SameNamespaces
    <3>2. PICK f : f = found /\ Collected(f)'
      BY <1>1, <3>1 DEF WalkInv, FoundInv, OpenScope
    <3> QED BY <2>1, <3>2 DEF Collected, resolution, result
  <2>3. ~OpenScope'
    <3>1. here' = here /\ here \in BOOLEAN /\ (here => walk' = "returned")
      BY DEF NamespaceLooked, LeaveNamespace, AfterNamespace, ResolveAndReturn, Answer, WalkInv, PlaceInv
    <3> QED BY <1>3, <3>1 DEF OpenScope
  <2> QED BY <1>1, <2>1, <2>2, <2>3, KeepWalk DEF WalkInv, Looks
<1> QED BY <1>2, <1>3

\* Steps that leave the result alone.
LEMMA MoveFound ==
  ASSUME WalkInv,
         \/ ContextsEnd \/ SkipContext \/ ClassContext \/ SkipTransparent \/ NamespaceContextsEnd
         \/ NamespacesEnd \/ EnterDirectives \/ PassNamespace \/ ReachNamespaces
  PROVE  UNCHANGED resolution /\ FoundInv'
<1>1. UNCHANGED resolution /\ walk \notin Looks \cup {"returned"} /\ walk' \notin Looks
  BY DEF ContextsEnd, SkipContext, ClassContext, SkipTransparent, NamespaceContextsEnd, NamespacesEnd,
         EnterDirectives, PassNamespace, ReachNamespaces, InContext, InNamespace, NotDirect, InQualified,
         InDirectives, Answer, Fails, Looks
<1>2. lookup' = lookup /\ found' = found /\ Collected(found) /\ ~OpenScope'
  <2>1. walk' = "namespaceContext" => walk = "namespaceContext" /\ UNCHANGED <<lookup, here>>
    BY <1>1 DEF ContextsEnd, SkipContext, ClassContext, SkipTransparent, NamespaceContextsEnd, NamespacesEnd,
           EnterDirectives, PassNamespace, ReachNamespaces, InDirectives, Answer, Fails, resolution, position
  <2>2. OpenScope' => OpenScope
    BY <2>1, SameProgram DEF OpenScope
  <2>3. ASSUME OpenScope PROVE FALSE
    <3>1. /\ walk = "namespaceContext" /\ here = TRUE
          /\ ctx \in {NoContext, OuterContext(scope)} \/ P.contexts[ctx].kind = "linkage"
      BY <2>3 DEF OpenScope, ContextsEnd, SkipContext, ClassContext, SkipTransparent, NamespaceContextsEnd,
                  NamespacesEnd, EnterDirectives, PassNamespace, ReachNamespaces, InContext, InNamespace,
                  NotDirect, InQualified, InDirectives
    <3>2. IsFileScope(scope) /\ ctx = P.scopes[scope].entity /\ scope \in 1 .. Len(P.scopes)
      BY <3>1, PlaceFacts DEF WalkInv, PlaceInv
    <3>3. ctx \notin {NoContext, OuterContext(scope)}
      BY <3>2, PlaceFacts DEF WalkInv
    <3>4. IsFile(ctx)
      BY <3>2, PlaceFacts, ScopeFacts, ContextFacts DEF WalkInv, PlaceInv
    <3> QED BY <3>1, <3>3, <3>4 DEF IsFile, FileKinds
  <2> QED BY <1>1, <2>2, <2>3 DEF resolution, result, WalkInv, FoundInv, Looks
<1>3. Collected(found)'
  <2>1. CASE localExtern' = localExtern
    <3>1. \A f : Collected(f)' <=> Collected(f)
      BY <1>2, <2>1, SameNamespaces
    <3>2. PICK f : f = found /\ Collected(f)'
      BY <1>2, <3>1
    <3> QED BY <1>2, <3>2 DEF Collected
  <2>2. CASE localExtern' # localExtern
    <3>1. walk = "scope" /\ localExtern' = (localExtern /\ lookup.redeclaration)
      BY <2>2 DEF ContextsEnd, SkipContext, ClassContext, SkipTransparent, NamespaceContextsEnd, NamespacesEnd,
                  EnterDirectives, PassNamespace, ReachNamespaces, marks
    <3>2. localExtern \in BOOLEAN /\ lookup \in Requests
      BY DEF WalkInv, PlaceInv
    <3>3. lookup.redeclaration \in BOOLEAN
           /\ (lookup.kind = "LookupRedeclarationWithLinkage" => lookup.redeclaration)
      BY <3>2, RequestsAssumption
    <3>4. ~lookup.redeclaration
      BY <2>2, <3>1, <3>2, <3>3
    <3>5. found = <<>>
      BY <3>1, <3>3, <3>4 DEF WalkInv, PassedInv, WithLinkage
    <3> QED BY <1>2, <3>5 DEF Collected, Range
  <2> QED BY <2>1, <2>2
<1>4. pc = "done"
  BY <1>1, IdleWalk DEF Looks
<1> QED BY <1>1, <1>2, <1>3, <1>4, KeepWalk DEF WalkInv, Looks

LEMMA TableFound ==
  ASSUME WalkInv, BeginVisits \/ Visit \/ Expand
  PROVE  UNCHANGED resolution /\ FoundInv'
<1>1. UNCHANGED resolution /\ UNCHANGED <<walk, localExtern, scope, here, enclosed, foundTags>>
  BY DEF BeginVisits, Visit, Expand, marks, nested, position
<1>2. UNCHANGED <<lookup, found, decls, kind, pc, resolved>>
  BY <1>1 DEF resolution, result
<1>3. Collected(found) => Collected(found)'
  <2>1. \A f : Collected(f)' <=> Collected(f)
    BY <1>1, <1>2, SameNamespaces
  <2>2. PICK f : f = found
    OBVIOUS
  <2>3. Collected(f)' <=> Collected(f)
    BY <2>1
  <2> QED BY <1>2, <2>2, <2>3 DEF Collected
<1>4. HidersClose' <=> HidersClose
  BY <1>2, SameClose
<1>5. (OpenScope' <=> OpenScope) /\ LocalDecls' = LocalDecls
  BY <1>1, <1>2, SameLocal DEF OpenScope
<1> QED BY <1>1, <1>2, <1>3, <1>4, <1>5 DEF WalkInv, FoundInv, Scanning

-----------------------------------------------------------------------------
(***************************************************************************)
(* The namespaces that a qualified lookup looks in, each on its own.       *)
(***************************************************************************)
LEMMA CollectedBoth ==
  ASSUME NEW f \in Lists, NEW g \in Lists, Collected(f), Collected(g)
  PROVE  Collected(f \o g) /\ (OutOfBlocks(f) /\ OutOfBlocks(g) => OutOfBlocks(f \o g))
<1>1. Range(f \o g) = Range(f) \cup Range(g)
  BY RangeOfBoth
<1>2. \A d : HiderIn(f, d) \/ HiderIn(g, d) => HiderIn(f \o g, d)
  BY <1>1 DEF HiderIn
<1> QED BY <1>1, <1>2 DEF Collected, OutOfBlocks

\* A tag of one namespace is hidden by what another one has only if it is hidden at home.
LEMMA HiddenAtHome ==
  ASSUME lookup \in Requests, NEW f \in Lists, NEW g \in Lists, Collected(f), Collected(g),
         OutOfBlocks(f), OutOfBlocks(g), NEW d \in Range(f), IsTag(d), HiderIn(g, d)
  PROVE  HiderIn(f, d)
<1>1. PICK e \in Range(g) : Hider(e, d)
  BY DEF HiderIn
<1>2. Sourced(d) /\ Sourced(e)
  BY DEF Collected
<1>3. ~ForWant(d) /\ Accepted(d, IDNS) /\ InContexts(d)
  BY <1>2, SourcedFacts DEF OutOfBlocks
<1>4. ~ForWant(e)
  BY <1>1, <1>3, BuiltinApart
<1>5. InContexts(e) /\ MayHide(e, d) /\ e \in DOMAIN Declared
  <2>1. e \in DOMAIN Declared
    BY RangeOf
  <2> QED BY <1>1, <1>2, <1>4, <2>1, SourcedFacts DEF OutOfBlocks
<1>6. ~(InBlocks(d) /\ WithLinkage)
  BY <1>1, <1>5, BlockTagApart
<1> QED BY <1>5, <1>6 DEF Collected

LEMMA NamespacesApart ==
  ASSUME lookup \in Requests, NEW f \in Lists, NEW g \in Lists, Collected(f), Collected(g),
         OutOfBlocks(f), OutOfBlocks(g), NEW s \in Lists, NEW t \in Lists,
         Represents(s, f), Represents(t, g)
  PROVE  Apart(s, f, t, g)
<1>1. /\ \A i \in DOMAIN s : s[i] \in Range(f)
      /\ \A i \in DOMAIN t : t[i] \in Range(g)
  BY RangeOf DEF Represents
<1>2. ASSUME NEW i \in DOMAIN s, HiddenIn(Declared[s[i]], g) PROVE HiddenIn(Declared[s[i]], f)
  <2>1. lookup.hideTags /\ IsTag(s[i]) /\ HiderIn(g, s[i])
    BY <1>2, HiddenBy
  <2>2. HiderIn(f, s[i])
    BY <1>1, <2>1, HiddenAtHome
  <2> QED BY <2>1, <2>2, HiddenBy
<1>3. ASSUME NEW i \in DOMAIN t, HiddenIn(Declared[t[i]], f) PROVE HiddenIn(Declared[t[i]], g)
  <2>1. lookup.hideTags /\ IsTag(t[i]) /\ HiderIn(f, t[i])
    BY <1>3, HiddenBy
  <2>2. HiderIn(g, t[i])
    BY <1>1, <2>1, HiddenAtHome
  <2> QED BY <2>1, <2>2, HiddenBy
<1> QED BY <1>2, <1>3 DEF Apart

LEMMA FindInNamespaceStep ==
  ASSUME WalkInv, ResultInv, FindInNamespace
  PROVE  Use /\ FoundInv' /\ NestedInv'
<1> DEFINE x == DirectDecls(queue[Len(queue)])
<1>1. /\ walk = "directives" /\ pc = "done" /\ queue # <<>> /\ x # <<>>
      /\ enclosed' = IF decls = <<>> THEN <<>> ELSE <<[found |-> found, decls |-> decls]>>
      /\ decls' = x /\ found' = x /\ kind' = "Found" /\ resolved' = FALSE
      /\ pc' = "begin" /\ walk' = "directiveLooked"
      /\ UNCHANGED <<lookup, next, removed, unique2, flags, localExtern, foundTags>>
  BY DEF FindInNamespace, InDirectives, Idle, marks
<1>2. lookup \in Requests /\ queue[Len(queue)] \in Contexts
  <2>1. queue \in Seq(visited) /\ visited \subseteq Contexts /\ queue # <<>>
    BY <1>1 DEF WalkInv, TablesInv
  <2>2. queue[Len(queue)] \in visited
    BY <2>1, EndOf
  <2> QED BY <2>1, <2>2 DEF WalkInv, PlaceInv
<1>3. Covered(x)
  BY <1>2, CoveredDirect
<1> HIDE DEF x
<1>4. /\ found \in Lists /\ decls \in Lists /\ (found = <<>> <=> decls = <<>>) /\ Represents(decls, found)
      /\ CloseTo(decls, found) /\ Collected(found) /\ OutOfBlocks(found)
  BY <1>1, ResultFacts, CloseFacts DEF WalkInv, FoundInv, NestedInv, Scanning, OpenScope
<1>5. x \in Lists /\ Fits(<<>>, x) /\ Collected(x) /\ OutOfBlocks(x)
  <2>1. <<>> \in Lists
    BY DEF Lists
  <2>2. x \in Lists
    BY <1>3 DEF Covered
  <2>3. Fits(<<>>, x) /\ Collected(<<>> \o x)
    BY <1>2, <1>3, <2>1, CollectedNone, CoveredFits
  <2>4. <<>> \o x = x
    BY <2>2 DEF Lists
  <2>5. OutOfBlocks(x)
    BY <1>3, <2>2, RangeOf DEF Covered, OutOfBlocks
  <2> QED BY <2>2, <2>3, <2>4, <2>5
<1>6. Use /\ HidersClose'
  BY <1>1, <1>5, BeginUse
<1>7. /\ \A f : Collected(f)' <=> Collected(f)
      /\ \A f : OutOfBlocks(f)' <=> OutOfBlocks(f)
  BY <1>1, SameNamespaces
<1>8. PICK g : g = x
  OBVIOUS
<1>9. Collected(g)' /\ OutOfBlocks(g)'
  BY <1>5, <1>7, <1>8
<1>10. Collected(found)' /\ OutOfBlocks(found)'
  BY <1>1, <1>8, <1>9 DEF Collected, OutOfBlocks
<1>11. FoundInv'
  BY <1>1, <1>6, <1>10 DEF FoundInv, Subobjects, OpenScope
<1>12. foundTags \subseteq BOOLEAN /\ (foundTags # {} => decls # <<>>)
  BY <1>1 DEF WalkInv, NestedInv
<1>13. CASE decls = <<>>
  <2>1. enclosed' = <<>> /\ foundTags' = {}
    BY <1>1, <1>12, <1>13
  <2> QED BY <1>1, <1>6, <1>10, <1>11, <2>1 DEF NestedInv
<1>14. CASE decls # <<>>
  <2>1. enclosed' = <<[found |-> found, decls |-> decls]>>
    BY <1>1, <1>14
  <2>2. PICK f, s : f = found /\ s = decls
    OBVIOUS
  <2>3. enclosed'[1].found = f /\ enclosed'[1].decls = s /\ Len(enclosed') = 1 /\ enclosed' # <<>>
    BY <2>1, <2>2
  <2>4. f \in Lists \ {<<>>} /\ s \in Lists \ {<<>>} /\ Represents(s, f) /\ CloseTo(s, f)
        /\ Collected(f) /\ OutOfBlocks(f)
    BY <1>4, <1>14, <2>2
  <2>5. Represents(s, f)' /\ CloseTo(s, f)' /\ Collected(f)' /\ OutOfBlocks(f)'
    <3>1. Represents(s, f)' /\ \A d : HiddenIn(d, f)' <=> HiddenIn(d, f)
      BY <1>1, <2>4, AllUnchanged
    <3>2. CloseTo(s, f)'
      BY <2>4, <3>1 DEF CloseTo, HiderNear, Near, Hider
    <3> QED BY <1>7, <2>4, <3>1, <3>2
  <2>6. NestedInv'
    <3>1. walk' = "directiveLooked" /\ foundTags' \subseteq BOOLEAN
      BY <1>1, <1>12
    <3>2. (LET a == enclosed[1].found
               b == enclosed[1].decls
           IN /\ a \in Lists \ {<<>>} /\ b \in Lists \ {<<>>} /\ Represents(b, a)
              /\ CloseTo(b, a) /\ Collected(a) /\ OutOfBlocks(a))'
      BY <2>3, <2>4, <2>5 DEF Represents, CloseTo, Collected, OutOfBlocks
    <3> QED BY <1>10, <2>3, <3>1, <3>2 DEF NestedInv
  <2> QED BY <1>6, <1>11, <2>6
<1> QED BY <1>13, <1>14

LEMMA AddNamespaceStep ==
  ASSUME WalkInv, ResultInv, AddNamespace
  PROVE  (UNCHANGED resolution \/ Use) /\ FoundInv' /\ NestedInv'
<1>1. /\ walk = "directiveLooked" /\ pc = "done" /\ walk' = "directives" /\ enclosed' = <<>>
      /\ foundTags' = foundTags \cup {IsSingleTag}
      /\ UNCHANGED <<lookup, pc, next, removed, unique2, flags, localExtern>>
  BY DEF AddNamespace, Idle, scanning, marks
<1>2. /\ found \in Lists /\ decls \in Lists /\ Represents(decls, found) /\ found # <<>> /\ decls # <<>>
      /\ HidersClose /\ Collected(found) /\ OutOfBlocks(found) /\ resolved /\ lookup \in Requests
      /\ kind \notin Subobjects \cup {"AmbiguousTagHiding"} /\ foundTags \subseteq BOOLEAN
      /\ foundTags # {} => enclosed # <<>>
  BY <1>1, ResultFacts DEF WalkInv, PlaceInv, FoundInv, NestedInv, Scanning, OpenScope
<1>3. foundTags' \subseteq BOOLEAN
  BY <1>1, <1>2 DEF IsSingleTag
<1>4. /\ \A f : Collected(f)' <=> Collected(f)
      /\ \A f : OutOfBlocks(f)' <=> OutOfBlocks(f)
  BY <1>1, SameNamespaces
<1>5. CASE enclosed = <<>>
  <2>1. UNCHANGED resolution
    BY <1>1, <1>5 DEF AddNamespace, resolution
  <2>2. UNCHANGED <<found, decls, kind, resolved>>
    BY <2>1 DEF resolution, result
  <2>3. PICK g : g = found
    OBVIOUS
  <2>4. Collected(g)' /\ OutOfBlocks(g)'
    BY <1>2, <1>4, <2>3
  <2>5. Collected(found)' /\ OutOfBlocks(found)'
    BY <2>2, <2>3, <2>4 DEF Collected, OutOfBlocks
  <2>6. FoundInv'
    BY <1>1, <2>1, <2>5, KeepWalk DEF WalkInv, Looks, OpenScope
  <2>7. foundTags' # BOOLEAN
    BY <1>1, <1>2, <1>5
  <2> QED BY <1>1, <1>2, <1>3, <2>1, <2>2, <2>5, <2>6, <2>7 DEF NestedInv
<1>6. CASE enclosed # <<>>
  <2> DEFINE f == enclosed[1].found
             s == enclosed[1].decls
  <2>1. /\ f \in Lists \ {<<>>} /\ s \in Lists \ {<<>>} /\ Represents(s, f)
        /\ CloseTo(s, f) /\ Collected(f) /\ OutOfBlocks(f)
    BY <1>6 DEF WalkInv, NestedInv
  <2>2. found' = f \o found /\ decls' = s \o decls /\ kind' = "Found" /\ resolved' = FALSE
    BY <1>6 DEF AddNamespace
  <2> HIDE DEF f, s
  <2>3. Apart(s, f, decls, found)
    BY <1>2, <2>1, NamespacesApart
  <2>4. Use /\ HidersClose'
    BY <1>1, <1>2, <2>1, <2>2, <2>3, JoinUse
  <2>5. Collected(f \o found) /\ OutOfBlocks(f \o found)
    BY <1>2, <2>1, CollectedBoth
  <2>6. PICK g : g = f \o found
    OBVIOUS
  <2>7. Collected(g)' /\ OutOfBlocks(g)'
    BY <1>4, <2>5, <2>6
  <2>8. Collected(found)' /\ OutOfBlocks(found)'
    BY <2>2, <2>6, <2>7 DEF Collected, OutOfBlocks
  <2>9. FoundInv'
    BY <1>1, <2>2, <2>4, <2>8 DEF FoundInv, Subobjects, OpenScope
  <2>10. Len(decls') > 1
    <3>1. Len(s) \in Nat /\ Len(s) # 0 /\ Len(decls) \in Nat /\ Len(decls) # 0
      BY <1>2, <2>1 DEF Lists
    <3>2. Len(decls') = Len(s) + Len(decls)
      BY <1>2, <2>1, <2>2, RangeOfBoth
    <3> QED BY <3>1, <3>2
  <2>11. decls' # <<>>
    BY <2>10
  <2>12. NestedInv'
    BY <1>1, <1>3, <2>2, <2>8, <2>10, <2>11 DEF NestedInv
  <2> QED BY <2>4, <2>9, <2>12
<1> QED BY <1>5, <1>6

LEMMA DirectivesEndFound ==
  ASSUME WalkInv, ResultInv, DirectivesEnd
  PROVE  Use /\ FoundInv'
<1>1. /\ walk = "directives" /\ pc = "done" /\ walk' = "returned"
      /\ UNCHANGED <<found, decls, resolved, lookup, next, removed, unique2, flags>>
      /\ \/ kind' = kind /\ pc' \in {"done", "begin"}
         \/ kind' = "AmbiguousTagHiding" /\ foundTags = BOOLEAN /\ pc' = pc
  BY DEF DirectivesEnd, Idle, TagsMixed, Answer, ResolveAndReturn, Resolve, scanning
<1>2. foundTags = BOOLEAN => ~resolved /\ Len(decls) > 1
  BY <1>1 DEF WalkInv, NestedInv
<1> QED BY <1>1, <1>2, ConcludeWalk DEF WalkInv

\* The other steps have nothing nested.
LEMMA NestedStep ==
  ASSUME WalkInv, Next, ~FindInNamespace, ~AddNamespace
  PROVE  NestedInv'
<1>1. lookup' = lookup
  BY LookupStays
<1>2. foundTags \subseteq BOOLEAN
  BY DEF WalkInv, NestedInv
<1>3. CASE walk' \notin {"directives", "directiveLooked"} /\ walk \notin {"directiveLooked"}
            /\ UNCHANGED nested /\ (walk' # "returned" => walk \notin {"directives", "returned"})
  <2>1. enclosed = <<>> /\ UNCHANGED <<enclosed, foundTags>>
    BY <1>3 DEF WalkInv, NestedInv, nested
  <2>2. walk' # "returned" => foundTags = {}
    BY <1>3 DEF WalkInv, NestedInv
  <2> QED BY <1>2, <1>3, <2>1, <2>2 DEF NestedInv
<1>4. CASE UNCHANGED <<walk, nested, localExtern, found>>
            /\ (UNCHANGED <<decls, resolved>> \/ walk # "directives")
  <2>1. /\ \A f : Collected(f)' <=> Collected(f)
        /\ \A f : OutOfBlocks(f)' <=> OutOfBlocks(f)
    BY <1>1, <1>4, SameNamespaces
  <2>2. UNCHANGED <<walk, enclosed, foundTags, found>>
    BY <1>4 DEF nested
  <2>3. PICK g : g = found
    OBVIOUS
  <2>4. OutOfBlocks(g)' <=> OutOfBlocks(g)
    BY <2>1
  <2>5. OutOfBlocks(found)' <=> OutOfBlocks(found)
    BY <2>2, <2>3, <2>4 DEF OutOfBlocks
  <2>6. enclosed # <<>> =>
          (LET f == enclosed[1].found
               s == enclosed[1].decls
           IN /\ walk = "directiveLooked" /\ Len(enclosed) = 1
              /\ f \in Lists \ {<<>>} /\ s \in Lists \ {<<>>} /\ Represents(s, f)
              /\ CloseTo(s, f) /\ Collected(f) /\ OutOfBlocks(f))'
    <3> SUFFICES ASSUME enclosed # <<>>
        PROVE (LET f == enclosed[1].found
                   s == enclosed[1].decls
               IN /\ walk = "directiveLooked" /\ Len(enclosed) = 1
                  /\ f \in Lists \ {<<>>} /\ s \in Lists \ {<<>>} /\ Represents(s, f)
                  /\ CloseTo(s, f) /\ Collected(f) /\ OutOfBlocks(f))'
      OBVIOUS
    <3>1. PICK f, s : f = enclosed[1].found /\ s = enclosed[1].decls
      OBVIOUS
    <3>2. /\ walk = "directiveLooked" /\ Len(enclosed) = 1
          /\ f \in Lists \ {<<>>} /\ s \in Lists \ {<<>>} /\ Represents(s, f)
          /\ CloseTo(s, f) /\ Collected(f) /\ OutOfBlocks(f)
      BY <3>1 DEF WalkInv, NestedInv
    <3>3. Represents(s, f)' /\ \A d : HiddenIn(d, f)' <=> HiddenIn(d, f)
      BY <1>1, <3>2, AllUnchanged
    <3>4. CloseTo(s, f)'
      BY <3>2, <3>3 DEF CloseTo, HiderNear, Near, Hider
    <3>5. Collected(f)' /\ OutOfBlocks(f)'
      BY <2>1, <3>2
    <3> QED BY <2>2, <3>1, <3>2, <3>3, <3>4, <3>5 DEF Represents, CloseTo, Collected, OutOfBlocks
  <2> QED BY <1>4, <2>2, <2>5, <2>6 DEF WalkInv, NestedInv
<1>5. CASE resolveKind /\ UNCHANGED walking
  <2>1. UNCHANGED <<found, walk, nested, localExtern>> /\ pc # "done"
    BY <1>5, ResolveKeeps DEF walking, marks
  <2>2. walk # "directives"
    BY <2>1 DEF WalkInv, FoundInv
  <2> QED BY <1>4, <2>1, <2>2
<1>6. CASE BeginVisits \/ Visit \/ Expand \/ PassNamespace
  <2>1. UNCHANGED <<found, decls, resolved, walk, nested, localExtern>>
    BY <1>6 DEF BeginVisits, Visit, Expand, PassNamespace, resolution, result, marks
  <2> QED BY <1>4, <2>1
<1>7. CASE EnterDirectives
  <2>1. /\ walk = "qualified" /\ ~lookup.redeclaration /\ UNCHANGED nested /\ walk' = "directives"
        /\ found' = found
    BY <1>7 DEF EnterDirectives, NotDirect, InQualified, resolution, result
  <2>2. found = <<>>
    BY <2>1, NothingBefore
  <2>3. enclosed' = <<>> /\ foundTags' = {}
    BY <2>1 DEF WalkInv, NestedInv, nested
  <2>4. OutOfBlocks(found)'
    BY <2>1, <2>2 DEF OutOfBlocks, Range
  <2>5. foundTags' # BOOLEAN
    BY <2>3
  <2> QED BY <2>1, <2>3, <2>4, <2>5 DEF NestedInv
<1>8. CASE DirectivesEnd
  <2>1. walk = "directives" /\ walk' = "returned" /\ UNCHANGED nested
    BY <1>8 DEF DirectivesEnd, Answer, ResolveAndReturn
  <2> QED BY <1>3, <2>1
<1>9. CASE Start \/ LookupFails \/ Lexical \/ LocalFound \/ LocalPassed \/ ContextsEnd \/ SkipContext
           \/ ClassContext \/ NamespaceContext \/ NamespaceLooked
  <2>1. UNCHANGED nested /\ walk' \notin {"directives", "directiveLooked"}
        /\ walk \notin {"directives", "directiveLooked", "returned"}
    BY <1>9 DEF Start, LookupFails, Lexical, LocalFound, LocalPassed, ContextsEnd, SkipContext,
                ClassContext, NamespaceContext, NamespaceLooked, InScope, InContext, Answer, Fails,
                ResolveAndReturn, Unqualified
  <2> QED BY <1>3, <2>1
<1>10. CASE ReachNamespaces \/ NamespaceScope \/ SkipTransparent \/ LookInNamespace \/ LeaveNamespace
            \/ NamespaceContextsEnd \/ NamespacesEnd
  <2>1. UNCHANGED nested /\ walk' \notin {"directives", "directiveLooked"}
        /\ walk \notin {"directives", "directiveLooked", "returned"}
    BY <1>10 DEF ReachNamespaces, NamespaceScope, SkipTransparent, LookInNamespace, LeaveNamespace,
                AfterNamespace, NamespaceContextsEnd, NamespacesEnd, InNamespace, Answer, Fails, ResolveAndReturn
  <2> QED BY <1>3, <2>1
<1>11. CASE QualifiedDirect \/ NoImplied \/ NoBases \/ FoundInBases \/ ClashInBases \/ SetAmbiguous
  <2>1. UNCHANGED nested /\ walk' \notin {"directives", "directiveLooked"}
        /\ walk \notin {"directives", "directiveLooked", "returned"}
    BY <1>11 DEF QualifiedDirect, NoImplied, NoBases, FoundInBases, ClashInBases, SetAmbiguous,
                InBaseClasses, NotDirect, InQualified, QualifiedFails, Answer
  <2> QED BY <1>3, <2>1
<1> QED BY <1>5, <1>6, <1>7, <1>8, <1>9, <1>10, <1>11 DEF Next

-----------------------------------------------------------------------------
(***************************************************************************)
(* What a walk passed over: declarations without linkage are left behind.  *)
(***************************************************************************)
Passed ==
  /\ found # <<>> => WithLinkage
  /\ \A d \in Range(found) : \E i \in DOMAIN P.scopes : NotFile(i) /\ d \in Range(P.scopes[i].decls)

LEMMA PassedKept ==
  ASSUME UNCHANGED <<lookup, found>>, Passed
  PROVE  Passed'
<1>1. P' = P /\ (WithLinkage' <=> WithLinkage) /\ \A i : NotFile(i)' <=> NotFile(i)
  BY SameProgram
<1> QED BY <1>1 DEF Passed

LEMMA PassedStep ==
  ASSUME WalkInv, ResultInv, Next
  PROVE  PassedInv'
<1>1. lookup' = lookup /\ (Unqualified' <=> Unqualified) /\ here \in BOOLEAN
  BY LookupStays, SameProgram DEF WalkInv, PlaceInv
<1>2. /\ walk \in {"start", "lexical"} \/ (walk = "scope" /\ scope = 1) => found = <<>>
      /\ walk = "qualified" /\ ~Unqualified => found = <<>>
      /\ walk \in {"scope", "context", "qualified", "namespaces", "failed"} => Passed
      /\ walk \in {"looked", "namespaceContext", "namespaceLooked"} /\ here = FALSE => Passed
  BY DEF WalkInv, PassedInv, Passed, NothingHere
<1>3. SUFFICES /\ walk' \in {"start", "lexical"} \/ (walk' = "scope" /\ scope' = 1) => found' = <<>>
               /\ walk' = "qualified" /\ ~Unqualified => found' = <<>>
               /\ walk' \in {"scope", "context", "qualified", "namespaces", "failed"} => Passed'
               /\ walk' \in {"looked", "namespaceContext", "namespaceLooked"} /\ here' = FALSE => Passed'
  BY <1>1 DEF PassedInv, Passed, NothingHere
<1>4. CASE UNCHANGED <<walk, scope, here, found>>
  BY <1>1, <1>2, <1>4, PassedKept
<1>5. CASE walk' \in {"returned", "clash", "directives", "directiveLooked"}
  BY <1>5
<1>6. CASE resolveKind /\ UNCHANGED walking
  BY <1>4, <1>6, ResolveKeeps DEF walking, position
<1>7. CASE BeginVisits \/ Visit \/ Expand \/ SkipTransparent \/ SkipContext
  BY <1>4, <1>7 DEF BeginVisits, Visit, Expand, SkipTransparent, SkipContext, position, resolution, result
<1>8. CASE LookupFails \/ LocalFound \/ QualifiedDirect \/ FoundInBases \/ ClashInBases \/ SetAmbiguous
           \/ EnterDirectives \/ FindInNamespace \/ AddNamespace \/ DirectivesEnd
  BY <1>5, <1>8 DEF LookupFails, LocalFound, QualifiedDirect, FoundInBases, ClashInBases, SetAmbiguous,
                    EnterDirectives, FindInNamespace, AddNamespace, DirectivesEnd, Answer, ResolveAndReturn
<1>9. CASE PassNamespace
  BY <1>4, <1>9 DEF PassNamespace, position, resolution, result
<1>10. CASE Start \/ Lexical
  <2>1. found = <<>> /\ (found' = <<>> \/ walk' = "returned") /\ scope' = scope
    BY <1>2, <1>10 DEF Start, Lexical, Answer, Fails, result, position
  <2>2. found' = <<>> => Passed'
    BY DEF Passed, Range
  <2>3. walk' \in {"returned", "scope", "lexical", "qualified", "failed"}
    BY <1>10 DEF Start, Lexical, Answer, Fails, Unqualified
  <2> QED BY <2>1, <2>2, <2>3
<1>11. CASE LocalPassed
  <2> DEFINE x == Taken(LocalDecls)
  <2>1. InScope /\ ~LocalStops /\ walk = "scope" /\ walk' \in {"failed", "context"} /\ scope' = scope
    BY <1>11 DEF LocalPassed, InScope, Fails
  <2>2. found' = found \o x /\ Passed
    BY <1>2, <1>11, <2>1, LocalStep
  <2>3. x \in Lists /\ Range(x) \subseteq Range(P.scopes[scope].decls) /\ found \in Lists
    BY <2>1, LocalFits, ResultFacts
  <2>4. scope \in DOMAIN P.scopes /\ NotFile(scope)
    BY <2>1, PlaceFacts DEF WalkInv, PlaceInv, InScope, NotFile
  <2>5. x # <<>> => WithLinkage
    <3>1. ASSUME x # <<>>, ~WithLinkage PROVE FALSE
      <4>1. x = LocalDecls /\ LocalDecls \in Lists
        <5>1. P.scopes[scope].decls \in Lists
          BY <2>4, ListFacts DEF WalkInv, PlaceInv
        <5> QED BY <3>1, <5>1, AcceptedFrom DEF Taken, LocalDecls
      <4>2. \E i : i \in DOMAIN LocalDecls
        <5>1. LocalDecls # <<>> /\ LocalDecls \in Lists
          BY <3>1, <4>1
        <5>2. Len(LocalDecls) # 0
          BY <5>1 DEF Lists
        <5>3. DOMAIN LocalDecls = 1 .. Len(LocalDecls) /\ Len(LocalDecls) \in Nat
          BY <5>1, RangeOf
        <5>4. 1 \in DOMAIN LocalDecls
          BY <5>2, <5>3
        <5> QED BY <5>4
      <4> QED BY <2>1, <3>1, <4>2 DEF LocalStops
    <3> QED BY <3>1
  <2> HIDE DEF x
  <2>6. found' # <<>> => WithLinkage
    <3>1. found = <<>> /\ x = <<>> => found \o x = <<>>
      OBVIOUS
    <3> QED BY <2>2, <2>5, <3>1 DEF Passed
  <2>7. Range(found') = Range(found) \cup Range(x)
    BY <2>2, <2>3, RangeOfBoth
  <2>8. P' = P /\ (WithLinkage' <=> WithLinkage) /\ \A i : NotFile(i)' <=> NotFile(i)
    BY <1>1, SameProgram
  <2>9. Passed'
    BY <2>2, <2>3, <2>4, <2>6, <2>7, <2>8 DEF Passed
  <2> QED BY <2>1, <2>9
<1>12. CASE ContextsEnd
  <2>1. walk = "context" /\ walk' = "scope" /\ scope' = scope + 1 /\ found' = found
    BY <1>12 DEF ContextsEnd, resolution, result
  <2>2. scope' # 1
    BY <2>1, PlaceFacts DEF WalkInv
  <2> QED BY <1>1, <1>2, <2>1, <2>2, PassedKept
<1>13. CASE ClassContext
  <2>1. walk = "context" /\ walk' = "qualified" /\ found' = found /\ Unqualified
    BY <1>13 DEF ClassContext, InContext, resolution, result, WalkInv, PlaceInv
  <2> QED BY <1>1, <1>2, <2>1, PassedKept
<1>14. CASE NamespaceContext \/ LookInNamespace
  <2> DEFINE x == NamespaceDecls(ctx)
  <2>1. /\ walk' \in {"looked", "namespaceLooked"} /\ found' = found \o x
        /\ walk = "context" \/ (walk = "namespaceContext" /\ (here => here'))
        /\ x # <<>> => here'
    BY <1>14, LookStep DEF NamespaceContext, LookInNamespace, InContext, InNamespace
  <2> HIDE DEF x
  <2>2. x = <<>> => found' = found
    <3>1. found \in Lists
      BY ResultFacts
    <3> QED BY <2>1, <3>1 DEF Lists
  <2> QED BY <1>1, <1>2, <2>1, <2>2, PassedKept
<1>15. CASE NamespaceScope
  <2> DEFINE x == LocalDecls
  <2>1. walk = "namespaces" /\ walk' = "namespaceContext" /\ found' = found \o x /\ (x # <<>> => here')
    BY <1>15, NamespaceScopeFound DEF NamespaceScope
  <2> HIDE DEF x
  <2>2. x = <<>> => found' = found
    <3>1. found \in Lists
      BY ResultFacts
    <3> QED BY <2>1, <3>1 DEF Lists
  <2> QED BY <1>1, <1>2, <2>1, <2>2, PassedKept
<1>16. CASE NamespaceLooked \/ LeaveNamespace
  <2>1. /\ walk \in {"looked", "namespaceLooked"} /\ UNCHANGED <<found, here>>
        /\ walk' = "returned" \/ (~here /\ walk' \in {"context", "failed", "namespaceContext"})
    BY <1>16 DEF NamespaceLooked, LeaveNamespace, AfterNamespace, ResolveAndReturn, Answer, Fails, result
  <2> QED BY <1>1, <1>2, <2>1, PassedKept
<1>17. CASE NamespaceContextsEnd
  <2>1. /\ walk = "namespaceContext" /\ walk' = "namespaces" /\ UNCHANGED found
        /\ ctx \in {NoContext, OuterContext(scope)} /\ scope <= Len(P.scopes)
    BY <1>17 DEF NamespaceContextsEnd, resolution, result, WalkInv, PlaceInv
  <2>2. here = FALSE
    <3>1. here => IsFileScope(scope) /\ ctx = P.scopes[scope].entity
      BY <2>1 DEF WalkInv, PlaceInv
    <3>2. scope \in 1 .. Len(P.scopes)
      BY <2>1, PlaceFacts DEF WalkInv
    <3> QED BY <1>1, <2>1, <3>1, <3>2, PlaceFacts DEF WalkInv
  <2> QED BY <1>1, <1>2, <2>1, <2>2, PassedKept
<1>18. CASE NamespacesEnd \/ ReachNamespaces
  <2>1. walk \in {"namespaces", "scope"} /\ walk' \in {"returned", "failed", "namespaces"} /\ UNCHANGED found
    BY <1>18 DEF NamespacesEnd, ReachNamespaces, Answer, Fails, resolution, result
  <2> QED BY <1>1, <1>2, <2>1, PassedKept
<1>19. CASE NoImplied \/ NoBases
  <2>1. /\ walk = "qualified" /\ UNCHANGED found
        /\ walk' = "returned" \/ walk' = "context"
    BY <1>19 DEF NoImplied, NoBases, InBaseClasses, NotDirect, InQualified, QualifiedFails, Answer, result
  <2> QED BY <1>1, <1>2, <2>1, PassedKept
<1> QED BY <1>6, <1>7, <1>8, <1>9, <1>10, <1>11, <1>12, <1>13, <1>14, <1>15, <1>16, <1>17, <1>18, <1>19 DEF Next

-----------------------------------------------------------------------------
(***************************************************************************)
(* The invariant, and what follows from it.                                *)
(***************************************************************************)
LEMMA WalkStep ==
  ASSUME WalkInv, ResultInv, Next
  PROVE  [resolveKind \/ Use]_resolution /\ WalkInv' /\ ResultInv'
<1>1. PlaceInv' /\ TablesInv' /\ PassedInv'
  BY PlaceStep, TablesStep, PassedStep DEF WalkInv
<1>2. (resolveKind \/ Use \/ UNCHANGED resolution) /\ FoundInv' /\ NestedInv'
  <2>1. CASE FindInNamespace
    BY <2>1, FindInNamespaceStep
  <2>2. CASE AddNamespace
    BY <2>2, AddNamespaceStep
  <2>3. CASE ~FindInNamespace /\ ~AddNamespace
    <3>1. NestedInv'
      BY <2>3, NestedStep
    <3>2. CASE resolveKind /\ UNCHANGED walking
      BY <3>1, <3>2, ResolveUse DEF WalkInv
    <3>3. CASE Start \/ LookupFails \/ Lexical \/ LocalFound \/ LocalPassed \/ NamespaceContext
               \/ LookInNamespace \/ NamespaceScope
      BY <3>1, <3>3, StartFound, LookupFailsFound, LexicalFound, LocalStep, LookStep, NamespaceScopeFound
    <3>4. CASE QualifiedDirect \/ NoImplied \/ NoBases \/ FoundInBases \/ ClashInBases \/ SetAmbiguous
               \/ NamespaceLooked \/ LeaveNamespace \/ DirectivesEnd
      BY <3>1, <3>4, QualifiedDirectFound, QualifiedFailsFound, BasesFound, SetAmbiguousFound, LookedFound,
         DirectivesEndFound
    <3>5. CASE ContextsEnd \/ SkipContext \/ ClassContext \/ SkipTransparent \/ NamespaceContextsEnd
               \/ NamespacesEnd \/ EnterDirectives \/ PassNamespace \/ ReachNamespaces
      BY <3>1, <3>5, MoveFound
    <3>6. CASE BeginVisits \/ Visit \/ Expand
      BY <3>1, <3>6, TableFound
    <3> QED BY <2>3, <3>2, <3>3, <3>4, <3>5, <3>6 DEF Next
  <2> QED BY <2>1, <2>2, <2>3
<1>3. [resolveKind \/ Use]_resolution
  BY <1>2
<1>4. ResultInv'
  BY <1>3, StepInv
<1> QED BY <1>1, <1>2, <1>3, <1>4 DEF WalkInv

LEMMA WalkStutter ==
  ASSUME WalkInv, UNCHANGED vars
  PROVE  WalkInv'
<1>1. UNCHANGED <<lookup, found, decls, kind, pc, resolved, next, removed, uniqueTypes, unique, walk, answer,
                  scope, ctx, here, localExtern, udirs, begun, visits, queue, visited, enclosed, foundTags>>
  BY DEF vars, resolution, result, unique2, walking, position, marks, directives, nested
<1>2. PlaceInv'
  BY <1>1 DEF WalkInv, PlaceInv, P, Contexts, NotFile, IsFileScope, Unqualified, IsClass
<1>3. TablesInv'
  BY <1>1 DEF WalkInv, TablesInv, Nominations, Visits, Files, Contexts, P
<1>4. /\ \A f : Collected(f)' <=> Collected(f)
      /\ \A f : OutOfBlocks(f)' <=> OutOfBlocks(f)
  BY <1>1, SameNamespaces
<1>5. PICK g : g = found
  OBVIOUS
<1>6. (Collected(g)' <=> Collected(g)) /\ (OutOfBlocks(g)' <=> OutOfBlocks(g))
  BY <1>4
<1>7. (Collected(found)' <=> Collected(found)) /\ (OutOfBlocks(found)' <=> OutOfBlocks(found))
  BY <1>1, <1>5, <1>6 DEF Collected, OutOfBlocks
<1>8. FoundInv'
  <2>1. (OpenScope' <=> OpenScope) /\ LocalDecls' = LocalDecls
    BY <1>1, SameLocal DEF OpenScope
  <2> QED BY <1>1, <1>7, <2>1, SameClose DEF WalkInv, FoundInv, Scanning
<1>9. PassedInv'
  BY <1>1 DEF WalkInv, PassedInv, NothingHere, P, NotFile, IsFileScope, Unqualified, WithLinkage
<1>10. NestedInv'
  <2>1. CASE enclosed = <<>>
    BY <1>1, <1>7, <2>1 DEF WalkInv, NestedInv
  <2>2. CASE enclosed # <<>>
    <3>1. PICK f, s : f = enclosed[1].found /\ s = enclosed[1].decls
      OBVIOUS
    <3>2. /\ walk = "directiveLooked" /\ Len(enclosed) = 1
          /\ f \in Lists \ {<<>>} /\ s \in Lists \ {<<>>} /\ Represents(s, f)
          /\ CloseTo(s, f) /\ Collected(f) /\ OutOfBlocks(f)
      BY <2>2, <3>1 DEF WalkInv, NestedInv
    <3>3. Represents(s, f)' /\ \A d : HiddenIn(d, f)' <=> HiddenIn(d, f)
      BY <1>1, <3>2, AllUnchanged
    <3>4. CloseTo(s, f)'
      BY <3>2, <3>3 DEF CloseTo, HiderNear, Near, Hider
    <3>5. Collected(f)' /\ OutOfBlocks(f)'
      BY <1>4, <3>2
    <3>6. (LET a == enclosed[1].found
               b == enclosed[1].decls
           IN /\ a \in Lists \ {<<>>} /\ b \in Lists \ {<<>>} /\ Represents(b, a)
              /\ CloseTo(b, a) /\ Collected(a) /\ OutOfBlocks(a))'
      BY <1>1, <3>1, <3>2, <3>3, <3>4, <3>5 DEF Represents, CloseTo, Collected, OutOfBlocks
    <3> QED BY <1>1, <1>7, <3>2, <3>6 DEF WalkInv, NestedInv
  <2> QED BY <2>1, <2>2
<1> QED BY <1>2, <1>3, <1>8, <1>9, <1>10 DEF WalkInv

LEMMA WalkInit ==
  ASSUME Init
  PROVE  WalkInv /\ ResultInv
<1>1. ResultInv
  BY InitInv DEF Init
<1>2. lookup \in Requests /\ found = <<>> /\ decls = <<>> /\ kind = "NotFound" /\ pc = "done"
  BY DEF Init, Empty
<1>3. Len(P.scopes) \in Nat \ {0}
  BY <1>2, ScopeFacts
<1>4. PlaceInv
  <2>1. scope = 1 /\ ctx = NoContext /\ walk = "start" /\ here = FALSE /\ localExtern = FALSE
    BY DEF Init
  <2>2. scope \in 1 .. Len(P.scopes) + 1 /\ scope <= Len(P.scopes) /\ \A j \in 1 .. scope - 1 : NotFile(j)
    BY <1>3, <2>1
  <2> QED BY <1>2, <2>1, <2>2 DEF PlaceInv
<1>5. TablesInv
  <2>1. udirs = <<>> /\ begun = FALSE /\ visits = <<>> /\ queue = <<>> /\ visited = {}
    BY DEF Init
  <2>2. <<>> \in Seq(Nominations) /\ <<>> \in Seq(Visits) /\ <<>> \in Seq(visited)
    OBVIOUS
  <2> QED BY <2>1, <2>2 DEF TablesInv
<1>6. Collected(found) /\ OutOfBlocks(found) /\ HidersClose
  BY <1>2 DEF Collected, OutOfBlocks, HidersClose, Range
<1>7. FoundInv
  BY <1>2, <1>6 DEF Init, FoundInv, Subobjects, OpenScope
<1>8. PassedInv
  BY <1>2 DEF Init, PassedInv, Range
<1>9. NestedInv
  BY <1>6 DEF Init, NestedInv
<1> QED BY <1>1, <1>4, <1>5, <1>7, <1>8, <1>9 DEF WalkInv

\* Every walk keeps the invariant.
THEOREM WalkInvAlways == Spec => [](WalkInv /\ ResultInv)
<1>1. Init => WalkInv /\ ResultInv
  BY WalkInit
<1>2. (WalkInv /\ ResultInv) /\ [Next]_vars => (WalkInv /\ ResultInv)'
  <2>1. CASE WalkInv /\ ResultInv /\ Next
    BY <2>1, WalkStep
  <2>2. CASE WalkInv /\ ResultInv /\ UNCHANGED vars
    <3>1. UNCHANGED resolution
      BY <2>2 DEF vars
    <3> QED BY <2>2, <3>1, WalkStutter, NoStep
  <2> QED BY <2>1, <2>2
<1> QED BY <1>1, <1>2, PTL DEF Spec

\* Every step of the walk leaves its result alone, resolves it, or uses it as ResultSpec allows
\* (CppLookupName, CppNamespaceLookup, LookupQualifiedName, LookupDirect with their calls of
\* addDecl, addAllDecls, clear, setAmbiguous and resolveKind): the walk implements the abstract
\* use of a result, for every program within the assumptions (TagsAssumption among them), every
\* name and every kind of lookup.
THEOREM WalkImplementsResult == Spec => ResultSpec
<1>1. Init => Empty
  BY DEF Init
<1>2. (WalkInv /\ ResultInv) /\ [Next]_vars => [resolveKind \/ Use]_resolution
  <2>1. CASE WalkInv /\ ResultInv /\ Next
    BY <2>1, WalkStep
  <2>2. CASE UNCHANGED vars
    BY <2>2 DEF vars
  <2> QED BY <2>1, <2>2
<1> QED BY <1>1, <1>2, WalkInvAlways, PTL DEF Spec, ResultSpec

-----------------------------------------------------------------------------
(***************************************************************************)
(* Types.                                                                  *)
(***************************************************************************)
ScanTypes ==
  /\ Scanning => /\ next \in 1 .. Len(found) + 1
                 /\ removed \cup uniqueTypes \cup unique \subseteq 1 .. Len(found)
  /\ seen \subseteq Kinds /\ ambiguous \in BOOLEAN /\ placeholder \in BOOLEAN
MarksTypes == namingClass \in Contexts \cup {NoContext} /\ answer \in BOOLEAN /\ shadowed \in BOOLEAN

LEMMA ScanTypesStep ==
  ASSUME ResultInv, ScanTypes, [resolveKind \/ Use]_resolution
  PROVE  ScanTypes'
<1>1. /\ Len(decls) \in Nat /\ DOMAIN decls = 1 .. Len(decls) /\ Len(found) \in Nat
      /\ Len(decls) <= Len(found)
  <2>1. found \in Lists /\ decls \in Lists /\ Len(decls) <= Len(found)
    BY DEF ResultInv, TypeInv
  <2> QED BY <2>1 DEF Lists
<1>2. CASE Looking /\ found' = found /\ next' = next + 1
           /\ (removed' \cup uniqueTypes' \cup unique') \subseteq (removed \cup uniqueTypes \cup unique \cup {next})
           /\ seen' \subseteq Kinds /\ ambiguous' \in BOOLEAN /\ placeholder' \in BOOLEAN
  <2>1. Scanning /\ next \in 1 .. Len(found)
    BY <1>1, <1>2 DEF Looking, Scanning
  <2> QED BY <1>1, <1>2, <2>1 DEF ScanTypes
<1>3. CASE FastCase \/ Decide
  <2>1. pc' = "done" /\ UNCHANGED <<seen, ambiguous, placeholder>>
    BY <1>3 DEF FastCase, Decide, Return, flags
  <2> QED BY <2>1 DEF ScanTypes, Scanning
<1>4. CASE BeginScan
  <2>1. /\ found' = found /\ next' = 1 /\ removed' = {} /\ uniqueTypes' = {} /\ unique' = {}
        /\ seen' = {} /\ ambiguous' = FALSE /\ placeholder' = FALSE
    BY <1>4 DEF BeginScan, result
  <2>2. 1 \in 1 .. Len(found') + 1
    BY <1>1, <2>1
  <2>3. removed' \cup uniqueTypes' \cup unique' \subseteq 1 .. Len(found')
    BY <2>1
  <2> QED BY <2>1, <2>2, <2>3 DEF ScanTypes
<1>5. CASE RemoveCurrent \/ Merge
  <2>1. /\ Looking /\ found' = found /\ next' = next + 1 /\ removed' = removed \cup {next}
        /\ UNCHANGED <<uniqueTypes, unique, seen, ambiguous, placeholder>>
    BY <1>5 DEF RemoveCurrent, Merge, result, unique2, flags
  <2> QED BY <1>2, <2>1 DEF ScanTypes
<1>6. CASE Classify
  <2>1. Looking /\ found' = found /\ next' = next + 1
    BY <1>6 DEF Classify, result
  <2>2. Current.kind \in Kinds
    <3>1. decls \in Lists /\ next \in DOMAIN decls
      BY <2>1 DEF ResultInv, TypeInv, Looking
    <3>2. Current \in Decls
      BY <3>1, FoundIn DEF Current
    <3> QED BY <3>2, DeclFacts
  <2>3. /\ removed' \subseteq removed \cup {next} /\ unique' = unique \cup {next}
        /\ uniqueTypes' \subseteq uniqueTypes \cup {next}
    BY <1>6 DEF Classify
  <2>4. seen' \subseteq Kinds /\ ambiguous' \in BOOLEAN /\ placeholder' \in BOOLEAN
    <3>1. CASE IsEquivalent
      BY <1>6, <3>1 DEF Classify, flags, ScanTypes
    <3>2. CASE ~IsEquivalent
      <4>1. /\ seen' = (IF IsNonFunction THEN seen ELSE seen \cup {Current.kind})
            /\ ambiguous' = (ambiguous \/ (Current.kind = "tag" /\ "tag" \in seen)
                                       \/ (IsNonFunction /\ nonFunction # {}))
            /\ placeholder' =
                 (placeholder \/ (IsNonFunction /\ nonFunction # {} /\ Current.placeholder))
        BY <1>6, <3>2 DEF Classify
      <4> QED BY <2>2, <4>1 DEF ScanTypes
    <3> QED BY <3>1, <3>2
  <2> QED BY <1>2, <2>1, <2>3, <2>4
<1>7. CASE EndScan \/ Remove
  <2>1. /\ Scanning /\ found' = found /\ next' = next /\ removed' \subseteq removed
        /\ UNCHANGED <<uniqueTypes, unique, seen, ambiguous, placeholder>>
    BY <1>7 DEF EndScan, Remove, result, unique2, flags, Scanning
  <2> QED BY <2>1 DEF ScanTypes
<1>8. CASE Use
  <2>1. ~Scanning' /\ UNCHANGED <<seen, ambiguous, placeholder>>
    BY <1>8 DEF Use, Scanning, flags
  <2> QED BY <2>1 DEF ScanTypes
<1>9. CASE UNCHANGED resolution
  BY <1>9 DEF resolution, result, unique2, flags, ScanTypes, Scanning
<1> QED BY <1>3, <1>4, <1>5, <1>6, <1>7, <1>8, <1>9 DEF resolveKind

LEMMA MarksTypesStep ==
  ASSUME PlaceInv, MarksTypes, [Next]_vars
  PROVE  MarksTypes'
<1>1. Contexts' = Contexts
  <2>1. lookup' = lookup
    BY LookupStays DEF vars, resolution
  <2> QED BY <2>1, SameProgram
<1>2. SUFFICES namingClass' \in Contexts \cup {NoContext} /\ answer' \in BOOLEAN /\ shadowed' \in BOOLEAN
  BY <1>1 DEF MarksTypes
<1>3. namingClass \in Contexts \cup {NoContext} /\ answer \in BOOLEAN /\ shadowed \in BOOLEAN
      /\ ctx \in Contexts \cup {NoContext}
  BY DEF MarksTypes, PlaceInv
<1>4. CASE UNCHANGED vars \/ (resolveKind /\ UNCHANGED walking)
  BY <1>3, <1>4 DEF vars, walking, marks
<1>5. CASE Start \/ LookupFails \/ ContextsEnd \/ SkipContext \/ ClassContext \/ NamespaceContext
           \/ NamespaceLooked \/ BeginVisits \/ Visit \/ Expand \/ SkipTransparent
  BY <1>3, <1>5 DEF Start, LookupFails, ContextsEnd, SkipContext, ClassContext, NamespaceContext,
                    NamespaceLooked, BeginVisits, Visit, Expand, SkipTransparent, Answer, ResolveAndReturn,
                    marks, Unqualified
<1>6. CASE ReachNamespaces \/ NamespaceScope \/ LookInNamespace \/ LeaveNamespace \/ NamespaceContextsEnd
           \/ NamespacesEnd \/ NoImplied \/ NoBases \/ SetAmbiguous
  BY <1>3, <1>6 DEF ReachNamespaces, NamespaceScope, LookInNamespace, LeaveNamespace, AfterNamespace,
                    NamespaceContextsEnd, NamespacesEnd, NoImplied, NoBases, SetAmbiguous, QualifiedFails,
                    Answer, Fails, ResolveAndReturn, marks
<1>7. CASE EnterDirectives \/ PassNamespace \/ FindInNamespace \/ AddNamespace \/ DirectivesEnd
  BY <1>3, <1>7 DEF EnterDirectives, PassNamespace, FindInNamespace, AddNamespace, DirectivesEnd, Answer,
                    ResolveAndReturn, marks
<1>8. CASE QualifiedDirect \/ FoundInBases \/ ClashInBases
  BY <1>3, <1>8 DEF QualifiedDirect, FoundInBases, ClashInBases, Answer
<1>9. CASE LocalFound \/ LocalPassed
  <2>1. P.scopes[scope].entity \in Contexts \cup {NoContext}
    <3>1. walk = "scope"
      BY <1>9 DEF LocalFound, LocalPassed, InScope
    <3>2. Len(P.scopes) \in Nat /\ scope \in 1 .. Len(P.scopes)
      BY <3>1, PlaceFacts DEF PlaceInv
    <3> QED BY <3>2, PlaceFacts
  <2>2. /\ shadowed' = (shadowed \/ Taken(LocalDecls) # LocalDecls)
        /\ answer' = TRUE \/ answer' = answer
        /\ namingClass' = P.scopes[scope].entity \/ namingClass' = namingClass
    BY <1>9 DEF LocalFound, LocalPassed, Answer, Fails
  <2> QED BY <1>3, <2>1, <2>2
<1>10. CASE Lexical
  <2>1. shadowed' \in BOOLEAN /\ namingClass' = namingClass
    BY <1>10 DEF Lexical
  <2>2. answer' = TRUE \/ answer' = answer
    BY <1>10 DEF Lexical, Answer, Fails
  <2> QED BY <1>3, <2>1, <2>2
<1> QED BY <1>4, <1>5, <1>6, <1>7, <1>8, <1>9, <1>10 DEF Next

LEMMA WalkTypes ==
  ASSUME WalkInv, ResultInv, ScanTypes, MarksTypes
  PROVE  TypeOK
<1>1. ResultOK
  <2>1. found \in Seq(DOMAIN Declared) /\ decls \in Seq(DOMAIN Declared)
        /\ pc \in {"begin", "scan", "remove", "done"} /\ resolved \in BOOLEAN
    BY DEF ResultInv, TypeInv, Lists
  <2>2. kind \in {"NotFound", "NotFoundInCurrentInstantiation", "Found", "FoundOverloaded",
                  "FoundUnresolvedValue"} \cup Ambiguities
    BY DEF ResultInv, KindInv, Failures
  <2> QED BY <2>1, <2>2 DEF ResultOK, ScanTypes, Scanning
<1>2. /\ scope \in 1 .. Len(P.scopes) + 1 /\ {ctx, namingClass} \subseteq Contexts \cup {NoContext}
      /\ {answer, here, shadowed, localExtern, begun} \subseteq BOOLEAN
      /\ walk \in {"start", "scope", "context", "looked", "namespaces", "namespaceContext",
                   "namespaceLooked", "qualified", "clash", "directives", "directiveLooked",
                   "lexical", "failed", "returned"}
  BY DEF WalkInv, PlaceInv, TablesInv, MarksTypes
<1>3. \A k \in DOMAIN udirs : IsFile(udirs[k].nominated) /\ IsFile(udirs[k].ancestor)
  <2> DEFINE T == Nominations
  <2>1. udirs \in Seq(T)
    BY DEF WalkInv, TablesInv
  <2>2. \A k \in DOMAIN udirs : udirs[k] \in T
    <3> HIDE DEF T
    <3> QED BY <2>1
  <2>3. \A n \in T : n.nominated \in Files /\ n.ancestor \in Files
    BY DEF Nominations
  <2>4. \A c \in Files : IsFile(c)
    BY DEF Files, FilesOf, IsFile
  <2> HIDE DEF T
  <2> QED BY <2>2, <2>3, <2>4
<1>4. Range(queue) \subseteq visited /\ visited \subseteq Contexts
  BY DEF WalkInv, TablesInv, Range
<1>5. Len(enclosed) <= 1 /\ foundTags \subseteq BOOLEAN
  <2>1. enclosed = <<>> => Len(enclosed) = 0
    OBVIOUS
  <2>2. enclosed # <<>> => Len(enclosed) = 1
    BY DEF WalkInv, NestedInv
  <2>3. foundTags \subseteq BOOLEAN
    BY DEF WalkInv, NestedInv
  <2>4. Len(enclosed) = 0 \/ Len(enclosed) = 1
    BY <2>1, <2>2
  <2> QED BY <2>3, <2>4
<1> QED BY <1>1, <1>2, <1>3, <1>4, <1>5 DEF TypeOK

\* The state of a walk and of the scan of its result stay well-typed: the scope is one of the
\* program or just past the last, what is looked at is a context of the program, the pairs
\* of the using-directives name file contexts, and at most one result is put aside while a
\* nominated namespace is looked into (CppLookupName, LookupQualifiedNameInUsingDirectives).
THEOREM WalkTypeOK == Spec => []TypeOK
<1>1. Init => ScanTypes /\ MarksTypes
  BY DEF Init, Empty, ScanTypes, MarksTypes, Scanning
<1>2. (WalkInv /\ ResultInv) /\ [Next]_vars => [resolveKind \/ Use]_resolution
  <2>1. CASE WalkInv /\ ResultInv /\ Next
    BY <2>1, WalkStep
  <2>2. CASE UNCHANGED vars
    BY <2>2 DEF vars
  <2> QED BY <2>1, <2>2
<1>3. (WalkInv /\ ResultInv) /\ (ScanTypes /\ MarksTypes) /\ [Next]_vars => (ScanTypes /\ MarksTypes)'
  BY <1>2, ScanTypesStep, MarksTypesStep DEF WalkInv
<1>4. WalkInv /\ ResultInv /\ ScanTypes /\ MarksTypes => TypeOK
  BY WalkTypes
<1> QED BY <1>1, <1>3, <1>4, WalkInvAlways, PTL DEF Spec

\* What a walk resolves keeps one declaration for each entity that is not hidden, and none
\* twice (resolveKind), whatever scopes, namespaces and bases the walk collected it from: the
\* walk puts every tag near what hides it, which the removal of hidden tags relies on.
THEOREM WalkEntitiesKept == Spec => []EntitiesKept
BY WalkImplementsResult, EveryEntityKept, PTL

\* A walk that hides tags calls a name ambiguous exactly when two entities that are not hidden
\* do not overload, and the kind of its result fits what is left (resolveKind), wherever the
\* declarations were found.
THEOREM WalkAmbiguityExact == Spec => []AmbiguityExact
BY WalkImplementsResult, AmbiguityExactAlways, PTL

\* The walk resolves some results twice (CppNamespaceLookup and CppLookupName's caller,
\* LookupQualifiedNameInUsingDirectives); the second time keeps the kind when tags are hidden.
THEOREM WalkResolvedStable == Spec => ResolvedStable
BY WalkImplementsResult, ResolvedAgainSame, PTL
=============================================================================
