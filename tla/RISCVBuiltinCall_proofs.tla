------------------------ MODULE RISCVBuiltinCall_proofs ------------------------
(***************************************************************************)
(* What holds of the features of a function, of its attributes and of the  *)
(* calls it makes, whatever the extensions, the command lines, the         *)
(* functions and the calls are.                                            *)
(***************************************************************************)
EXTENDS RISCVBuiltinCall, FiniteSetTheorems, SequenceTheorems, TLAPS

-----------------------------------------------------------------------------
(***************************************************************************)
(* Induction, and folds over a sequence.                                   *)
(***************************************************************************)
LEMMA LeastElement ==
  ASSUME NEW T \in SUBSET Nat, T # {}
  PROVE  \E n \in T : \A m \in T : n <= m
<1> DEFINE R == OpToRel(<, Nat)
<1>1. IsWellFoundedOn(R, Nat)
  BY NatLessThanWellFounded
<1>2. \A m, n \in Nat : <<m, n>> \in R <=> m < n
  BY DEF OpToRel
<1> HIDE DEF R
<1>3. PICK n \in T : \A m \in T : ~(<<m, n>> \in R)
  BY <1>1, WFMin
<1>4. ASSUME NEW m \in T PROVE n <= m
  <2>1. ~(m < n)
    BY <1>2, <1>3
  <2> QED BY <2>1
<1> QED BY <1>4

LEMMA InductiveSet ==
  ASSUME NEW Q, 0 \in Q, \A n \in Nat : n \in Q => n + 1 \in Q
  PROVE  Nat \subseteq Q
<1> SUFFICES ASSUME Nat \ Q # {} PROVE FALSE
  OBVIOUS
<1>1. PICK n \in Nat \ Q : \A m \in Nat \ Q : n <= m
  BY LeastElement
<1>2. n # 0 /\ n - 1 \in Nat
  OBVIOUS
<1>3. n - 1 + 1 \in Q
  BY <1>1, <1>2
<1> QED BY <1>3

\* A fold over a finite set: step[<<x, v>>] takes the next element into account.
Foldable(S, D, base, choose, step) ==
  /\ IsFiniteSet(S) /\ base \in D
  /\ \A s \in SUBSET S : s # {} => choose[s] \in s
  /\ \A x \in S, v \in D : step[<<x, v>>] \in D
IsFold(g, S, D, base, choose, step) ==
  /\ g \in [SUBSET S -> D]
  /\ \A s \in SUBSET S :
       g[s] = IF s = {} THEN base ELSE step[<<choose[s], g[s \ {choose[s]}]>>]

LEMMA FoldDefined ==
  ASSUME NEW S, NEW D, NEW base, NEW choose, NEW step, Foldable(S, D, base, choose, step)
  PROVE  \E g : IsFold(g, S, D, base, choose, step)
<1> USE DEF Foldable
<1> DEFINE Step(g, s) == IF s = {} THEN base ELSE step[<<choose[s], g[s \ {choose[s]}]>>]
           UpTo(n, g) == \A s \in SUBSET S : Cardinality(s) <= n => g[s] = Step(g, s)
           Q == {n \in Nat : \E g \in [SUBSET S -> D] : UpTo(n, g)}
<1>a. ASSUME NEW g \in [SUBSET S -> D], NEW s \in SUBSET S PROVE Step(g, s) \in D
  <2>1. CASE s = {}
    BY <2>1
  <2>2. CASE s # {}
    <3>1. choose[s] \in S /\ s \ {choose[s]} \in SUBSET S
      BY <2>2
    <3>2. g[s \ {choose[s]}] \in D
      BY <3>1
    <3> QED BY <2>2, <3>1, <3>2
  <2> QED BY <2>1, <2>2
<1>b. \A s \in SUBSET S : /\ IsFiniteSet(s) /\ Cardinality(s) \in Nat
                          /\ Cardinality(s) <= Cardinality(S)
                          /\ Cardinality(s) = 0 => s = {}
                          /\ s # {} => Cardinality(s \ {choose[s]}) = Cardinality(s) - 1
  <2> TAKE s \in SUBSET S
  <2>1. IsFiniteSet(s) /\ Cardinality(s) <= Cardinality(S)
    BY FS_Subset
  <2>2. Cardinality(s) \in Nat /\ (Cardinality(s) = 0 => s = {})
    BY <2>1, FS_CardinalityType, FS_EmptySet
  <2>3. s # {} => Cardinality(s \ {choose[s]}) = Cardinality(s) - 1
    BY <2>1, FS_RemoveElement
  <2> QED BY <2>1, <2>2, <2>3
<1>1. 0 \in Q
  <2> DEFINE g == [s \in SUBSET S |-> base]
  <2>1. g \in [SUBSET S -> D]
    OBVIOUS
  <2>2. ASSUME NEW s \in SUBSET S, Cardinality(s) <= 0 PROVE g[s] = Step(g, s)
    <3>1. Cardinality(s) \in Nat /\ (Cardinality(s) = 0 => s = {})
      BY <1>b
    <3>2. Cardinality(s) <= 0
      BY <2>2
    <3>3. s = {}
      BY <3>1, <3>2
    <3> QED BY <3>3
  <2>3. UpTo(0, g)
    <3> HIDE DEF g, Step
    <3> QED BY <2>2
  <2>4. \E f \in [SUBSET S -> D] : UpTo(0, f)
    <3> HIDE DEF g, UpTo
    <3> QED BY <2>1, <2>3
  <2> HIDE DEF UpTo
  <2> QED BY <2>4
<1>2. ASSUME NEW n \in Nat, n \in Q PROVE n + 1 \in Q
  <2>1. PICK g \in [SUBSET S -> D] : UpTo(n, g)
    BY <1>2
  <2> DEFINE h == [s \in SUBSET S |-> IF Cardinality(s) <= n THEN g[s] ELSE Step(g, s)]
  <2>2. h \in [SUBSET S -> D]
    <3> HIDE DEF Step
    <3> QED BY <1>a
  <2>3. ASSUME NEW s \in SUBSET S, Cardinality(s) <= n + 1 PROVE h[s] = Step(h, s)
    <3>1. h[s] = Step(g, s)
      <4> HIDE DEF Step
      <4> QED BY <2>1
    <3>2. CASE s = {}
      BY <3>1, <3>2
    <3>3. CASE s # {}
      <4> DEFINE t == s \ {choose[s]}
      <4>1. t \in SUBSET S /\ Cardinality(t) <= n
        <5>1. Cardinality(s) \in Nat /\ Cardinality(t) = Cardinality(s) - 1
          BY <1>b, <3>3
        <5>2. Cardinality(s) <= n + 1
          BY <2>3
        <5>3. Cardinality(t) <= n
          <6> HIDE DEF t
          <6> QED BY <5>1, <5>2
        <5>4. t \in SUBSET S
          OBVIOUS
        <5> QED BY <5>3, <5>4
      <4>2. h[t] = g[t]
        <5> HIDE DEF t, Step
        <5> QED BY <4>1
      <4> HIDE DEF h
      <4> QED BY <3>1, <3>3, <4>2
    <3> QED BY <3>2, <3>3
  <2>4. UpTo(n + 1, h)
    <3> HIDE DEF h, Step
    <3> QED BY <2>3
  <2>5. \E f \in [SUBSET S -> D] : UpTo(n + 1, f)
    <3> HIDE DEF h, UpTo
    <3> QED BY <2>2, <2>4
  <2>6. n + 1 \in Nat
    OBVIOUS
  <2> HIDE DEF UpTo
  <2> QED BY <2>5, <2>6
<1>3. Cardinality(S) \in Q
  <2>1. Cardinality(S) \in Nat
    BY FS_CardinalityType
  <2> HIDE DEF Q
  <2> QED BY <1>1, <1>2, <2>1, InductiveSet
<1>4. PICK g \in [SUBSET S -> D] : UpTo(Cardinality(S), g)
  BY <1>3
<1>5. \A s \in SUBSET S : g[s] = Step(g, s)
  <2> HIDE DEF Step
  <2> QED BY <1>4, <1>b
<1> QED BY <1>5 DEF IsFold

\* The folds of SequencesExt choose the last index.
LEMMA LastIndex ==
  ASSUME NEW k \in Nat, k >= 1
  PROVE  Max(1 .. k) = k /\ (1 .. k) \ {k} = 1 .. k - 1
<1>1. k \in 1 .. k /\ \A y \in 1 .. k : k >= y
  OBVIOUS
<1>2. \A x \in 1 .. k : (\A y \in 1 .. k : x >= y) => x = k
  OBVIOUS
<1>3. Max(1 .. k) = k
  BY <1>1, <1>2 DEF Max
<1>4. (1 .. k) \ {k} = 1 .. k - 1
  OBVIOUS
<1> QED BY <1>3, <1>4

LEMMA HasMax ==
  ASSUME NEW n \in Nat, NEW s \in SUBSET (1 .. n), s # {}
  PROVE  Max(s) \in s
<1> DEFINE T == {n - x : x \in s}
<1>1. \A x \in s : n - x \in Nat
  OBVIOUS
<1>1a. T \subseteq Nat /\ T # {}
  BY <1>1
<1>2. PICK d \in T : \A m \in T : d <= m
  BY <1>1a, LeastElement
<1>3. PICK x \in s : d = n - x
  OBVIOUS
<1>4. \A y \in s : x >= y
  <2> TAKE y \in s
  <2>1. d <= n - y
    BY <1>2
  <2> QED BY <1>3, <2>1
<1>5. \E z \in s : \A y \in s : z >= y
  BY <1>4
<1> QED BY <1>5 DEF Max

\* A fold over the sequence of n elements: step[<<k, v>>] takes the k-th into account.
FoldableTo(n, D, base, step) ==
  n \in Nat /\ base \in D /\ \A x \in 1 .. n, v \in D : step[<<x, v>>] \in D
IsFoldTo(g, n, D, base, step) ==
  /\ g \in [SUBSET (1 .. n) -> D]
  /\ \A s \in SUBSET (1 .. n) :
       g[s] = IF s = {} THEN base ELSE step[<<Max(s), g[s \ {Max(s)}]>>]

LEMMA SequenceFold ==
  ASSUME NEW n, NEW D, NEW base, NEW step, FoldableTo(n, D, base, step)
  PROVE  \E g : IsFoldTo(g, n, D, base, step)
<1> USE DEF FoldableTo
<1> DEFINE S == 1 .. n
           choose == [s \in SUBSET S |-> Max(s)]
<1>1. IsFiniteSet(S)
  BY FS_Interval
<1>2. \A s \in SUBSET S : s # {} => choose[s] \in s
  BY HasMax
<1>3. PICK g : IsFold(g, S, D, base, choose, step)
  <2> HIDE DEF choose
  <2>1. \A x \in S, v \in D : step[<<x, v>>] \in D
    OBVIOUS
  <2> HIDE DEF S
  <2>2. Foldable(S, D, base, choose, step)
    BY <1>1, <1>2, <2>1 DEF Foldable
  <2> QED BY <2>2, FoldDefined
<1>4. \A s \in SUBSET S : choose[s] = Max(s)
  OBVIOUS
<1> HIDE DEF choose, S
<1>5. /\ g \in [SUBSET S -> D]
      /\ \A s \in SUBSET S : g[s] = IF s = {} THEN base ELSE step[<<Max(s), g[s \ {Max(s)}]>>]
  BY <1>3, <1>4 DEF IsFold
<1> QED BY <1>5 DEF S, IsFoldTo

\* h[k] is the fold over the first k elements.
IsPrefixFold(h, n, D, base, step) ==
  /\ h \in [0 .. n -> D] /\ h[0] = base
  /\ \A k \in 1 .. n : h[k] = step[<<k, h[k - 1]>>]
Follows(it, n, D, base, step) ==
  \A s \in SUBSET (1 .. n) :
    IF s = {} THEN it[s] = base
    ELSE it[s \ {Max(s)}] \in D => it[s] = step[<<Max(s), it[s \ {Max(s)}]>>]

LEMMA PrefixFold ==
  ASSUME NEW n, NEW D, NEW base, NEW step, FoldableTo(n, D, base, step),
         NEW it, Follows(it, n, D, base, step)
  PROVE  \E h : IsPrefixFold(h, n, D, base, step) /\ h[n] = it[1 .. n]
<1> DEFINE h == [k \in 0 .. n |-> it[1 .. k]]
<1>1. n \in Nat /\ base \in D /\ n \in 0 .. n
  BY DEF FoldableTo
<1>2. h[0] = base
  <2>1. 1 .. 0 = {} /\ {} \in SUBSET (1 .. n) /\ 0 \in 0 .. n
    BY <1>1
  <2>2. it[{}] = base
    BY <2>1 DEF Follows
  <2> QED BY <2>1, <2>2
<1>3. ASSUME NEW k \in 1 .. n, h[k - 1] \in D PROVE h[k] = step[<<k, h[k - 1]>>]
  <2>1. k \in Nat /\ k >= 1 /\ k \in 1 .. k /\ k - 1 \in 0 .. n /\ k \in 0 .. n
    BY <1>1
  <2>2. 1 .. k \in SUBSET (1 .. n) /\ 1 .. k # {}
    <3>1. \A x \in 1 .. k : x \in 1 .. n
      BY <1>1
    <3> QED BY <2>1, <3>1
  <2>3. Max(1 .. k) = k /\ (1 .. k) \ {k} = 1 .. k - 1
    BY <2>1, LastIndex
  <2>4. it[1 .. k - 1] \in D => it[1 .. k] = step[<<k, it[1 .. k - 1]>>]
    BY <2>2, <2>3 DEF Follows
  <2> QED BY <1>3, <2>1, <2>4
<1> DEFINE Q == {k \in Nat : k <= n => h[k] \in D}
<1>4. 0 \in Q
  BY <1>1, <1>2
<1>5. ASSUME NEW k \in Nat, k \in Q PROVE k + 1 \in Q
  <2>1. SUFFICES ASSUME k + 1 <= n PROVE h[k + 1] \in D
    OBVIOUS
  <2>2. k + 1 \in 1 .. n /\ (k + 1) - 1 = k /\ k <= n
    BY <1>1, <2>1
  <2> HIDE DEF h
  <2>3. h[k] \in D
    BY <1>5, <2>2
  <2>4. h[k + 1] = step[<<k + 1, h[k]>>]
    BY <1>3, <2>2, <2>3
  <2> QED BY <2>2, <2>3, <2>4 DEF FoldableTo
<1>6. Nat \subseteq Q
  <2> HIDE DEF Q
  <2> QED BY <1>4, <1>5, InductiveSet
<1>7. \A k \in 0 .. n : h[k] \in D
  <2> HIDE DEF h
  <2> QED BY <1>1, <1>6
<1>8. h \in [0 .. n -> D]
  BY <1>7
<1>9. \A k \in 1 .. n : k - 1 \in 0 .. n
  BY <1>1
<1>10. h[n] = it[1 .. n]
  BY <1>1
<1>11. IsPrefixFold(h, n, D, base, step)
  <2> HIDE DEF h
  <2> QED BY <1>2, <1>3, <1>7, <1>8, <1>9 DEF IsPrefixFold
<1> HIDE DEF h
<1> QED BY <1>10, <1>11

-----------------------------------------------------------------------------
(***************************************************************************)
(* The features: what a list of them enables.                              *)
(***************************************************************************)
Sets(on, f) == IF f.on THEN on \cup f.exts ELSE on \ f.exts
IsEnabledFold(fs, g) ==
  g = [s \in SUBSET DOMAIN fs |-> IF s = {} THEN {} ELSE Sets(g[s \ {Max(s)}], fs[Max(s)])]
EnabledFold(fs) == CHOOSE g : IsEnabledFold(fs, g)

\* h[k] is what the first k features enable.
IsEnabledPrefix(fs, h) ==
  /\ h \in [0 .. Len(fs) -> SUBSET Extensions] /\ h[0] = {}
  /\ \A k \in 1 .. Len(fs) : h[k] = Sets(h[k - 1], fs[k])

LEMMA EnabledPrefix ==
  ASSUME NEW fs \in Seq(Feature)
  PROVE  \E h : IsEnabledPrefix(fs, h) /\ Enabled(fs) = h[Len(fs)]
<1> DEFINE n == Len(fs)
           D == SUBSET Extensions
           step == [p \in (1 .. n) \X D |-> Sets(p[2], fs[p[1]])]
<1>1. n \in Nat /\ DOMAIN fs = 1 .. n
  OBVIOUS
<1>2. ASSUME NEW x \in 1 .. n, NEW v \in D
      PROVE  step[<<x, v>>] = Sets(v, fs[x]) /\ Sets(v, fs[x]) \in D
  <2>1. fs[x] \in Feature
    BY <1>1
  <2>2. Sets(v, fs[x]) \in D
    BY <2>1 DEF Sets, Feature
  <2>3. <<x, v>> \in (1 .. n) \X D /\ <<x, v>>[1] = x /\ <<x, v>>[2] = v
    OBVIOUS
  <2> QED BY <2>2, <2>3
<1> HIDE DEF step
<1>3. FoldableTo(n, D, {}, step)
  <2>1. {} \in D
    OBVIOUS
  <2> HIDE DEF D, n
  <2> QED BY <1>1, <1>2, <2>1 DEF FoldableTo
<1>3a. PICK g : IsFoldTo(g, n, D, {}, step)
  BY <1>3, SequenceFold
<1>4. \A s \in SUBSET (1 .. n) : g[s] = IF s = {} THEN {} ELSE Sets(g[s \ {Max(s)}], fs[Max(s)])
  <2> TAKE s \in SUBSET (1 .. n)
  <2>1. CASE s = {}
    BY <1>3a, <2>1 DEF IsFoldTo
  <2>2. CASE s # {}
    <3>1. Max(s) \in 1 .. n /\ s \ {Max(s)} \in SUBSET (1 .. n)
      BY <1>1, <2>2, HasMax
    <3>2. g[s \ {Max(s)}] \in D
      BY <1>3a, <3>1 DEF IsFoldTo
    <3> QED BY <1>2, <1>3a, <2>2, <3>1, <3>2 DEF IsFoldTo
  <2> QED BY <2>1, <2>2
<1>5. IsEnabledFold(fs, g)
  <2>1. g \in [SUBSET DOMAIN fs -> D]
    BY <1>1, <1>3a DEF IsFoldTo
  <2>2. g = [s \in SUBSET DOMAIN fs |-> g[s]]
    BY <2>1
  <2> HIDE DEF D, n
  <2> QED BY <1>1, <1>4, <2>2 DEF IsEnabledFold
<1> DEFINE it == EnabledFold(fs)
<1>6. IsEnabledFold(fs, it)
  BY <1>5, Zenon DEF EnabledFold
<1> HIDE DEF it
<1>7. Follows(it, n, D, {}, step)
  <2>1. ASSUME NEW s \in SUBSET (1 .. n), s # {}, it[s \ {Max(s)}] \in D
        PROVE  it[s] = step[<<Max(s), it[s \ {Max(s)}]>>]
    <3>1. Max(s) \in 1 .. n
      BY <1>1, <2>1, HasMax
    <3>2. it[s] = Sets(it[s \ {Max(s)}], fs[Max(s)])
      BY <1>1, <1>6, <2>1 DEF IsEnabledFold
    <3> QED BY <1>2, <2>1, <3>1, <3>2
  <2>2. it[{}] = {}
    BY <1>1, <1>6 DEF IsEnabledFold
  <2> HIDE DEF n, D
  <2> QED BY <2>1, <2>2 DEF Follows
<1>8. PICK h : IsPrefixFold(h, n, D, {}, step) /\ h[n] = it[1 .. n]
  BY <1>3, <1>7, PrefixFold
<1>9. Enabled(fs) = it[DOMAIN fs]
  BY Zenon DEF Enabled, FoldLeft, MapThenFoldSet, it, EnabledFold, IsEnabledFold, Sets
<1>10. ASSUME NEW k \in 1 .. n PROVE h[k] = Sets(h[k - 1], fs[k])
  <2>1. k - 1 \in 0 .. n
    BY <1>1
  <2> HIDE DEF n, D
  <2> QED BY <1>2, <1>8, <2>1 DEF IsPrefixFold
<1>11. IsEnabledPrefix(fs, h)
  BY <1>8, <1>10 DEF IsPrefixFold, IsEnabledPrefix
<1> QED BY <1>1, <1>8, <1>9, <1>11

LEMMA EnabledType ==
  ASSUME NEW fs \in Seq(Feature)
  PROVE  Enabled(fs) \in SUBSET Extensions
<1>1. PICK h : IsEnabledPrefix(fs, h) /\ Enabled(fs) = h[Len(fs)]
  BY EnabledPrefix
<1>2. Len(fs) \in 0 .. Len(fs)
  OBVIOUS
<1> QED BY <1>1, <1>2 DEF IsEnabledPrefix

\* The setting that is appended counts for the extensions it names.
LEMMA EnabledAppend ==
  ASSUME NEW fs \in Seq(Feature), NEW f \in Feature
  PROVE  Enabled(fs \o <<f>>) = Sets(Enabled(fs), f)
<1> DEFINE n == Len(fs)
           gs == fs \o <<f>>
<1>1. n \in Nat /\ gs \in Seq(Feature) /\ Len(gs) = n + 1 /\ gs[n + 1] = f
  OBVIOUS
<1>2. \A k \in 1 .. n : gs[k] = fs[k]
  OBVIOUS
<1>3. PICK h : IsEnabledPrefix(fs, h) /\ Enabled(fs) = h[n]
  BY EnabledPrefix
<1> HIDE DEF gs
<1>4. PICK i : IsEnabledPrefix(gs, i) /\ Enabled(gs) = i[Len(gs)]
  BY <1>1, EnabledPrefix
<1> DEFINE Q == {k \in Nat : k <= n => i[k] = h[k]}
<1>5. 0 \in Q
  BY <1>3, <1>4 DEF IsEnabledPrefix
<1>6. ASSUME NEW k \in Nat, k \in Q PROVE k + 1 \in Q
  <2>1. SUFFICES ASSUME k + 1 <= n PROVE i[k + 1] = h[k + 1]
    OBVIOUS
  <2>2. k + 1 \in 1 .. n /\ k + 1 \in 1 .. Len(gs) /\ (k + 1) - 1 = k /\ k <= n
    BY <1>1, <2>1
  <2>3. i[k + 1] = Sets(i[k], gs[k + 1]) /\ h[k + 1] = Sets(h[k], fs[k + 1])
    BY <1>3, <1>4, <2>2 DEF IsEnabledPrefix
  <2> QED BY <1>2, <1>6, <2>2, <2>3
<1>7. Nat \subseteq Q
  <2> HIDE DEF Q
  <2> QED BY <1>5, <1>6, InductiveSet
<1>8. i[n] = h[n]
  BY <1>1, <1>7
<1>9. n + 1 \in 1 .. Len(gs) /\ (n + 1) - 1 = n
  BY <1>1
<1>10. i[n + 1] = Sets(i[n], f)
  BY <1>1, <1>4, <1>9 DEF IsEnabledPrefix
<1> QED BY <1>1, <1>3, <1>4, <1>8, <1>10 DEF gs

\* What is enabled is closed under implication, and appending all of it changes nothing.
Closed(exts) == exts \subseteq Extensions /\ \A e \in exts : Implied[e] \subseteq exts

LEMMA FeaturesParsed ==
  ASSUME NEW fs \in Seq(Feature)
  PROVE  Closed(parseFeatures(fs)) /\ initFeatureMap(fs) = parseFeatures(fs)
<1> DEFINE on == Enabled(fs)
           parsed == parseFeatures(fs)
<1>1. on \in SUBSET Extensions
  BY EnabledType
<1>2. parsed = UNION {Implied[e] : e \in on}
  BY DEF parseFeatures
<1> HIDE DEF on, parsed
<1>3. Closed(parsed)
  BY <1>1, <1>2, ExtensionsAssumption DEF Closed
<1>4. on \subseteq parsed
  BY <1>1, <1>2, ExtensionsAssumption
<1>5. [on |-> TRUE, exts |-> parsed] \in Feature
  BY <1>3 DEF Feature, Closed
<1>6. Enabled(fs \o Plus(parsed)) = on \cup parsed
  BY <1>5, EnabledAppend DEF Plus, Sets, on
<1> QED BY <1>3, <1>4, <1>6 DEF initFeatureMap, parsed

LEMMA FullArchParsed ==
  ASSUME NEW fs \in Seq(Feature), NEW exts \in SUBSET Extensions, exts # {}
  PROVE  parseFeatures(fs \o handleFullArchString(exts)) = parseFeatures(Plus(exts))
<1> DEFINE off == [on |-> FALSE, exts |-> Extensions]
           set == [on |-> TRUE, exts |-> exts]
<1>1. off \in Feature /\ set \in Feature /\ <<>> \in Seq(Feature)
  BY DEF Feature
<1>2. fs \o <<off>> \in Seq(Feature)
  BY <1>1
<1>3. Enabled((fs \o <<off>>) \o <<set>>) = Sets(Sets(Enabled(fs), off), set)
  BY <1>1, <1>2, EnabledAppend
<1>4. Sets(Sets(Enabled(fs), off), set) = exts
  BY EnabledType DEF Sets
<1>5. fs \o handleFullArchString(exts) = (fs \o <<off>>) \o <<set>>
  <2>1. handleFullArchString(exts) = <<off>> \o <<set>>
    BY DEF handleFullArchString, Minus, Plus
  <2>2. <<off>> \in Seq(Feature) /\ <<set>> \in Seq(Feature)
    BY <1>1
  <2> HIDE DEF off, set
  <2> QED BY <2>1, <2>2, ConcatAssociative
<1>6. Enabled(Plus(exts)) = exts
  <2>1. PICK h : IsEnabledPrefix(<<>>, h) /\ Enabled(<<>>) = h[Len(<<>>)]
    BY <1>1, EnabledPrefix
  <2>2. Enabled(<<>>) = {}
    BY <2>1 DEF IsEnabledPrefix
  <2>3. Enabled(<<>> \o <<set>>) = Sets({}, set)
    BY <1>1, <2>2, EnabledAppend
  <2>4. <<>> \o <<set>> = Plus(exts)
    BY DEF Plus
  <2> QED BY <2>3, <2>4 DEF Sets
<1> QED BY <1>3, <1>4, <1>5, <1>6 DEF parseFeatures

VLens == {32, 64, 128, 256, 512, 1024, 2048, 4096, 8192, 16384, 32768, 65536}

LEMMA MinVLenType ==
  ASSUME NEW exts
  PROVE  /\ MinVLen(exts) \in VLens \cup {0}
         /\ \A e \in exts \cap DOMAIN VLen : VLen[e] <= MinVLen(exts)
<1> DEFINE lens == {VLen[e] : e \in exts \cap DOMAIN VLen}
           T == {65536 - n : n \in lens}
<1>1. lens \subseteq VLens
  BY ExtensionsAssumption DEF VLens
<1>2. CASE lens = {}
  BY <1>2 DEF MinVLen
<1>3. CASE lens # {}
  <2>1. \A n \in VLens : 65536 - n \in Nat /\ n \in Nat
    BY DEF VLens
  <2> HIDE DEF lens
  <2>2. T \subseteq Nat /\ T # {}
    BY <1>1, <1>3, <2>1
  <2>3. PICK d \in T : \A m \in T : d <= m
    <3> HIDE DEF T
    <3> QED BY <2>2, LeastElement
  <2>4. PICK n \in lens : d = 65536 - n
    OBVIOUS
  <2>5. ASSUME NEW m \in lens PROVE m <= n
    <3>1. d <= 65536 - m
      BY <2>3
    <3>2. m \in Nat /\ n \in Nat
      BY <1>1, <2>1
    <3> QED BY <2>4, <3>1, <3>2
  <2>6. /\ (CHOOSE l \in lens : \A m \in lens : m <= l) \in lens
        /\ \A m \in lens : m <= CHOOSE l \in lens : \A o \in lens : o <= l
    BY <2>5
  <2> QED BY <1>1, <1>3, <2>6 DEF MinVLen, lens
<1> QED BY <1>2, <1>3

LEMMA VScaleRange ==
  ASSUME NEW exts, NEW min \in Nat, NEW max \in Nat,
         getVScaleRange(exts, min, max) # <<>>
  PROVE  LET range == getVScaleRange(exts, min, max)
         IN /\ range[1] >= 1 /\ range[1] * 64 >= MinVLen(exts) /\ range[1] >= min
            /\ range[2] = 0 \/ range[1] <= range[2]
<1> DEFINE v == MinVLen(exts)
           zvl == v \div 64
           low == IF min > zvl THEN min ELSE zvl
           range == getVScaleRange(exts, min, max)
<1>1. v \in VLens \cup {0}
  BY MinVLenType
<1> HIDE DEF v
<1>2. zvl \in 0 .. 1024 /\ (zvl >= 1 => v = zvl * 64) /\ (zvl = 0 => v <= 32) /\ v \in Nat
  BY <1>1 DEF VLens
<1>3. low \in Nat /\ low >= min /\ low >= zvl
  <2> HIDE DEF zvl
  <2> QED BY <1>2
<1>4. CASE min # 0 \/ max # 0
  <2>1. range = <<IF low = 0 THEN 1 ELSE low, AtLeast(max, low)>>
    BY <1>4 DEF getVScaleRange, v
  <2> HIDE DEF zvl, low, range
  <2> QED BY <1>2, <1>3, <1>4, <2>1 DEF AtLeast, range, v
<1>5. CASE ~(min # 0 \/ max # 0)
  <2>1. zvl > 0 /\ range = <<zvl, 65536 \div 64>>
    BY <1>5 DEF getVScaleRange, v
  <2>2. 65536 \div 64 = 1024
    OBVIOUS
  <2> HIDE DEF zvl, low, range
  <2> QED BY <1>2, <1>5, <2>1, <2>2 DEF range, v
<1> QED BY <1>4, <1>5

-----------------------------------------------------------------------------
(***************************************************************************)
(* The attribute strings: what is read part by part.                       *)
(***************************************************************************)
Names == STRING \cup {""}
Parsed == [features : Seq(Feature), cpu : Names, tune : Names, duplicate : BOOLEAN,
           foundArch : BOOLEAN]
Unparsed == [features |-> <<>>, cpu |-> "", tune |-> "", duplicate |-> FALSE,
             foundArch |-> FALSE]

LEMMA FullArchType ==
  ASSUME NEW exts \in SUBSET Extensions
  PROVE  handleFullArchString(exts) \in Seq(Feature)
<1>1. [on |-> FALSE, exts |-> Extensions] \in Feature /\ [on |-> TRUE, exts |-> exts] \in Feature
  BY DEF Feature
<1> QED BY <1>1 DEF handleFullArchString, Minus, Plus

LEMMA ParsePartType ==
  ASSUME NEW a \in Parsed, NEW p, IsPart(p)
  PROVE  ParsePart(a, p) \in Parsed
<1>1. CASE p.key = "arch+"
  <2>1. p.value \in Seq(Feature)
    BY <1>1 DEF IsPart
  <2> QED BY <1>1, <2>1 DEF ParsePart, Parsed
<1>2. CASE p.key = "arch"
  <2>1. handleFullArchString(p.value) \in Seq(Feature)
    BY <1>2, FullArchType DEF IsPart
  <2> QED BY <1>2, <2>1 DEF ParsePart, Parsed
<1>3. CASE p.key = "cpu"
  <2>1. p.value \in Names
    BY <1>3 DEF IsPart, Names
  <2>2. p.value \in DOMAIN CPUArch => handleFullArchString(CPUArch[p.value]) \in Seq(Feature)
    BY FullArchType, ExtensionsAssumption
  <2> QED BY <1>3, <2>1, <2>2 DEF ParsePart, Parsed, SetsFeatures
<1>4. CASE p.key = "tune"
  <2>1. p.value \in Names
    BY <1>4 DEF IsPart, Names
  <2> QED BY <1>4, <2>1 DEF ParsePart, Parsed
<1>5. CASE p.key = "exts"
  <2>1. p.value \in Seq(Feature)
    BY <1>5 DEF IsPart
  <2>2. a.features \o p.value \in Seq(Feature)
    BY <2>1 DEF Parsed
  <2> QED BY <1>5, <2>2 DEF ParsePart, Parsed
<1>6. CASE p.key \notin {"arch+", "arch", "cpu", "tune", "exts"}
  BY <1>6 DEF ParsePart
<1> QED BY <1>1, <1>2, <1>3, <1>4, <1>5, <1>6

IsParseFold(s, g) ==
  g = [t \in SUBSET DOMAIN s |-> IF t = {} THEN Unparsed ELSE ParsePart(g[t \ {Max(t)}], s[Max(t)])]
ParseFold(s) == CHOOSE g : IsParseFold(s, g)

\* h[k] is what the first k parts say.
IsParsedPrefix(s, h) ==
  /\ h \in [0 .. Len(s) -> Parsed] /\ h[0] = Unparsed
  /\ \A k \in 1 .. Len(s) : h[k] = ParsePart(h[k - 1], s[k])

LEMMA ParsedPrefix ==
  ASSUME NEW s, IsString(s)
  PROVE  \E h : IsParsedPrefix(s, h) /\ parseTargetAttr(s) = h[Len(s)]
<1> DEFINE n == Len(s)
           step == [p \in (1 .. n) \X Parsed |-> ParsePart(p[2], s[p[1]])]
<1>1. n \in Nat /\ DOMAIN s = 1 .. n /\ Unparsed \in Parsed
  <2>1. s \in Seq(ToSet(s))
    BY DEF IsString, IsSequence
  <2>2. "" \in Names /\ <<>> \in Seq(Feature)
    BY DEF Names
  <2>3. Unparsed \in Parsed
    BY <2>2 DEF Parsed, Unparsed
  <2> QED BY <2>1, <2>3
<1>2. ASSUME NEW x \in 1 .. n, NEW v \in Parsed
      PROVE  step[<<x, v>>] = ParsePart(v, s[x]) /\ ParsePart(v, s[x]) \in Parsed
  <2>1. ParsePart(v, s[x]) \in Parsed
    BY <1>1, ParsePartType DEF IsString
  <2>2. <<x, v>> \in (1 .. n) \X Parsed /\ <<x, v>>[1] = x /\ <<x, v>>[2] = v
    OBVIOUS
  <2> QED BY <2>1, <2>2
<1> HIDE DEF step
<1>3. FoldableTo(n, Parsed, Unparsed, step)
  <2> HIDE DEF n
  <2> QED BY <1>1, <1>2 DEF FoldableTo
<1>3a. PICK g : IsFoldTo(g, n, Parsed, Unparsed, step)
  BY <1>3, SequenceFold
<1>4. \A t \in SUBSET (1 .. n) :
        g[t] = IF t = {} THEN Unparsed ELSE ParsePart(g[t \ {Max(t)}], s[Max(t)])
  <2> TAKE t \in SUBSET (1 .. n)
  <2>1. CASE t = {}
    BY <1>3a, <2>1 DEF IsFoldTo
  <2>2. CASE t # {}
    <3>1. Max(t) \in 1 .. n /\ t \ {Max(t)} \in SUBSET (1 .. n)
      BY <1>1, <2>2, HasMax
    <3>2. g[t \ {Max(t)}] \in Parsed
      BY <1>3a, <3>1 DEF IsFoldTo
    <3> QED BY <1>2, <1>3a, <2>2, <3>1, <3>2 DEF IsFoldTo
  <2> QED BY <2>1, <2>2
<1>5. IsParseFold(s, g)
  <2>1. g \in [SUBSET DOMAIN s -> Parsed]
    BY <1>1, <1>3a DEF IsFoldTo
  <2>2. g = [t \in SUBSET DOMAIN s |-> g[t]]
    BY <2>1
  <2> HIDE DEF n
  <2> QED BY <1>1, <1>4, <2>2 DEF IsParseFold
<1> DEFINE it == ParseFold(s)
<1>6. IsParseFold(s, it)
  BY <1>5, Zenon DEF ParseFold
<1> HIDE DEF it
<1>7. Follows(it, n, Parsed, Unparsed, step)
  <2>1. ASSUME NEW t \in SUBSET (1 .. n), t # {}, it[t \ {Max(t)}] \in Parsed
        PROVE  it[t] = step[<<Max(t), it[t \ {Max(t)}]>>]
    <3>1. Max(t) \in 1 .. n
      BY <1>1, <2>1, HasMax
    <3>2. it[t] = ParsePart(it[t \ {Max(t)}], s[Max(t)])
      BY <1>1, <1>6, <2>1 DEF IsParseFold
    <3> QED BY <1>2, <2>1, <3>1, <3>2
  <2>2. it[{}] = Unparsed
    BY <1>1, <1>6 DEF IsParseFold
  <2> HIDE DEF n
  <2> QED BY <2>1, <2>2 DEF Follows
<1>8. PICK h : IsPrefixFold(h, n, Parsed, Unparsed, step) /\ h[n] = it[1 .. n]
  BY <1>3, <1>7, PrefixFold
<1>9. parseTargetAttr(s) = it[DOMAIN s]
  BY Zenon DEF parseTargetAttr, FoldLeft, MapThenFoldSet, it, ParseFold, IsParseFold, Unparsed
<1>10. ASSUME NEW k \in 1 .. n PROVE h[k] = ParsePart(h[k - 1], s[k])
  <2>1. k - 1 \in 0 .. n
    BY <1>1
  <2> HIDE DEF n
  <2> QED BY <1>2, <1>8, <2>1 DEF IsPrefixFold
<1>11. IsParsedPrefix(s, h)
  BY <1>8, <1>10 DEF IsPrefixFold, IsParsedPrefix
<1> QED BY <1>1, <1>8, <1>9, <1>11

LEMMA ParsedType ==
  ASSUME NEW s, IsString(s)
  PROVE  parseTargetAttr(s) \in Parsed
<1>1. PICK h : IsParsedPrefix(s, h) /\ parseTargetAttr(s) = h[Len(s)]
  BY ParsedPrefix
<1>2. Len(s) \in 0 .. Len(s)
  BY DEF IsString, IsSequence
<1> QED BY <1>1, <1>2 DEF IsParsedPrefix

LEMMA SequenceOf ==
  ASSUME NEW S, NEW s \in Seq(S)
  PROVE  IsSequence(s)
<1>1. s = [i \in 1 .. Len(s) |-> s[i]] /\ Len(s) \in Nat /\ DOMAIN s = 1 .. Len(s)
  OBVIOUS
<1>2. \A i \in 1 .. Len(s) : s[i] \in ToSet(s)
  BY <1>1 DEF ToSet
<1>3. s \in Seq(ToSet(s))
  BY <1>1, <1>2
<1> QED BY <1>3 DEF IsSequence

\* A part may be read without the blank before it.
LEMMA TrimmedIsString ==
  ASSUME NEW s, IsString(s)
  PROVE  /\ IsString(Trimmed(s)) /\ DOMAIN Trimmed(s) = DOMAIN s
         /\ \A i \in DOMAIN s : Trimmed(s)[i].key = s[i].key /\ Trimmed(s)[i].value = s[i].value
<1> DEFINE t == Trimmed(s)
           p == [s[1] EXCEPT !.spaced = FALSE]
<1>1. s \in Seq(ToSet(s)) /\ Len(s) \in Nat /\ DOMAIN s = 1 .. Len(s) /\ s # <<>>
  BY DEF IsString, IsSequence
<1>2. 1 \in DOMAIN s /\ IsPart(s[1])
  BY <1>1 DEF IsString
<1>3. DOMAIN s[1] = {"key", "value", "spaced"}
  BY <1>2 DEF IsPart
<1>4. IsPart(p) /\ p.key = s[1].key /\ p.value = s[1].value
  BY <1>2, <1>3 DEF IsPart
<1>5. t = [i \in DOMAIN s |-> IF i = 1 THEN p ELSE s[i]]
  BY <1>1, <1>2 DEF Trimmed
<1> HIDE DEF p, t
<1>6. \A i \in DOMAIN s : IsPart(t[i]) /\ t[i].key = s[i].key /\ t[i].value = s[i].value
  BY <1>4, <1>5 DEF IsString
<1>7. t \in Seq(ToSet(s) \cup {p}) /\ DOMAIN t = DOMAIN s /\ t # <<>>
  <2>1. \A i \in 1 .. Len(s) : s[i] \in ToSet(s)
    BY <1>1 DEF ToSet
  <2> QED BY <1>1, <1>5, <2>1
<1>8. IsSequence(t)
  BY <1>7, SequenceOf
<1> QED BY <1>6, <1>7, <1>8 DEF IsString, t

LEMMA PartParsed ==
  ASSUME NEW p, IsPart(p)
  PROVE  IsString(<<p>>) /\ parseTargetAttr(<<p>>) = ParsePart(Unparsed, p)
<1>1. <<p>> \in Seq({p})
  OBVIOUS
<1>2. IsSequence(<<p>>)
  BY <1>1, SequenceOf
<1>3. IsString(<<p>>)
  BY <1>2 DEF IsString
<1>4. PICK h : IsParsedPrefix(<<p>>, h) /\ parseTargetAttr(<<p>>) = h[Len(<<p>>)]
  BY <1>3, ParsedPrefix
<1>5. h[0] = Unparsed /\ h[1] = ParsePart(h[0], p)
  <2>1. Len(<<p>>) = 1 /\ 1 \in 1 .. 1 /\ <<p>>[1] = p /\ 1 - 1 = 0
    OBVIOUS
  <2> QED BY <1>4, <2>1 DEF IsParsedPrefix
<1> QED BY <1>3, <1>4, <1>5

-----------------------------------------------------------------------------
(***************************************************************************)
(* The inductive invariant of the attributes.                              *)
(***************************************************************************)
\* No target attribute is left to be handled.
TargetHandled == \A i \in DOMAIN func.attributes : func.attributes[i].kind # "target"
IsVersion(v) ==
  /\ IsString(v)
  /\ \A j \in DOMAIN v :
       /\ v[j].key \in {"arch+", "default", "priority"}
       /\ v[j].key = "arch+" =>
            v[j].value # <<>> /\ \A i \in DOMAIN v[j].value : isValidFMVExtension(v[j].value[i])

\* The target is set up before the attributes are handled.
SetUp ==
  /\ pc = "target" => isa = {} /\ abi = target.abi /\ targetAttr = <<>> /\ interrupt = {}
  /\ pc \in {"attributes", "done"} =>
       isa = parseFeatures(target.features) /\ ~(abi = "ilp32e" /\ "d" \in isa)
  /\ ~TargetHandled => targetAttr = <<>>
VersionsChecked == \A i \in DOMAIN versions : IsVersion(versions[i])
\* While a target attribute may follow, only the target counts: it could replace the rest.
InterruptChecked ==
  interrupt # {} =>
    /\ pc \in {"attributes", "done"}
    /\ interrupt \subseteq {"machine"} \cup CLICTypes \/ Cardinality(interrupt) = 1
    /\ \A t \in interrupt :
         RequiredExtension(t) \subseteq IF TargetHandled THEN isa \cup FunctionFeatures ELSE isa
AttributesInv ==
  TypeOK /\ IsFunction(func) /\ SetUp /\ VersionsChecked /\ InterruptChecked

LEMMA FunctionTail ==
  ASSUME NEW f, IsFunction(f), f.attributes # <<>>
  PROVE  /\ IsFunction([f EXCEPT !.attributes = Tail(@)])
         /\ IsAttribute(Head(f.attributes))
         /\ \A i \in DOMAIN Tail(f.attributes) :
              i + 1 \in DOMAIN f.attributes /\ Tail(f.attributes)[i] = f.attributes[i + 1]
         /\ 1 \in DOMAIN f.attributes /\ Head(f.attributes) = f.attributes[1]
<1> DEFINE s == f.attributes
           t == Tail(s)
           g == [f EXCEPT !.attributes = t]
<1>1. s \in Seq(ToSet(s)) /\ Len(s) \in Nat /\ DOMAIN s = 1 .. Len(s) /\ s # <<>>
  BY DEF IsFunction, IsSequence
<1>2. t \in Seq(ToSet(s)) /\ DOMAIN t = 1 .. Len(s) - 1
  <2> HIDE DEF s
  <2>1. t \in Seq(ToSet(s)) /\ Len(t) = Len(s) - 1
    BY <1>1, HeadTailProperties
  <2> QED BY <2>1
<1>3. 1 \in DOMAIN s /\ Head(s) = s[1]
  BY <1>1
<1>4. ASSUME NEW i \in DOMAIN t PROVE i + 1 \in DOMAIN s /\ t[i] = s[i + 1]
  <2>1. i + 1 \in DOMAIN s
    BY <1>1, <1>2
  <2>2. t[i] = s[i + 1]
    BY <1>1, <1>2
  <2> QED BY <2>1, <2>2
<1>5. IsAttribute(Head(s)) /\ \A i \in DOMAIN t : IsAttribute(t[i])
  BY <1>3, <1>4 DEF IsFunction
<1>6. IsSequence(t)
  BY <1>2, SequenceOf
<1>7. /\ DOMAIN g = DOMAIN f /\ g.attributes = t /\ g.plain = f.plain /\ g.calls = f.calls
  BY DEF IsFunction
<1>8. ASSUME NEW i \in DOMAIN t, NEW j \in DOMAIN t, t[i].kind = "target", t[j].kind = "target"
      PROVE  i = j
  <2>1. i + 1 = j + 1
    BY <1>4, <1>8 DEF IsFunction
  <2>2. i \in Int /\ j \in Int
    BY <1>1, <1>2
  <2> QED BY <2>1, <2>2
<1>9. IsFunction(g)
  <2> HIDE DEF g, t
  <2> QED BY <1>5, <1>6, <1>7, <1>8 DEF IsFunction
<1> QED BY <1>3, <1>4, <1>5, <1>9

LEMMA TargetType ==
  ASSUME NEW t \in Targets
  PROVE  /\ t.features \in Seq(Feature) /\ t.abi \in {"", "ilp32", "ilp32d", "ilp32e"}
         /\ t.vscale[1] \in Nat /\ t.vscale[2] \in Nat
  BY TargetsAssumption

\* The features of the function; without a target attribute, those of the target.
LEMMA FunctionFeaturesKnown ==
  ASSUME target \in Targets, targetAttr \in Seq(Feature)
  PROVE  /\ FunctionFeatures = parseFeatures(target.features \o targetAttr)
         /\ Closed(FunctionFeatures)
         /\ targetAttr = <<>> => FunctionFeatures = parseFeatures(target.features)
<1>1. target.features \in Seq(Feature)
  BY TargetType
<1>2. target.features \o targetAttr \in Seq(Feature)
  BY <1>1
<1>3. targetAttr = <<>> => target.features \o targetAttr = target.features
  BY <1>1
<1> QED BY <1>2, <1>3, FeaturesParsed DEF FunctionFeatures

LEMMA AttributesInit == Init => AttributesInv
<1> SUFFICES ASSUME Init PROVE AttributesInv
  OBVIOUS
<1> USE DEF Init
<1>1. TypeOK
  <2>1. target \in Targets /\ abi \in {"", "ilp32", "ilp32d", "ilp32e"}
    BY TargetType
  <2>2. targetAttr \in Seq(Feature) /\ isa \subseteq Extensions /\ interrupt \subseteq InterruptTypes
    OBVIOUS
  <2> QED BY <2>1, <2>2 DEF TypeOK
<1>2. IsFunction(func)
  BY FunctionsAssumption
<1>3. SetUp
  BY DEF SetUp
<1>4. VersionsChecked
  BY DEF VersionsChecked
<1>5. InterruptChecked
  BY DEF InterruptChecked
<1> QED BY <1>1, <1>2, <1>3, <1>4, <1>5 DEF AttributesInv

\* What handling an attribute leaves alone, and what it says of the target attribute.
LEMMA HandlesKeeps ==
  ASSUME AttributesInv, NEW kind, Handles(kind)
  PROVE  /\ IsFunction(func)' /\ IsAttribute(Attribute) /\ Attribute.kind = kind
         /\ pc = "attributes" /\ UNCHANGED <<target, isa, abi, pc>>
         /\ TargetHandled => TargetHandled'
         /\ kind = "target" => TargetHandled' /\ ~TargetHandled
         /\ kind # "target" /\ TargetHandled' => TargetHandled
<1> USE DEF Handles
<1>1. IsFunction(func) /\ func.attributes # <<>>
  BY DEF AttributesInv
<1>2. func' = [func EXCEPT !.attributes = Tail(@)]
  OBVIOUS
<1>3. /\ IsFunction([func EXCEPT !.attributes = Tail(@)]) /\ IsAttribute(Attribute)
      /\ \A i \in DOMAIN Tail(func.attributes) :
           /\ i + 1 \in DOMAIN func.attributes
           /\ Tail(func.attributes)[i] = func.attributes[i + 1]
      /\ 1 \in DOMAIN func.attributes /\ Attribute = func.attributes[1]
  BY <1>1, FunctionTail DEF Attribute
<1>4. func'.attributes = Tail(func.attributes)
  BY <1>1, <1>2 DEF IsFunction
<1>5. TargetHandled => TargetHandled'
  BY <1>3, <1>4 DEF TargetHandled
<1>6. DOMAIN func.attributes = 1 .. Len(func.attributes) /\ Len(func.attributes) \in Nat
  BY <1>1 DEF IsFunction, IsSequence
<1>7. ASSUME kind = "target" PROVE TargetHandled' /\ ~TargetHandled
  <2>1. func.attributes[1].kind = "target"
    BY <1>3, <1>7
  <2>2. ASSUME NEW i \in DOMAIN Tail(func.attributes), Tail(func.attributes)[i].kind = "target"
        PROVE  FALSE
    <3>1. DOMAIN Tail(func.attributes) = 1 .. Len(func.attributes) - 1
      <4>1. func.attributes \in Seq(ToSet(func.attributes))
        BY <1>1 DEF IsFunction, IsSequence
      <4>2. /\ Len(Tail(func.attributes)) = Len(func.attributes) - 1
            /\ Tail(func.attributes) \in Seq(ToSet(func.attributes))
        BY <1>1, <4>1, HeadTailProperties
      <4> QED BY <4>2
    <3>2. i \in Nat /\ i >= 1
      BY <1>6, <3>1
    <3>3. i + 1 = 1
      BY <1>1, <1>3, <2>1, <2>2 DEF IsFunction
    <3> QED BY <3>2, <3>3
  <2> QED BY <1>3, <1>4, <2>1, <2>2 DEF TargetHandled
<1>8. ASSUME kind # "target", TargetHandled' PROVE TargetHandled
  <2> SUFFICES ASSUME NEW i \in DOMAIN func.attributes, func.attributes[i].kind = "target"
               PROVE  FALSE
    BY DEF TargetHandled
  <2>1. i # 1
    BY <1>3, <1>8
  <2>2. func.attributes \in Seq(ToSet(func.attributes))
    BY <1>1 DEF IsFunction, IsSequence
  <2>3. /\ Len(Tail(func.attributes)) = Len(func.attributes) - 1
        /\ Tail(func.attributes) \in Seq(ToSet(func.attributes))
    BY <1>1, <2>2, HeadTailProperties
  <2>4. i - 1 \in DOMAIN Tail(func.attributes) /\ (i - 1) + 1 = i
    BY <1>6, <2>1, <2>3
  <2>5. Tail(func.attributes)[i - 1].kind = "target"
    BY <1>3, <2>4
  <2> QED BY <1>4, <1>8, <2>4, <2>5 DEF TargetHandled
<1>9. IsFunction(func)'
  BY <1>2, <1>3
<1> QED BY <1>3, <1>5, <1>7, <1>8, <1>9

LEMMA VersionPart ==
  ASSUME NEW p, IsPart(p), IsVersionPart(p)
  PROVE  /\ p.key \in {"arch+", "default", "priority"}
         /\ p.key = "arch+" =>
              p.value # <<>> /\ \A i \in DOMAIN p.value : isValidFMVExtension(p.value[i])
<1>1. p.key \in {"arch+", "default", "priority"}
  BY DEF IsVersionPart
<1>2. ASSUME p.key = "arch+" PROVE parseTargetAttr(<<p>>).features = p.value
  <2>1. parseTargetAttr(<<p>>) = ParsePart(Unparsed, p)
    BY PartParsed
  <2>2. ParsePart(Unparsed, p).features = p.value
    BY <1>2 DEF ParsePart, Unparsed
  <2> QED BY <2>1, <2>2
<1> QED BY <1>1, <1>2 DEF IsVersionPart

LEMMA VersionString ==
  ASSUME NEW s, IsString(s), \A j \in DOMAIN s : IsVersionPart(s[j])
  PROVE  IsVersion(s) /\ IsVersion(Trimmed(s))
<1>1. \A j \in DOMAIN s : IsPart(s[j])
  BY DEF IsString
<1>2. IsVersion(s)
  BY <1>1, VersionPart DEF IsVersion
<1>3. IsVersion(Trimmed(s))
  BY <1>2, TrimmedIsString DEF IsVersion
<1> QED BY <1>2, <1>3

LEMMA TargetSetUp ==
  ASSUME AttributesInv, handleTargetFeatures
  PROVE  AttributesInv'
<1> USE DEF AttributesInv, handleTargetFeatures
<1> DEFINE exts == parseFeatures(target.features)
<1>1. target.features \in Seq(Feature) /\ exts \subseteq Extensions
  BY TargetType, FeaturesParsed DEF TypeOK, Closed
<1>2. isa = {} /\ abi = target.abi /\ targetAttr = <<>> /\ interrupt = {} /\ interrupt' = {}
  BY DEF SetUp
<1>3. /\ pc' \in {"failed", "attributes"} /\ isa' \in {isa, exts}
      /\ abi' \in {abi, "ilp32", "ilp32d", "ilp32e"}
      /\ pc' = "attributes" => isa' = exts /\ ~(abi' = "ilp32e" /\ "d" \in isa')
  BY DEF computeDefaultABI
<1> HIDE DEF exts
<1>4. TypeOK'
  <2>1. UNCHANGED <<target, targetAttr, interrupt>> /\ TypeOK
    OBVIOUS
  <2> HIDE DEF handleTargetFeatures, AttributesInv
  <2> QED BY <1>1, <1>3, <2>1 DEF TypeOK
<1>5. SetUp'
  BY <1>2, <1>3 DEF SetUp, exts
<1>6. VersionsChecked' /\ IsFunction(func)'
  BY DEF VersionsChecked
<1>7. InterruptChecked'
  BY <1>2 DEF InterruptChecked
<1> QED BY <1>4, <1>5, <1>6, <1>7

LEMMA TargetStep ==
  ASSUME AttributesInv, HandleTarget
  PROVE  AttributesInv'
<1> USE DEF HandleTarget
<1>1. /\ IsFunction(func)' /\ IsAttribute(Attribute) /\ Attribute.kind = "target"
      /\ pc = "attributes" /\ UNCHANGED <<target, isa, abi, pc>> /\ TargetHandled' /\ ~TargetHandled
  BY HandlesKeeps
<1>2. IsString(Attribute.strings[1])
  BY <1>1 DEF IsAttribute, IsSequence
<1>3. parseTargetAttr(Attribute.strings[1]).features \in Seq(Feature)
  BY <1>2, ParsedType DEF Parsed
<1>4. targetAttr' \in Seq(Feature)
  BY <1>3
<1>5. TypeOK'
  BY <1>1, <1>4 DEF AttributesInv, TypeOK
<1>6. SetUp'
  BY <1>1 DEF AttributesInv, SetUp
<1>7. VersionsChecked'
  BY DEF AttributesInv, VersionsChecked
<1>8. InterruptChecked'
  BY <1>1 DEF AttributesInv, InterruptChecked
<1> QED BY <1>1, <1>5, <1>6, <1>7, <1>8 DEF AttributesInv

LEMMA VersionsStep ==
  ASSUME AttributesInv, HandleTargetVersion \/ HandleTargetClones
  PROVE  AttributesInv'
<1> DEFINE a == Attribute
<1>1. PICK kind \in {"target_version", "target_clones"} : Handles(kind)
  BY DEF HandleTargetVersion, HandleTargetClones
<1>2. /\ IsFunction(func)' /\ IsAttribute(a) /\ a.kind = kind /\ pc = "attributes"
      /\ UNCHANGED <<target, isa, abi, pc>> /\ (TargetHandled' <=> TargetHandled)
  BY <1>1, HandlesKeeps
<1>3. UNCHANGED <<targetAttr, interrupt>>
  BY DEF HandleTargetVersion, HandleTargetClones
<1>4. \A i \in DOMAIN a.strings : IsString(a.strings[i])
  BY <1>1, <1>2 DEF IsAttribute
<1>5. VersionsChecked'
  <2>1. CASE versions' = versions
    BY <2>1 DEF AttributesInv, VersionsChecked
  <2>2. CASE HandleTargetVersion /\ checkTargetVersionAttr(a.strings[1]) /\ versions' = a.strings
    <3>1. a.kind = "target_version"
      BY <2>2, HandlesKeeps DEF HandleTargetVersion
    <3>2. DOMAIN a.strings = {1}
      BY <1>2, <3>1 DEF IsAttribute, IsSequence
    <3>3. IsVersion(a.strings[1])
      BY <1>4, <2>2, <3>2, VersionString DEF checkTargetVersionAttr
    <3> HIDE DEF a
    <3> QED BY <2>2, <3>2, <3>3 DEF VersionsChecked
  <2>3. CASE /\ checkTargetClonesAttr(a.strings)
             /\ versions' = [i \in DOMAIN a.strings |-> Trimmed(a.strings[i])]
    <3> HIDE DEF a
    <3>1. \A i \in DOMAIN a.strings : IsVersion(Trimmed(a.strings[i]))
      BY <1>4, <2>3, VersionString DEF checkTargetClonesAttr
    <3> QED BY <2>3, <3>1 DEF VersionsChecked
  <2> QED BY <2>1, <2>2, <2>3 DEF HandleTargetVersion, HandleTargetClones
<1>6. TypeOK'
  BY <1>2, <1>3 DEF AttributesInv, TypeOK
<1>7. SetUp'
  BY <1>2, <1>3 DEF AttributesInv, SetUp
<1>8. InterruptChecked'
  <2>1. FunctionFeatures' = FunctionFeatures
    BY <1>2, <1>3 DEF FunctionFeatures
  <2> QED BY <1>2, <1>3, <2>1 DEF AttributesInv, InterruptChecked
<1> QED BY <1>2, <1>5, <1>6, <1>7, <1>8 DEF AttributesInv

\* A type that needs an extension finds it among the features that are known by then: those of
\* the target, until the target attribute has been handled.
LEMMA InterruptStep ==
  ASSUME AttributesInv, handleInterruptAttr
  PROVE  AttributesInv'
<1> DEFINE written == Attribute.strings
           types == IF written = <<>> THEN {"machine"} ELSE ToSet(written)
           good == /\ ~IsRepeated /\ func.plain /\ Accepted(types, Len(written))
                   /\ \A t \in types : \A e \in RequiredExtension(t) : HasFeature(e)
<1>1. Handles("interrupt") /\ interrupt' = (IF good THEN types ELSE interrupt)
      /\ UNCHANGED <<targetAttr, versions>>
  BY DEF handleInterruptAttr
<1>2. /\ IsFunction(func)' /\ pc = "attributes"
      /\ UNCHANGED <<target, isa, abi, pc>> /\ (TargetHandled' <=> TargetHandled)
  BY <1>1, HandlesKeeps
<1>3. FunctionFeatures' = FunctionFeatures
  BY <1>1, <1>2 DEF FunctionFeatures
<1> HIDE DEF types
<1>4. good => types \subseteq InterruptTypes
  BY DEF Accepted
<1>5. InterruptChecked'
  <2>1. CASE ~good
    BY <1>1, <1>2, <1>3, <2>1 DEF AttributesInv, InterruptChecked
  <2>2. CASE good
    <3>1. types \subseteq {"machine"} \cup CLICTypes \/ Cardinality(types) = 1
      BY <2>2 DEF Accepted, InterruptTypes
    <3>2. ~TargetHandled => FunctionFeatures = isa
      BY <1>2, FunctionFeaturesKnown DEF AttributesInv, SetUp, TypeOK
    <3>3. \A t \in types : RequiredExtension(t) \subseteq isa \cup FunctionFeatures
      BY <2>2 DEF HasFeature
    <3>4. \A t \in types :
            RequiredExtension(t) \subseteq IF TargetHandled THEN isa \cup FunctionFeatures ELSE isa
      BY <3>2, <3>3
    <3> HIDE DEF good
    <3> QED BY <1>1, <1>2, <1>3, <2>2, <3>1, <3>4 DEF InterruptChecked
  <2> QED BY <2>1, <2>2
<1>6. TypeOK'
  BY <1>1, <1>2, <1>4 DEF AttributesInv, TypeOK
<1>7. SetUp'
  BY <1>1, <1>2 DEF AttributesInv, SetUp
<1>8. VersionsChecked'
  BY <1>1 DEF AttributesInv, VersionsChecked
<1> QED BY <1>2, <1>5, <1>6, <1>7, <1>8 DEF AttributesInv

LEMMA AttributesStep ==
  ASSUME AttributesInv, [Next]_vars
  PROVE  AttributesInv'
<1>1. CASE handleTargetFeatures
  BY <1>1, TargetSetUp
<1>2. CASE HandleTarget
  BY <1>2, TargetStep
<1>3. CASE HandleTargetVersion \/ HandleTargetClones
  BY <1>3, VersionsStep
<1>4. CASE handleInterruptAttr
  BY <1>4, InterruptStep
<1>5. CASE Finish \/ UNCHANGED vars
  <2>1. /\ UNCHANGED <<target, isa, abi, func, targetAttr, versions, interrupt>>
        /\ pc' = pc \/ (pc = "attributes" /\ pc' = "done")
    BY <1>5 DEF Finish, vars
  <2>2. FunctionFeatures' = FunctionFeatures /\ (TargetHandled' <=> TargetHandled)
    BY <2>1 DEF FunctionFeatures, TargetHandled
  <2>3. TypeOK'
    BY <2>1 DEF AttributesInv, TypeOK
  <2>4. SetUp'
    BY <2>1, <2>2 DEF AttributesInv, SetUp
  <2>5. VersionsChecked' /\ IsFunction(func)'
    BY <2>1 DEF AttributesInv, VersionsChecked
  <2>6. InterruptChecked'
    BY <2>1, <2>2 DEF AttributesInv, InterruptChecked
  <2> QED BY <2>3, <2>4, <2>5, <2>6 DEF AttributesInv
<1> QED BY <1>1, <1>2, <1>3, <1>4, <1>5 DEF Next

-----------------------------------------------------------------------------
(***************************************************************************)
(* The theorems on the features and the attributes.                        *)
(***************************************************************************)
THEOREM AttributesInvariant == CallSpec => []AttributesInv
<1>1. CallInit => AttributesInv
  BY AttributesInit DEF CallInit
<1>2. AttributesInv /\ [CallNext]_<<vars, callVars>> => AttributesInv'
  <2>1. [CallNext]_<<vars, callVars>> => [Next]_vars
    BY DEF CallNext, CheckCall, EmitCall
  <2> QED BY <2>1, AttributesStep
<1> QED BY <1>1, <1>2, PTL DEF CallSpec

CallInv == AttributesInv /\ CallTypeOK

LEMMA CallInvariant == CallSpec => []CallInv
<1>1. CallInit => CallInv
  BY AttributesInit DEF CallInit, CallInv, CallTypeOK, AttributesInv, NoCall
<1>2. CallInv /\ [CallNext]_<<vars, callVars>> => CallInv'
  <2> SUFFICES ASSUME CallInv, [CallNext]_<<vars, callVars>> PROVE CallInv'
    OBVIOUS
  <2>1. [Next]_vars
    BY DEF CallNext, CheckCall, EmitCall
  <2>2. AttributesInv'
    BY <2>1, AttributesStep DEF CallInv
  <2>3. TypeOK'
    BY <2>2 DEF AttributesInv
  <2>4. CASE Next /\ UNCHANGED callVars
    <3>1. pc # "done"
      BY <2>4 DEF Next, handleTargetFeatures, HandleTarget, HandleTargetVersion,
                  HandleTargetClones, handleInterruptAttr, Handles, Finish
    <3>2. call = NoCall
      BY <3>1 DEF CallInv, CallTypeOK
    <3> QED BY <2>2, <2>3, <2>4, <3>2 DEF CallInv, CallTypeOK, callVars
  <2>5. CASE CheckCall
    <3>1. call' \in Calls
      BY <2>5 DEF CheckCall
    <3>2. DOMAIN call' # DOMAIN NoCall
      <4>1. DOMAIN call' = {"op", "suffix", "rm", "emitter", "args", "types", "result", "requires",
                            "builtin"}
        BY <3>1, CallsAssumption, Zenon
      <4> QED BY <4>1 DEF NoCall
    <3>3. call' # NoCall
      BY <3>2
    <3>4. outcome' \in {"accepted", "rejected"} /\ func.calls /\ pc = "done" /\ UNCHANGED vars
      BY <2>5 DEF CheckCall
    <3> QED BY <2>2, <2>3, <3>3, <3>4 DEF CallInv, CallTypeOK, vars
  <2>6. CASE EmitCall
    BY <2>2, <2>3, <2>6 DEF CallInv, CallTypeOK, EmitCall, vars
  <2>7. CASE UNCHANGED <<vars, callVars>>
    BY <2>2, <2>3, <2>7 DEF CallInv, CallTypeOK, vars, callVars
  <2> QED BY <2>4, <2>5, <2>6, <2>7 DEF CallNext
<1> QED BY <1>1, <1>2, PTL DEF CallSpec

\* The variables keep their types, the feature lists of the attributes included, and a call is
\* compiled only when its function is set up (handleTargetFeatures, parseTargetAttr,
\* EmitRISCVBuiltinExpr).
THEOREM TypeCorrect == CallSpec => []CallTypeOK
<1>1. CallInv => CallTypeOK
  BY DEF CallInv
<1> QED BY <1>1, CallInvariant, PTL

\* What the command line and the attributes leave is a target that exists: its extensions and
\* those of the function are closed under implication, ILP32E never meets D, and vscale has a
\* value in its range (handleTargetFeatures, initFeatureMap, getVScaleRange).
THEOREM TargetsSound == CallSpec => []TargetSound
<1>1. AttributesInv => TargetSound
  <2> SUFFICES ASSUME AttributesInv, pc \in {"attributes", "done"}
               PROVE  FeaturesClosed /\ VScaleRangeSound
    BY DEF TargetSound
  <2>1. target \in Targets /\ targetAttr \in Seq(Feature)
    BY DEF AttributesInv, TypeOK
  <2>2. isa = parseFeatures(target.features) /\ ~(abi = "ilp32e" /\ "d" \in isa)
    BY DEF AttributesInv, SetUp
  <2>3. Closed(isa) /\ Closed(FunctionFeatures)
    BY <2>1, <2>2, TargetType, FeaturesParsed, FunctionFeaturesKnown
  <2>4. FeaturesClosed
    BY <2>2, <2>3 DEF FeaturesClosed, Closed
  <2>5. target.vscale[1] \in Nat /\ target.vscale[2] \in Nat
    BY <2>1, TargetType
  <2>6. VScaleRangeSound
    BY <2>5, VScaleRange DEF VScaleRangeSound
  <2> QED BY <2>4, <2>6
<1> QED BY <1>1, AttributesInvariant, PTL

\* The function keeps the types of its first good interrupt attribute, with the extensions they
\* need: a target attribute that is handled after it takes none of them away
\* (handleInterruptAttr).
THEOREM InterruptsLegal == CallSpec => []InterruptLegal
<1>1. AttributesInv => InterruptLegal
  <2> SUFFICES ASSUME AttributesInv, interrupt # {} PROVE InterruptLegal
    BY DEF InterruptLegal
  <2>1. /\ interrupt \subseteq {"machine"} \cup CLICTypes \/ Cardinality(interrupt) = 1
        /\ \A t \in interrupt : RequiredExtension(t) \subseteq isa \cup FunctionFeatures
    BY DEF AttributesInv, InterruptChecked
  <2> QED BY <2>1 DEF InterruptLegal
<1> QED BY <1>1, AttributesInvariant, PTL

-----------------------------------------------------------------------------
(***************************************************************************)
(* The resolver.                                                           *)
(***************************************************************************)
\* A CPU passes the comparisons of some extensions exactly if it has them: no two share a bit.
LEMMA ConditionExact ==
  ASSUME NEW exts \in SUBSET DOMAIN FeatureBit, NEW cpu \in SUBSET DOMAIN FeatureBit
  PROVE  Holds(EmitRISCVCpuSupports(exts), cpu) <=> exts \subseteq cpu
<1> DEFINE bits == {FeatureBit[e] : e \in exts}
           Test(g) == {b[2] : b \in {c \in bits : c[1] = g}}
           condition == {<<g, Test(g)>> : g \in {b[1] : b \in bits}}
<1>1. EmitRISCVCpuSupports(exts) = condition
  BY DEF EmitRISCVCpuSupports
<1>2. Holds(condition, cpu) <=> \A e \in exts : Test(FeatureBit[e][1]) \subseteq FeatureBits(cpu, FeatureBit[e][1])
  <2>1. \A c \in condition : c[1] \in {b[1] : b \in bits} /\ c[2] = Test(c[1])
    <3> HIDE DEF Test
    <3> QED OBVIOUS
  <2>2. \A e \in exts : /\ <<FeatureBit[e][1], Test(FeatureBit[e][1])>> \in condition
                        /\ <<FeatureBit[e][1], Test(FeatureBit[e][1])>>[1] = FeatureBit[e][1]
                        /\ <<FeatureBit[e][1], Test(FeatureBit[e][1])>>[2] = Test(FeatureBit[e][1])
    <3> HIDE DEF Test
    <3> QED OBVIOUS
  <2>3. \A g \in {b[1] : b \in bits} : \E e \in exts : g = FeatureBit[e][1]
    OBVIOUS
  <2>4. ASSUME Holds(condition, cpu), NEW e \in exts
        PROVE  Test(FeatureBit[e][1]) \subseteq FeatureBits(cpu, FeatureBit[e][1])
    <3> DEFINE c == <<FeatureBit[e][1], Test(FeatureBit[e][1])>>
    <3>1. c \in condition /\ c[1] = FeatureBit[e][1] /\ c[2] = Test(FeatureBit[e][1])
      BY <2>2
    <3> HIDE DEF Test, condition, c
    <3> QED BY <2>4, <3>1 DEF Holds
  <2>5. ASSUME \A e \in exts : Test(FeatureBit[e][1]) \subseteq FeatureBits(cpu, FeatureBit[e][1]),
               NEW c \in condition
        PROVE  c[2] \subseteq FeatureBits(cpu, c[1])
    <3> HIDE DEF Test, condition
    <3> QED BY <2>1, <2>3, <2>5
  <2> HIDE DEF Test, condition
  <2> QED BY <2>4, <2>5 DEF Holds
<1>3. ASSUME \A e \in exts : Test(FeatureBit[e][1]) \subseteq FeatureBits(cpu, FeatureBit[e][1])
      PROVE  exts \subseteq cpu
  <2> SUFFICES ASSUME NEW e \in exts PROVE e \in cpu
    OBVIOUS
  <2> DEFINE g == FeatureBit[e][1]
  <2>1. FeatureBit[e][2] \in Test(g)
    OBVIOUS
  <2>2. FeatureBit[e][2] \in FeatureBits(cpu, g)
    <3> HIDE DEF Test
    <3> QED BY <1>3, <2>1
  <2>3. PICK d \in cpu : FeatureBit[d][1] = g /\ FeatureBit[d][2] = FeatureBit[e][2]
    BY <2>2 DEF FeatureBits
  <2>4. FeatureBit[d] \in Nat \X Nat /\ FeatureBit[e] \in Nat \X Nat
    BY ExtensionsAssumption
  <2>5. FeatureBit[d] = FeatureBit[e]
    BY <2>3, <2>4
  <2> QED BY <2>5, ExtensionsAssumption
<1>4. ASSUME exts \subseteq cpu, NEW e \in exts
      PROVE  Test(FeatureBit[e][1]) \subseteq FeatureBits(cpu, FeatureBit[e][1])
  BY <1>4 DEF FeatureBits
<1> HIDE DEF Test, condition
<1> QED BY <1>1, <1>2, <1>3, <1>4

LEMMA VersionPartFeatures ==
  ASSUME NEW a \in Parsed, NEW p, p.key \in {"arch+", "default", "priority"}
  PROVE  ParsePart(a, p).features = IF p.key = "arch+" THEN p.value ELSE a.features
<1>1. DOMAIN a = {"features", "cpu", "tune", "duplicate", "foundArch"}
  BY DEF Parsed
<1> QED BY <1>1 DEF ParsePart

\* The three readers of a version string that is well written agree on it.
LEMMA VersionRead ==
  ASSUME NEW v, IsVersion(v), WellWritten(v)
  PROVE  /\ AskedFor(v) = Named(parseTargetAttr(v).features)
         /\ AskedFor(v) \subseteq DOMAIN FeatureBit
         /\ AskedFor(v) = {} <=> parseTargetAttr(v).features = <<>>
         /\ getFMVPriority(v) = PriorityOf(v)
<1> DEFINE f == parseTargetAttr(v).features
<1>1. v \in Seq(ToSet(v)) /\ Len(v) \in Nat \ {0} /\ DOMAIN v = 1 .. Len(v)
  <2>1. v \in Seq(ToSet(v)) /\ v # <<>>
    BY DEF IsVersion, IsString, IsSequence
  <2> QED BY <2>1, EmptySeq
<1>2. PICK h : IsParsedPrefix(v, h) /\ parseTargetAttr(v) = h[Len(v)]
  BY ParsedPrefix DEF IsVersion
<1>3. \A k \in DOMAIN v : h[k - 1] \in Parsed /\ h[k] = ParsePart(h[k - 1], v[k])
  <2>1. \A k \in DOMAIN v : k - 1 \in 0 .. Len(v)
    BY <1>1
  <2> QED BY <1>1, <1>2, <2>1 DEF IsParsedPrefix
<1>3a. h[0].features = <<>>
  <2>1. h[0] = Unparsed
    BY <1>2 DEF IsParsedPrefix
  <2>2. Unparsed.features = <<>>
    BY DEF Unparsed
  <2> QED BY <2>1, <2>2
<1>4. \A i \in DOMAIN v : /\ v[i].key \in {"arch+", "default", "priority"} /\ ~v[i].spaced
                          /\ IsPart(v[i])
  BY DEF IsVersion, IsString, WellWritten
<1>5. ASSUME NEW i \in DOMAIN v, v[i].key = "arch+"
      PROVE  /\ v[i].value \in Seq(Feature) /\ v[i].value # <<>>
             /\ Named(v[i].value) \subseteq DOMAIN FeatureBit /\ Named(v[i].value) # {}
  <2>1. v[i].value \in Seq(Feature) /\ \A j \in DOMAIN v[i].value : v[i].value[j].exts # {}
    BY <1>4, <1>5 DEF IsPart
  <2>2. v[i].value # <<>> /\ \A j \in DOMAIN v[i].value : v[i].value[j].exts \subseteq DOMAIN FeatureBit
    BY <1>5 DEF IsVersion, isValidFMVExtension
  <2>3. 1 \in DOMAIN v[i].value
    BY <2>1, <2>2
  <2> QED BY <2>1, <2>2, <2>3 DEF Named
<1>6. \A i, j \in DOMAIN v : v[i].key = v[j].key => i = j
  BY DEF WellWritten
<1>7. Named(<<>>) = {}
  BY DEF Named
<1>7a. \A k \in DOMAIN v :
         h[k].features = IF v[k].key = "arch+" THEN v[k].value ELSE h[k - 1].features
  BY <1>3, <1>4, VersionPartFeatures
<1>7b. 1 \in DOMAIN v /\ 1 - 1 = 0 /\ 2 - 1 = 1
  BY <1>1
<1>8. CASE Len(v) = 1
  <2>1. DOMAIN v = {1} /\ Last(v) = v[1]
    BY <1>1, <1>8 DEF Last
  <2>2. v[1].key # "priority"
    <3> SUFFICES ASSUME v[1].key = "priority" PROVE FALSE
      OBVIOUS
    <3>1. HasPart(v, "priority")
      BY <2>1 DEF HasPart
    <3>2. HasPart(v, "arch+")
      BY <3>1 DEF WellWritten
    <3> QED BY <2>1, <3>2 DEF HasPart
  <2>3. getFMVPriority(v) = 0
    BY <1>8, <2>1, <2>2 DEF getFMVPriority
  <2>4. PriorityOf(v) = 0
    BY <2>1, <2>2 DEF PriorityOf
  <2>5. CASE v[1].key = "arch+"
    <3>1. f = v[1].value
      BY <1>2, <1>7a, <1>7b, <1>8, <2>5
    <3>2. AskedFor(v) = Named(v[1].value)
      BY <2>1, <2>5 DEF AskedFor
    <3> QED BY <1>5, <1>7, <2>1, <2>3, <2>4, <2>5, <3>1, <3>2
  <2>6. CASE v[1].key = "default"
    <3>1. f = <<>>
      BY <1>2, <1>3a, <1>7a, <1>7b, <1>8, <2>6
    <3>2. AskedFor(v) = {}
      BY <2>1, <2>6 DEF AskedFor
    <3> QED BY <1>7, <2>3, <2>4, <3>1, <3>2
  <2> QED BY <1>4, <2>1, <2>2, <2>5, <2>6
<1>9. CASE Len(v) # 1
  <2>1. 1 \in DOMAIN v /\ 2 \in DOMAIN v
    BY <1>1, <1>9
  <2>2. \A i \in DOMAIN v : v[i].key \in {"arch+", "priority"}
    <3>1. v # <<v[1]>>
      BY <1>9
    <3>2. ~HasPart(v, "default")
      BY <3>1 DEF WellWritten
    <3> QED BY <1>4, <3>2 DEF HasPart
  <2>3. Len(v) = 2
    <3> SUFFICES ASSUME Len(v) # 2 PROVE FALSE
      OBVIOUS
    <3>1. 3 \in DOMAIN v
      BY <1>1, <1>9
    <3>2. /\ v[1].key \in {"arch+", "priority"} /\ v[2].key \in {"arch+", "priority"}
          /\ v[3].key \in {"arch+", "priority"}
      BY <2>1, <2>2, <3>1
    <3>3. v[1].key # v[2].key /\ v[1].key # v[3].key /\ v[2].key # v[3].key
      BY <1>6, <2>1, <3>1
    <3> QED BY <3>2, <3>3
  <2>4. DOMAIN v = {1, 2} /\ Last(v) = v[2] /\ Len(Front(v)) = 1 /\ Front(v)[1] = v[1]
    <3>1. DOMAIN v = {1, 2} /\ Last(v) = v[2]
      BY <1>1, <2>3 DEF Last
    <3>2. Front(v) = SubSeq(v, 1, 1)
      BY <2>3 DEF Front
    <3>3. Len(SubSeq(v, 1, 1)) = 1 /\ SubSeq(v, 1, 1)[1] = v[1]
      BY <1>1, <2>1
    <3> QED BY <3>1, <3>2, <3>3
  <2>5. v[1].key # v[2].key
    BY <1>6, <2>1
  <2>6. CASE v[1].key = "arch+" /\ v[2].key = "priority"
    <3>1. f = v[1].value
      BY <1>2, <1>7a, <1>7b, <2>1, <2>3, <2>6
    <3>2. AskedFor(v) = Named(v[1].value)
      <4>1. {k \in DOMAIN v : v[k].key = "arch+"} = {1}
        BY <2>4, <2>6
      <4> QED BY <4>1 DEF AskedFor
    <3>3. getFMVPriority(v) = v[2].value
      BY <1>4, <2>1, <2>3, <2>4, <2>6 DEF getFMVPriority
    <3>4. PriorityOf(v) = v[2].value
      <4>1. {i \in DOMAIN v : v[i].key = "priority"} = {2}
        BY <2>4, <2>6
      <4> QED BY <4>1 DEF PriorityOf
    <3> QED BY <1>5, <2>1, <2>6, <3>1, <3>2, <3>3, <3>4
  <2>7. CASE v[1].key = "priority" /\ v[2].key = "arch+"
    <3>1. f = v[2].value
      BY <1>2, <1>7a, <1>7b, <2>1, <2>3, <2>7
    <3>2. AskedFor(v) = Named(v[2].value)
      <4>1. {k \in DOMAIN v : v[k].key = "arch+"} = {2}
        BY <2>4, <2>7
      <4> QED BY <4>1 DEF AskedFor
    <3>3. getFMVPriority(v) = v[1].value
      BY <1>4, <2>1, <2>3, <2>4, <2>7 DEF getFMVPriority
    <3>4. PriorityOf(v) = v[1].value
      <4>1. {i \in DOMAIN v : v[i].key = "priority"} = {1}
        BY <2>4, <2>7
      <4> QED BY <4>1 DEF PriorityOf
    <3> QED BY <1>5, <2>1, <2>7, <3>1, <3>2, <3>3, <3>4
  <2> QED BY <2>1, <2>2, <2>5, <2>6, <2>7
<1> QED BY <1>8, <1>9

\* The resolver runs a version the CPU has the extensions for, of the highest priority, and the
\* default only where no other can run, however the strings order their parts
\* (checkTargetVersionAttr, parseTargetAttr, getFMVPriority, EmitRISCVCpuSupports).
THEOREM ResolverCorrect == CallSpec => []ResolverPicksBest
<1>1. AttributesInv => ResolverPicksBest
  <2> SUFFICES ASSUME AttributesInv, \A i \in DOMAIN versions : WellWritten(versions[i]),
                      NEW cpu \in SUBSET DOMAIN FeatureBit
               PROVE  LET able == {i \in DOMAIN versions :
                            AskedFor(versions[i]) # {} /\ AskedFor(versions[i]) \subseteq cpu}
                      IN /\ Runs(cpu) = {i \in able : \A j \in able :
                              PriorityOf(versions[j]) <= PriorityOf(versions[i])}
                         /\ \A i \in DOMAIN versions :
                              AskedFor(versions[i]) # {} =>
                                /\ Condition(versions[i]) # {}
                                /\ Holds(Condition(versions[i]), DOMAIN FeatureBit)
    BY DEF ResolverPicksBest
  <2> DEFINE able == {i \in DOMAIN versions :
                        AskedFor(versions[i]) # {} /\ AskedFor(versions[i]) \subseteq cpu}
             passes == {i \in {j \in DOMAIN versions : parseTargetAttr(versions[j]).features # <<>>} :
                          Holds(Condition(versions[i]), cpu)}
  <2>1. \A i \in DOMAIN versions :
          LET v == versions[i]
          IN /\ AskedFor(v) = Named(parseTargetAttr(v).features)
             /\ AskedFor(v) \subseteq DOMAIN FeatureBit
             /\ AskedFor(v) = {} <=> parseTargetAttr(v).features = <<>>
             /\ getFMVPriority(v) = PriorityOf(v)
    BY VersionRead DEF AttributesInv, VersionsChecked
  <2>2. \A i \in DOMAIN versions :
          Holds(Condition(versions[i]), cpu) <=> AskedFor(versions[i]) \subseteq cpu
    BY <2>1, ConditionExact DEF Condition
  <2>3. passes = able
    BY <2>1, <2>2
  <2>4. Runs(cpu) = {i \in passes : \A j \in passes :
                       getFMVPriority(versions[j]) <= getFMVPriority(versions[i])}
    BY DEF Runs
  <2>5. Runs(cpu) = {i \in able : \A j \in able :
                       PriorityOf(versions[j]) <= PriorityOf(versions[i])}
    <3>1. \A i \in able : getFMVPriority(versions[i]) = PriorityOf(versions[i])
      BY <2>1
    <3> HIDE DEF able, passes
    <3> QED BY <2>3, <2>4, <3>1
  <2>6. ASSUME NEW i \in DOMAIN versions, AskedFor(versions[i]) # {}
        PROVE  /\ Condition(versions[i]) # {}
               /\ Holds(Condition(versions[i]), DOMAIN FeatureBit)
    <3>1. Condition(versions[i]) = EmitRISCVCpuSupports(AskedFor(versions[i]))
      BY <2>1 DEF Condition
    <3>2. Holds(Condition(versions[i]), DOMAIN FeatureBit)
      BY <2>1, <3>1, ConditionExact
    <3>3. PICK e \in AskedFor(versions[i]) : e \in DOMAIN FeatureBit
      BY <2>1, <2>6
    <3>4. Condition(versions[i]) # {}
      <4> DEFINE A == AskedFor(versions[i])
                 bits == {FeatureBit[x] : x \in A}
                 groups == {b[1] : b \in bits}
      <4>1. FeatureBit[e][1] \in groups
        BY <3>3
      <4>2. A \subseteq DOMAIN FeatureBit
        BY <2>1
      <4>3. EmitRISCVCpuSupports(A) = {<<g, {b[2] : b \in {c \in bits : c[1] = g}}>> : g \in groups}
        BY <4>2 DEF EmitRISCVCpuSupports
      <4> HIDE DEF A, bits, groups
      <4>4. EmitRISCVCpuSupports(A) # {}
        BY <4>1, <4>3
      <4> QED BY <3>1, <4>4 DEF A
    <3> QED BY <3>2, <3>4
  <2> QED BY <2>5, <2>6
<1> QED BY <1>1, AttributesInvariant, PTL

-----------------------------------------------------------------------------
(***************************************************************************)
(* The target attribute.                                                   *)
(***************************************************************************)
\* Once the one architecture of a string has been read, no part changes the features any more.
LEMMA ArchDecides ==
  ASSUME NEW s, IsString(s), NEW i \in DOMAIN s, s[i].key \in {"arch", "arch+"},
         \A j \in DOMAIN s : s[j].key \in {"arch", "arch+"} => j = i,
         ~HasPart(s, "exts")
  PROVE  parseTargetAttr(s).features =
           IF s[i].key = "arch+" THEN s[i].value ELSE handleFullArchString(s[i].value)
<1> DEFINE n == Len(s)
           given == IF s[i].key = "arch+" THEN s[i].value ELSE handleFullArchString(s[i].value)
<1>1. s \in Seq(ToSet(s)) /\ n \in Nat /\ DOMAIN s = 1 .. n
  BY DEF IsString, IsSequence
<1>2. PICK h : IsParsedPrefix(s, h) /\ parseTargetAttr(s) = h[n]
  BY ParsedPrefix
<1>3. \A k \in 1 .. n : k - 1 \in 0 .. n /\ h[k - 1] \in Parsed /\ h[k] = ParsePart(h[k - 1], s[k])
  BY <1>1, <1>2 DEF IsParsedPrefix
<1> DEFINE Decided(k) == h[k].foundArch = TRUE /\ h[k].features = given
           Q == {k \in Nat : i <= k /\ k <= n => Decided(k)}
<1>4. i \in 1 .. n
  BY <1>1
<1>5. Decided(i)
  <2>1. h[i - 1] \in Parsed /\ h[i] = ParsePart(h[i - 1], s[i])
    BY <1>3, <1>4
  <2>2. DOMAIN h[i - 1] = {"features", "cpu", "tune", "duplicate", "foundArch"}
    BY <2>1 DEF Parsed
  <2> QED BY <2>1, <2>2 DEF ParsePart
<1>6. ASSUME NEW k \in 1 .. n, k # i, Decided(k - 1) PROVE Decided(k)
  <2> DEFINE a == h[k - 1]
             p == s[k]
  <2>1. a \in Parsed /\ h[k] = ParsePart(a, p)
    BY <1>3
  <2>2. DOMAIN a = {"features", "cpu", "tune", "duplicate", "foundArch"}
    BY <2>1 DEF Parsed
  <2>3. a.foundArch = TRUE /\ a.features = given
    BY <1>6
  <2>4. p.key \notin {"arch", "arch+", "exts"}
    BY <1>1, <1>6 DEF HasPart
  <2> HIDE DEF a, p, given
  <2>5. ParsePart(a, p).foundArch = TRUE /\ ParsePart(a, p).features = given
    <3>1. CASE p.key = "cpu"
      BY <2>2, <2>3, <3>1 DEF ParsePart, SetsFeatures
    <3>2. CASE p.key = "tune"
      BY <2>2, <2>3, <3>2 DEF ParsePart
    <3>3. CASE p.key \notin {"cpu", "tune"}
      BY <2>3, <2>4, <3>3 DEF ParsePart
    <3> QED BY <3>1, <3>2, <3>3
  <2> QED BY <2>1, <2>5
<1> HIDE DEF Decided
<1>7. 0 \in Q
  BY <1>4
<1>8. ASSUME NEW k \in Nat, k \in Q PROVE k + 1 \in Q
  <2>1. SUFFICES ASSUME i <= k + 1, k + 1 <= n PROVE Decided(k + 1)
    OBVIOUS
  <2>2. CASE k + 1 = i
    BY <1>5, <2>2
  <2>3. CASE k + 1 # i
    <3>1. k + 1 \in 1 .. n /\ (k + 1) - 1 = k /\ i <= k /\ k <= n
      BY <1>1, <1>4, <2>1, <2>3
    <3> QED BY <1>6, <1>8, <2>3, <3>1
  <2> QED BY <2>2, <2>3
<1>9. Nat \subseteq Q
  <2> HIDE DEF Q
  <2> QED BY <1>7, <1>8, InductiveSet
<1>10. Decided(n)
  BY <1>1, <1>4, <1>9
<1> QED BY <1>2, <1>10 DEF Decided

LEMMA OneElement ==
  ASSUME NEW S, Cardinality(S) = 1, IsFiniteSet(S)
  PROVE  \E x : S = {x}
<1>1. Cardinality({}) = 0
  BY FS_EmptySet
<1>2. PICK x : x \in S
  BY <1>1
<1>3. Cardinality(S \ {x}) = 0 /\ IsFiniteSet(S \ {x})
  <2>1. IsFiniteSet(S \ {x}) /\ Cardinality(S \ {x}) = Cardinality(S) - 1
    BY <1>2, FS_RemoveElement
  <2> QED BY <2>1
<1>4. S \ {x} = {}
  BY <1>3, FS_EmptySet
<1> QED BY <1>2, <1>4

\* What a target attribute with one architecture means does not depend on the order of its
\* parts: the architecture decides over the CPU's and the command line's (parseTargetAttr).
THEOREM FeaturesCorrect == CallSpec => FeaturesAsAsked
<1> DEFINE s == Attribute.strings[1]
           arch == {i \in DOMAIN s : s[i].key \in {"arch", "arch+"}}
           p == s[CHOOSE i \in arch : TRUE]
           Asked == FunctionFeatures' =
                      IF p.key = "arch" /\ p.value # {} THEN parseFeatures(Plus(p.value))
                      ELSE IF p.key = "arch" THEN parseFeatures(target.features)
                      ELSE parseFeatures(target.features \o p.value)
<1>1. ASSUME AttributesInv, HandleTarget, Cardinality(arch) = 1, ~HasPart(s, "exts"),
             ~parseTargetAttr(s).duplicate
      PROVE  Asked
  <2>1. /\ IsAttribute(Attribute) /\ Attribute.kind = "target" /\ UNCHANGED target
        /\ Handles("target")
    BY <1>1, HandlesKeeps DEF HandleTarget
  <2>2. IsString(s) /\ IsFiniteSet(DOMAIN s)
    <3>1. IsString(s)
      BY <2>1 DEF IsAttribute, IsSequence
    <3>2. DOMAIN s = 1 .. Len(s) /\ Len(s) \in Nat
      <4> HIDE DEF s
      <4> QED BY <3>1 DEF IsString, IsSequence
    <3> HIDE DEF s
    <3> QED BY <3>1, <3>2, FS_Interval
  <2>3. targetAttr' = parseTargetAttr(s).features
    BY <1>1 DEF HandleTarget
  <2> HIDE DEF s
  <2>4. PICK i : arch = {i}
    <3>1. IsFiniteSet(arch)
      BY <2>2, FS_Subset
    <3> HIDE DEF arch
    <3> QED BY <1>1, <3>1, OneElement
  <2>5. i \in DOMAIN s /\ s[i].key \in {"arch", "arch+"} /\ p = s[i]
        /\ \A j \in DOMAIN s : s[j].key \in {"arch", "arch+"} => j = i
    <3>1. (CHOOSE j \in arch : TRUE) = i
      <4> HIDE DEF arch
      <4> QED BY <2>4
    <3>2. i \in arch /\ \A j \in arch : j = i
      <4> HIDE DEF arch
      <4> QED BY <2>4
    <3> QED BY <3>1, <3>2
  <2> HIDE DEF p, arch
  <2>6. targetAttr' = IF p.key = "arch+" THEN p.value ELSE handleFullArchString(p.value)
    BY <1>1, <2>2, <2>3, <2>5, ArchDecides
  <2>7. target \in Targets /\ target.features \in Seq(Feature) /\ IsPart(p)
    BY <1>1, <2>2, <2>5, TargetType DEF AttributesInv, TypeOK, IsString
  <2>8. targetAttr' \in Seq(Feature)
    <3>1. CASE p.key = "arch+"
      BY <2>6, <2>7, <3>1 DEF IsPart
    <3>2. CASE p.key = "arch"
      <4>1. p.value \in SUBSET Extensions
        BY <2>7, <3>2 DEF IsPart
      <4> QED BY <2>6, <3>2, <4>1, FullArchType
    <3> QED BY <2>5, <3>1, <3>2
  <2>9. FunctionFeatures' = parseFeatures(target.features \o targetAttr')
    <3>1. target.features \o targetAttr' \in Seq(Feature)
      BY <2>7, <2>8
    <3>2. FunctionFeatures' = initFeatureMap(target.features \o targetAttr')
      BY <2>1 DEF FunctionFeatures
    <3> QED BY <3>1, <3>2, FeaturesParsed
  <2>10. CASE p.key = "arch+"
    BY <2>6, <2>9, <2>10
  <2>11. CASE p.key = "arch" /\ p.value = {}
    <3>1. targetAttr' = <<>>
      BY <2>6, <2>11 DEF handleFullArchString
    <3>2. target.features \o <<>> = target.features
      BY <2>7
    <3> QED BY <2>9, <2>11, <3>1, <3>2
  <2>12. CASE p.key = "arch" /\ p.value # {}
    <3>1. p.value \in SUBSET Extensions
      BY <2>7, <2>12 DEF IsPart
    <3>2. parseFeatures(target.features \o handleFullArchString(p.value)) = parseFeatures(Plus(p.value))
      BY <2>7, <2>12, <3>1, FullArchParsed
    <3> QED BY <2>6, <2>9, <2>12, <3>2
  <2> QED BY <2>5, <2>10, <2>11, <2>12
<1> HIDE DEF Asked
<1>2. AttributesInv /\ [CallNext]_<<vars, callVars>> =>
        [HandleTarget =>
           ((Cardinality(arch) = 1
               /\ Cardinality({i \in DOMAIN s : s[i].key = "cpu" /\ s[i].value \in DOMAIN CPUArch}) = 1
               /\ ~HasPart(s, "exts") /\ ~parseTargetAttr(s).duplicate) => Asked)]_vars
  BY <1>1
<1> QED BY <1>2, AttributesInvariant, PTL DEF CallSpec, FeaturesAsAsked, Asked

-----------------------------------------------------------------------------
(***************************************************************************)
(* The theorems on the checks of a call.                                   *)
(***************************************************************************)
\* What CheckCall asks of a call: it is accepted exactly when its types exist and Sema finds
\* nothing wrong with it.
Supported(c) ==
  /\ \A i \in DOMAIN c.types :
       c.types[i] # <<>> => checkRVVTypeSupport(FunctionFeatures, c.types[i])
  /\ CheckBuiltinFunctionCall(c)
Decided == outcome # "none" => call \in Calls /\ (outcome # "rejected" <=> Supported(call))
CheckedInv == CallInv /\ Decided

LEMMA SupportedNow ==
  ASSUME UNCHANGED <<isa, target, targetAttr>>, NEW CONSTANT c, call' = c
  PROVE  Supported(call)' <=> Supported(c)
<1>1. FunctionFeatures' = FunctionFeatures
  BY DEF FunctionFeatures
<1>2. \A e : HasFeature(e)' <=> HasFeature(e)
  BY <1>1 DEF HasFeature
<1>3. /\ CheckVGet(call)' <=> CheckVGet(c)
      /\ CheckVSet(call)' <=> CheckVSet(c)
      /\ CheckVCImmediate(call)' <=> CheckVCImmediate(c)
      /\ CheckVCRegister(call)' <=> CheckVCRegister(c)
      /\ CheckNTL(call)' <=> CheckNTL(c)
      /\ CheckRoundingMode(call)' <=> CheckRoundingMode(c)
  OBVIOUS
<1>4. HasRequired(call)' <=> HasRequired(c)
  BY <1>2 DEF HasRequired
<1>5. IsMulHigh(call)' <=> IsMulHigh(c)
  OBVIOUS
<1>6. CheckKeySchedule(call)' <=> CheckKeySchedule(c)
  BY <1>2 DEF CheckKeySchedule, CheckInvalidVLENandLMUL
<1>7. CheckAES(call)' <=> CheckAES(c)
  BY <1>2 DEF CheckAES, CheckInvalidVLENandLMUL
<1>8. CheckSHA2(call)' <=> CheckSHA2(c)
  BY <1>2 DEF CheckSHA2, CheckInvalidVLENandLMUL
<1>9. CheckVSetVL(Arg(call, 1), Arg(call, 2))' <=> CheckVSetVL(Arg(c, 1), Arg(c, 2))
  BY <1>2 DEF CheckVSetVL
<1>10. CheckVSetVL(Arg(call, 0), Arg(call, 1))' <=> CheckVSetVL(Arg(c, 0), Arg(c, 1))
  BY <1>2 DEF CheckVSetVL
<1>11. CheckBuiltinFunctionCall(call)' <=> CheckBuiltinFunctionCall(c)
  BY <1>2, <1>3, <1>4, <1>5, <1>6, <1>7, <1>8, <1>9, <1>10 DEF CheckBuiltinFunctionCall
<1> QED
  BY <1>1, <1>11 DEF Supported

LEMMA CheckedInvariant == CallSpec => []CheckedInv
<1>1. CallInit => CheckedInv
  BY AttributesInit
     DEF CallInit, CheckedInv, CallInv, CallTypeOK, AttributesInv, NoCall, Decided
<1>2. CheckedInv /\ CallInv' /\ [CallNext]_<<vars, callVars>> => CheckedInv'
  <2> SUFFICES ASSUME CheckedInv, CallInv', [CallNext]_<<vars, callVars>> PROVE Decided'
    BY DEF CheckedInv
  <2>1. CASE Next /\ UNCHANGED callVars
    <3>1. pc # "done"
      BY <2>1 DEF Next, handleTargetFeatures, HandleTarget, HandleTargetVersion,
                  HandleTargetClones, handleInterruptAttr, Handles, Finish
    <3>2. outcome = "none"
      BY <3>1 DEF CheckedInv, CallInv, CallTypeOK
    <3> QED BY <2>1, <3>2 DEF Decided, callVars
  <2>2. CASE CheckCall
    <3>1. PICK c \in Calls :
            /\ call' = c
            /\ outcome' = IF /\ \A i \in DOMAIN c.types :
                                  c.types[i] # <<>> => checkRVVTypeSupport(FunctionFeatures, c.types[i])
                             /\ CheckBuiltinFunctionCall(c)
                            THEN "accepted" ELSE "rejected"
      BY <2>2 DEF CheckCall
    <3>2. outcome' # "rejected" <=> Supported(c)
      BY <3>1 DEF Supported
    <3>3. Supported(call)' <=> Supported(c)
      <4>1. UNCHANGED <<isa, target, targetAttr>>
        BY <2>2 DEF CheckCall, vars
      <4> QED BY <3>1, <4>1, SupportedNow
    <3> QED BY <3>1, <3>2, <3>3 DEF Decided
  <2>3. CASE EmitCall \/ UNCHANGED <<vars, callVars>>
    <3>1. UNCHANGED <<isa, target, targetAttr, call>>
      BY <2>3 DEF EmitCall, vars, callVars
    <3>2. /\ outcome # "none" <=> outcome' # "none"
          /\ outcome # "rejected" <=> outcome' # "rejected"
      BY <2>3 DEF EmitCall, callVars
    <3>3. PICK c : c = call
      OBVIOUS
    <3>4. Supported(call)' <=> Supported(c)
      BY <3>1, <3>3, SupportedNow
    <3>5. Supported(c) <=> Supported(call)
      BY <3>3
    <3> QED BY <3>1, <3>2, <3>3, <3>4, <3>5 DEF CheckedInv, Decided
  <2> QED BY <2>1, <2>2, <2>3 DEF CallNext
<1>3. CallSpec => []CallInv
  BY CallInvariant
<1> QED BY <1>1, <1>2, <1>3, PTL DEF CallSpec

LEMMA DependentPasses ==
  ASSUME NEW low, NEW high, NEW n
  PROVE  /\ BuiltinConstantArg(Dependent) /\ BuiltinConstantArgRange(Dependent, low, high)
         /\ BuiltinConstantArgMultiple(Dependent, n) /\ CheckLMUL(Dependent)
BY DEF BuiltinConstantArg, BuiltinConstantArgRange, BuiltinConstantArgMultiple, CheckLMUL, Dependent

\* The arguments of the builtins Sema looks at are there.
LEMMA ArgumentsThere ==
  ASSUME NEW c \in Calls
  PROVE  /\ Len(c.args) \in Nat /\ DOMAIN c.args = 1 .. Len(c.args)
         /\ Len(c.args) = NumArguments(c)
         /\ \A i \in DOMAIN c.args : c.args[i].kind \in {"constant", "runtime", "dependent"}
         /\ c.rm => <<c.op, c.emitter>> \in Rounders /\ c.suffix \in SuffixesOf(c.emitter)
         /\ (\E r \in Rounders : c.op = r[1]) => c.rm
         /\ c.op \in CryptoOps => IsCryptoTypes(c)
BY CallsAssumption, Zenon

LEMMA ThreeParts ==
  ASSUME NEW S, NEW a \in Seq(S), NEW b \in Seq(S), NEW c \in Seq(S)
  PROVE  a \o b \o c \in Seq(S) /\ Len(a \o b \o c) = Len(a) + Len(b) + Len(c)
OBVIOUS

LEMMA MarkedAt ==
  ASSUME NEW S, NEW s \in Seq(S), NEW x, NEW y, x \notin S, x # y
  PROVE  /\ Len(s \o <<x>> \o <<y>>) = Len(s) + 2
         /\ \A i \in DOMAIN (s \o <<x>> \o <<y>>) : (s \o <<x>> \o <<y>>)[i] = x => i = Len(s) + 1
<1> DEFINE t == s \o <<x>> \o <<y>>
<1>1. /\ Len(t) = Len(s) + 2 /\ DOMAIN t = 1 .. Len(t)
      /\ \A i \in 1 .. Len(s) : t[i] = s[i] /\ s[i] \in S
      /\ t[Len(s) + 2] = y
  OBVIOUS
<1> HIDE DEF t
<1>2. ASSUME NEW i \in DOMAIN t, t[i] = x PROVE i = Len(s) + 1
  <2>1. Len(s) \in Nat
    OBVIOUS
  <2>2. i \notin 1 .. Len(s) /\ i # Len(s) + 2
    BY <1>1, <1>2
  <2> QED BY <1>1, <2>1, <2>2
<1> QED BY <1>1, <1>2 DEF t

\* Where the rounding mode of a form is: after the mask, the passthru and the sources.
Before(f) ==
  (IF Masked(f) THEN 1 ELSE 0) + (IF HasPassthru(f) THEN 1 ELSE 0)
    + (CASE f.emitter \in {"funary", "fconv"} -> 1
         [] f.emitter \in {"fma", "wfma"}     -> 3
         [] OTHER                             -> 2)
RoundingEmitters ==
  {"averaging", "clip", "funary", "fconv", "fbinary", "wfbinary", "reduction", "fma", "wfma", ""}

LEMMA RoundingModeAt ==
  ASSUME NEW f, f.rm, f.emitter \in RoundingEmitters
  PROVE  /\ Len(Arguments(f)) = Before(f) + 2
         /\ \A i \in DOMAIN Arguments(f) : Arguments(f)[i] = "rm" => i = Before(f) + 1
<1> DEFINE ArgNames == {"mask", "passthru", "op0", "op1", "op2", "vd"}
           mask == IF Masked(f) THEN <<"mask">> ELSE <<>>
           pass == IF HasPassthru(f) THEN <<"passthru">> ELSE <<>>
           sources == Sources(f.emitter)
           s == mask \o pass \o sources
<1>1. Arguments(f) = s \o <<"rm">> \o <<"vl">>
  BY DEF Arguments
<1>2. mask \in Seq(ArgNames) /\ Len(mask) = IF Masked(f) THEN 1 ELSE 0
  <2>1. <<>> \in Seq(ArgNames) /\ Len(<<>>) = 0
    OBVIOUS
  <2>2. <<"mask">> \in Seq(ArgNames) /\ Len(<<"mask">>) = 1
    OBVIOUS
  <2> HIDE DEF ArgNames
  <2> QED BY <2>1, <2>2
<1>3. pass \in Seq(ArgNames) /\ Len(pass) = IF HasPassthru(f) THEN 1 ELSE 0
  <2>1. <<>> \in Seq(ArgNames) /\ Len(<<>>) = 0
    OBVIOUS
  <2>2. <<"passthru">> \in Seq(ArgNames) /\ Len(<<"passthru">>) = 1
    OBVIOUS
  <2> HIDE DEF ArgNames
  <2> QED BY <2>1, <2>2
<1>4. /\ sources \in Seq(ArgNames)
      /\ Len(sources) = CASE f.emitter \in {"funary", "fconv"} -> 1
                         [] f.emitter \in {"fma", "wfma"}     -> 3
                         [] OTHER                             -> 2
  <2>1. <<"op0">> \in Seq(ArgNames) /\ Len(<<"op0">>) = 1
    OBVIOUS
  <2>2. <<"vd", "op1", "op2">> \in Seq(ArgNames) /\ Len(<<"vd", "op1", "op2">>) = 3
    OBVIOUS
  <2>3. <<"op0", "op1">> \in Seq(ArgNames) /\ Len(<<"op0", "op1">>) = 2
    OBVIOUS
  <2> HIDE DEF ArgNames
  <2>4. f.emitter \notin {"vleff", "segloadff", "vsse", "stridedsegstore", "vsxei",
                         "indexedsegstore", "vse", "segstore", "segload", "stridedsegload",
                         "indexedsegload", "vneg", "vnot", "vmmv", "vfneg", "vwcvt", "vncvt"}
    BY Zenon DEF RoundingEmitters
  <2>5. sources = CASE f.emitter \in {"funary", "fconv"} -> <<"op0">>
                    [] f.emitter \in {"fma", "wfma"}     -> <<"vd", "op1", "op2">>
                    [] OTHER                             -> <<"op0", "op1">>
    BY <2>4 DEF Sources
  <2> HIDE DEF sources
  <2> QED BY <2>1, <2>2, <2>3, <2>5
<1>5. "rm" \notin ArgNames /\ "rm" # "vl"
  OBVIOUS
<1> HIDE DEF ArgNames, mask, pass, sources
<1>6. s \in Seq(ArgNames) /\ Len(s) = Before(f)
  <2>1. s \in Seq(ArgNames) /\ Len(s) = Len(mask) + Len(pass) + Len(sources)
    <3>1. mask \in Seq(ArgNames) /\ pass \in Seq(ArgNames) /\ sources \in Seq(ArgNames)
      BY <1>2, <1>3, <1>4
    <3> QED BY <3>1, ThreeParts
  <2> QED BY <1>2, <1>3, <1>4, <2>1 DEF Before
<1> HIDE DEF s
<1> QED BY <1>1, <1>5, <1>6, MarkedAt

\* The suffix of an unmasked form, by a name.
NoSuffix == ""

LEMMA PairIn ==
  ASSUME NEW ops, NEW suffixes, NEW op, NEW suffix
  PROVE  <<op, suffix>> \in Pairs(ops, suffixes) <=> op \in ops /\ suffix \in suffixes
BY DEF Pairs

LEMMA NoSuffixIsNew == NoSuffix \notin {"tu", "m", "tum", "tumu", "mu"}
BY Zenon DEF NoSuffix

\* The index Sema has for the rounding mode of each form.
FormsAt(op, suffix) ==
  /\ <<op, suffix>> \in VxrmAt2 <=> op \in {"fixed", "vsmul"} /\ suffix = NoSuffix
  /\ <<op, suffix>> \in VxrmAt3 <=> op \in {"fixed", "vsmul"} /\ suffix \in {"tu", "m"}
  /\ <<op, suffix>> \in VxrmAt4 <=> op \in {"fixed", "vsmul"} /\ suffix \in {"tum", "tumu", "mu"}
  /\ <<op, suffix>> \in FrmAt1 <=> op = "unary" /\ suffix = NoSuffix
  /\ <<op, suffix>> \in FrmAt2 <=>
       \/ op \in {"binary", "reduction", "fnrclip"} /\ suffix = NoSuffix
       \/ op = "unary" /\ suffix \in {"tu", "m"}
  /\ <<op, suffix>> \in FrmAt3 <=>
       \/ op \in {"binary", "reduction", "fnrclip"} /\ suffix = "tu"
       \/ op \in {"binary", "reduction"} /\ suffix = "m"
       \/ op = "unary" /\ suffix \in {"tum", "tumu", "mu"}
       \/ op = "fma" /\ suffix \in {NoSuffix, "tu"}
  /\ <<op, suffix>> \in FrmAt4 <=>
       \/ op \in {"binary", "fma", "fnrclip"} /\ suffix \in {"tum", "tumu", "mu"}
       \/ op = "reduction" /\ suffix = "tum"
       \/ op = "fma" /\ suffix = "m"

LEMMA RoundingModeForms ==
  ASSUME NEW op, NEW suffix
  PROVE  FormsAt(op, suffix)
<1>1. /\ VxrmAt2 = Pairs({"fixed", "vsmul"}, {NoSuffix})
      /\ FrmAt1 = Pairs({"unary"}, {NoSuffix})
      /\ FrmAt2 = Pairs({"binary", "reduction", "fnrclip"}, {NoSuffix})
                    \cup Pairs({"unary"}, {"tu", "m"})
      /\ FrmAt3 = Pairs({"binary", "reduction", "fnrclip"}, {"tu"})
                    \cup Pairs({"binary", "reduction"}, {"m"})
                    \cup Pairs({"unary"}, {"tum", "tumu", "mu"})
                    \cup Pairs({"fma"}, {NoSuffix, "tu"})
  BY Zenon DEF VxrmAt2, FrmAt1, FrmAt2, FrmAt3, NoSuffix
<1>2. <<op, suffix>> \in VxrmAt2 <=> op \in {"fixed", "vsmul"} /\ suffix = NoSuffix
  BY <1>1, PairIn
<1>3. <<op, suffix>> \in VxrmAt3 <=> op \in {"fixed", "vsmul"} /\ suffix \in {"tu", "m"}
  BY PairIn DEF VxrmAt3
<1>4. <<op, suffix>> \in VxrmAt4 <=> op \in {"fixed", "vsmul"} /\ suffix \in {"tum", "tumu", "mu"}
  BY PairIn DEF VxrmAt4
<1>5. <<op, suffix>> \in FrmAt1 <=> op = "unary" /\ suffix = NoSuffix
  BY <1>1, PairIn
<1>6. <<op, suffix>> \in FrmAt2 <=>
        \/ op \in {"binary", "reduction", "fnrclip"} /\ suffix = NoSuffix
        \/ op = "unary" /\ suffix \in {"tu", "m"}
  BY <1>1, PairIn
<1>7. <<op, suffix>> \in FrmAt3 <=>
        \/ op \in {"binary", "reduction", "fnrclip"} /\ suffix = "tu"
        \/ op \in {"binary", "reduction"} /\ suffix = "m"
        \/ op = "unary" /\ suffix \in {"tum", "tumu", "mu"}
        \/ op = "fma" /\ suffix \in {NoSuffix, "tu"}
  BY <1>1, PairIn
<1>8. <<op, suffix>> \in FrmAt4 <=>
        \/ op \in {"binary", "fma", "fnrclip"} /\ suffix \in {"tum", "tumu", "mu"}
        \/ op = "reduction" /\ suffix = "tum"
        \/ op = "fma" /\ suffix = "m"
  BY PairIn DEF FrmAt4
<1> QED BY <1>2, <1>3, <1>4, <1>5, <1>6, <1>7, <1>8, Zenon DEF FormsAt

\* Where the mask and the passthru of a form are.
LEMMA FormShape ==
  ASSUME NEW f
  PROVE  /\ Masked(f) <=> f.suffix \in {"m", "tum", "tumu", "mu"}
         /\ HasPassthru(f) <=>
              /\ f.emitter \notin Stores \cup {"fma", "wfma", "vmmv"}
              /\ f.suffix \in {"tu", "tum", "tumu", "mu"}
BY DEF Masked, HasPassthru

\* What the classes of operations with a rounding mode have for emitters and suffixes.
NoEmitter == ""

LEMMA RoundersAre ==
  ASSUME NEW op, NEW emitter, <<op, emitter>> \in Rounders
  PROVE  /\ emitter \in RoundingEmitters /\ emitter \notin Stores \cup {"vmmv"}
         /\ op \in {"fixed", "vsmul", "unary", "binary", "reduction", "fma", "fnrclip"}
         /\ op = "fma" <=> emitter \in {"fma", "wfma"}
         /\ op = "unary" <=> emitter \in {"funary", "fconv"}
         /\ op = "reduction" <=> emitter = "reduction"
<1>1. Rounders = {<<"fixed", "averaging">>, <<"vsmul", "averaging">>, <<"fixed", "clip">>,
                  <<"unary", "funary">>, <<"unary", "fconv">>, <<"binary", "fbinary">>,
                  <<"binary", "wfbinary">>, <<"reduction", "reduction">>, <<"fma", "fma">>,
                  <<"fma", "wfma">>, <<"fnrclip", NoEmitter>>}
  BY Zenon DEF Rounders, NoEmitter
<1>2. RoundingEmitters = {"averaging", "clip", "funary", "fconv", "fbinary", "wfbinary",
                          "reduction", "fma", "wfma", NoEmitter}
  BY Zenon DEF RoundingEmitters, NoEmitter
<1>3. NoEmitter \notin {"fma", "wfma", "funary", "fconv", "reduction", "vmmv", "vsse", "vsxei",
                       "vse", "segstore", "stridedsegstore", "indexedsegstore"}
  BY Zenon DEF NoEmitter
<1> QED BY <1>1, <1>2, <1>3 DEF Stores

LEMMA OpsRounding ==
  ASSUME NEW op \in {"fixed", "vsmul", "unary", "binary", "reduction", "fma", "fnrclip"}
  PROVE  \E r \in Rounders : op = r[1]
<1>1. {<<"fixed", "averaging">>, <<"vsmul", "averaging">>, <<"unary", "funary">>,
       <<"binary", "fbinary">>, <<"reduction", "reduction">>, <<"fma", "fma">>,
       <<"fnrclip", NoEmitter>>} \subseteq Rounders
  BY Zenon DEF Rounders, NoEmitter
<1> QED BY <1>1

LEMMA SuffixesAre ==
  ASSUME NEW emitter, NEW suffix, suffix \in SuffixesOf(emitter)
  PROVE  /\ suffix \in {NoSuffix, "tu", "m", "tum", "tumu", "mu"}
         /\ emitter = "reduction" => suffix \in {NoSuffix, "tu", "m", "tum"}
BY Zenon DEF SuffixesOf, NoSuffix, Stores

\* The rounding mode Sema checks is the one code generation moves.
LEMMA RoundingModeChecked ==
  ASSUME NEW c \in Calls, c.rm, CheckRoundingMode(c), <<c.op, c.suffix>> # <<"fnrclip", "m">>,
         NEW i \in DOMAIN Arguments(Form(c)), Arguments(Form(c))[i] = "rm"
  PROVE  InRange(c.args[i], IF c.op \in {"fixed", "vsmul"} THEN 0 .. 3 ELSE 0 .. 4)
<1> DEFINE f == Form(c)
           checked == IF c.op \in {"fixed", "vsmul"} THEN 3 ELSE 4
<1>1. <<c.op, c.emitter>> \in Rounders /\ c.suffix \in SuffixesOf(c.emitter)
  BY ArgumentsThere
<1>2. /\ c.emitter \in RoundingEmitters
      /\ c.op \in {"fixed", "vsmul", "unary", "binary", "reduction", "fma", "fnrclip"}
      /\ c.op = "fma" <=> c.emitter \in {"fma", "wfma"}
      /\ c.op = "unary" <=> c.emitter \in {"funary", "fconv"}
      /\ c.op = "reduction" <=> c.emitter = "reduction"
  BY <1>1, RoundersAre
<1>3. /\ c.suffix \in {NoSuffix, "tu", "m", "tum", "tumu", "mu"}
      /\ c.emitter = "reduction" => c.suffix \in {NoSuffix, "tu", "m", "tum"}
  BY <1>1, SuffixesAre
<1>4. f.rm /\ f.emitter = c.emitter /\ f.suffix = c.suffix
  BY DEF Form
<1>5. i = Before(f) + 1 /\ Len(c.args) = Before(f) + 2 /\ Before(f) \in Nat
  <2>1. Len(c.args) = Len(Arguments(f))
    <3>1. Len(c.args) = NumArguments(c)
      BY ArgumentsThere, Zenon
    <3> QED BY <3>1 DEF NumArguments
  <2>2. Before(f) \in Nat
    BY DEF Before
  <2> QED BY <1>2, <1>4, <2>1, <2>2, RoundingModeAt
<1>6. BuiltinConstantArgRange(c.args[i], 0, checked)
  <2>1. /\ Masked(f) <=> c.suffix \in {"m", "tum", "tumu", "mu"}
        /\ HasPassthru(f) <=> c.op # "fma" /\ c.suffix \in {"tu", "tum", "tumu", "mu"}
    BY <1>1, <1>2, <1>4, FormShape, RoundersAre
  <2>2. Arg(c, i - 1) = c.args[i]
    BY <1>5 DEF Arg
  <2>a. FormsAt(c.op, c.suffix)
    BY RoundingModeForms
  <2>3. LET form == <<c.op, c.suffix>>
        IN /\ form \in VxrmAt2 => BuiltinConstantArgRange(Arg(c, 2), 0, 3)
           /\ form \in VxrmAt3 => BuiltinConstantArgRange(Arg(c, 3), 0, 3)
           /\ form \in VxrmAt4 => BuiltinConstantArgRange(Arg(c, 4), 0, 3)
           /\ form \in FrmAt1 => BuiltinConstantArgRange(Arg(c, 1), 0, 4)
           /\ form \in FrmAt2 => BuiltinConstantArgRange(Arg(c, 2), 0, 4)
           /\ form \in FrmAt3 \ FrmAt2 => BuiltinConstantArgRange(Arg(c, 3), 0, 4)
           /\ form \in FrmAt4 \ FrmAt3 => BuiltinConstantArgRange(Arg(c, 4), 0, 4)
    BY DEF CheckRoundingMode
  <2>4. CASE c.op \in {"fixed", "vsmul"}
    <3>1. CASE c.suffix = NoSuffix
      <4>1. i - 1 = 2
        BY <1>2, <1>3, <1>4, <1>5, <2>1, <2>4, <3>1, NoSuffixIsNew DEF Before
      <4>2. <<c.op, c.suffix>> \in VxrmAt2
        BY <1>2, <1>3, <2>a, <2>4, <3>1, NoSuffixIsNew DEF FormsAt
      <4> QED BY <2>2, <2>3, <2>4, <4>1, <4>2
    <3>2. CASE c.suffix \in {"tu", "m"}
      <4>1. i - 1 = 3
        BY <1>2, <1>3, <1>4, <1>5, <2>1, <2>4, <3>2, NoSuffixIsNew DEF Before
      <4>2. <<c.op, c.suffix>> \in VxrmAt3
        BY <1>2, <1>3, <2>a, <2>4, <3>2, NoSuffixIsNew DEF FormsAt
      <4> QED BY <2>2, <2>3, <2>4, <4>1, <4>2
    <3>3. CASE c.suffix \in {"tum", "tumu", "mu"}
      <4>1. i - 1 = 4
        BY <1>2, <1>3, <1>4, <1>5, <2>1, <2>4, <3>3, NoSuffixIsNew DEF Before
      <4>2. <<c.op, c.suffix>> \in VxrmAt4
        BY <1>2, <1>3, <2>a, <2>4, <3>3, NoSuffixIsNew DEF FormsAt
      <4> QED BY <2>2, <2>3, <2>4, <4>1, <4>2
    <3> QED BY <1>3, <3>1, <3>2, <3>3
  <2>5. CASE c.op = "unary"
    <3>1. CASE c.suffix = NoSuffix
      <4>1. i - 1 = 1
        BY <1>2, <1>3, <1>4, <1>5, <2>1, <2>5, <3>1, NoSuffixIsNew DEF Before
      <4>2. <<c.op, c.suffix>> \in FrmAt1
        BY <1>2, <1>3, <2>a, <2>5, <3>1, NoSuffixIsNew DEF FormsAt
      <4> QED BY <2>2, <2>3, <2>5, <4>1, <4>2
    <3>2. CASE c.suffix \in {"tu", "m"}
      <4>1. i - 1 = 2
        BY <1>2, <1>3, <1>4, <1>5, <2>1, <2>5, <3>2, NoSuffixIsNew DEF Before
      <4>2. <<c.op, c.suffix>> \in FrmAt2
        BY <1>2, <1>3, <2>a, <2>5, <3>2, NoSuffixIsNew DEF FormsAt
      <4> QED BY <2>2, <2>3, <2>5, <4>1, <4>2
    <3>3. CASE c.suffix \in {"tum", "tumu", "mu"}
      <4>1. i - 1 = 3
        BY <1>2, <1>3, <1>4, <1>5, <2>1, <2>5, <3>3, NoSuffixIsNew DEF Before
      <4>2. <<c.op, c.suffix>> \in FrmAt3 \ FrmAt2
        BY <1>2, <1>3, <2>a, <2>5, <3>3, NoSuffixIsNew DEF FormsAt
      <4> QED BY <2>2, <2>3, <2>5, <4>1, <4>2
    <3> QED BY <1>3, <3>1, <3>2, <3>3
  <2>6. CASE c.op \in {"binary", "fnrclip"}
    <3>1. CASE c.suffix = NoSuffix
      <4>1. i - 1 = 2
        BY <1>2, <1>3, <1>4, <1>5, <2>1, <2>6, <3>1, NoSuffixIsNew DEF Before
      <4>2. <<c.op, c.suffix>> \in FrmAt2
        BY <1>2, <1>3, <2>a, <2>6, <3>1, NoSuffixIsNew DEF FormsAt
      <4> QED BY <2>2, <2>3, <2>6, <4>1, <4>2
    <3>2. CASE c.suffix \in {"tu", "m"}
      <4>1. i - 1 = 3
        BY <1>2, <1>3, <1>4, <1>5, <2>1, <2>6, <3>2, NoSuffixIsNew DEF Before
      <4>2. <<c.op, c.suffix>> \in FrmAt3 \ FrmAt2
        BY <1>2, <1>3, <2>a, <2>6, <3>2, NoSuffixIsNew DEF FormsAt
      <4> QED BY <2>2, <2>3, <2>6, <4>1, <4>2
    <3>3. CASE c.suffix \in {"tum", "tumu", "mu"}
      <4>1. i - 1 = 4
        BY <1>2, <1>3, <1>4, <1>5, <2>1, <2>6, <3>3, NoSuffixIsNew DEF Before
      <4>2. <<c.op, c.suffix>> \in FrmAt4 \ FrmAt3
        BY <1>2, <1>3, <2>a, <2>6, <3>3, NoSuffixIsNew DEF FormsAt
      <4> QED BY <2>2, <2>3, <2>6, <4>1, <4>2
    <3> QED BY <1>3, <3>1, <3>2, <3>3
  <2>7. CASE c.op = "reduction"
    <3>1. CASE c.suffix = NoSuffix
      <4>1. i - 1 = 2
        BY <1>2, <1>3, <1>4, <1>5, <2>1, <2>7, <3>1, NoSuffixIsNew DEF Before
      <4>2. <<c.op, c.suffix>> \in FrmAt2
        BY <1>2, <1>3, <2>a, <2>7, <3>1, NoSuffixIsNew DEF FormsAt
      <4> QED BY <2>2, <2>3, <2>7, <4>1, <4>2
    <3>2. CASE c.suffix \in {"tu", "m"}
      <4>1. i - 1 = 3
        BY <1>2, <1>3, <1>4, <1>5, <2>1, <2>7, <3>2, NoSuffixIsNew DEF Before
      <4>2. <<c.op, c.suffix>> \in FrmAt3 \ FrmAt2
        BY <1>2, <1>3, <2>a, <2>7, <3>2, NoSuffixIsNew DEF FormsAt
      <4> QED BY <2>2, <2>3, <2>7, <4>1, <4>2
    <3>3. CASE c.suffix \in {"tum", "tumu", "mu"}
      <4>1. i - 1 = 4
        BY <1>2, <1>3, <1>4, <1>5, <2>1, <2>7, <3>3, NoSuffixIsNew DEF Before
      <4>2. <<c.op, c.suffix>> \in FrmAt4 \ FrmAt3
        BY <1>2, <1>3, <2>a, <2>7, <3>3, NoSuffixIsNew DEF FormsAt
      <4> QED BY <2>2, <2>3, <2>7, <4>1, <4>2
    <3> QED BY <1>3, <3>1, <3>2, <3>3
  <2>8. CASE c.op = "fma"
    <3>1. CASE c.suffix \in {NoSuffix, "tu"}
      <4>1. i - 1 = 3
        BY <1>2, <1>3, <1>4, <1>5, <2>1, <2>8, <3>1, NoSuffixIsNew DEF Before
      <4>2. <<c.op, c.suffix>> \in FrmAt3 \ FrmAt2
        BY <1>2, <1>3, <2>a, <2>8, <3>1, NoSuffixIsNew DEF FormsAt
      <4> QED BY <2>2, <2>3, <2>8, <4>1, <4>2
    <3>2. CASE c.suffix \in {"m", "tum", "tumu", "mu"}
      <4>1. i - 1 = 4
        BY <1>2, <1>3, <1>4, <1>5, <2>1, <2>8, <3>2, NoSuffixIsNew DEF Before
      <4>2. <<c.op, c.suffix>> \in FrmAt4 \ FrmAt3
        BY <1>2, <1>3, <2>a, <2>8, <3>2, NoSuffixIsNew DEF FormsAt
      <4> QED BY <2>2, <2>3, <2>8, <4>1, <4>2
    <3> QED BY <1>3, <3>1, <3>2
  <2> QED BY <1>2, <2>4, <2>5, <2>6, <2>7, <2>8
<1>7. c.args[i].kind \in {"constant", "runtime", "dependent"}
  <2>1. DOMAIN c.args = 1 .. Len(c.args)
    BY ArgumentsThere, Zenon
  <2>2. i \in DOMAIN c.args
    BY <1>5, <2>1
  <2> QED BY <2>2, ArgumentsThere, Zenon
<1> QED BY <1>6, <1>7 DEF InRange, BuiltinConstantArgRange, BuiltinConstantArg

VCImmediateOps == {"vc_i_se", "vc_iv_se", "vc_v_i", "vc_v_iv", "vc_ivv"}
VCRegisterOps ==
  {"vc_x_se", "vc_xv_se", "vc_v_x", "vc_xvv", "vc_v_xv", "vc_fv_se", "vc_fvv", "vc_v_fv"}

LEMMA ChecksOf ==
  ASSUME NEW c, CheckBuiltinFunctionCall(c)
  PROVE  /\ c.op \in VCImmediateOps => CheckVCImmediate(c)
         /\ c.op \in VCRegisterOps => CheckVCRegister(c)
         /\ c.op \in {"vaeskf1", "vaeskf2", "vsm4k", "vsm3c"} => CheckKeySchedule(c)
         /\ c.op = "vaes" => CheckAES(c)
         /\ c.op = "vsha2" => CheckSHA2(c)
         /\ c.op \in {"fixed", "vsmul", "unary", "binary", "reduction", "fma", "fnrclip"} =>
              CheckRoundingMode(c)
BY DEF CheckBuiltinFunctionCall, VCImmediateOps, VCRegisterOps

LEMMA FieldsNamed ==
  ASSUME NEW op, op \notin VCImmediateOps \cup VCRegisterOps
  PROVE  FieldsOf(op) = <<>>
BY DEF FieldsOf, VCImmediateOps, VCRegisterOps

\* The immediates Sema checks of a coprocessor builtin are those that have a field, at the index
\* of the field.
LEMMA FieldsChecked ==
  ASSUME NEW c \in Calls, CheckBuiltinFunctionCall(c)
  PROVE  \A i \in DOMAIN FieldsOf(c.op) :
           FieldsOf(c.op)[i] \notin {"vs2", "vd", "xs1", "fs1", "sew"} =>
             InRange(c.args[i], FieldRange(FieldsOf(c.op)[i]))
<1> DEFINE Kinds(n) ==
             \A i \in 1 .. n : c.args[i].kind \in {"constant", "runtime", "dependent"}
           Fits == \A i \in DOMAIN FieldsOf(c.op) :
                     FieldsOf(c.op)[i] \notin {"vs2", "vd", "xs1", "fs1", "sew"} =>
                       InRange(c.args[i], FieldRange(FieldsOf(c.op)[i]))
<1>a. FieldsOf(c.op) # <<>> => Kinds(Len(FieldsOf(c.op)))
  <2>1. /\ DOMAIN c.args = 1 .. Len(c.args) /\ Len(c.args) = NumArguments(c)
        /\ \A i \in DOMAIN c.args : c.args[i].kind \in {"constant", "runtime", "dependent"}
    BY ArgumentsThere, Zenon
  <2>2. FieldsOf(c.op) # <<>> => ~c.rm
    <3>1. SUFFICES ASSUME c.rm PROVE FieldsOf(c.op) = <<>>
      OBVIOUS
    <3>2. c.op \in {"fixed", "vsmul", "unary", "binary", "reduction", "fma", "fnrclip"}
      BY <3>1, ArgumentsThere, RoundersAre
    <3> QED BY <3>2 DEF FieldsOf
  <2>3. FieldsOf(c.op) # <<>> =>
          c.op \in VCImmediateOps \cup VCRegisterOps
    BY FieldsNamed
  <2>4. FieldsOf(c.op) # <<>> => NumArguments(c) = Len(FieldsOf(c.op))
    BY <2>2, <2>3 DEF NumArguments, VCImmediateOps, VCRegisterOps
  <2> QED BY <2>1, <2>4
<1>b. /\ c.op \in VCImmediateOps => CheckVCImmediate(c)
      /\ c.op \in VCRegisterOps => CheckVCRegister(c)
  BY ChecksOf
<1>1. CASE c.op = "vc_i_se"
  <2>1. FieldsOf(c.op) = <<"bit_27_26", "bit_24_20", "bit_11_7", "simm5", "sew", "log2lmul">>
    BY <1>1 DEF FieldsOf
  <2>2. Kinds(6)
    BY <1>a, <2>1
  <2>3. /\ BuiltinConstantArgRange(c.args[1], 0, 3)
        /\ BuiltinConstantArgRange(c.args[2], 0, 31)
        /\ BuiltinConstantArgRange(c.args[3], 0, 31)
        /\ BuiltinConstantArgRange(c.args[4], -16, 15)
        /\ CheckLMUL(c.args[6])
    BY <1>1, <1>b DEF VCImmediateOps, CheckVCImmediate, Bits2, Bit1, Register, Simm5, Arg
  <2> QED BY <2>1, <2>2, <2>3
          DEF InRange, FieldRange, BuiltinConstantArgRange, BuiltinConstantArg, CheckLMUL
<1>2. CASE c.op = "vc_iv_se"
  <2>1. FieldsOf(c.op) = <<"bit_27_26", "bit_11_7", "vs2", "simm5">>
    BY <1>2 DEF FieldsOf
  <2>2. Kinds(4)
    BY <1>a, <2>1
  <2>3. /\ BuiltinConstantArgRange(c.args[1], 0, 3)
        /\ BuiltinConstantArgRange(c.args[2], 0, 31)
        /\ BuiltinConstantArgRange(c.args[4], -16, 15)
    BY <1>2, <1>b DEF VCImmediateOps, CheckVCImmediate, Bits2, Bit1, Register, Simm5, Arg
  <2> QED BY <2>1, <2>2, <2>3
          DEF InRange, FieldRange, BuiltinConstantArgRange, BuiltinConstantArg, CheckLMUL
<1>3. CASE c.op = "vc_v_i"
  <2>1. FieldsOf(c.op) = <<"bit_27_26", "bit_24_20", "simm5">>
    BY <1>3 DEF FieldsOf
  <2>2. Kinds(3)
    BY <1>a, <2>1
  <2>3. /\ BuiltinConstantArgRange(c.args[1], 0, 3)
        /\ BuiltinConstantArgRange(c.args[2], 0, 31)
        /\ BuiltinConstantArgRange(c.args[3], -16, 15)
    BY <1>3, <1>b DEF VCImmediateOps, CheckVCImmediate, Bits2, Bit1, Register, Simm5, Arg
  <2> QED BY <2>1, <2>2, <2>3
          DEF InRange, FieldRange, BuiltinConstantArgRange, BuiltinConstantArg, CheckLMUL
<1>4. CASE c.op = "vc_v_iv"
  <2>1. FieldsOf(c.op) = <<"bit_27_26", "vs2", "simm5">>
    BY <1>4 DEF FieldsOf
  <2>2. Kinds(3)
    BY <1>a, <2>1
  <2>3. /\ BuiltinConstantArgRange(c.args[1], 0, 3)
        /\ BuiltinConstantArgRange(c.args[3], -16, 15)
    BY <1>4, <1>b DEF VCImmediateOps, CheckVCImmediate, Bits2, Bit1, Register, Simm5, Arg
  <2> QED BY <2>1, <2>2, <2>3
          DEF InRange, FieldRange, BuiltinConstantArgRange, BuiltinConstantArg, CheckLMUL
<1>5. CASE c.op = "vc_ivv"
  <2>1. FieldsOf(c.op) = <<"bit_27_26", "vd", "vs2", "simm5">>
    BY <1>5 DEF FieldsOf
  <2>2. Kinds(4)
    BY <1>a, <2>1
  <2>3. /\ BuiltinConstantArgRange(c.args[1], 0, 3)
        /\ BuiltinConstantArgRange(c.args[4], -16, 15)
    BY <1>5, <1>b DEF VCImmediateOps, CheckVCImmediate, Bits2, Bit1, Register, Simm5, Arg
  <2> QED BY <2>1, <2>2, <2>3
          DEF InRange, FieldRange, BuiltinConstantArgRange, BuiltinConstantArg, CheckLMUL
<1>6. CASE c.op = "vc_x_se"
  <2>1. FieldsOf(c.op) = <<"bit_27_26", "bit_24_20", "bit_11_7", "xs1", "sew", "log2lmul">>
    BY <1>6 DEF FieldsOf
  <2>2. Kinds(6)
    BY <1>a, <2>1
  <2>3. /\ BuiltinConstantArgRange(c.args[1], 0, 3)
        /\ BuiltinConstantArgRange(c.args[2], 0, 31)
        /\ BuiltinConstantArgRange(c.args[3], 0, 31)
        /\ CheckLMUL(c.args[6])
    BY <1>6, <1>b DEF VCRegisterOps, CheckVCRegister, Bits2, Bit1, Register, Simm5, Arg
  <2> QED BY <2>1, <2>2, <2>3
          DEF InRange, FieldRange, BuiltinConstantArgRange, BuiltinConstantArg, CheckLMUL
<1>7. CASE c.op = "vc_xv_se"
  <2>1. FieldsOf(c.op) = <<"bit_27_26", "bit_11_7", "vs2", "xs1">>
    BY <1>7 DEF FieldsOf
  <2>2. Kinds(4)
    BY <1>a, <2>1
  <2>3. /\ BuiltinConstantArgRange(c.args[1], 0, 3)
        /\ BuiltinConstantArgRange(c.args[2], 0, 31)
    BY <1>7, <1>b DEF VCRegisterOps, CheckVCRegister, Bits2, Bit1, Register, Simm5, Arg
  <2> QED BY <2>1, <2>2, <2>3
          DEF InRange, FieldRange, BuiltinConstantArgRange, BuiltinConstantArg, CheckLMUL
<1>8. CASE c.op = "vc_v_x"
  <2>1. FieldsOf(c.op) = <<"bit_27_26", "bit_24_20", "xs1">>
    BY <1>8 DEF FieldsOf
  <2>2. Kinds(3)
    BY <1>a, <2>1
  <2>3. /\ BuiltinConstantArgRange(c.args[1], 0, 3)
        /\ BuiltinConstantArgRange(c.args[2], 0, 31)
    BY <1>8, <1>b DEF VCRegisterOps, CheckVCRegister, Bits2, Bit1, Register, Simm5, Arg
  <2> QED BY <2>1, <2>2, <2>3
          DEF InRange, FieldRange, BuiltinConstantArgRange, BuiltinConstantArg, CheckLMUL
<1>9. CASE c.op = "vc_xvv"
  <2>1. FieldsOf(c.op) = <<"bit_27_26", "vd", "vs2", "xs1">>
    BY <1>9 DEF FieldsOf
  <2>2. Kinds(4)
    BY <1>a, <2>1
  <2>3. /\ BuiltinConstantArgRange(c.args[1], 0, 3)
    BY <1>9, <1>b DEF VCRegisterOps, CheckVCRegister, Bits2, Bit1, Register, Simm5, Arg
  <2> QED BY <2>1, <2>2, <2>3
          DEF InRange, FieldRange, BuiltinConstantArgRange, BuiltinConstantArg, CheckLMUL
<1>10. CASE c.op = "vc_v_xv"
  <2>1. FieldsOf(c.op) = <<"bit_27_26", "vs2", "xs1">>
    BY <1>10 DEF FieldsOf
  <2>2. Kinds(3)
    BY <1>a, <2>1
  <2>3. /\ BuiltinConstantArgRange(c.args[1], 0, 3)
    BY <1>10, <1>b DEF VCRegisterOps, CheckVCRegister, Bits2, Bit1, Register, Simm5, Arg
  <2> QED BY <2>1, <2>2, <2>3
          DEF InRange, FieldRange, BuiltinConstantArgRange, BuiltinConstantArg, CheckLMUL
<1>11. CASE c.op = "vc_fv_se"
  <2>1. FieldsOf(c.op) = <<"bit_26", "bit_11_7", "vs2", "fs1">>
    BY <1>11 DEF FieldsOf
  <2>2. Kinds(4)
    BY <1>a, <2>1
  <2>3. /\ BuiltinConstantArgRange(c.args[1], 0, 1)
        /\ BuiltinConstantArgRange(c.args[2], 0, 31)
    BY <1>11, <1>b DEF VCRegisterOps, CheckVCRegister, Bits2, Bit1, Register, Simm5, Arg
  <2> QED BY <2>1, <2>2, <2>3
          DEF InRange, FieldRange, BuiltinConstantArgRange, BuiltinConstantArg, CheckLMUL
<1>12. CASE c.op = "vc_fvv"
  <2>1. FieldsOf(c.op) = <<"bit_26", "vd", "vs2", "fs1">>
    BY <1>12 DEF FieldsOf
  <2>2. Kinds(4)
    BY <1>a, <2>1
  <2>3. /\ BuiltinConstantArgRange(c.args[1], 0, 1)
    BY <1>12, <1>b DEF VCRegisterOps, CheckVCRegister, Bits2, Bit1, Register, Simm5, Arg
  <2> QED BY <2>1, <2>2, <2>3
          DEF InRange, FieldRange, BuiltinConstantArgRange, BuiltinConstantArg, CheckLMUL
<1>13. CASE c.op = "vc_v_fv"
  <2>1. FieldsOf(c.op) = <<"bit_26", "vs2", "fs1">>
    BY <1>13 DEF FieldsOf
  <2>2. Kinds(3)
    BY <1>a, <2>1
  <2>3. /\ BuiltinConstantArgRange(c.args[1], 0, 1)
    BY <1>13, <1>b DEF VCRegisterOps, CheckVCRegister, Bits2, Bit1, Register, Simm5, Arg
  <2> QED BY <2>1, <2>2, <2>3
          DEF InRange, FieldRange, BuiltinConstantArgRange, BuiltinConstantArg, CheckLMUL
<1>14. CASE c.op \notin VCImmediateOps \cup VCRegisterOps
  <2>1. FieldsOf(c.op) = <<>>
    BY <1>14, FieldsNamed
  <2> QED BY <2>1
<1> QED BY <1>1, <1>2, <1>3, <1>4, <1>5, <1>6, <1>7, <1>8, <1>9, <1>10, <1>11, <1>12, <1>13, <1>14
       DEF VCImmediateOps, VCRegisterOps

\* An element group that Sema finds to fit a type does fit its registers.
VScaleOf(vlen) == IF vlen < 64 THEN 1 ELSE vlen \div 64

LEMMA GroupFits ==
  ASSUME NEW type, type.elem \in {32, 64}, type.elts \in {1, 2, 4, 8, 16},
         NEW egw \in {128, 256}, CheckInvalidVLENandLMUL(type, egw)
  PROVE  type.elem * type.elts * VScaleOf(MinVLen(isa \cup FunctionFeatures)) >= egw
<1> DEFINE exts == isa \cup FunctionFeatures
           vlen == MinVLen(exts)
           egs == egw \div type.elem
<1>1. /\ vlen \in {0, 32, 64, 128, 256, 512, 1024, 2048, 4096, 8192, 16384, 32768, 65536}
      /\ \A e \in exts \cap DOMAIN VLen : VLen[e] <= vlen
  BY MinVLenType DEF VLens
<1>2. \/ egs <= type.elts
      \/ \E e \in exts \cap DOMAIN VLen : VLen[e] = (egs \div type.elts) * 64
  BY DEF CheckInvalidVLENandLMUL, HasFeature
<1> HIDE DEF exts, vlen
<1>3. vlen \in Int /\ VScaleOf(vlen) \in Int /\ VScaleOf(vlen) >= 1
  BY <1>1 DEF VScaleOf
<1>4. CASE egs <= type.elts
  <2>1. type.elem * type.elts >= egw /\ type.elem * type.elts \in Int
    BY <1>4
  <2> QED BY <1>3, <2>1 DEF vlen, exts
<1>5. CASE ~(egs <= type.elts)
  <2>1. vlen >= (egs \div type.elts) * 64
    BY <1>1, <1>2, <1>5
  <2>2. VScaleOf(vlen) >= egs \div type.elts
    BY <1>1, <1>5, <2>1 DEF VScaleOf
  <2> QED BY <1>3, <1>5, <2>2 DEF vlen, exts
<1> QED BY <1>4, <1>5

LEMMA GroupsChecked ==
  ASSUME call \in Calls, CheckBuiltinFunctionCall(call)
  PROVE  GroupsFit
<1> SUFFICES ASSUME call.op \in CryptoOps, NEW i \in DOMAIN call.types
             PROVE  call.types[i].elem * call.types[i].elts
                      * VScaleOf(MinVLen(isa \cup FunctionFeatures)) >= GroupWidth
  BY DEF GroupsFit, VScaleOf
<1>1. IsCryptoTypes(call)
  BY ArgumentsThere
<1>2. /\ call.types[i].elem \in IF call.op = "vsha2" THEN {32, 64} ELSE {32}
      /\ call.types[i].elts \in {1, 2, 4, 8, 16}
      /\ call.op \in {"vsm3c", "vsha2"} => call.types[i] = call.types[1]
  BY <1>1 DEF IsCryptoTypes
<1>3. GroupWidth \in {128, 256}
  BY <1>2 DEF GroupWidth
<1>4. CheckInvalidVLENandLMUL(call.types[i], GroupWidth)
  <2>1. CASE call.op = "vsm3c"
    <3>1. CheckKeySchedule(call)
      BY <2>1, ChecksOf
    <3>2. CheckInvalidVLENandLMUL(call.types[1], 256)
      BY <2>1, <3>1 DEF CheckKeySchedule, HasCheckedSources
    <3> QED BY <1>2, <2>1, <3>2 DEF GroupWidth
  <2>2. CASE call.op \in {"vaeskf1", "vaeskf2", "vsm4k"}
    <3>1. CheckKeySchedule(call)
      BY <2>2, ChecksOf
    <3>2. i = 1 \/ (HasCheckedSources(call) /\ i = 2)
      BY <1>1, <2>2 DEF IsCryptoTypes
    <3>3. CheckInvalidVLENandLMUL(call.types[i], 128)
      BY <2>2, <3>1, <3>2 DEF CheckKeySchedule
    <3> QED BY <2>2, <3>3 DEF GroupWidth
  <2>3. CASE call.op = "vaes"
    <3>1. CheckAES(call)
      BY <2>3, ChecksOf
    <3>2. i \in {1, 2}
      BY <1>1, <2>3 DEF IsCryptoTypes
    <3> QED BY <2>3, <3>1, <3>2 DEF CheckAES, GroupWidth
  <2>4. CASE call.op = "vsha2"
    <3>1. CheckSHA2(call)
      BY <2>4, ChecksOf
    <3>2. i \in 1 .. 3
      BY <1>1, <2>4 DEF IsCryptoTypes
    <3>3. GroupWidth = call.types[1].elem * 4
      BY <1>2, <2>4 DEF GroupWidth
    <3> QED BY <3>1, <3>2, <3>3 DEF CheckSHA2
  <2> QED BY <2>1, <2>2, <2>3, <2>4 DEF CryptoOps
<1> QED BY <1>2, <1>3, <1>4, GroupFits

\* A call that is accepted can be encoded and executed on every machine the function may run
\* on: its immediates fit the fields they are encoded in, its rounding mode is the one of the
\* argument that code generation moves, and its element groups fit the registers
\* (CheckBuiltinFunctionCall, CheckInvalidVLENandLMUL).
THEOREM AcceptedFits == CallSpec => []OperandsFit
<1>1. CheckedInv => OperandsFit
  <2> SUFFICES ASSUME CheckedInv, outcome \in {"accepted", "emitted"}
               PROVE  RoundingModeFits /\ FieldsFit /\ GroupsFit
    BY DEF OperandsFit
  <2>1. call \in Calls /\ CheckBuiltinFunctionCall(call)
    BY DEF CheckedInv, Decided, Supported
  <2>2. RoundingModeFits
    <3> SUFFICES ASSUME call.rm, <<call.op, call.suffix>> # <<"fnrclip", "m">>,
                        NEW i \in DOMAIN Arguments(Form(call)), Arguments(Form(call))[i] = "rm"
                 PROVE  InRange(call.args[i],
                                IF call.op \in {"fixed", "vsmul"} THEN 0 .. 3 ELSE 0 .. 4)
      BY DEF RoundingModeFits
    <3>1. call.op \in {"fixed", "vsmul", "unary", "binary", "reduction", "fma", "fnrclip"}
      BY <2>1, ArgumentsThere, RoundersAre
    <3>2. CheckRoundingMode(call)
      BY <2>1, <3>1, ChecksOf
    <3> QED BY <2>1, <3>2, RoundingModeChecked
  <2>3. FieldsFit
    BY <2>1, FieldsChecked DEF FieldsFit
  <2>4. GroupsFit
    BY <2>1, GroupsChecked
  <2> QED BY <2>2, <2>3, <2>4
<1> QED BY <1>1, CheckedInvariant, PTL

\* A form with a rounding mode at an index has so many arguments.
LEMMA RoundingModeThere ==
  ASSUME NEW c \in Calls
  PROVE  LET form == <<c.op, c.suffix>>
         IN /\ form \in FrmAt1 => Len(c.args) >= 2
            /\ form \in VxrmAt2 \cup FrmAt2 => Len(c.args) >= 3
            /\ form \in VxrmAt3 \cup FrmAt3 => Len(c.args) >= 4
            /\ form \in VxrmAt4 \cup FrmAt4 => Len(c.args) >= 5
<1> DEFINE f == Form(c)
<1>1. FormsAt(c.op, c.suffix)
  BY RoundingModeForms
<1>2. CASE c.op \notin {"fixed", "vsmul", "unary", "binary", "reduction", "fma", "fnrclip"}
  BY <1>1, <1>2 DEF FormsAt
<1>3. CASE c.op \in {"fixed", "vsmul", "unary", "binary", "reduction", "fma", "fnrclip"}
  <2>1. c.rm
    <3>1. \E r \in Rounders : c.op = r[1]
      BY <1>3, OpsRounding
    <3> QED BY <3>1, ArgumentsThere, Zenon
  <2>2. /\ c.emitter \in RoundingEmitters /\ c.emitter \notin Stores \cup {"vmmv"}
        /\ c.op = "fma" <=> c.emitter \in {"fma", "wfma"}
        /\ c.op = "unary" <=> c.emitter \in {"funary", "fconv"}
    BY <2>1, ArgumentsThere, RoundersAre
  <2>3. f.rm /\ f.emitter = c.emitter /\ f.suffix = c.suffix
    BY <2>1 DEF Form
  <2>4. Len(c.args) = Before(f) + 2
    <3>1. Len(c.args) = NumArguments(c)
      BY ArgumentsThere, Zenon
    <3>2. NumArguments(c) = Len(Arguments(f))
      BY <2>1 DEF NumArguments
    <3> QED BY <2>2, <2>3, <3>1, <3>2, RoundingModeAt
  <2>5. /\ Masked(f) <=> c.suffix \in {"m", "tum", "tumu", "mu"}
        /\ HasPassthru(f) <=> c.op # "fma" /\ c.suffix \in {"tu", "tum", "tumu", "mu"}
    BY <2>2, <2>3, FormShape
  <2>6. Before(f) = (IF Masked(f) THEN 1 ELSE 0) + (IF HasPassthru(f) THEN 1 ELSE 0)
                      + (IF c.op = "unary" THEN 1 ELSE IF c.op = "fma" THEN 3 ELSE 2)
    BY <2>2, <2>3 DEF Before
  <2> QED BY <1>1, <2>4, <2>5, <2>6, NoSuffixIsNew DEF FormsAt
<1> QED BY <1>2, <1>3

\* A call with dependent arguments only.
LEMMA AllDependent ==
  ASSUME NEW c \in Calls, CheckBuiltinFunctionCall(c), c.op # "sf_vtzero"
  PROVE  CheckBuiltinFunctionCall([c EXCEPT !.args = [i \in DOMAIN c.args |-> Dependent]])
<1> DEFINE n == Len(c.args)
           d == [c EXCEPT !.args = [i \in DOMAIN c.args |-> Dependent]]
<1>1. /\ DOMAIN c.args = 1 .. n /\ n \in Nat /\ n = NumArguments(c)
      /\ DOMAIN c = {"op", "suffix", "rm", "emitter", "args", "types", "result", "requires",
                     "builtin"}
  BY ArgumentsThere, CallsAssumption, Zenon
<1>2. /\ d.op = c.op /\ d.suffix = c.suffix /\ d.types = c.types /\ d.result = c.result
      /\ d.requires = c.requires /\ d.args = [i \in 1 .. n |-> Dependent]
  BY <1>1
<1> SUFFICES CheckBuiltinFunctionCall(d)
  OBVIOUS
<1> HIDE DEF d
<1>3. /\ Len(d.args) = n
      /\ n >= 1 => Arg(d, 0) = Dependent
      /\ n >= 2 => Arg(d, 1) = Dependent
      /\ n >= 3 => Arg(d, 2) = Dependent
      /\ n >= 4 => Arg(d, 3) = Dependent
      /\ n >= 5 => Arg(d, 4) = Dependent
      /\ n >= 6 => Arg(d, 5) = Dependent
  BY <1>1, <1>2 DEF Arg
<1> HIDE DEF n
<1>4. HasRequired(d) /\ (IsMulHigh(d) => HasFeature("v"))
  BY <1>2 DEF CheckBuiltinFunctionCall, HasRequired, IsMulHigh
<1>n. ~c.rm \/ c.op \in {"fixed", "vsmul", "unary", "binary", "reduction", "fma", "fnrclip"}
  BY ArgumentsThere, RoundersAre
<1>5. CASE c.op \in {"vsetvli", "vsetvlimax", "sf_vset", "sf_mm_w1", "sf_mm_w2", "sf_mm_w4",
                    "vget", "vset", "byteselect", "aes64ks1i"}
  <2>1. FieldsOf(c.op) = <<>>
    BY <1>5, FieldsNamed DEF VCImmediateOps, VCRegisterOps
  <2>2. n = IF c.op \in {"vget", "vsetvlimax", "aes64ks1i"} THEN 2 ELSE 3
    BY <1>1, <1>5, <1>n, <2>1 DEF NumArguments
  <2>3. Arg(d, 0) = Dependent /\ Arg(d, 1) = Dependent /\ (n = 3 => Arg(d, 2) = Dependent)
    BY <1>3, <2>2
  <2>4. CheckVSetVL(Dependent, Dependent)
    BY DependentPasses DEF CheckVSetVL, NeedsELEN64, Dependent
  <2> QED BY <1>2, <1>4, <1>5, <2>2, <2>3, <2>4, DependentPasses
          DEF CheckBuiltinFunctionCall, CheckTile, CheckVGet, CheckVSet
<1>6. CASE c.op \in {"vaeskf1", "vaeskf2", "vsm4k", "vsm3c", "vaes", "vsha2"}
  <2>1. FieldsOf(c.op) = <<>>
    BY <1>6, FieldsNamed DEF VCImmediateOps, VCRegisterOps
  <2>2. n \in {3, 4}
    BY <1>1, <1>6, <1>n, <2>1 DEF NumArguments
  <2>3. Arg(d, 1) = Dependent /\ Arg(d, 2) = Dependent
    BY <1>3, <2>2
  <2>4. CheckKeySchedule(c) => CheckKeySchedule(d)
    BY <1>2, <2>2, <2>3, DependentPasses DEF CheckKeySchedule, HasCheckedSources
  <2>5. (CheckAES(c) => CheckAES(d)) /\ (CheckSHA2(c) => CheckSHA2(d))
    BY <1>2 DEF CheckAES, CheckSHA2
  <2> QED BY <1>2, <1>4, <1>6, <2>4, <2>5 DEF CheckBuiltinFunctionCall
<1>7. CASE c.op \in VCImmediateOps \cup VCRegisterOps
  <2>1. FieldsOf(c.op) # <<>> => n = Len(FieldsOf(c.op))
    BY <1>1, <1>7, <1>n DEF NumArguments, VCImmediateOps, VCRegisterOps
  <2>2. n = IF c.op \in {"vc_i_se", "vc_x_se"} THEN 6
            ELSE IF c.op \in {"vc_v_i", "vc_v_iv", "vc_v_x", "vc_v_xv", "vc_v_fv"} THEN 3 ELSE 4
    BY <1>7, <2>1 DEF FieldsOf, VCImmediateOps, VCRegisterOps
  <2>3. /\ n >= 3 /\ Arg(d, 0) = Dependent /\ Arg(d, 1) = Dependent /\ Arg(d, 2) = Dependent
        /\ n >= 4 => Arg(d, 3) = Dependent
        /\ n >= 6 => Arg(d, 5) = Dependent
    BY <1>3, <2>2
  <2>4. /\ Bits2(d) /\ Bit1(d) /\ Register(d, 1) /\ Register(d, 2) /\ Simm5(d, 2)
        /\ n >= 4 => Simm5(d, 3)
        /\ n >= 6 => CheckLMUL(Arg(d, 5))
    BY <2>3, DependentPasses DEF Bits2, Bit1, Register, Simm5
  <2>5. /\ c.op \in VCImmediateOps => CheckVCImmediate(d)
        /\ c.op \in VCRegisterOps => CheckVCRegister(d)
    <3>1. CASE c.op \in {"vc_i_se", "vc_x_se"}
      <4>1. Simm5(d, 3) /\ CheckLMUL(Arg(d, 5))
        BY <2>2, <2>4, <3>1
      <4> QED BY <1>2, <2>4, <3>1, <4>1 DEF CheckVCImmediate, CheckVCRegister, VCImmediateOps,
                                          VCRegisterOps
    <3>2. CASE c.op \in {"vc_iv_se", "vc_ivv"}
      <4>1. Simm5(d, 3)
        BY <2>2, <2>4, <3>2
      <4> QED BY <1>2, <2>4, <3>2, <4>1 DEF CheckVCImmediate, VCRegisterOps
    <3>3. CASE c.op \in {"vc_v_i", "vc_v_iv"}
      BY <1>2, <2>4, <3>3 DEF CheckVCImmediate, VCRegisterOps
    <3>4. CASE c.op \in VCRegisterOps \ {"vc_x_se"}
      BY <1>2, <2>4, <3>4 DEF CheckVCRegister, VCRegisterOps, VCImmediateOps
    <3> QED BY <3>1, <3>2, <3>3, <3>4 DEF VCImmediateOps, VCRegisterOps
  <2> QED BY <1>2, <1>4, <1>7, <2>5 DEF CheckBuiltinFunctionCall, VCImmediateOps, VCRegisterOps
<1>8. CASE c.op \in {"ntl_load", "ntl_store"}
  <2>1. CheckNTL(c)
    BY <1>8 DEF CheckBuiltinFunctionCall
  <2>2. CheckNTL(d)
    BY <1>2, <1>3, <1>8, <2>1, DependentPasses DEF CheckNTL, n
  <2> QED BY <1>2, <1>4, <1>8, <2>2 DEF CheckBuiltinFunctionCall
<1>9. CASE c.op \notin {"vsetvli", "vsetvlimax", "sf_vset", "sf_mm_w1", "sf_mm_w2", "sf_mm_w4",
                      "vget", "vset", "byteselect", "aes64ks1i", "vaeskf1", "vaeskf2", "vsm4k",
                      "vsm3c", "vaes", "vsha2", "ntl_load", "ntl_store", "sf_vtzero"}
                       \cup VCImmediateOps \cup VCRegisterOps
  <2>1. CheckRoundingMode(d)
    BY <1>2, <1>3, RoundingModeThere, DependentPasses DEF CheckRoundingMode, n
  <2> QED BY <1>2, <1>4, <1>9, <2>1 DEF CheckBuiltinFunctionCall, VCImmediateOps, VCRegisterOps
<1> QED BY <1>5, <1>6, <1>7, <1>8, <1>9

\* A template is not rejected for what only its instances can tell, whatever the call and the
\* features are (BuiltinConstantArg and its variants).
THEOREM TemplatesPass == CallSpec => []DependentDeferred
<1>1. CheckedInv => DependentDeferred
  BY AllDependent DEF CheckedInv, Decided, Supported, DependentDeferred
<1> QED BY <1>1, CheckedInvariant, PTL

LEMMA PowersOfTwo ==
  /\ 2 ^ 0 = 1 /\ 2 ^ 1 = 2 /\ 2 ^ 2 = 4 /\ 2 ^ 3 = 8 /\ 2 ^ 4 = 16 /\ 2 ^ 5 = 32 /\ 2 ^ 6 = 64
  /\ 2 ^ 7 = 128 /\ 2 ^ 8 = 256 /\ 2 ^ 9 = 512 /\ 2 ^ 10 = 1024
OBVIOUS

LEMMA LogarithmOf ==
  ASSUME NEW n \in {8, 16, 32, 64}
  PROVE  Log2(n) \in 3 .. 6 /\ 2 ^ Log2(n) = n
<1>1. \E k \in 0 .. 10 : 2 ^ k = n
  BY PowersOfTwo
<1>2. ASSUME NEW k \in 0 .. 10, 2 ^ k = n PROVE k \in 3 .. 6
  <2>0. k # 0
    <3>1. SUFFICES ASSUME k = 0 PROVE 2 ^ k = 1
      BY <1>2
    <3> QED BY <3>1, PowersOfTwo
  <2>1. k # 1
    <3>1. SUFFICES ASSUME k = 1 PROVE 2 ^ k = 2
      BY <1>2
    <3> QED BY <3>1, PowersOfTwo
  <2>2. k # 2
    <3>1. SUFFICES ASSUME k = 2 PROVE 2 ^ k = 4
      BY <1>2
    <3> QED BY <3>1, PowersOfTwo
  <2>7. k # 7
    <3>1. SUFFICES ASSUME k = 7 PROVE 2 ^ k = 128
      BY <1>2
    <3> QED BY <3>1, PowersOfTwo
  <2>8. k # 8
    <3>1. SUFFICES ASSUME k = 8 PROVE 2 ^ k = 256
      BY <1>2
    <3> QED BY <3>1, PowersOfTwo
  <2>9. k # 9
    <3>1. SUFFICES ASSUME k = 9 PROVE 2 ^ k = 512
      BY <1>2
    <3> QED BY <3>1, PowersOfTwo
  <2>10. k # 10
    <3>1. SUFFICES ASSUME k = 10 PROVE 2 ^ k = 1024
      BY <1>2
    <3> QED BY <3>1, PowersOfTwo
  <2> QED BY <2>0, <2>1, <2>2, <2>7, <2>8, <2>9, <2>10
<1> QED BY <1>1, <1>2 DEF Log2

\* The tiles of the two cases of CheckBuiltinFunctionCall.
LEMMA TilesAgree ==
  ASSUME call \in Calls
  PROVE  TileShapesAgree
<1> DEFINE type == call.types[2]
           zero == [args |-> <<Arg(call, 0), Runtime, Runtime, Const(Log2(type.elem)),
                               Const(Widening(call.op))>>]
           mtd == Arg(call, 0)
<1> SUFFICES ASSUME call.op \in {"sf_mm_w1", "sf_mm_w2", "sf_mm_w4"}
             PROVE  CheckTile(call.op, mtd, type) <=> CheckTileZero(zero)
  BY DEF TileShapesAgree
<1>1. <<call.op, type.elem>> \in TileTypes
  BY CallsAssumption, Zenon
<1>2. type.elem \in {8, 16, 32, 64} /\ Widening(call.op) \in {1, 2, 4}
  BY <1>1 DEF TileTypes, Widening
<1>3. Log2(type.elem) \in 3 .. 6 /\ 2 ^ Log2(type.elem) = type.elem
  BY <1>2, LogarithmOf
<1>4. /\ Arg(zero, 0) = mtd /\ Arg(zero, 3) = Const(Log2(type.elem))
      /\ Arg(zero, 4) = Const(Widening(call.op))
  BY DEF Arg
<1>5. (IF IsTEW64(call.op, type) THEN 2 ELSE 4) = TileMultiple(type.elem * Widening(call.op))
  BY <1>1 DEF TileTypes, IsTEW64, TileMultiple, Widening
<1> HIDE DEF zero, mtd, type
<1>6. CheckTileZero(zero) <=>
        /\ BuiltinConstantArgRange(mtd, 0, 15)
        /\ BuiltinConstantArgMultiple(mtd, TileMultiple(type.elem * Widening(call.op)))
  BY <1>2, <1>3, <1>4 DEF CheckTileZero, Const, BuiltinConstantArg, BuiltinConstantArgRange
<1> QED BY <1>5, <1>6 DEF CheckTile

\* What needs 64-bit elements in CheckVSetVL and in checkRVVTypeSupport.
LEMMA ELEN64Agree ==
  ASSUME NEW sew \in 0 .. 3, NEW lmul \in (0 .. 3) \cup (5 .. 7),
         NEW bits, bits = 8 * 2 ^ sew, EltsOf(lmul, bits) >= 1
  PROVE  NeedsELEN64(sew, lmul) <=> ELEN64(Vector("int", bits, EltsOf(lmul, bits), 1))
<1>1. /\ lmul < 4 => EltsOf(lmul, bits) = (64 * 2 ^ lmul) \div bits
      /\ lmul > 4 => EltsOf(lmul, bits) = 64 \div (bits * 2 ^ (8 - lmul))
  BY DEF EltsOf
<1>2. EltsOf(lmul, bits) = CASE lmul = 0 -> 64 \div bits
                            [] lmul = 1 -> 128 \div bits
                            [] lmul = 2 -> 256 \div bits
                            [] lmul = 3 -> 512 \div bits
                            [] lmul = 5 -> 64 \div (bits * 8)
                            [] lmul = 6 -> 64 \div (bits * 4)
                            [] lmul = 7 -> 64 \div (bits * 2)
  <2>0. CASE lmul = 0
    <3>1. 2 ^ lmul = 1
      BY <2>0, PowersOfTwo
    <3> QED BY <1>1, <2>0, <3>1
  <2>1. CASE lmul = 1
    <3>1. 2 ^ lmul = 2
      BY <2>1, PowersOfTwo
    <3> QED BY <1>1, <2>1, <3>1
  <2>2. CASE lmul = 2
    <3>1. 2 ^ lmul = 4
      BY <2>2, PowersOfTwo
    <3> QED BY <1>1, <2>2, <3>1
  <2>3. CASE lmul = 3
    <3>1. 2 ^ lmul = 8
      BY <2>3, PowersOfTwo
    <3> QED BY <1>1, <2>3, <3>1
  <2>5. CASE lmul = 5
    <3>1. 2 ^ (8 - lmul) = 8
      BY <2>5, PowersOfTwo
    <3> QED BY <1>1, <2>5, <3>1
  <2>6. CASE lmul = 6
    <3>1. 2 ^ (8 - lmul) = 4
      BY <2>6, PowersOfTwo
    <3> QED BY <1>1, <2>6, <3>1
  <2>7. CASE lmul = 7
    <3>1. 2 ^ (8 - lmul) = 2
      BY <2>7, PowersOfTwo
    <3> QED BY <1>1, <2>7, <3>1
  <2> QED BY <2>0, <2>1, <2>2, <2>3, <2>5, <2>6, <2>7
<1>3. NeedsELEN64(sew, lmul) <=> EltsOf(lmul, bits) = 1 \/ bits = 64
  <2>0. CASE sew = 0
    <3>1. bits = 8
      BY <2>0, PowersOfTwo
    <3> QED BY <1>2, <2>0, <3>1 DEF NeedsELEN64
  <2>1. CASE sew = 1
    <3>1. bits = 16
      BY <2>1, PowersOfTwo
    <3> QED BY <1>2, <2>1, <3>1 DEF NeedsELEN64
  <2>2. CASE sew = 2
    <3>1. bits = 32
      BY <2>2, PowersOfTwo
    <3> QED BY <1>2, <2>2, <3>1 DEF NeedsELEN64
  <2>3. CASE sew = 3
    <3>1. bits = 64
      BY <2>3, PowersOfTwo
    <3> QED BY <1>2, <2>3, <3>1 DEF NeedsELEN64
  <2> QED BY <2>0, <2>1, <2>2, <2>3
<1> QED BY <1>3 DEF ELEN64, Vector

\* Where Sema lists one thing twice the lists agree, whatever the call and the features are: the
\* tiles of a matrix multiplication and of a zeroing, the configurations of vsetvli and the
\* vectors that may be declared (CheckBuiltinFunctionCall, CheckVSetVL, checkRVVTypeSupport).
THEOREM ListsSame == CallSpec => []ListsAgree
<1>1. CheckedInv => ListsAgree
  <2> SUFFICES ASSUME CheckedInv, outcome # "none" PROVE TileShapesAgree /\ VSetVLMatchesTypes
    BY DEF ListsAgree
  <2>1. call \in Calls /\ (outcome # "rejected" <=> Supported(call))
    BY DEF CheckedInv, Decided
  <2>2. VSetVLMatchesTypes
    <3> DEFINE at == IF call.op = "vsetvli" THEN 1 ELSE 0
               sew == Arg(call, at)
               lmul == Arg(call, at + 1)
               bits == 8 * 2 ^ sew.value
               features == isa \cup FunctionFeatures
               type == Vector("int", bits, EltsOf(lmul.value, bits), 1)
    <3> SUFFICES ASSUME call.op \in {"vsetvli", "vsetvlimax"}, sew.kind = "constant",
                        sew.value \in 0 .. 3, lmul.kind = "constant",
                        lmul.value \in (0 .. 3) \cup (5 .. 7), EltsOf(lmul.value, bits) >= 1,
                        "zve32x" \in features
                 PROVE  Supported(call) <=> checkRVVTypeSupport(features, type)
      BY <2>1 DEF VSetVLMatchesTypes
    <3>1. call.types = <<>> /\ call.requires \subseteq {"zve32x"}
      BY <2>1, CallsAssumption, Zenon
    <3>2. \A e : HasFeature(e) <=> e \in features
      BY DEF HasFeature
    <3>3. NeedsELEN64(sew.value, lmul.value) <=> ELEN64(type)
      BY ELEN64Agree
    <3>4. type.kind = "int"
      BY DEF Vector
    <3> HIDE DEF features, sew, lmul, bits, type
    <3>5. CheckVSetVL(sew, lmul) <=> (ELEN64(type) => "zve64x" \in features)
      BY <3>2, <3>3 DEF CheckVSetVL, BuiltinConstantArg, BuiltinConstantArgRange, CheckLMUL
    <3>6. Supported(call) <=> CheckVSetVL(sew, lmul)
      <4>1. HasRequired(call) /\ ~IsMulHigh(call) /\ \A i \in DOMAIN call.types : FALSE
        BY <3>1, <3>2 DEF HasRequired, IsMulHigh
      <4>2. CheckBuiltinFunctionCall(call) <=> CheckVSetVL(sew, lmul)
        BY <4>1 DEF CheckBuiltinFunctionCall, sew, lmul
      <4> QED BY <4>1, <4>2 DEF Supported
    <3> QED BY <3>4, <3>5, <3>6 DEF checkRVVTypeSupport
  <2> QED BY <2>1, <2>2, TilesAgree
<1> QED BY <1>1, CheckedInvariant, PTL
===============================================================================
