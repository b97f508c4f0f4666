-------------------- MODULE VirtualVectorLowering_proofs --------------------
(***************************************************************************)
(* Proofs about VirtualVectorLowering, for every set of operations and any *)
(* number of invocations: the target decides, not the options, and the     *)
(* loads of a lowered gather, of any rank and any number of lanes, read    *)
(* what the gather means.                                                  *)
(***************************************************************************)
EXTENDS VirtualVectorLowering, FiniteSetTheorems, SequenceTheorems, TLAPS

\* Operations keep to the forms, and only those of the function appear (TypeOK of the machine).
THEOREM TypeCorrect == Spec => []TypeOK
<1>1. Init => TypeOK
  <2> SUFFICES ASSUME Init PROVE TypeOK
    OBVIOUS
  <2>1. ops \subseteq Ops
    BY PipelineAssumption DEF Init, Ops
  <2>2. PipelineOptions.i8mm \in BOOLEAN /\ PipelineOptions.xsmtvdot \in BOOLEAN
    BY DEF PipelineOptions, HasTarget, IsRISCV, HasFeature
  <2>3. options \in [1 .. Invocations -> [i8mm : BOOLEAN, xsmtvdot : BOOLEAN]]
    <3>1. Handed(PipelineOptions.i8mm) \subseteq BOOLEAN /\ Handed(PipelineOptions.xsmtvdot) \subseteq BOOLEAN
      BY <2>2 DEF Handed
    <3> QED BY <3>1 DEF Init
  <2>4. runs \in 0 .. Invocations
    BY PipelineAssumption DEF Init
  <2> QED BY <2>1, <2>3, <2>4 DEF Init, TypeOK, Forms
<1>2. TypeOK /\ [Next]_vars => TypeOK'
  <2> SUFFICES ASSUME TypeOK, [Next]_vars PROVE TypeOK'
    OBVIOUS
  <2> USE DEF TypeOK, function, Forms
  <2>1. ASSUME NEW S \in SUBSET Ops, CreateOps(S) PROVE TypeOK'
    BY <2>1 DEF CreateOps
  <2>2. CASE BeginPass
    BY <2>2 DEF BeginPass
  <2>3. ASSUME NEW o \in Ops, ApplyNeon(o) PROVE TypeOK'
    BY <2>3 DEF ApplyNeon, Rewrite, Matching
  <2>4. CASE LeaveNeon
    BY <2>4 DEF LeaveNeon, Leave
  <2>5. ASSUME NEW o \in Ops, ApplyIme(o) PROVE TypeOK'
    BY <2>5 DEF ApplyIme, Rewrite, Matching
  <2>6. CASE LeaveIme
    BY <2>6 DEF LeaveIme, Leave
  <2>7. ASSUME NEW o \in Ops, ApplyContract(o) PROVE TypeOK'
    BY <2>7 DEF ApplyContract, Rewrite, Matching
  <2>8. ASSUME NEW o \in Ops, ApplyGather(o) PROVE TypeOK'
    BY <2>8 DEF ApplyGather, Rewrite, Matching
  <2>9. CASE LeaveGeneric
    BY <2>9 DEF LeaveGeneric, Leave
  <2>10. CASE EliminateConversions
    BY <2>10, PipelineAssumption DEF EliminateConversions
  <2>11. CASE UNCHANGED vars
    BY <2>11 DEF vars
  <2> QED BY <2>1, <2>2, <2>3, <2>4, <2>5, <2>6, <2>7, <2>8, <2>9, <2>10, <2>11 DEF Next
<1> QED BY <1>1, <1>2, PTL DEF Spec

-----------------------------------------------------------------------------
\* Once an invocation is past the target's own patterns, it has left no contraction that the IME
\* rewrite accepts to the generic ones, on a target with the extension.
PastIme == pc = "generic" /\ UseXsmtvdot => Matching(ImeAccepts) = {}
FeatureInv == TypeOK /\ PastIme /\ FeatureHonoured

\* The target's feature decides what becomes of a contraction, whichever invocation first sees it
\* and whatever options that invocation was handed (runOnOperation; README issue 15).
THEOREM TargetDecides == Spec => []FeatureHonoured
<1>1. Init => PastIme /\ FeatureHonoured
  <2>1. ImeAccepts \subseteq Ops
    BY PipelineAssumption DEF Ops
  <2> QED BY <2>1 DEF Init, PastIme, FeatureHonoured
<1>2. TypeOK' /\ FeatureInv /\ [Next]_vars => FeatureInv'
  <2> SUFFICES ASSUME TypeOK', FeatureInv, [Next]_vars PROVE PastIme' /\ FeatureHonoured'
    BY DEF FeatureInv
  <2> USE DEF FeatureInv, function, UseXsmtvdot, IsRISCV, HasFeature, HasTarget, Matching
  <2>0. ImeAccepts \subseteq Contractions /\ ImeAccepts \subseteq Ops /\ form \in [Ops -> Forms]
    BY PipelineAssumption DEF Ops, TypeOK
  <2>1. ASSUME NEW S \in SUBSET Ops, CreateOps(S) PROVE PastIme' /\ FeatureHonoured'
    BY <2>0, <2>1 DEF CreateOps, PastIme, FeatureHonoured
  <2>2. CASE BeginPass
    BY <2>2 DEF BeginPass, PastIme, FeatureHonoured
  <2>3. ASSUME NEW o \in Ops, ApplyNeon(o) PROVE PastIme' /\ FeatureHonoured'
    BY <2>0, <2>3 DEF ApplyNeon, Rewrite, PastIme, FeatureHonoured
  <2>4. CASE LeaveNeon
    BY <2>4 DEF LeaveNeon, Leave, PastIme, FeatureHonoured
  <2>5. ASSUME NEW o \in Ops, ApplyIme(o) PROVE PastIme' /\ FeatureHonoured'
    <3>1. UseXsmtvdot
      BY <2>5 DEF ApplyIme, ImeOps
    <3> QED BY <2>0, <2>5, <3>1 DEF ApplyIme, Rewrite, PastIme, FeatureHonoured
  <2>6. CASE LeaveIme
    <3>1. UseXsmtvdot => Matching(ImeAccepts) = {}
      BY <2>6 DEF LeaveIme, Leave, ImeOps
    <3> QED BY <2>6, <3>1 DEF LeaveIme, Leave, PastIme, FeatureHonoured
  <2>7. ASSUME NEW o \in Ops, ApplyContract(o) PROVE PastIme' /\ FeatureHonoured'
    BY <2>0, <2>7 DEF ApplyContract, Rewrite, PastIme, FeatureHonoured
  <2>8. ASSUME NEW o \in Ops, ApplyGather(o) PROVE PastIme' /\ FeatureHonoured'
    BY <2>0, <2>8 DEF ApplyGather, Rewrite, PastIme, FeatureHonoured
  <2>9. CASE LeaveGeneric
    BY <2>9 DEF LeaveGeneric, Leave, PastIme, FeatureHonoured
  <2>10. CASE EliminateConversions
    BY <2>10 DEF EliminateConversions, PastIme, FeatureHonoured
  <2>11. CASE UNCHANGED vars
    BY <2>11 DEF vars, PastIme, FeatureHonoured
  <2> QED BY <2>1, <2>2, <2>3, <2>4, <2>5, <2>6, <2>7, <2>8, <2>9, <2>10, <2>11 DEF Next
<1>3. FeatureInv => FeatureHonoured
  BY DEF FeatureInv
<1>4. TypeOK /\ PastIme /\ FeatureHonoured => FeatureInv
  BY DEF FeatureInv
<1> QED BY <1>1, <1>2, <1>3, <1>4, TypeCorrect, PTL DEF Spec

-----------------------------------------------------------------------------
(***************************************************************************)
(* Induction, and folds over a finite set.                                 *)
(***************************************************************************)
LEMMA LeastElement ==
  ASSUME NEW T \in SUBSET Nat, T # {}
  PROVE  \E n \in T : \A m \in T : n <= m
<1> DEFINE R == OpToRel(<, Nat)
<1>1. IsWellFoundedOn(R, Nat)
  BY NatLessThanWellFounded
<1>2. \A m, n \in Nat : <<m, n>> \in R <=> m < n
  BY DEF OpToRel
<1> HIDE DEF R
<1>3. PICK n \in T : \A m \in T : ~(<<m, n>> \in R)
  BY <1>1, WFMin
<1>4. ASSUME NEW m \in T PROVE n <= m
  <2>1. ~(m < n)
    BY <1>2, <1>3
  <2> QED BY <2>1
<1> QED BY <1>4

LEMMA InductiveSet ==
  ASSUME NEW Q, 0 \in Q, \A n \in Nat : n \in Q => n + 1 \in Q
  PROVE  Nat \subseteq Q
<1> SUFFICES ASSUME Nat \ Q # {} PROVE FALSE
  OBVIOUS
<1>1. PICK n \in Nat \ Q : \A m \in Nat \ Q : n <= m
  BY LeastElement
<1>2. n # 0 /\ n - 1 \in Nat
  OBVIOUS
<1>3. n - 1 + 1 \in Q
  BY <1>1, <1>2
<1> QED BY <1>3

\* A fold over a finite set: step[<<x, v>>] takes the next element into account.
Foldable(S, D, base, choose, step) ==
  /\ IsFiniteSet(S) /\ base \in D
  /\ \A s \in SUBSET S : s # {} => choose[s] \in s
  /\ \A x \in S, v \in D : step[<<x, v>>] \in D
IsFold(g, S, D, base, choose, step) ==
  /\ g \in [SUBSET S -> D]
  /\ \A s \in SUBSET S :
       g[s] = IF s = {} THEN base ELSE step[<<choose[s], g[s \ {choose[s]}]>>]
LEMMA FoldDefined ==
  ASSUME NEW S, NEW D, NEW base, NEW choose, NEW step, Foldable(S, D, base, choose, step)
  PROVE  \E g : IsFold(g, S, D, base, choose, step)
<1> USE DEF Foldable
<1> DEFINE Step(g, s) == IF s = {} THEN base ELSE step[<<choose[s], g[s \ {choose[s]}]>>]
           UpTo(n, g) == \A s \in SUBSET S : Cardinality(s) <= n => g[s] = Step(g, s)
           Q == {n \in Nat : \E g \in [SUBSET S -> D] : UpTo(n, g)}
<1>a. ASSUME NEW g \in [SUBSET S -> D], NEW s \in SUBSET S PROVE Step(g, s) \in D
  <2>1. CASE s = {}
    BY <2>1
  <2>2. CASE s # {}
    <3>1. choose[s] \in S /\ s \ {choose[s]} \in SUBSET S
      BY <2>2
    <3>2. g[s \ {choose[s]}] \in D
      BY <3>1
    <3> QED BY <2>2, <3>1, <3>2
  <2> QED BY <2>1, <2>2
<1>b. \A s \in SUBSET S : /\ IsFiniteSet(s) /\ Cardinality(s) \in Nat
                          /\ Cardinality(s) <= Cardinality(S)
                          /\ Cardinality(s) = 0 => s = {}
                          /\ s # {} => Cardinality(s \ {choose[s]}) = Cardinality(s) - 1
  <2> TAKE s \in SUBSET S
  <2>1. IsFiniteSet(s) /\ Cardinality(s) <= Cardinality(S)
    BY FS_Subset
  <2>2. Cardinality(s) \in Nat /\ (Cardinality(s) = 0 => s = {})
    BY <2>1, FS_CardinalityType, FS_EmptySet
  <2>3. s # {} => Cardinality(s \ {choose[s]}) = Cardinality(s) - 1
    BY <2>1, FS_RemoveElement
  <2> QED BY <2>1, <2>2, <2>3
<1>1. 0 \in Q
  <2> DEFINE g == [s \in SUBSET S |-> base]
  <2>1. g \in [SUBSET S -> D]
    OBVIOUS
  <2>2. ASSUME NEW s \in SUBSET S, Cardinality(s) <= 0 PROVE g[s] = Step(g, s)
    <3>1. Cardinality(s) \in Nat /\ (Cardinality(s) = 0 => s = {})
      BY <1>b
    <3>2. Cardinality(s) <= 0
      BY <2>2
    <3>3. s = {}
      BY <3>1, <3>2
    <3> QED BY <3>3
  <2>3. UpTo(0, g)
    <3> HIDE DEF g, Step
    <3> QED BY <2>2
  <2>4. \E f \in [SUBSET S -> D] : UpTo(0, f)
    <3> HIDE DEF g, UpTo
    <3> QED BY <2>1, <2>3
  <2> HIDE DEF UpTo
  <2> QED BY <2>4
<1>2. ASSUME NEW n \in Nat, n \in Q PROVE n + 1 \in Q
  <2>1. PICK g \in [SUBSET S -> D] : UpTo(n, g)
    BY <1>2
  <2> DEFINE h == [s \in SUBSET S |-> IF Cardinality(s) <= n THEN g[s] ELSE Step(g, s)]
  <2>2. h \in [SUBSET S -> D]
    <3> HIDE DEF Step
    <3> QED BY <1>a
  <2>3. ASSUME NEW s \in SUBSET S, Cardinality(s) <= n + 1 PROVE h[s] = Step(h, s)
    <3>1. h[s] = Step(g, s)
      <4> HIDE DEF Step
      <4> QED BY <2>1
    <3>2. CASE s = {}
      BY <3>1, <3>2
    <3>3. CASE s # {}
      <4> DEFINE t == s \ {choose[s]}
      <4>1. t \in SUBSET S /\ Cardinality(t) <= n
        <5>1. Cardinality(s) \in Nat /\ Cardinality(t) = Cardinality(s) - 1
          BY <1>b, <3>3
        <5>2. Cardinality(s) <= n + 1
          BY <2>3
        <5>3. Cardinality(t) <= n
          <6> HIDE DEF t
          <6> QED BY <5>1, <5>2
        <5>4. t \in SUBSET S
          OBVIOUS
        <5> QED BY <5>3, <5>4
      <4>2. h[t] = g[t]
        <5> HIDE DEF t, Step
        <5> QED BY <4>1
      <4> HIDE DEF h
      <4> QED BY <3>1, <3>3, <4>2
    <3> QED BY <3>2, <3>3
  <2>4. UpTo(n + 1, h)
    <3> HIDE DEF h, Step
    <3> QED BY <2>3
  <2>5. \E f \in [SUBSET S -> D] : UpTo(n + 1, f)
    <3> HIDE DEF h, UpTo
    <3> QED BY <2>2, <2>4
  <2>6. n + 1 \in Nat
    OBVIOUS
  <2> HIDE DEF UpTo
  <2> QED BY <2>5, <2>6
<1>3. Cardinality(S) \in Q
  <2>1. Cardinality(S) \in Nat
    BY FS_CardinalityType
  <2> HIDE DEF Q
  <2> QED BY <1>1, <1>2, <2>1, InductiveSet
<1>4. PICK g \in [SUBSET S -> D] : UpTo(Cardinality(S), g)
  BY <1>3
<1>5. \A s \in SUBSET S : g[s] = Step(g, s)
  <2> HIDE DEF Step
  <2> QED BY <1>4, <1>b
<1> QED BY <1>5 DEF IsFold


\* What holds of the empty set, and of a set when it holds without each one of its elements.
LEMMA FiniteInduction ==
  ASSUME NEW S, IsFiniteSet(S), NEW Q, {} \in Q,
         \A s \in SUBSET S : s # {} /\ (\A x \in s : s \ {x} \in Q) => s \in Q
  PROVE  \A s \in SUBSET S : s \in Q
<1> DEFINE N == {n \in Nat : \A s \in SUBSET S : Cardinality(s) = n => s \in Q}
<1>1. \A s \in SUBSET S : /\ IsFiniteSet(s) /\ Cardinality(s) \in Nat
                          /\ Cardinality(s) = 0 <=> s = {}
  BY FS_Subset, FS_CardinalityType, FS_EmptySet
<1>2. 0 \in N
  BY <1>1
<1>3. ASSUME NEW n \in Nat, n \in N PROVE n + 1 \in N
  <2>1. ASSUME NEW s \in SUBSET S, Cardinality(s) = n + 1 PROVE s \in Q
    <3>1. s # {}
      BY <1>1, <2>1
    <3>2. ASSUME NEW x \in s PROVE s \ {x} \in Q
      <4>1. Cardinality(s \ {x}) = n
        BY <1>1, <2>1, FS_RemoveElement
      <4> QED BY <1>3, <4>1
    <3> QED BY <3>1, <3>2
  <2> QED BY <2>1
<1> HIDE DEF N
<1>4. Nat \subseteq N
  BY <1>2, <1>3, InductiveSet
<1> QED BY <1>1, <1>4 DEF N

\* A fold whose steps commute takes the elements of the set in any order.
Commutes(S, D, step) ==
  \A x, y \in S, v \in D : step[<<x, step[<<y, v>>]>>] = step[<<y, step[<<x, v>>]>>]
IsUnordered(g, S, D, base, step) ==
  /\ g \in [SUBSET S -> D] /\ g[{}] = base
  /\ \A s \in SUBSET S : \A x \in s : g[s] = step[<<x, g[s \ {x}]>>]
LEMMA UnorderedFold ==
  ASSUME NEW S, NEW D, NEW base, NEW choose, NEW step, Foldable(S, D, base, choose, step),
         Commutes(S, D, step), NEW g, IsFold(g, S, D, base, choose, step)
  PROVE  IsUnordered(g, S, D, base, step)
<1> DEFINE P(s) == \A x \in s : g[s] = step[<<x, g[s \ {x}]>>]
           N == {n \in Nat : \A s \in SUBSET S : Cardinality(s) = n => P(s)}
<1>1. \A s \in SUBSET S : /\ IsFiniteSet(s) /\ Cardinality(s) \in Nat
                          /\ \A x \in s : Cardinality(s \ {x}) = Cardinality(s) - 1
  BY FS_Subset, FS_CardinalityType, FS_RemoveElement DEF Foldable
<1>2. 0 \in N
  BY <1>1, FS_EmptySet
<1>3. ASSUME NEW n \in Nat, n \in N PROVE n + 1 \in N
  <2>1. ASSUME NEW s \in SUBSET S, Cardinality(s) = n + 1, NEW x \in s
        PROVE  g[s] = step[<<x, g[s \ {x}]>>]
    <3> DEFINE c == choose[s]
               t == (s \ {c}) \ {x}
    <3>1. c \in s /\ g[s] = step[<<c, g[s \ {c}]>>]
      BY DEF Foldable, IsFold
    <3>2. CASE c = x
      BY <3>1, <3>2
    <3>3. CASE c # x
      <4>1. x \in s \ {c} /\ c \in s \ {x} /\ t = (s \ {x}) \ {c}
        BY <3>1, <3>3
      <4>2. s \ {c} \in SUBSET S /\ s \ {x} \in SUBSET S /\ t \in SUBSET S
        OBVIOUS
      <4>3. Cardinality(s \ {c}) = n /\ Cardinality(s \ {x}) = n
        <5>1. Cardinality(s \ {c}) = Cardinality(s) - 1 /\ Cardinality(s \ {x}) = Cardinality(s) - 1
          BY <1>1, <3>1
        <5> QED BY <2>1, <5>1
      <4> HIDE DEF c
      <4>4. P(s \ {c}) /\ P(s \ {x})
        <5> HIDE DEF P
        <5> QED BY <1>3, <4>2, <4>3
      <4>5. g[s \ {c}] = step[<<x, g[t]>>]
        BY <4>1, <4>4
      <4>5a. g[s \ {x}] = step[<<c, g[(s \ {x}) \ {c}]>>]
        BY <4>1, <4>4
      <4>6. g[t] \in D /\ c \in S /\ x \in S
        BY <3>1, <4>2 DEF IsFold
      <4> HIDE DEF t
      <4>7. step[<<c, step[<<x, g[t]>>]>>] = step[<<x, step[<<c, g[t]>>]>>]
        BY <4>6 DEF Commutes
      <4> QED BY <3>1, <4>1, <4>5, <4>5a, <4>7
    <3> QED BY <3>2, <3>3
  <2> QED BY <2>1
<1> HIDE DEF N
<1>4. Nat \subseteq N
  BY <1>2, <1>3, InductiveSet
<1>5. \A s \in SUBSET S : P(s)
  <2> HIDE DEF P
  <2> QED BY <1>1, <1>4 DEF N
<1> QED BY <1>5 DEF IsFold, IsUnordered

\* A function with the fold's recursion is the fold.
Follows(it, S, D, base, choose, step) ==
  \A s \in SUBSET S :
    IF s = {} THEN it[s] = base
    ELSE it[s \ {choose[s]}] \in D => it[s] = step[<<choose[s], it[s \ {choose[s]}]>>]
LEMMA FollowsFold ==
  ASSUME NEW S, NEW D, NEW base, NEW choose, NEW step, Foldable(S, D, base, choose, step),
         NEW it, Follows(it, S, D, base, choose, step)
  PROVE  \E g : IsFold(g, S, D, base, choose, step) /\ g[S] = it[S]
<1>1. PICK g : IsFold(g, S, D, base, choose, step)
  BY FoldDefined
<1> DEFINE Q == {s \in SUBSET S : g[s] = it[s]}
<1>2. {} \in Q
  BY <1>1 DEF Follows, IsFold
<1>3. ASSUME NEW s \in SUBSET S, s # {}, \A x \in s : s \ {x} \in Q PROVE s \in Q
  <2>1. choose[s] \in s
    BY <1>3 DEF Foldable
  <2>2. g[s \ {choose[s]}] = it[s \ {choose[s]}]
    BY <1>3, <2>1
  <2>3. g[s \ {choose[s]}] \in D /\ g[s] = step[<<choose[s], g[s \ {choose[s]}]>>]
    BY <1>1, <1>3 DEF IsFold
  <2>4. it[s] = step[<<choose[s], it[s \ {choose[s]}]>>]
    BY <1>3, <2>2, <2>3 DEF Follows
  <2> QED BY <2>2, <2>3, <2>4
<1>4. \A s \in SUBSET S : s # {} /\ (\A x \in s : s \ {x} \in Q) => s \in Q
  <2> HIDE DEF Q
  <2> QED BY <1>3
<1>5. IsFiniteSet(S)
  BY DEF Foldable
<1> HIDE DEF Q
<1>6. \A s \in SUBSET S : s \in Q
  BY <1>2, <1>4, <1>5, FiniteInduction
<1> QED BY <1>1, <1>6 DEF Q

\* The same fold of a subset.
LEMMA FoldsAgree ==
  ASSUME NEW S, IsFiniteSet(S), NEW T \in SUBSET S, NEW D, NEW base, NEW step,
         NEW g, IsUnordered(g, S, D, base, step), NEW h, IsUnordered(h, T, D, base, step)
  PROVE  h[T] = g[T]
<1> DEFINE Q == {s \in SUBSET T : h[s] = g[s]}
<1>1. {} \in Q
  BY DEF IsUnordered
<1>2. ASSUME NEW s \in SUBSET T, s # {}, \A x \in s : s \ {x} \in Q PROVE s \in Q
  <2>0. PICK x \in s : TRUE
    BY <1>2
  <2>1. s \in SUBSET S /\ h[s \ {x}] = g[s \ {x}]
    BY <1>2
  <2>2. h[s] = step[<<x, h[s \ {x}]>>] /\ g[s] = step[<<x, g[s \ {x}]>>]
    BY <2>1 DEF IsUnordered
  <2> QED BY <2>1, <2>2
<1>3. IsFiniteSet(T)
  BY FS_Subset
<1>3a. \A s \in SUBSET T : s # {} /\ (\A x \in s : s \ {x} \in Q) => s \in Q
  <2> HIDE DEF Q
  <2> QED BY <1>2
<1> HIDE DEF Q
<1>4. \A s \in SUBSET T : s \in Q
  BY <1>1, <1>3, <1>3a, FiniteInduction
<1> QED BY <1>4 DEF Q

\* Downwards from n + 1.
LEMMA Downwards ==
  ASSUME NEW n \in Nat, NEW Q, n + 1 \in Q, \A k \in 1 .. n : k + 1 \in Q => k \in Q
  PROVE  \A k \in 1 .. n + 1 : k \in Q
<1> DEFINE N == {j \in Nat : j <= n => n + 1 - j \in Q}
<1>1. 0 \in N
  OBVIOUS
<1>2. ASSUME NEW j \in Nat, j \in N PROVE j + 1 \in N
  <2>1. SUFFICES ASSUME j + 1 <= n PROVE n + 1 - (j + 1) \in Q
    OBVIOUS
  <2> DEFINE k == n + 1 - (j + 1)
  <2>2. k \in 1 .. n /\ k + 1 = n + 1 - j /\ j <= n
    BY <2>1
  <2>3. k + 1 \in Q
    BY <1>2, <2>2
  <2> HIDE DEF k
  <2>4. k \in Q
    BY <2>2, <2>3
  <2> QED BY <2>4 DEF k
<1> HIDE DEF N
<1>3. Nat \subseteq N
  BY <1>1, <1>2, InductiveSet
<1>4. \A k \in 1 .. n + 1 : n + 1 - k \in Nat /\ n + 1 - (n + 1 - k) = k /\ n + 1 - k <= n
  OBVIOUS
<1> QED BY <1>3, <1>4 DEF N


\* The folds of SequencesExt choose the last index.
LEMMA HasMax ==
  ASSUME NEW n \in Nat, NEW s \in SUBSET (1 .. n), s # {}
  PROVE  Max(s) \in s
<1> DEFINE T == {n - x : x \in s}
<1>1. \A x \in s : n - x \in Nat
  OBVIOUS
<1>1a. T \subseteq Nat /\ T # {}
  BY <1>1
<1>2. PICK d \in T : \A m \in T : d <= m
  BY <1>1a, LeastElement
<1>3. PICK x \in s : d = n - x
  OBVIOUS
<1>4. \A y \in s : x >= y
  <2> TAKE y \in s
  <2>1. d <= n - y
    BY <1>2
  <2> QED BY <1>3, <2>1
<1>5. \E z \in s : \A y \in s : z >= y
  BY <1>4
<1> QED BY <1>5 DEF Max

-----------------------------------------------------------------------------
(***************************************************************************)
(* Products, sums and remainders.                                          *)
(***************************************************************************)
Positive == Nat \ {0}
Pick(s) == CHOOSE x \in s : TRUE
Times(f, S) == [p \in S \X Positive |-> f[p[1]] * p[2]]
Plus(f, S) == [p \in S \X Nat |-> f[p[1]] + p[2]]

IsProductFold(f, S, g) ==
  g = [s \in SUBSET S |-> IF s = {} THEN 1 ELSE f[Pick(s)] * g[s \ {Pick(s)}]]
ProductFold(f, S) == CHOOSE g : IsProductFold(f, S, g)
LEMMA ProductOf ==
  ASSUME NEW S, IsFiniteSet(S), NEW T \in SUBSET S, NEW f, \A x \in S : f[x] \in Positive
  PROVE  \E g : /\ IsUnordered(g, T, Positive, 1, Times(f, S))
                /\ FoldFunctionOnSet(LAMBDA x, y : x * y, 1, f, T) = g[T]
<1> DEFINE step == Times(f, S)
           choose == [s \in SUBSET T |-> Pick(s)]
<1>1. ASSUME NEW x \in S, NEW v \in Positive
      PROVE  step[<<x, v>>] = f[x] * v /\ step[<<x, v>>] \in Positive
  <2>1. <<x, v>> \in S \X Positive /\ <<x, v>>[1] = x /\ <<x, v>>[2] = v
    OBVIOUS
  <2>2. step[<<x, v>>] = f[x] * v
    BY <2>1 DEF Times
  <2>3. \A a, b \in Positive : a * b \in Positive
    BY DEF Positive
  <2> HIDE DEF step
  <2> QED BY <2>2, <2>3
<1> HIDE DEF step
<1>2. \A s \in SUBSET T : s # {} => choose[s] \in s
  BY DEF Pick
<1>3. IsFiniteSet(T)
  BY FS_Subset
<1>3a. 1 \in Positive /\ T \subseteq S
  BY DEF Positive
<1>4. \A s \in SUBSET T : choose[s] = Pick(s)
  OBVIOUS
<1> HIDE DEF choose
<1>5. Foldable(T, Positive, 1, choose, step)
  BY <1>1, <1>2, <1>3, <1>3a DEF Foldable
<1>6. Commutes(T, Positive, step)
  <2> SUFFICES ASSUME NEW x \in T, NEW y \in T, NEW v \in Positive
               PROVE  step[<<x, step[<<y, v>>]>>] = step[<<y, step[<<x, v>>]>>]
    BY DEF Commutes
  <2>1. step[<<x, step[<<y, v>>]>>] = f[x] * (f[y] * v) /\ step[<<y, step[<<x, v>>]>>] = f[y] * (f[x] * v)
    BY <1>1, <1>3a
  <2>2. \A a, b, c \in Positive : a * (b * c) = b * (a * c)
    BY DEF Positive
  <2> QED BY <2>1, <2>2
<1>7. PICK h : IsFold(h, T, Positive, 1, choose, step)
  BY <1>5, FoldDefined
<1>8. IsProductFold(f, T, h)
  <2>1. ASSUME NEW s \in SUBSET T, s # {} PROVE h[s] = f[Pick(s)] * h[s \ {Pick(s)}]
    <3>1. Pick(s) \in S /\ h[s \ {Pick(s)}] \in Positive
      BY <1>2, <1>3a, <1>4, <1>7, <2>1 DEF IsFold
    <3> QED BY <1>1, <1>4, <1>7, <2>1, <3>1 DEF IsFold
  <2>2. h[{}] = 1 /\ h \in [SUBSET T -> Positive]
    BY <1>7 DEF IsFold
  <2>3. h = [s \in SUBSET T |-> h[s]]
    BY <2>2
  <2> QED BY <2>1, <2>2, <2>3 DEF IsProductFold
<1> DEFINE g == ProductFold(f, T)
<1>9. IsProductFold(f, T, g)
  BY <1>8, Zenon DEF ProductFold
<1>10. FoldFunctionOnSet(LAMBDA x, y : x * y, 1, f, T) = g[T]
  BY Zenon DEF FoldFunctionOnSet, MapThenFoldSet, ProductFold, IsProductFold, Pick
<1> HIDE DEF g
<1>11. \A s \in SUBSET T : g[s] = IF s = {} THEN 1 ELSE f[Pick(s)] * g[s \ {Pick(s)}]
  BY <1>9 DEF IsProductFold
<1>12. Follows(g, T, Positive, 1, choose, step)
  <2>1. ASSUME NEW s \in SUBSET T, s # {}, g[s \ {choose[s]}] \in Positive
        PROVE  g[s] = step[<<choose[s], g[s \ {choose[s]}]>>]
    <3>1. choose[s] = Pick(s) /\ choose[s] \in S
      BY <1>2, <1>3a, <1>4, <2>1
    <3>2. step[<<choose[s], g[s \ {choose[s]}]>>] = f[choose[s]] * g[s \ {choose[s]}]
      BY <1>1, <2>1, <3>1
    <3> QED BY <1>11, <2>1, <3>1, <3>2
  <2> QED BY <1>11, <2>1 DEF Follows
<1>13. PICK k : IsFold(k, T, Positive, 1, choose, step) /\ k[T] = g[T]
  BY <1>5, <1>12, FollowsFold
<1>14. IsUnordered(k, T, Positive, 1, step)
  BY <1>5, <1>6, <1>13, UnorderedFold
<1> QED BY <1>10, <1>13, <1>14 DEF step
IsSumFold(f, S, g) ==
  g = [s \in SUBSET S |-> IF s = {} THEN 0 ELSE f[Pick(s)] + g[s \ {Pick(s)}]]
SumFold(f, S) == CHOOSE g : IsSumFold(f, S, g)
LEMMA SumOf ==
  ASSUME NEW S, IsFiniteSet(S), NEW T \in SUBSET S, NEW f, \A x \in S : f[x] \in Nat
  PROVE  \E g : /\ IsUnordered(g, T, Nat, 0, Plus(f, S))
                /\ SumFunctionOnSet(f, T) = g[T]
<1> DEFINE step == Plus(f, S)
           choose == [s \in SUBSET T |-> Pick(s)]
<1>1. ASSUME NEW x \in S, NEW v \in Nat
      PROVE  step[<<x, v>>] = f[x] + v /\ step[<<x, v>>] \in Nat
  <2>1. <<x, v>> \in S \X Nat /\ <<x, v>>[1] = x /\ <<x, v>>[2] = v
    OBVIOUS
  <2>2. step[<<x, v>>] = f[x] + v
    BY <2>1 DEF Plus
  <2>3. \A a, b \in Nat : a + b \in Nat
    OBVIOUS
  <2> HIDE DEF step
  <2> QED BY <2>2, <2>3
<1> HIDE DEF step
<1>2. \A s \in SUBSET T : s # {} => choose[s] \in s
  BY DEF Pick
<1>3. IsFiniteSet(T)
  BY FS_Subset
<1>3a. 0 \in Nat /\ T \subseteq S
  OBVIOUS
<1>4. \A s \in SUBSET T : choose[s] = Pick(s)
  OBVIOUS
<1> HIDE DEF choose
<1>5. Foldable(T, Nat, 0, choose, step)
  BY <1>1, <1>2, <1>3, <1>3a DEF Foldable
<1>6. Commutes(T, Nat, step)
  <2> SUFFICES ASSUME NEW x \in T, NEW y \in T, NEW v \in Nat
               PROVE  step[<<x, step[<<y, v>>]>>] = step[<<y, step[<<x, v>>]>>]
    BY DEF Commutes
  <2>1. step[<<x, step[<<y, v>>]>>] = f[x] + (f[y] + v) /\ step[<<y, step[<<x, v>>]>>] = f[y] + (f[x] + v)
    BY <1>1, <1>3a
  <2>2. \A a, b, c \in Nat : a + (b + c) = b + (a + c)
    OBVIOUS
  <2> QED BY <2>1, <2>2
<1>7. PICK h : IsFold(h, T, Nat, 0, choose, step)
  BY <1>5, FoldDefined
<1>8. IsSumFold(f, T, h)
  <2>1. ASSUME NEW s \in SUBSET T, s # {} PROVE h[s] = f[Pick(s)] + h[s \ {Pick(s)}]
    <3>1. Pick(s) \in S /\ h[s \ {Pick(s)}] \in Nat
      BY <1>2, <1>3a, <1>4, <1>7, <2>1 DEF IsFold
    <3> QED BY <1>1, <1>4, <1>7, <2>1, <3>1 DEF IsFold
  <2>2. h[{}] = 0 /\ h \in [SUBSET T -> Nat]
    BY <1>7 DEF IsFold
  <2>3. h = [s \in SUBSET T |-> h[s]]
    BY <2>2
  <2> QED BY <2>1, <2>2, <2>3 DEF IsSumFold
<1> DEFINE g == SumFold(f, T)
<1>9. IsSumFold(f, T, g)
  BY <1>8, Zenon DEF SumFold
<1>10. SumFunctionOnSet(f, T) = g[T]
  BY Zenon DEF SumFunctionOnSet, FoldFunctionOnSet, MapThenFoldSet, SumFold, IsSumFold, Pick
<1> HIDE DEF g
<1>11. \A s \in SUBSET T : g[s] = IF s = {} THEN 0 ELSE f[Pick(s)] + g[s \ {Pick(s)}]
  BY <1>9 DEF IsSumFold
<1>12. Follows(g, T, Nat, 0, choose, step)
  <2>1. ASSUME NEW s \in SUBSET T, s # {}, g[s \ {choose[s]}] \in Nat
        PROVE  g[s] = step[<<choose[s], g[s \ {choose[s]}]>>]
    <3>1. choose[s] = Pick(s) /\ choose[s] \in S
      BY <1>2, <1>3a, <1>4, <2>1
    <3>2. step[<<choose[s], g[s \ {choose[s]}]>>] = f[choose[s]] + g[s \ {choose[s]}]
      BY <1>1, <2>1, <3>1
    <3> QED BY <1>11, <2>1, <3>1, <3>2
  <2> QED BY <1>11, <2>1 DEF Follows
<1>13. PICK k : IsFold(k, T, Nat, 0, choose, step) /\ k[T] = g[T]
  BY <1>5, <1>12, FollowsFold
<1>14. IsUnordered(k, T, Nat, 0, step)
  BY <1>5, <1>6, <1>13, UnorderedFold
<1> QED BY <1>10, <1>13, <1>14 DEF step

\* The sums of the last elements of a sequence.
IsTailSum(f, n, s) ==
  /\ s \in [1 .. n + 1 -> Nat] /\ s[n + 1] = 0
  /\ \A k \in 1 .. n : s[k] = f[k] + s[k + 1]
LEMMA TailSums ==
  ASSUME NEW n \in Nat, NEW f, DOMAIN f = 1 .. n, \A k \in 1 .. n : f[k] \in Nat
  PROVE  \E s : IsTailSum(f, n, s) /\ SumFunction(f) = s[1]
<1> DEFINE S == 1 .. n
           step == Plus(f, S)
<1>1. IsFiniteSet(S) /\ S \in SUBSET S
  BY FS_Interval
<1>2. ASSUME NEW x \in S, NEW v \in Nat PROVE step[<<x, v>>] = f[x] + v
  <2>1. <<x, v>> \in S \X Nat /\ <<x, v>>[1] = x /\ <<x, v>>[2] = v
    OBVIOUS
  <2> QED BY <2>1 DEF Plus
<1> HIDE DEF step
<1>3. PICK g : IsUnordered(g, S, Nat, 0, step) /\ SumFunctionOnSet(f, S) = g[S]
  <2> HIDE DEF S
  <2>1. \A x \in S : f[x] \in Nat
    BY DEF S
  <2> QED BY <1>1, <2>1, SumOf DEF step
<1> DEFINE s == [k \in 1 .. n + 1 |-> g[k .. n]]
<1>4. \A k \in 1 .. n + 1 : k .. n \in SUBSET S /\ g[k .. n] \in Nat
  <2>1. \A k \in 1 .. n + 1 : k .. n \in SUBSET S
    OBVIOUS
  <2> HIDE DEF S
  <2> QED BY <1>3, <2>1 DEF IsUnordered
<1>5. s[n + 1] = 0
  <2>1. n + 1 .. n = {} /\ n + 1 \in 1 .. n + 1
    OBVIOUS
  <2> QED BY <1>3, <2>1 DEF IsUnordered
<1>6. ASSUME NEW k \in 1 .. n PROVE s[k] = f[k] + s[k + 1]
  <2>1. /\ k \in 1 .. n + 1 /\ k + 1 \in 1 .. n + 1 /\ k \in S
        /\ k \in k .. n /\ (k .. n) \ {k} = k + 1 .. n
    OBVIOUS
  <2>2. g[k .. n] = step[<<k, g[k + 1 .. n]>>]
    <3>1. k .. n \in SUBSET S /\ \A t \in SUBSET S : \A x \in t : g[t] = step[<<x, g[t \ {x}]>>]
      BY <1>3, <1>4, <2>1 DEF IsUnordered
    <3> HIDE DEF S
    <3>2. g[k .. n] = step[<<k, g[(k .. n) \ {k}]>>]
      BY <2>1, <3>1
    <3> QED BY <2>1, <3>2
  <2> QED BY <1>2, <1>4, <2>1, <2>2
<1>7. s \in [1 .. n + 1 -> Nat] /\ s[1] = g[S]
  BY <1>4
<1> HIDE DEF s
<1>8. IsTailSum(f, n, s)
  BY <1>5, <1>6, <1>7 DEF IsTailSum
<1> QED BY <1>3, <1>7, <1>8 DEF SumFunction

LEMMA DivMod ==
  ASSUME NEW a \in Nat, NEW b \in Positive
  PROVE  /\ a \div b \in Nat /\ a % b \in Nat /\ a % b < b
         /\ a = b * (a \div b) + (a % b)
<1>1. b \in Nat /\ b > 0
  BY DEF Positive
<1>2. a % b \in 0 .. b - 1
  BY <1>1
<1>3. a \div b \in Int
  BY <1>1
<1>4. a = b * (a \div b) + (a % b)
  BY <1>1
<1>5. a \div b \in Nat
  BY <1>1
<1> QED BY <1>1, <1>2, <1>4, <1>5

LEMMA ModUnique ==
  ASSUME NEW b \in Positive, NEW q \in Nat, NEW r \in Nat, r < b,
         NEW p \in Nat, NEW t \in Nat, t < b, b * q + r = b * p + t
  PROVE  r = t
<1>1. b \in Nat /\ b > 0
  BY DEF Positive
<1>2. ASSUME NEW x \in Nat, NEW y \in Nat, x < y PROVE b * x + b <= b * y
  <2>1. y - x - 1 \in Nat /\ y = x + 1 + (y - x - 1)
    BY <1>2
  <2> DEFINE z == y - x - 1
  <2>1a. z \in Nat /\ y = x + 1 + z
    BY <2>1
  <2> HIDE DEF z
  <2>2. b * y = b * x + b + b * z
    BY <1>1, <2>1a
  <2>3. b * z >= 0 /\ b * z \in Nat
    BY <1>1, <2>1a
  <2> QED BY <1>1, <2>2, <2>3
<1>3. b * q \in Nat /\ b * p \in Nat
  BY <1>1
<1>4. CASE q < p
  BY <1>1, <1>2, <1>3, <1>4
<1>5. CASE p < q
  BY <1>1, <1>2, <1>3, <1>5
<1>6. CASE p = q
  BY <1>1, <1>3, <1>6
<1> QED BY <1>4, <1>5, <1>6

\* A number is what the digits of the mixed radix make of it.
LEMMA MixedRadix ==
  ASSUME NEW m \in Nat, NEW s \in Positive, NEW R \in Positive
  PROVE  /\ ((m \div R) % s) * R + (m % R) = m % (s * R)
         /\ (m \div R) * R + (m % R) = m
<1> DEFINE q == m \div R
           r == m % R
           c == q \div s
           b == q % s
           M == s * R
<1>1. /\ q \in Nat /\ r \in Nat /\ r < R /\ m = R * q + r
  BY DivMod
<1>2. c \in Nat /\ b \in Nat /\ b < s /\ q = s * c + b
  <2> HIDE DEF q
  <2> QED BY <1>1, DivMod
<1>3. R \in Nat /\ s \in Nat /\ R > 0 /\ s > 0 /\ M \in Positive
  BY DEF Positive
<1> HIDE DEF M
<1>4. m % M \in Nat /\ m % M < M /\ m \div M \in Nat /\ m = M * (m \div M) + (m % M)
  BY <1>3, DivMod
<1> HIDE DEF q, r, c, b
<1>5. m = M * c + (b * R + r)
  <2>1. R * (s * c + b) = (s * R) * c + b * R
    BY <1>2, <1>3
  <2>2. (s * R) * c \in Nat /\ b * R \in Nat
    BY <1>2, <1>3
  <2> QED BY <1>1, <1>2, <2>1, <2>2 DEF M
<1>6. b * R + r \in Nat /\ b * R + r < M
  <2> DEFINE z == s - 1 - b
  <2>1. z \in Nat /\ s = b + 1 + z
    BY <1>2, <1>3
  <2> HIDE DEF z
  <2>2. M = b * R + R + z * R
    BY <1>2, <1>3, <2>1 DEF M
  <2>3. b * R \in Nat /\ z * R \in Nat
    BY <1>2, <1>3, <2>1
  <2> QED BY <1>1, <1>3, <2>2, <2>3
<1>7. b * R + r = m % M
  <2> DEFINE t == b * R + r
             u == m % M
             v == m \div M
  <2>1. t \in Nat /\ t < M /\ u \in Nat /\ u < M /\ v \in Nat /\ M * c + t = M * v + u
    BY <1>4, <1>5, <1>6
  <2> HIDE DEF t, u, v
  <2>2. t = u
    BY <1>2, <1>3, <2>1, ModUnique
  <2> QED BY <2>2 DEF t, u
<1>8. q * R + r = m
  BY <1>1, <1>3
<1> QED BY <1>7, <1>8 DEF M, q, r, b

-----------------------------------------------------------------------------
(***************************************************************************)
(* The memref of a gather: rows, offsets and positions.                    *)
(***************************************************************************)
\* The size of a row is the product of the dimensions below.
LEMMA RowSizes ==
  ASSUME NEW g, IsGather(g)
  PROVE  /\ \A d \in 1 .. Len(g.shape) : RowSize(g, d) \in Positive
         /\ RowSize(g, Len(g.shape)) = 1
         /\ \A d \in 2 .. Len(g.shape) : RowSize(g, d - 1) = g.shape[d] * RowSize(g, d)
<1> DEFINE f == g.shape
           n == Len(f)
           S == 1 .. n
           step == Times(f, S)
<1>1. n \in Nat /\ n > 0 /\ DOMAIN f = S /\ \A x \in S : f[x] \in Positive
  BY DEF IsGather, Positive
<1>2. IsFiniteSet(S)
  BY <1>1, FS_Interval
<1>3. \A d \in S : RowSize(g, d) = FoldFunctionOnSet(LAMBDA x, y : x * y, 1, f, d + 1 .. n)
  BY DEF RowSize
<1>4. ASSUME NEW x \in S, NEW v \in Positive PROVE step[<<x, v>>] = f[x] * v
  <2>1. <<x, v>> \in S \X Positive /\ <<x, v>>[1] = x /\ <<x, v>>[2] = v
    OBVIOUS
  <2> QED BY <2>1 DEF Times
<1> HIDE DEF f, n, step
<1>5. PICK p : IsUnordered(p, S, Positive, 1, step)
  <2> HIDE DEF S
  <2>1. S \in SUBSET S
    OBVIOUS
  <2> QED BY <1>1, <1>2, <2>1, ProductOf DEF step
<1>6. ASSUME NEW d \in S PROVE RowSize(g, d) = p[d + 1 .. n] /\ d + 1 .. n \in SUBSET S
  <2> DEFINE T == d + 1 .. n
  <2>1. T \in SUBSET S
    BY <1>1
  <2> HIDE DEF T, S
  <2>2. PICK h : /\ IsUnordered(h, T, Positive, 1, step)
                 /\ FoldFunctionOnSet(LAMBDA x, y : x * y, 1, f, T) = h[T]
    BY <1>1, <1>2, <2>1, ProductOf DEF step
  <2>3. IsUnordered(h, T, Positive, 1, step)
    BY <2>2, Zenon
  <2>4. h[T] = p[T]
    BY <1>2, <1>5, <2>1, <2>3, FoldsAgree
  <2> QED BY <1>3, <2>1, <2>2, <2>4 DEF T
<1>7. \A d \in S : RowSize(g, d) \in Positive
  BY <1>5, <1>6 DEF IsUnordered
<1>8. RowSize(g, n) = 1
  <2>1. n \in S /\ n + 1 .. n = {}
    BY <1>1
  <2> QED BY <1>5, <1>6, <2>1 DEF IsUnordered
<1>9. ASSUME NEW d \in 2 .. n PROVE RowSize(g, d - 1) = f[d] * RowSize(g, d)
  <2>1. /\ d \in S /\ d - 1 \in S /\ (d - 1) + 1 = d
        /\ d \in d .. n /\ (d .. n) \ {d} = d + 1 .. n
    BY <1>1
  <2>2. RowSize(g, d - 1) = p[d .. n] /\ d .. n \in SUBSET S /\ RowSize(g, d) = p[d + 1 .. n]
    BY <1>6, <2>1
  <2>3. p[d .. n] = step[<<d, p[d + 1 .. n]>>]
    BY <1>5, <2>1, <2>2 DEF IsUnordered
  <2> HIDE DEF S
  <2> QED BY <1>4, <1>7, <2>1, <2>2, <2>3
<1> QED BY <1>7, <1>8, <1>9 DEF f, n

\* Adding the index to the last offset moves by as many elements.
LEMMA OffsetsAddress ==
  ASSUME NEW g, IsGather(g), isRowMajorContiguousMemRef(g), NEW i \in DOMAIN g.index
  PROVE  Address(g, LoadOffsets(g, i)) = Linear(g) + g.index[i] /\ Linear(g) \in Nat
<1> DEFINE n == Len(g.shape)
           o == LoadOffsets(g, i)
           a == [d \in DOMAIN o |-> o[d] * g.strides[d]]
           b == [d \in DOMAIN g.offsets |-> g.offsets[d] * RowSize(g, d)]
           x == g.index[i]
<1>1. /\ n \in Nat /\ n > 0 /\ DOMAIN g.shape = 1 .. n /\ DOMAIN g.offsets = 1 .. n
      /\ Len(g.offsets) = n /\ \A d \in 1 .. n : g.offsets[d] \in Nat
  <2>1. \A p \in Seq(Nat) : DOMAIN p = 1 .. Len(p) /\ \A d \in 1 .. Len(p) : p[d] \in Nat
    OBVIOUS
  <2>2. g.offsets \in Seq(Nat) /\ Len(g.offsets) = n
    BY DEF IsGather
  <2>3. n \in Nat /\ n > 0 /\ DOMAIN g.shape = 1 .. n
    BY DEF IsGather
  <2> HIDE DEF n
  <2> QED BY <2>1, <2>2, <2>3
<1>2. x \in Nat
  BY DEF IsGather
<1>3. \A d \in 1 .. n : g.strides[d] = RowSize(g, d) /\ RowSize(g, d) \in Nat
  BY <1>1, RowSizes DEF isRowMajorContiguousMemRef, Positive
<1>4. RowSize(g, n) = 1
  BY RowSizes
<1>5. /\ DOMAIN o = 1 .. n /\ o[n] = g.offsets[n] + x
      /\ \A d \in 1 .. n - 1 : o[d] = g.offsets[d]
  BY <1>1 DEF LoadOffsets
<1> HIDE DEF n, o, x
<1>6. \A d \in 1 .. n : o[d] \in Nat
  BY <1>1, <1>2, <1>5
<1>7. /\ DOMAIN a = 1 .. n /\ DOMAIN b = 1 .. n
      /\ \A d \in 1 .. n : a[d] \in Nat /\ b[d] \in Nat
      /\ \A d \in 1 .. n - 1 : a[d] = b[d]
      /\ a[n] = b[n] + x
  <2>1. \A d \in 1 .. n : a[d] = o[d] * RowSize(g, d) /\ b[d] = g.offsets[d] * RowSize(g, d)
    BY <1>1, <1>3, <1>5
  <2>2. \A p, q \in Nat : p * q \in Nat
    OBVIOUS
  <2>3. \A d \in 1 .. n : a[d] \in Nat /\ b[d] \in Nat
    <3> HIDE DEF a, b
    <3> QED BY <1>1, <1>3, <1>6, <2>1, <2>2
  <2>4. \A d \in 1 .. n - 1 : d \in 1 .. n
    BY <1>1
  <2>5. n \in 1 .. n
    BY <1>1
  <2>6. a[n] = b[n] + x
    <3> HIDE DEF a, b
    <3> QED BY <1>1, <1>2, <1>4, <1>5, <2>1, <2>5
  <2>7. DOMAIN a = 1 .. n /\ DOMAIN b = 1 .. n
    BY <1>1, <1>5
  <2> HIDE DEF a, b
  <2> QED BY <1>5, <2>1, <2>3, <2>4, <2>6, <2>7
<1>8. Address(g, o) = SumFunction(a) /\ Linear(g) = SumFunction(b)
  BY DEF Address, Linear
<1> HIDE DEF a, b
<1>9. PICK s : IsTailSum(a, n, s) /\ SumFunction(a) = s[1]
  BY <1>1, <1>7, TailSums
<1>10. PICK t : IsTailSum(b, n, t) /\ SumFunction(b) = t[1]
  BY <1>1, <1>7, TailSums
<1> DEFINE Q == {k \in 1 .. n + 1 : k <= n => s[k] = t[k] + x}
<1>11. n + 1 \in Q
  BY <1>1
<1>12. ASSUME NEW k \in 1 .. n, k + 1 \in Q PROVE k \in Q
  <2>0. k \in 1 .. n + 1
    BY <1>1
  <2>1. s[k] = a[k] + s[k + 1] /\ t[k] = b[k] + t[k + 1]
    BY <1>9, <1>10 DEF IsTailSum
  <2>2. s[k + 1] \in Nat /\ t[k + 1] \in Nat /\ a[k] \in Nat /\ b[k] \in Nat
    <3>1. k + 1 \in 1 .. n + 1
      BY <1>1
    <3> QED BY <1>7, <1>9, <1>10, <3>1 DEF IsTailSum
  <2>3. CASE k = n
    <3>1. s[n + 1] = 0 /\ t[n + 1] = 0
      BY <1>9, <1>10 DEF IsTailSum
    <3>2. s[k] = t[k] + x
      BY <1>2, <1>7, <2>1, <2>2, <2>3, <3>1
    <3> QED BY <2>0, <3>2
  <2>4. CASE k # n
    <3>1. k \in 1 .. n - 1 /\ k + 1 <= n
      BY <1>1, <2>4
    <3>2. s[k + 1] = t[k + 1] + x
      BY <1>12, <3>1
    <3>3. s[k] = t[k] + x
      BY <1>2, <1>7, <2>1, <2>2, <3>1, <3>2
    <3> QED BY <2>0, <3>3
  <2> QED BY <2>3, <2>4
<1> HIDE DEF Q
<1>13. \A k \in 1 .. n + 1 : k \in Q
  BY <1>1, <1>11, <1>12, Downwards
<1>14. 1 \in 1 .. n + 1 /\ 1 <= n
  BY <1>1
<1>15. s[1] = t[1] + x
  BY <1>13, <1>14 DEF Q
<1>16. t[1] \in Nat
  BY <1>10, <1>14 DEF IsTailSum
<1> QED BY <1>8, <1>9, <1>10, <1>15, <1>16 DEF o, x

\* The strides of a row-major memref take the indices of an element back to its position.
LEMMA PositionAddress ==
  ASSUME NEW g, IsGather(g), isRowMajorContiguousMemRef(g), NEW m \in Nat
  PROVE  Address(g, Delinearized(g, m)) = m
<1> DEFINE n == Len(g.shape)
           D == Delinearized(g, m)
           R == [d \in 1 .. n |-> RowSize(g, d)]
           a == [d \in DOMAIN D |-> D[d] * g.strides[d]]
<1>1. n \in Nat /\ n > 0 /\ DOMAIN g.shape = 1 .. n /\ \A d \in 1 .. n : g.shape[d] \in Positive
  BY DEF IsGather, Positive
<1>2. \A d \in 1 .. n : g.strides[d] = R[d] /\ R[d] \in Positive /\ R[d] \in Nat
  BY <1>1, RowSizes DEF isRowMajorContiguousMemRef, Positive
<1>3. R[n] = 1 /\ \A d \in 2 .. n : R[d - 1] = g.shape[d] * R[d]
  <2>1. n \in 1 .. n /\ \A d \in 2 .. n : d \in 1 .. n /\ d - 1 \in 1 .. n
    BY <1>1
  <2> QED BY <2>1, RowSizes
<1>4. /\ DOMAIN D = 1 .. n /\ D[1] = m \div R[1]
      /\ \A d \in 2 .. n : D[d] = (m \div R[d]) % g.shape[d]
  <2>1. 1 \in 1 .. n /\ \A d \in 2 .. n : d \in 1 .. n /\ d # 1
    BY <1>1
  <2> QED BY <1>1, <2>1 DEF Delinearized
<1> HIDE DEF D, R
<1>5. DOMAIN a = 1 .. n /\ \A d \in 1 .. n : a[d] = D[d] * R[d]
  BY <1>2, <1>4
<1>6. Address(g, D) = SumFunction(a)
  BY DEF Address
<1> HIDE DEF a, n
<1>7. ASSUME NEW d \in 2 .. n PROVE a[d] + (m % R[d]) = m % R[d - 1]
  <2>1. d \in 1 .. n
    BY <1>1
  <2>2. ((m \div R[d]) % g.shape[d]) * R[d] + (m % R[d]) = m % (g.shape[d] * R[d])
    BY <1>1, <1>2, <2>1, MixedRadix
  <2> QED BY <1>3, <1>4, <1>5, <2>1, <2>2
<1>8. a[1] + (m % R[1]) = m
  <2>1. 1 \in 1 .. n
    BY <1>1
  <2>2. (m \div R[1]) * R[1] + (m % R[1]) = m
    BY <1>1, <1>2, <2>1, MixedRadix
  <2> QED BY <1>4, <1>5, <2>1, <2>2
<1>9. \A d \in 1 .. n : a[d] \in Nat /\ m % R[d] \in Nat
  <2> TAKE d \in 1 .. n
  <2>1. m \div R[d] \in Nat /\ m % R[d] \in Nat
    BY <1>2, DivMod
  <2>2. D[d] \in Nat
    <3>1. CASE d = 1
      BY <1>4, <2>1, <3>1
    <3>2. CASE d # 1
      <4>1. d \in 2 .. n
        BY <1>1, <3>2
      <4>2. (m \div R[d]) % g.shape[d] \in Nat
        BY <1>1, <2>1, DivMod
      <4> QED BY <1>4, <4>1, <4>2
    <3> QED BY <3>1, <3>2
  <2>3. \A p, q \in Nat : p * q \in Nat
    OBVIOUS
  <2> QED BY <1>2, <1>5, <2>1, <2>2, <2>3
<1>10. PICK s : IsTailSum(a, n, s) /\ SumFunction(a) = s[1]
  BY <1>1, <1>5, <1>9, TailSums
<1> DEFINE Q == {k \in 1 .. n + 1 : 2 <= k /\ k <= n => s[k] = m % R[k - 1]}
<1>11. n + 1 \in Q
  BY <1>1
<1>12. \A k \in 1 .. n : k + 1 \in 1 .. n + 1 /\ k \in 1 .. n + 1
  BY <1>1
<1>13. s[n + 1] = 0 /\ m % R[n] = 0
  BY <1>3, <1>10 DEF IsTailSum
<1>14. ASSUME NEW k \in 1 .. n, k + 1 \in Q PROVE s[k + 1] = m % R[k]
  <2>1. CASE k = n
    BY <1>13, <2>1
  <2>2. CASE k # n
    <3>1. 2 <= k + 1 /\ k + 1 <= n /\ (k + 1) - 1 = k
      BY <1>1, <2>2
    <3> QED BY <1>14, <3>1
  <2> QED BY <2>1, <2>2
<1>15. ASSUME NEW k \in 1 .. n, k + 1 \in Q PROVE k \in Q
  <2>1. CASE k = 1
    BY <1>12, <2>1
  <2>2. CASE k # 1
    <3>1. k \in 2 .. n
      BY <1>1, <2>2
    <3>2. s[k] = a[k] + s[k + 1]
      BY <1>10 DEF IsTailSum
    <3>3. s[k + 1] = m % R[k]
      BY <1>14, <1>15
    <3>4. s[k] = m % R[k - 1]
      BY <1>7, <3>1, <3>2, <3>3
    <3> QED BY <1>12, <3>4
  <2> QED BY <2>1, <2>2
<1>16. \A k \in 1 .. n : k + 1 \in Q => k \in Q
  <2> HIDE DEF Q
  <2> QED BY <1>15
<1>17. \A k \in 1 .. n + 1 : k \in Q
  <2> HIDE DEF Q
  <2> QED BY <1>1, <1>11, <1>16, Downwards
<1>18. s[2] = m % R[1]
  <2>1. 1 \in 1 .. n /\ 1 + 1 \in 1 .. n + 1
    BY <1>1
  <2>2. 1 + 1 \in Q
    BY <1>17, <2>1
  <2>3. s[1 + 1] = m % R[1]
    <3> HIDE DEF Q
    <3> QED BY <1>14, <2>1, <2>2
  <2> QED BY <2>3
<1>19. s[1] = a[1] + s[2]
  <2>1. 1 \in 1 .. n /\ 1 + 1 = 2
    BY <1>1
  <2> QED BY <1>10, <2>1 DEF IsTailSum
<1> QED BY <1>6, <1>8, <1>10, <1>18, <1>19 DEF D

-----------------------------------------------------------------------------
(***************************************************************************)
(* The lanes of a gather.                                                  *)
(***************************************************************************)
\* What a lane of the gathered vector may hold.
Values(g) == {Loaded(a) : a \in Nat} \cup {PassThru(i) : i \in DOMAIN g.index}
Stored(g, vector, i) ==
  IF g.mask[i] THEN [vector EXCEPT ![i] = Loaded(Address(g, LoadOffsets(g, i)))] ELSE vector
IsLaneFold(g, S, it) ==
  it = [s \in SUBSET S |-> IF s = {} THEN [i \in DOMAIN g.index |-> PassThru(i)]
                           ELSE Stored(g, it[s \ {Max(s)}], [i \in DOMAIN g.index |-> i][Max(s)])]
LaneFold(g, S) == CHOOSE it : IsLaneFold(g, S, it)

\* One conditional load per lane reads what the gather means.
LEMMA LanesGathered ==
  ASSUME NEW g, IsGather(g), isRowMajorContiguousMemRef(g)
  PROVE  matchAndRewrite(g) = Gathered(g)
<1> DEFINE S == DOMAIN g.index
           D == [S -> Values(g)]
           base == [i \in S |-> PassThru(i)]
           step == [p \in S \X D |-> Stored(g, p[2], p[1])]
           choose == [s \in SUBSET S |-> Max(s)]
           it == LaneFold(g, S)
<1>1. S = 1 .. Len(g.index) /\ Len(g.index) \in Nat /\ IsFiniteSet(S)
  <2>1. S = 1 .. Len(g.index) /\ Len(g.index) \in Nat
    BY DEF IsGather
  <2> HIDE DEF S
  <2> QED BY <2>1, FS_Interval
<1>2. ASSUME NEW i \in S
      PROVE  /\ Address(g, LoadOffsets(g, i)) = Linear(g) + g.index[i]
             /\ Address(g, LoadOffsets(g, i)) \in Nat
             /\ Gathered(g)[i] = IF g.mask[i] THEN Loaded(Address(g, LoadOffsets(g, i))) ELSE PassThru(i)
  <2>1. Address(g, LoadOffsets(g, i)) = Linear(g) + g.index[i] /\ Linear(g) \in Nat
    BY OffsetsAddress
  <2>2. g.index[i] \in Nat
    BY DEF IsGather
  <2>3. Linear(g) + g.index[i] \in Nat
    BY <2>1, <2>2
  <2>4. Address(g, Delinearized(g, Linear(g) + g.index[i])) = Linear(g) + g.index[i]
    BY <2>3, PositionAddress
  <2>5. Gathered(g)[i] = IF g.mask[i] THEN Loaded(Address(g, Delinearized(g, Linear(g) + g.index[i])))
                         ELSE PassThru(i)
    BY DEF Gathered
  <2> QED BY <2>1, <2>3, <2>4, <2>5
<1>3. ASSUME NEW x \in S, NEW v \in D
      PROVE  step[<<x, v>>] = Stored(g, v, x) /\ Stored(g, v, x) \in D
  <2>1. <<x, v>> \in S \X D /\ <<x, v>>[1] = x /\ <<x, v>>[2] = v
    OBVIOUS
  <2>2. Loaded(Address(g, LoadOffsets(g, x))) \in Values(g)
    BY <1>2 DEF Values
  <2>3. Stored(g, v, x) \in D
    BY <2>2 DEF Stored
  <2> QED BY <2>1, <2>3
<1>4. base \in D
  BY DEF Values
<1>5. \A s \in SUBSET S : choose[s] = Max(s) /\ (s # {} => Max(s) \in s)
  <2> HIDE DEF S
  <2> QED BY <1>1, HasMax
<1> HIDE DEF step, choose
<1>6. Foldable(S, D, base, choose, step)
  <2> HIDE DEF base, D, S
  <2> QED BY <1>1, <1>3, <1>4, <1>5 DEF Foldable
<1>7. PICK h : IsFold(h, S, D, base, choose, step)
  <2> HIDE DEF base, D, S
  <2> QED BY <1>6, FoldDefined
<1>8. ASSUME NEW s \in SUBSET S, s # {}, NEW k, k[s \ {Max(s)}] \in D
      PROVE  step[<<choose[s], k[s \ {choose[s]}]>>]
               = Stored(g, k[s \ {Max(s)}], [i \in DOMAIN g.index |-> i][Max(s)])
  <2>1. choose[s] = Max(s) /\ Max(s) \in S
    BY <1>5, <1>8
  <2>2. [i \in DOMAIN g.index |-> i][Max(s)] = Max(s)
    BY <2>1
  <2> HIDE DEF D
  <2> QED BY <1>3, <1>8, <2>1, <2>2
<1>9. IsLaneFold(g, S, h)
  <2>1. ASSUME NEW s \in SUBSET S, s # {}
        PROVE  h[s] = Stored(g, h[s \ {Max(s)}], [i \in DOMAIN g.index |-> i][Max(s)])
    <3> HIDE DEF D, base, S
    <3>1. h[s \ {Max(s)}] \in D /\ h[s] = step[<<choose[s], h[s \ {choose[s]}]>>]
      BY <1>7, <2>1 DEF IsFold
    <3> QED BY <1>8, <2>1, <3>1
  <2>2. h[{}] = base /\ h \in [SUBSET S -> D]
    BY <1>7 DEF IsFold
  <2>3. h = [s \in SUBSET S |-> h[s]]
    <3> HIDE DEF D, S
    <3> QED BY <2>2
  <2> QED BY <2>1, <2>2, <2>3, Zenon DEF IsLaneFold
<1>10. IsLaneFold(g, S, it)
  <2> HIDE DEF S
  <2> QED BY <1>9, Zenon DEF LaneFold
<1>11. matchAndRewrite(g) = it[DOMAIN [i \in DOMAIN g.index |-> i]]
  BY Zenon DEF matchAndRewrite, FoldLeftDomain, FoldLeft, MapThenFoldSet, LaneFold, IsLaneFold,
               LoadLane, Stored
<1>12. matchAndRewrite(g) = it[S]
  <2>1. DOMAIN [i \in DOMAIN g.index |-> i] = S
    OBVIOUS
  <2> HIDE DEF it
  <2> QED BY <1>11, <2>1
<1> HIDE DEF it
<1>13. \A s \in SUBSET S :
         it[s] = IF s = {} THEN base
                 ELSE Stored(g, it[s \ {Max(s)}], [i \in DOMAIN g.index |-> i][Max(s)])
  BY <1>10, Zenon DEF IsLaneFold
<1>14. Follows(it, S, D, base, choose, step)
  <2> HIDE DEF D, base
  <2>1. ASSUME NEW s \in SUBSET S, s # {}, it[s \ {choose[s]}] \in D
        PROVE  it[s] = step[<<choose[s], it[s \ {choose[s]}]>>]
    <3>1. choose[s] = Max(s)
      BY <1>5
    <3> QED BY <1>8, <1>13, <2>1, <3>1
  <2> HIDE DEF S
  <2> QED BY <1>13, <2>1 DEF Follows
<1>15. PICK k : IsFold(k, S, D, base, choose, step) /\ k[S] = it[S]
  <2> HIDE DEF D, base, S
  <2> QED BY <1>6, <1>14, FollowsFold
<1> DEFINE Lanes(s) == [i \in S |-> IF i \in s THEN Gathered(g)[i] ELSE PassThru(i)]
           Q == {s \in SUBSET S : k[s] = Lanes(s)}
<1>16. {} \in Q
  BY <1>15 DEF IsFold
<1>17. ASSUME NEW s \in SUBSET S, s # {}, \A x \in s : s \ {x} \in Q PROVE s \in Q
  <2> DEFINE x == choose[s]
  <2>1. x \in s
    BY <1>5, <1>17
  <2>2. k[s \ {x}] = Lanes(s \ {x})
    BY <1>17, <2>1
  <2>3. k[s \ {x}] \in D /\ k[s] = step[<<x, k[s \ {x}]>>]
    <3> HIDE DEF D, base, S
    <3> QED BY <1>15, <1>17, <2>1 DEF IsFold
  <2>4. k[s] = Stored(g, Lanes(s \ {x}), x)
    <3> HIDE DEF D, base, S, x, Lanes
    <3>1. x \in S
      BY <2>1
    <3> QED BY <1>3, <2>2, <2>3, <3>1
  <2> HIDE DEF x
  <2>5. Stored(g, Lanes(s \ {x}), x) = Lanes(s)
    <3>1. CASE g.mask[x]
      <4>1. Stored(g, Lanes(s \ {x}), x) = [Lanes(s \ {x}) EXCEPT ![x] = Gathered(g)[x]]
        BY <1>2, <2>1, <3>1 DEF Stored
      <4> HIDE DEF S
      <4> QED BY <2>1, <4>1
    <3>2. CASE ~g.mask[x]
      <4>1. Stored(g, Lanes(s \ {x}), x) = Lanes(s \ {x}) /\ Gathered(g)[x] = PassThru(x)
        BY <1>2, <2>1, <3>2 DEF Stored
      <4> HIDE DEF S
      <4> QED BY <2>1, <4>1
    <3> QED BY <3>1, <3>2
  <2> QED BY <2>4, <2>5
<1>18. \A s \in SUBSET S : s # {} /\ (\A x \in s : s \ {x} \in Q) => s \in Q
  <2> HIDE DEF Q
  <2> QED BY <1>17
<1>19. \A s \in SUBSET S : s \in Q
  <2> HIDE DEF Q, S
  <2> QED BY <1>1, <1>16, <1>18, FiniteInduction
<1>20. k[S] = Lanes(S)
  <2> HIDE DEF Lanes
  <2> QED BY <1>19
<1>21. Lanes(S) = Gathered(g)
  <2>1. Gathered(g) = [i \in S |-> Gathered(g)[i]]
    BY DEF Gathered
  <2> QED BY <2>1
<1> QED BY <1>12, <1>15, <1>20, <1>21

\* The function's gathers do not change, and each has a vector to compute.
GatherInv ==
  /\ TypeOK
  /\ \A g \in Gathers : IsGather(gathers[g])
  /\ DOMAIN vectors = Gathers
  /\ GatherCorrect

\* Every lowered gather loads the lanes that the gather means, whichever pattern lowered it, and
\* none is lowered, or left behind by an invocation, against the target's indexed loads
\* (ContiguousMemrefGather1DToConditionalLoads, the patterns' condition in runOnOperation).
THEOREM GathersLowered == Spec => []GatherCorrect
<1>1. Init => (\A g \in Gathers : IsGather(gathers[g])) /\ DOMAIN vectors = Gathers /\ GatherCorrect
  <2> SUFFICES ASSUME Init
               PROVE  (\A g \in Gathers : IsGather(gathers[g])) /\ DOMAIN vectors = Gathers /\ GatherCorrect
    OBVIOUS
  <2>1. PICK f \in Compiled : ops = f.ops /\ exeTarget = f.target /\ gathers = f.gathers
    BY DEF Init
  <2>2. \A g \in Gathers : IsGather(gathers[g])
    BY <2>1, PipelineAssumption
  <2>3. DOMAIN vectors = Gathers /\ pc = "other" /\ \A g \in Gathers : form[g] = "absent"
    BY DEF Init, Ops
  <2> QED BY <2>2, <2>3 DEF GatherCorrect
<1>2. TypeOK' /\ GatherInv /\ [Next]_vars => GatherInv'
  <2> SUFFICES ASSUME TypeOK', GatherInv, [Next]_vars PROVE GatherInv'
    OBVIOUS
  <2> USE DEF GatherInv, function
  <2>0. /\ form \in [Ops -> Forms] /\ Gathers \subseteq Ops /\ Contractions \cap Gathers = {}
        /\ ImeAccepts \subseteq Contractions /\ I8mmAccepts \subseteq Contractions
    BY PipelineAssumption DEF TypeOK, Ops
  <2>a. ASSUME UNCHANGED <<exeTarget, gathers, vectors>>, pc' # "conversions",
               \A g \in Gathers : form'[g] = "loads" => form[g] = "loads"
        PROVE  GatherInv'
    BY <2>a DEF GatherCorrect, HasIndexedLoads, IsRISCV, HasTarget
  <2>1. ASSUME NEW S \in SUBSET Ops, CreateOps(S) PROVE GatherInv'
    BY <2>0, <2>1, <2>a DEF CreateOps
  <2>2. CASE BeginPass
    BY <2>2, <2>a DEF BeginPass
  <2>3. ASSUME NEW o \in Ops, ApplyNeon(o) PROVE GatherInv'
    BY <2>0, <2>3, <2>a DEF ApplyNeon, Rewrite
  <2>4. CASE LeaveNeon
    BY <2>4, <2>a DEF LeaveNeon, Leave
  <2>5. ASSUME NEW o \in Ops, ApplyIme(o) PROVE GatherInv'
    BY <2>0, <2>5, <2>a DEF ApplyIme, Rewrite
  <2>6. CASE LeaveIme
    BY <2>6, <2>a DEF LeaveIme, Leave
  <2>7. ASSUME NEW o \in Ops, ApplyContract(o) PROVE GatherInv'
    BY <2>0, <2>7, <2>a DEF ApplyContract, Rewrite
  <2>8. ASSUME NEW o \in Ops, ApplyGather(o) PROVE GatherInv'
    <3>1. o \in Gathers /\ ~HasIndexedLoads
      BY <2>8 DEF ApplyGather, Matching, GathersToLower, HasIndexedLoads
    <3>2. IF Matches(gathers[o]) THEN matchAndRewrite(gathers[o]) = Gathered(gathers[o]) ELSE TRUE
      BY <3>1, LanesGathered DEF Matches
    <3>3. /\ vectors' = [vectors EXCEPT ![o] = Gathered(gathers[o])]
          /\ form' = [form EXCEPT ![o] = "loads"] /\ pc' = "generic"
          /\ UNCHANGED <<exeTarget, gathers>>
      BY <2>8, <3>2 DEF ApplyGather, Rewrite
    <3>4. HasIndexedLoads' <=> HasIndexedLoads
      BY <3>3 DEF HasIndexedLoads, IsRISCV, HasTarget
    <3>5. DOMAIN vectors' = Gathers /\ \A g \in Gathers : IsGather(gathers'[g])
      BY <3>3
    <3>6. ASSUME NEW g \in Gathers, form'[g] = "loads"
          PROVE  ~HasIndexedLoads' /\ vectors'[g] = Gathered(gathers'[g])
      <4>1. CASE g = o
        BY <3>1, <3>3, <3>4, <4>1
      <4>2. CASE g # o
        <5>1. form[g] = "loads" /\ vectors'[g] = vectors[g]
          BY <2>0, <3>3, <3>6, <4>2
        <5> QED BY <3>1, <3>3, <3>4, <5>1 DEF GatherCorrect
      <4> QED BY <4>1, <4>2
    <3> QED BY <3>3, <3>5, <3>6 DEF GatherCorrect
  <2>9. CASE LeaveGeneric
    <3>1. /\ UNCHANGED <<exeTarget, gathers, vectors, form>>
          /\ Matching(Contractions \cup GathersToLower) = {}
      BY <2>9 DEF LeaveGeneric, Leave
    <3>2. HasIndexedLoads' <=> HasIndexedLoads
      BY <3>1 DEF HasIndexedLoads, IsRISCV, HasTarget
    <3>3. ~HasIndexedLoads => \A g \in Gathers : form[g] # "vector"
      BY <3>1 DEF Matching, GathersToLower, HasIndexedLoads
    <3> QED BY <3>1, <3>2, <3>3 DEF GatherCorrect
  <2>10. CASE EliminateConversions
    BY <2>10, <2>a DEF EliminateConversions
  <2>11. CASE UNCHANGED vars
    BY <2>11 DEF vars, GatherCorrect, HasIndexedLoads, IsRISCV, HasTarget
  <2> QED BY <2>1, <2>2, <2>3, <2>4, <2>5, <2>6, <2>7, <2>8, <2>9, <2>10, <2>11 DEF Next
<1>3. GatherInv => GatherCorrect
  BY DEF GatherInv
<1>4. TypeOK /\ (\A g \in Gathers : IsGather(gathers[g])) /\ DOMAIN vectors = Gathers /\ GatherCorrect
        => GatherInv
  BY DEF GatherInv
<1> QED BY <1>1, <1>2, <1>3, <1>4, TypeCorrect, PTL DEF Spec
=============================================================================
