------------------------ MODULE Mmt4dXsmtvdot_proofs -------------------------
(***************************************************************************)
(* Proofs about the tile functions, for every K, atom and vector length.   *)
(***************************************************************************)
EXTENDS Mmt4dXsmtvdot, SequenceTheorems, TLAPS

-----------------------------------------------------------------------------
(***************************************************************************)
(* Sizes.  There are three atoms, so every size but K is one of a few      *)
(* numbers.                                                                *)
(***************************************************************************)
LEMMA CallFacts ==
  ASSUME call \in Calls
  PROVE  /\ call.MT \in 1 .. 3 /\ call.atom \in {4, 8, 16} /\ call.K \in Nat
         /\ call.accumulate \in BOOLEAN /\ call.vlen \in Nat
         /\ call.vlen >= 16 * call.atom * call.atom
BY CallsAssumption DEF CallType, Atoms

\* The vector length is enough for a whole panel and a whole atom.
LEMMA FullConfigs ==
  ASSUME call \in Calls
  PROVE  /\ ByteConfig = [sew |-> 8, vl |-> panel_stride]
         /\ WordConfig = [sew |-> 32, vl |-> atom_elems]
<1> USE DEF ByteConfig, WordConfig, Granted, panel_stride, atom_elems, K0
<1>1. CASE call.atom = 4
  BY <1>1, CallFacts
<1>2. CASE call.atom = 8
  BY <1>2, CallFacts
<1>3. CASE call.atom = 16
  BY <1>3, CallFacts
<1> QED BY <1>1, <1>2, <1>3, CallFacts

\* K as an int is never more than K, and is K when it fits.
LEMMA K1Facts ==
  ASSUME call \in Calls
  PROVE  K1 \in Int /\ K1 <= call.K /\ (KFitsInt => K1 = call.K)
<1> DEFINE P == 2 ^ IntBits
           Q == 2 ^ (IntBits - 1)
<1>1. P \in Nat \ {0} /\ Q \in Nat \ {0} /\ P = 2 * Q
  BY IntBitsAssumption
<1>2. call.K \in Nat
  BY CallFacts
<1>3. K1 = IF call.K % P >= Q THEN (call.K % P) - P ELSE call.K % P
  BY DEF K1, ToInt
<1>4. KFitsInt <=> call.K < Q
  BY DEF KFitsInt
<1> HIDE DEF P, Q
<1>5. call.K % P \in Nat /\ call.K % P <= call.K
  BY <1>1, <1>2
<1>6. call.K < Q => call.K % P = call.K
  BY <1>1, <1>2
<1> QED BY <1>1, <1>2, <1>3, <1>4, <1>5, <1>6

-----------------------------------------------------------------------------
(***************************************************************************)
(* Element e of accumulator group t is element (Row, Col) of the tile.     *)
(***************************************************************************)
Elts == 0 .. atom_elems - 1
Row(t, e) == (t \div IME_NT) * call.atom + (e \div call.atom)
Col(t, e) == (t % IME_NT) * call.atom + (e % call.atom)

\* The byte offset never wraps, and the cell is the row-major one.
LEMMA CellOf ==
  ASSUME call \in Calls, NEW t \in Groups, NEW e \in Elts
  PROVE  /\ Row(t, e) \in 0 .. M0 - 1 /\ Col(t, e) \in 0 .. N0 - 1
         /\ OutCell(t, e) = Row(t, e) * N0 + Col(t, e)
         /\ OutCell(t, e) \in 0 .. (M0 * N0) - 1
<1> USE DEF Groups, Elts, Row, Col, OutCell, IME_OUT, ime_out_index, M0, N0, IME_NT, atom_elems
<1>1. CASE call.atom = 4
  BY <1>1, CallFacts
<1>2. CASE call.atom = 8
  BY <1>2, CallFacts
<1>3. CASE call.atom = 16
  BY <1>3, CallFacts
<1> QED BY <1>1, <1>2, <1>3, CallFacts

\* No two accumulator elements share a cell.
LEMMA CellInjective ==
  ASSUME call \in Calls, NEW t \in Groups, NEW e \in Elts, NEW u \in Groups, NEW f \in Elts,
         OutCell(t, e) = OutCell(u, f)
  PROVE  t = u /\ e = f
<1>1. Row(t, e) = Row(u, f) /\ Col(t, e) = Col(u, f)
  <2> DEFINE r == Row(t, e)
             c == Col(t, e)
             s == Row(u, f)
             d == Col(u, f)
  <2>1. r \in Nat /\ s \in Nat /\ c \in 0 .. N0 - 1 /\ d \in 0 .. N0 - 1 /\ r * N0 + c = s * N0 + d
    BY CellOf
  <2> HIDE DEF r, c, s, d
  <2>2. N0 \in {16, 32, 64}
    BY CallFacts DEF N0, IME_NT
  <2>3. r = s /\ c = d
    BY <2>1, <2>2
  <2> QED BY <2>3 DEF r, c, s, d
<1> USE DEF Groups, Elts, Row, Col, IME_NT, atom_elems
<1>2. CASE call.atom = 4
  BY <1>1, <1>2, CallFacts
<1>3. CASE call.atom = 8
  BY <1>1, <1>3, CallFacts
<1>4. CASE call.atom = 16
  BY <1>1, <1>4, CallFacts
<1> QED BY <1>2, <1>3, <1>4, CallFacts

\* Every element of the tile is in some accumulator.
LEMMA CellCovered ==
  ASSUME call \in Calls, NEW i \in 0 .. M0 - 1, NEW j \in 0 .. N0 - 1
  PROVE  \E t \in Groups, e \in Elts : Row(t, e) = i /\ Col(t, e) = j
<1> DEFINE t == (i \div call.atom) * IME_NT + (j \div call.atom)
           e == (i % call.atom) * call.atom + (j % call.atom)
<1> USE DEF Groups, Elts, Row, Col, IME_NT, atom_elems, M0, N0
<1>1. CASE call.atom = 4
  <2>1. t \in Groups /\ e \in Elts /\ Row(t, e) = i /\ Col(t, e) = j
    BY <1>1, CallFacts
  <2> QED BY <2>1
<1>2. CASE call.atom = 8
  <2>1. t \in Groups /\ e \in Elts /\ Row(t, e) = i /\ Col(t, e) = j
    BY <1>2, CallFacts
  <2> QED BY <2>1
<1>3. CASE call.atom = 16
  <2>1. t \in Groups /\ e \in Elts /\ Row(t, e) = i /\ Col(t, e) = j
    BY <1>3, CallFacts
  <2> QED BY <2>1
<1> QED BY <1>1, <1>2, <1>3, CallFacts

-----------------------------------------------------------------------------
(***************************************************************************)
(* Type correctness.                                                       *)
(***************************************************************************)
LEMMA SizeTypes ==
  ASSUME call \in Calls
  PROVE  /\ panel_stride \in {32, 128, 512} /\ atom_elems \in {16, 64, 256}
         /\ K0 \in {8, 16, 32} /\ M0 \in Nat /\ N0 \in {16, 32, 64}
         /\ call.MT * panel_stride \in Nat /\ IME_NT * panel_stride \in Nat
         /\ ByteConfig.sew = 8 /\ ByteConfig.vl \in Nat
         /\ WordConfig.sew = 32 /\ WordConfig.vl \in Nat
<1>1. /\ panel_stride \in {32, 128, 512} /\ atom_elems \in {16, 64, 256}
      /\ K0 \in {8, 16, 32} /\ M0 \in Nat /\ N0 \in {16, 32, 64}
  BY CallFacts DEF panel_stride, atom_elems, K0, M0, N0, IME_NT
<1>2. call.MT * panel_stride \in Nat /\ IME_NT * panel_stride \in Nat
  BY <1>1, CallFacts DEF IME_NT
<1> QED BY <1>1, <1>2, FullConfigs

\* The locals of the tile function and the tile keep their types (TypeOK of the body).
THEOREM TypeCorrect == Spec => []TypeOK
<1>1. Init => TypeOK
  <2> SUFFICES ASSUME Init PROVE TypeOK
    OBVIOUS
  <2>1. config.sew \in {8, 16, 32, 64} /\ config.vl \in Nat
    BY DEF Init
  <2> QED BY <2>1 DEF Init, TypeOK, NoPanels, IME_NT
<1>2. TypeOK /\ [Next]_vars => TypeOK'
  <2> SUFFICES ASSUME TypeOK, [Next]_vars PROVE TypeOK'
    OBVIOUS
  <2> USE DEF TypeOK, Groups, M0, N0, atom_elems, IME_NT
  <2>0. call \in Calls
    OBVIOUS
  <2>1. CASE InitAccumulators
    <3>1. DOMAIN acc' = Groups /\ \A t \in Groups : DOMAIN acc'[t] = 0 .. atom_elems - 1
      BY <2>1 DEF InitAccumulators, Gather
    <3>2. config'.sew \in {8, 16, 32, 64} /\ config'.vl \in Nat
      BY <2>0, <2>1, SizeTypes DEF InitAccumulators
    <3> QED BY <2>1, <3>1, <3>2 DEF InitAccumulators
  <2>2. ASSUME NEW i \in DOMAIN a, LoadLhs(i) PROVE TypeOK'
    <3>1. config'.sew \in {8, 16, 32, 64} /\ config'.vl \in Nat
      BY <2>0, <2>2, SizeTypes DEF LoadLhs
    <3> QED BY <2>2, <3>1 DEF LoadLhs
  <2>3. ASSUME NEW j \in DOMAIN b, LoadRhs(j) PROVE TypeOK'
    <3>1. config'.sew \in {8, 16, 32, 64} /\ config'.vl \in Nat
      BY <2>0, <2>3, SizeTypes DEF LoadRhs
    <3> QED BY <2>3, <3>1 DEF LoadRhs
  <2>4. ASSUME NEW cfg, Multiply(cfg), cfg.sew \in {8, 16, 32, 64} /\ cfg.vl \in Nat PROVE TypeOK'
    <3>1. DOMAIN acc' = Groups
      BY <2>4 DEF Multiply
    <3>2. ASSUME NEW t \in Groups
          PROVE  DOMAIN acc'[t] = 0 .. atom_elems - 1
      <4>1. acc'[t] = vmadot(acc[t], a[t \div IME_NT], b[t % IME_NT], cfg)
        BY <2>4 DEF Multiply
      <4> QED BY <4>1 DEF vmadot
    <3>3. call.MT * panel_stride \in Nat /\ IME_NT * panel_stride \in Nat
      BY <2>0, SizeTypes
    <3>4. lhs' = lhs + call.MT * panel_stride /\ rhs' = rhs + IME_NT * panel_stride /\ k' = k + 1
      BY <2>4 DEF Multiply
    <3>7. {lhs', rhs', k'} \subseteq Nat
      <4> HIDE DEF IME_NT
      <4>1. lhs \in Nat /\ rhs \in Nat /\ k \in Nat
        OBVIOUS
      <4> QED BY <3>3, <3>4, <4>1
    <3>5. DOMAIN a' = 0 .. call'.MT - 1 /\ DOMAIN b' = 0 .. IME_NT - 1
      BY <2>4 DEF Multiply, NoPanels
    <3>6. call' = call /\ pc' \in {"body", "store"} /\ config' = cfg
          /\ UNCHANGED <<nextStore, out>>
      BY <2>4 DEF Multiply
    <3> QED BY <2>4, <3>1, <3>2, <3>5, <3>6, <3>7
  <2>5. CASE MultiplyIntrinsics
    BY <2>0, <2>4, <2>5, SizeTypes DEF MultiplyIntrinsics
  <2>6. CASE MultiplyAsm
    BY <2>4, <2>6 DEF MultiplyAsm
  <2>7. CASE StoreGroup
    <3>1. config'.sew \in {8, 16, 32, 64} /\ config'.vl \in Nat
      BY <2>0, <2>7, SizeTypes DEF StoreGroup
    <3>2. DOMAIN out' = DOMAIN out
      BY <2>7 DEF StoreGroup, Scatter
    <3> QED BY <2>7, <3>1, <3>2 DEF StoreGroup
  <2>8. CASE UNCHANGED vars
    BY <2>8 DEF vars
  <2> QED BY <2>1, <2>2, <2>3, <2>5, <2>6, <2>7, <2>8 DEF Next
<1> QED BY <1>1, <1>2, PTL DEF Spec

-----------------------------------------------------------------------------
(***************************************************************************)
(* The inductive invariant.                                                *)
(***************************************************************************)
Trips == IF K1 > 0 THEN K1 ELSE 0

\* How far the loop is, and where its pointers are.
LoopInv ==
  /\ pc = "accumulators" => k = 0
  /\ pc = "body" => k < K1
  /\ pc \in {"store", "done"} => k = Trips
  /\ lhs = k * (call.MT * panel_stride)
  /\ rhs = k * (IME_NT * panel_stride)

\* A register that is loaded holds its panel of this iteration; the load has also left the
\* configuration that the inline assembly relies on.
PanelsInv ==
  /\ \A i \in DOMAIN a : a[i] # <<>> =>
       pc = "body" /\ a[i] = Load(lhs + i * panel_stride) /\ config = ByteConfig
  /\ \A j \in DOMAIN b : b[j] # <<>> =>
       pc = "body" /\ b[j] = Load(rhs + j * panel_stride) /\ config = ByteConfig

\* Element (i, j) of the tile after n iterations.
Element(i, j, n) ==
  [base |-> IF call.accumulate THEN <<i, j>> ELSE <<>>,
   terms |-> [x \in 1 .. n * K0 |-> <<LhsAddress(i, x - 1), RhsAddress(j, x - 1)>>]]

AccInv ==
  pc # "accumulators" =>
    \A t \in Groups, e \in Elts : acc[t][e] = Element(Row(t, e), Col(t, e), k)

\* The tile is the caller's until the first store; then the groups stored stay.
OutInv ==
  /\ pc = "accumulators" =>
       \A cell \in 0 .. (M0 * N0) - 1 :
         out[cell] = [base |-> <<cell \div N0, cell % N0>>, terms |-> <<>>]
  /\ pc = "store" => nextStore \in Groups
  /\ pc = "done" => nextStore = call.MT * IME_NT
  /\ pc \notin {"store", "done"} => nextStore = 0
  /\ \A t \in 0 .. nextStore - 1, e \in Elts : out[OutCell(t, e)] = acc[t][e]

IInv == LoopInv /\ PanelsInv /\ AccInv /\ OutInv

LEMMA CallKept ==
  ASSUME call' = call
  PROVE  /\ K0' = K0 /\ M0' = M0 /\ N0' = N0 /\ K1' = K1 /\ Trips' = Trips
         /\ Groups' = Groups /\ Elts' = Elts /\ panel_stride' = panel_stride
         /\ ByteConfig' = ByteConfig
         /\ \A p : Load(p)' = Load(p)
         /\ \A t, e : Row(t, e)' = Row(t, e) /\ Col(t, e)' = Col(t, e)
         /\ \A t, e : OutCell(t, e)' = OutCell(t, e)
         /\ \A i, j, n : Element(i, j, n)' = Element(i, j, n)
BY DEF K0, M0, N0, K1, Trips, Groups, Elts, atom_elems, panel_stride, ByteConfig, Granted, Load,
       Row, Col, OutCell, IME_OUT, ime_out_index, Element, LhsAddress, RhsAddress

\* The products of panel n on the LHS side: register byte (e \div atom) * K0 + y is the
\* address that the layout of the header comment gives it.
LEMMA PanelAddress ==
  ASSUME call \in Calls, NEW t \in Groups, NEW e \in Elts, NEW n \in Nat, NEW y \in 0 .. K0 - 1
  PROVE  /\ (e \div call.atom) * K0 + y \in 0 .. panel_stride - 1
         /\ (e % call.atom) * K0 + y \in 0 .. panel_stride - 1
         /\ LhsAddress(Row(t, e), n * K0 + y)
              = n * (call.MT * panel_stride) + (t \div IME_NT) * panel_stride
                  + ((e \div call.atom) * K0 + y)
         /\ RhsAddress(Col(t, e), n * K0 + y)
              = n * (IME_NT * panel_stride) + (t % IME_NT) * panel_stride
                  + ((e % call.atom) * K0 + y)
<1> USE DEF Groups, Elts, Row, Col, IME_NT, atom_elems, panel_stride, K0, M0, N0, LhsAddress, RhsAddress
<1>2. CASE call.atom = 4
  <2>1. CASE call.MT = 1
    BY <1>2, <2>1
  <2>2. CASE call.MT = 2
    BY <1>2, <2>2
  <2>3. CASE call.MT = 3
    BY <1>2, <2>3
  <2> QED BY <2>1, <2>2, <2>3, CallFacts
<1>3. CASE call.atom = 8
  <2>1. CASE call.MT = 1
    BY <1>3, <2>1
  <2>2. CASE call.MT = 2
    BY <1>3, <2>2
  <2>3. CASE call.MT = 3
    BY <1>3, <2>3
  <2> QED BY <2>1, <2>2, <2>3, CallFacts
<1>4. CASE call.atom = 16
  <2>1. CASE call.MT = 1
    BY <1>4, <2>1
  <2>2. CASE call.MT = 2
    BY <1>4, <2>2
  <2>3. CASE call.MT = 3
    BY <1>4, <2>3
  <2> QED BY <2>1, <2>2, <2>3, CallFacts
<1> QED BY <1>2, <1>3, <1>4, CallFacts

\* vl says which atom the instruction multiplies: the one of this body.
LEMMA AtomChosen ==
  ASSUME call \in Calls
  PROVE  AtomOf(ByteConfig) = {call.atom}
<1>1. AtomOf(ByteConfig) = {at \in Atoms : 2 * at * at = call.atom * (2 * call.atom)}
  BY FullConfigs DEF AtomOf, panel_stride, K0
<1> USE DEF Atoms
<1>2. CASE call.atom = 4
  BY <1>1, <1>2
<1>3. CASE call.atom = 8
  BY <1>1, <1>3
<1>4. CASE call.atom = 16
  BY <1>1, <1>4
<1> QED BY <1>2, <1>3, <1>4, CallFacts

\* The terms of an element after n panels, and those that one more panel adds.
LEMMA TermsAppend ==
  ASSUME call \in Calls, NEW i, NEW j, NEW n \in Nat, NEW new,
         new = [x \in 1 .. K0 |-> <<LhsAddress(i, n * K0 + x - 1), RhsAddress(j, n * K0 + x - 1)>>]
  PROVE  Element(i, j, n).terms \o new = Element(i, j, n + 1).terms
<1> DEFINE term(x) == <<LhsAddress(i, x - 1), RhsAddress(j, x - 1)>>
           len == n * K0
           T == {term(x) : x \in Nat}
           u == [x \in 1 .. len |-> term(x)]
           v == [x \in 1 .. K0 |-> term(len + x)]
           w == [x \in 1 .. len + K0 |-> term(x)]
<1>1. K0 \in Nat /\ len \in Nat /\ (n + 1) * K0 = len + K0
  BY SizeTypes
<1>2. Element(i, j, n).terms = u /\ Element(i, j, n + 1).terms = w
  BY <1>1 DEF Element
<1>3. new = v
  <2>1. ASSUME NEW x \in 1 .. K0 PROVE n * K0 + x - 1 = (len + x) - 1
    BY <1>1
  <2> QED BY <2>1
<1> HIDE DEF len, term
<1>4. \A x \in Nat : term(x) \in T
  OBVIOUS
<1> HIDE DEF T
<1>5. u \in Seq(T) /\ Len(u) = len /\ v \in Seq(T) /\ Len(v) = K0
      /\ w \in Seq(T) /\ Len(w) = len + K0
  <2>1. \A x \in 1 .. len : term(x) \in T
    BY <1>1, <1>4
  <2>2. \A x \in 1 .. K0 : term(len + x) \in T
    BY <1>1, <1>4
  <2>3. \A x \in 1 .. len + K0 : term(x) \in T
    BY <1>1, <1>4
  <2>4. u \in Seq(T) /\ Len(u) = len
    BY <1>1, <2>1
  <2>5. v \in Seq(T) /\ Len(v) = K0
    BY <1>1, <2>2
  <2>6. w \in Seq(T) /\ Len(w) = len + K0
    BY <1>1, <2>3
  <2> QED BY <2>4, <2>5, <2>6
<1>6. /\ \A x \in 1 .. len : u[x] = w[x]
      /\ \A x \in 1 .. K0 : v[x] = w[len + x]
  BY <1>1
<1> HIDE DEF u, v, w
<1>7. /\ u \o v \in Seq(T) /\ Len(u \o v) = len + K0
      /\ \A x \in 1 .. len + K0 : (u \o v)[x] = IF x <= len THEN u[x] ELSE v[x - len]
  BY <1>5, ConcatProperties
<1>9. ASSUME NEW x \in 1 .. len + K0
      PROVE  (u \o v)[x] = w[x]
  <2>1. CASE x <= len
    BY <1>1, <1>6, <1>7, <2>1
  <2>2. CASE ~(x <= len)
    <3>1. x - len \in 1 .. K0 /\ len + (x - len) = x
      BY <1>1, <2>2
    <3> QED BY <1>6, <1>7, <2>2, <3>1
  <2> QED BY <2>1, <2>2
<1>8. u \o v = w
  BY <1>5, <1>7, <1>9, SeqEqual
<1> QED BY <1>2, <1>3, <1>8

\* One vmadot on the panels of iteration n adds the products of that panel.
LEMMA VmadotStep ==
  ASSUME call \in Calls, NEW n \in Nat, NEW t \in Groups, NEW e \in Elts, NEW group,
         e \in DOMAIN group, group[e] = Element(Row(t, e), Col(t, e), n)
  PROVE  vmadot(group, Load(n * (call.MT * panel_stride) + (t \div IME_NT) * panel_stride),
                       Load(n * (IME_NT * panel_stride) + (t % IME_NT) * panel_stride), ByteConfig)[e]
           = Element(Row(t, e), Col(t, e), n + 1)
<1> DEFINE va == Load(n * (call.MT * panel_stride) + (t \div IME_NT) * panel_stride)
           vb == Load(n * (IME_NT * panel_stride) + (t % IME_NT) * panel_stride)
           new == [x \in 1 .. K0 |-> <<va[(e \div call.atom) * K0 + x - 1],
                                       vb[(e % call.atom) * K0 + x - 1]>>]
<1>1. vmadot(group, va, vb, ByteConfig)[e] = [base |-> group[e].base, terms |-> group[e].terms \o new]
  BY AtomChosen DEF vmadot
<1>2. ASSUME NEW x \in 1 .. K0
      PROVE  /\ va[(e \div call.atom) * K0 + x - 1] = LhsAddress(Row(t, e), n * K0 + x - 1)
             /\ vb[(e % call.atom) * K0 + x - 1] = RhsAddress(Col(t, e), n * K0 + x - 1)
  <2> DEFINE y == x - 1
  <2>1. y \in 0 .. K0 - 1 /\ K0 \in Nat
    BY SizeTypes
  <2> DEFINE p == (e \div call.atom) * K0
             q == (e % call.atom) * K0
  <2>2. p \in Int /\ q \in Int /\ n * K0 \in Int
    BY <2>1, CallFacts, SizeTypes DEF Elts
  <2>3. p + x - 1 = p + y /\ q + x - 1 = q + y /\ n * K0 + x - 1 = n * K0 + y
    <3> HIDE DEF p, q
    <3> QED BY <2>1, <2>2
  <2>4. /\ p + y \in 0 .. panel_stride - 1 /\ q + y \in 0 .. panel_stride - 1
        /\ LhsAddress(Row(t, e), n * K0 + y)
             = n * (call.MT * panel_stride) + (t \div IME_NT) * panel_stride + (p + y)
        /\ RhsAddress(Col(t, e), n * K0 + y)
             = n * (IME_NT * panel_stride) + (t % IME_NT) * panel_stride + (q + y)
    BY <2>1, PanelAddress
  <2>5. /\ va[p + y] = n * (call.MT * panel_stride) + (t \div IME_NT) * panel_stride + (p + y)
        /\ vb[q + y] = n * (IME_NT * panel_stride) + (t % IME_NT) * panel_stride + (q + y)
    <3> HIDE DEF p, q, y
    <3> QED BY <2>4, FullConfigs DEF Load
  <2> QED BY <2>3, <2>4, <2>5
<1>3. new = [x \in 1 .. K0 |-> <<LhsAddress(Row(t, e), n * K0 + x - 1),
                                 RhsAddress(Col(t, e), n * K0 + x - 1)>>]
  BY <1>2
<1>4. group[e].terms \o new = Element(Row(t, e), Col(t, e), n + 1).terms
  <2> HIDE DEF new
  <2> QED BY <1>3, TermsAppend
<1>5. group[e].base = Element(Row(t, e), Col(t, e), n + 1).base
  BY DEF Element
<1>6. Element(Row(t, e), Col(t, e), n + 1)
        = [base |-> Element(Row(t, e), Col(t, e), n + 1).base,
           terms |-> Element(Row(t, e), Col(t, e), n + 1).terms]
  BY DEF Element
<1> HIDE DEF va, vb, new
<1>7. vmadot(group, va, vb, ByteConfig)[e] = Element(Row(t, e), Col(t, e), n + 1)
  BY <1>1, <1>4, <1>5, <1>6
<1> QED BY <1>7 DEF va, vb

-----------------------------------------------------------------------------
(***************************************************************************)
(* The steps.                                                              *)
(***************************************************************************)
LEMMA InitInv == Init => IInv
<1> SUFFICES ASSUME Init PROVE IInv
  OBVIOUS
<1>1. call \in Calls /\ pc = "accumulators" /\ k = 0 /\ lhs = 0 /\ rhs = 0 /\ nextStore = 0
  BY DEF Init
<1>2. LoopInv
  BY <1>1, SizeTypes DEF LoopInv
<1>3. PanelsInv
  BY DEF Init, PanelsInv, NoPanels
<1>4. AccInv /\ OutInv
  BY <1>1 DEF Init, AccInv, OutInv
<1> QED BY <1>2, <1>3, <1>4 DEF IInv

\* The gathered or zeroed groups are the elements after no iteration.
LEMMA InitAccumulatorsInv ==
  ASSUME TypeOK, IInv, InitAccumulators
  PROVE  IInv'
<1>1. call \in Calls /\ call' = call /\ pc = "accumulators" /\ k = 0 /\ k' = 0
      /\ UNCHANGED <<lhs, rhs, a, b, nextStore, out>>
  BY DEF TypeOK, InitAccumulators, IInv, LoopInv
<1>2. LoopInv'
  <2>1. pc' = IF 0 < K1 THEN "body" ELSE "store"
    BY <1>1 DEF InitAccumulators
  <2>2. lhs = k * (call.MT * panel_stride) /\ rhs = k * (IME_NT * panel_stride)
    BY DEF IInv, LoopInv
  <2> QED BY <1>1, <2>1, <2>2, K1Facts, CallKept DEF LoopInv, Trips, panel_stride, K0
<1>3. PanelsInv'
  BY <1>1 DEF IInv, PanelsInv
<1>4. ASSUME NEW t \in Groups, NEW e \in Elts
      PROVE  acc'[t][e] = Element(Row(t, e), Col(t, e), 0)
  <2>1. Element(Row(t, e), Col(t, e), 0)
          = [base |-> IF call.accumulate THEN <<Row(t, e), Col(t, e)>> ELSE <<>>, terms |-> <<>>]
    <3>1. 0 * K0 = 0
      BY <1>1, SizeTypes
    <3>2. [x \in 1 .. 0 |-> <<LhsAddress(Row(t, e), x - 1), RhsAddress(Col(t, e), x - 1)>>] = <<>>
      OBVIOUS
    <3> QED BY <3>1, <3>2 DEF Element
  <2>2. e < WordConfig.vl /\ e \in 0 .. atom_elems - 1
    BY <1>1, FullConfigs, SizeTypes DEF Elts
  <2>3. CASE call.accumulate
    <3>1. acc'[t][e] = out[OutCell(t, e)]
      BY <2>2, <2>3 DEF InitAccumulators, Gather
    <3>2. OutCell(t, e) \in 0 .. (M0 * N0) - 1
          /\ OutCell(t, e) \div N0 = Row(t, e) /\ OutCell(t, e) % N0 = Col(t, e)
      <4> DEFINE r == Row(t, e)
                 c == Col(t, e)
      <4>1. OutCell(t, e) = r * N0 + c /\ r \in Nat /\ c \in 0 .. N0 - 1 /\ N0 \in {16, 32, 64}
        BY <1>1, CellOf, SizeTypes
      <4> HIDE DEF r, c
      <4>2. (r * N0 + c) \div N0 = r /\ (r * N0 + c) % N0 = c
        BY <4>1
      <4> QED BY <1>1, <4>1, <4>2, CellOf DEF r, c
    <3>3. out[OutCell(t, e)] = [base |-> <<Row(t, e), Col(t, e)>>, terms |-> <<>>]
      BY <1>1, <3>2 DEF IInv, OutInv
    <3> QED BY <2>1, <2>3, <3>1, <3>3
  <2>4. CASE ~call.accumulate
    BY <2>1, <2>2, <2>4 DEF InitAccumulators, Zero
  <2> QED BY <2>3, <2>4
<1>5. AccInv'
  BY <1>1, <1>4, CallKept DEF AccInv
<1>6. OutInv'
  <2>1. nextStore = 0 /\ pc' \in {"body", "store"} /\ 0 \in Groups
    BY <1>1, CallFacts DEF IInv, OutInv, InitAccumulators, Groups, IME_NT
  <2> QED BY <1>1, <2>1, CallKept DEF OutInv
<1> QED BY <1>2, <1>3, <1>5, <1>6 DEF IInv

LEMMA LoadInv ==
  ASSUME TypeOK, IInv,
         \/ \E i \in DOMAIN a : LoadLhs(i)
         \/ \E j \in DOMAIN b : LoadRhs(j)
  PROVE  IInv'
<1>1. call \in Calls /\ pc = "body" /\ config' = ByteConfig
      /\ UNCHANGED <<call, pc, k, lhs, rhs, acc, nextStore, out>>
  BY DEF TypeOK, LoadLhs, LoadRhs
<1>2. LoopInv' /\ AccInv' /\ OutInv'
  BY <1>1, CallKept DEF IInv, LoopInv, AccInv, OutInv
<1>3. \A i \in DOMAIN a' : a'[i] # <<>> => a'[i] = Load(lhs + i * panel_stride)
  BY DEF IInv, PanelsInv, LoadLhs, LoadRhs
<1>4. \A j \in DOMAIN b' : b'[j] # <<>> => b'[j] = Load(rhs + j * panel_stride)
  BY DEF IInv, PanelsInv, LoadLhs, LoadRhs
<1>5. PanelsInv'
  BY <1>1, <1>3, <1>4, CallKept DEF PanelsInv
<1> QED BY <1>2, <1>5 DEF IInv

\* Intrinsics and inline assembly alike run under the byte configuration.
LEMMA MultiplyInv ==
  ASSUME TypeOK, IInv, MultiplyIntrinsics \/ MultiplyAsm
  PROVE  IInv'
<1>1. Multiply(ByteConfig)
  <2>1. CASE MultiplyIntrinsics
    BY <2>1 DEF MultiplyIntrinsics
  <2>2. CASE MultiplyAsm
    <3>1. 0 \in DOMAIN a
      BY CallFacts DEF TypeOK
    <3>2. config = ByteConfig
      BY <2>2, <3>1 DEF MultiplyAsm, Multiply, PanelsLoaded, IInv, PanelsInv
    <3> QED BY <2>2, <3>2 DEF MultiplyAsm
  <2> QED BY <2>1, <2>2
<1>2. call \in Calls /\ call' = call /\ pc = "body" /\ k' = k + 1 /\ k \in Nat /\ k < K1
      /\ UNCHANGED <<nextStore, out>>
  BY <1>1 DEF Multiply, PanelsLoaded, TypeOK, IInv, LoopInv
<1>3. LoopInv'
  <2>1. pc' = IF k + 1 < K1 THEN "body" ELSE "store"
    BY <1>1 DEF Multiply
  <2>2. K1 \in Int
    BY <1>2, K1Facts
  <2>3. pc' = "body" => k' < K1
    BY <1>2, <2>1
  <2>4. pc' = "store" => k' = Trips
    BY <1>2, <2>1, <2>2 DEF Trips
  <2>5. lhs' = k' * (call.MT * panel_stride) /\ rhs' = k' * (IME_NT * panel_stride)
    <3> DEFINE S == call.MT * panel_stride
               R == IME_NT * panel_stride
    <3>1. S \in Nat /\ R \in Nat
      BY <1>2, SizeTypes
    <3>2. lhs' = lhs + S /\ rhs' = rhs + R /\ lhs = k * S /\ rhs = k * R
      BY <1>1 DEF Multiply, IInv, LoopInv
    <3> HIDE DEF S, R
    <3>3. lhs' = (k + 1) * S /\ rhs' = (k + 1) * R
      BY <1>2, <3>1, <3>2
    <3> QED BY <1>2, <3>3 DEF S, R
  <2> QED BY <1>2, <2>1, <2>3, <2>4, <2>5, CallKept DEF LoopInv
<1>4. PanelsInv'
  BY <1>1 DEF Multiply, PanelsInv, NoPanels
<1>5. ASSUME NEW t \in Groups, NEW e \in Elts
      PROVE  acc'[t][e] = Element(Row(t, e), Col(t, e), k + 1)
  <2>1. acc'[t] = vmadot(acc[t], a[t \div IME_NT], b[t % IME_NT], ByteConfig)
    BY <1>1 DEF Multiply
  <2>2. t \div IME_NT \in DOMAIN a /\ t % IME_NT \in DOMAIN b
    <3>1. t \div IME_NT \in 0 .. call.MT - 1 /\ t % IME_NT \in 0 .. IME_NT - 1
      BY <1>2, CallFacts DEF Groups, IME_NT
    <3> QED BY <3>1 DEF TypeOK
  <2>3. /\ a[t \div IME_NT] = Load(lhs + (t \div IME_NT) * panel_stride)
        /\ b[t % IME_NT] = Load(rhs + (t % IME_NT) * panel_stride)
    BY <1>1, <2>2 DEF Multiply, PanelsLoaded, IInv, PanelsInv
  <2>4. lhs = k * (call.MT * panel_stride) /\ rhs = k * (IME_NT * panel_stride)
    BY DEF IInv, LoopInv
  <2>5. e \in DOMAIN acc[t] /\ acc[t][e] = Element(Row(t, e), Col(t, e), k)
    BY <1>2 DEF TypeOK, Elts, IInv, AccInv
  <2> QED BY <1>2, <2>1, <2>3, <2>4, <2>5, VmadotStep
<1>6. AccInv'
  BY <1>2, <1>5, CallKept DEF AccInv
<1>7. OutInv'
  <2>1. nextStore = 0 /\ pc' \in {"body", "store"} /\ 0 \in Groups
    BY <1>1, <1>2, CallFacts DEF IInv, OutInv, Multiply, Groups, IME_NT
  <2> QED BY <1>2, <2>1, CallKept DEF OutInv
<1> QED BY <1>3, <1>4, <1>6, <1>7 DEF IInv

\* A scatter writes the cells of its group and no other.
LEMMA StoreInv ==
  ASSUME TypeOK, IInv, StoreGroup
  PROVE  IInv'
<1>1. call \in Calls /\ pc = "store" /\ nextStore' = nextStore + 1 /\ nextStore \in Groups
      /\ UNCHANGED <<call, k, lhs, rhs, acc, a, b>> /\ nextStore \in Nat
      /\ pc' = IF nextStore + 1 \in Groups THEN "store" ELSE "done"
  BY DEF TypeOK, StoreGroup, IInv, OutInv
<1>2. LoopInv' /\ AccInv'
  <2>1. pc' \in {"store", "done"}
    BY <1>1
  <2>2. LoopInv'
    BY <1>1, <2>1, CallKept DEF IInv, LoopInv
  <2>3. \A t \in Groups, e \in Elts : acc[t][e] = Element(Row(t, e), Col(t, e), k)
    BY <1>1 DEF IInv, AccInv
  <2>4. AccInv'
    <3>1. call' = call /\ k' = k /\ acc' = acc
      BY <1>1
    <3> QED BY <2>3, <3>1, CallKept DEF AccInv
  <2> QED BY <2>2, <2>4
<1>3. PanelsInv'
  BY <1>1 DEF IInv, PanelsInv
<1>4. ASSUME NEW t \in 0 .. nextStore, NEW e \in Elts
      PROVE  out'[OutCell(t, e)] = acc[t][e]
  <2> DEFINE cell == OutCell(t, e)
             writers == {f \in Elts : OutCell(nextStore, f) = cell}
  <2>1. t \in Groups
    BY <1>1, CallFacts DEF Groups, IME_NT
  <2>2. cell \in DOMAIN out
    BY <1>1, <2>1, CellOf DEF TypeOK
  <2>3. 0 .. WordConfig.vl - 1 = Elts
    BY <1>1, FullConfigs DEF Elts
  <2>4. out'[cell] = IF writers # {}
                     THEN acc[nextStore][CHOOSE f \in Elts : OutCell(nextStore, f) = cell]
                     ELSE out[cell]
    BY <2>2, <2>3 DEF StoreGroup, Scatter
  <2>5. CASE t = nextStore
    <3>1. e \in writers
      BY <2>5
    <3>2. ASSUME NEW f \in Elts, OutCell(nextStore, f) = cell PROVE f = e
      BY <1>1, <2>5, <3>2, CellInjective
    <3>3. (CHOOSE f \in Elts : OutCell(nextStore, f) = cell) = e
      BY <2>5, <3>2
    <3> QED BY <2>4, <2>5, <3>1, <3>3
  <2>6. CASE t # nextStore
    <3>1. writers = {}
      BY <1>1, <2>1, <2>6, CellInjective
    <3>2. t \in 0 .. nextStore - 1
      BY <1>1, <2>6
    <3> QED BY <2>4, <3>1, <3>2 DEF IInv, OutInv
  <2> QED BY <2>5, <2>6
<1>5. OutInv'
  <2>1. nextStore + 1 \notin Groups => nextStore + 1 = call.MT * IME_NT
    BY <1>1, CallFacts DEF Groups, IME_NT
  <2>2. 0 .. nextStore' - 1 = 0 .. nextStore
    BY <1>1
  <2> QED BY <1>1, <1>4, <2>1, <2>2, CallKept DEF OutInv
<1> QED BY <1>2, <1>3, <1>5 DEF IInv

LEMMA InvAlways == Spec => [](TypeOK /\ IInv)
<1>1. TypeOK /\ IInv /\ [Next]_vars => IInv'
  <2> SUFFICES ASSUME TypeOK, IInv, [Next]_vars PROVE IInv'
    OBVIOUS
  <2>1. CASE InitAccumulators
    BY <2>1, InitAccumulatorsInv
  <2>2. CASE (\E i \in DOMAIN a : LoadLhs(i)) \/ (\E j \in DOMAIN b : LoadRhs(j))
    BY <2>2, LoadInv
  <2>3. CASE MultiplyIntrinsics \/ MultiplyAsm
    BY <2>3, MultiplyInv
  <2>4. CASE StoreGroup
    BY <2>4, StoreInv
  <2>5. CASE UNCHANGED vars
    <3>1. call' = call
      BY <2>5 DEF vars
    <3>2. LoopInv' /\ PanelsInv'
      BY <2>5, <3>1, CallKept DEF vars, IInv, LoopInv, PanelsInv
    <3>3. AccInv' /\ OutInv'
      BY <2>5, <3>1, CallKept DEF vars, IInv, AccInv, OutInv
    <3> QED BY <3>2, <3>3 DEF IInv
  <2> QED BY <2>1, <2>2, <2>3, <2>4, <2>5 DEF Next
<1> QED BY <1>1, InitInv, TypeCorrect, PTL DEF Spec

\* On return the tile is the old one (or zero) plus the product of the panels
\* (TileCorrect of the body), for every K that fits an int, every atom and every vector length.
THEOREM TileComputed == Spec => []TileCorrect
<1>1. TypeOK /\ IInv => TileCorrect
  <2> SUFFICES ASSUME TypeOK, IInv, pc = "done", KFitsInt,
                      NEW i \in 0 .. M0 - 1, NEW j \in 0 .. N0 - 1
               PROVE  out[i * N0 + j] = Element(i, j, call.K)
    BY DEF TileCorrect, Element
  <2>1. call \in Calls
    BY DEF TypeOK
  <2>2. k = call.K
    BY <2>1, K1Facts, CallFacts DEF IInv, LoopInv, Trips
  <2>3. PICK t \in Groups, e \in Elts : Row(t, e) = i /\ Col(t, e) = j
    BY <2>1, CellCovered
  <2>4. OutCell(t, e) = i * N0 + j
    BY <2>1, <2>3, CellOf
  <2>5. t \in 0 .. nextStore - 1
    BY <2>1, CallFacts DEF IInv, OutInv, Groups
  <2>6. out[OutCell(t, e)] = acc[t][e]
    BY <2>5 DEF IInv, OutInv
  <2> QED BY <2>2, <2>3, <2>4, <2>6 DEF IInv, AccInv
<1> QED BY <1>1, InvAlways, PTL

\* No load leaves the panels (LoadsInBounds of the body), whatever K is as an int.
THEOREM LoadsStayInBounds == Spec => []LoadsInBounds
<1>1. ASSUME call \in Calls, NEW n \in Nat, n < K1, NEW g \in Nat, NEW m \in Nat,
             NEW f \in 0 .. panel_stride - 1, g < m
      PROVE  n * (m * panel_stride) + g * panel_stride + f < call.K * (m * panel_stride)
  <2> DEFINE S == m * panel_stride
             G == g * panel_stride
  <2>1. panel_stride \in {32, 128, 512} /\ call.K \in Nat /\ K1 \in Int /\ K1 <= call.K
    BY <1>1, CallFacts, SizeTypes, K1Facts
  <2>2. S \in Nat /\ G \in Nat /\ G + f < S
    BY <1>1, <2>1
  <2> HIDE DEF S, G
  <2>3. n * S + S <= call.K * S
    <3>1. n + 1 <= call.K
      BY <1>1, <2>1
    <3>2. (n + 1) * S <= call.K * S /\ (n + 1) * S = n * S + S
      BY <2>1, <2>2, <3>1
    <3> QED BY <3>2
  <2>4. n * S + G + f < call.K * S
    BY <2>1, <2>2, <2>3
  <2> QED BY <2>4 DEF S, G
<1>2. ASSUME call \in Calls
      PROVE  call.K * M0 * K0 = call.K * (call.MT * panel_stride)
             /\ call.K * N0 * K0 = call.K * (IME_NT * panel_stride)
  <2> USE DEF M0, N0, K0, IME_NT, panel_stride
  <2>1. CASE call.atom = 4
    BY <1>2, <2>1, CallFacts
  <2>2. CASE call.atom = 8
    BY <1>2, <2>2, CallFacts
  <2>3. CASE call.atom = 16
    BY <1>2, <2>3, CallFacts
  <2> QED BY <1>2, <2>1, <2>2, <2>3, CallFacts
<1>3. TypeOK /\ IInv => LoadsInBounds
  <2> SUFFICES ASSUME TypeOK, IInv PROVE LoadsInBounds
    OBVIOUS
  <2>1. call \in Calls /\ k \in Nat /\ DOMAIN a = 0 .. call.MT - 1 /\ DOMAIN b = 0 .. IME_NT - 1
    BY DEF TypeOK
  <2>2. \A p : DOMAIN Load(p) = 0 .. panel_stride - 1
               /\ \A f \in DOMAIN Load(p) : Load(p)[f] = p + f
    BY <2>1, FullConfigs DEF Load
  <2>3. DOMAIN <<>> = {}
    OBVIOUS
  <2>4. ASSUME NEW i \in DOMAIN a, NEW f \in DOMAIN a[i]
        PROVE  a[i][f] < call.K * M0 * K0
    <3>1. a[i] = Load(lhs + i * panel_stride) /\ k < K1 /\ lhs = k * (call.MT * panel_stride)
      BY <2>3, <2>4 DEF IInv, PanelsInv, LoopInv
    <3>2. f \in 0 .. panel_stride - 1 /\ a[i][f] = k * (call.MT * panel_stride) + i * panel_stride + f
      BY <2>2, <2>4, <3>1
    <3>3. i \in Nat /\ call.MT \in Nat /\ i < call.MT
      BY <2>1, CallFacts
    <3> QED BY <1>1, <1>2, <2>1, <3>1, <3>2, <3>3
  <2>5. ASSUME NEW j \in DOMAIN b, NEW f \in DOMAIN b[j]
        PROVE  b[j][f] < call.K * N0 * K0
    <3>1. b[j] = Load(rhs + j * panel_stride) /\ k < K1 /\ rhs = k * (IME_NT * panel_stride)
      BY <2>3, <2>5 DEF IInv, PanelsInv, LoopInv
    <3>2. f \in 0 .. panel_stride - 1 /\ b[j][f] = k * (IME_NT * panel_stride) + j * panel_stride + f
      BY <2>2, <2>5, <3>1
    <3>3. j \in Nat /\ IME_NT \in Nat /\ j < IME_NT
      BY <2>1 DEF IME_NT
    <3> QED BY <1>1, <1>2, <2>1, <3>1, <3>2, <3>3
  <2> QED BY <2>4, <2>5 DEF LoadsInBounds
<1> QED BY <1>3, InvAlways, PTL

-----------------------------------------------------------------------------
(***************************************************************************)
(* The refinement.                                                         *)
(***************************************************************************)
\* The layouts of the panels, read back: the address of (i, x) is the address of no other
\* coordinate.
LEMMA CoordinatesOf ==
  ASSUME call \in Calls, NEW x \in Nat
  PROVE  /\ \A i \in 0 .. M0 - 1 : Coordinates(LhsAddress(i, x), M0) = <<i, x>>
         /\ \A j \in 0 .. N0 - 1 : Coordinates(RhsAddress(j, x), N0) = <<j, x>>
<1> DEFINE sizes == {4, 8, 12, 16, 24, 32, 48, 64}
           at(R, D, i) == ((x \div D) * R + i) * D + (x % D)
           back(R, D, address) == <<(address \div D) % R, (address \div (R * D)) * D + (address % D)>>
<1>1. ASSUME NEW R \in sizes, NEW D \in {8, 16, 32}, NEW i \in 0 .. R - 1
      PROVE  back(R, D, at(R, D, i)) = <<i, x>>
  <2> DEFINE q == x \div D
             r == x % D
             p == q * R + i
             address == at(R, D, i)
  <2>1. q \in Nat /\ r \in 0 .. D - 1 /\ x = q * D + r
    BY <1>1
  <2> HIDE DEF q, r
  <2>2. p \in Nat /\ p \div R = q /\ p % R = i
    BY <1>1, <2>1
  <2>3. address = p * D + r
    BY <1>1 DEF q, r
  <2> HIDE DEF p, address, at
  <2>4. address \div D = p /\ address % D = r
    BY <1>1, <2>1, <2>2, <2>3
  <2>5. address \div (R * D) = q
    <3>1. address = (q * R + i) * D + r
      BY <2>3 DEF p
    <3>2. CASE D = 8
      BY <1>1, <2>1, <3>1, <3>2
    <3>3. CASE D = 16
      BY <1>1, <2>1, <3>1, <3>3
    <3>4. CASE D = 32
      BY <1>1, <2>1, <3>1, <3>4
    <3> QED BY <1>1, <3>2, <3>3, <3>4
  <2>6. back(R, D, address) = <<i, x>>
    <3> HIDE DEF address
    <3> QED BY <2>1, <2>2, <2>4, <2>5
  <2> QED BY <2>6 DEF address
<1>2. M0 \in sizes /\ N0 \in sizes /\ K0 \in {8, 16, 32}
  BY CallFacts DEF M0, N0, K0, IME_NT
<1>3. /\ \A i : LhsAddress(i, x) = at(M0, K0, i) /\ RhsAddress(i, x) = at(N0, K0, i)
      /\ \A address, R : Coordinates(address, R) = back(R, K0, address)
  BY DEF Coordinates, LhsAddress, RhsAddress
<1> HIDE DEF sizes, at, back
<1>4. ASSUME NEW i \in 0 .. M0 - 1
      PROVE  Coordinates(LhsAddress(i, x), M0) = <<i, x>>
  <2>1. back(M0, K0, at(M0, K0, i)) = <<i, x>>
    BY <1>1, <1>2
  <2> QED BY <2>1, <1>3
<1>5. ASSUME NEW j \in 0 .. N0 - 1
      PROVE  Coordinates(RhsAddress(j, x), N0) = <<j, x>>
  <2>1. back(N0, K0, at(N0, K0, j)) = <<j, x>>
    BY <1>1, <1>2
  <2> QED BY <2>1, <1>3
<1> QED BY <1>4, <1>5

\* What the caller sees on return.
LEMMA ReturnedTile ==
  TypeOK /\ IInv /\ pc = "done" => CallerTile = Tile!Product(ShapeOf(call))
<1> SUFFICES ASSUME TypeOK, IInv, pc = "done"
             PROVE  CallerTile = Tile!Product(ShapeOf(call))
  OBVIOUS
<1>1. call \in Calls /\ k = Trips
  BY DEF TypeOK, IInv, LoopInv
<1>2. /\ ShapeOf(call).M = M0 /\ ShapeOf(call).N = N0 /\ ShapeOf(call).accumulate = call.accumulate
      /\ ShapeOf(call).K = K1 * 2 * call.atom
  BY DEF ShapeOf, M0, N0, K1
<1>3. 1 .. k * K0 = 1 .. ShapeOf(call).K
  <2>1. K1 \in Int /\ call.atom \in {4, 8, 16}
    BY <1>1, K1Facts, CallFacts
  <2>2. K1 * 2 * call.atom = K1 * K0
    BY <2>1 DEF K0
  <2>3. K0 \in {8, 16, 32}
    BY <2>1 DEF K0
  <2>4. CASE K1 > 0
    BY <1>1, <1>2, <2>2, <2>4 DEF Trips
  <2>5. CASE ~(K1 > 0)
    <3>1. K1 * K0 <= 0 /\ K1 * K0 \in Int /\ k * K0 = 0
      BY <1>1, <2>1, <2>3, <2>5 DEF Trips
    <3> QED BY <1>2, <2>2, <3>1
  <2> QED BY <2>4, <2>5
<1>4. ASSUME NEW i \in 0 .. M0 - 1, NEW j \in 0 .. N0 - 1
      PROVE  CallerTile[<<i, j>>] = Tile!Product(ShapeOf(call))[<<i, j>>]
  <2>1. PICK t \in Groups, e \in Elts : Row(t, e) = i /\ Col(t, e) = j
    BY <1>1, CellCovered
  <2>2. t \in 0 .. nextStore - 1 /\ OutCell(t, e) = i * N0 + j
    BY <1>1, <2>1, CellOf, CallFacts DEF IInv, OutInv, Groups
  <2>3. out[i * N0 + j] = Element(i, j, k)
    BY <2>1, <2>2 DEF IInv, OutInv, AccInv
  <2> DEFINE terms == Element(i, j, k).terms
             seen == [x \in DOMAIN terms |-> <<Coordinates(terms[x][1], M0), Coordinates(terms[x][2], N0)>>]
  <2>4. DOMAIN terms = 1 .. k * K0
    BY DEF Element
  <2>5. ASSUME NEW x \in 1 .. k * K0
        PROVE  seen[x] = <<<<i, x - 1>>, <<j, x - 1>>>>
    <3>1. x - 1 \in Nat
      BY <1>3, <2>5
    <3>2. terms[x] = <<LhsAddress(i, x - 1), RhsAddress(j, x - 1)>>
      BY DEF Element
    <3> HIDE DEF terms
    <3>3. seen[x] = <<Coordinates(LhsAddress(i, x - 1), M0), Coordinates(RhsAddress(j, x - 1), N0)>>
      BY <2>4, <3>2
    <3> HIDE DEF seen
    <3> QED BY <1>1, <3>1, <3>3, CoordinatesOf
  <2>6. seen = [x \in 1 .. ShapeOf(call).K |-> <<<<i, x - 1>>, <<j, x - 1>>>>]
    <3> HIDE DEF terms
    <3> QED BY <1>3, <2>4, <2>5
  <2>7. CallerTile[<<i, j>>] = [base |-> Element(i, j, k).base, terms |-> seen]
    BY <2>3 DEF CallerTile
  <2>8. Element(i, j, k).base = IF call.accumulate THEN <<i, j>> ELSE <<>>
    BY DEF Element
  <2> HIDE DEF seen
  <2>9. Tile!Product(ShapeOf(call))[<<i, j>>]
          = [base |-> IF call.accumulate THEN <<i, j>> ELSE <<>>,
             terms |-> [x \in 1 .. ShapeOf(call).K |-> <<<<i, x - 1>>, <<j, x - 1>>>>]]
    BY <1>2 DEF Tile!Product, Tile!Cells
  <2> QED BY <2>6, <2>7, <2>8, <2>9
<1>5. CallerTile = [cell \in (0 .. M0 - 1) \X (0 .. N0 - 1) |-> CallerTile[cell]]
  BY DEF CallerTile
<1>6. Tile!Product(ShapeOf(call))
        = [cell \in (0 .. M0 - 1) \X (0 .. N0 - 1) |-> Tile!Product(ShapeOf(call))[cell]]
  BY <1>2 DEF Tile!Product, Tile!Cells
<1>7. \A cell \in (0 .. M0 - 1) \X (0 .. N0 - 1) :
        CallerTile[cell] = Tile!Product(ShapeOf(call))[cell]
  BY <1>4
<1> QED BY <1>5, <1>6, <1>7

\* The safety half of ImplementsTile: to its caller a tile function is one atomic product,
\* for every K, in or out of the range of int (the whole tile body).
THEOREM TileRefined == Spec => Tile!Safety
<1>1. Init => Tile!Init
  <2> SUFFICES ASSUME Init PROVE Tile!Init
    OBVIOUS
  <2>1. call \in Calls /\ pc # "done"
    BY DEF Init
  <2>2. ShapeOf(call).M = M0 /\ ShapeOf(call).N = N0
    BY DEF ShapeOf, M0, N0
  <2>3. CallerTile = Tile!Old(ShapeOf(call))
    BY <2>1, <2>2 DEF CallerTile, Tile!Old, Tile!Cells
  <2> QED BY <2>1, <2>3 DEF Tile!Init
<1>2. (TypeOK /\ IInv /\ pc = "done" => CallerTile = Tile!Product(ShapeOf(call)))'
  BY ReturnedTile, PTL
<1>3. TypeOK /\ TypeOK' /\ IInv' /\ [Next]_vars => [Tile!Compute]_(Tile!vars)
  <2> SUFFICES ASSUME TypeOK, TypeOK', IInv', [Next]_vars
               PROVE  Tile!Compute \/ UNCHANGED Tile!vars
    BY DEF Tile!vars
  <2>1. call' = call
    BY DEF Next, vars, InitAccumulators, LoadLhs, LoadRhs, MultiplyIntrinsics, MultiplyAsm, Multiply,
           StoreGroup
  <2>2. ShapeOf(call)' = ShapeOf(call) /\ M0' = M0 /\ N0' = N0
    BY <2>1 DEF ShapeOf, M0, N0
  <2>3. CASE pc # "done" /\ pc' # "done"
    <3>1. CallerTile' = CallerTile
      BY <2>2, <2>3 DEF CallerTile
    <3> QED BY <2>2, <2>3, <3>1 DEF Tile!vars
  <2>4. CASE pc # "done" /\ pc' = "done"
    <3>1. CallerTile' = Tile!Product(ShapeOf(call))
      BY <1>2, <2>2, <2>4
    <3> QED BY <2>2, <2>4, <3>1 DEF Tile!Compute
  <2>5. CASE pc = "done"
    <3>1. UNCHANGED vars
      BY <2>5 DEF Next, InitAccumulators, LoadLhs, LoadRhs, MultiplyIntrinsics, MultiplyAsm,
             Multiply, PanelsLoaded, StoreGroup
    <3>2. CallerTile' = CallerTile
      BY <2>2, <3>1 DEF vars, CallerTile, Coordinates, K0
    <3> QED BY <2>2, <3>1, <3>2 DEF vars, Tile!vars
  <2> QED BY <2>3, <2>4, <2>5
<1> QED BY <1>1, <1>3, InvAlways, PTL DEF Spec, Tile!Safety
=============================================================================
