---------------------------- MODULE Mmt4dXsmtvdot ----------------------------
(***************************************************************************)
(* The three s8s8s32 mmt4d tile bodies of mmt4d_riscv_64_xsmtvdot.c: a grid *)
(* of MT x 4 atoms (MT = 3 primary, 2 and 1 narrow) whose accumulators stay *)
(* in registers over the K panels.  The primary body multiplies with        *)
(* intrinsics that set the vector configuration themselves; the narrow ones *)
(* use inline assembly that runs under whatever configuration the last      *)
(* vector instruction left.  Addresses are offsets from the panels' start;  *)
(* an accumulator element is symbolic, as in Mmt4dTile.                     *)
(***************************************************************************)
EXTENDS Integers, Sequences

CONSTANTS Calls,   \* the calls a tile function may get
          IntBits  \* width of int: K is read as (int)(params->K)

IME_NT == 4
Atoms == {4, 8, 16}
CallType == [MT : 1 .. 3, atom : Atoms, K : Nat, accumulate : BOOLEAN, vlen : Nat]

\* IREE_UK_ASSERTs on the parameters, and the VLEN of the bucket a function is named for.
ASSUME CallsAssumption ==
  /\ IntBits \in Nat \ {0}
  /\ Calls \subseteq CallType
  /\ \A c \in Calls : c.vlen >= 16 * c.atom * c.atom
\* What a width says about powers of two; it follows from the first conjunct of the
\* assumption above, by induction.
ASSUME IntBitsAssumption ==
  /\ 2 ^ (IntBits - 1) \in Nat \ {0}
  /\ 2 ^ IntBits = 2 * 2 ^ (IntBits - 1)

VARIABLES
  call,      \* the parameters of the call
  pc,        \* the part of the body reached
  k,         \* the loop counter
  lhs, rhs,  \* the panel pointers
  acc,       \* accumulator groups acc0, acc1, ...
  a, b,      \* panel registers; <<>> before they are loaded in this iteration
  config,    \* the vector configuration in effect: SEW and vl
  nextStore, \* the next accumulator group to scatter
  out        \* the output tile, by element offset

vars == <<call, pc, k, lhs, rhs, acc, a, b, config, nextStore, out>>

M0 == call.MT * call.atom
N0 == IME_NT * call.atom
K0 == 2 * call.atom
panel_stride == call.atom * K0
atom_elems == call.atom * call.atom
Groups == 0 .. (call.MT * IME_NT) - 1

\* (int): the low IntBits bits, read as a signed number.
ToInt(n) == LET low == n % (2 ^ IntBits)
            IN IF low >= 2 ^ (IntBits - 1) THEN low - 2 ^ IntBits ELSE low

\* Faulty variant of K1: the loop runs k <= K1.
K1Inclusive == call.K + 1
K1 == ToInt(call.K)

\* vsetvli grants at most VLMAX = VLEN * LMUL / SEW elements.
Granted(avl, sew, lmul) ==
  LET vlmax == (call.vlen * lmul) \div sew
  IN [sew |-> sew, vl |-> IF avl <= vlmax THEN avl ELSE vlmax]
ByteConfig == Granted(panel_stride, 8, 1)
WordConfig == Granted(atom_elems, 32, 2)

-----------------------------------------------------------------------------
Undefined == [base |-> <<>>, terms |-> <<<<-1, -1>>>>]
Zero == [base |-> <<>>, terms |-> <<>>]

\* IME_OUT(mt, nt) and ime_out_index: where element e of group t lives in the tile.  The
\* index is a byte offset in 32 bits: the shift by 2 keeps the low 30 bits of the element.
IME_OUT(t) == ((t \div IME_NT) * call.atom) * N0 + (t % IME_NT) * call.atom
ime_out_index(e) == (e + (N0 - call.atom) * (e \div call.atom)) % (2 ^ 30)
OutCell(t, e) == IME_OUT(t) + ime_out_index(e)

Gather(t) ==
  [e \in 0 .. atom_elems - 1 |-> IF e < WordConfig.vl THEN out[OutCell(t, e)] ELSE Undefined]
Scatter(t) ==
  [cell \in DOMAIN out |->
     IF \E e \in 0 .. WordConfig.vl - 1 : OutCell(t, e) = cell
     THEN acc[t][CHOOSE e \in 0 .. WordConfig.vl - 1 : OutCell(t, e) = cell]
     ELSE out[cell]]

\* A panel register: the addresses of the bytes that vle8 loaded into it.
Load(address) == [f \in 0 .. ByteConfig.vl - 1 |-> address + f]

\* smt.vmadot at SEW = 8: a square atom selected by vl.  Under another configuration the
\* instruction does not compute this product.
AtomOf(cfg) == {at \in Atoms : cfg.sew = 8 /\ cfg.vl = 2 * at * at}
\* Faulty variant of vmadot: vs1 and vs2 exchanged.
vmadotExchanged(group, va, vb, cfg) ==
  IF AtomOf(cfg) # {call.atom} THEN [e \in DOMAIN group |-> Undefined]
  ELSE [e \in DOMAIN group |->
          [base |-> group[e].base,
           terms |-> group[e].terms \o
             [x \in 1 .. K0 |-> <<va[(e % call.atom) * K0 + x - 1],
                                  vb[(e \div call.atom) * K0 + x - 1]>>]]]

vmadot(group, va, vb, cfg) ==
  IF AtomOf(cfg) # {call.atom} THEN [e \in DOMAIN group |-> Undefined]
  ELSE [e \in DOMAIN group |->
          [base |-> group[e].base,
           terms |-> group[e].terms \o
             [x \in 1 .. K0 |-> <<va[(e \div call.atom) * K0 + x - 1],
                                  vb[(e % call.atom) * K0 + x - 1]>>]]]

-----------------------------------------------------------------------------
\* Faulty variant of NoPanels: as many LHS as RHS registers.
NoPanelsSquare(n) == [i \in 0 .. IME_NT - 1 |-> <<>>]
NoPanels(n) == [i \in 0 .. n - 1 |-> <<>>]

Init ==
  /\ call \in Calls
  /\ pc = "accumulators"
  /\ k = 0 /\ lhs = 0 /\ rhs = 0
  /\ acc = [t \in Groups |-> [e \in 0 .. atom_elems - 1 |-> Zero]]
  /\ a = NoPanels(call.MT) /\ b = NoPanels(IME_NT)
  /\ config \in [sew : {8, 16, 32, 64}, vl : {0, 1}]
  /\ nextStore = 0
  /\ out = [cell \in 0 .. (M0 * N0) - 1 |->
              [base |-> <<cell \div N0, cell % N0>>, terms |-> <<>>]]

\* Faulty variant of InitAccumulators: the accumulate flag is not read.
InitAccumulatorsAlways ==
  /\ pc = "accumulators"
  /\ acc' = [t \in Groups |-> Gather(t)]
  /\ config' = WordConfig
  /\ pc' = IF k < K1 THEN "body" ELSE "store"
  /\ UNCHANGED <<call, k, lhs, rhs, a, b, nextStore, out>>

\* Gather the old tile, or broadcast zero and copy it to the other groups.
InitAccumulators ==
  /\ pc = "accumulators"
  /\ acc' = IF call.accumulate THEN [t \in Groups |-> Gather(t)]
            ELSE [t \in Groups |-> [e \in 0 .. atom_elems - 1 |->
                                      IF e < WordConfig.vl THEN Zero ELSE Undefined]]
  /\ config' = WordConfig
  /\ pc' = IF k < K1 THEN "body" ELSE "store"
  /\ UNCHANGED <<call, k, lhs, rhs, a, b, nextStore, out>>

\* The loads of one iteration are independent: the compiler may issue them in any order.
LoadLhs(i) ==
  /\ pc = "body" /\ a[i] = <<>>
  /\ a' = [a EXCEPT ![i] = Load(lhs + i * panel_stride)]
  /\ config' = ByteConfig
  /\ UNCHANGED <<call, pc, k, lhs, rhs, acc, b, nextStore, out>>

LoadRhs(j) ==
  /\ pc = "body" /\ b[j] = <<>>
  /\ b' = [b EXCEPT ![j] = Load(rhs + j * panel_stride)]
  /\ config' = ByteConfig
  /\ UNCHANGED <<call, pc, k, lhs, rhs, acc, a, nextStore, out>>

\* The multiplications, once every register they read is loaded, and the pointer steps.
PanelsLoaded ==
  /\ pc = "body"
  /\ \A i \in DOMAIN a : a[i] # <<>>
  /\ \A j \in DOMAIN b : b[j] # <<>>
Multiply(cfg) ==
  /\ PanelsLoaded
  /\ acc' = [t \in Groups |-> vmadot(acc[t], a[t \div IME_NT], b[t % IME_NT], cfg)]
  /\ config' = cfg
  /\ lhs' = lhs + call.MT * panel_stride
  /\ rhs' = rhs + IME_NT * panel_stride
  /\ k' = k + 1
  /\ pc' = IF k + 1 < K1 THEN "body" ELSE "store"
  /\ a' = NoPanels(call.MT) /\ b' = NoPanels(IME_NT)
  /\ UNCHANGED <<call, nextStore, out>>

MultiplyIntrinsics == call.MT = 3 /\ Multiply(ByteConfig)
MultiplyAsm == call.MT # 3 /\ Multiply(config)

StoreGroup ==
  /\ pc = "store"
  /\ out' = Scatter(nextStore)
  /\ config' = WordConfig
  /\ nextStore' = nextStore + 1
  /\ pc' = IF nextStore + 1 \in Groups THEN "store" ELSE "done"
  /\ UNCHANGED <<call, k, lhs, rhs, acc, a, b>>

Next ==
  \/ InitAccumulators
  \/ \E i \in DOMAIN a : LoadLhs(i)
  \/ \E j \in DOMAIN b : LoadRhs(j)
  \/ MultiplyIntrinsics
  \/ MultiplyAsm
  \/ StoreGroup

Spec == Init /\ [][Next]_vars /\ WF_vars(Next)

-----------------------------------------------------------------------------
\* Type invariant of the tile function's locals and of the output tile.
TypeOK ==
  /\ call \in Calls
  /\ pc \in {"accumulators", "body", "store", "done"}
  /\ {k, lhs, rhs, nextStore} \subseteq Nat
  /\ DOMAIN acc = Groups /\ \A t \in Groups : DOMAIN acc[t] = 0 .. atom_elems - 1
  /\ DOMAIN a = 0 .. call.MT - 1 /\ DOMAIN b = 0 .. IME_NT - 1
  /\ config.sew \in {8, 16, 32, 64} /\ config.vl \in Nat
  /\ DOMAIN out = 0 .. (M0 * N0) - 1

\* Panel layouts: lhs [K1][M0][K0], rhs [K1][N0][K0].
LhsAddress(i, x) == ((x \div K0) * M0 + i) * K0 + (x % K0)
RhsAddress(j, x) == ((x \div K0) * N0 + j) * K0 + (x % K0)

KFitsInt == call.K < 2 ^ (IntBits - 1)

\* On return every element of the tile is its old value (or zero) plus all the products
\* of its row and column, each once, although gather, registers, panels and scatter use
\* three different element orders and the narrow bodies set no vector configuration of
\* their own (the whole tile body).
TileCorrect ==
  pc = "done" /\ KFitsInt =>
    \A i \in 0 .. M0 - 1, j \in 0 .. N0 - 1 :
      out[i * N0 + j] =
        [base |-> IF call.accumulate THEN <<i, j>> ELSE <<>>,
         terms |-> [x \in 1 .. call.K * K0 |-> <<LhsAddress(i, x - 1), RhsAddress(j, x - 1)>>]]

\* No iteration reads a byte outside the panels the caller passed: the last panel of the
\* last iteration ends where the buffers end (the loads and pointer steps of the K loop).
LoadsInBounds ==
  /\ \A i \in DOMAIN a : \A f \in DOMAIN a[i] : a[i][f] < call.K * M0 * K0
  /\ \A j \in DOMAIN b : \A f \in DOMAIN b[j] : b[j][f] < call.K * N0 * K0

-----------------------------------------------------------------------------
(***************************************************************************)
(* Refinement: to its caller a tile function is one atomic product.  Panel *)
(* addresses are read back as matrix coordinates.                          *)
(***************************************************************************)
ShapeOf(c) == [M |-> c.MT * c.atom, N |-> IME_NT * c.atom, K |-> ToInt(c.K) * 2 * c.atom,
               accumulate |-> c.accumulate]
Coordinates(address, rows) ==
  <<(address \div K0) % rows, (address \div (rows * K0)) * K0 + (address % K0)>>
CallerTile ==
  [cell \in (0 .. M0 - 1) \X (0 .. N0 - 1) |->
     IF pc # "done" THEN [base |-> cell, terms |-> <<>>]
     ELSE LET e == out[cell[1] * N0 + cell[2]]
          IN [base |-> e.base,
              terms |-> [x \in DOMAIN e.terms |-> <<Coordinates(e.terms[x][1], M0),
                                                    Coordinates(e.terms[x][2], N0)>>]]]

Tile == INSTANCE Mmt4dTile WITH
          Shapes <- {ShapeOf(c) : c \in Calls},
          shape <- ShapeOf(call), tile <- CallerTile, returned <- (pc = "done")

\* The tile function implements the atomic product of the panels that K counts as an int,
\* and returns (the whole tile body).
ImplementsTile == Tile!Spec
=============================================================================
