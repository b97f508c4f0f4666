---------------------- MODULE GatherToConditionalLoads -----------------------
(***************************************************************************)
(* IREE's own lowering of a rank-1 vector.gather from a memref of rank two *)
(* or more: one conditional load per lane, with the lane's index added to  *)
(* the last offset only (ContiguousMemrefGather1DToConditionalLoads).      *)
(* What a gather means is the upstream form: the index moves through the   *)
(* memref's elements in row-major order, over the ends of its rows.  A     *)
(* loaded value is the address it was loaded from.                         *)
(***************************************************************************)
EXTENDS Integers, Sequences, Functions, SequencesExt

\* A gather: the shape, strides and offsets of the memref it reads, an index and a mask bit for
\* each lane, whether its vector is scalable.
IsGather(g) ==
  /\ g.shape \in Seq(Nat \ {0}) /\ g.strides \in Seq(Nat) /\ g.offsets \in Seq(Nat)
  /\ Len(g.shape) = Len(g.strides) /\ Len(g.shape) = Len(g.offsets) /\ Len(g.shape) > 0
  /\ g.index \in Seq(Nat) /\ g.mask \in Seq(BOOLEAN) /\ Len(g.mask) = Len(g.index)

PassThru(i) == <<"passthru", i>>
Loaded(address) == <<"loaded", address>>

RowSize(g, d) == FoldFunctionOnSet(LAMBDA x, y : x * y, 1, g.shape, d + 1 .. Len(g.shape))
\* Faulty variant of isRowMajorContiguousMemRef: only the rows themselves are looked at.
isRowContiguousMemRef(g) == g.strides[Len(g.shape)] = 1

\* A row-major contiguous layout: the strides are the sizes of the rows below.
isRowMajorContiguousMemRef(g) == \A d \in DOMAIN g.shape : g.strides[d] = RowSize(g, d)

\* The address a load of the given indices reads.
Address(g, indices) ==
  SumFunction([d \in DOMAIN indices |-> indices[d] * g.strides[d]])

Matches(g) == Len(g.shape) > 1 /\ ~g.scalable /\ isRowMajorContiguousMemRef(g)

\* scf.if on the lane's mask: load and insert, or keep the vector of the previous lanes.
LoadOffsets(g, i) == [g.offsets EXCEPT ![Len(g.offsets)] = @ + g.index[i]]
LoadLane(g, vector, i) ==
  IF g.mask[i] THEN [vector EXCEPT ![i] = Loaded(Address(g, LoadOffsets(g, i)))] ELSE vector
matchAndRewrite(g) ==
  FoldLeftDomain(LAMBDA vector, i : LoadLane(g, vector, i),
                 [i \in DOMAIN g.index |-> PassThru(i)], g.index)

-----------------------------------------------------------------------------
\* linearize and delinearize over the logical shape.
Linear(g) ==
  SumFunction([d \in DOMAIN g.offsets |-> g.offsets[d] * RowSize(g, d)])
Delinearized(g, n) ==
  [d \in DOMAIN g.shape |-> IF d = 1 THEN n \div RowSize(g, d)
                            ELSE (n \div RowSize(g, d)) % g.shape[d]]
\* What the gather means, and what the upstream pattern makes of it.
Gathered(g) ==
  [i \in DOMAIN g.index |->
     IF g.mask[i] THEN Loaded(Address(g, Delinearized(g, Linear(g) + g.index[i])))
     ELSE PassThru(i)]
=============================================================================
