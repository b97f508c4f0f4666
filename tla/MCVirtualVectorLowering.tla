------------------------ MODULE MCVirtualVectorLowering -----------------------
EXTENDS VirtualVectorLowering

CONSTANTS c1, c2, c3, g1

Target(arch, features) == [arch |-> arch, features |-> features]
\* A RISC-V target with and without the extension and the vector unit, an AArch64 one
\* whose features are spelled the same, and a function without a target.
Targets ==
  {Target("riscv64", {"v", "xsmtvdot"}), Target("riscv64", {"xsmtvdot"}),
   Target("riscv64", {"zve32x"}), Target("aarch64", {"i8mm"}),
   Target("aarch64", {"xsmtvdot"}), Target("x86_64", {}), NoTarget}

\* Memrefs of rank one to three: contiguous ones, a column-major one, one with a padded
\* row and one whose rows are contiguous although its outer stride is padded.
Layouts ==
  {[shape |-> <<6>>, strides |-> <<1>>],
   [shape |-> <<2, 3>>, strides |-> <<3, 1>>],
   [shape |-> <<2, 3>>, strides |-> <<1, 2>>],
   [shape |-> <<2, 3>>, strides |-> <<4, 1>>],
   [shape |-> <<2, 1, 3>>, strides |-> <<3, 3, 1>>],
   [shape |-> <<2, 2, 2>>, strides |-> <<4, 2, 1>>],
   [shape |-> <<2, 2, 2>>, strides |-> <<8, 2, 1>>]}
\* Two lanes; the indices run over the ends of the rows but not over that of the memref.
InBounds(g) ==
  \A i \in 1 .. 2 : g.mask[i] => Linear(g) + g.index[i] < g.shape[1] * RowSize(g, 1)
GatherOps ==
  UNION {{g \in [shape : {l.shape}, strides : {l.strides}, offsets : [DOMAIN l.shape -> 0 .. 1],
                 index : [1 .. 2 -> {0, 2, 4}], mask : [1 .. 2 -> BOOLEAN],
                 scalable : BOOLEAN] : InBounds(g)} : l \in Layouts}
Plain == [shape |-> <<2, 3>>, strides |-> <<3, 1>>, offsets |-> <<0, 1>>, index |-> <<2, 4>>,
          mask |-> <<TRUE, FALSE>>, scalable |-> FALSE]

\* Every target with one gather, every gather on a target without indexed loads.
CompiledValue ==
  {[target |-> t, ops |-> {c1, c2, c3, g1}, gathers |-> [g \in {g1} |-> Plain]] : t \in Targets}
    \cup {[target |-> Target("x86_64", {}), ops |-> {g1}, gathers |-> [g \in {g1} |-> op]] : op \in GatherOps}
ContractionsValue == {c1, c2, c3}
GathersValue == {g1}
ImeAcceptsValue == {c1, c2}
I8mmAcceptsValue == {c2}
=============================================================================
