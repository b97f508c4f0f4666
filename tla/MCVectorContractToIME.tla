------------------------ MODULE MCVectorContractToIME ------------------------
(***************************************************************************)
(* Contractions for model checking VectorContractToIME.                    *)
(***************************************************************************)
EXTENDS VectorContractToIME

Sizes(ms, ns, ks) ==
  {[i \in 0 .. 2 |-> CASE i = 0 -> m [] i = 1 -> n [] i = 2 -> k] : m \in ms, n \in ns, k \in ks}

Plain(t) == [def |-> "none", in |-> t, elt |-> t]
Ext(ext, from, to) == [def |-> ext, in |-> from, elt |-> to]

Row == [masked |-> FALSE, iterators |-> "ppr",
        size |-> [i \in 0 .. 2 |-> IF i = 2 THEN 8 ELSE 4],
        lhsMap |-> <<0, 2>>, rhsMap |-> <<1, 2>>, accMap |-> <<0, 1>>,
        lhs |-> Plain("i8"), rhs |-> Plain("i8"), accElt |-> "i32"]

\* Row-major contractions of one to two tiles per dimension, and of partial tiles.
TiledContractions ==
  {[Row EXCEPT !.size = s] : s \in Sizes({4, 8, 12}, {4, 8}, {8, 16, 24}) \cup Sizes({4, 6}, {4, 6}, {8, 12})}

\* Operands of every kind of extension.  The two element types of a contraction agree.
Operand ==
  {Plain("i4"), Plain("i8"), Plain("i16"), Plain("i32"), Plain("f32"),
   Ext("extsi", "i8", "i32"), Ext("extui", "i8", "i32"), Ext("extsi", "i4", "i32"),
   Ext("extui", "i4", "i32"), Ext("extui", "i4", "i8"), Ext("extsi", "i4", "i8"),
   Ext("extsi", "i16", "i32")}
TypedContractions ==
  {c \in {[Row EXCEPT !.lhs = l, !.rhs = r, !.accElt = a] :
            l \in Operand, r \in Operand, a \in {"i32", "i16", "f32"}} : c.lhs.elt = c.rhs.elt}

\* Contractions whose iterators, ranks or maps do not name a matrix product over (m, n, k).
OtherContractions ==
  {[Row EXCEPT !.masked = TRUE], [Row EXCEPT !.iterators = "prp"],
   [Row EXCEPT !.lhsMap = <<0, 1, 2>>], [Row EXCEPT !.rhsMap = <<2>>, !.lhsMap = <<0, 1, 2>>],
   [Row EXCEPT !.lhsMap = <<0, 1>>], [Row EXCEPT !.rhsMap = <<0, 2>>, !.lhsMap = <<1, 2>>],
   [Row EXCEPT !.iterators = "pr", !.lhsMap = <<1>>, !.rhsMap = <<0, 1>>, !.accMap = <<0>>]}

MCContractions == TiledContractions \cup TypedContractions \cup OtherContractions

\* Square operands in every physical order.
MCTransposed ==
  {[Row EXCEPT !.size = s, !.lhsMap = l, !.rhsMap = r, !.accMap = a] :
     s \in Sizes({8}, {8}, {8}), l \in {<<0, 2>>, <<2, 0>>}, r \in {<<1, 2>>, <<2, 1>>},
     a \in {<<0, 1>>, <<1, 0>>}}
=============================================================================
