----------------------- MODULE MCRISCVIntrinsicManager -----------------------
(***************************************************************************)
(* Records and identifiers for model checking RISCVIntrinsicManager: the   *)
(* shapes of record that the four kinds have, cut down to two types.       *)
(***************************************************************************)
EXTENDS RISCVIntrinsicManager

MCPoints == <<"i32mf2", "i32m1">>

Record == [name |-> <<"vadd", "vv">>, overloadedName |-> <<>>, suffix |-> TRUE,
           overloadedSuffix |-> FALSE, points |-> {"i32mf2", "i32m1"},
           policies |-> <<"tu">>, hasMasked |-> TRUE, maskedPolicies |-> <<"tum", "mu">>]

MCRecords ==
  [kind \in KindSet |->
     CASE kind = "vector" ->
            <<[Record EXCEPT !.points = {"i32m1"}],
              [Record EXCEPT !.name = <<"vadd", "vx">>, !.points = {"i32m1"},
                             !.hasMasked = FALSE],
              [Record EXCEPT !.name = <<"vmv", "v", "x">>, !.policies = <<>>, !.hasMasked = FALSE]>>
       [] kind = "sifive_vector" ->
            <<[Record EXCEPT !.name = <<"sf", "vqmacc">>, !.overloadedName = <<"sf", "vqmacc">>,
                             !.points = {"i32m1"}, !.hasMasked = FALSE]>>
       [] kind = "andes_vector" -> <<>>
       [] OTHER ->
            <<[Record EXCEPT !.name = <<"smt", "vmadot", "vv">>,
                             !.overloadedName = <<"smt", "vmadot">>, !.hasMasked = FALSE]>>]

RISCV(name) == [riscv |-> TRUE, name |-> name]
Plain(name) == [riscv |-> FALSE, name |-> name]

MCIdentifiers ==
  {RISCV(<<"smt", "vmadot">>), RISCV(<<"vadd", "vv", "i32m1", "m">>), RISCV(<<"vadd">>),
   Plain(<<"malloc">>)}
MCBuiltins == {Plain(<<"malloc">>)}
=============================================================================
