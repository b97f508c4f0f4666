--------------------------- MODULE MCBuiltinShards ---------------------------
EXTENDS BuiltinShards

\* memcpy is a library function, move and forward are of namespace std; vadd has the same
\* name in two tables of the target; the auxiliary target has a memcpy of its own and shares
\* vmadot with the target.
NamesValue == {"none", "memcpy", "move", "forward", "vadd", "vmadot", "clz"}
Builtin(name, library, std) == [name |-> name, library |-> library, std |-> std]
ShardsValue ==
  <<<<Builtin("none", FALSE, FALSE), Builtin("memcpy", TRUE, FALSE), Builtin("move", TRUE, TRUE),
     Builtin("forward", TRUE, TRUE)>>,
    <<Builtin("vadd", FALSE, FALSE)>>,
    <<>>,
    <<Builtin("vmadot", FALSE, FALSE), Builtin("vadd", FALSE, FALSE)>>,
    <<Builtin("clz", FALSE, FALSE)>>,
    <<Builtin("vmadot", FALSE, FALSE), Builtin("memcpy", FALSE, FALSE)>>>>
FirstValue == <<0, 4, 5, 5, 7, 8, 10>>
NoBuiltinFuncsValue ==
  {[name |-> "memcpy", std |-> FALSE], [name |-> "move", std |-> FALSE],
   [name |-> "forward", std |-> TRUE], [name |-> "vmadot", std |-> FALSE]}
=============================================================================
