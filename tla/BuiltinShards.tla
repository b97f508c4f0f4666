---------------------------- MODULE BuiltinShards ----------------------------
(***************************************************************************)
(* Clang's builtin IDs.  The tables of builtins ("shards") are laid end to *)
(* end: the target-independent one, the target's (for RISC-V: RVV, SiFive, *)
(* Andes, SpacemiT and the scalar ones) and those of an auxiliary target.  *)
(* The enumerators of TargetBuiltins.h, the IDs that initializeBuiltins    *)
(* counts out and the shard that getShardAndInfo finds for an ID are three *)
(* computations that must agree; each is modelled as its own loop.         *)
(***************************************************************************)
EXTENDS Integers, Sequences

CONSTANTS
  Names,            \* the names of builtins, their shard's prefix included
  Shards,           \* the tables: sequences of builtins [name, library, std]
  NumTargetShards,  \* the target's are Shards[2 .. NumTargetShards + 1], the aux target's follow
  First,            \* the enumerators: the ID of the first builtin of each shard, and the end
  NoBuiltinFuncs    \* the arguments [name, std] of -fno-builtin-<name>

NumShards == Len(Shards)
FirstAuxShard == NumTargetShards + 2
Positions == UNION {{s} \X (1 .. Len(Shards[s])) : s \in 1 .. NumShards}
Info(p) == Shards[p[1]][p[2]]
IDs == 0 .. First[NumShards + 1] - 1

\* Position <<1, 1>> is the no-builtin entry.
ASSUME ShardsAssumption ==
  /\ Shards \in Seq(Seq([name : Names, library : BOOLEAN, std : BOOLEAN]))
  /\ NumTargetShards \in Nat /\ NumTargetShards < NumShards
  /\ Len(Shards[1]) > 0
  /\ NoBuiltinFuncs \subseteq [name : Names, std : BOOLEAN]
\* What the enumerators and the static_asserts on the sizes of the tables say, and that an
\* enumeration only grows (it follows, by induction, from the conjunct before it).
ASSUME EnumeratorsAssumption ==
  /\ First \in [1 .. NumShards + 1 -> Nat]
  /\ First[1] = 0
  /\ \A s \in 1 .. NumShards : First[s + 1] = First[s] + Len(Shards[s])
  /\ \A s, t \in 1 .. NumShards + 1 : s <= t => First[s] <= First[t]

FirstTSBuiltin == First[2]

VARIABLES
  supported,     \* the builtins that the language options support
  pc,
  numTarget,     \* NumTargetBuiltins
  numAux,        \* NumAuxTargetBuiltins
  shard, index,  \* the iterators of whichever loop runs
  nextID,        \* ID, in initializeBuiltins
  table,         \* the identifier table: the builtin ID of each name, 0 for none
  unregister,    \* the -fno-builtin arguments not yet handled
  query,         \* the ID that getShardAndInfo is asked for
  rest,          \* what is left of ID while it scans the shards
  caller         \* who asked: {f} for the -fno-builtin argument f, {} for a client

vars == <<supported, pc, numTarget, numAux, shard, index, nextID, table, unregister,
          query, rest, caller>>
options == <<supported, numTarget, numAux>>
lookup == <<query, rest, caller>>

Init ==
  /\ supported \in SUBSET Positions
  /\ pc = "initializeTarget"
  /\ numTarget = 0 /\ numAux = 0
  /\ shard = 2 /\ index = 1
  /\ nextID = 0
  /\ table = [n \in Names |-> 0]
  /\ unregister = NoBuiltinFuncs
  /\ query = 0 /\ rest = 0 /\ caller = {}

\* InitializeTarget: the sizes of the target's shards, then of the aux target's.
CountShard ==
  /\ pc = "initializeTarget" /\ shard <= NumShards
  /\ IF shard < FirstAuxShard
     THEN numTarget' = numTarget + Len(Shards[shard]) /\ UNCHANGED numAux
     ELSE numAux' = numAux + Len(Shards[shard]) /\ UNCHANGED numTarget
  /\ shard' = shard + 1
  /\ UNCHANGED <<supported, pc, index, nextID, table, unregister, lookup>>
EndInitializeTarget ==
  /\ pc = "initializeTarget" /\ shard > NumShards
  /\ pc' = "initializeBuiltins"
  /\ shard' = 1
  /\ UNCHANGED <<options, index, nextID, table, unregister, lookup>>

\* initializeBuiltins, steps 1 to 3: every builtin takes an ID, and its name gets that ID
\* unless it is the no-builtin entry or unsupported; the aux target's always get theirs.
Registers(p) ==
  /\ nextID # 0
  /\ p[1] < FirstAuxShard => p \in supported
\* Faulty variant of Register: only the builtins that are registered take an ID.
RegisterSupported ==
  /\ pc = "initializeBuiltins" /\ shard <= NumShards /\ index <= Len(Shards[shard])
  /\ table' = IF Registers(<<shard, index>>)
              THEN [table EXCEPT ![Info(<<shard, index>>).name] = nextID] ELSE table
  /\ nextID' = IF nextID = 0 \/ Registers(<<shard, index>>) THEN nextID + 1 ELSE nextID
  /\ index' = index + 1
  /\ UNCHANGED <<options, pc, shard, unregister, lookup>>
Register ==
  /\ pc = "initializeBuiltins" /\ shard <= NumShards /\ index <= Len(Shards[shard])
  /\ table' = IF Registers(<<shard, index>>)
              THEN [table EXCEPT ![Info(<<shard, index>>).name] = nextID] ELSE table
  /\ nextID' = nextID + 1
  /\ index' = index + 1
  /\ UNCHANGED <<options, pc, shard, unregister, lookup>>
NextShard ==
  /\ pc = "initializeBuiltins" /\ shard <= NumShards /\ index > Len(Shards[shard])
  /\ shard' = shard + 1 /\ index' = 1
  /\ UNCHANGED <<options, pc, nextID, table, unregister, lookup>>
EndRegistration ==
  /\ pc = "initializeBuiltins" /\ shard > NumShards
  /\ pc' = "ready"
  /\ UNCHANGED <<options, shard, index, nextID, table, unregister, lookup>>

\* getShardAndInfo: where the scan starts, and from which ID.
isAuxBuiltinID(id) == id >= FirstTSBuiltin + numTarget
getAuxBuiltinID(id) == id - numTarget
\* Faulty variant of BeginScan: an aux ID keeps the offset of the target's builtins.
BeginScanAuxUnshifted(id, by) ==
  /\ pc' = "scan" /\ query' = id /\ caller' = by
  /\ IF isAuxBuiltinID(id) THEN shard' = FirstAuxShard /\ rest' = id - FirstTSBuiltin
     ELSE IF id >= FirstTSBuiltin THEN shard' = 2 /\ rest' = id - FirstTSBuiltin
     ELSE shard' = 1 /\ rest' = id
BeginScan(id, by) ==
  /\ pc' = "scan" /\ query' = id /\ caller' = by
  /\ IF isAuxBuiltinID(id)
     THEN shard' = FirstAuxShard /\ rest' = getAuxBuiltinID(id) - FirstTSBuiltin
     ELSE IF id >= FirstTSBuiltin THEN shard' = 2 /\ rest' = id - FirstTSBuiltin
     ELSE shard' = 1 /\ rest' = id

\* The end of the shards it scans: the table of its kind.
EndOfScan == IF query < FirstTSBuiltin THEN 2
             ELSE IF isAuxBuiltinID(query) THEN NumShards + 1 ELSE FirstAuxShard
\* Faulty variant of ScanOn: the sizes of the shards are compared but not subtracted.
ScanOnUnshifted ==
  /\ pc = "scan" /\ shard < EndOfScan /\ rest >= Len(Shards[shard])
  /\ shard' = shard + 1
  /\ UNCHANGED <<options, pc, index, nextID, table, unregister, query, rest, caller>>
\* Faulty variant of ScanOn: the size of the shard ahead is subtracted.
ScanOnAhead ==
  /\ pc = "scan" /\ shard < EndOfScan /\ rest >= Len(Shards[shard])
  /\ shard' = shard + 1
  /\ rest' = rest - Len(Shards[shard + 1])
  /\ UNCHANGED <<options, pc, index, nextID, table, unregister, query, caller>>
ScanOn ==
  /\ pc = "scan" /\ shard < EndOfScan /\ rest >= Len(Shards[shard])
  /\ rest' = rest - Len(Shards[shard])
  /\ shard' = shard + 1
  /\ UNCHANGED <<options, pc, index, nextID, table, unregister, query, caller>>
Found ==
  /\ pc = "scan" /\ shard < EndOfScan /\ rest < Len(Shards[shard])
  /\ pc' = "found"
  /\ UNCHANGED <<options, shard, index, nextID, table, unregister, lookup>>

\* initializeBuiltins, step 4: -fno-builtin-<name> for a predefined library function.
BeginUnregister(f) ==
  /\ pc = "ready" /\ f \in unregister
  /\ unregister' = unregister \ {f}
  /\ IF table[f.name] = 0 THEN UNCHANGED <<pc, shard, lookup>>
     ELSE BeginScan(table[f.name], {f})
  /\ UNCHANGED <<options, index, nextID, table>>
Matches(info, f) == info.library /\ info.std = f.std
\* Faulty variant of Unregister: the std- prefix is not told apart.
UnregisterAnyNamespace(f) ==
  /\ pc = "found" /\ f \in caller
  /\ table' = IF Info(<<shard, rest + 1>>).library THEN [table EXCEPT ![f.name] = 0] ELSE table
  /\ pc' = "ready"
  /\ UNCHANGED <<options, shard, index, nextID, unregister, lookup>>
Unregister(f) ==
  /\ pc = "found" /\ f \in caller
  /\ table' = IF Matches(Info(<<shard, rest + 1>>), f)
              THEN [table EXCEPT ![f.name] = 0] ELSE table
  /\ pc' = "ready"
  /\ UNCHANGED <<options, shard, index, nextID, unregister, lookup>>

\* getName and its like, for an identifier that is a builtin, or for any valid ID.
Ask(id) ==
  /\ pc = "ready" /\ unregister = {}
  /\ BeginScan(id, {})
  /\ UNCHANGED <<options, index, nextID, table, unregister>>
Answer ==
  /\ pc = "found" /\ caller = {}
  /\ pc' = "ready"
  /\ UNCHANGED <<options, shard, index, nextID, table, unregister, lookup>>

Next ==
  \/ CountShard \/ EndInitializeTarget
  \/ Register \/ NextShard \/ EndRegistration
  \/ \E f \in NoBuiltinFuncs : BeginUnregister(f)
  \/ \E id \in IDs : Ask(id)
  \/ ScanOn \/ Found
  \/ \E f \in NoBuiltinFuncs : Unregister(f)
  \/ Answer

Spec == Init /\ [][Next]_vars

-----------------------------------------------------------------------------
\* Type invariant.
TypeOK ==
  /\ supported \in SUBSET Positions
  /\ pc \in {"initializeTarget", "initializeBuiltins", "ready", "scan", "found"}
  /\ numTarget \in Nat /\ numAux \in Nat
  /\ shard \in 1 .. NumShards + 1 /\ index \in Nat \ {0}
  /\ nextID \in 0 .. First[NumShards + 1]
  /\ table \in [Names -> IDs]
  /\ unregister \subseteq NoBuiltinFuncs
  /\ query \in IDs /\ rest \in IDs
  /\ \A f, g \in caller : f = g /\ f \in NoBuiltinFuncs

\* getShardAndInfo ends at the very builtin whose enumerator it was asked for: the shard
\* found begins at First[shard], and what is left of the ID is the builtin's place in it.
LookupCorrect ==
  pc = "found" => /\ rest < Len(Shards[shard])
                  /\ query = First[shard] + rest

\* The scan never falls off the shards of its kind (llvm_unreachable in getShardAndInfo).
ScanEnds == pc = "scan" => shard < EndOfScan

\* An identifier's builtin ID is that of a builtin of this very name: looking the ID up
\* gives the name back (initializeBuiltins against the enumerators).
NamesAgree ==
  \A n \in Names : table[n] # 0 =>
    \E p \in Positions : table[n] = First[p[1]] + p[2] - 1 /\ Info(p).name = n

\* Once the -fno-builtin arguments are handled, a library function they name is no builtin,
\* and a builtin that is not a library function is untouched by them: the last of its name
\* that was registered still has its ID.
Latest(n) ==
  {p \in Positions : /\ Info(p).name = n /\ p # <<1, 1>>
                     /\ p[1] < FirstAuxShard => p \in supported
                     /\ \A q \in Positions :
                          /\ Info(q).name = n
                          /\ q[1] < FirstAuxShard => q \in supported
                          => First[q[1]] + q[2] <= First[p[1]] + p[2]}
NoBuiltinHonoured ==
  pc = "ready" /\ unregister = {} =>
    \A n \in Names : \A p \in Latest(n) :
      table[n] = IF \E f \in NoBuiltinFuncs : f.name = n /\ Matches(Info(p), f)
                 THEN 0 ELSE First[p[1]] + p[2] - 1
=============================================================================
