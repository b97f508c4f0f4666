------------------------ MODULE BuiltinShards_proofs -------------------------
(***************************************************************************)
(* Proofs about the builtin IDs, for any number of shards of any size.     *)
(* The inductive invariant says of each of the three loops (the counting   *)
(* of InitializeTarget, the numbering of initializeBuiltins, the scan of   *)
(* getShardAndInfo) how far it is in terms of the enumerators.             *)
(***************************************************************************)
EXTENDS BuiltinShards, SequenceTheorems, TLAPS

LEMMA ShardFacts ==
  /\ NumShards \in Nat /\ NumShards >= 1
  /\ FirstAuxShard \in 2 .. NumShards + 1
  /\ \A s \in 1 .. NumShards : Len(Shards[s]) \in Nat
  /\ \A s \in 1 .. NumShards + 1 : First[s] \in Nat
  /\ First[1] = 0 /\ First[2] > 0
  /\ \A s \in 1 .. NumShards : First[s + 1] = First[s] + Len(Shards[s])
  /\ First[NumShards + 1] > 0
<1>1. NumShards \in Nat /\ NumShards >= 1
  BY ShardsAssumption DEF NumShards
<1>2. \A s \in 1 .. NumShards : Len(Shards[s]) \in Nat
  BY ShardsAssumption DEF NumShards
<1>3. First[1 + 1] = First[1] + Len(Shards[1])
  BY <1>1, EnumeratorsAssumption
<1>4. First[2] > 0
  BY <1>1, <1>2, <1>3, ShardsAssumption, EnumeratorsAssumption
<1>5. First[2] <= First[NumShards + 1]
  BY <1>1, EnumeratorsAssumption
<1> QED
  BY <1>1, <1>2, <1>4, <1>5, ShardsAssumption, EnumeratorsAssumption DEF FirstAuxShard

LEMMA PositionFacts ==
  ASSUME NEW s \in 1 .. NumShards, NEW i \in 1 .. Len(Shards[s])
  PROVE  /\ <<s, i>> \in Positions
         /\ Info(<<s, i>>).name \in Names
         /\ First[s] + i - 1 \in IDs
<1>1. <<s, i>> \in {s} \X (1 .. Len(Shards[s]))
  OBVIOUS
<1>2. <<s, i>> \in Positions
  BY <1>1 DEF Positions
<1>3. Shards[s] \in Seq([name : Names, library : BOOLEAN, std : BOOLEAN])
  BY ShardsAssumption DEF NumShards
<1>4. Shards[s][i] \in [name : Names, library : BOOLEAN, std : BOOLEAN]
  BY <1>3, ElementOfSeq
<1>5. First[s] + i - 1 < First[s + 1]
  BY ShardFacts
<1>6. First[s + 1] <= First[NumShards + 1]
  BY ShardFacts, EnumeratorsAssumption
<1>7. First[s] \in Nat /\ First[s + 1] \in Nat /\ First[NumShards + 1] \in Nat
  BY ShardFacts
<1>8. First[s] + i - 1 \in IDs
  BY <1>5, <1>6, <1>7 DEF IDs
<1>9. Info(<<s, i>>).name \in Names
  BY <1>4 DEF Info
<1> QED
  BY <1>2, <1>8, <1>9

\* InitializeTarget has counted the target's builtins among the shards it has passed.
Counting ==
  IF pc = "initializeTarget"
  THEN /\ shard >= 2
       /\ numTarget = First[IF shard <= FirstAuxShard THEN shard ELSE FirstAuxShard] - First[2]
  ELSE numTarget = First[FirstAuxShard] - First[2]

\* initializeBuiltins is at the ID of the builtin it looks at.
Numbering ==
  /\ pc = "initializeTarget" => index = 1 /\ nextID = 0
  /\ pc = "initializeBuiltins" =>
       /\ nextID = First[shard] + index - 1
       /\ IF shard <= NumShards THEN index <= Len(Shards[shard]) + 1 ELSE index = 1

\* getShardAndInfo has subtracted exactly the shards it has passed.
Scanning ==
  pc \in {"scan", "found"} =>
    /\ query = First[shard] + rest
    /\ shard < EndOfScan
    /\ query < First[EndOfScan]
    /\ pc = "found" => rest < Len(Shards[shard])

IInv == TypeOK /\ Counting /\ Numbering /\ Scanning /\ NamesAgree

LEMMA InitInv == Init => IInv
<1> SUFFICES ASSUME Init PROVE IInv
  OBVIOUS
<1>1. TypeOK
  BY ShardFacts DEF Init, TypeOK, IDs
<1>2. Counting /\ Numbering /\ Scanning
  BY ShardFacts DEF Init, Counting, Numbering, Scanning
<1>3. NamesAgree
  BY DEF Init, NamesAgree
<1> QED
  BY <1>1, <1>2, <1>3 DEF IInv

\* A scan that is begun once the target's builtins are counted starts in the right place.
LEMMA BeginScanInv ==
  ASSUME TypeOK, Counting, pc = "ready", NEW id \in IDs, NEW by, BeginScan(id, by),
         UNCHANGED numTarget
  PROVE  /\ shard' \in 1 .. NumShards + 1 /\ rest' \in IDs /\ query' \in IDs
         /\ caller' = by /\ pc' = "scan"
         /\ Counting' /\ Scanning'
<1>1. numTarget = First[FirstAuxShard] - First[2] /\ numTarget' = numTarget
  BY DEF Counting
<1>2. id < First[NumShards + 1] /\ id \in Nat
  BY ShardFacts DEF IDs
<1>3. Counting' /\ pc' = "scan" /\ query' = id /\ caller' = by
  BY <1>1 DEF Counting, BeginScan
<1>4. CASE isAuxBuiltinID(id)
  <2>1. id >= First[FirstAuxShard] /\ rest' = id - First[FirstAuxShard] /\ shard' = FirstAuxShard
    BY <1>1, <1>2, <1>4, ShardFacts
       DEF BeginScan, isAuxBuiltinID, getAuxBuiltinID, FirstTSBuiltin
  <2>2. EndOfScan' = NumShards + 1
    <3>1. First[2] <= First[FirstAuxShard]
      BY ShardFacts, EnumeratorsAssumption
    <3> QED
      BY <3>1, <1>1, <1>2, <1>3, <2>1, ShardFacts DEF EndOfScan, isAuxBuiltinID, FirstTSBuiltin
  <2>3. FirstAuxShard # NumShards + 1
    BY <1>2, <2>1, ShardFacts
  <2>4. rest' \in IDs
    BY <1>2, <2>1, ShardFacts DEF IDs
  <2>5. Scanning'
    BY <1>2, <1>3, <2>1, <2>2, <2>3, ShardFacts DEF Scanning
  <2> QED
    BY <1>3, <2>1, <2>4, <2>5, ShardFacts
<1>5. CASE ~isAuxBuiltinID(id) /\ id >= FirstTSBuiltin
  <2>1. id < First[FirstAuxShard] /\ rest' = id - First[2] /\ shard' = 2 /\ id >= First[2]
    BY <1>1, <1>2, <1>5, ShardFacts DEF BeginScan, isAuxBuiltinID, FirstTSBuiltin
  <2>2. EndOfScan' = FirstAuxShard
    <3>1. ~(query' < First[2]) /\ ~(query' >= First[2] + numTarget')
      BY <1>1, <1>2, <1>3, <2>1, ShardFacts
    <3> QED
      BY <3>1 DEF EndOfScan, isAuxBuiltinID, FirstTSBuiltin
  <2>3. FirstAuxShard # 2
    BY <1>2, <2>1, ShardFacts
  <2>4. rest' \in IDs
    BY <1>2, <2>1, ShardFacts DEF IDs
  <2>5. Scanning'
    BY <1>2, <1>3, <2>1, <2>2, <2>3, ShardFacts DEF Scanning
  <2> QED
    BY <1>3, <2>1, <2>4, <2>5, ShardFacts
<1>6. CASE ~isAuxBuiltinID(id) /\ ~(id >= FirstTSBuiltin)
  <2>1. id < First[2] /\ rest' = id /\ shard' = 1
    BY <1>2, <1>6, ShardFacts DEF BeginScan, FirstTSBuiltin
  <2>2. EndOfScan' = 2
    BY <1>3, <2>1 DEF EndOfScan, FirstTSBuiltin
  <2>3. Scanning'
    BY <1>2, <1>3, <2>1, <2>2, ShardFacts DEF Scanning
  <2> QED
    BY <1>3, <2>1, <2>3, ShardFacts
<1> QED
  BY <1>4, <1>5, <1>6

LEMMA StepInv == IInv /\ [Next]_vars => IInv'
<1> SUFFICES ASSUME IInv, [Next]_vars PROVE IInv'
  OBVIOUS
<1> USE DEF IInv, options, lookup
<1>1. CASE CountShard
  <2>1. TypeOK'
    BY <1>1, ShardFacts DEF CountShard, TypeOK
  <2>2. Counting'
    <3>1. shard \in 2 .. NumShards /\ First[shard + 1] = First[shard] + Len(Shards[shard])
      BY <1>1, ShardFacts DEF CountShard, TypeOK, Counting
    <3>2. shard' = shard + 1 /\ pc' = "initializeTarget" /\ pc = "initializeTarget"
      BY <1>1 DEF CountShard
    <3>3. CASE shard < FirstAuxShard
      BY <1>1, <3>1, <3>2, <3>3, ShardFacts DEF CountShard, Counting
    <3>4. CASE ~(shard < FirstAuxShard)
      <4>1. First[IF shard <= FirstAuxShard THEN shard ELSE FirstAuxShard] = First[FirstAuxShard]
        BY <3>1, <3>4, ShardFacts
      <4> QED
        BY <1>1, <3>1, <3>2, <3>4, <4>1, ShardFacts DEF CountShard, Counting
    <3> QED
      BY <3>3, <3>4
  <2>3. Numbering' /\ Scanning' /\ NamesAgree'
    BY <1>1 DEF CountShard, Numbering, Scanning, NamesAgree
  <2> QED
    BY <2>1, <2>2, <2>3
<1>2. CASE EndInitializeTarget
  <2>1. TypeOK'
    BY <1>2, ShardFacts DEF EndInitializeTarget, TypeOK
  <2>2. Counting'
    BY <1>2, ShardFacts DEF EndInitializeTarget, Counting, TypeOK
  <2>3. Numbering' /\ Scanning'
    BY <1>2, ShardFacts DEF EndInitializeTarget, Numbering, Scanning
  <2>4. NamesAgree'
    BY <1>2 DEF EndInitializeTarget, NamesAgree
  <2> QED
    BY <2>1, <2>2, <2>3, <2>4
<1>3. CASE Register
  <2> DEFINE p == <<shard, index>>
  <2>1. shard \in 1 .. NumShards /\ index \in 1 .. Len(Shards[shard])
    BY <1>3, ShardFacts DEF Register, TypeOK
  <2>2. nextID = First[shard] + index - 1
    BY <1>3 DEF Register, Numbering
  <2>3. p \in Positions /\ Info(p).name \in Names /\ nextID \in IDs
    BY <2>1, <2>2, PositionFacts
  <2>4. table' \in [Names -> IDs]
    BY <1>3, <2>3 DEF Register, TypeOK
  <2>5. nextID' \in 0 .. First[NumShards + 1] /\ index' \in Nat \ {0}
    BY <1>3, <2>1, <2>3, ShardFacts DEF Register, IDs
  <2>6. TypeOK'
    BY <1>3, <2>4, <2>5 DEF Register, TypeOK
  <2>7. Counting' /\ Scanning'
    BY <1>3 DEF Register, Counting, Scanning
  <2>8. Numbering'
    BY <1>3, <2>1, <2>2, ShardFacts DEF Register, Numbering
  <2>9. NamesAgree'
    <3> SUFFICES ASSUME NEW n \in Names, table'[n] # 0
                 PROVE  \E q \in Positions : table'[n] = First[q[1]] + q[2] - 1 /\ Info(q).name = n
      BY DEF NamesAgree
    <3>1. CASE table'[n] = table[n]
      BY <3>1 DEF NamesAgree
    <3>2. CASE table'[n] # table[n]
      <4>1. n = Info(p).name /\ table'[n] = nextID
        BY <1>3, <2>3, <3>2 DEF Register, TypeOK
      <4> QED
        BY <2>2, <2>3, <4>1
    <3> QED
      BY <3>1, <3>2
  <2> QED
    BY <2>6, <2>7, <2>8, <2>9
<1>4. CASE NextShard
  <2>1. TypeOK'
    BY <1>4, ShardFacts DEF NextShard, TypeOK
  <2>2. Numbering'
    <3>1. shard \in 1 .. NumShards /\ index = Len(Shards[shard]) + 1
      BY <1>4, ShardFacts DEF NextShard, Numbering, TypeOK
    <3>2. nextID = First[shard + 1]
      BY <1>4, <3>1, ShardFacts DEF NextShard, Numbering
    <3> QED
      BY <1>4, <3>1, <3>2, ShardFacts DEF NextShard, Numbering
  <2>3. Counting' /\ Scanning' /\ NamesAgree'
    BY <1>4 DEF NextShard, Counting, Scanning, NamesAgree
  <2> QED
    BY <2>1, <2>2, <2>3
<1>5. CASE EndRegistration
  <2>1. TypeOK'
    BY <1>5 DEF EndRegistration, TypeOK
  <2>2. Counting' /\ Numbering' /\ Scanning'
    BY <1>5 DEF EndRegistration, Counting, Numbering, Scanning
  <2>3. NamesAgree'
    BY <1>5 DEF EndRegistration, NamesAgree
  <2> QED
    BY <2>1, <2>2, <2>3
<1>6. ASSUME NEW f \in NoBuiltinFuncs, BeginUnregister(f) PROVE IInv'
  <2>1. CASE table[f.name] = 0
    <3>1. TypeOK' /\ Counting' /\ Numbering' /\ Scanning'
      BY <1>6, <2>1 DEF BeginUnregister, TypeOK, Counting, Numbering, Scanning
    <3>2. NamesAgree'
      BY <1>6 DEF BeginUnregister, NamesAgree
    <3> QED
      BY <3>1, <3>2
  <2>2. CASE table[f.name] # 0
    <3>1. table[f.name] \in IDs
      BY ShardsAssumption DEF TypeOK
    <3>2. /\ BeginScan(table[f.name], {f}) /\ pc = "ready"
          /\ unregister' \subseteq NoBuiltinFuncs
          /\ UNCHANGED <<options, index, nextID, table>>
      BY <1>6, <2>2 DEF BeginUnregister, TypeOK
    <3>3. /\ shard' \in 1 .. NumShards + 1 /\ rest' \in IDs /\ query' \in IDs
          /\ caller' = {f} /\ pc' = "scan"
          /\ Counting' /\ Scanning'
      BY <3>1, <3>2, BeginScanInv
    <3>4. TypeOK'
      BY <3>2, <3>3 DEF TypeOK
    <3>5. Numbering' /\ NamesAgree'
      BY <3>2, <3>3 DEF Numbering, NamesAgree
    <3> QED
      BY <3>3, <3>4, <3>5
  <2> QED
    BY <2>1, <2>2
<1>7. ASSUME NEW id \in IDs, Ask(id) PROVE IInv'
  <2>1. BeginScan(id, {}) /\ pc = "ready" /\ UNCHANGED <<options, index, nextID, table, unregister>>
    BY <1>7 DEF Ask
  <2>2. /\ shard' \in 1 .. NumShards + 1 /\ rest' \in IDs /\ query' \in IDs
        /\ caller' = {} /\ pc' = "scan"
        /\ Counting' /\ Scanning'
    BY <2>1, BeginScanInv
  <2>3. TypeOK'
    BY <2>1, <2>2 DEF TypeOK
  <2>4. Numbering' /\ NamesAgree'
    BY <2>1, <2>2 DEF Numbering, NamesAgree
  <2> QED
    BY <2>2, <2>3, <2>4
<1>8. CASE ScanOn
  <2>1. /\ pc = "scan" /\ shard < EndOfScan /\ rest >= Len(Shards[shard])
        /\ rest' = rest - Len(Shards[shard]) /\ shard' = shard + 1
        /\ UNCHANGED <<options, pc, index, nextID, table, unregister, query, caller>>
    BY <1>8 DEF ScanOn
  <2>2. EndOfScan \in 2 .. NumShards + 1 /\ EndOfScan' = EndOfScan
    BY <2>1, ShardFacts DEF EndOfScan, isAuxBuiltinID
  <2>3. shard \in 1 .. NumShards /\ rest \in Nat /\ rest < First[NumShards + 1]
    BY <2>1, <2>2, ShardFacts DEF TypeOK, IDs
  <2>4. query = First[shard] + rest /\ query < First[EndOfScan]
    BY <2>1 DEF Scanning
  <2>5. query = First[shard'] + rest' /\ rest' \in IDs
    <3>1. /\ First[shard] \in Nat /\ Len(Shards[shard]) \in Nat
          /\ First[shard + 1] = First[shard] + Len(Shards[shard])
      BY <2>3, ShardFacts
    <3>2. rest' \in IDs
      BY <2>1, <2>3, <3>1, ShardFacts DEF IDs
    <3>3. query = First[shard + 1] + rest'
      BY <2>1, <2>3, <2>4, <3>1
    <3> QED
      BY <2>1, <3>2, <3>3
  <2>6. shard' # EndOfScan
    BY <2>2, <2>4, <2>5, ShardFacts DEF IDs
  <2>7. Scanning'
    BY <2>1, <2>2, <2>3, <2>4, <2>5, <2>6 DEF Scanning
  <2>8. TypeOK'
    BY <2>1, <2>2, <2>3, <2>5, ShardFacts DEF TypeOK
  <2>9. Counting' /\ Numbering' /\ NamesAgree'
    BY <2>1 DEF Counting, Numbering, NamesAgree
  <2> QED
    BY <2>7, <2>8, <2>9
<1>9. CASE Found
  <2>1. TypeOK' /\ Counting' /\ Numbering'
    BY <1>9 DEF Found, TypeOK, Counting, Numbering
  <2>2. Scanning'
    BY <1>9 DEF Found, Scanning, EndOfScan, isAuxBuiltinID
  <2>3. NamesAgree'
    BY <1>9 DEF Found, NamesAgree
  <2> QED
    BY <2>1, <2>2, <2>3
<1>10. ASSUME NEW f \in NoBuiltinFuncs, Unregister(f) PROVE IInv'
  <2>1. table' = table \/ table' = [table EXCEPT ![f.name] = 0]
    BY <1>10 DEF Unregister
  <2>2. table' \in [Names -> IDs]
    BY <2>1, ShardFacts DEF TypeOK, IDs
  <2>3. TypeOK' /\ Counting' /\ Numbering' /\ Scanning'
    BY <1>10, <2>2 DEF Unregister, TypeOK, Counting, Numbering, Scanning
  <2>4. \A n \in Names : table'[n] = table[n] \/ table'[n] = 0
    BY <2>1 DEF TypeOK
  <2>5. NamesAgree'
    BY <2>4 DEF NamesAgree
  <2> QED
    BY <2>3, <2>5
<1>11. CASE Answer
  <2>1. TypeOK' /\ Counting' /\ Numbering' /\ Scanning'
    BY <1>11 DEF Answer, TypeOK, Counting, Numbering, Scanning
  <2>2. NamesAgree'
    BY <1>11 DEF Answer, NamesAgree
  <2> QED
    BY <2>1, <2>2
<1>12. CASE UNCHANGED vars
  <2>1. TypeOK' /\ Counting' /\ Numbering'
    BY <1>12 DEF vars, TypeOK, Counting, Numbering
  <2>2. Scanning'
    BY <1>12 DEF vars, Scanning, EndOfScan, isAuxBuiltinID
  <2>3. NamesAgree'
    BY <1>12 DEF vars, NamesAgree
  <2> QED
    BY <2>1, <2>2, <2>3
<1> QED
  BY <1>1, <1>2, <1>3, <1>4, <1>5, <1>6, <1>7, <1>8, <1>9, <1>10, <1>11, <1>12 DEF Next

LEMMA InvAlways == Spec => []IInv
  BY InitInv, StepInv, PTL DEF Spec

\* Type correctness: no loop leaves its table, and no ID exceeds the last enumerator.
THEOREM TypeCorrect == Spec => []TypeOK
<1>1. IInv => TypeOK
  BY DEF IInv
<1> QED
  BY <1>1, InvAlways, PTL

\* Whatever the shards, getShardAndInfo ends at the builtin whose enumerator it was given.
THEOREM LookupsCorrect == Spec => []LookupCorrect
<1>1. IInv => LookupCorrect
  BY DEF IInv, Scanning, LookupCorrect
<1> QED
  BY <1>1, InvAlways, PTL

\* getShardAndInfo never falls off the end of the shards it scans.
THEOREM ScansEnd == Spec => []ScanEnds
<1>1. IInv => ScanEnds
  BY DEF IInv, Scanning, ScanEnds
<1> QED
  BY <1>1, InvAlways, PTL

\* Every identifier marked as a builtin carries the enumerator of a builtin of its name.
THEOREM NamesCorrect == Spec => []NamesAgree
<1>1. IInv => NamesAgree
  BY DEF IInv
<1> QED
  BY <1>1, InvAlways, PTL

-----------------------------------------------------------------------------
(***************************************************************************)
(* The -fno-builtin arguments take effect on the right builtins.           *)
(***************************************************************************)
Id(p) == First[p[1]] + p[2] - 1
Registerable(p) == p # <<1, 1>> /\ (p[1] < FirstAuxShard => p \in supported)
Registered(n) == {p \in Positions : Info(p).name = n /\ Registerable(p) /\ Id(p) < nextID}
LastRegistered(p) ==
  /\ p \in Registered(Info(p).name)
  /\ \A q \in Registered(Info(p).name) : Id(q) <= Id(p)

\* The arguments whose effect the table already shows.
Scans == {"scan", "found"}
Honoured == NoBuiltinFuncs \ (unregister \cup (IF pc \in Scans THEN caller ELSE {}))
Cleared(p) == \E f \in Honoured : f.name = Info(p).name /\ Matches(Info(p), f)
TableInv ==
  \A p \in Positions : LastRegistered(p) =>
    table[Info(p).name] = IF Cleared(p) THEN 0 ELSE Id(p)

\* The arguments wait for the registration to end, and a scan for one of them is for the
\* ID that the table gives its name.
ProgressInv ==
  /\ pc \in {"initializeTarget", "initializeBuiltins"} => unregister = NoBuiltinFuncs
  /\ pc \notin {"initializeTarget", "initializeBuiltins"} => nextID = First[NumShards + 1]
  /\ pc \in Scans =>
       \A f \in caller : f \notin unregister /\ query = table[f.name] /\ query # 0

LEMMA PositionType ==
  ASSUME NEW p \in Positions
  PROVE  /\ p = <<p[1], p[2]>> /\ p[1] \in 1 .. NumShards /\ p[2] \in 1 .. Len(Shards[p[1]])
         /\ Info(p).name \in Names /\ Id(p) \in Nat
         /\ First[p[1]] <= Id(p) /\ Id(p) < First[p[1] + 1] /\ Id(p) < First[NumShards + 1]
<1>1. PICK s \in 1 .. NumShards : p \in {s} \X (1 .. Len(Shards[s]))
  BY DEF Positions
<1>2. p = <<p[1], p[2]>> /\ p[1] \in 1 .. NumShards /\ p[2] \in 1 .. Len(Shards[p[1]])
  BY <1>1
<1>3. Info(p).name \in Names /\ Id(p) \in IDs
  BY <1>2, PositionFacts DEF Id
<1>4. First[p[1]] <= Id(p) /\ Id(p) < First[p[1] + 1]
  <2>1. First[p[1]] \in Nat /\ Len(Shards[p[1]]) \in Nat
        /\ First[p[1] + 1] = First[p[1]] + Len(Shards[p[1]])
    BY <1>2, ShardFacts
  <2> QED BY <1>2, <2>1 DEF Id
<1> QED BY <1>2, <1>3, <1>4, ShardFacts DEF IDs

\* No two builtins have the same enumerator.
LEMMA IdInjective ==
  ASSUME NEW p \in Positions, NEW q \in Positions, Id(p) = Id(q)
  PROVE  p = q
<1>1. ~(p[1] < q[1])
  <2> SUFFICES ASSUME p[1] < q[1] PROVE FALSE
    OBVIOUS
  <2>1. First[p[1] + 1] <= First[q[1]]
    BY PositionType, ShardFacts, EnumeratorsAssumption
  <2>2. First[q[1]] \in Nat /\ First[p[1] + 1] \in Nat
    BY PositionType, ShardFacts
  <2>3. Id(p) \in Nat /\ Id(q) \in Nat /\ Id(p) < First[p[1] + 1] /\ First[q[1]] <= Id(q)
    BY PositionType
  <2> QED BY <2>1, <2>2, <2>3
<1>2. ~(q[1] < p[1])
  <2> SUFFICES ASSUME q[1] < p[1] PROVE FALSE
    OBVIOUS
  <2>1. First[q[1] + 1] <= First[p[1]]
    BY PositionType, ShardFacts, EnumeratorsAssumption
  <2>2. First[p[1]] \in Nat /\ First[q[1] + 1] \in Nat
    BY PositionType, ShardFacts
  <2>3. Id(q) \in Nat /\ Id(p) \in Nat /\ Id(q) < First[q[1] + 1] /\ First[p[1]] <= Id(p)
    BY PositionType
  <2> QED BY <2>1, <2>2, <2>3
<1>3. p[1] = q[1]
  BY <1>1, <1>2, PositionType
<1>4. p[2] = q[2]
  BY <1>3, PositionType, ShardFacts DEF Id
<1> QED BY <1>3, <1>4, PositionType

\* Enumerator 0 is that of the no-builtin entry.
LEMMA IdZero ==
  ASSUME NEW p \in Positions
  PROVE  Id(p) = 0 <=> p = <<1, 1>>
<1>1. <<1, 1>> \in Positions /\ Id(<<1, 1>>) = 0
  BY PositionFacts, ShardFacts, ShardsAssumption DEF Id
<1> QED BY <1>1, IdInjective

LEMMA TableKept ==
  ASSUME TableInv, UNCHANGED <<table, nextID, supported>>, Honoured' = Honoured
  PROVE  TableInv'
BY DEF TableInv, LastRegistered, Registered, Registerable, Cleared

\* Registering a builtin makes it the last of its name.
LEMMA RegisterTable ==
  ASSUME IInv, TableInv, ProgressInv, Register
  PROVE  TableInv'
<1> DEFINE p == <<shard, index>>
<1>1. p \in Positions /\ nextID = Id(p) /\ nextID' = nextID + 1 /\ nextID \in Nat
      /\ supported' = supported
  BY ShardFacts, PositionFacts DEF IInv, TypeOK, Numbering, Register, Id, IDs, options
<1>2. Registers(p) <=> Registerable(p)
  BY <1>1, IdZero DEF Registers, Registerable
<1>3. table' = IF Registerable(p) THEN [table EXCEPT ![Info(p).name] = nextID] ELSE table
  BY <1>2 DEF Register
<1>4. Honoured' = {}
  BY DEF Register, ProgressInv, Honoured, Scans
<1> HIDE DEF p
<1>5. ASSUME NEW q \in Positions, q # p
      PROVE  Id(q) < nextID' <=> Id(q) < nextID
  BY <1>1, <1>5, IdInjective, PositionType
<1> SUFFICES ASSUME NEW q \in Positions, LastRegistered(q)'
             PROVE  table'[Info(q).name] = Id(q)
  BY <1>4 DEF TableInv, Cleared, Id, Info
<1>6. /\ Registerable(q) /\ Id(q) < nextID'
      /\ \A r \in Positions : Info(r).name = Info(q).name /\ Registerable(r) /\ Id(r) < nextID'
                                => Id(r) <= Id(q)
  BY <1>1 DEF LastRegistered, Registered, Registerable, Id, Info
<1>7. table \in [Names -> IDs] /\ Info(q).name \in Names
  BY PositionType DEF IInv, TypeOK
<1>8. CASE Registerable(p) /\ Info(p).name = Info(q).name
  <2>1. Id(p) <= Id(q) /\ Id(q) <= Id(p)
    BY <1>1, <1>6, <1>8, PositionType
  <2>2. Id(q) = Id(p)
    BY <2>1, <1>1, PositionType
  <2> QED BY <2>2, <1>1, <1>3, <1>7, <1>8
<1>9. CASE ~(Registerable(p) /\ Info(p).name = Info(q).name)
  <2>1. q # p
    BY <1>6, <1>9
  <2>2. LastRegistered(q)
    BY <1>5, <1>6, <1>1, <2>1, PositionType DEF LastRegistered, Registered
  <2>3. table[Info(q).name] = Id(q)
    BY <2>2 DEF TableInv, Cleared, Honoured, Scans, ProgressInv, Register
  <2>4. table'[Info(q).name] = table[Info(q).name]
    BY <1>3, <1>7, <1>9, PositionType
  <2> QED BY <2>3, <2>4
<1> QED BY <1>8, <1>9

\* An argument whose name is no builtin any more changes nothing.
LEMMA SkipTable ==
  ASSUME IInv, TableInv, NEW f \in NoBuiltinFuncs, BeginUnregister(f), table[f.name] = 0
  PROVE  TableInv'
<1>1. pc = "ready" /\ pc' = "ready" /\ unregister' = unregister \ {f}
      /\ UNCHANGED <<table, nextID, supported>>
  BY DEF BeginUnregister, options
<1>2. Honoured' = Honoured \cup {f}
  BY <1>1 DEF Honoured, Scans
<1> SUFFICES ASSUME NEW p \in Positions, LastRegistered(p)
             PROVE  table[Info(p).name] = IF Cleared(p)' THEN 0 ELSE Id(p)
  BY <1>1 DEF TableInv, LastRegistered, Registered, Registerable, Id, Info
<1>3. Cleared(p) => Cleared(p)'
  BY <1>2 DEF Cleared, Info, Matches
<1>4. Id(p) # 0
  BY IdZero DEF LastRegistered, Registered, Registerable
<1>5. CASE Info(p).name = f.name
  BY <1>3, <1>4, <1>5 DEF TableInv
<1>6. CASE Info(p).name # f.name
  <2>1. Cleared(p)' <=> Cleared(p)
    BY <1>2, <1>6 DEF Cleared, Info, Matches
  <2> QED BY <2>1 DEF TableInv
<1> QED BY <1>5, <1>6

\* The scan has found the builtin that the table gave for the name.
LEMMA UnregisterTable ==
  ASSUME IInv, TableInv, ProgressInv, NEW f \in NoBuiltinFuncs, Unregister(f)
  PROVE  TableInv'
<1> DEFINE found == <<shard, rest + 1>>
<1>1. pc = "found" /\ pc' = "ready" /\ UNCHANGED <<nextID, supported, unregister>>
  BY DEF Unregister, options
<1>2. caller = {f} /\ f \notin unregister /\ query = table[f.name] /\ query # 0
  BY <1>1 DEF IInv, TypeOK, ProgressInv, Unregister, Scans
<1>3. Honoured' = Honoured \cup {f}
  BY <1>1, <1>2 DEF Honoured, Scans
<1>4. found \in Positions /\ Id(found) = query
  <2>1. shard \in 1 .. NumShards
    BY <1>1, ShardFacts DEF IInv, Scanning, TypeOK, EndOfScan
  <2>2. rest \in Nat /\ rest < Len(Shards[shard]) /\ query = First[shard] + rest
    BY <1>1, ShardFacts DEF IInv, Scanning, TypeOK, IDs
  <2>3. Len(Shards[shard]) \in Nat /\ First[shard] \in Nat
    BY <2>1, ShardFacts
  <2>4. rest + 1 \in 1 .. Len(Shards[shard])
    BY <2>2, <2>3
  <2> QED BY <2>1, <2>2, <2>3, <2>4, PositionFacts DEF Id
<1>5. table' = IF Matches(Info(found), f) THEN [table EXCEPT ![f.name] = 0] ELSE table
  BY DEF Unregister
<1> HIDE DEF found
<1>6. table \in [Names -> IDs] /\ f.name \in Names
  BY ShardsAssumption DEF IInv, TypeOK
<1> SUFFICES ASSUME NEW p \in Positions, LastRegistered(p)
             PROVE  table'[Info(p).name] = IF Cleared(p)' THEN 0 ELSE Id(p)
  BY <1>1 DEF TableInv, LastRegistered, Registered, Registerable, Id, Info
<1>7. table[Info(p).name] = IF Cleared(p) THEN 0 ELSE Id(p)
  BY DEF TableInv
<1>8. CASE Info(p).name = f.name
  <2>1. Id(p) = query /\ ~Cleared(p)
    BY <1>2, <1>7, <1>8
  <2>2. p = found
    BY <2>1, <1>4, IdInjective
  <2>3. Cleared(p)' <=> Matches(Info(p), f)
    BY <2>1, <1>3, <1>8 DEF Cleared, Info, Matches
  <2> QED BY <2>1, <2>2, <2>3, <1>2, <1>5, <1>6, <1>8
<1>9. CASE Info(p).name # f.name
  <2>1. Cleared(p)' <=> Cleared(p)
    BY <1>3, <1>9 DEF Cleared, Info, Matches
  <2>2. table'[Info(p).name] = table[Info(p).name]
    BY <1>5, <1>6, <1>9, PositionType
  <2> QED BY <2>1, <2>2, <1>7
<1> QED BY <1>8, <1>9

LEMMA HonouredStep ==
  ASSUME IInv, TableInv, ProgressInv, [Next]_vars
  PROVE  TableInv' /\ ProgressInv'
<1> USE DEF options, lookup, Scans
<1>1. CASE CountShard \/ EndInitializeTarget \/ NextShard
  <2>1. UNCHANGED <<table, nextID, supported, unregister>> /\ Honoured' = Honoured
    BY <1>1 DEF CountShard, EndInitializeTarget, NextShard, Honoured
  <2> QED
    BY <1>1, <2>1, TableKept DEF CountShard, EndInitializeTarget, NextShard, ProgressInv
<1>2. CASE Register
  BY <1>2, RegisterTable DEF Register, ProgressInv
<1>3. CASE EndRegistration
  <2>1. UNCHANGED <<table, nextID, supported, unregister>> /\ Honoured' = Honoured
    BY <1>3 DEF EndRegistration, Honoured
  <2>2. nextID = First[NumShards + 1]
    <3>1. shard = NumShards + 1 /\ index = 1 /\ nextID = First[shard] + index - 1
      BY <1>3, ShardFacts DEF EndRegistration, IInv, TypeOK, Numbering
    <3> QED BY <3>1, ShardFacts
  <2> QED BY <1>3, <2>1, <2>2, TableKept DEF EndRegistration, ProgressInv
<1>4. ASSUME NEW f \in NoBuiltinFuncs, BeginUnregister(f) PROVE TableInv' /\ ProgressInv'
  <2>1. CASE table[f.name] = 0
    BY <1>4, <2>1, SkipTable DEF BeginUnregister, ProgressInv
  <2>2. CASE table[f.name] # 0
    <3>1. /\ pc = "ready" /\ f \in unregister /\ unregister' = unregister \ {f}
          /\ UNCHANGED <<table, nextID, supported>>
          /\ BeginScan(table[f.name], {f})
      BY <1>4, <2>2 DEF BeginUnregister
    <3>2. pc' = "scan" /\ query' = table[f.name] /\ caller' = {f}
      BY <3>1 DEF BeginScan
    <3>3. Honoured' = Honoured
      BY <3>1, <3>2 DEF Honoured
    <3>4. TableInv'
      BY <3>1, <3>3, TableKept
    <3> QED BY <2>2, <3>1, <3>2, <3>4 DEF ProgressInv
  <2> QED BY <2>1, <2>2
<1>5. ASSUME NEW id \in IDs, Ask(id) PROVE TableInv' /\ ProgressInv'
  <2>1. /\ pc = "ready" /\ pc' = "scan" /\ caller' = {}
        /\ UNCHANGED <<table, nextID, supported, unregister>>
    BY <1>5 DEF Ask, BeginScan
  <2>2. Honoured' = Honoured
    BY <2>1 DEF Honoured
  <2> QED BY <2>1, <2>2, TableKept DEF ProgressInv
<1>6. CASE ScanOn \/ Found
  <2>1. /\ UNCHANGED <<table, nextID, supported, unregister, query, caller>>
        /\ pc \in Scans /\ pc' \in Scans
    BY <1>6 DEF ScanOn, Found
  <2>2. Honoured' = Honoured
    BY <2>1 DEF Honoured
  <2> QED BY <2>1, <2>2, TableKept DEF ProgressInv
<1>7. ASSUME NEW f \in NoBuiltinFuncs, Unregister(f) PROVE TableInv' /\ ProgressInv'
  BY <1>7, UnregisterTable DEF Unregister, ProgressInv
<1>8. CASE Answer
  <2>1. UNCHANGED <<table, nextID, supported, unregister>> /\ Honoured' = Honoured
    BY <1>8 DEF Answer, Honoured
  <2> QED BY <1>8, <2>1, TableKept DEF Answer, ProgressInv
<1>9. CASE UNCHANGED vars
  <2>1. Honoured' = Honoured /\ UNCHANGED <<table, nextID, supported>>
    BY <1>9 DEF vars, Honoured
  <2> QED BY <1>9, <2>1, TableKept DEF vars, ProgressInv
<1> QED
  BY <1>1, <1>2, <1>3, <1>4, <1>5, <1>6, <1>7, <1>8, <1>9 DEF Next

\* Once the -fno-builtin arguments are handled, exactly the library functions they name are
\* no builtins any more (NoBuiltinHonoured of the machine), whatever the shards and arguments.
THEOREM NoBuiltinCorrect == Spec => []NoBuiltinHonoured
<1>1. Init => TableInv /\ ProgressInv
  <2> SUFFICES ASSUME Init PROVE TableInv /\ ProgressInv
    OBVIOUS
  <2>1. ASSUME NEW p \in Positions PROVE ~LastRegistered(p)
    BY PositionType DEF Init, LastRegistered, Registered
  <2> QED BY <2>1 DEF Init, TableInv, ProgressInv, Scans
<1>2. IInv /\ TableInv /\ ProgressInv /\ [Next]_vars => TableInv' /\ ProgressInv'
  BY HonouredStep
<1>3. TableInv /\ ProgressInv => NoBuiltinHonoured
  <2> SUFFICES ASSUME TableInv, ProgressInv, pc = "ready", unregister = {},
                      NEW n \in Names, NEW p \in Latest(n)
               PROVE  table[n] = IF \E f \in NoBuiltinFuncs : f.name = n /\ Matches(Info(p), f)
                                 THEN 0 ELSE First[p[1]] + p[2] - 1
    BY DEF NoBuiltinHonoured
  <2>1. p \in Positions /\ Info(p).name = n /\ Registerable(p)
        /\ \A q \in Positions : Info(q).name = n /\ Registerable(q)
                                  => First[q[1]] + q[2] <= First[p[1]] + p[2]
    BY DEF Latest, Registerable
  <2>2. \A q \in Positions : Id(q) < nextID
    BY PositionType DEF ProgressInv
  <2>3. ASSUME NEW q \in Registered(n) PROVE Id(q) <= Id(p)
    <3>1. q \in Positions /\ First[q[1]] + q[2] <= First[p[1]] + p[2]
      BY <2>1, <2>3 DEF Registered
    <3>2. First[p[1]] \in Nat /\ First[q[1]] \in Nat /\ p[2] \in Nat /\ q[2] \in Nat
      BY <2>1, <3>1, PositionType, ShardFacts
    <3> QED BY <3>1, <3>2 DEF Id
  <2>4. LastRegistered(p)
    BY <2>1, <2>2, <2>3 DEF LastRegistered, Registered
  <2>5. Honoured = NoBuiltinFuncs
    BY DEF Honoured, Scans
  <2> QED BY <2>1, <2>4, <2>5 DEF TableInv, Cleared, Id
<1> QED BY <1>1, <1>2, <1>3, InvAlways, PTL DEF Spec
=============================================================================
