-------------------- MODULE RISCVIntrinsicManager_proofs --------------------
(***************************************************************************)
(* Proofs about RISCVIntrinsicManager, for every set of records and every  *)
(* program: however pragmas and lookups interleave, a lookup answers from  *)
(* the kinds declared so far.                                              *)
(***************************************************************************)
EXTENDS RISCVIntrinsicManager, SequenceTheorems, TLAPS

\* The intrinsics of the kinds that are constructed, and those of them already in the tables.
Constructed == UNION {Elements(IntrinsicsOf(kind)) : kind \in {kd \in KindSet : constructed[kd]}}
Built == Constructed \ Elements(queue)

\* The queue holds each of its intrinsics once, and only while a lookup builds the tables.
QueueInv ==
  /\ \A i, j \in DOMAIN queue : queue[i].def = queue[j].def => i = j
  /\ Elements(queue) \subseteq Constructed
  /\ pc # "init" => queue = <<>>
  /\ \A kind \in KindSet : constructed[kind] => declare[kind]

\* The list and the two maps hold exactly what is built.
TablesInv ==
  /\ \A k \in DOMAIN intrinsicList : \E x \in Built : intrinsicList[k] = x.def
  /\ \A n \in Overloads : \A i \in DOMAIN overloads[n] :
       \E x \in Built : x.overload = n /\ intrinsicList[overloads[n][i]] = x.def
  /\ \A x \in Built : \E i \in DOMAIN overloads[x.overload] :
       intrinsicList[overloads[x.overload][i]] = x.def
  /\ \A n \in Names : intrinsics[n] # 0 =>
       \E x \in Built : x.name = n /\ intrinsicList[intrinsics[n]] = x.def
  /\ \A x \in Built : intrinsics[x.name] # 0

\* A lookup has no answer until the tables are complete, and goes on to the builtins only when
\* nothing that is declared has its name.
LookupInv ==
  /\ pc \in {"init", "builtin"} => answer = NoAnswer
  /\ pc = "builtin" /\ lookup.riscv =>
       \A x \in Declared : x.overload # lookup.name /\ x.name # lookup.name

IInv == TypeOK /\ QueueInv /\ TablesInv /\ CandidatesDistinct /\ LookupInv /\ LookupComplete

-----------------------------------------------------------------------------
\* The intrinsics of a kind, and their names and definitions, are among all of them.
LEMMA IntrinsicsOfKinds ==
  /\ Constructed \subseteq AllIntrinsics /\ Declared \subseteq AllIntrinsics
  /\ \A x \in AllIntrinsics : x.name \in Names /\ x.overload \in Overloads /\ x.def \in Definitions
<1>1. \A kind \in KindSet : Elements(IntrinsicsOf(kind)) \subseteq AllIntrinsics
  BY DEF AllIntrinsics
<1>2. Constructed \subseteq AllIntrinsics /\ Declared \subseteq AllIntrinsics
  BY <1>1 DEF Constructed, Declared
<1>3. \A x \in AllIntrinsics : x.name \in Names /\ x.overload \in Overloads /\ x.def \in Definitions
  BY DEF Names, Overloads, Definitions
<1> QED BY <1>2, <1>3

\* No two intrinsics have the same definition.
LEMMA DefinitionsDistinct ==
  ASSUME NEW x \in AllIntrinsics, NEW y \in AllIntrinsics, x.def = y.def
  PROVE  x = y
<1>1. PICK kind \in KindSet : x \in Elements(IntrinsicsOf(kind))
  BY DEF AllIntrinsics
<1>2. PICK other \in KindSet : y \in Elements(IntrinsicsOf(other))
  BY DEF AllIntrinsics
<1>3. kind = other
  BY <1>1, <1>2, IntrinsicsAssumption
<1>4. PICK i \in DOMAIN IntrinsicsOf(kind) : x = IntrinsicsOf(kind)[i]
  BY <1>1 DEF Elements
<1>5. PICK j \in DOMAIN IntrinsicsOf(kind) : y = IntrinsicsOf(kind)[j]
  BY <1>2, <1>3 DEF Elements
<1> QED BY <1>4, <1>5, IntrinsicsAssumption

\* Creating the head of the queue leaves the rest of it, each still once.
LEMMA QueueHead ==
  ASSUME queue \in Seq(AllIntrinsics), queue # <<>>, QueueInv
  PROVE  /\ Head(queue) \in Elements(queue) /\ Head(queue) \in AllIntrinsics
         /\ Tail(queue) \in Seq(AllIntrinsics)
         /\ Elements(Tail(queue)) = Elements(queue) \ {Head(queue)}
         /\ \A i, j \in DOMAIN Tail(queue) : Tail(queue)[i].def = Tail(queue)[j].def => i = j
<1> DEFINE n == Len(queue)
           t == Tail(queue)
<1>1. n \in Nat \ {0} /\ DOMAIN queue = 1 .. n /\ Head(queue) = queue[1]
  OBVIOUS
<1>2. t \in Seq(AllIntrinsics) /\ DOMAIN t = 1 .. n - 1 /\ \A i \in 1 .. n - 1 : t[i] = queue[i + 1]
  BY HeadTailProperties
<1>3. \A i, j \in DOMAIN t : t[i].def = t[j].def => i = j
  <2> SUFFICES ASSUME NEW i \in DOMAIN t, NEW j \in DOMAIN t, t[i].def = t[j].def PROVE i = j
    OBVIOUS
  <2>1. i + 1 \in DOMAIN queue /\ j + 1 \in DOMAIN queue
    BY <1>1, <1>2
  <2>2. queue[i + 1].def = queue[j + 1].def
    BY <1>2
  <2>3. i + 1 = j + 1
    BY <2>1, <2>2 DEF QueueInv
  <2> QED BY <2>3, <1>2
<1>4. Elements(t) \subseteq Elements(queue) \ {Head(queue)}
  <2> SUFFICES ASSUME NEW i \in DOMAIN t PROVE t[i] \in Elements(queue) /\ t[i] # Head(queue)
    BY DEF Elements
  <2>1. i + 1 \in DOMAIN queue /\ t[i] = queue[i + 1] /\ 1 \in DOMAIN queue /\ i + 1 # 1
    BY <1>1, <1>2
  <2>2. queue[i + 1] # queue[1]
    BY <2>1 DEF QueueInv
  <2> QED BY <1>1, <2>1, <2>2 DEF Elements
<1>5. Elements(queue) \ {Head(queue)} \subseteq Elements(t)
  <2> SUFFICES ASSUME NEW i \in DOMAIN queue, queue[i] # Head(queue) PROVE queue[i] \in Elements(t)
    BY DEF Elements
  <2>1. i - 1 \in DOMAIN t /\ t[i - 1] = queue[i]
    BY <1>1, <1>2
  <2> QED BY <2>1 DEF Elements
<1>6. Head(queue) \in Elements(queue) /\ Head(queue) \in AllIntrinsics
  BY <1>1 DEF Elements
<1> QED BY <1>2, <1>3, <1>4, <1>5, <1>6

-----------------------------------------------------------------------------
(***************************************************************************)
(* Type correctness.                                                       *)
(***************************************************************************)
\* A longer list admits more indexes.
LEMMA IndexesGrow ==
  ASSUME NEW m \in Nat, NEW s \in Seq(1 .. m)
  PROVE  s \in Seq(1 .. m + 1) /\ Append(s, m + 1) \in Seq(1 .. m + 1)
<1>1. s \in Seq(1 .. m + 1)
  <2>1. \A i \in 1 .. Len(s) : s[i] \in 1 .. m + 1
    BY ElementOfSeq
  <2> QED BY <2>1, SeqDef
<1>2. m + 1 \in 1 .. m + 1
  OBVIOUS
<1> QED BY <1>1, <1>2, AppendProperties

\* What Append leaves and what it adds.
LEMMA Appended ==
  ASSUME NEW S, NEW s \in Seq(S), NEW e
  PROVE  /\ DOMAIN Append(s, e) = DOMAIN s \cup {Len(s) + 1}
         /\ \A k \in DOMAIN s : Append(s, e)[k] = s[k]
         /\ Append(s, e)[Len(s) + 1] = e
         /\ Len(s) + 1 \notin DOMAIN s
OBVIOUS

\* The tables hold only indexes of the list (TypeOK of the machine).
THEOREM TypeCorrect == Spec => []TypeOK
<1>1. Init => TypeOK
  BY DEF Init, TypeOK, NoAnswer
<1>2. TypeOK /\ [Next]_vars => TypeOK'
  <2> SUFFICES ASSUME TypeOK, [Next]_vars PROVE TypeOK'
    OBVIOUS
  <2> USE DEF TypeOK, tables
  <2>1. ASSUME NEW command, NEW argument, NEW rest, HandlePragma(command, argument, rest)
        PROVE  TypeOK'
    BY <2>1 DEF HandlePragma
  <2>2. ASSUME NEW id \in Identifiers, Declare(id) PROVE TypeOK'
    BY <2>2 DEF Declare
  <2>3. ASSUME NEW id \in Identifiers, NEW nameKind, LookupBuiltin(id, nameKind) PROVE TypeOK'
    BY <2>3 DEF LookupBuiltin, NoAnswer
  <2>4. ASSUME NEW i \in DOMAIN Kinds, ConstructRVVIntrinsics(i) PROVE TypeOK'
    <3>1. Kinds[i] \in KindSet
      BY DEF KindSet
    <3>2. IntrinsicsOf(Kinds[i]) \in Seq(AllIntrinsics)
      BY <3>1, IntrinsicsAssumption
    <3> QED BY <2>4, <3>2 DEF ConstructRVVIntrinsics
  <2>5. CASE InitRVVIntrinsic
    <3> DEFINE x == Head(queue)
               m == Len(intrinsicList)
    <3>1. queue # <<>> /\ x \in AllIntrinsics /\ Tail(queue) \in Seq(AllIntrinsics)
      BY <2>5, HeadTailProperties DEF InitRVVIntrinsic
    <3>2. x.name \in Names /\ x.overload \in Overloads /\ x.def \in Definitions
      BY <3>1, IntrinsicsOfKinds
    <3>3. /\ m \in Nat /\ intrinsicList' = Append(intrinsicList, x.def)
          /\ intrinsicList' \in Seq(Definitions) /\ Len(intrinsicList') = m + 1
      BY <2>5, <3>2, AppendProperties DEF InitRVVIntrinsic
    <3>4. intrinsics' \in [Names -> 0 .. m + 1]
      BY <2>5, <3>2, <3>3 DEF InitRVVIntrinsic
    <3>5. overloads' \in [Overloads -> Seq(1 .. m + 1)]
      <4>1. overloads' = [overloads EXCEPT ![x.overload] = Append(overloads[x.overload], m + 1)]
        BY <2>5 DEF InitRVVIntrinsic
      <4>2. \A n \in Overloads : /\ overloads[n] \in Seq(1 .. m + 1)
                                  /\ Append(overloads[n], m + 1) \in Seq(1 .. m + 1)
        BY <3>3, IndexesGrow
      <4> QED BY <3>2, <4>1, <4>2
    <3> QED BY <2>5, <3>1, <3>3, <3>4, <3>5 DEF InitRVVIntrinsic
  <2>6. CASE CreateIntrinsicIfFound
    <3> DEFINE m == Len(intrinsicList)
               indexes == IF OverloadsFound # <<>> THEN OverloadsFound
                          ELSE IF IntrinsicFound # 0 THEN <<IntrinsicFound>> ELSE <<>>
               decls == [i \in DOMAIN indexes |-> intrinsicList[indexes[i]]]
    <3>1. OverloadsFound \in Seq(1 .. m)
      <4>1. CASE lookup.riscv /\ lookup.name \in Overloads
        <5>1. overloads[lookup.name] \in Seq(1 .. m)
          BY <4>1
        <5> QED BY <4>1, <5>1 DEF OverloadsFound
      <4>2. CASE ~(lookup.riscv /\ lookup.name \in Overloads)
        <5>1. OverloadsFound = <<>>
          BY <4>2 DEF OverloadsFound
        <5> QED BY <5>1
      <4> QED BY <4>1, <4>2
    <3>2. IntrinsicFound # 0 => IntrinsicFound \in 1 .. m
      <4>1. m \in Nat
        OBVIOUS
      <4>2. CASE lookup.riscv /\ lookup.name \in Names
        <5>1. intrinsics[lookup.name] \in 0 .. m
          BY <4>2
        <5> QED BY <4>1, <4>2, <5>1 DEF IntrinsicFound
      <4>3. CASE ~(lookup.riscv /\ lookup.name \in Names)
        BY <4>3 DEF IntrinsicFound
      <4> QED BY <4>2, <4>3
    <3>3. decls \in Seq(Definitions)
      <4>1. indexes \in Seq(1 .. m)
        <5>1. CASE OverloadsFound # <<>>
          BY <3>1, <5>1
        <5>2. CASE OverloadsFound = <<>> /\ IntrinsicFound # 0
          BY <3>2, <5>2
        <5>3. CASE OverloadsFound = <<>> /\ IntrinsicFound = 0
          BY <5>3
        <5> QED BY <5>1, <5>2, <5>3
      <4> HIDE DEF indexes
      <4>2. DOMAIN indexes = 1 .. Len(indexes) /\ Len(indexes) \in Nat
        BY <4>1
      <4>3. \A i \in 1 .. Len(indexes) : indexes[i] \in 1 .. m
        BY <4>1, ElementOfSeq
      <4>4. \A k \in 1 .. m : intrinsicList[k] \in Definitions
        BY ElementOfSeq
      <4>5. \A i \in 1 .. Len(indexes) : intrinsicList[indexes[i]] \in Definitions
        BY <4>3, <4>4
      <4>6. decls = [i \in 1 .. Len(indexes) |-> intrinsicList[indexes[i]]]
        BY <4>2
      <4> QED BY <4>2, <4>5, <4>6, SeqDef
    <3>4. answer' \in [by : {"none", "overload", "intrinsic", "builtin"}, decls : Seq(Definitions)]
      BY <2>6, <3>3 DEF CreateIntrinsicIfFound
    <3> HIDE DEF indexes, decls
    <3> QED BY <2>6, <3>4 DEF CreateIntrinsicIfFound
  <2>7. CASE CreateBuiltin
    BY <2>7 DEF CreateBuiltin
  <2>8. CASE Resume
    BY <2>8 DEF Resume, NoAnswer
  <2>9. CASE UNCHANGED vars
    BY <2>9 DEF vars
  <2> QED BY <2>1, <2>2, <2>3, <2>4, <2>5, <2>6, <2>7, <2>8, <2>9 DEF Next
<1> QED BY <1>1, <1>2, PTL DEF Spec

-----------------------------------------------------------------------------
(***************************************************************************)
(* The tables hold what is built.                                          *)
(***************************************************************************)
\* Creating an intrinsic adds it to those that are built, where it was not.
LEMMA BuiltGrows ==
  ASSUME TypeOK, QueueInv, InitRVVIntrinsic
  PROVE  /\ Head(queue) \in AllIntrinsics /\ Head(queue) \notin Built
         /\ Built \subseteq AllIntrinsics
         /\ Built' = Built \cup {Head(queue)}
         /\ QueueInv'
<1>1. queue \in Seq(AllIntrinsics) /\ queue # <<>>
  BY DEF TypeOK, InitRVVIntrinsic
<1>2. /\ Head(queue) \in Elements(queue) /\ Head(queue) \in AllIntrinsics
      /\ Elements(Tail(queue)) = Elements(queue) \ {Head(queue)}
      /\ \A i, j \in DOMAIN Tail(queue) : Tail(queue)[i].def = Tail(queue)[j].def => i = j
  BY <1>1, QueueHead
<1>3. Constructed' = Constructed /\ Elements(queue)' = Elements(Tail(queue))
  BY DEF Constructed, InitRVVIntrinsic, Elements
<1>4. Elements(queue) \subseteq Constructed /\ Constructed \subseteq AllIntrinsics
  BY IntrinsicsOfKinds DEF QueueInv
<1>5. Built' = Built \cup {Head(queue)} /\ Head(queue) \notin Built /\ Built \subseteq AllIntrinsics
  BY <1>2, <1>3, <1>4 DEF Built
<1>6. QueueInv'
  <2>1. pc = "init"
    BY <1>1 DEF QueueInv
  <2>2. Elements(queue)' \subseteq Constructed'
    BY <1>2, <1>3, <1>4
  <2> QED BY <1>2, <2>1, <2>2 DEF QueueInv, InitRVVIntrinsic
<1> QED BY <1>2, <1>5, <1>6

\* An intrinsic goes to the end of the list; the indexes before it mean what they meant.
LEMMA ListGrows ==
  ASSUME TypeOK, InitRVVIntrinsic
  PROVE  LET m == Len(intrinsicList) IN
         /\ m \in Nat /\ DOMAIN intrinsicList = 1 .. m /\ DOMAIN intrinsicList' = 1 .. m + 1
         /\ \A k \in 1 .. m : intrinsicList'[k] = intrinsicList[k]
         /\ intrinsicList'[m + 1] = Head(queue).def
<1>1. intrinsicList \in Seq(Definitions) /\ intrinsicList' = Append(intrinsicList, Head(queue).def)
  BY DEF TypeOK, InitRVVIntrinsic
<1> QED BY <1>1

\* Constructing the tables of a kind puts all of it in the queue, and builds nothing yet.
LEMMA KindQueued ==
  ASSUME TypeOK, QueueInv, NEW i \in DOMAIN Kinds, ConstructRVVIntrinsics(i)
  PROVE  Built' = Built /\ QueueInv'
<1> DEFINE kind == Kinds[i]
           of == Elements(IntrinsicsOf(kind))
<1>1. kind \in KindSet /\ declare[kind] /\ ~constructed[kind] /\ queue = <<>> /\ pc = "init"
  BY DEF KindSet, ConstructRVVIntrinsics, Pending
<1>2. constructed' = [constructed EXCEPT ![kind] = TRUE] /\ queue' = IntrinsicsOf(kind)
      /\ pc' = pc /\ declare' = declare
  BY DEF ConstructRVVIntrinsics
<1>3. Constructed' = Constructed \cup of
  <2>1. {kd \in KindSet : constructed'[kd]} = {kd \in KindSet : constructed[kd]} \cup {kind}
    BY <1>1, <1>2 DEF TypeOK
  <2> QED BY <2>1 DEF Constructed
<1>4. Elements(queue)' = of /\ Elements(queue) = {}
  BY <1>1, <1>2 DEF Elements
<1>5. Constructed \cap of = {}
  <2> SUFFICES ASSUME NEW x \in of, x \in Constructed PROVE FALSE
    OBVIOUS
  <2>1. PICK other \in KindSet : constructed[other] /\ x \in Elements(IntrinsicsOf(other))
    BY DEF Constructed
  <2>2. x.def.kind = kind /\ x.def.kind = other
    BY <1>1, <2>1, IntrinsicsAssumption
  <2> QED BY <1>1, <2>1, <2>2
<1>6. Built' = Built
  BY <1>3, <1>4, <1>5 DEF Built
<1>7. \A j, k \in DOMAIN queue' : queue'[j].def = queue'[k].def => j = k
  BY <1>1, <1>2, IntrinsicsAssumption
<1>8. \A kd \in KindSet : constructed'[kd] => declare'[kd]
  BY <1>1, <1>2 DEF QueueInv, TypeOK
<1> QED BY <1>1, <1>2, <1>3, <1>4, <1>6, <1>7, <1>8 DEF QueueInv

\* Both maps go on to hold exactly what is built.
LEMMA TablesGrow ==
  ASSUME TypeOK, QueueInv, TablesInv, InitRVVIntrinsic
  PROVE  TablesInv'
<1> DEFINE x == Head(queue)
           m == Len(intrinsicList)
<1>1. /\ x \in AllIntrinsics /\ x \notin Built /\ Built \subseteq AllIntrinsics
      /\ Built' = Built \cup {x}
  BY BuiltGrows
<1>2. /\ m \in Nat /\ DOMAIN intrinsicList = 1 .. m /\ DOMAIN intrinsicList' = 1 .. m + 1
      /\ \A k \in 1 .. m : intrinsicList'[k] = intrinsicList[k]
      /\ intrinsicList'[m + 1] = x.def
  BY ListGrows
<1>3. \A y \in AllIntrinsics : y.name \in Names /\ y.overload \in Overloads
  BY IntrinsicsOfKinds
<1>4. \A n \in Overloads : \A i \in DOMAIN overloads[n] : overloads[n][i] \in 1 .. m
  BY ElementOfSeq DEF TypeOK
<1>5. /\ \A n \in Overloads \ {x.overload} : overloads'[n] = overloads[n]
      /\ LET s == overloads[x.overload] IN
         /\ DOMAIN overloads'[x.overload] = DOMAIN s \cup {Len(s) + 1}
         /\ \A i \in DOMAIN s : overloads'[x.overload][i] = s[i]
         /\ overloads'[x.overload][Len(s) + 1] = m + 1
  <2>1. overloads' = [overloads EXCEPT ![x.overload] = Append(overloads[x.overload], m + 1)]
    BY DEF InitRVVIntrinsic
  <2>2. overloads[x.overload] \in Seq(1 .. m) /\ x.overload \in Overloads
    BY <1>1, <1>3 DEF TypeOK
  <2>3. overloads'[x.overload] = Append(overloads[x.overload], m + 1)
    BY <2>1, <2>2 DEF TypeOK
  <2>4. \A n \in Overloads \ {x.overload} : overloads'[n] = overloads[n]
    BY <2>1 DEF TypeOK
  <2> QED BY <2>2, <2>3, <2>4
<1>6. /\ \A n \in Names \ {x.name} : intrinsics'[n] = intrinsics[n]
      /\ intrinsics'[x.name] = IF intrinsics[x.name] = 0 THEN m + 1 ELSE intrinsics[x.name]
  BY <1>1, <1>3 DEF TypeOK, InitRVVIntrinsic
<1>7. \A k \in DOMAIN intrinsicList' : \E y \in Built' : intrinsicList'[k] = y.def
  BY <1>1, <1>2 DEF TablesInv
<1>8. ASSUME NEW n \in Overloads, NEW i \in DOMAIN overloads'[n]
      PROVE  \E y \in Built' : y.overload = n /\ intrinsicList'[overloads'[n][i]] = y.def
  <2>1. CASE i \in DOMAIN overloads[n] /\ overloads'[n][i] = overloads[n][i]
    <3>1. PICK y \in Built : y.overload = n /\ intrinsicList[overloads[n][i]] = y.def
      BY <2>1 DEF TablesInv
    <3> QED BY <1>1, <1>2, <1>4, <2>1, <3>1
  <2>2. CASE n = x.overload /\ overloads'[n][i] = m + 1
    BY <1>1, <1>2, <2>2
  <2> QED BY <1>5, <2>1, <2>2
<1>9. ASSUME NEW y \in Built'
      PROVE  \E i \in DOMAIN overloads'[y.overload] : intrinsicList'[overloads'[y.overload][i]] = y.def
  <2>1. CASE y = x
    BY <1>2, <1>5, <2>1
  <2>2. CASE y \in Built
    <3>1. y.overload \in Overloads
      BY <1>1, <1>3, <2>2
    <3>2. PICK i \in DOMAIN overloads[y.overload] : intrinsicList[overloads[y.overload][i]] = y.def
      BY <2>2 DEF TablesInv
    <3>3. i \in DOMAIN overloads'[y.overload] /\ overloads'[y.overload][i] = overloads[y.overload][i]
      BY <1>5, <3>1, <3>2
    <3> QED BY <1>2, <1>4, <3>1, <3>2, <3>3
  <2> QED BY <1>1, <2>1, <2>2
<1>10. ASSUME NEW n \in Names, intrinsics'[n] # 0
       PROVE  \E y \in Built' : y.name = n /\ intrinsicList'[intrinsics'[n]] = y.def
  <2>1. CASE intrinsics'[n] = intrinsics[n]
    <3>1. PICK y \in Built : y.name = n /\ intrinsicList[intrinsics[n]] = y.def
      BY <1>10, <2>1 DEF TablesInv
    <3>2. intrinsics[n] \in 1 .. m
      BY <1>2, <1>10, <2>1 DEF TypeOK
    <3> QED BY <1>1, <1>2, <2>1, <3>1, <3>2
  <2>2. CASE n = x.name /\ intrinsics'[n] = m + 1
    BY <1>1, <1>2, <2>2
  <2> QED BY <1>6, <2>1, <2>2
<1>11. ASSUME NEW y \in Built' PROVE intrinsics'[y.name] # 0
  BY <1>1, <1>2, <1>3, <1>6 DEF TablesInv
<1> QED BY <1>7, <1>8, <1>9, <1>10, <1>11 DEF TablesInv

\* A definition that is new to the list is new to every overload set.
LEMMA CandidatesStayDistinct ==
  ASSUME TypeOK, QueueInv, TablesInv, CandidatesDistinct, InitRVVIntrinsic
  PROVE  CandidatesDistinct'
<1> DEFINE x == Head(queue)
           m == Len(intrinsicList)
<1>1. x \in AllIntrinsics /\ x \notin Built /\ Built \subseteq AllIntrinsics
  BY BuiltGrows
<1>2. /\ m \in Nat /\ DOMAIN intrinsicList = 1 .. m
      /\ \A k \in 1 .. m : intrinsicList'[k] = intrinsicList[k]
      /\ intrinsicList'[m + 1] = x.def
  BY ListGrows
<1>3. \A k \in 1 .. m : intrinsicList[k] # x.def
  BY <1>1, <1>2, DefinitionsDistinct DEF TablesInv
<1> SUFFICES ASSUME NEW n \in Overloads, NEW i \in DOMAIN overloads'[n], NEW j \in DOMAIN overloads'[n],
                    intrinsicList'[overloads'[n][i]] = intrinsicList'[overloads'[n][j]]
             PROVE  i = j
  BY DEF CandidatesDistinct
<1> DEFINE s == overloads[n]
<1>4. s \in Seq(1 .. m) /\ \A k \in DOMAIN s : s[k] \in 1 .. m
  BY ElementOfSeq DEF TypeOK
<1>5. CASE n # x.overload
  <2>1. overloads'[n] = s
    BY <1>5 DEF TypeOK, InitRVVIntrinsic
  <2> QED BY <1>2, <1>4, <2>1 DEF CandidatesDistinct
<1>6. CASE n = x.overload
  <2>1. overloads'[n] = Append(s, m + 1)
    BY <1>6 DEF TypeOK, InitRVVIntrinsic
  <2>2. /\ DOMAIN overloads'[n] = DOMAIN s \cup {Len(s) + 1}
        /\ \A k \in DOMAIN s : overloads'[n][k] = s[k]
        /\ overloads'[n][Len(s) + 1] = m + 1
    <3> HIDE DEF s, m
    <3>1. s \in Seq(1 .. m)
      BY <1>4
    <3>2. /\ DOMAIN Append(s, m + 1) = DOMAIN s \cup {Len(s) + 1}
          /\ \A k \in DOMAIN s : Append(s, m + 1)[k] = s[k]
          /\ Append(s, m + 1)[Len(s) + 1] = m + 1
      BY <3>1, Appended
    <3> QED BY <2>1, <3>2
  <2>3. ASSUME NEW k \in DOMAIN s PROVE intrinsicList'[overloads'[n][k]] # x.def
    BY <1>2, <1>3, <1>4, <2>2
  <2>4. CASE i \in DOMAIN s /\ j \in DOMAIN s
    BY <1>2, <1>4, <2>2, <2>4 DEF CandidatesDistinct
  <2>5. CASE i = Len(s) + 1 /\ j \in DOMAIN s
    BY <1>2, <2>2, <2>3, <2>5
  <2>6. CASE i \in DOMAIN s /\ j = Len(s) + 1
    BY <1>2, <2>2, <2>3, <2>6
  <2>7. CASE i = Len(s) + 1 /\ j = Len(s) + 1
    BY <2>7
  <2> QED BY <2>2, <2>4, <2>5, <2>6, <2>7
<1> QED BY <1>5, <1>6

-----------------------------------------------------------------------------
(***************************************************************************)
(* A lookup answers from what is declared.                                 *)
(***************************************************************************)
\* When no kind is pending and the queue is empty, all that is declared is built.
LEMMA AllBuilt ==
  ASSUME QueueInv, queue = <<>>, \A i \in DOMAIN Kinds : ~Pending(i)
  PROVE  Built = Declared
<1>1. \A kind \in KindSet : declare[kind] <=> constructed[kind]
  BY DEF QueueInv, Pending, KindSet
<1>2. Elements(queue) = {}
  BY DEF Elements
<1> QED BY <1>1, <1>2 DEF Built, Constructed, Declared

\* What CreateIntrinsicIfFound finds in tables that are complete.
LEMMA Found ==
  ASSUME TypeOK, TablesInv, Built = Declared, lookup.riscv
  PROVE  LET overloaded == {x \in Declared : x.overload = lookup.name}
             exact == {x \in Declared : x.name = lookup.name}
         IN /\ OverloadsFound # <<>> =>
                 /\ overloaded # {}
                 /\ {intrinsicList[OverloadsFound[i]] : i \in DOMAIN OverloadsFound}
                      = {x.def : x \in overloaded}
            /\ OverloadsFound = <<>> => overloaded = {}
            /\ IntrinsicFound # 0 =>
                 exact # {} /\ intrinsicList[IntrinsicFound] \in {x.def : x \in exact}
            /\ IntrinsicFound = 0 => exact = {}
<1> DEFINE name == lookup.name
           overloaded == {x \in Declared : x.overload = name}
           exact == {x \in Declared : x.name = name}
<1>1. \A x \in Declared : x.name \in Names /\ x.overload \in Overloads
  BY IntrinsicsOfKinds
<1>2. ASSUME OverloadsFound # <<>>
      PROVE  /\ overloaded # {}
             /\ {intrinsicList[OverloadsFound[i]] : i \in DOMAIN OverloadsFound}
                  = {x.def : x \in overloaded}
  <2>1. name \in Overloads /\ OverloadsFound = overloads[name]
    BY <1>2 DEF OverloadsFound
  <2>2. overloads[name] \in Seq(1 .. Len(intrinsicList))
    BY <2>1 DEF TypeOK
  <2>3. 1 \in DOMAIN overloads[name]
    BY <1>2, <2>1, <2>2
  <2>4. \A i \in DOMAIN overloads[name] :
          \E x \in overloaded : intrinsicList[overloads[name][i]] = x.def
    BY <2>1 DEF TablesInv
  <2>5. \A x \in overloaded :
          \E i \in DOMAIN overloads[name] : intrinsicList[overloads[name][i]] = x.def
    BY DEF TablesInv
  <2> QED BY <2>1, <2>3, <2>4, <2>5
<1>3. ASSUME OverloadsFound = <<>> PROVE overloaded = {}
  <2> SUFFICES ASSUME NEW x \in overloaded PROVE FALSE
    OBVIOUS
  <2>1. name \in Overloads
    BY <1>1
  <2>2. DOMAIN overloads[name] # {}
    BY DEF TablesInv
  <2> QED BY <1>3, <2>1, <2>2 DEF OverloadsFound
<1>4. ASSUME IntrinsicFound # 0
      PROVE  exact # {} /\ intrinsicList[IntrinsicFound] \in {x.def : x \in exact}
  BY <1>4 DEF IntrinsicFound, TablesInv
<1>5. ASSUME IntrinsicFound = 0 PROVE exact = {}
  BY <1>1, <1>5 DEF IntrinsicFound, TablesInv
<1> QED BY <1>2, <1>3, <1>4, <1>5

\* What CreateIntrinsicIfFound answers.
LEMMA AnswersComplete ==
  ASSUME TypeOK, QueueInv, TablesInv, LookupInv, CreateIntrinsicIfFound
  PROVE  LookupInv' /\ LookupComplete'
<1> DEFINE indexes == IF OverloadsFound # <<>> THEN OverloadsFound
                      ELSE IF IntrinsicFound # 0 THEN <<IntrinsicFound>> ELSE <<>>
           overloaded == {x \in Declared : x.overload = lookup.name}
           exact == {x \in Declared : x.name = lookup.name}
<1>1. Built = Declared
  BY AllBuilt DEF CreateIntrinsicIfFound
<1>2. Declared' = Declared /\ lookup' = lookup /\ answer = NoAnswer
  BY DEF CreateIntrinsicIfFound, Declared, LookupInv
<1>3. pc' = (IF indexes # <<>> THEN "answered" ELSE "builtin")
  BY DEF CreateIntrinsicIfFound
<1>4. /\ indexes = <<>> => answer' = answer
      /\ indexes # <<>> => answer'.decls = [i \in DOMAIN indexes |-> intrinsicList[indexes[i]]]
  BY DEF CreateIntrinsicIfFound
<1>5. CASE ~lookup.riscv
  <2>1. indexes = <<>>
    BY <1>5 DEF OverloadsFound, IntrinsicFound
  <2> QED BY <1>2, <1>3, <1>4, <1>5, <2>1 DEF LookupInv, LookupComplete
<1>6. CASE lookup.riscv /\ OverloadsFound # <<>>
  <2>1. indexes = OverloadsFound
    BY <1>6
  <2>2. overloaded # {} /\ {intrinsicList[indexes[i]] : i \in DOMAIN indexes} = {x.def : x \in overloaded}
    BY <1>1, <1>6, <2>1, Found
  <2>3. pc' = "answered" /\ answer'.decls = [i \in DOMAIN indexes |-> intrinsicList[indexes[i]]]
    BY <1>3, <1>4, <1>6, <2>1
  <2> HIDE DEF indexes
  <2>4. Elements(answer'.decls) = {intrinsicList[indexes[i]] : i \in DOMAIN indexes}
    BY <2>3 DEF Elements
  <2> QED BY <1>2, <2>2, <2>3, <2>4 DEF LookupInv, LookupComplete
<1>7. CASE lookup.riscv /\ OverloadsFound = <<>> /\ IntrinsicFound # 0
  <2>1. indexes = <<IntrinsicFound>>
    BY <1>7
  <2>2. overloaded = {} /\ exact # {} /\ intrinsicList[IntrinsicFound] \in {x.def : x \in exact}
    BY <1>1, <1>7, Found
  <2>3. pc' = "answered" /\ answer'.decls = <<intrinsicList[IntrinsicFound]>>
    BY <1>3, <1>4, <2>1
  <2>4. Elements(answer'.decls) = {intrinsicList[IntrinsicFound]} /\ Len(answer'.decls) = 1
    BY <2>3 DEF Elements
  <2> QED BY <1>2, <2>2, <2>3, <2>4 DEF LookupInv, LookupComplete
<1>8. CASE lookup.riscv /\ OverloadsFound = <<>> /\ IntrinsicFound = 0
  <2>1. overloaded = {} /\ exact = {}
    BY <1>1, <1>8, Found
  <2>2. pc' = "builtin" /\ answer' = answer
    BY <1>3, <1>4, <1>8
  <2> QED BY <1>2, <2>1, <2>2 DEF LookupInv, LookupComplete
<1> QED BY <1>5, <1>6, <1>7, <1>8

\* Between lookups the pragmas may come: nothing of the tables changes.
LEMMA TablesKept ==
  ASSUME QueueInv, TablesInv, CandidatesDistinct, UNCHANGED <<queue, tables>>, Built' = Built
  PROVE  TablesInv' /\ CandidatesDistinct'
BY DEF tables, TablesInv, CandidatesDistinct

\* Initially nothing is declared, queued or built.
LEMMA InitiallyEmpty == Init => IInv
<1> SUFFICES ASSUME Init PROVE IInv
  OBVIOUS
<1>1. TypeOK
  BY DEF Init, TypeOK, NoAnswer
<1>2. Constructed = {} /\ Built = {}
  BY DEF Init, Constructed, Built
<1>3. QueueInv
  BY DEF Init, QueueInv, Elements
<1>4. TablesInv /\ CandidatesDistinct
  BY <1>2 DEF Init, TablesInv, CandidatesDistinct
<1>5. LookupInv /\ LookupComplete
  BY DEF Init, LookupInv, LookupComplete
<1> QED BY <1>1, <1>3, <1>4, <1>5 DEF IInv

\* The steps that leave the queue, the tables and what is constructed alone.
LEMMA NothingBuilt ==
  ASSUME TablesInv, CandidatesDistinct, QueueInv, UNCHANGED <<constructed, queue, tables>>
  PROVE  TablesInv' /\ CandidatesDistinct'
<1>1. Built' = Built
  BY DEF Built, Constructed, Elements
<1> QED BY <1>1, TablesKept

\* Whatever order the pragmas and the earlier lookups came in, a lookup finds the intrinsics of
\* the kinds declared so far, and no candidate twice (InitIntrinsicList, CreateIntrinsicIfFound).
THEOREM LookupsExact == Spec => []LookupExact
<1>1. IInv /\ TypeOK' /\ [Next]_vars => IInv'
  <2> SUFFICES ASSUME IInv, TypeOK', [Next]_vars PROVE IInv'
    OBVIOUS
  <2> USE DEF IInv
  <2>1. ASSUME NEW command, NEW argument, NEW rest, HandlePragma(command, argument, rest)
        PROVE  IInv'
    <3>1. pc = "parse" /\ pc' = "parse" /\ UNCHANGED <<constructed, queue, tables, answer>>
      BY <2>1 DEF HandlePragma
    <3>2. \A kind \in KindSet : declare[kind] => declare'[kind]
      BY <2>1 DEF HandlePragma, TypeOK
    <3>3. QueueInv'
      BY <3>1, <3>2 DEF QueueInv, Constructed, Elements
    <3>4. TablesInv' /\ CandidatesDistinct'
      BY <3>1, NothingBuilt
    <3>5. LookupInv' /\ LookupComplete'
      BY <3>1 DEF LookupInv, LookupComplete
    <3> QED BY <3>3, <3>4, <3>5
  <2>2. ASSUME NEW id \in Identifiers, Declare(id) PROVE IInv'
    <3>1. pc = "parse" /\ pc' = "parse" /\ UNCHANGED <<declare, constructed, queue, tables, answer>>
      BY <2>2 DEF Declare
    <3>2. QueueInv'
      BY <3>1 DEF QueueInv, Constructed, Elements
    <3>3. TablesInv' /\ CandidatesDistinct'
      BY <3>1, NothingBuilt
    <3>4. LookupInv' /\ LookupComplete'
      BY <3>1 DEF LookupInv, LookupComplete
    <3> QED BY <3>2, <3>3, <3>4
  <2>3. ASSUME NEW id \in Identifiers, NEW nameKind, LookupBuiltin(id, nameKind) PROVE IInv'
    <3>1. /\ pc = "parse" /\ pc' \in {"parse", "init", "builtin"} /\ answer' = NoAnswer
          /\ UNCHANGED <<declare, constructed, queue, tables>>
          /\ pc' = "builtin" => \A kind \in KindSet : ~declare[kind]
      BY <2>3 DEF LookupBuiltin
    <3>2. QueueInv'
      BY <3>1 DEF QueueInv, Constructed, Elements
    <3>3. TablesInv' /\ CandidatesDistinct'
      BY <3>1, NothingBuilt
    <3>4. pc' = "builtin" => Declared' = {}
      BY <3>1 DEF Declared
    <3>5. LookupInv' /\ LookupComplete'
      BY <3>1, <3>4 DEF LookupInv, LookupComplete
    <3> QED BY <3>2, <3>3, <3>5
  <2>4. ASSUME NEW i \in DOMAIN Kinds, ConstructRVVIntrinsics(i) PROVE IInv'
    <3>1. Built' = Built /\ QueueInv'
      BY <2>4, KindQueued
    <3>2. pc = "init" /\ UNCHANGED <<declare, tables, pc, lookup, answer>>
      BY <2>4 DEF ConstructRVVIntrinsics
    <3>3. TablesInv' /\ CandidatesDistinct'
      BY <3>1, <3>2 DEF tables, TablesInv, CandidatesDistinct
    <3>4. LookupInv' /\ LookupComplete'
      BY <3>2 DEF LookupInv, LookupComplete
    <3> QED BY <3>1, <3>3, <3>4
  <2>5. CASE InitRVVIntrinsic
    <3>1. QueueInv'
      BY <2>5, BuiltGrows
    <3>2. TablesInv' /\ CandidatesDistinct'
      BY <2>5, TablesGrow, CandidatesStayDistinct
    <3>3. pc = "init" /\ UNCHANGED <<declare, pc, lookup, answer>>
      BY <2>5 DEF InitRVVIntrinsic, QueueInv
    <3>4. LookupInv' /\ LookupComplete'
      BY <3>3 DEF LookupInv, LookupComplete
    <3> QED BY <3>1, <3>2, <3>4
  <2>6. CASE CreateIntrinsicIfFound
    <3>1. queue = <<>> /\ UNCHANGED <<declare, constructed, queue, tables>>
      BY <2>6 DEF CreateIntrinsicIfFound
    <3>2. QueueInv'
      BY <3>1 DEF QueueInv, Constructed, Elements
    <3>3. TablesInv' /\ CandidatesDistinct'
      BY <3>1, NothingBuilt
    <3>4. LookupInv' /\ LookupComplete'
      BY <2>6, AnswersComplete
    <3> QED BY <3>2, <3>3, <3>4
  <2>7. CASE CreateBuiltin
    <3>1. /\ pc = "builtin" /\ pc' = "answered" /\ answer'.decls = answer.decls /\ queue = <<>>
          /\ UNCHANGED <<declare, constructed, queue, tables, lookup>>
      BY <2>7 DEF CreateBuiltin, QueueInv, TypeOK
    <3>2. QueueInv'
      BY <3>1 DEF QueueInv, Constructed, Elements
    <3>3. TablesInv' /\ CandidatesDistinct'
      BY <3>1, NothingBuilt
    <3>4. Elements(answer'.decls) = {}
      BY <3>1 DEF LookupInv, NoAnswer, Elements
    <3>5. Declared' = Declared
      BY <3>1 DEF Declared
    <3>6. LookupInv' /\ LookupComplete'
      BY <3>1, <3>4, <3>5 DEF LookupInv, LookupComplete
    <3> QED BY <3>2, <3>3, <3>6
  <2>8. CASE Resume
    <3>1. /\ pc = "answered" /\ pc' = "parse"
          /\ UNCHANGED <<declare, constructed, queue, tables, lookup>>
      BY <2>8 DEF Resume
    <3>2. QueueInv'
      BY <3>1 DEF QueueInv, Constructed, Elements
    <3>3. TablesInv' /\ CandidatesDistinct'
      BY <3>1, NothingBuilt
    <3>4. LookupInv' /\ LookupComplete'
      BY <3>1 DEF LookupInv, LookupComplete
    <3> QED BY <3>2, <3>3, <3>4
  <2>9. CASE UNCHANGED vars
    <3>1. UNCHANGED <<declare, constructed, queue, tables, pc, lookup, answer>>
      BY <2>9 DEF vars, tables
    <3>2. QueueInv'
      BY <3>1 DEF QueueInv, Constructed, Elements
    <3>3. TablesInv' /\ CandidatesDistinct'
      BY <3>1, NothingBuilt
    <3>4. LookupInv' /\ LookupComplete'
      BY <3>1 DEF LookupInv, LookupComplete, Declared
    <3> QED BY <3>2, <3>3, <3>4
  <2> QED BY <2>1, <2>2, <2>3, <2>4, <2>5, <2>6, <2>7, <2>8, <2>9 DEF Next
<1>2. IInv => LookupExact
  BY DEF IInv, LookupExact
<1> QED BY <1>1, <1>2, InitiallyEmpty, TypeCorrect, PTL DEF Spec

=============================================================================
