------------------------- MODULE WorkflowListProofs -------------------------
(***************************************************************************)
(* Theorems about the list of steps and the loops over it, for every         *)
(* configuration: getNextStep and isLastStep compute what WorkflowSteps      *)
(* defines, and a walk stops at every provisioner once, in order.            *)
(***************************************************************************)
EXTENDS WorkflowList, TLAPS, SequenceTheorems, WellFoundedInduction

-----------------------------------------------------------------------------
(* The list. *)

\* A configuration is a list of extensions, each with its place for an id.
LEMMA ConfigShape ==
  ASSUME config \in Configs
  PROVE  /\ Len(config) \in Nat \ {0}
         /\ config \in Seq([prefix : {"provider", "ipam"}, id : Nat])
         /\ \A k \in 1..Len(config) : /\ config[k].id = k
                                      /\ config[k].prefix \in {"provider", "ipam"}
                                      /\ config[k] = Name(config[k].prefix, k)
<1>0. PICK n \in 1..MaxSteps :
        \E prefix \in [1..n -> {"provider", "ipam"}] : config = [k \in 1..n |-> Name(prefix[k], k)]
  BY DEF Configs
<1>1. PICK prefix \in [1..n -> {"provider", "ipam"}] : config = [k \in 1..n |-> Name(prefix[k], k)]
  BY <1>0
<1>2. n \in Nat \ {0}
  BY MaxStepsAssumption
<1>3. config \in [1..n -> [prefix : {"provider", "ipam"}, id : Nat]]
  BY <1>1, <1>2 DEF Name
<1>4. config \in Seq([prefix : {"provider", "ipam"}, id : Nat]) /\ Len(config) = n
  <2> DEFINE All == [prefix : {"provider", "ipam"}, id : Nat]
  <2> HIDE DEF All
  <2>1. config \in [1..n -> All]
    BY <1>3 DEF All
  <2>2. config \in Seq(All) /\ Len(config) = n
    BY <1>2, <2>1, SeqDef, LenProperties
  <2> QED
    BY <2>2 DEF All
<1> QED
  BY <1>1, <1>2, <1>4 DEF Name

Top == Len(config) + 1

\* Where the list has the step of an id.
Index(i) == IF i = 0 THEN Top ELSE IF i = Top THEN Top + 1 ELSE i

StepName(i) == w[Index(i)].Name

\* The list: the extensions in their order, then "undeployed" and "deployed".
LEMMA ListShape ==
  ASSUME config \in Configs
  PROVE  /\ Top \in Nat /\ Top > 1
         /\ Len(w) = Top + 1 /\ DOMAIN w = 1..(Top + 1)
         /\ \A k \in 1..Len(config) : w[k].ID = k /\ w[k].Name = config[k]
         /\ w[Top].ID = 0 /\ w[Top].Name = UndeployedName
         /\ w[Top + 1].ID = Top /\ w[Top + 1].Name = DeployedName
<1> DEFINE n == Len(config)
           steps == [k \in 1..n |->
                      [ID |-> k, Name |-> config[k],
                       Transition |-> IF config[k].prefix = "provider" THEN "provider"
                                      ELSE "provisioner"]]
           low == [ID |-> 0, Name |-> UndeployedName, Transition |-> "close"]
           high == [ID |-> n + 1, Name |-> DeployedName, Transition |-> "close"]
           All == {steps[k] : k \in 1..n} \cup {low, high}
<1>1. n \in Nat \ {0}
  BY ConfigShape
<1>2. w = steps \o <<low, high>>
  BY DEF w, initWorkflow
<1>3. steps \in [1..n -> All]
  OBVIOUS
<1>4. steps \in Seq(All) /\ Len(steps) = n
  <2> HIDE DEF steps, All
  <2> QED
    BY <1>1, <1>3, SeqDef, LenProperties
<1>5. <<low, high>> \in Seq(All) /\ Len(<<low, high>>) = 2
  OBVIOUS
<1>6. steps \o <<low, high>> \in Seq(All) /\ Len(steps \o <<low, high>>) = n + 2
      /\ \A i \in 1..(n + 2) :
           (steps \o <<low, high>>)[i] = IF i <= n THEN steps[i] ELSE <<low, high>>[i - n]
  <2> HIDE DEF steps, low, high, All
  <2> QED
    BY <1>1, <1>4, <1>5, ConcatProperties
<1>7. /\ Len(w) = n + 2 /\ DOMAIN w = 1..(n + 2)
      /\ \A k \in 1..n : w[k] = steps[k]
      /\ w[n + 1] = low /\ w[n + 2] = high
  <2>1. w \in Seq(All) /\ Len(w) = n + 2
        /\ \A i \in 1..(n + 2) : w[i] = IF i <= n THEN steps[i] ELSE <<low, high>>[i - n]
    BY <1>2, <1>6
  <2>2. n + 1 \in 1..(n + 2) /\ n + 2 \in 1..(n + 2) /\ ~(n + 1 <= n) /\ ~(n + 2 <= n)
        /\ (n + 1) - n = 1 /\ (n + 2) - n = 2 /\ \A k \in 1..n : k \in 1..(n + 2) /\ k <= n
    BY <1>1
  <2>3. DOMAIN w = 1..(n + 2)
    BY <2>1, LenProperties
  <2> HIDE DEF steps, low, high, All, n
  <2> QED
    BY <2>1, <2>2, <2>3
<1>8. Top = n + 1 /\ Top + 1 = n + 2 /\ Top \in Nat /\ Top > 1
  BY <1>1 DEF Top
<1>9. \A k \in 1..n : steps[k].ID = k /\ steps[k].Name = config[k]
  OBVIOUS
<1>10. low.ID = 0 /\ low.Name = UndeployedName /\ high.ID = n + 1 /\ high.Name = DeployedName
  OBVIOUS
<1> HIDE DEF steps, low, high, All
<1> QED
  BY <1>7, <1>8, <1>9, <1>10

\* Every step has an id and a name of its own, and its id says where it is.
LEMMA ListIds ==
  ASSUME config \in Configs
  PROVE  /\ \A i \in 0..Top : Index(i) \in DOMAIN w /\ w[Index(i)].ID = i
         /\ \A k \in DOMAIN w : w[k].ID \in 0..Top /\ Index(w[k].ID) = k
         /\ \A j, k \in DOMAIN w : w[j].Name = w[k].Name => j = k
         /\ \A k \in DOMAIN w : IsProvider(w[k].Name) <=> w[k].ID \in ProviderIds
         /\ ProviderIds \subseteq 1..Len(config)
<1>1. /\ Len(config) \in Nat /\ Top = Len(config) + 1
      /\ DOMAIN w = 1..(Top + 1)
      /\ \A k \in 1..Len(config) : w[k].ID = k /\ w[k].Name = config[k]
      /\ w[Top].ID = 0 /\ w[Top].Name = UndeployedName
      /\ w[Top + 1].ID = Top /\ w[Top + 1].Name = DeployedName
  BY ConfigShape, ListShape DEF Top
<1>2. /\ \A k \in 1..Len(config) : config[k].id = k /\ config[k].prefix \in {"provider", "ipam"}
      /\ DOMAIN config = 1..Len(config)
  BY ConfigShape, LenProperties
<1>3. \A k \in DOMAIN w : k \in 1..Len(config) \/ k = Top \/ k = Top + 1
  BY <1>1
<1>4. UndeployedName.prefix = "undeployed" /\ DeployedName.prefix = "deployed"
  BY DEF UndeployedName, DeployedName, Name
<1>5. \A i \in 0..Top : Index(i) \in DOMAIN w /\ w[Index(i)].ID = i
  <2> TAKE i \in 0..Top
  <2>1. CASE i = 0
    BY <1>1, <2>1 DEF Index
  <2>2. CASE i = Top
    BY <1>1, <2>2 DEF Index
  <2>3. CASE i # 0 /\ i # Top
    <3>1. i \in 1..Len(config) /\ Index(i) = i
      BY <1>1, <2>3 DEF Index
    <3> QED
      BY <1>1, <3>1
  <2> QED
    BY <2>1, <2>2, <2>3
<1>6. \A k \in DOMAIN w : w[k].ID \in 0..Top /\ Index(w[k].ID) = k
  BY <1>1, <1>3 DEF Index
<1>7. \A j, k \in DOMAIN w : w[j].Name = w[k].Name => j = k
  BY <1>1, <1>2, <1>3, <1>4
<1>8. ProviderIds \subseteq 1..Len(config)
  BY <1>2 DEF ProviderIds
<1>9. \A k \in DOMAIN w : IsProvider(w[k].Name) <=> w[k].ID \in ProviderIds
  <2> TAKE k \in DOMAIN w
  <2>1. CASE k \in 1..Len(config)
    BY <1>1, <1>2, <2>1 DEF IsProvider, ProviderIds
  <2>2. CASE k = Top \/ k = Top + 1
    BY <1>1, <1>4, <1>8, <2>2 DEF IsProvider
  <2> QED
    BY <1>3, <2>1, <2>2
<1> QED
  BY <1>5, <1>6, <1>7, <1>8, <1>9

\* A name or an id is found where it is, the loops having one match at most.
LEMMA OnlyMatch ==
  ASSUME NEW n \in Nat, NEW k \in 1..n, NEW I, I = {k}
  PROVE  I # {} /\ Max(I) = k /\ Min(I) = k
<1>1. \A x \in I : (\A y \in I : x >= y) <=> x = k
  OBVIOUS
<1>2. \A x \in I : (\A y \in I : x <= y) <=> x = k
  OBVIOUS
<1> QED
  BY <1>1, <1>2 DEF Max, Min

\* The loop over names finds a name where it is, and 0 for one not listed.
LEMMA FoundByName ==
  ASSUME config \in Configs
  PROVE  /\ \A k \in DOMAIN w : ByName(w, w[k].Name) = k
         /\ \A i \in 0..Top : ByName(w, StepName(i)) = Index(i)
         /\ \A name : ByName(w, name) = 0 <=> name \notin Names(w)
<1>1. Len(w) \in Nat /\ DOMAIN w = 1..Len(w)
  BY ListShape
<1>2. \A j, k \in DOMAIN w : w[j].Name = w[k].Name => j = k
  BY ListIds
<1>3. ASSUME NEW k \in DOMAIN w PROVE ByName(w, w[k].Name) = k
  <2>1. {i \in 1..Len(w) : w[i].Name = w[k].Name} = {k}
    BY <1>1, <1>2
  <2> QED
    BY <1>1, <2>1, OnlyMatch DEF ByName, SelectLastInSeq
<1>4. ASSUME NEW name, name \notin Names(w) PROVE ByName(w, name) = 0
  <2>1. {i \in 1..Len(w) : w[i].Name = name} = {}
    BY <1>1, <1>4 DEF Names
  <2> QED
    BY <2>1 DEF ByName, SelectLastInSeq
<1>5. \A k \in DOMAIN w : k # 0
  BY <1>1
<1>6. \A i \in 0..Top : ByName(w, StepName(i)) = Index(i)
  BY <1>3, ListIds DEF StepName
<1>7. \A name : ByName(w, name) = 0 <=> name \notin Names(w)
  BY <1>3, <1>4, <1>5 DEF Names
<1> QED
  BY <1>3, <1>6, <1>7

\* The loop over ids, which a missing id takes to 0.
LEMMA FoundByID ==
  ASSUME config \in Configs, NEW i \in Int
  PROVE  ByID(w, i) = IF i \in 0..Top THEN Index(i) ELSE 0
<1>1. Len(w) \in Nat /\ DOMAIN w = 1..Len(w)
  BY ListShape
<1>2. CASE i \in 0..Top
  <2>1. {k \in 1..Len(w) : w[k].ID = i} = {Index(i)}
    BY <1>1, <1>2, ListIds
  <2>2. Index(i) \in 1..Len(w)
    BY <1>1, <1>2, ListIds
  <2> QED
    BY <1>1, <1>2, <2>1, <2>2, OnlyMatch DEF ByID, SelectLastInSeq
<1>3. CASE i \notin 0..Top
  <2>1. {k \in 1..Len(w) : w[k].ID = i} = {}
    BY <1>1, <1>3, ListIds
  <2> QED
    BY <1>3, <2>1 DEF ByID, SelectLastInSeq
<1> QED
  BY <1>2, <1>3

\* The names of the list are those of the ids.
LEMMA NameOfId ==
  ASSUME config \in Configs
  PROVE  /\ \A i \in 0..Top : StepName(i) \in Names(w) /\ Ids(StepName(i)) = i
         /\ \A name \in Names(w) : Ids(name) \in 0..Top /\ name = StepName(Ids(name))
         /\ \A k \in DOMAIN w : w[k].ID \in 0..Top /\ w[k].Name = StepName(w[k].ID)
         /\ \A i \in 0..Top : IsProvider(StepName(i)) <=> i \in ProviderIds
<1>1. \A i \in 0..Top : StepName(i) \in Names(w) /\ Ids(StepName(i)) = i
  BY FoundByName, ListIds DEF StepName, Names, Ids
<1>2. \A k \in DOMAIN w : w[k].ID \in 0..Top /\ w[k].Name = StepName(w[k].ID)
  BY ListIds DEF StepName
<1>3. \A name \in Names(w) : Ids(name) \in 0..Top /\ name = StepName(Ids(name))
  BY <1>2, FoundByName DEF Names, Ids
<1>4. \A i \in 0..Top : IsProvider(StepName(i)) <=> i \in ProviderIds
  BY ListIds DEF StepName
<1> QED
  BY <1>1, <1>2, <1>3, <1>4

-----------------------------------------------------------------------------
(* One call, and the calls it makes. *)

Beside(i, rev) == IF rev THEN i - 1 ELSE i + 1

\* What WorkflowSteps has for the step after i.
Answer(i, rev) ==
  IF S!HasNextStep(i, rev) THEN Found(StepName(S!getNextStep(i, rev))) ELSE NotFound

\* What one call of getNextStep gives at step i, from what its own call would give.
LEMMA CallAt ==
  ASSUME config \in Configs, NEW i \in 0..Top, NEW rev \in BOOLEAN, NEW again
  PROVE  NextCall(w, rev, again, StepName(i)) =
           IF Beside(i, rev) \notin 0..Top THEN NotFound
           ELSE IF Beside(i, rev) \in ProviderIds THEN Found(again[StepName(Beside(i, rev))].name)
           ELSE Found(StepName(Beside(i, rev)))
<1> DEFINE j == Beside(i, rev)
           next == ByID(w, IF rev THEN w[ByName(w, StepName(i))].ID - 1
                           ELSE w[ByName(w, StepName(i))].ID + 1)
<1>1. w[ByName(w, StepName(i))].ID = i
  BY FoundByName, ListIds
<1>2. j \in Int /\ i \in Int
  BY DEF Beside
<1>3. next = IF j \in 0..Top THEN Index(j) ELSE 0
  BY <1>1, <1>2, FoundByID DEF Beside
<1>4. NextCall(w, rev, again, StepName(i)) =
        IF next = 0 THEN NotFound
        ELSE IF IsProvider(w[next].Name) THEN Found(again[w[next].Name].name)
        ELSE Found(w[next].Name)
  BY DEF NextCall
<1>5. j \in 0..Top => Index(j) # 0 /\ w[Index(j)].Name = StepName(j)
  BY ListIds, ListShape DEF StepName
<1>6. j \in 0..Top => (IsProvider(StepName(j)) <=> j \in ProviderIds)
  BY NameOfId
<1> HIDE DEF j, next
<1>7. NextCall(w, rev, again, StepName(i)) =
        IF j \notin 0..Top THEN NotFound
        ELSE IF j \in ProviderIds THEN Found(again[StepName(j)].name) ELSE Found(StepName(j))
  BY <1>3, <1>4, <1>5, <1>6
<1> QED
  BY <1>7 DEF j

\* The greatest and the least member of a set, once one knows it.
LEMMA GreatestIs ==
  ASSUME NEW I, NEW j \in I, \A m \in I : m \in Int /\ j >= m
  PROVE  S!Max(I) = j
<1>1. \A x \in I : (\A y \in I : x >= y) <=> x = j
  <2> TAKE x \in I
  <2>1. x \in Int /\ j \in Int /\ j >= x
    OBVIOUS
  <2>2. (\A y \in I : x >= y) => x = j
    <3>1. SUFFICES ASSUME \A y \in I : x >= y PROVE x = j
      OBVIOUS
    <3>2. x >= j
      BY <3>1
    <3> QED
      BY <2>1, <3>2
  <2> QED
    BY <2>2
<1> QED
  BY <1>1 DEF S!Max

LEMMA LeastIs ==
  ASSUME NEW I, NEW j \in I, \A m \in I : m \in Int /\ j <= m
  PROVE  S!Min(I) = j
<1>1. \A x \in I : (\A y \in I : x <= y) <=> x = j
  <2> TAKE x \in I
  <2>1. x \in Int /\ j \in Int /\ j <= x
    OBVIOUS
  <2>2. (\A y \in I : x <= y) => x = j
    <3>1. SUFFICES ASSUME \A y \in I : x <= y PROVE x = j
      OBVIOUS
    <3>2. x <= j
      BY <3>1
    <3> QED
      BY <2>1, <3>2
  <2> QED
    BY <2>2
<1> QED
  BY <1>1 DEF S!Min

\* WorkflowSteps looks at the steps ahead all at once, the code at one after the other.
LEMMA AnswerBeside ==
  ASSUME config \in Configs, NEW i \in 0..Top, NEW rev \in BOOLEAN
  PROVE  Answer(i, rev) =
           IF Beside(i, rev) \notin 0..Top THEN NotFound
           ELSE IF Beside(i, rev) \in ProviderIds THEN Found(Answer(Beside(i, rev), rev).name)
           ELSE Found(StepName(Beside(i, rev)))
<1> DEFINE j == Beside(i, rev)
           A(k) == S!StepsAhead(k, rev)
<1>1. Top \in Nat /\ Top > 1 /\ Top = Len(config) + 1 /\ Len(config) \in Nat
  BY ListShape, ConfigShape DEF Top
<1>2. ASSUME NEW k PROVE A(k) = {m \in (0..Top) \ ProviderIds : IF rev THEN m < k ELSE m > k}
  BY <1>1 DEF S!StepsAhead, S!StepIds
<1>3. i \in Int /\ j \in Int
  BY DEF Beside
<1>4. CASE j \notin 0..Top
  <2>1. A(i) = {}
    BY <1>1, <1>2, <1>3, <1>4 DEF Beside
  <2> QED
    BY <1>4, <2>1 DEF Answer, S!HasNextStep
<1>5. CASE j \in ProviderIds
  <2>1. j \in 0..Top
    BY <1>1, <1>5, ListIds
  <2>2. ASSUME NEW m PROVE m \in A(i) <=> m \in A(j)
    <3>1. m \in A(i) <=> m \in (0..Top) \ ProviderIds /\ IF rev THEN m < i ELSE m > i
      BY <1>2
    <3>2. m \in A(j) <=> m \in (0..Top) \ ProviderIds /\ IF rev THEN m < j ELSE m > j
      BY <1>2
    <3>3. m \in (0..Top) \ ProviderIds => m \in Int /\ m # j
      BY <1>1, <1>5
    <3>4. j = IF rev THEN i - 1 ELSE i + 1
      BY DEF Beside
    <3>5. m \in (0..Top) \ ProviderIds =>
            (IF rev THEN m < i ELSE m > i) = (IF rev THEN m < j ELSE m > j)
      <4> HIDE DEF j
      <4>1. CASE rev
        BY <1>3, <3>3, <3>4, <4>1
      <4>2. CASE ~rev
        BY <1>3, <3>3, <3>4, <4>2
      <4> QED
        BY <4>1, <4>2
    <3> QED
      BY <3>1, <3>2, <3>5
  <2>3. A(i) \subseteq A(j) /\ A(j) \subseteq A(i)
    <3> HIDE DEF A, j
    <3> QED
      BY <2>2
  <2>4. A(i) = A(j)
    <3> HIDE DEF A, j
    <3> QED
      BY <2>3
  <2>5. (IF rev THEN 0 ELSE Top) \in A(j)
    <3>1. ProviderIds \subseteq 1..Len(config)
      BY ListIds
    <3>2. j \in 1..Len(config)
      BY <1>5, <3>1
    <3>3. 0 \notin ProviderIds /\ Top \notin ProviderIds
      BY <1>1, <3>1
    <3> HIDE DEF j
    <3> QED
      BY <1>1, <1>2, <3>2, <3>3
  <2>6. A(j) # {}
    <3> HIDE DEF A, j
    <3> QED
      BY <2>5
  <2>7. Answer(j, rev) = Found(StepName(S!getNextStep(j, rev)))
    BY <2>6 DEF Answer, S!HasNextStep
  <2>8. Answer(i, rev) = Found(StepName(S!getNextStep(j, rev)))
    BY <2>4, <2>6 DEF Answer, S!HasNextStep, S!getNextStep
  <2>9. Answer(i, rev) = Found(Answer(j, rev).name)
    BY <2>7, <2>8 DEF Found
  <2> QED
    BY <1>5, <2>1, <2>9
<1>6. CASE j \in (0..Top) \ ProviderIds
  <2>1. j \in A(i) /\ \A m \in A(i) : m \in Int /\ IF rev THEN j >= m ELSE j <= m
    BY <1>1, <1>2, <1>3, <1>6 DEF Beside
  <2>2. S!getNextStep(i, rev) = j
    <3>1. rev => S!Max(A(i)) = j
      <4> HIDE DEF A, j
      <4> QED
        BY <1>3, <2>1, GreatestIs
    <3>2. ~rev => S!Min(A(i)) = j
      <4> HIDE DEF A, j
      <4> QED
        BY <1>3, <2>1, LeastIs
    <3> QED
      BY <3>1, <3>2 DEF S!getNextStep
  <2>3. S!HasNextStep(i, rev)
    BY <2>1 DEF S!HasNextStep
  <2> QED
    BY <1>6, <2>2, <2>3 DEF Answer
<1> QED
  BY <1>4, <1>5, <1>6

\* The function getNextStep computes, for one direction: the equation of its calls
\* has the answers of WorkflowSteps for a solution, and no other, as each call goes
\* on from a step nearer the end of the list.
LEMMA CallIs ==
  ASSUME config \in Configs, NEW rev \in BOOLEAN, NEW c,
         c = CHOOSE f : f = [n \in Names(w) |-> NextCall(w, rev, f, n)]
  PROVE  \A i \in 0..Top : c[StepName(i)] = Answer(i, rev)
<1> DEFINE g == [n \in Names(w) |-> Answer(Ids(n), rev)]
<1>1. \A i \in 0..Top : StepName(i) \in Names(w) /\ Ids(StepName(i)) = i
  BY NameOfId
<1>2. \A i \in 0..Top : g[StepName(i)] = Answer(i, rev)
  BY <1>1
<1>3. ProviderIds \subseteq 0..Top
  BY ListIds, ListShape DEF Top
<1>4. ASSUME NEW n \in Names(w) PROVE g[n] = NextCall(w, rev, g, n)
  <2>1. Ids(n) \in 0..Top /\ n = StepName(Ids(n))
    BY NameOfId
  <2>2. NextCall(w, rev, g, StepName(Ids(n))) =
          IF Beside(Ids(n), rev) \notin 0..Top THEN NotFound
          ELSE IF Beside(Ids(n), rev) \in ProviderIds
               THEN Found(g[StepName(Beside(Ids(n), rev))].name)
          ELSE Found(StepName(Beside(Ids(n), rev)))
    <3> HIDE DEF g
    <3> QED
      BY <2>1, CallAt
  <2>3. Answer(Ids(n), rev) =
          IF Beside(Ids(n), rev) \notin 0..Top THEN NotFound
          ELSE IF Beside(Ids(n), rev) \in ProviderIds
               THEN Found(Answer(Beside(Ids(n), rev), rev).name)
          ELSE Found(StepName(Beside(Ids(n), rev)))
    BY <2>1, AnswerBeside
  <2>4. NextCall(w, rev, g, StepName(Ids(n))) = Answer(Ids(n), rev)
    <3> HIDE DEF g
    <3> QED
      BY <1>2, <1>3, <2>2, <2>3
  <2>5. g[n] = Answer(Ids(n), rev)
    OBVIOUS
  <2> HIDE DEF g
  <2> QED
    BY <2>1, <2>4, <2>5
<1>5. g = [n \in Names(w) |-> NextCall(w, rev, g, n)]
  <2>1. g = [n \in Names(w) |-> g[n]]
    OBVIOUS
  <2> HIDE DEF g
  <2> QED
    BY <1>4, <2>1
<1>6. c = [n \in Names(w) |-> NextCall(w, rev, c, n)]
  <2> HIDE DEF g
  <2> QED
    BY <1>5
<1>7. ASSUME NEW i \in 0..Top
      PROVE  c[StepName(i)] = NextCall(w, rev, c, StepName(i))
  BY <1>1, <1>6
<1> DEFINE Bad == {i \in 0..Top : c[StepName(i)] # Answer(i, rev)}
           Distance(i) == IF rev THEN i ELSE Top - i
           T == {d \in Nat : \E i \in Bad : Distance(i) = d}
<1>8. Top \in Nat
  BY ListShape
<1>9. SUFFICES ASSUME Bad # {} PROVE FALSE
  OBVIOUS
<1>10. T \subseteq Nat /\ T # {}
  <2>1. PICK i \in Bad : TRUE
    BY <1>9
  <2>2. Distance(i) \in Nat
    BY <1>8
  <2> QED
    BY <2>1, <2>2
<1>11. PICK d \in T : \A e \in T : ~(<<e, d>> \in OpToRel(<, Nat))
  <2> HIDE DEF T
  <2> QED
    BY <1>10, NatLessThanWellFounded, WFMin
<1>12. \A e \in T : ~(e < d)
  BY <1>11, Zenon DEF OpToRel
<1>13. PICK i \in Bad : Distance(i) = d
  OBVIOUS
<1> DEFINE j == Beside(i, rev)
<1>14. i \in 0..Top /\ c[StepName(i)] # Answer(i, rev)
  OBVIOUS
<1>15. j \in 0..Top => c[StepName(j)] = Answer(j, rev)
  <2>1. SUFFICES ASSUME j \in 0..Top, j \in Bad PROVE FALSE
    OBVIOUS
  <2>2. Distance(j) \in Nat /\ Distance(j) < d
    <3>1. i \in Nat /\ j \in Nat /\ j <= Top /\ j = IF rev THEN i - 1 ELSE i + 1
      BY <1>8, <1>14, <2>1 DEF Beside
    <3>2. d = IF rev THEN i ELSE Top - i
      BY <1>13
    <3> HIDE DEF j, Bad
    <3> QED
      BY <1>8, <3>1, <3>2
  <2>3. Distance(j) \in T
    BY <2>1, <2>2
  <2> HIDE DEF T, Distance
  <2> QED
    BY <1>12, <2>2, <2>3
<1>16. NextCall(w, rev, c, StepName(i)) =
         IF j \notin 0..Top THEN NotFound
         ELSE IF j \in ProviderIds THEN Found(c[StepName(j)].name) ELSE Found(StepName(j))
  BY <1>14, CallAt
<1>17. Answer(i, rev) =
         IF j \notin 0..Top THEN NotFound
         ELSE IF j \in ProviderIds THEN Found(Answer(j, rev).name) ELSE Found(StepName(j))
  BY <1>14, AnswerBeside
<1> HIDE DEF j, Bad, T
<1> QED
  BY <1>3, <1>7, <1>14, <1>15, <1>16, <1>17

\* getNextStep answers what WorkflowSteps defines, for a name in the list.
LEMMA NextStepIs ==
  ASSUME config \in Configs, NEW rev \in BOOLEAN, NEW i \in 0..Top
  PROVE  getNextStepOf(w, StepName(i), rev) = Answer(i, rev)
<1>1. ByName(w, StepName(i)) # 0
  BY FoundByName, ListIds, ListShape
<1> DEFINE c == CHOOSE f : f = [n \in Names(w) |-> NextCall(w, rev, f, n)]
<1>2. c[StepName(i)] = Answer(i, rev)
  <2> HIDE DEF c
  <2>1. c = CHOOSE f : f = [n \in Names(w) |-> NextCall(w, rev, f, n)]
    BY DEF c
  <2> QED
    BY <2>1, CallIs
<1>3. getNextStepOf(w, StepName(i), rev) = c[StepName(i)]
  BY <1>1 DEF getNextStepOf
<1> QED
  BY <1>2, <1>3

\* The step it answers is the nearest of those ahead.
LEMMA NearestAhead ==
  ASSUME config \in Configs, NEW rev \in BOOLEAN, NEW i \in 0..Top, S!HasNextStep(i, rev)
  PROVE  LET n == S!getNextStep(i, rev)
         IN  /\ n \in (0..Top) \ ProviderIds
             /\ IF rev THEN n < i ELSE i < n
             /\ \A m \in (0..Top) \ ProviderIds :
                  IF rev THEN m < i => m <= n ELSE i < m => n <= m
<1> DEFINE A == S!StepsAhead(i, rev)
           Distance(m) == IF rev THEN Top - m ELSE m
           T == {d \in Nat : \E m \in A : Distance(m) = d}
<1>1. Top \in Nat /\ Top = Len(config) + 1 /\ Len(config) \in Nat
  BY ListShape, ConfigShape DEF Top
<1>2. ASSUME NEW m
      PROVE m \in A <=> m \in (0..Top) \ ProviderIds /\ IF rev THEN m < i ELSE m > i
  BY <1>1 DEF S!StepsAhead, S!StepIds
<1>3. A # {}
  BY DEF S!HasNextStep
<1>4. \A m \in A : m \in 0..Top
  <2> HIDE DEF A
  <2> QED
    BY <1>2
<1>5. T \subseteq Nat /\ T # {}
  <2> HIDE DEF A
  <2>1. PICK m \in A : TRUE
    BY <1>3
  <2>2. Distance(m) \in Nat
    BY <1>1, <1>4
  <2> QED
    BY <2>1, <2>2
<1>6. PICK d \in T : \A e \in T : ~(<<e, d>> \in OpToRel(<, Nat))
  <2> HIDE DEF T
  <2> QED
    BY <1>5, NatLessThanWellFounded, WFMin
<1>7. \A e \in T : ~(e < d)
  BY <1>6, Zenon DEF OpToRel
<1>8. PICK n \in A : Distance(n) = d
  OBVIOUS
<1>9. \A m \in A : ~(Distance(m) < Distance(n))
  <2> TAKE m \in A
  <2>1. Distance(m) \in Nat
    <3> HIDE DEF A
    <3> QED
      BY <1>1, <1>4
  <2>2. Distance(m) \in T
    BY <2>1
  <2> HIDE DEF T, Distance
  <2> QED
    BY <1>7, <1>8, <2>2
<1>10. n \in Int /\ \A m \in A : m \in Int /\ IF rev THEN n >= m ELSE n <= m
  <2> HIDE DEF A
  <2> QED
    BY <1>1, <1>4, <1>8, <1>9
<1>11. S!getNextStep(i, rev) = n
  <2>1. rev => S!Max(A) = n
    <3> HIDE DEF A
    <3> QED
      BY <1>8, <1>10, GreatestIs
  <2>2. ~rev => S!Min(A) = n
    <3> HIDE DEF A
    <3> QED
      BY <1>8, <1>10, LeastIs
  <2> QED
    BY <2>1, <2>2 DEF S!getNextStep
<1> HIDE DEF A
<1>12. n \in (0..Top) \ ProviderIds /\ IF rev THEN n < i ELSE i < n
  BY <1>1, <1>2, <1>8
<1>13. \A m \in (0..Top) \ ProviderIds : IF rev THEN m < i => m <= n ELSE i < m => n <= m
  <2> TAKE m \in (0..Top) \ ProviderIds
  <2>1. (IF rev THEN m < i ELSE m > i) => m \in A
    BY <1>2
  <2>2. m \in A => IF rev THEN m <= n ELSE n <= m
    BY <1>10
  <2>3. m \in Int /\ i \in Int
    BY <1>1
  <2>4. CASE rev
    BY <2>1, <2>2, <2>4
  <2>5. CASE ~rev
    BY <2>1, <2>2, <2>3, <2>5
  <2> QED
    BY <2>4, <2>5
<1> QED
  BY <1>11, <1>12, <1>13

-----------------------------------------------------------------------------
(* The loops agree with WorkflowSteps. *)

\* The list is that of the configuration.
LEMMA SameList ==
  ASSUME config' = config
  PROVE  /\ w' = w /\ Names(w)' = Names(w) /\ ProviderIds' = ProviderIds
<1>1. w' = w
  BY DEF w, initWorkflow
<1> QED
  BY <1>1 DEF Names, ProviderIds

\* The configuration is read once.
LEMMA ConfigKept == Spec => [](config \in Configs)
<1>1. Init => config \in Configs
  BY DEF Init
<1>2. config \in Configs /\ [Next]_vars => (config \in Configs)'
  BY DEF Next, Step, Turn, vars
<1> QED
  BY <1>1, <1>2, PTL DEF Spec

\* For every configuration, and from every step in both directions, the list and
\* its loops give the next step, the error and the last step that WorkflowSteps
\* defines (getNextStep and isLastStep of src/core/workflow.go).
THEOREM ListAgreesWithSteps == Spec => []AgreesWithSteps
<1>1. ASSUME config \in Configs PROVE AgreesWithSteps
  <2> SUFFICES ASSUME NEW k \in DOMAIN w, NEW rev \in BOOLEAN
               PROVE  LET next == getNextStepOf(w, w[k].Name, rev)
                      IN  /\ ~next.err = S!HasNextStep(w[k].ID, rev)
                          /\ ~next.err => Ids(next.name) = S!getNextStep(w[k].ID, rev)
                          /\ isLastStepOf(w, w[k].Name, rev) = S!isLastStep(w[k].ID, rev)
    BY DEF AgreesWithSteps
  <2> DEFINE i == w[k].ID
             next == getNextStepOf(w, w[k].Name, rev)
  <2>1. i \in 0..Top /\ w[k].Name = StepName(i)
    BY <1>1, NameOfId
  <2>2. next = Answer(i, rev)
    BY <1>1, <2>1, NextStepIs
  <2>3. S!HasNextStep(i, rev) => S!getNextStep(i, rev) \in 0..Top
    BY <1>1, <2>1, NearestAhead
  <2>4. \A j \in 0..Top : Ids(StepName(j)) = j
    BY <1>1, NameOfId
  <2>5. S!HasNextStep(i, rev) =>
          next.err = FALSE /\ Ids(next.name) = S!getNextStep(i, rev)
    BY <2>2, <2>3, <2>4 DEF Answer, Found
  <2>6. ~S!HasNextStep(i, rev) => next.err = TRUE
    <3>1. NotFound.err = TRUE
      BY DEF NotFound, Name
    <3> QED
      BY <2>2, <3>1 DEF Answer
  <2>7. isLastStepOf(w, w[k].Name, rev) = S!isLastStep(i, rev)
    <3> DEFINE e == IF rev THEN 0 ELSE Top
    <3>1. Top \in Nat /\ Len(w) - 1 = Top /\ Top = Len(config) + 1 /\ e \in 0..Top
      BY <1>1, ListShape DEF Top
    <3>2. w[ByID(w, e)].Name = StepName(e)
      BY <1>1, <3>1, FoundByID DEF StepName
    <3>3. isLastStepOf(w, w[k].Name, rev) = (StepName(i) = StepName(e))
      BY <2>1, <3>1, <3>2 DEF isLastStepOf
    <3>4. (StepName(i) = StepName(e)) = (i = e)
      <4> HIDE DEF i, e
      <4> QED
        BY <2>1, <2>4, <3>1
    <3>5. S!isLastStep(i, rev) = (i = e)
      BY <3>1 DEF S!isLastStep, S!Undeployed, S!Deployed
    <3> QED
      BY <3>3, <3>4, <3>5
  <2>8. S!HasNextStep(i, rev) \in BOOLEAN
    BY DEF S!HasNextStep
  <2> QED
    BY <2>5, <2>6, <2>7, <2>8
<1> QED
  BY <1>1, ConfigKept, PTL

-----------------------------------------------------------------------------
(* A walk along the list. *)

\* With what a walk is: the steps it stopped at are of the list, the last of them is
\* the one it is at.
WalkInv ==
  /\ config \in Configs
  /\ reverse \in BOOLEAN
  /\ visited \in Seq(Names(w)) /\ visited # <<>>
  /\ visited[Len(visited)] = at
  /\ WholeWalk

\* The step it is at is one of the list, and none of a provider's.
LEMMA Standing ==
  ASSUME WalkInv
  PROVE  /\ at \in Names(w) /\ Ids(at) \in (0..Top) \ ProviderIds
         /\ at = StepName(Ids(at))
         /\ Len(visited) \in Nat \ {0} /\ DOMAIN visited = 1..Len(visited)
         /\ \A i \in DOMAIN visited : visited[i] \in Names(w) /\ Ids(visited[i]) \in 0..Top
<1>1. visited \in Seq(Names(w)) /\ visited # <<>> /\ visited[Len(visited)] = at /\ config \in Configs
  BY DEF WalkInv
<1>2. Len(visited) \in Nat \ {0} /\ DOMAIN visited = 1..Len(visited)
      /\ Len(visited) \in DOMAIN visited /\ \A i \in DOMAIN visited : visited[i] \in Names(w)
  BY <1>1, EmptySeq, LenProperties
<1>3. \A name \in Names(w) : Ids(name) \in 0..Top /\ name = StepName(Ids(name))
  BY <1>1, NameOfId
<1>4. Ids(at) \notin ProviderIds
  <2> DEFINE id == [i \in DOMAIN visited |-> Ids(visited[i])]
  <2>1. id[Len(visited)] = Ids(at)
    BY <1>1, <1>2
  <2>2. {id[i] : i \in DOMAIN visited} \cap ProviderIds = {}
    BY DEF WalkInv, WholeWalk
  <2> QED
    BY <1>2, <2>1, <2>2
<1> QED
  BY <1>1, <1>2, <1>3, <1>4

\* A walk told by the ids it stopped at.
StopIds == [i \in DOMAIN visited |-> Ids(visited[i])]

IsWalk(id, here, rev, providers) ==
  /\ {id[i] : i \in DOMAIN id} = (IF rev THEN here..id[1] ELSE id[1]..here) \ providers
  /\ \A i, j \in DOMAIN id : i < j => IF rev THEN id[j] < id[i] ELSE id[i] < id[j]

LEMMA WalkByIds ==
  /\ WholeWalk <=> IsWalk(StopIds, Ids(at), reverse, ProviderIds)
  /\ WholeWalk' <=> IsWalk(StopIds', Ids(at)', reverse', ProviderIds')
<1>1. WholeWalk <=> IsWalk(StopIds, Ids(at), reverse, ProviderIds)
  BY DEF WholeWalk, IsWalk, StopIds
<1>2. (WholeWalk <=> IsWalk(StopIds, Ids(at), reverse, ProviderIds))'
  BY DEF WholeWalk, IsWalk, StopIds
<1> QED
  BY <1>1, <1>2

\* A service starts at "undeployed", with a walk of that one step.
LEMMA WalkStarts == Init => WalkInv
<1> SUFFICES ASSUME Init PROVE WalkInv
  OBVIOUS
<1>1. config \in Configs /\ at = UndeployedName /\ reverse = FALSE /\ visited = <<at>>
  BY DEF Init
<1>2. StepName(0) = UndeployedName
  BY <1>1, ListShape DEF StepName, Index
<1>3. Top \in Nat /\ ProviderIds \subseteq 1..Len(config) /\ Len(config) \in Nat
  BY <1>1, ListIds, ConfigShape, ListShape
<1>4. at \in Names(w) /\ Ids(at) = 0 /\ 0 \notin ProviderIds
  BY <1>1, <1>2, <1>3, NameOfId
<1>5. visited \in Seq(Names(w)) /\ visited # <<>> /\ Len(visited) = 1 /\ visited[1] = at
      /\ DOMAIN visited = {1}
  BY <1>1, <1>4
<1>6. WholeWalk
  BY <1>1, <1>4, <1>5 DEF WholeWalk
<1> QED
  BY <1>1, <1>5, <1>6 DEF WalkInv

\* A service that is turned round begins a walk where it stands.
LEMMA WalkTurns == ASSUME WalkInv, Turn PROVE WalkInv'
<1>1. config' = config /\ at' = at /\ reverse' = ~reverse /\ visited' = <<at>>
  BY DEF Turn
<1>2. w' = w /\ Names(w)' = Names(w) /\ ProviderIds' = ProviderIds
  BY <1>1, SameList
<1>3. config \in Configs /\ reverse \in BOOLEAN
  BY DEF WalkInv
<1>4. at \in Names(w) /\ Ids(at) \in (0..Top) \ ProviderIds /\ Top \in Nat
  BY <1>3, Standing, ListShape
<1>5. visited' \in Seq(Names(w)) /\ visited' # <<>> /\ Len(visited') = 1 /\ visited'[1] = at
      /\ DOMAIN visited' = {1}
  BY <1>1, <1>4
<1>6. Ids(at)' = Ids(at)
  BY <1>1, <1>2 DEF Ids
<1>7. WholeWalk'
  <2> DEFINE h == Ids(at)
  <2>1. StopIds' = [i \in {1} |-> h]
    BY <1>1, <1>2, <1>5 DEF StopIds, Ids
  <2>2. h \in Int /\ h \notin ProviderIds
    BY <1>4
  <2>3. h..h = {h}
    BY <2>2
  <2>4. Ids(at)' = h
    BY <1>6
  <2> HIDE DEF h
  <2>5. IsWalk([i \in {1} |-> h], h, reverse', ProviderIds)
    BY <2>2, <2>3 DEF IsWalk
  <2> QED
    BY <1>2, <2>1, <2>4, <2>5, WalkByIds
<1> QED
  BY <1>1, <1>2, <1>3, <1>5, <1>7 DEF WalkInv

\* The next step is the one step that is not a provider's between it and where the
\* service is, so the walk is longer by what it now has passed.
LEMMA WalkSteps == ASSUME WalkInv, Step PROVE WalkInv'
<1>1. config \in Configs /\ reverse \in BOOLEAN /\ visited \in Seq(Names(w)) /\ WholeWalk
  BY DEF WalkInv
<1> DEFINE i == Ids(at)
           n == S!getNextStep(i, reverse)
           l == Len(visited)
<1>2. /\ at = StepName(i) /\ i \in (0..Top) \ ProviderIds
      /\ l \in Nat \ {0} /\ DOMAIN visited = 1..l
      /\ \A k \in DOMAIN visited : visited[k] \in Names(w) /\ Ids(visited[k]) \in 0..Top
  BY Standing
<1>3. Top \in Nat
  BY <1>1, ListShape
<1>4. getNextStepOf(w, at, reverse) = Answer(i, reverse)
  BY <1>1, <1>2, NextStepIs
<1>5. /\ ~Answer(i, reverse).err /\ at' = Answer(i, reverse).name
      /\ visited' = Append(visited, at') /\ config' = config /\ reverse' = reverse
  BY <1>4 DEF Step
<1>6. S!HasNextStep(i, reverse) /\ at' = StepName(n)
  BY <1>5 DEF Answer, Found, NotFound
<1>7. /\ n \in (0..Top) \ ProviderIds
      /\ IF reverse THEN n < i ELSE i < n
      /\ \A m \in (0..Top) \ ProviderIds : IF reverse THEN m < i => m <= n ELSE i < m => n <= m
  BY <1>1, <1>2, <1>6, NearestAhead
<1>8. w' = w /\ Names(w)' = Names(w) /\ ProviderIds' = ProviderIds
  BY <1>5, SameList
<1>9. at' \in Names(w) /\ Ids(at)' = n
  <2>1. StepName(n) \in Names(w) /\ Ids(StepName(n)) = n
    BY <1>1, <1>7, NameOfId
  <2>2. Ids(at)' = w[ByName(w, at')].ID
    BY <1>8 DEF Ids
  <2> QED
    BY <1>6, <2>1, <2>2 DEF Ids
<1>10. /\ visited' \in Seq(Names(w)) /\ Len(visited') = l + 1
       /\ \A k \in 1..l : visited'[k] = visited[k]
       /\ visited'[l + 1] = at' /\ DOMAIN visited' = 1..(l + 1)
  <2>1. visited \in Seq(Names(w)) /\ at' \in Names(w) /\ visited' = Append(visited, at')
    BY <1>1, <1>5, <1>9
  <2>2. visited' \in Seq(Names(w)) /\ Len(visited') = l + 1
        /\ \A k \in 1..l : visited'[k] = visited[k] /\ visited'[l + 1] = at'
    BY <2>1, AppendProperties
  <2>3. DOMAIN visited' = 1..(l + 1)
    BY <2>2, LenProperties
  <2>4. 1 \in 1..l
    BY <1>2
  <2> QED
    BY <2>2, <2>3, <2>4
<1>11. StopIds' = [k \in 1..(l + 1) |-> IF k = l + 1 THEN n ELSE StopIds[k]]
  <2>1. StopIds' = [k \in DOMAIN visited' |-> w[ByName(w, visited'[k])].ID]
    BY <1>8 DEF StopIds, Ids
  <2>2. w[ByName(w, at')].ID = n
    BY <1>8, <1>9 DEF Ids
  <2>3. \A k \in 1..l : StopIds[k] = w[ByName(w, visited[k])].ID
    BY <1>2 DEF StopIds, Ids
  <2>4. \A k \in 1..(l + 1) : k # l + 1 => k \in 1..l
    BY <1>2
  <2> HIDE DEF l, n
  <2> QED
    BY <1>10, <2>1, <2>2, <2>3, <2>4
<1>12. IsWalk(StopIds, i, reverse, ProviderIds)
  BY <1>1, WalkByIds
<1>13. DOMAIN StopIds = 1..l /\ \A k \in 1..l : StopIds[k] \in (0..Top) \ ProviderIds
  <2>1. DOMAIN StopIds = 1..l /\ \A k \in 1..l : StopIds[k] \in 0..Top
    BY <1>2 DEF StopIds
  <2>2. {StopIds[k] : k \in DOMAIN StopIds} \cap ProviderIds = {}
    BY <1>12 DEF IsWalk
  <2> QED
    BY <2>1, <2>2
<1>14. \A k \in 1..l : IF reverse THEN i <= StopIds[k] ELSE StopIds[k] <= i
  <2> TAKE k \in 1..l
  <2>1. StopIds[k] \in IF reverse THEN i..StopIds[1] ELSE StopIds[1]..i
    BY <1>12, <1>13 DEF IsWalk
  <2>2. i \in Int /\ StopIds[1] \in Int /\ StopIds[k] \in Int
    BY <1>2, <1>3, <1>13
  <2> HIDE DEF i
  <2> QED
    BY <1>1, <2>1, <2>2
<1>15. IsWalk(StopIds', n, reverse, ProviderIds)
  <2> DEFINE id == StopIds'
             first == StopIds[1]
  <2>1. id[1] = first /\ first \in 0..Top /\ DOMAIN id = 1..(l + 1) /\ id[l + 1] = n
        /\ \A k \in 1..l : id[k] = StopIds[k]
    BY <1>2, <1>11, <1>13
  <2>2. {id[k] : k \in DOMAIN id} = {StopIds[k] : k \in DOMAIN StopIds} \cup {n}
    <3>1. 1..(l + 1) = 1..l \cup {l + 1}
      BY <1>2
    <3> HIDE DEF id, l, n
    <3> QED
      BY <1>13, <2>1, <3>1
  <2>3. ((IF reverse THEN i..first ELSE first..i) \ ProviderIds) \cup {n} =
          (IF reverse THEN n..first ELSE first..n) \ ProviderIds
    <3>1. i \in 0..Top /\ n \in 0..Top /\ first \in 0..Top /\ n \notin ProviderIds
      BY <1>2, <1>7, <2>1
    <3>2. IF reverse THEN i <= first ELSE first <= i
      BY <1>2, <1>14
    <3> HIDE DEF i, n, first, id
    <3>3. CASE reverse
      <4>1. \A m : m \in (i..first \ ProviderIds) \cup {n} <=> m \in n..first \ ProviderIds
        <5> TAKE m
        <5>1. m \in n..first \ ProviderIds => m \in (i..first \ ProviderIds) \cup {n}
          BY <1>3, <1>7, <3>1, <3>3
        <5>2. m \in (i..first \ ProviderIds) \cup {n} => m \in n..first \ ProviderIds
          BY <1>3, <1>7, <3>1, <3>2, <3>3
        <5> QED
          BY <5>1, <5>2
      <4> QED
        BY <3>3, <4>1
    <3>4. CASE ~reverse
      <4>1. \A m : m \in (first..i \ ProviderIds) \cup {n} <=> m \in first..n \ ProviderIds
        <5> TAKE m
        <5>1. m \in first..n \ ProviderIds => m \in (first..i \ ProviderIds) \cup {n}
          BY <1>3, <1>7, <3>1, <3>4
        <5>2. m \in (first..i \ ProviderIds) \cup {n} => m \in first..n \ ProviderIds
          BY <1>3, <1>7, <3>1, <3>2, <3>4
        <5> QED
          BY <5>1, <5>2
      <4> QED
        BY <3>4, <4>1
    <3> QED
      BY <3>3, <3>4
  <2>4. \A j, k \in DOMAIN id : j < k => IF reverse THEN id[k] < id[j] ELSE id[j] < id[k]
    <3> SUFFICES ASSUME NEW j \in DOMAIN id, NEW k \in DOMAIN id, j < k
                 PROVE  IF reverse THEN id[k] < id[j] ELSE id[j] < id[k]
      OBVIOUS
    <3>1. j \in 1..l /\ (k \in 1..l \/ k = l + 1)
      <4> HIDE DEF l, id
      <4> QED
        BY <1>2, <2>1
    <3>2. CASE k \in 1..l
      <4>1. IF reverse THEN StopIds[k] < StopIds[j] ELSE StopIds[j] < StopIds[k]
        BY <1>12, <1>13, <3>1, <3>2 DEF IsWalk
      <4> HIDE DEF id
      <4> QED
        BY <2>1, <3>1, <3>2, <4>1
    <3>3. CASE k = l + 1
      <4>1. id[k] = n /\ id[j] = StopIds[j]
        BY <2>1, <3>1, <3>3
      <4>2. IF reverse THEN i <= StopIds[j] ELSE StopIds[j] <= i
        BY <1>14, <3>1
      <4>3. StopIds[j] \in Int /\ i \in Int /\ n \in Int
        BY <1>2, <1>3, <1>7, <1>13, <3>1
      <4>4. IF reverse THEN n < i ELSE i < n
        BY <1>7
      <4> HIDE DEF id, i, n
      <4> QED
        BY <4>1, <4>2, <4>3, <4>4
    <3> QED
      BY <3>1, <3>2, <3>3
  <2>5. {StopIds[k] : k \in DOMAIN StopIds} =
          (IF reverse THEN i..first ELSE first..i) \ ProviderIds
    BY <1>12 DEF IsWalk
  <2> HIDE DEF id, i, n, first
  <2>6. IsWalk(id, n, reverse, ProviderIds)
    BY <2>1, <2>2, <2>3, <2>4, <2>5 DEF IsWalk
  <2> QED
    BY <2>6 DEF id
<1>16. WholeWalk'
  <2> HIDE DEF n
  <2> QED
    BY <1>5, <1>8, <1>9, <1>15, WalkByIds
<1>17. visited' # <<>>
  BY <1>2, <1>10
<1> QED
  BY <1>1, <1>5, <1>8, <1>10, <1>16, <1>17 DEF WalkInv

\* The invariant of a walk.
LEMMA WalkKept == Spec => []WalkInv
<1>1. Init => WalkInv
  BY WalkStarts
<1>2. WalkInv /\ UNCHANGED vars => WalkInv'
  <2> SUFFICES ASSUME WalkInv, UNCHANGED vars PROVE WalkInv'
    OBVIOUS
  <2>1. config' = config /\ at' = at /\ reverse' = reverse /\ visited' = visited
    BY DEF vars
  <2>2. w' = w /\ Names(w)' = Names(w) /\ ProviderIds' = ProviderIds
    BY <2>1, SameList
  <2>3. StopIds' = StopIds /\ Ids(at)' = Ids(at)
    BY <2>1, <2>2 DEF StopIds, Ids
  <2>4. WholeWalk' <=> WholeWalk
    BY <2>1, <2>2, <2>3, WalkByIds
  <2> QED
    BY <2>1, <2>2, <2>4 DEF WalkInv
<1>3. WalkInv /\ [Next]_vars => WalkInv'
  BY <1>2, WalkSteps, WalkTurns DEF Next
<1> QED
  BY <1>1, <1>3, PTL DEF Spec

\* For every configuration, a walk along the list, whichever way it was last turned and
\* wherever, has stopped at every step between but providers, at each once and in order
\* (setNextStep and getNextStep of src/core/workflow.go).
THEOREM WalksAreWhole == Spec => []WholeWalk
<1>1. WalkInv => WholeWalk
  BY DEF WalkInv
<1> QED
  BY <1>1, WalkKept, PTL
=============================================================================
