--------------------------- MODULE PlanDag_proofs ---------------------------
(***************************************************************************)
(* Proofs about plan_campaign for any keys, projects and plans: topo_sort  *)
(* accepts exactly the dependency graphs, its order puts dependencies      *)
(* first, the expect never fails, no quest is left without its project.    *)
(***************************************************************************)
EXTENDS PlanDag, FiniteSetTheorems, TLAPS

-----------------------------------------------------------------------------
(* Plans and orders.                                                       *)

Injective(s) == \A a, b \in DOMAIN s : s[a] = s[b] => a = b

\* What validate has checked before the sort.
PlanOK ==
  /\ plan # <<>>
  /\ \A m, n \in DOMAIN plan : plan[m].key = plan[n].key => m = n
  /\ \A k \in Keys : Named(Needs(k)) \subseteq Keys

\* A nonempty set of naturals has a least element.
LEMMA Least ==
  ASSUME NEW S \in SUBSET Nat, S # {}
  PROVE  \E n \in S : \A m \in S : n <= m
<1>1. \E x \in S : \A y \in S : ~(<<y, x>> \in OpToRel(<, Nat))
  BY NatLessThanWellFounded, WFMin, Zenon
<1>2. \A x \in S : \A y \in S : y < x => <<y, x>> \in OpToRel(<, Nat)
  BY Zenon DEF OpToRel
<1>3. \E x \in S : \A y \in S : ~(y < x)
  BY <1>1, <1>2, Zenon
<1> QED BY <1>3, SMT

\* The numbers up to n are n.
LEMMA UpTo ==
  ASSUME NEW n \in Nat
  PROVE  IsFiniteSet(1..n) /\ Cardinality(1..n) = n
<1>1. 1 \in Int /\ n \in Int /\ (1 > n => n = 0)
  OBVIOUS
<1> QED BY <1>1, FS_Interval

\* by_key finds a quest of the plan with that key.
LEMMA ByKey ==
  ASSUME plan \in Seq(PlannedQuest), NEW k \in Keys
  PROVE  /\ by_key(k) \in PlannedQuest /\ by_key(k).key = k
         /\ Needs(k) \in Seq(Key) /\ k \in Key
         /\ \E n \in DOMAIN plan : plan[n].key = k /\ by_key(k) = plan[n]
<1>1. \E n \in DOMAIN plan : plan[n].key = k
  BY DEF Keys
<1>2. PICK n \in DOMAIN plan : plan[n].key = k /\ by_key(k) = plan[n]
  BY <1>1 DEF by_key
<1>3. plan[n] \in PlannedQuest
  <2>1. n \in 1..Len(plan)
    BY <1>2
  <2> QED BY <2>1
<1> QED BY <1>2, <1>3 DEF Needs, PlannedQuest

\* The plan's keys are as many as its quests.
LEMMA KeysCounted ==
  ASSUME plan \in Seq(PlannedQuest), PlanOK
  PROVE  IsFiniteSet(Keys) /\ Cardinality(Keys) = Len(plan)
<1> DEFINE f == [n \in 1..Len(plan) |-> plan[n].key]
<1>1. f \in Bijection(1..Len(plan), Keys)
  BY DEF PlanOK, Keys, Bijection, Injection, Surjection, IsInjective
<1>2. IsFiniteSet(1..Len(plan)) /\ Cardinality(1..Len(plan)) = Len(plan)
  <2>1. Len(plan) \in Nat
    OBVIOUS
  <2> QED BY <2>1, UpTo
<1>3. ExistsBijection(1..Len(plan), Keys)
  BY <1>1 DEF ExistsBijection
<1> QED BY <1>2, <1>3, FS_Bijection

\* A sequence of InPlanOrder(K) lists K, each key once.
LEMMA Listing ==
  ASSUME plan \in Seq(PlannedQuest), PlanOK, NEW K \in SUBSET Keys, NEW s \in InPlanOrder(K)
  PROVE  s \in Seq(K) /\ Injective(s) /\ Named(s) = K
<1>1. IsFiniteSet(K) /\ Cardinality(K) \in Nat
  BY KeysCounted, FS_Subset, FS_CardinalityType
<1>2. s \in [1..Cardinality(K) -> K]
  BY DEF InPlanOrder
<1>3. s \in Seq(K)
  BY <1>1, <1>2
<1>4. \A a, b \in DOMAIN s : a < b => s[a] # s[b]
  BY DEF InPlanOrder, PlanOK
<1>5. Injective(s)
  BY <1>1, <1>2, <1>4 DEF Injective
<1>6. s \in Injection(1..Cardinality(K), K)
  BY <1>2, <1>5 DEF Injective, Injection, IsInjective
<1>7. IsFiniteSet(1..Cardinality(K)) /\ Cardinality(1..Cardinality(K)) = Cardinality(K)
  BY <1>1, FS_Interval
<1>8. s \in Surjection(1..Cardinality(K), K)
  BY <1>1, <1>6, <1>7, FS_Injection
<1>9. Named(s) = K
  BY <1>2, <1>8 DEF Named, Surjection
<1> QED BY <1>3, <1>5, <1>9

\* The first of a sequence is named in it.
LEMMA HeadNamed ==
  ASSUME NEW S, NEW s \in Seq(S), s # <<>>
  PROVE  Head(s) \in Named(s)
<1>1. 1 \in DOMAIN s /\ Head(s) = s[1]
  OBVIOUS
<1> QED BY <1>1 DEF Named

\* Appending what is not there yet keeps an order free of repetitions.
LEMMA InjectiveConcat ==
  ASSUME NEW S, NEW s \in Seq(S), NEW t \in Seq(S), Injective(s), Injective(t),
         Named(s) \cap Named(t) = {}
  PROVE  /\ s \o t \in Seq(S) /\ Injective(s \o t)
         /\ Named(s \o t) = Named(s) \cup Named(t)
         /\ Len(s \o t) = Len(s) + Len(t)
         /\ \A n \in 1..Len(s) : (s \o t)[n] = s[n]
         /\ \A n \in Len(s) + 1..Len(s) + Len(t) : (s \o t)[n] = t[n - Len(s)]
<1>1. /\ s \o t \in Seq(S) /\ Len(s \o t) = Len(s) + Len(t)
      /\ \A n \in 1..Len(s) : (s \o t)[n] = s[n]
      /\ \A n \in Len(s) + 1..Len(s) + Len(t) : (s \o t)[n] = t[n - Len(s)]
  OBVIOUS
<1>2. Named(s \o t) \subseteq Named(s) \cup Named(t)
  BY <1>1 DEF Named
<1>3. Named(s) \subseteq Named(s \o t)
  BY <1>1 DEF Named
<1>4. Named(t) \subseteq Named(s \o t)
  <2>1. \A n \in DOMAIN t : n + Len(s) \in DOMAIN (s \o t) /\ (s \o t)[n + Len(s)] = t[n]
    BY <1>1
  <2> QED BY <2>1 DEF Named
<1>5. Injective(s \o t)
  <2> SUFFICES ASSUME NEW a \in 1..Len(s) + Len(t), NEW b \in 1..Len(s) + Len(t),
                      (s \o t)[a] = (s \o t)[b]
               PROVE  a = b
    BY <1>1 DEF Injective
  <2>1. CASE a <= Len(s) /\ b <= Len(s)
    BY <1>1, <2>1 DEF Injective
  <2>2. CASE a > Len(s) /\ b > Len(s)
    <3>1. a - Len(s) \in DOMAIN t /\ b - Len(s) \in DOMAIN t
      BY <2>2
    <3>2. t[a - Len(s)] = t[b - Len(s)]
      BY <1>1, <2>2
    <3> QED BY <3>1, <3>2, <2>2 DEF Injective
  <2>3. CASE a <= Len(s) /\ b > Len(s)
    <3>1. s[a] \in Named(s) /\ t[b - Len(s)] \in Named(t)
      BY <2>3 DEF Named
    <3> QED BY <1>1, <2>3, <3>1
  <2>4. CASE a > Len(s) /\ b <= Len(s)
    <3>1. s[b] \in Named(s) /\ t[a - Len(s)] \in Named(t)
      BY <2>4 DEF Named
    <3> QED BY <1>1, <2>4, <3>1
  <2> QED BY <2>1, <2>2, <2>3, <2>4
<1> QED BY <1>1, <1>2, <1>3, <1>4, <1>5

-----------------------------------------------------------------------------
(* The inductive invariant.                                                *)

\* What the loop has taken from the queue, and the places where a quest
\* names a dependency that has not been taken yet.
Visited == {queue[n] : n \in 1..(pos - 1)}
Open(k) == {n \in DOMAIN Needs(k) : Needs(k)[n] \notin Visited}

Ordering ==
  /\ PlanOK /\ queue \in Seq(Keys) /\ Injective(queue) /\ pos \in 1..(Len(queue) + 1)
  /\ pc = "sorting" => \A k \in Keys : /\ indegree[k] = Cardinality(Open(k))
                                       /\ k \in Named(queue) <=> indegree[k] = 0
  /\ pc = "storing" => DOMAIN key_to_id = Visited

IInv ==
  /\ PlanTypes
  /\ pc \in {"start", "asking", "answered"} => queue = <<>> /\ key_to_id = <<>>
  /\ pc = "sorting" => key_to_id = <<>>
  /\ pc \in {"sorting", "storing"} => Ordering
  /\ DepsFirst /\ AcceptedIsDag /\ RefusedIsCyclic /\ NoPanic

\* The plan in hand is one the agent may answer.
LEMMA PlanType == PlanTypes => plan \in Seq(PlannedQuest)
<1>1. PlanTypes => plan \in Plans \/ plan = <<>>
  BY DEF PlanTypes
<1>2. <<>> \in Seq(PlannedQuest)
  OBVIOUS
<1> QED BY <1>1, <1>2, PlanDagAssumption

\* An order as long as the plan holds all its keys.
LEMMA FullOrder ==
  ASSUME plan \in Seq(PlannedQuest), PlanOK, queue \in Seq(Keys), Injective(queue),
         Len(queue) = Len(plan)
  PROVE  \A k \in Keys : \E n \in 1..Len(plan) : queue[n] = k
<1>1. Len(plan) \in Nat /\ DOMAIN queue = 1..Len(plan)
  OBVIOUS
<1>2. queue \in Injection(1..Len(plan), Keys)
  BY <1>1 DEF Injective, Injection, IsInjective
<1>3. IsFiniteSet(1..Len(plan)) /\ Cardinality(1..Len(plan)) = Len(plan)
  BY <1>1, UpTo
<1>4. queue \in Surjection(1..Len(plan), Keys)
  BY <1>2, <1>3, KeysCounted, FS_Injection
<1> QED BY <1>4 DEF Surjection

\* An order of all the keys in which dependencies come first is a ranking.
LEMMA OrderIsRank ==
  ASSUME plan \in Seq(PlannedQuest), PlanOK, queue \in Seq(Keys), Injective(queue),
         DepsFirst, Len(queue) = Len(plan)
  PROVE  Acyclic
<1>1. Len(plan) \in Nat /\ DOMAIN queue = 1..Len(plan)
  OBVIOUS
<1>2. \A k \in Keys : \E n \in 1..Len(plan) : queue[n] = k
  BY FullOrder
<1> DEFINE rank == [k \in Keys |-> CHOOSE n \in 1..Len(plan) : queue[n] = k]
<1>3. \A k \in Keys : rank[k] \in 1..Len(plan) /\ queue[rank[k]] = k
  BY <1>2
<1>4. ASSUME NEW k \in Keys, NEW d \in Named(Needs(k)) PROVE rank[d] < rank[k]
  <2>1. d \in Keys
    BY <1>4 DEF PlanOK
  <2>2. PICK m \in 1..(rank[k] - 1) : queue[m] = d
    BY <1>1, <1>3, <1>4 DEF DepsFirst
  <2>3. m \in 1..Len(plan) /\ m < rank[k]
    BY <1>1, <1>3, <2>2
  <2>4. queue[rank[d]] = queue[m]
    BY <1>3, <2>1, <2>2
  <2>5. rank[d] = m
    BY <1>1, <1>3, <2>1, <2>3, <2>4 DEF Injective
  <2> QED BY <2>3, <2>5
<1>5. rank \in [Keys -> 1..Len(plan)]
  BY <1>3
<1> QED BY <1>4, <1>5 DEF Acyclic

\* When the loop ends with a quest that it has not reached, each such quest waits
\* for another one: a ranking would have a least one among them.
LEMMA StuckIsCyclic ==
  ASSUME PlanTypes, Ordering, pc = "sorting", pos > Len(queue), Len(queue) # Len(plan)
  PROVE  ~Acyclic
<1> SUFFICES ASSUME Acyclic PROVE FALSE
  OBVIOUS
<1> DEFINE Rest == Keys \ Named(queue)
<1>1. plan \in Seq(PlannedQuest) /\ queue \in Seq(Keys) /\ Len(queue) \in Nat
  BY PlanType DEF Ordering
<1>2. Visited = Named(queue)
  BY <1>1 DEF Ordering, Visited, Named
<1>3. PICK rank \in [Keys -> 1..Len(plan)] :
         \A k \in Keys : \A d \in Named(Needs(k)) : rank[d] < rank[k]
  BY DEF Acyclic
<1>4. ASSUME NEW k \in Rest PROVE \E d \in Rest : rank[d] < rank[k]
  <2>1. IsFiniteSet(Open(k)) /\ Open(k) # {}
    <3>1. Needs(k) \in Seq(Key)
      BY <1>1, ByKey
    <3>2. IsFiniteSet(DOMAIN Needs(k))
      BY <3>1, FS_Interval
    <3>3. IsFiniteSet(Open(k))
      BY <3>2, FS_Subset DEF Open
    <3>4. Cardinality(Open(k)) # 0
      BY <1>4 DEF Ordering
    <3> QED BY <3>3, <3>4, FS_EmptySet
  <2>2. PICK n \in DOMAIN Needs(k) : Needs(k)[n] \notin Named(queue)
    BY <1>2, <2>1 DEF Open
  <2>3. Needs(k)[n] \in Named(Needs(k))
    BY <2>2 DEF Named
  <2> QED BY <1>3, <2>2, <2>3 DEF Ordering, PlanOK
<1>5. Rest # {}
  <2> SUFFICES ASSUME Rest = {} PROVE FALSE
    OBVIOUS
  <2>1. queue \in Injection(1..Len(queue), Keys)
    BY <1>1 DEF Ordering, Injective, Injection, IsInjective
  <2>2. queue \in Surjection(1..Len(queue), Keys)
    BY <2>1 DEF Named, Surjection, Injection
  <2>3. ExistsBijection(1..Len(queue), Keys)
    BY <2>1, <2>2 DEF Bijection, ExistsBijection
  <2>4. IsFiniteSet(1..Len(queue)) /\ Cardinality(1..Len(queue)) = Len(queue)
    BY <1>1, UpTo
  <2>5. Cardinality(Keys) = Len(queue)
    BY <2>3, <2>4, FS_Bijection
  <2> QED BY <1>1, <2>5, KeysCounted DEF Ordering
<1>6. {rank[k] : k \in Rest} \in SUBSET Nat /\ {rank[k] : k \in Rest} # {}
  BY <1>1, <1>5
<1>7. PICK n \in {rank[k] : k \in Rest} : \A m \in {rank[k] : k \in Rest} : n <= m
  BY <1>6, Least
<1>8. PICK k \in Rest : n = rank[k]
  BY <1>7
<1>9. PICK d \in Rest : rank[d] < rank[k]
  BY <1>4, <1>8
<1>10. rank[d] \in Nat /\ rank[k] \in Nat /\ rank[k] <= rank[d]
  BY <1>1, <1>3, <1>7, <1>8, <1>9
<1> QED BY <1>9, <1>10

-----------------------------------------------------------------------------
(* The steps.                                                              *)

\* What is said of the plan stays true while the plan stays.
LEMMA SamePlan ==
  ASSUME plan' = plan
  PROVE  /\ Keys' = Keys /\ (PlanOK' <=> PlanOK) /\ (Acyclic' <=> Acyclic)
         /\ \A k : Needs(k)' = Needs(k)
<1>1. Keys' = Keys
  BY DEF Keys
<1>2. ASSUME NEW k PROVE Needs(k)' = Needs(k)
  <2>1. by_key(k)' = by_key(k)
    BY DEF by_key
  <2> QED BY <2>1 DEF Needs
<1>3. PlanOK' <=> PlanOK
  BY <1>1, <1>2 DEF PlanOK
<1>4. Acyclic' <=> Acyclic
  BY <1>1, <1>2 DEF Acyclic
<1> QED BY <1>1, <1>2, <1>3, <1>4

\* validate leaves a plan whose keys are distinct and whose dependencies exist.
LEMMA ValidIsOK == plan \in Seq(PlannedQuest) /\ Valid => PlanOK
<1> SUFFICES ASSUME plan \in Seq(PlannedQuest), Valid PROVE PlanOK
  OBVIOUS
<1>1. \A m, n \in DOMAIN plan : plan[m].key = plan[n].key => m = n
  <2>1. \A m, n \in DOMAIN plan : m < n => m \in 1..(n - 1)
    OBVIOUS
  <2>2. \A m, n \in DOMAIN plan : m < n => plan[m].key # plan[n].key
    BY <2>1 DEF Valid
  <2>3. \A m, n \in DOMAIN plan : m < n \/ n < m \/ m = n
    OBVIOUS
  <2> QED BY <2>2, <2>3
<1>2. \A k \in Keys : Named(Needs(k)) \subseteq Keys
  BY ByKey DEF Valid, Needs
<1> QED BY <1>1, <1>2 DEF PlanOK, Valid

\* The sort begins with every dependency open and the roots in the queue.
LEMMA CountStep == IInv /\ Count => IInv'
<1> SUFFICES ASSUME IInv, Count PROVE IInv'
  OBVIOUS
<1>1. plan \in Seq(PlannedQuest) /\ PlanOK
  BY PlanType, ValidIsOK DEF IInv, Count
<1> DEFINE Roots == {k \in Keys : Needs(k) = <<>>}
<1>2. queue' \in Seq(Roots) /\ Injective(queue') /\ Named(queue') = Roots
  BY <1>1, Listing DEF Count
<1>3. plan' = plan /\ pos' = 1 /\ pc' = "sorting" /\ indegree' = [k \in Keys |-> Len(Needs(k))]
      /\ UNCHANGED <<db, known, store>>
  BY DEF Count
<1>4. Keys' = Keys /\ PlanOK' /\ \A k : Needs(k)' = Needs(k)
  BY <1>1, <1>3, SamePlan
<1>5. \A k \in Keys : Needs(k) \in Seq(Key) /\ Len(Needs(k)) \in Nat
  BY <1>1, ByKey
<1>6. queue' \in Seq(Keys) /\ queue' \in Seq(Key)
  <2>1. Roots \subseteq Keys /\ Roots \subseteq Key
    BY <1>1, ByKey
  <2> QED BY <1>2, <2>1
<1>7. PlanTypes'
  BY <1>3, <1>4, <1>5, <1>6 DEF IInv, PlanTypes, db, store
<1>8. Ordering'
  <2>1. \A k \in Keys : Open(k)' = 1..Len(Needs(k))
    BY <1>3, <1>4, <1>5 DEF Open, Visited
  <2>2. \A k \in Keys : Len(Needs(k)) = Cardinality(1..Len(Needs(k)))
    BY <1>5, UpTo
  <2>3. \A k \in Keys : k \in Named(queue') <=> Len(Needs(k)) = 0
    BY <1>2, <1>5
  <2>4. 1 \in 1..(Len(queue') + 1)
    BY <1>6
  <2> QED BY <1>2, <1>3, <1>4, <1>6, <2>1, <2>2, <2>3, <2>4 DEF Ordering, Named
<1>9. DepsFirst'
  <2>1. \A n \in DOMAIN queue' : Needs(queue'[n]) = <<>>
    BY <1>2
  <2> QED BY <1>4, <2>1 DEF DepsFirst, Named
<1>10. key_to_id' = <<>>
  BY <1>3 DEF IInv, Count, store
<1> QED BY <1>3, <1>7, <1>8, <1>9, <1>10
  DEF IInv, AcceptedIsDag, RefusedIsCyclic, NoPanic

\* A turn of the loop closes the places that name the quest it takes.
LEMMA VisitCounts ==
  ASSUME IInv, Visit, NEW c \in Keys
  PROVE  /\ Open(c)' = {n \in Open(c) : Needs(c)[n] # queue[pos]}
         /\ IsFiniteSet(Open(c)')
         /\ Times(c, queue[pos]) \in Nat
         /\ indegree'[c] = Cardinality(Open(c)')
         /\ indegree'[c] = indegree[c] - Times(c, queue[pos])
<1> DEFINE k == queue[pos]
           T == {n \in DOMAIN Needs(c) : Needs(c)[n] = k}
<1>1. plan \in Seq(PlannedQuest) /\ queue \in Seq(Keys) /\ Injective(queue)
      /\ pos \in 1..Len(queue) /\ Len(queue) \in Nat
  BY PlanType DEF IInv, Visit, Ordering
<1>2. plan' = plan /\ pos' = pos + 1 /\ indegree'[c] = indegree[c] - Times(c, k)
  BY DEF Visit
<1>3. Needs(c) \in Seq(Key) /\ Needs(c)' = Needs(c)
  BY <1>1, <1>2, ByKey DEF Needs, by_key
<1>4. \A n \in 1..pos : queue'[n] = queue[n]
  <2>1. PICK K \in SUBSET Keys : \E s \in InPlanOrder(K) : queue' = queue \o s
    BY DEF Visit
  <2>2. PICK s \in InPlanOrder(K) : queue' = queue \o s
    BY <2>1
  <2>3. s \in Seq(K)
    BY <1>1, Listing DEF IInv, Ordering, Visit
  <2>4. s \in Seq(Keys)
    BY <2>3
  <2> QED BY <1>1, <2>2, <2>4
<1>5. Visited' = Visited \cup {k}
  <2>1. 1..(pos' - 1) = 1..(pos - 1) \cup {pos}
    BY <1>1, <1>2
  <2> QED BY <1>1, <1>4, <2>1 DEF Visited
<1>6. k \notin Visited
  BY <1>1 DEF Visited, Injective
<1>7. Open(c)' = Open(c) \ T /\ T \subseteq Open(c)
  BY <1>3, <1>5, <1>6 DEF Open
<1>8. IsFiniteSet(Open(c))
  <2>1. IsFiniteSet(DOMAIN Needs(c))
    BY <1>3, UpTo
  <2> QED BY <2>1, FS_Subset DEF Open
<1>9. IsFiniteSet(T) /\ Cardinality(T) \in Nat
  BY <1>7, <1>8, FS_Subset, FS_CardinalityType
<1>10. IsFiniteSet(Open(c) \ T) /\ Cardinality(Open(c) \ T) = Cardinality(Open(c)) - Cardinality(T)
  <2>1. Open(c) \cap T = T
    BY <1>7
  <2> QED BY <1>8, <2>1, FS_Difference
<1>11. indegree[c] = Cardinality(Open(c))
  BY DEF IInv, Ordering, Visit
<1>12. Times(c, k) = Cardinality(T)
  BY DEF Times
<1>13. Open(c) \ T = {n \in Open(c) : Needs(c)[n] # k}
  BY DEF Open
<1> QED BY <1>2, <1>7, <1>9, <1>10, <1>11, <1>12, <1>13

\* The children that join the queue are those whose last open place has closed.
LEMMA VisitStep == IInv /\ Visit => IInv'
<1> SUFFICES ASSUME IInv, Visit PROVE IInv'
  OBVIOUS
<1> DEFINE k == queue[pos]
           left == [c \in Keys |-> indegree[c] - Times(c, k)]
           freed == {c \in Keys : Times(c, k) > 0 /\ left[c] = 0}
<1>1. /\ plan \in Seq(PlannedQuest) /\ PlanOK /\ queue \in Seq(Keys) /\ Injective(queue)
      /\ pos \in 1..Len(queue) /\ Len(queue) \in Nat
      /\ \A c \in Keys : c \in Named(queue) <=> indegree[c] = 0
  BY PlanType DEF IInv, Visit, Ordering
<1>2. /\ plan' = plan /\ pos' = pos + 1 /\ pc = "sorting" /\ pc' = "sorting" /\ indegree' = left
      /\ UNCHANGED <<db, known, store>>
  BY DEF Visit
<1>3. PICK s \in InPlanOrder(freed) : queue' = queue \o s
  BY DEF Visit
<1>4. s \in Seq(freed) /\ Injective(s) /\ Named(s) = freed
  BY <1>1, Listing
<1>5. \A c \in Keys : /\ indegree[c] \in Nat /\ Times(c, k) \in Nat
                      /\ left[c] = Cardinality(Open(c)') /\ left[c] \in Nat
  <2>1. \A c \in Keys : indegree[c] \in Nat
    BY <1>2 DEF IInv, PlanTypes
  <2>2. \A c \in Keys : Cardinality(Open(c)') \in Nat
    BY VisitCounts, FS_CardinalityType
  <2> QED BY <1>2, <2>1, <2>2, VisitCounts
<1>6. /\ \A c \in Keys : left[c] = indegree[c] - Times(c, k)
      /\ \A c \in Keys : c \in freed <=> Times(c, k) > 0 /\ left[c] = 0
      /\ freed \subseteq Keys
  OBVIOUS
<1> HIDE DEF left, freed
<1>7. s \in Seq(Keys) /\ freed \cap Named(queue) = {}
  <2>1. s \in Seq(Keys)
    BY <1>4, <1>6
  <2>2. freed \cap Named(queue) = {}
    BY <1>1, <1>5, <1>6
  <2> QED BY <2>1, <2>2
<1>8. /\ queue' \in Seq(Keys) /\ Injective(queue') /\ Named(queue') = Named(queue) \cup freed
      /\ Len(queue') = Len(queue) + Len(s) /\ Len(s) \in Nat
      /\ \A n \in 1..Len(queue) : queue'[n] = queue[n]
      /\ \A n \in Len(queue) + 1..Len(queue) + Len(s) : queue'[n] = s[n - Len(queue)]
  <2>1. Named(queue) \cap Named(s) = {}
    BY <1>4, <1>7
  <2> QED BY <1>1, <1>3, <1>4, <1>7, <2>1, InjectiveConcat
<1>9. Keys' = Keys /\ PlanOK' /\ \A c : Needs(c)' = Needs(c)
  BY <1>1, <1>2, SamePlan
<1>10. PlanTypes'
  <2>1. indegree' \in [Keys -> Nat]
    BY <1>2, <1>5 DEF left
  <2>2. queue' \in Seq(Key)
    <3>1. Keys \subseteq Key
      BY <1>1, ByKey
    <3> QED BY <1>8, <3>1
  <2> QED BY <1>1, <1>2, <1>9, <2>1, <2>2 DEF IInv, PlanTypes, db, store
<1>11. Ordering'
  <2>1. \A c \in Keys : c \in Named(queue') <=> left[c] = 0
    <3> SUFFICES ASSUME NEW c \in Keys PROVE c \in Named(queue') <=> left[c] = 0
      OBVIOUS
    <3>1. CASE c \in Named(queue)
      <4>1. indegree[c] = 0 /\ c \in Named(queue')
        BY <1>1, <1>8, <3>1
      <4> QED BY <1>5, <1>6, <4>1
    <3>2. CASE c \notin Named(queue)
      <4>1. indegree[c] # 0
        BY <1>1, <3>2
      <4>2. left[c] = indegree[c] - Times(c, k)
        BY <1>6
      <4> QED BY <1>5, <1>6, <1>8, <3>2, <4>1, <4>2
    <3> QED BY <3>1, <3>2
  <2>2. pos' \in 1..(Len(queue') + 1)
    BY <1>1, <1>2, <1>8
  <2> QED BY <1>2, <1>5, <1>8, <1>9, <2>1, <2>2 DEF Ordering, Named
<1>12. DepsFirst'
  <2> SUFFICES ASSUME NEW n \in DOMAIN queue', NEW d \in Named(Needs(queue'[n]))
               PROVE  \E m \in 1..(n - 1) : queue'[m] = d
    BY <1>9 DEF DepsFirst, Named
  <2>1. n \in 1..(Len(queue) + Len(s))
    BY <1>8
  <2>2. CASE n <= Len(queue)
    <3>1. n \in DOMAIN queue /\ d \in Named(Needs(queue[n]))
      BY <1>1, <1>8, <2>1, <2>2
    <3>2. PICK m \in 1..(n - 1) : queue[m] = d
      BY <3>1 DEF IInv, DepsFirst
    <3> QED BY <1>1, <1>8, <2>1, <2>2, <3>2
  <2>3. CASE n > Len(queue)
    <3>1. n - Len(queue) \in 1..Len(s) /\ queue'[n] = s[n - Len(queue)]
      BY <1>1, <1>8, <2>1, <2>3
    <3> PICK c \in freed : c = queue'[n]
      BY <1>4, <3>1
    <3>2. Cardinality(Open(c)') = 0 /\ IsFiniteSet(Open(c)')
      BY <1>5, <1>6, VisitCounts
    <3>3. Open(c)' = {}
      BY <3>2, FS_EmptySet
    <3>4. Open(c)' = {p \in DOMAIN Needs(c) : Needs(c)[p] \notin Visited'}
      BY <1>9 DEF Open
    <3>5. d \in Visited'
      BY <3>3, <3>4 DEF Named
    <3>6. PICK m \in 1..pos : queue'[m] = d
      BY <1>1, <1>2, <3>5 DEF Visited
    <3> QED BY <1>1, <2>1, <2>3, <3>6
  <2> QED BY <2>1, <2>2, <2>3, <1>1
<1> QED BY <1>2, <1>10, <1>11, <1>12
  DEF IInv, AcceptedIsDag, RefusedIsCyclic, NoPanic, store

\* A full order is a ranking; an order that misses a quest shows a cycle.
LEMMA SortedStep == IInv /\ Sorted => IInv'
<1> SUFFICES ASSUME IInv, Sorted PROVE IInv'
  OBVIOUS
<1>1. plan' = plan /\ queue' = queue /\ pos' = 1 /\ pc = "sorting" /\ pos > Len(queue)
      /\ pc' = (IF Len(queue) = Len(plan) THEN "storing" ELSE "cyclic")
      /\ UNCHANGED <<db, known, indegree, store>>
  BY DEF Sorted, sort
<1>2. Keys' = Keys /\ (PlanOK' <=> PlanOK) /\ (Acyclic' <=> Acyclic) /\ \A c : Needs(c)' = Needs(c)
  BY <1>1, SamePlan
<1>3. Ordering /\ key_to_id = <<>> /\ DepsFirst /\ NoPanic
  BY <1>1 DEF IInv
<1>4. plan \in Seq(PlannedQuest) /\ Len(queue) \in Nat
  BY <1>3, PlanType DEF IInv, Ordering
<1>5. PlanTypes'
  BY <1>1, <1>2 DEF IInv, PlanTypes, db, store, Ended
<1>6. DepsFirst'
  BY <1>1, <1>2, <1>3 DEF DepsFirst
<1>7. CASE Len(queue) = Len(plan)
  <2>1. pc' = "storing" /\ Acyclic
    BY <1>1, <1>3, <1>4, <1>7, OrderIsRank DEF Ordering
  <2>2. Ordering'
    <3>1. Visited' = {} /\ DOMAIN key_to_id' = {} /\ pos' \in 1..(Len(queue') + 1)
      BY <1>1, <1>3, <1>4 DEF Visited, store
    <3> QED BY <1>1, <1>2, <1>3, <2>1, <3>1 DEF Ordering, Injective
  <2> QED BY <1>1, <1>2, <1>5, <1>6, <2>1, <2>2
    DEF IInv, AcceptedIsDag, RefusedIsCyclic, NoPanic
<1>8. CASE Len(queue) # Len(plan)
  <2>1. pc' = "cyclic" /\ ~Acyclic
    BY <1>1, <1>3, <1>8, StuckIsCyclic DEF IInv
  <2> QED BY <1>1, <1>2, <1>5, <1>6, <2>1
    DEF IInv, AcceptedIsDag, RefusedIsCyclic, NoPanic
<1> QED BY <1>7, <1>8

\* The dependencies of the next quest are among those inserted before it.
LEMMA InsertStep == IInv /\ Insert => IInv'
<1> SUFFICES ASSUME IInv, Insert PROVE IInv'
  OBVIOUS
<1> DEFINE k == queue[pos]
<1>1. /\ plan' = plan /\ queue' = queue /\ pos' = pos + 1 /\ pc = "storing"
      /\ pos \in 1..Len(queue) /\ Len(queue) \in Nat
      /\ UNCHANGED <<db, known, indegree>>
      /\ Ordering /\ DOMAIN key_to_id = Visited /\ plan \in Seq(PlannedQuest)
  BY PlanType DEF IInv, Insert, Ordering, sort
<1>2. Keys' = Keys /\ (PlanOK' <=> PlanOK) /\ (Acyclic' <=> Acyclic) /\ \A c : Needs(c)' = Needs(c)
  BY <1>1, SamePlan
<1>3. Named(Needs(k)) \subseteq DOMAIN key_to_id
  <2> SUFFICES ASSUME NEW d \in Named(Needs(k)) PROVE d \in Visited
    BY <1>1
  <2>1. pos \in DOMAIN queue
    BY <1>1 DEF Ordering
  <2> QED BY <2>1 DEF IInv, DepsFirst, Visited
<1>4. /\ pc' = "storing"
      /\ key_to_id' = [c \in DOMAIN key_to_id \cup {k} |-> IF c = k THEN pos ELSE key_to_id[c]]
      /\ \E row \in {[id |-> pos, key |-> k, project |-> by_key(k).project,
                      primary |-> IF Needs(k) = <<>> \/ Head(Needs(k)) \notin DOMAIN key_to_id
                                  THEN NoDep ELSE key_to_id[Head(Needs(k))]]} :
           draft' = [quests |-> draft.quests \cup {row},
                     deps |-> draft.deps \cup {<<pos, key_to_id[d]>> : d \in Named(Needs(k))}]
  BY <1>1, <1>3 DEF Insert
<1>5. k \in Keys /\ k \in Key /\ by_key(k) \in PlannedQuest
  BY <1>1, ByKey DEF Ordering
<1>6. PlanTypes'
  <2>1. DOMAIN key_to_id' \subseteq Key /\ \A c \in DOMAIN key_to_id' : key_to_id'[c] \in Nat
    BY <1>1, <1>4, <1>5 DEF IInv, PlanTypes
  <2>2. draft' \in [quests: SUBSET Row, deps: SUBSET (Nat \X Nat)]
    <3>1. \A d \in Named(Needs(k)) : key_to_id[d] \in Nat
      BY <1>3 DEF IInv, PlanTypes
    <3>2. \A c \in DOMAIN key_to_id : key_to_id[c] \in Nat
      BY DEF IInv, PlanTypes
    <3>3. (IF Needs(k) = <<>> \/ Head(Needs(k)) \notin DOMAIN key_to_id
           THEN NoDep ELSE key_to_id[Head(Needs(k))]) \in Nat \cup {NoDep}
      BY <3>2
    <3>4. draft \in [quests: SUBSET Row, deps: SUBSET (Nat \X Nat)] /\ by_key(k).project \in Project
      BY <1>5 DEF IInv, PlanTypes, PlannedQuest
    <3> QED BY <1>1, <1>4, <1>5, <3>1, <3>3, <3>4 DEF Row
  <2>3. projects' \subseteq Project /\ known' \subseteq Project /\ quests' \subseteq Row
        /\ deps' \subseteq Nat \X Nat /\ plan' \in Plans \cup {<<>>}
        /\ indegree' \in [Keys' -> Nat] /\ queue' \in Seq(Key) /\ pos' \in Nat \ {0}
    BY <1>1, <1>2 DEF IInv, PlanTypes, db
  <2> QED BY <1>4, <2>1, <2>2, <2>3 DEF PlanTypes
<1>7. Ordering'
  <2>1. Visited' = Visited \cup {k}
    <3>1. 1..(pos' - 1) = 1..(pos - 1) \cup {pos}
      BY <1>1
    <3> QED BY <1>1, <3>1 DEF Visited
  <2>2. DOMAIN key_to_id' = Visited'
    BY <1>1, <1>4, <2>1
  <2>3. pos' \in 1..(Len(queue') + 1)
    BY <1>1
  <2> QED BY <1>1, <1>2, <1>4, <2>2, <2>3 DEF Ordering, Injective
<1>8. DepsFirst'
  BY <1>1, <1>2 DEF IInv, DepsFirst
<1> QED BY <1>1, <1>2, <1>4, <1>6, <1>7, <1>8
  DEF IInv, AcceptedIsDag, RefusedIsCyclic, NoPanic

\* The other steps of plan_campaign touch neither the order nor what it stands for.
LEMMA OtherStep ==
  IInv /\ (List \/ Answer \/ AnswerFails \/ Refuse \/ InsertFails \/ Commit \/ Crash) => IInv'
<1> SUFFICES ASSUME IInv, List \/ Answer \/ AnswerFails \/ Refuse \/ InsertFails \/ Commit \/ Crash
             PROVE  IInv'
  OBVIOUS
<1>1. queue' = queue /\ pos' = pos /\ key_to_id' = key_to_id
  BY DEF List, Answer, AnswerFails, Refuse, InsertFails, Commit, Crash, sort, store
<1>2. PlanTypes'
  BY DEF IInv, PlanTypes, Ended, Empty, Row, List, Answer, AnswerFails, Refuse, InsertFails, Commit,
         Crash, Working, db, sort, store
<1>3. CASE Answer
  <2>1. DepsFirst'
    BY <1>1, <1>3 DEF IInv, DepsFirst, Answer
  <2> QED BY <1>1, <1>2, <1>3, <2>1 DEF IInv, Answer, AcceptedIsDag, RefusedIsCyclic, NoPanic
<1>4. CASE List \/ AnswerFails \/ Refuse \/ InsertFails \/ Commit \/ Crash
  <2>1. plan' = plan
    BY <1>4 DEF List, AnswerFails, Refuse, InsertFails, Commit, Crash
  <2>2. (Acyclic' <=> Acyclic) /\ \A c : Needs(c)' = Needs(c)
    BY <2>1, SamePlan
  <2>3. DepsFirst'
    BY <1>1, <2>2 DEF IInv, DepsFirst
  <2> QED BY <1>1, <1>2, <1>4, <2>2, <2>3
    DEF IInv, AcceptedIsDag, RefusedIsCyclic, NoPanic, List, AnswerFails, Refuse, InsertFails,
        Commit, Crash
<1> QED BY <1>3, <1>4

\* Nor does what other processes do with the projects.
LEMMA ProjectStep == IInv /\ (UNCHANGED planVars \/ \E p \in Project : Add(p) \/ Remove(p)) => IInv'
<1> SUFFICES ASSUME IInv, UNCHANGED planVars \/ \E p \in Project : Add(p) \/ Remove(p) PROVE IInv'
  OBVIOUS
<1>1. UNCHANGED <<quests, deps, pc, known, plan, indegree, queue, pos, key_to_id, draft>>
      /\ projects' \in SUBSET Project
  BY DEF IInv, PlanTypes, planVars, db, sort, store, Add, Remove
<1>2. Keys' = Keys /\ (PlanOK' <=> PlanOK) /\ (Acyclic' <=> Acyclic) /\ \A c : Needs(c)' = Needs(c)
  BY <1>1, SamePlan
<1>3. PlanTypes'
  BY <1>1, <1>2 DEF IInv, PlanTypes
<1>4. \A c : Open(c)' = Open(c)
  BY <1>1, <1>2 DEF Open, Visited
<1>5. Ordering' <=> Ordering
  BY <1>1, <1>2, <1>4 DEF Ordering, Visited
<1> QED BY <1>1, <1>2, <1>3, <1>5
  DEF IInv, DepsFirst, AcceptedIsDag, RefusedIsCyclic, NoPanic

-----------------------------------------------------------------------------
(* What is stored.                                                         *)

\* The row of the n-th quest of the order, and its links.
RowOf(n) == [id |-> n, key |-> queue[n], project |-> by_key(queue[n]).project,
             primary |-> IF Needs(queue[n]) = <<>> THEN NoDep
                         ELSE key_to_id[Head(Needs(queue[n]))]]
LinksOf(n) == {<<n, key_to_id[d]>> : d \in Named(Needs(queue[n]))}

Drafted ==
  /\ Len(queue) = Len(plan)
  /\ \A n \in 1..(pos - 1) : key_to_id[queue[n]] = n
  /\ draft.quests = {RowOf(n) : n \in 1..(pos - 1)}
  /\ draft.deps = UNION {LinksOf(n) : n \in 1..(pos - 1)}
  /\ \A q \in draft.quests : q.project \in projects

StoreInv ==
  /\ IInv
  /\ IF pc = "storing" THEN Drafted ELSE draft = Empty
  /\ AllOrNothing /\ NoOrphan

\* One more quest joins the draft, with the ids of its dependencies.
LEMMA InsertDrafts == StoreInv /\ Insert => Drafted'
<1> SUFFICES ASSUME StoreInv, Insert PROVE Drafted'
  OBVIOUS
<1> DEFINE k == queue[pos]
<1>1. /\ plan' = plan /\ queue' = queue /\ pos' = pos + 1 /\ pc = "storing" /\ projects' = projects
      /\ pos \in 1..Len(queue) /\ Len(queue) \in Nat /\ DOMAIN queue = 1..Len(queue)
      /\ Ordering /\ DOMAIN key_to_id = Visited /\ plan \in Seq(PlannedQuest) /\ Drafted
      /\ Registered(k)
  BY PlanType DEF StoreInv, IInv, Insert, Ordering, sort, db
<1>2. \A n \in 1..pos : Named(Needs(queue[n])) \subseteq {queue[m] : m \in 1..(n - 1)}
  BY <1>1 DEF StoreInv, IInv, DepsFirst
<1>3. Named(Needs(k)) \subseteq DOMAIN key_to_id
  <2>1. pos \in 1..pos
    BY <1>1
  <2> QED BY <1>1, <1>2, <2>1 DEF Visited
<1>4. k \in Keys /\ Needs(k) \in Seq(Key) /\ (Needs(k) # <<>> => Head(Needs(k)) \in Named(Needs(k)))
  <2>1. k \in Keys
    BY <1>1 DEF Ordering
  <2> QED BY <1>1, <2>1, ByKey, HeadNamed
<1>5. /\ key_to_id' = [c \in DOMAIN key_to_id \cup {k} |-> IF c = k THEN pos ELSE key_to_id[c]]
      /\ draft' = [quests |-> draft.quests \cup {RowOf(pos)},
                   deps |-> draft.deps \cup LinksOf(pos)]
  BY <1>1, <1>3, <1>4 DEF Insert, RowOf, LinksOf
<1>6. k \notin DOMAIN key_to_id
  BY <1>1 DEF Visited, Ordering, Injective
<1>7. \A c \in DOMAIN key_to_id : key_to_id'[c] = key_to_id[c]
  BY <1>5, <1>6
<1>8. \A n \in 1..pos : /\ RowOf(n)' = RowOf(n) /\ LinksOf(n)' = LinksOf(n)
  <2> SUFFICES ASSUME NEW n \in 1..pos PROVE RowOf(n)' = RowOf(n) /\ LinksOf(n)' = LinksOf(n)
    OBVIOUS
  <2>1. Named(Needs(queue[n])) \subseteq DOMAIN key_to_id
    <3>1. \A m \in 1..(n - 1) : m \in 1..(pos - 1)
      BY <1>1
    <3> QED BY <1>1, <1>2, <3>1 DEF Visited
  <2>2. \A d \in Named(Needs(queue[n])) : key_to_id'[d] = key_to_id[d]
    BY <1>7, <2>1
  <2>3. Needs(queue[n])' = Needs(queue[n]) /\ by_key(queue[n])' = by_key(queue[n])
    BY <1>1 DEF Needs, by_key
  <2>4. queue[n] \in Keys
    BY <1>1 DEF Ordering
  <2>5. Needs(queue[n]) # <<>> => Head(Needs(queue[n])) \in Named(Needs(queue[n]))
    BY <1>1, <2>4, ByKey, HeadNamed
  <2> QED BY <1>1, <2>2, <2>3, <2>5 DEF RowOf, LinksOf
<1>9. 1..(pos' - 1) = 1..(pos - 1) \cup {pos} /\ 1..(pos - 1) \subseteq 1..pos /\ pos \in 1..pos
  BY <1>1
<1>10. \A n \in 1..(pos' - 1) : key_to_id'[queue'[n]] = n
  <2>1. key_to_id'[k] = pos
    BY <1>5
  <2>2. \A n \in 1..(pos - 1) : key_to_id'[queue[n]] = n
    BY <1>1, <1>7 DEF Drafted, Visited
  <2> QED BY <1>1, <1>9, <2>1, <2>2
<1>11. draft'.quests = {RowOf(n)' : n \in 1..(pos' - 1)}
  BY <1>1, <1>5, <1>8, <1>9 DEF Drafted
<1>12. draft'.deps = UNION {LinksOf(n)' : n \in 1..(pos' - 1)}
  BY <1>1, <1>5, <1>8, <1>9 DEF Drafted
<1>13. \A q \in draft'.quests : q.project \in projects'
  BY <1>1, <1>5 DEF Drafted, RowOf, Registered
<1> QED BY <1>1, <1>10, <1>11, <1>12, <1>13 DEF Drafted

\* A complete draft is the whole plan.
LEMMA CommitWhole == StoreInv /\ Commit => Whole'
<1> SUFFICES ASSUME StoreInv, Commit PROVE Whole'
  OBVIOUS
<1> DEFINE L == Len(plan)
<1>1. /\ plan' = plan /\ queue' = queue /\ key_to_id' = key_to_id
      /\ L \in Nat /\ Len(queue) = L /\ DOMAIN queue = 1..L /\ pos = L + 1
      /\ Ordering /\ plan \in Seq(PlannedQuest) /\ Drafted
      /\ quests' = draft.quests /\ deps' = draft.deps
  BY PlanType DEF StoreInv, IInv, Commit, Ordering, sort, Drafted
<1>2. 1..(pos - 1) = 1..L
  BY <1>1
<1>3. quests' = {RowOf(n) : n \in 1..L} /\ deps' = UNION {LinksOf(n) : n \in 1..L}
      /\ \A n \in 1..L : key_to_id[queue[n]] = n
  BY <1>1, <1>2 DEF Drafted
<1>4. \A k \in Keys : \E n \in 1..L : queue[n] = k
  BY <1>1, FullOrder DEF Ordering
<1>5. \A n \in 1..L : queue[n] \in Keys
  BY <1>1 DEF Ordering
<1>6. Keys' = Keys /\ \A k : Needs(k)' = Needs(k) /\ by_key(k)' = by_key(k)
  <2>1. \A k : by_key(k)' = by_key(k)
    BY <1>1 DEF by_key
  <2> QED BY <1>1, <2>1, SamePlan
<1>7. \A n \in 1..L : /\ RowOf(n).id = n /\ RowOf(n).key = queue[n]
                      /\ RowOf(n).project = by_key(queue[n]).project
                      /\ RowOf(n).primary = IF Needs(queue[n]) = <<>> THEN NoDep
                                            ELSE key_to_id[Head(Needs(queue[n]))]
  BY DEF RowOf
<1> DEFINE Q(k) == CHOOSE q \in quests' : q.key = k
<1>8. \A k \in Keys : Q(k).id = key_to_id[k]
  <2> SUFFICES ASSUME NEW k \in Keys PROVE Q(k).id = key_to_id[k]
    OBVIOUS
  <2>1. PICK n \in 1..L : queue[n] = k
    BY <1>4
  <2>2. \E q \in quests' : q.key = k
    BY <1>3, <1>7, <2>1
  <2>3. Q(k) \in quests' /\ Q(k).key = k
    BY <2>2
  <2>4. PICK m \in 1..L : Q(k) = RowOf(m)
    BY <1>3, <2>3
  <2> HIDE DEF Q
  <2>5. Q(k).id = m /\ Q(k).key = queue[m]
    BY <1>7, <2>4
  <2> QED BY <1>3, <2>3, <2>5
<1> HIDE DEF Q
<1>9. {q.key : q \in quests'} = Keys
  BY <1>3, <1>4, <1>5, <1>7
<1>10. Cardinality(quests') = L
  <2> DEFINE f == [n \in 1..L |-> RowOf(n)]
  <2>1. f \in [1..L -> quests'] /\ \A n \in 1..L : f[n].id = n
    BY <1>3, <1>7
  <2>2. f \in Injection(1..L, quests')
    BY <2>1 DEF Injection, IsInjective
  <2>3. f \in Surjection(1..L, quests')
    BY <1>3, <2>1 DEF Surjection
  <2>4. ExistsBijection(1..L, quests')
    BY <2>2, <2>3 DEF Bijection, ExistsBijection
  <2>5. IsFiniteSet(1..L) /\ Cardinality(1..L) = L
    BY <1>1, UpTo
  <2> QED BY <2>4, <2>5, FS_Bijection
<1>11. \A k \in Keys : /\ Named(Needs(k)) \subseteq Keys
                       /\ Needs(k) # <<>> => Head(Needs(k)) \in Named(Needs(k))
  BY <1>1, ByKey, HeadNamed DEF Ordering, PlanOK
<1>12. \A q \in quests' :
         /\ q.project = by_key(q.key).project
         /\ q.primary = IF Needs(q.key) = <<>> THEN NoDep ELSE Q(Head(Needs(q.key))).id
  <2>1. \A n \in 1..L : Needs(queue[n]) # <<>> =>
          Q(Head(Needs(queue[n]))).id = key_to_id[Head(Needs(queue[n]))]
    BY <1>5, <1>8, <1>11
  <2>2. ASSUME NEW q \in quests'
        PROVE  /\ q.project = by_key(q.key).project
               /\ q.primary = IF Needs(q.key) = <<>> THEN NoDep ELSE Q(Head(Needs(q.key))).id
    <3>1. PICK n \in 1..L : q = RowOf(n)
      BY <1>3
    <3> QED BY <1>7, <2>1, <3>1
  <2> QED BY <2>2
<1>13. deps' = UNION {{<<Q(k).id, Q(d).id>> : d \in Named(Needs(k))} : k \in Keys}
  <2>1. \A n \in 1..L :
          LinksOf(n) = {<<Q(queue[n]).id, Q(d).id>> : d \in Named(Needs(queue[n]))}
    <3> SUFFICES ASSUME NEW n \in 1..L
                 PROVE  LinksOf(n) = {<<Q(queue[n]).id, Q(d).id>> : d \in Named(Needs(queue[n]))}
      OBVIOUS
    <3>1. Q(queue[n]).id = n /\ \A d \in Named(Needs(queue[n])) : Q(d).id = key_to_id[d]
      BY <1>3, <1>5, <1>8, <1>11
    <3> QED BY <3>1 DEF LinksOf
  <2> DEFINE E(k) == {<<Q(k).id, Q(d).id>> : d \in Named(Needs(k))}
  <2>2. \A n \in 1..L : LinksOf(n) = E(queue[n])
    BY <2>1
  <2> HIDE DEF E
  <2>3. UNION {LinksOf(n) : n \in 1..L} = UNION {E(k) : k \in Keys}
    BY <1>4, <1>5, <2>2
  <2> QED BY <1>3, <2>3 DEF E
<1>14. \A l \in deps' : l[2] < l[1]
  <2> SUFFICES ASSUME NEW n \in 1..L, NEW d \in Named(Needs(queue[n])) PROVE key_to_id[d] < n
    BY <1>3 DEF LinksOf
  <2>1. PICK m \in 1..(n - 1) : queue[m] = d
    BY <1>1 DEF StoreInv, IInv, DepsFirst
  <2>2. m \in 1..L /\ m < n
    BY <1>1, <2>1
  <2> QED BY <1>3, <2>1, <2>2
<1>15. \A k : QuestOf(k)' = Q(k)
  BY DEF QuestOf, Q
<1>16. \A q \in quests' :
         /\ q.project = by_key(q.key)'.project
         /\ q.primary = IF Needs(q.key)' = <<>> THEN NoDep ELSE (QuestOf(Head(Needs(q.key))))'.id
  <2> SUFFICES ASSUME NEW q \in quests'
               PROVE  /\ q.project = by_key(q.key)'.project
                      /\ q.primary = IF Needs(q.key)' = <<>> THEN NoDep
                                     ELSE (QuestOf(Head(Needs(q.key))))'.id
    OBVIOUS
  <2>1. (QuestOf(Head(Needs(q.key))))' = Q(Head(Needs(q.key)))
    BY <1>6 DEF QuestOf, Q
  <2> QED BY <1>6, <1>12, <2>1
<1> QED BY <1>1, <1>6, <1>9, <1>10, <1>13, <1>14, <1>15, <1>16 DEF Whole

\* Steps that leave the tables and the plan alone.
LEMMA StoredStays ==
  ASSUME StoreInv, UNCHANGED <<quests, deps>>, plan' = plan \/ pc # "planned",
         (pc' = "planned") <=> (pc = "planned")
  PROVE  AllOrNothing'
<1>1. CASE pc = "planned"
  <2>1. plan' = plan
    BY <1>1
  <2>2. Keys' = Keys /\ \A k : Needs(k)' = Needs(k) /\ by_key(k)' = by_key(k)
    <3>1. \A k : by_key(k)' = by_key(k)
      BY <2>1 DEF by_key
    <3> QED BY <2>1, <3>1, SamePlan
  <2>3. \A k : QuestOf(k)' = QuestOf(k)
    BY DEF QuestOf
  <2>4. Whole' <=> Whole
    BY <2>1, <2>2, <2>3 DEF Whole
  <2> QED BY <1>1, <2>4 DEF StoreInv, AllOrNothing
<1>2. CASE pc # "planned"
  BY <1>2 DEF StoreInv, AllOrNothing
<1> QED BY <1>1, <1>2

-----------------------------------------------------------------------------
(* The theorems.                                                           *)

\* The inductive invariant holds of every behaviour.
THEOREM Inductive == PlanSpec => []IInv
<1>1. PlanInit => IInv
  <2> SUFFICES ASSUME PlanInit PROVE IInv
    OBVIOUS
  <2>1. <<>> \in Seq(Key) /\ DOMAIN <<>> = {}
    OBVIOUS
  <2> QED BY <2>1 DEF PlanInit, IInv, PlanTypes, Empty, Row, DepsFirst, AcceptedIsDag, RefusedIsCyclic,
                      NoPanic, Ended
<1>2. IInv /\ [PlanNext]_planVars => IInv'
  BY CountStep, VisitStep, SortedStep, InsertStep, OtherStep, ProjectStep DEF PlanNext, PlanCampaign
<1> QED BY <1>1, <1>2, PTL DEF PlanSpec

\* Types, for any plans.
THEOREM Typed == PlanSpec => []PlanTypes
BY Inductive, PTL DEF IInv

\* topo_sort accepts a plan exactly when its quests can be ranked.
THEOREM SortDecides == PlanSpec => []DagsOnly
<1>1. IInv => DagsOnly
  BY DEF IInv, DagsOnly
<1> QED BY <1>1, Inductive, PTL

\* Its order, finished or not, has dependencies first.
THEOREM OrderIsTopological == PlanSpec => []DepsFirst
BY Inductive, PTL DEF IInv

\* So the expect of plan_campaign is never reached without its dependency.
THEOREM ExpectHolds == PlanSpec => []NoPanic
BY Inductive, PTL DEF IInv

\* The tables hold all of the plan or nothing, and no quest without its project.
LEMMA StoredAll == PlanSpec => [](AllOrNothing /\ NoOrphan)
<1>1. PlanInit => AllOrNothing /\ NoOrphan /\ pc = "start" /\ draft = Empty
  BY DEF PlanInit, AllOrNothing, NoOrphan
<1>2. IInv' /\ StoreInv /\ [PlanNext]_planVars => StoreInv'
  <2> SUFFICES ASSUME IInv', StoreInv, [PlanNext]_planVars PROVE StoreInv'
    OBVIOUS
  <2>1. CASE List \/ Answer \/ AnswerFails \/ Refuse \/ Count \/ Visit \/ InsertFails \/ Crash
    <3>1. UNCHANGED <<projects, quests, deps>> /\ (plan' = plan \/ pc # "planned")
          /\ pc' # "planned" /\ pc # "planned" /\ pc' # "storing" /\ draft' = Empty
      BY <2>1 DEF StoreInv, store, List, Answer, AnswerFails, Refuse, Count, Visit, InsertFails, Crash, Working, db
    <3> QED BY <3>1, StoredStays DEF StoreInv, NoOrphan
  <2>2. CASE Sorted
    <3>1. /\ UNCHANGED <<projects, quests, deps, plan, queue, draft>> /\ pc = "sorting"
          /\ pc' = (IF Len(queue) = Len(plan) THEN "storing" ELSE "cyclic") /\ pos' = 1
      BY <2>2 DEF Sorted, db, sort, store
    <3>2. draft = Empty
      BY <3>1 DEF StoreInv
    <3>3. pc' = "storing" => Drafted'
      BY <3>1, <3>2 DEF Drafted, Empty
    <3> QED BY <3>1, <3>2, <3>3, StoredStays DEF StoreInv, NoOrphan
  <2>3. CASE Insert
    <3>1. UNCHANGED <<projects, quests, deps, plan>> /\ pc = "storing" /\ pc' # "planned"
          /\ (pc' = "storing" \/ draft' = Empty)
      BY <2>3 DEF Insert, db
    <3> QED BY <2>3, <3>1, InsertDrafts, StoredStays DEF StoreInv, NoOrphan
  <2>4. CASE Commit
    <3>1. pc' = "planned" /\ projects' = projects /\ quests' = draft.quests /\ Drafted
          /\ draft' = Empty
      BY <2>4 DEF Commit, StoreInv
    <3> QED BY <2>4, <3>1, CommitWhole DEF StoreInv, AllOrNothing, NoOrphan, Drafted
  <2>5. CASE UNCHANGED planVars \/ \E p \in Project : Add(p) \/ Remove(p)
    <3>1. UNCHANGED <<quests, deps, pc, plan, queue, pos, key_to_id, draft>>
      BY <2>5 DEF planVars, db, sort, store, Add, Remove
    <3>2. NoOrphan'
      BY <2>5 DEF StoreInv, NoOrphan, planVars, db, Add, Remove
    <3>3. pc = "storing" => projects' = projects
      BY <2>5 DEF planVars, db, Add, Remove
    <3>4. pc = "storing" => Drafted'
      <4>1. \A n : RowOf(n)' = RowOf(n) /\ LinksOf(n)' = LinksOf(n)
        BY <3>1 DEF RowOf, LinksOf, Needs, by_key
      <4> QED BY <3>1, <3>3, <4>1 DEF StoreInv, Drafted
    <3> QED BY <3>1, <3>2, <3>4, StoredStays DEF StoreInv
  <2> QED BY <2>1, <2>2, <2>3, <2>4, <2>5 DEF PlanNext, PlanCampaign
<1>3. PlanInit /\ IInv => StoreInv
  BY <1>1 DEF StoreInv
<1> QED BY <1>2, <1>3, Inductive, PTL DEF PlanSpec, StoreInv

\* plan_campaign stores a whole plan or nothing, and does not panic on the way.
THEOREM StoredRight == PlanSpec => []StoredWhole
BY StoredAll, ExpectHolds, PTL DEF StoredWhole
=============================================================================
