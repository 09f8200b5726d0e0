------------------------------ MODULE AIProofs ------------------------------
(***************************************************************************)
(* Proofs about the AI service.  The cache of summaries gives up only the  *)
(* oldest entry, coalesces generations, and answers with current ones.     *)
(* An investigation is of no more confidence than the sources warrant,     *)
(* stays with the sources selected, and names the evidence it misses.      *)
(***************************************************************************)
EXTENDS AISummaryCache, AIInvestigation, FiniteSetTheorems, SequenceTheorems,
        WellFoundedInduction, TLAPS

-----------------------------------------------------------------------------
(* The summaries kept *)

Less == {p \in Nat \X Nat : p[1] < p[2]}

\* A set of natural numbers has a least element.
LEMMA LeastExists ==
    ASSUME NEW T \in SUBSET Nat, T # {}
    PROVE  \E x \in T : \A y \in T : x <= y
<1>1. IsWellFoundedOn(Less, Nat)
  <2>1. OpToRel(<, Nat) = Less
    BY DEF OpToRel, Less
  <2> QED BY <2>1, NatLessThanWellFounded
<1>2. PICK x \in T : \A y \in T : <<y, x>> \notin Less
  BY <1>1, WFMin, Zenon
<1>3. ASSUME NEW y \in T PROVE x <= y
  <2>1. <<y, x>> \in Nat \X Nat /\ ~(y < x)
    BY <1>2 DEF Less
  <2> QED BY <2>1
<1> QED BY <1>3

Later(es, e) == {f \in es : f.place > e.place}

\* What _trim_oldest keeps is a part within the limit; whatever it gives up has
\* as many later entries as the limit.
LEMMA TrimmedBounds ==
    ASSUME NEW es, IsFiniteSet(es), \A e \in es : e.place \in Nat,
           \A e, f \in es : e.place = f.place => e = f
    PROVE  /\ Trimmed(es) \subseteq es
           /\ IsFiniteSet(Trimmed(es)) /\ Cardinality(Trimmed(es)) <= MaxEntries
           /\ \A e \in es \ Trimmed(es) : Cardinality(Later(es, e)) >= MaxEntries
<1> USE ParametersAssumption
<1>1. Trimmed(es) \subseteq es
  BY DEF Trimmed
<1>2. \A S \in SUBSET es : IsFiniteSet(S) /\ Cardinality(S) \in Nat
  BY FS_Subset, FS_CardinalityType
<1>3. \A e \in es : Later(es, e) \in SUBSET es
  BY DEF Later
<1>4. \A e \in es \ Trimmed(es) : Cardinality(Later(es, e)) >= MaxEntries
  BY <1>2, <1>3 DEF Trimmed, Later
<1>5. Cardinality(Trimmed(es)) <= MaxEntries
  <2>1. CASE Trimmed(es) = {}
    BY <2>1, FS_EmptySet
  <2>2. CASE Trimmed(es) # {}
    <3> DEFINE T == {e.place : e \in Trimmed(es)}
    <3>1. T \in SUBSET Nat /\ T # {}
      BY <1>1, <2>2
    <3>2. PICK x \in T : \A y \in T : x <= y
      BY <3>1, LeastExists
    <3>3. PICK e \in Trimmed(es) : x = e.place
      OBVIOUS
    <3>4. Trimmed(es) \ {e} \subseteq Later(es, e)
      <4>1. ASSUME NEW f \in Trimmed(es), f # e PROVE f.place > e.place
        <5>1. e \in es /\ f \in es /\ f.place \in T
          BY <1>1
        <5>2. f.place # e.place /\ e.place <= f.place
          BY <3>2, <3>3, <4>1, <5>1
        <5> QED BY <5>1, <5>2
      <4> QED BY <1>1, <4>1 DEF Later
    <3>5. Cardinality(Trimmed(es) \ {e}) <= Cardinality(Later(es, e))
      BY <1>1, <1>2, <1>3, <3>4, FS_Subset
    <3>6. Cardinality(Trimmed(es) \ {e}) = Cardinality(Trimmed(es)) - 1
      BY <1>1, <1>2, FS_RemoveElement
    <3>7. Cardinality(Later(es, e)) < MaxEntries
      BY DEF Trimmed, Later
    <3>8. e \in es /\ Cardinality(Trimmed(es)) \in Nat /\ Cardinality(Later(es, e)) \in Nat
      BY <1>1, <1>2, <1>3
    <3> QED BY <3>5, <3>6, <3>7, <3>8
  <2> QED BY <2>1, <2>2
<1> QED BY <1>1, <1>2, <1>4, <1>5

\* There are n - p numbers after p up to n.
LEMMA AfterSize ==
    ASSUME NEW p \in Int, NEW n \in Int, p <= n
    PROVE  IsFiniteSet((p + 1) .. n) /\ Cardinality((p + 1) .. n) = n - p
<1>1. \A a \in Int, b \in Int :
        IsFiniteSet(a .. b) /\ Cardinality(a .. b) = IF a > b THEN 0 ELSE b - a + 1
  BY FS_Interval
<1>2. p + 1 \in Int
  OBVIOUS
<1>3. /\ IsFiniteSet((p + 1) .. n)
      /\ Cardinality((p + 1) .. n) = IF p + 1 > n THEN 0 ELSE n - (p + 1) + 1
  BY <1>1, <1>2, Zenon
<1>4. (IF p + 1 > n THEN 0 ELSE n - (p + 1) + 1) = n - p
  OBVIOUS
<1> QED BY <1>3, <1>4

\* An entry is followed by at most as many as were generated after it.
LEMMA LaterBound ==
    ASSUME NEW es, NEW n \in Nat, NEW e \in es,
           \A f \in es : f.place \in 1..n,
           \A f, g \in es : f.place = g.place => f = g
    PROVE  Cardinality(Later(es, e)) <= n - e.place
<1> DEFINE L == Later(es, e)
           I == (e.place + 1) .. n
           h == [f \in L |-> f.place]
<1>1. e.place \in Int /\ e.place <= n
  OBVIOUS
<1>2. \A f \in L : f \in es /\ f.place \in I
  BY <1>1 DEF Later
<1>3. h \in Injection(L, I)
  BY <1>2 DEF Injection, IsInjective
<1>4. IsFiniteSet(I) /\ Cardinality(I) = n - e.place
  BY <1>1, AfterSize
<1> QED BY <1>3, <1>4, FS_Injection

-----------------------------------------------------------------------------
(* The cache *)

\* What is stored is an entry or was one.
LEMMA PutType ==
    ASSUME TypeOK, NEW k \in Key, NEW generation \in Nat
    PROVE  Put(k, generation) \in SUBSET Entry
<1> DEFINE old == {e \in entries : e.key = k}
           place == IF old = {} THEN generation ELSE (CHOOSE e \in old : TRUE).place
<1>1. place \in Nat
  BY DEF TypeOK, Entry
<1>2. now + TTL \in Nat
  BY ParametersAssumption DEF TypeOK
<1>3. [key |-> k, generation |-> generation, expires_at |-> now + TTL, place |-> place] \in Entry
  BY <1>1, <1>2 DEF Entry
<1> QED BY <1>3 DEF Put, TypeOK

\* A request that waits or generates asked for a range.
WantInv ==
    /\ \A r \in Request : pc[r] # "idle" => want[r] \in Key
    /\ \A i \in DOMAIN queue : pc[queue[i]] = "waiting"
    /\ \A i, j \in DOMAIN queue : queue[i] = queue[j] => i = j

\* The first of the queue waits, and the rest of it stays a queue of waiters.
LEMMA QueueStep ==
    ASSUME TypeOK, WantInv, queue # <<>>
    PROVE  /\ Head(queue) \in Request /\ pc[Head(queue)] = "waiting"
           /\ Tail(queue) \in Seq(Request)
           /\ \A i \in DOMAIN Tail(queue) :
                i + 1 \in DOMAIN queue /\ Tail(queue)[i] = queue[i + 1]
           /\ \A i \in DOMAIN Tail(queue) : Tail(queue)[i] # Head(queue)
<1>1. queue \in Seq(Request) /\ Len(queue) >= 1 /\ Head(queue) = queue[1] /\ 1 \in DOMAIN queue
  BY DEF TypeOK
<1>2. \A i \in DOMAIN Tail(queue) : i + 1 \in DOMAIN queue /\ Tail(queue)[i] = queue[i + 1] /\ i + 1 # 1
  BY <1>1
<1> QED BY <1>1, <1>2 DEF WantInv

\* Every step keeps the types and who waits for what.
LEMMA CacheTypeStep ==
    TypeOK /\ WantInv /\ [Next]_vars => TypeOK' /\ WantInv'
<1> SUFFICES ASSUME TypeOK, WantInv, [Next]_vars PROVE TypeOK' /\ WantInv'
  OBVIOUS
<1> USE ParametersAssumption
<1>1. ASSUME NEW r \in Request, NEW k \in Key, AnswerAtOnce(r, k) PROVE TypeOK' /\ WantInv'
  <2>1. EntryOf(k) \in Entry
    BY <1>1 DEF AnswerAtOnce, Hit, EntryOf, TypeOK
  <2>2. TypeOK'
    BY <1>1, <2>1 DEF AnswerAtOnce, Answered, TypeOK, Entry
  <2>3. WantInv'
    BY <1>1 DEF AnswerAtOnce, Answered, TypeOK, WantInv
  <2> QED BY <2>2, <2>3
<1>2. ASSUME NEW r \in Request, NEW k \in Key, GenerateAtOnce(r, k) PROVE TypeOK' /\ WantInv'
  BY <1>2 DEF GenerateAtOnce, StartGeneration, Pruned, TypeOK, WantInv
<1>3. ASSUME NEW r \in Request, NEW k \in Key, Wait(r, k) PROVE TypeOK' /\ WantInv'
  <2>1. TypeOK'
    BY <1>3 DEF Wait, TypeOK
  <2>2. \A i \in DOMAIN queue' :
            IF i \in DOMAIN queue THEN queue'[i] = queue[i] ELSE i = Len(queue) + 1 /\ queue'[i] = r
    BY <1>3 DEF Wait, TypeOK
  <2>3. \A i \in DOMAIN queue : queue[i] \in Request /\ queue[i] # r
    BY <1>3 DEF Wait, TypeOK, WantInv
  <2>4. WantInv'
    BY <1>3, <2>2, <2>3 DEF Wait, TypeOK, WantInv
  <2> QED BY <2>1, <2>4
<1>4. ASSUME NEW r \in Request, AnswerWaiter(r) PROVE TypeOK' /\ WantInv'
  <2>0. want[r] \in Key
    BY <1>4, QueueStep DEF AnswerWaiter, WantInv
  <2>1. EntryOf(want[r]) \in Entry
    BY <1>4 DEF AnswerWaiter, Hit, EntryOf, TypeOK
  <2>2. TypeOK'
    BY <1>4, <2>0, <2>1, QueueStep DEF AnswerWaiter, Answered, Pruned, TypeOK, Entry
  <2>3. WantInv'
    BY <1>4, QueueStep DEF AnswerWaiter, Answered, TypeOK, WantInv
  <2> QED BY <2>2, <2>3
<1>5. ASSUME NEW r \in Request, GenerateForWaiter(r) PROVE TypeOK' /\ WantInv'
  <2>1. TypeOK'
    BY <1>5, QueueStep DEF GenerateForWaiter, StartGeneration, Pruned, TypeOK
  <2>2. WantInv'
    BY <1>5, QueueStep DEF GenerateForWaiter, StartGeneration, TypeOK, WantInv
  <2> QED BY <2>1, <2>2
<1>6. ASSUME NEW r \in Request, Generated(r) PROVE TypeOK' /\ WantInv'
  <2>0. want[r] \in Key /\ Len(made) + 1 \in Nat
    BY <1>6 DEF Generated, WantInv, TypeOK
  <2>1. entries' \in SUBSET Entry
    BY <1>6, <2>0, PutType DEF Generated, Trimmed
  <2>2. made' \in Seq([key : Key, begun : Nat, ended : Nat])
    BY <1>6, <2>0 DEF Generated, TypeOK
  <2>3. TypeOK'
    BY <1>6, <2>0, <2>1, <2>2 DEF Generated, Answered, TypeOK
  <2>4. WantInv'
    BY <1>6 DEF Generated, Answered, TypeOK, WantInv
  <2> QED BY <2>3, <2>4
<1>7. ASSUME NEW r \in Request, GenerationFails(r) PROVE TypeOK' /\ WantInv'
  BY <1>7 DEF GenerationFails, TypeOK, WantInv
<1>8. CASE Tick
  BY <1>8 DEF Tick, TypeOK, WantInv
<1>9. CASE UNCHANGED vars
  BY <1>9 DEF vars, TypeOK, WantInv
<1> QED BY <1>1, <1>2, <1>3, <1>4, <1>5, <1>6, <1>7, <1>8, <1>9 DEF Next, Proceed

\* The variables keep their types, and who waits asked for a range.
THEOREM CacheTypeCorrect == Spec => [](TypeOK /\ WantInv)
<1>1. Init => TypeOK /\ WantInv
  BY ParametersAssumption DEF Init, TypeOK, WantInv
<1> QED BY <1>1, CacheTypeStep, PTL DEF Spec

\* The lock is held while a summary is generated.
LockInv == \A r \in Request : pc[r] = "generating" <=> lock = r

\* Generations end one after the other.
MadeInv ==
    /\ \A i \in DOMAIN made : made[i].ended <= now
    /\ \A i, j \in DOMAIN made : i < j => made[i].ended <= made[j].ended

\* An entry is what a generation left, in the place of the generation.
EntriesInv ==
    /\ \A e \in entries :
        /\ e.generation \in DOMAIN made /\ e.place = e.generation
        /\ e.key = made[e.generation].key
        /\ e.expires_at = made[e.generation].ended + TTL
    /\ \A e, f \in entries : e.key = f.key => e = f
    /\ IsFiniteSet(entries) /\ Cardinality(entries) <= MaxEntries

\* A summary is gone only because it expired or was pushed out.
KeptInv ==
    \A i \in DOMAIN made :
        \/ \E e \in entries : e.generation = i
        \/ made[i].ended + TTL <= now
        \/ Len(made) - i >= MaxEntries

\* What is being generated is not there, nor was when its generation began.
GeneratingInv ==
    \A r \in Request : pc[r] = "generating" =>
        /\ \A e \in entries : e.key # want[r]
        /\ \A i \in DOMAIN made : made[i].key = want[r] =>
                \/ made[i].ended + TTL <= begun
                \/ Len(made) + 1 - i > MaxEntries

CacheInv == LockInv /\ MadeInv /\ EntriesInv /\ KeptInv /\ GeneratingInv

Types == TypeOK /\ WantInv /\ TypeOK' /\ WantInv'

\* What pruning leaves is as it was; what it drops has expired.
LEMMA PruneStep ==
    ASSUME Types, MadeInv, EntriesInv, KeptInv, entries' = Pruned, UNCHANGED <<now, made>>
    PROVE  MadeInv' /\ EntriesInv' /\ KeptInv'
<1>1. entries' \subseteq entries
  BY DEF Pruned
<1>2. EntriesInv'
  <2>1. /\ IsFiniteSet(entries') /\ Cardinality(entries') <= Cardinality(entries)
        /\ Cardinality(entries') \in Nat /\ Cardinality(entries) \in Nat
    BY <1>1, FS_Subset, FS_CardinalityType DEF EntriesInv
  <2>2. Cardinality(entries') <= MaxEntries
    BY <2>1, ParametersAssumption DEF EntriesInv
  <2> QED BY <1>1, <2>1, <2>2 DEF EntriesInv
<1>3. KeptInv'
  <2> SUFFICES ASSUME NEW i \in DOMAIN made
               PROVE  \/ \E e \in entries' : e.generation = i
                      \/ made[i].ended + TTL <= now
                      \/ Len(made) - i >= MaxEntries
    BY DEF KeptInv
  <2>1. ASSUME NEW e \in entries, e.generation = i, e \notin entries'
        PROVE  made[i].ended + TTL <= now
    <3>1. e.expires_at \in Nat /\ now \in Nat
      BY DEF Types, TypeOK, Entry
    <3> QED BY <2>1, <3>1 DEF Pruned, EntriesInv
  <2> QED BY <2>1 DEF KeptInv
<1> QED BY <1>2, <1>3 DEF MadeInv

\* A generation begins when no summary of the range is kept that is not expired.
LEMMA StartStep ==
    ASSUME Types, CacheInv, NEW r \in Request, lock = Nobody, StartGeneration(r),
           want'[r] \in Key,
           \A e \in entries : e.key = want'[r] => ~IsFresh(e)
    PROVE  CacheInv'
<1>1. MadeInv' /\ EntriesInv' /\ KeptInv'
  BY PruneStep DEF CacheInv, StartGeneration
<1>2. LockInv'
  BY ParametersAssumption DEF CacheInv, LockInv, StartGeneration, Types, TypeOK
<1>3. \A q \in Request : pc'[q] = "generating" => q = r
  BY <1>2, ParametersAssumption DEF LockInv, StartGeneration
<1>4. \A e \in entries' : e.key # want'[r]
  BY DEF StartGeneration, Pruned, IsFresh
<1>5. ASSUME NEW i \in DOMAIN made, made[i].key = want'[r]
      PROVE  made[i].ended + TTL <= now \/ Len(made) + 1 - i > MaxEntries
  <2>1. ASSUME NEW e \in entries, e.generation = i PROVE made[i].ended + TTL <= now
    <3>1. e.key = want'[r] /\ e.expires_at = made[i].ended + TTL
      BY <1>5, <2>1 DEF CacheInv, EntriesInv
    <3>2. e.expires_at \in Nat /\ now \in Nat
      BY DEF Types, TypeOK, Entry
    <3> QED BY <3>1, <3>2 DEF IsFresh
  <2>2. Len(made) \in Nat /\ i \in Nat
    BY DEF Types, TypeOK
  <2> QED BY <2>1, <2>2, ParametersAssumption DEF CacheInv, KeptInv
<1>6. GeneratingInv'
  BY <1>3, <1>4, <1>5 DEF GeneratingInv, StartGeneration
<1> QED BY <1>1, <1>2, <1>6 DEF CacheInv

\* The entry of a generation that ends: the last one, of a range that had none.
NewEntry(r) ==
    [key |-> want[r], generation |-> Len(made) + 1, expires_at |-> now + TTL,
     place |-> Len(made) + 1]

\* A generation that ends leaves its own entry, and pushes out no more than it has to.
LEMMA GeneratedEntries ==
    ASSUME Types, CacheInv, NEW r \in Request, Generated(r)
    PROVE  /\ EntriesInv'
           /\ KeptInv'
<1> DEFINE n == Len(made)
           es == entries \cup {NewEntry(r)}
<1>0. /\ made \in Seq([key : Key, begun : Nat, ended : Nat])
      /\ n \in Nat /\ now \in Nat /\ TTL \in Nat /\ MaxEntries \in Nat /\ want[r] \in Key
      /\ pc[r] = "generating" /\ UNCHANGED now
      /\ made' = Append(made, [key |-> want[r], begun |-> begun, ended |-> now])
  BY ParametersAssumption DEF Types, TypeOK, WantInv, Generated
<1>1. /\ Len(made') = n + 1 /\ DOMAIN made' = 1..(n + 1) /\ DOMAIN made = 1..n
      /\ \A i \in 1..n : made'[i] = made[i]
      /\ made'[n + 1].key = want[r] /\ made'[n + 1].ended = now
  BY <1>0
<1>2. \A e \in entries : e.key # want[r]
  BY <1>0 DEF CacheInv, GeneratingInv
<1>3. Put(want[r], n + 1) = es
  <2>1. {e \in entries : e.key = want[r]} = {}
    BY <1>2
  <2> QED BY <2>1 DEF Put, NewEntry
<1>4. entries' = Trimmed(es)
  BY <1>3 DEF Generated
<1>5. \A e \in entries : e.place \in 1..n /\ e.generation = e.place
  BY <1>1 DEF CacheInv, EntriesInv
<1>6. \A e \in es :
        /\ e.generation \in 1..(n + 1) /\ e.place = e.generation
        /\ e.key = made'[e.generation].key
        /\ e.expires_at = made'[e.generation].ended + TTL
  <2>1. \A e \in entries :
        /\ e.generation \in 1..(n + 1) /\ e.place = e.generation
        /\ e.key = made'[e.generation].key
        /\ e.expires_at = made'[e.generation].ended + TTL
    BY <1>0, <1>1, <1>5 DEF CacheInv, EntriesInv
  <2>2. LET e == NewEntry(r)
        IN  /\ e.generation \in 1..(n + 1) /\ e.place = e.generation
            /\ e.key = made'[e.generation].key
            /\ e.expires_at = made'[e.generation].ended + TTL
    BY <1>0, <1>1 DEF NewEntry
  <2> QED BY <2>1, <2>2
<1>7. \A e, f \in es : e.key = f.key => e = f
  BY <1>2 DEF NewEntry, CacheInv, EntriesInv
<1>8. \A e, f \in es : e.place = f.place => e = f
  BY <1>6, <1>7
<1>9. IsFiniteSet(es)
  BY FS_AddElement DEF CacheInv, EntriesInv
<1> HIDE DEF es
<1>10. /\ entries' \subseteq es
       /\ IsFiniteSet(entries') /\ Cardinality(entries') <= MaxEntries
       /\ \A e \in es \ entries' : Cardinality(Later(es, e)) >= MaxEntries
  <2>1. \A e \in es : e.place \in Nat
    BY <1>0, <1>6
  <2> QED BY <1>4, <1>8, <1>9, <2>1, TrimmedBounds
<1>11. EntriesInv'
  BY <1>1, <1>6, <1>7, <1>10 DEF EntriesInv
<1>12. \A e \in es \ entries' : n + 1 - e.generation >= MaxEntries
  <2> SUFFICES ASSUME NEW e \in es \ entries' PROVE n + 1 - e.generation >= MaxEntries
    OBVIOUS
  <2>1. n + 1 \in Nat /\ \A f \in es : f.place \in 1..(n + 1)
    BY <1>0, <1>6
  <2>2. Cardinality(Later(es, e)) <= n + 1 - e.place
    BY <1>8, <2>1, LaterBound
  <2>3. Cardinality(Later(es, e)) >= MaxEntries
    BY <1>10
  <2>4. Cardinality(Later(es, e)) \in Nat
    <3>1. Later(es, e) \in SUBSET es
      BY DEF Later
    <3> QED BY <1>9, <3>1, FS_Subset, FS_CardinalityType
  <2>5. e.place = e.generation /\ e.place \in Nat
    BY <1>6, <2>1
  <2> QED BY <1>0, <2>2, <2>3, <2>4, <2>5
<1>13. KeptInv'
  <2> SUFFICES ASSUME NEW i \in DOMAIN made'
               PROVE  \/ \E e \in entries' : e.generation = i
                      \/ made'[i].ended + TTL <= now'
                      \/ Len(made') - i >= MaxEntries
    BY DEF KeptInv
  <2>0. i \in 1..(n + 1) /\ Len(made') - i = n + 1 - i /\ now' = now
    BY <1>0, <1>1
  <2>1. CASE \E e \in es : e.generation = i
    BY <1>12, <2>0, <2>1
  <2>2. CASE ~ \E e \in es : e.generation = i
    <3>1. i # n + 1
      <4>1. NewEntry(r) \in es /\ NewEntry(r).generation = n + 1
        BY DEF es, NewEntry
      <4> QED BY <2>2, <4>1
    <3>2. i \in 1..n /\ ~ \E e \in entries : e.generation = i
      BY <1>0, <2>0, <2>2, <3>1 DEF es
    <3>3. made[i].ended + TTL <= now \/ n - i >= MaxEntries
      BY <1>1, <3>2 DEF CacheInv, KeptInv
    <3> QED BY <1>0, <1>1, <2>0, <3>2, <3>3
  <2> QED BY <2>1, <2>2
<1> QED BY <1>11, <1>13

\* Generations end at a time.
LEMMA MadeType == TypeOK => \A i \in DOMAIN made : made[i].ended \in Nat
<1> SUFFICES ASSUME TypeOK, NEW i \in 1..Len(made) PROVE made[i].ended \in Nat
  BY DEF TypeOK
<1>1. made[i] \in [key : Key, begun : Nat, ended : Nat]
  BY ElementOfSeq DEF TypeOK
<1> QED BY <1>1

\* Every step keeps the entries, the lock and the generations together.
LEMMA CacheStep == Types /\ CacheInv /\ [Next]_vars => CacheInv'
<1> SUFFICES ASSUME Types, CacheInv, [Next]_vars PROVE CacheInv'
  OBVIOUS
<1> USE ParametersAssumption
<1>1. ASSUME NEW r \in Request, NEW k \in Key, AnswerAtOnce(r, k) PROVE CacheInv'
  BY <1>1 DEF AnswerAtOnce, Answered, Types, TypeOK, CacheInv, LockInv, MadeInv, EntriesInv,
              KeptInv, GeneratingInv
<1>2. ASSUME NEW r \in Request, NEW k \in Key, GenerateAtOnce(r, k) PROVE CacheInv'
  <2>1. want'[r] = k
    BY <1>2 DEF GenerateAtOnce, Types, TypeOK
  <2>2. \A e \in entries : e.key = want'[r] => ~IsFresh(e)
    BY <1>2, <2>1 DEF GenerateAtOnce, Hit
  <2> QED BY <1>2, <2>1, <2>2, StartStep DEF GenerateAtOnce
<1>3. ASSUME NEW r \in Request, NEW k \in Key, Wait(r, k) PROVE CacheInv'
  BY <1>3 DEF Wait, Types, TypeOK, CacheInv, LockInv, MadeInv, EntriesInv, KeptInv, GeneratingInv
<1>4. ASSUME NEW r \in Request, AnswerWaiter(r) PROVE CacheInv'
  <2>1. MadeInv' /\ EntriesInv' /\ KeptInv'
    BY <1>4, PruneStep DEF AnswerWaiter, CacheInv
  <2>2. \A q \in Request : lock # q /\ pc[q] # "generating"
    BY <1>4 DEF AnswerWaiter, CacheInv, LockInv
  <2>3. \A q \in Request : lock' # q /\ pc'[q] # "generating"
    BY <1>4, <2>2 DEF AnswerWaiter, Answered, Types, TypeOK
  <2> QED BY <2>1, <2>3 DEF CacheInv, LockInv, GeneratingInv
<1>5. ASSUME NEW r \in Request, GenerateForWaiter(r) PROVE CacheInv'
  <2>1. want'[r] \in Key /\ want'[r] = want[r]
    BY <1>5, QueueStep DEF GenerateForWaiter, Types, WantInv
  <2>2. \A e \in entries : e.key = want'[r] => ~IsFresh(e)
    BY <1>5, <2>1 DEF GenerateForWaiter, Hit
  <2> QED BY <1>5, <2>1, <2>2, StartStep DEF GenerateForWaiter
<1>6. ASSUME NEW r \in Request, Generated(r) PROVE CacheInv'
  <2>1. EntriesInv' /\ KeptInv'
    BY <1>6, GeneratedEntries
  <2>2. \A q \in Request : lock' # q /\ pc'[q] # "generating"
    BY <1>6 DEF Generated, Answered, CacheInv, LockInv, Types, TypeOK
  <2>3. MadeInv'
    <3>1. /\ DOMAIN made = 1..Len(made) /\ DOMAIN made' = 1..(Len(made) + 1)
          /\ Len(made) \in Nat /\ now \in Nat /\ now' = now
          /\ \A i \in 1..Len(made) : made'[i] = made[i]
          /\ made'[Len(made) + 1].ended = now
      BY <1>6 DEF Generated, Types, TypeOK, WantInv
    <3> QED BY <3>1 DEF CacheInv, MadeInv
  <2> QED BY <2>1, <2>2, <2>3 DEF CacheInv, LockInv, GeneratingInv
<1>7. ASSUME NEW r \in Request, GenerationFails(r) PROVE CacheInv'
  <2>1. \A q \in Request : lock' # q /\ pc'[q] # "generating"
    BY <1>7 DEF GenerationFails, CacheInv, LockInv, Types, TypeOK
  <2>2. UNCHANGED <<now, made, entries>>
    BY <1>7 DEF GenerationFails
  <2> QED BY <2>1, <2>2
          DEF CacheInv, LockInv, GeneratingInv, MadeInv, EntriesInv, KeptInv
<1>8. CASE Tick
  <2>0. ASSUME NEW i \in DOMAIN made PROVE made[i].ended \in Nat
    BY MadeType DEF Types
  <2>1. /\ now' = now + 1 /\ now \in Nat
        /\ UNCHANGED <<entries, lock, pc, want, made, begun>>
    BY <1>8 DEF Tick, Types, TypeOK
  <2>2. MadeInv'
    BY <2>0, <2>1 DEF CacheInv, MadeInv
  <2>3. KeptInv'
    BY <2>0, <2>1 DEF CacheInv, KeptInv
  <2> QED BY <2>1, <2>2, <2>3 DEF CacheInv, LockInv, EntriesInv, GeneratingInv
<1>9. CASE UNCHANGED vars
  BY <1>9 DEF vars, CacheInv, LockInv, MadeInv, EntriesInv, KeptInv, GeneratingInv
<1> QED BY <1>1, <1>2, <1>3, <1>4, <1>5, <1>6, <1>7, <1>8, <1>9 DEF Next, Proceed

\* The invariant of the cache: who holds its lock, what its entries came from, and why a summary is not there any more.
THEOREM CacheCorrect == Spec => []CacheInv
<1>1. Init => CacheInv
  <2> SUFFICES ASSUME Init PROVE CacheInv
    OBVIOUS
  <2>1. IsFiniteSet({}) /\ Cardinality({}) = 0
    BY FS_EmptySet
  <2> QED BY <2>1, ParametersAssumption
          DEF Init, CacheInv, LockInv, MadeInv, EntriesInv, KeptInv, GeneratingInv
<1>2. TypeOK /\ WantInv /\ TypeOK' /\ WantInv' /\ CacheInv /\ [Next]_vars => CacheInv'
  BY CacheStep DEF Types
<1> QED BY <1>1, <1>2, CacheTypeCorrect, PTL DEF Spec

\* The oldest entry is the first to expire, and the limit is kept.
THEOREM OldestCorrect == Spec => []OldestExpiresFirst
<1>1. TypeOK /\ CacheInv => OldestExpiresFirst
  <2> SUFFICES ASSUME TypeOK, CacheInv PROVE OldestExpiresFirst
    OBVIOUS
  <2>1. ASSUME NEW e \in entries, NEW f \in entries, e.place < f.place
        PROVE  e.expires_at <= f.expires_at
    <3>1. /\ e.generation \in DOMAIN made /\ f.generation \in DOMAIN made
          /\ e.generation < f.generation
          /\ e.expires_at = made[e.generation].ended + TTL
          /\ f.expires_at = made[f.generation].ended + TTL
      BY <2>1 DEF CacheInv, EntriesInv
    <3>2. made[e.generation].ended <= made[f.generation].ended
      BY <3>1 DEF CacheInv, MadeInv
    <3>3. made[e.generation].ended \in Nat /\ made[f.generation].ended \in Nat
      BY <3>1, MadeType
    <3> QED BY <3>1, <3>2, <3>3, ParametersAssumption
  <2>2. Cardinality(entries) <= MaxEntries /\ \A e, f \in entries : e # f => e.key # f.key
    BY DEF CacheInv, EntriesInv
  <2> QED BY <2>1, <2>2 DEF OldestExpiresFirst
<1> QED BY <1>1, CacheTypeCorrect, CacheCorrect, PTL

\* A summary is generated again only when the earlier one expired or was pushed out.
THEOREM CoalescedCorrect == Spec => []Coalesced
<1>1. Init => Coalesced
  BY DEF Init, Coalesced
<1>2. Types /\ CacheInv /\ Coalesced /\ [Next]_vars => Coalesced'
  <2> SUFFICES ASSUME Types, CacheInv, Coalesced, [Next]_vars PROVE Coalesced'
    OBVIOUS
  <2>1. ASSUME NEW r \in Request, Generated(r) PROVE Coalesced'
    <3> DEFINE n == Len(made)
    <3>1. /\ n \in Nat /\ DOMAIN made = 1..n /\ DOMAIN made' = 1..(n + 1)
          /\ \A i \in 1..n : made'[i] = made[i]
          /\ made'[n + 1].key = want[r] /\ made'[n + 1].begun = begun
      BY <2>1 DEF Generated, Types, TypeOK, WantInv
    <3>2. ASSUME NEW i \in 1..(n + 1), NEW j \in 1..(n + 1), i < j, made'[i].key = made'[j].key
          PROVE  made'[j].begun >= made'[i].ended + TTL \/ j - i > MaxEntries
      <4>1. CASE j = n + 1
        <5>1. i \in 1..n /\ made[i].key = want[r]
          BY <3>1, <3>2, <4>1
        <5>2. made[i].ended + TTL <= begun \/ n + 1 - i > MaxEntries
          BY <2>1, <3>1, <5>1 DEF Generated, CacheInv, GeneratingInv
        <5>3. made[i].ended \in Nat /\ begun \in Nat /\ TTL \in Nat
          BY <3>1, <5>1, MadeType, ParametersAssumption DEF Types, TypeOK
        <5> QED BY <3>1, <4>1, <5>1, <5>2, <5>3
      <4>2. CASE j # n + 1
        <5>1. i \in 1..n /\ j \in 1..n
          BY <3>1, <3>2, <4>2
        <5> QED BY <3>1, <3>2, <5>1 DEF Coalesced
      <4> QED BY <4>1, <4>2
    <3> QED BY <3>1, <3>2 DEF Coalesced
  <2>2. CASE UNCHANGED made
    BY <2>2 DEF Coalesced
  <2>3. \/ \E r \in Request : Generated(r)
        \/ UNCHANGED made
    BY DEF Next, Proceed, AnswerAtOnce, GenerateAtOnce, Wait, AnswerWaiter, GenerateForWaiter,
           StartGeneration, GenerationFails, Tick, vars
  <2> QED BY <2>1, <2>2, <2>3
<1>3. TypeOK /\ WantInv /\ TypeOK' /\ WantInv' /\ CacheInv /\ Coalesced /\ [Next]_vars
        => Coalesced'
  BY <1>2 DEF Types
<1> QED BY <1>1, <1>3, CacheTypeCorrect, CacheCorrect, PTL DEF Spec

\* The entry of a range that is found is a current summary of that range.
LEMMA HitIsCurrent ==
    ASSUME TypeOK, CacheInv, NEW k \in Key, Hit(k)
    PROVE  LET g == EntryOf(k).generation
           IN  g \in DOMAIN made /\ made[g].key = k /\ now < made[g].ended + TTL
<1>1. PICK e \in entries : e.key = k /\ IsFresh(e)
  BY DEF Hit
<1>2. EntryOf(k) = e
  BY <1>1 DEF EntryOf, CacheInv, EntriesInv
<1> QED BY <1>1, <1>2 DEF IsFresh, CacheInv, EntriesInv

\* Every answer is a summary of the range asked for that has not expired.
THEOREM AnswersCorrect == Spec => []AnswerIsCurrent
<1>1. Init => AnswerIsCurrent
  BY DEF Init, AnswerIsCurrent
<1>2. Types /\ CacheInv /\ AnswerIsCurrent /\ [Next]_vars => AnswerIsCurrent'
  <2> SUFFICES ASSUME Types, CacheInv, AnswerIsCurrent, [Next]_vars PROVE AnswerIsCurrent'
    OBVIOUS
  <2>0. TypeOK /\ WantInv
    BY DEF Types
  <2>1. ASSUME NEW r \in Request, NEW k \in Key, AnswerAtOnce(r, k) PROVE AnswerIsCurrent'
    BY <2>0, <2>1, HitIsCurrent DEF AnswerAtOnce, Answered, AnswerIsCurrent
  <2>2. ASSUME NEW r \in Request, AnswerWaiter(r) PROVE AnswerIsCurrent'
    <3>1. want[r] \in Key
      BY <2>0, <2>2, QueueStep DEF AnswerWaiter, WantInv
    <3> QED BY <2>0, <2>2, <3>1, HitIsCurrent DEF AnswerWaiter, Answered, AnswerIsCurrent
  <2>3. ASSUME NEW r \in Request, Generated(r) PROVE AnswerIsCurrent'
    <3>1. /\ Len(made) \in Nat /\ DOMAIN made' = 1..(Len(made) + 1) /\ now \in Nat
          /\ made'[Len(made) + 1].key = want[r] /\ made'[Len(made) + 1].ended = now
          /\ answer' = [key |-> want[r], generation |-> Len(made) + 1, at |-> now]
      BY <2>0, <2>3 DEF Generated, Answered, TypeOK, WantInv
    <3> QED BY <3>1, ParametersAssumption DEF AnswerIsCurrent
  <2>4. CASE UNCHANGED <<made, answer>>
    BY <2>4 DEF AnswerIsCurrent
  <2>5. \/ \E r \in Request, k \in Key : AnswerAtOnce(r, k)
        \/ \E r \in Request : AnswerWaiter(r) \/ Generated(r)
        \/ UNCHANGED <<made, answer>>
    BY DEF Next, Proceed, GenerateAtOnce, Wait, GenerateForWaiter,
           StartGeneration, GenerationFails, Tick, vars
  <2> QED BY <2>1, <2>2, <2>3, <2>4, <2>5
<1>3. TypeOK /\ WantInv /\ TypeOK' /\ WantInv' /\ CacheInv /\ AnswerIsCurrent /\ [Next]_vars
        => AnswerIsCurrent'
  BY <1>2 DEF Types
<1> QED BY <1>1, <1>3, CacheTypeCorrect, CacheCorrect, PTL DEF Spec

-----------------------------------------------------------------------------
(* The scope of an investigation *)

\* Every request is about one source, a device, or the environment.
LEMMA ScopeType ==
    ASSUME InvestigationTypeOK
    PROVE  /\ question \in Asked
           /\ AskedSource \in AISource \cup {NoSource}
           /\ Scope \in {"device", "source", "environment"}
           /\ Scope = "source" => AskedSource \in AISource
<1>1. question \in Asked /\ question.named \in SUBSET AISource
  BY QuestionAssumption DEF InvestigationTypeOK, Asked
<1>2. ASSUME NEW S \in SUBSET AISource PROVE Only(S) \in AISource \cup {NoSource}
  <2>1. Cardinality(S) = 1 => S # {}
    BY FS_EmptySet
  <2> QED BY <2>1 DEF Only
<1>3. Eligible \in SUBSET AISource
  BY DEF Eligible
<1>4. Inferred \in AISource \cup {NoSource}
  BY <1>2, <1>3 DEF Inferred
<1>5. AskedSource \in AISource \cup {NoSource}
  BY <1>1, <1>2, <1>4 DEF AskedSource
<1> QED BY <1>1, <1>5 DEF Scope

\* The sources an answer may be about whatever the summaries say.
Focus == IF Scope = "environment" THEN {} ELSE Selected

\* What is selected are sources.
LEMMA SelectedType ==
    ASSUME InvestigationTypeOK
    PROVE  /\ Selected \in SUBSET AISource
           /\ Focus = CASE Scope = "environment" -> {}
                        [] Scope = "source" -> {AskedSource}
                        [] OTHER -> IF AskedSource = NoSource THEN device
                                                              ELSE {AskedSource} \cap device
           /\ Focus \in SUBSET Selected
<1>1. device \in SUBSET AISource
  BY DEF InvestigationTypeOK
<1>2. CASE Scope = "environment"
  BY <1>2 DEF Selected, Focus
<1>3. CASE Scope = "source"
  BY <1>3, ScopeType DEF Selected, Focus
<1>4. CASE Scope = "device"
  BY <1>1, <1>4 DEF Selected, Focus
<1> QED BY <1>2, <1>3, <1>4, ScopeType

-----------------------------------------------------------------------------
(* The course of a request *)

\* The sources read when a request is at its stage.
ReadSoFar ==
    CASE stage \in {"ask", "wazuh"} -> {}
      [] stage = "zabbix" -> {"wazuh"}
      [] stage = "snipe_it" -> {"wazuh", "zabbix"}
      [] stage = "freshservice" -> AISource \ {"freshservice"}
      [] stage \in {"lookups", "model"} -> AISource
      [] OTHER -> IF outcome \in {"fixed", "model"} THEN AISource ELSE DOMAIN summary

StageInv ==
    /\ DOMAIN summary = ReadSoFar
    /\ stage = "lookups" => question.kind = "investigate"
    /\ stage # "lookups" => todo = {}
    /\ stage \in {"ask"} \cup AISource \/ question.kind # "investigate" =>
            DOMAIN details = {} /\ limitations = <<>> /\ failed = {}

\* Lookups are about what was asked.
ScopeInv ==
    question.kind = "investigate" =>
        {About(l) : l \in todo} \cup DOMAIN details \cup failed \subseteq Focus

\* A source that was read as healthy was.
FineInv ==
    /\ FineNow \subseteq wasFine
    /\ \A s \in DOMAIN summary : Fine(s) => s \in wasFine

RequestInv == InvestigationTypeOK /\ StageInv /\ ScopeInv /\ FineInv

\* What a lookup may change, whether it fails or not.
Looks(l) ==
    /\ UNCHANGED <<question, world, stage, device, output, outcome, wasFine, worldChanges>>
    /\ lookupFailures' \in Nat /\ broken' \in BOOLEAN /\ counted' \in Nat
    /\ todo' \subseteq todo
    /\ failed' \in SUBSET (failed \cup {About(l)})
    /\ DOMAIN details' \in SUBSET (DOMAIN details \cup {About(l)})
    /\ \A s \in DOMAIN details' : details'[s] \in [matching : Nat, shown : Nat]
    /\ DOMAIN summary' = DOMAIN summary
    /\ \A s \in DOMAIN summary :
            summary'[s] \in Reading /\ summary'[s].health = summary[s].health
    /\ \/ limitations' = limitations
       \/ \E x \in Limitation : limitations' = Append(limitations, x)

\* At the stage of lookups all summaries are there, and a lookup is about the focus.
LEMMA LookupStage ==
    ASSUME RequestInv, stage = "lookups", NEW l \in todo
    PROVE  /\ About(l) \in AISource /\ About(l) \in Focus
           /\ DOMAIN summary = AISource
           /\ \A s \in AISource : rows[s] \in Nat /\ Least(DetailLimit, rows[s]) \in Nat
<1>1. question.kind = "investigate" /\ DOMAIN summary = AISource
  BY DEF RequestInv, StageInv, ReadSoFar, AISource
<1>2. About(l) \in Focus
  BY <1>1 DEF RequestInv, ScopeInv
<1>3. About(l) \in AISource
  BY <1>2, SelectedType DEF RequestInv
<1>4. \A s \in AISource : rows[s] \in Nat /\ Least(DetailLimit, rows[s]) \in Nat
  BY LimitsAssumption DEF RequestInv, InvestigationTypeOK, Least
<1> QED BY <1>1, <1>2, <1>3, <1>4

\* A record that was looked up is described by two numbers.
LEMMA DetailedType ==
    ASSUME InvestigationTypeOK, NEW s, NEW matching \in Nat, NEW shown \in Nat,
           Detailed(s, matching, shown)
    PROVE  /\ DOMAIN details' = DOMAIN details \cup {s}
           /\ \A t \in DOMAIN details' : details'[t] \in [matching : Nat, shown : Nat]
BY DEF Detailed, InvestigationTypeOK

\* The lookups that succeed, and all of them.
Finds(l) ==
    \/ l = "count" /\ CountRecords
    \/ l = "list" /\ ListRecords
    \/ l = "metrics" /\ CountMetrics
    \/ l = "hosts" /\ ListHosts
    \/ l = "wazuh" /\ SelectWazuhDetails
    \/ l \in {"host_link", "agent_link"} /\ FindLink(l)
    \/ l = "host" /\ FindHost

\* Whatever is looked up, and whether it is found or fails, changes no more than that.
LEMMA FindShape ==
    ASSUME RequestInv, NEW l, Finds(l)
    PROVE  l \in todo /\ stage = "lookups" /\ Looks(l) /\ failed' = failed
<1>1. LookedUp(l) /\ l \in todo /\ stage = "lookups"
  BY DEF Finds, CountRecords, ListRecords, CountMetrics, ListHosts, SelectWazuhDetails, Listed,
         FindLink, FindHost, LookedUp, IsNext
<1>2. /\ UNCHANGED <<question, world, stage, device, broken, output, outcome, wasFine, failed,
                     worldChanges, lookupFailures>>
      /\ lookupFailures' \in Nat /\ broken' \in BOOLEAN /\ counted \in Nat
      /\ failed' \in SUBSET (failed \cup {About(l)})
  BY <1>1 DEF LookedUp, RequestInv, InvestigationTypeOK
<1>3. /\ About(l) \in AISource /\ DOMAIN summary = AISource
      /\ \A s \in AISource : rows[s] \in Nat /\ Least(DetailLimit, rows[s]) \in Nat
  BY <1>1, LookupStage
<1>4. /\ \A s \in DOMAIN details : details[s] \in [matching : Nat, shown : Nat]
      /\ \A s \in DOMAIN summary : summary[s] \in Reading
      /\ InvestigationTypeOK
  BY DEF RequestInv, InvestigationTypeOK
<1>5. CASE l = "count" /\ CountRecords
  <2>1. About(l) = AskedSource
    BY <1>5 DEF About
  <2>2. /\ todo' \subseteq todo /\ counted' \in Nat
        /\ UNCHANGED <<summary, details, limitations>>
    BY <1>3, <1>5, <2>1 DEF CountRecords
  <2> QED BY <1>1, <1>2, <1>4, <2>2 DEF Looks
<1>6. CASE l = "list" /\ ListRecords
  <2>1. About(l) = AskedSource
    BY <1>6 DEF About
  <2>2. /\ todo' \subseteq todo /\ UNCHANGED <<summary, counted>>
        /\ Detailed(AskedSource, counted, Least(DetailLimit, rows[AskedSource]))
        /\ limitations' = limitations \/ limitations' = Append(limitations, "bounded_records")
    BY <1>6 DEF ListRecords, Add
  <2>3. /\ DOMAIN details' = DOMAIN details \cup {About(l)}
        /\ \A t \in DOMAIN details' : details'[t] \in [matching : Nat, shown : Nat]
    BY <1>2, <1>3, <1>4, <2>1, <2>2, DetailedType
  <2> QED BY <1>1, <1>2, <1>4, <2>2, <2>3 DEF Looks, Limitation
<1>7. CASE l = "metrics" /\ CountMetrics
  <2>1. /\ todo' \subseteq todo /\ UNCHANGED <<counted, details>>
        /\ \/ limitations' = Append(limitations, "bounded_records")
           \/ limitations' = Append(limitations, "current_counts")
        /\ \/ summary' = summary
           \/ summary' = [summary EXCEPT !.freshservice.count = rows["freshservice"]]
    BY <1>7 DEF CountMetrics, Add
  <2>2. rows["freshservice"] \in Nat /\ "freshservice" \in AISource
    BY <1>3 DEF AISource
  <2>3. /\ DOMAIN summary' = DOMAIN summary
        /\ \A s \in DOMAIN summary :
            summary'[s] \in Reading /\ summary'[s].health = summary[s].health
    BY <1>3, <1>4, <2>1, <2>2 DEF Reading
  <2> QED BY <1>1, <1>2, <1>4, <2>1, <2>3 DEF Looks, Limitation
<1>8. ASSUME NEW s \in AISource, About(l) = s, Listed(l, s) PROVE Looks(l)
  <2>1. /\ todo' \subseteq todo /\ UNCHANGED <<summary, counted>>
        /\ Detailed(s, rows[s], Least(DetailLimit, rows[s]))
        /\ limitations' = Append(limitations, "bounded_records")
    BY <1>8 DEF Listed, Add
  <2>2. /\ DOMAIN details' = DOMAIN details \cup {About(l)}
        /\ \A t \in DOMAIN details' : details'[t] \in [matching : Nat, shown : Nat]
    BY <1>3, <1>4, <1>8, <2>1, DetailedType
  <2> QED BY <1>1, <1>2, <1>4, <2>1, <2>2 DEF Looks, Limitation
<1>9. CASE l = "hosts" /\ ListHosts
  BY <1>1, <1>2, <1>8, <1>9 DEF ListHosts, About, AISource
<1>10. CASE l = "wazuh" /\ SelectWazuhDetails
  BY <1>1, <1>2, <1>8, <1>10 DEF SelectWazuhDetails, About, AISource
<1>11. CASE l \in {"host_link", "agent_link"} /\ FindLink(l)
  <2>1. /\ todo' \subseteq todo /\ UNCHANGED <<summary, counted, details>>
        /\ \/ limitations' = limitations
           \/ limitations' = Append(limitations, NotAvailable(About(l)))
    BY <1>11 DEF FindLink, Add, Others
  <2> QED BY <1>1, <1>2, <1>3, <1>4, <2>1 DEF Looks, Limitation
<1>12. CASE l = "host" /\ FindHost
  <2>1. About(l) = "zabbix"
    BY <1>12 DEF About
  <2>2. /\ todo' \subseteq todo /\ UNCHANGED <<summary, counted>>
        /\ \/ (\E problems \in 0..1 : Detailed("zabbix", 1, problems)) /\ limitations' = limitations
           \/ UNCHANGED details /\ limitations' = Append(limitations, NotAvailable(About(l)))
    BY <1>12, <2>1 DEF FindHost, Add
  <2>3. /\ DOMAIN details' \in SUBSET (DOMAIN details \cup {About(l)})
        /\ \A t \in DOMAIN details' : details'[t] \in [matching : Nat, shown : Nat]
    <3>1. CASE \E problems \in 0..1 : Detailed("zabbix", 1, problems)
      <4>1. PICK problems \in 0..1 : Detailed("zabbix", 1, problems)
        BY <3>1
      <4>2. problems \in Nat /\ 1 \in Nat
        OBVIOUS
      <4> QED BY <1>4, <2>1, <4>1, <4>2, DetailedType
    <3>2. CASE details' = details
      BY <1>4, <3>2
    <3> QED BY <2>2, <3>1, <3>2
  <2> QED BY <1>1, <1>2, <1>3, <1>4, <2>2, <2>3 DEF Looks, Limitation
<1> QED BY <1>1, <1>2, <1>5, <1>6, <1>7, <1>9, <1>10, <1>11, <1>12 DEF Finds

\* A lookup that fails changes no more than one that does not.
LEMMA FailShape ==
    ASSUME RequestInv, NEW l \in todo, LookupFails(l)
    PROVE  stage = "lookups" /\ Looks(l)
<1>1. stage = "lookups" /\ About(l) \in AISource
  BY LookupStage DEF LookupFails
<1>2. /\ lookupFailures' \in Nat /\ broken' \in BOOLEAN
  <2>1. lookupFailures \in Nat /\ broken \in BOOLEAN
    BY DEF RequestInv, InvestigationTypeOK
  <2>2. \/ SourceRefuses
        \/ QueryBreaks
    BY DEF LookupFails
  <2>3. broken' = TRUE \/ broken' = broken
    BY <2>2 DEF SourceRefuses, QueryBreaks
  <2>4. lookupFailures' = lookupFailures \/ lookupFailures' = lookupFailures + 1
    BY <2>2, Zenon DEF SourceRefuses, QueryBreaks
  <2>5. broken' \in BOOLEAN
    BY <2>1, <2>3
  <2>6. lookupFailures' \in Nat
    BY <2>1, <2>4
  <2> QED BY <2>5, <2>6
<1>3. /\ DOMAIN details' \in SUBSET DOMAIN details
      /\ \A s \in DOMAIN details' : details'[s] \in [matching : Nat, shown : Nat]
  BY DEF LookupFails, RequestInv, InvestigationTypeOK
<1>4. /\ todo' \subseteq todo
      /\ failed' = failed \cup {About(l)}
      /\ limitations' = Append(limitations, NotAvailable(About(l)))
      /\ UNCHANGED <<question, world, stage, device, summary, counted, output, outcome, wasFine,
                     worldChanges>>
  BY DEF LookupFails, Add, Others
<1>5. counted \in Nat /\ \A s \in DOMAIN summary : summary[s] \in Reading
  BY DEF RequestInv, InvestigationTypeOK
<1>6. NotAvailable(About(l)) \in Limitation
  BY <1>1 DEF Limitation
<1> QED BY <1>1, <1>2, <1>3, <1>4, <1>5, <1>6 DEF Looks

\* The scope is a matter of the question, and the focus of the device besides.
LEMMA ScopeSame ==
    question' = question => /\ Scope' = Scope /\ AskedSource' = AskedSource
                            /\ \A l : About(l)' = About(l)
BY DEF Scope, AskedSource, Inferred, Eligible, Only, About

\* What is asked about depends on the question and the device alone.
LEMMA FocusSame ==
    ASSUME InvestigationTypeOK, UNCHANGED <<question, device>>
    PROVE  Focus' = Focus
<1>1. Scope' = Scope /\ AskedSource' = AskedSource
  BY ScopeSame
<1>2. CASE Scope = "environment"
  BY <1>1, <1>2 DEF Focus
<1>3. CASE Scope # "environment"
  BY <1>1, <1>3 DEF Focus, Selected
<1> QED BY <1>2, <1>3

\* A summary is read at its stage, and is of health only if the source is.
Reads(s, reading) ==
    /\ stage = s
    /\ reading \in Reading /\ (reading.health = "healthy" => s \in wasFine)
    /\ Summarised(s, reading)
    /\ broken' \in BOOLEAN /\ lookupFailures' \in Nat

\* However a summary is read, and whether or not it can be, there is a reading.
LEMMA ReadShape ==
    ASSUME RequestInv, NEW s \in AISource, ReadSummary(s) \/ ReadSummaryFails(s)
    PROVE  \E reading : Reads(s, reading)
<1>0. /\ lookupFailures \in Nat /\ broken \in BOOLEAN
      /\ health[s] \in {"healthy", "stale", "down"} /\ rows[s] \in Nat
  BY LimitsAssumption DEF RequestInv, InvestigationTypeOK
<1>1. CASE ReadSummary(s)
  <2> DEFINE reading == [health |-> health[s], count |-> rows[s]]
  <2>1. reading \in Reading /\ (reading.health = "healthy" => s \in wasFine)
    BY <1>0 DEF Reading, RequestInv, FineInv, FineNow
  <2>2. Reads(s, reading)
    BY <1>0, <1>1, <2>1 DEF ReadSummary, Reads
  <2> QED BY <2>2
<1>2. CASE ReadSummaryFails(s)
  <2> DEFINE reading == [health |-> "down", count |-> 0]
  <2>1. reading \in Reading /\ reading.health # "healthy"
    BY DEF Reading
  <2>2. stage = s /\ Summarised(s, reading) /\ (SourceRefuses \/ QueryBreaks)
    BY <1>2 DEF ReadSummaryFails
  <2>3. broken' = TRUE \/ broken' = broken
    BY <2>2 DEF SourceRefuses, QueryBreaks
  <2>4. lookupFailures' = lookupFailures \/ lookupFailures' = lookupFailures + 1
    BY <2>2, Zenon DEF SourceRefuses, QueryBreaks
  <2>5. broken' \in BOOLEAN
    BY <1>0, <2>3
  <2>6. lookupFailures' \in Nat
    BY <1>0, <2>4
  <2> QED BY <2>1, <2>2, <2>5, <2>6 DEF Reads
<1> QED BY <1>1, <1>2

\* A request ends before it has read anything, or when it has read everything.
Ends(how) ==
    /\ Ended(how)
    /\ \/ how \in {"refused", "ambiguous", "error"} /\ output' = output
       \/ how = "fixed" /\ stage = "model" /\ ~NeedsModel
       \/ how = "model" /\ stage = "model" /\ NeedsModel
    /\ stage \in {"ask", "model"}
    /\ output' \in [confidence : Confidence, about : AISource \cup {NoSource}, firm : BOOLEAN]

\* However a request ends, it ends in one way.
LEMMA EndShape ==
    ASSUME RequestInv,
           Refuse \/ Ambiguous \/ FindDeviceFails \/ AnswerWithoutModel \/ ModelAnswers \/ ModelFails
    PROVE  \E how : Ends(how)
<1>1. output \in [confidence : Confidence, about : AISource \cup {NoSource}, firm : BOOLEAN]
  BY DEF RequestInv, InvestigationTypeOK
<1>2. CASE Refuse
  <2>1. Ends("refused")
    BY <1>1, <1>2 DEF Refuse, Ends
  <2> QED BY <2>1
<1>3. CASE Ambiguous
  <2>1. Ends("ambiguous")
    BY <1>1, <1>3 DEF Ambiguous, Ends
  <2> QED BY <2>1
<1>4. CASE FindDeviceFails
  <2>1. Ends("error")
    BY <1>1, <1>4 DEF FindDeviceFails, Ends
  <2> QED BY <2>1
<1>5. CASE AnswerWithoutModel
  <2>1. output' \in [confidence : Confidence, about : AISource \cup {NoSource}, firm : BOOLEAN]
    BY <1>5 DEF AnswerWithoutModel, NoOutput, Confidence
  <2>2. Ends("fixed")
    BY <1>5, <2>1 DEF AnswerWithoutModel, Ends
  <2> QED BY <2>2
<1>6. CASE ModelAnswers
  <2>1. output' \in [confidence : Confidence, about : AISource \cup {NoSource}, firm : BOOLEAN]
    BY <1>6 DEF ModelAnswers
  <2>2. Ends("model")
    BY <1>6, <2>1 DEF ModelAnswers, Ends
  <2> QED BY <2>2
<1>7. CASE ModelFails
  <2>1. Ends("error")
    BY <1>1, <1>7 DEF ModelFails, Ends
  <2> QED BY <2>1
<1> QED BY <1>2, <1>3, <1>4, <1>5, <1>6, <1>7

\* Every step is one of these.
LEMMA RequestShape ==
    ASSUME RequestInv, [InvestigationNext]_investigationVars
    PROVE  \/ FindDevice
           \/ \E s \in AISource : \E reading : Reads(s, reading)
           \/ \E l \in todo : stage = "lookups" /\ Looks(l)
           \/ Prepared
           \/ \E how : Ends(how)
           \/ WorldChanges
           \/ UNCHANGED investigationVars
<1>1. CASE UNCHANGED investigationVars
  BY <1>1
<1>2. CASE WorldChanges
  BY <1>2
<1>3. CASE RequestStep
  <2>1. \/ FindDevice
        \/ Refuse \/ Ambiguous \/ FindDeviceFails \/ AnswerWithoutModel \/ ModelAnswers \/ ModelFails
        \/ \E s \in AISource : ReadSummary(s) \/ ReadSummaryFails(s)
        \/ \E l : Finds(l)
        \/ \E l \in todo : LookupFails(l)
        \/ Prepared
    BY <1>3 DEF RequestStep, Finds
  <2> QED BY <2>1, EndShape, ReadShape, FindShape, FailShape
<1> QED BY <1>1, <1>2, <1>3 DEF InvestigationNext

\* Every step keeps the course of the request.
LEMMA LooksKeep ==
    ASSUME RequestInv, stage = "lookups", NEW l \in todo, Looks(l)
    PROVE  RequestInv'
<1>1. /\ About(l) \in AISource /\ About(l) \in Focus /\ DOMAIN summary = AISource
      /\ question.kind = "investigate"
  BY LookupStage DEF RequestInv, StageInv
<1>2. InvestigationTypeOK'
  <2>1. limitations' \in Seq(Limitation)
    <3>1. limitations \in Seq(Limitation)
      BY DEF RequestInv, InvestigationTypeOK
    <3>2. CASE limitations' = limitations
      BY <3>1, <3>2
    <3>3. ASSUME NEW x \in Limitation, limitations' = Append(limitations, x)
          PROVE  limitations' \in Seq(Limitation)
      BY <3>1, <3>3
    <3> QED BY <3>2, <3>3 DEF Looks
  <2>2. /\ todo' \in SUBSET LookupNames
        /\ DOMAIN details' \subseteq AISource /\ failed' \in SUBSET AISource
    BY <1>1 DEF Looks, RequestInv, InvestigationTypeOK
  <2> QED BY <1>1, <2>1, <2>2 DEF Looks, RequestInv, InvestigationTypeOK, world
<1>3. StageInv'
  <2>1. stage' = "lookups" /\ question' = question /\ DOMAIN summary' = AISource
    BY <1>1 DEF Looks
  <2> QED BY <1>1, <2>1 DEF StageInv, ReadSoFar, AISource
<1>4. ScopeInv'
  <2>1. /\ Focus' = Focus /\ \A k : About(k)' = About(k)
    BY FocusSame, ScopeSame DEF Looks, RequestInv
  <2>2. {About(k) : k \in todo} \cup DOMAIN details \cup failed \subseteq Focus
    BY <1>1 DEF RequestInv, ScopeInv
  <2>3. /\ todo' \subseteq todo
        /\ failed' \in SUBSET (failed \cup {About(l)})
        /\ DOMAIN details' \in SUBSET (DOMAIN details \cup {About(l)})
    BY DEF Looks
  <2> QED BY <1>1, <2>1, <2>2, <2>3 DEF ScopeInv
<1>5. FineInv'
  BY <1>1 DEF Looks, RequestInv, FineInv, Fine, FineNow, world
<1> QED BY <1>2, <1>3, <1>4, <1>5 DEF RequestInv

\* Reading a summary keeps the invariant.
LEMMA ReadsKeep ==
    ASSUME RequestInv, NEW s \in AISource, NEW reading, Reads(s, reading)
    PROVE  RequestInv'
<1>1. /\ stage = s /\ reading \in Reading /\ (reading.health = "healthy" => s \in wasFine)
      /\ broken' \in BOOLEAN /\ lookupFailures' \in Nat
      /\ summary' = [t \in DOMAIN summary \cup {s} |-> IF t = s THEN reading ELSE summary[t]]
      /\ stage' = StageAfter(s)
      /\ todo' = IF StageAfter(s) = "lookups" THEN Lookups ELSE {}
      /\ UNCHANGED <<question, health, rows, links, device, counted, details, limitations, output,
                     outcome, wasFine, failed, worldChanges>>
  BY DEF Reads, Summarised, world
<1>2. DOMAIN details = {} /\ limitations = <<>> /\ failed = {} /\ todo = {}
  BY <1>1 DEF RequestInv, StageInv, AISource
<1>3. /\ StageAfter(s) \in {"zabbix", "snipe_it", "freshservice", "lookups", "model"}
      /\ StageAfter(s) = "lookups" => question.kind = "investigate"
  BY DEF StageAfter, AISource
<1>4. /\ Lookups \in SUBSET LookupNames
      /\ question.kind = "investigate" => {About(l) : l \in Lookups} \subseteq Focus
  <2>1. /\ AskedSource \in AISource \cup {NoSource} /\ device \in SUBSET AISource
        /\ Focus = CASE Scope = "environment" -> {}
                     [] Scope = "source" -> {AskedSource}
                     [] OTHER -> IF AskedSource = NoSource THEN device
                                                           ELSE {AskedSource} \cap device
    BY ScopeType, SelectedType DEF RequestInv, InvestigationTypeOK
  <2>3. CASE Scope = "source"
    BY <2>1, <2>3 DEF Lookups, About, AISource, LookupNames
  <2>4. CASE Scope = "device"
    <3>1. Lookups \in SUBSET {"host_link", "host", "agent_link", "wazuh"}
      BY <2>4 DEF Lookups
    <3>2. ASSUME NEW l \in Lookups, l \in {"host_link", "host"} PROVE About(l) \in Focus
      BY <2>1, <2>4, <3>2 DEF Lookups, HostWanted, About, NoSource
    <3>3. ASSUME NEW l \in Lookups, l \in {"agent_link", "wazuh"} PROVE About(l) \in Focus
      BY <2>1, <2>4, <3>3 DEF Lookups, About, NoSource
    <3> QED BY <3>1, <3>2, <3>3 DEF LookupNames
  <2>5. CASE Scope \notin {"source", "device"}
    BY <2>5 DEF Lookups, LookupNames
  <2> QED BY <2>3, <2>4, <2>5
<1>5. DOMAIN summary' = DOMAIN summary \cup {s} /\ \A t \in DOMAIN summary' : summary'[t] \in Reading
  BY <1>1 DEF RequestInv, InvestigationTypeOK
<1>6. InvestigationTypeOK'
  <2>1. stage' \in {"ask", "lookups", "model", "done"} \cup AISource
    BY <1>1, <1>3 DEF AISource
  <2>2. todo' \in SUBSET LookupNames
    BY <1>1, <1>4
  <2> QED BY <1>1, <1>5, <2>1, <2>2 DEF RequestInv, InvestigationTypeOK
<1>7. StageInv'
  <2>1. DOMAIN summary' = ReadSoFar'
    <3>1. DOMAIN summary = ReadSoFar
      BY DEF RequestInv, StageInv
    <3> QED BY <1>1, <1>5, <3>1 DEF ReadSoFar, StageAfter, AISource
  <2> QED BY <1>1, <1>2, <1>3, <2>1 DEF StageInv
<1>8. ScopeInv'
  <2>1. Focus' = Focus /\ \A k : About(k)' = About(k)
    BY <1>1, FocusSame, ScopeSame DEF RequestInv
  <2> QED BY <1>1, <1>2, <1>4, <2>1 DEF ScopeInv
<1>9. FineInv'
  BY <1>1, <1>5 DEF RequestInv, FineInv, Fine, FineNow
<1> QED BY <1>6, <1>7, <1>8, <1>9 DEF RequestInv

\* Ending a request keeps it.
LEMMA EndsKeep ==
    ASSUME RequestInv, NEW how, Ends(how)
    PROVE  RequestInv'
<1>1. /\ stage' = "done" /\ outcome' = how /\ stage \in {"ask", "model"}
      /\ how \in {"refused", "ambiguous", "error", "fixed", "model"}
      /\ how \in {"fixed", "model"} => stage = "model"
      /\ output' \in [confidence : Confidence, about : AISource \cup {NoSource}, firm : BOOLEAN]
      /\ UNCHANGED <<question, health, rows, links, todo, device, broken, summary, counted, details,
                     limitations, wasFine, failed, worldChanges, lookupFailures>>
  BY DEF Ends, Ended, evidenceVars, world
<1>2. InvestigationTypeOK'
  BY <1>1 DEF RequestInv, InvestigationTypeOK
<1>3. StageInv'
  <2>1. DOMAIN summary = ReadSoFar /\ todo = {}
    BY <1>1 DEF RequestInv, StageInv
  <2>2. DOMAIN summary' = ReadSoFar'
    BY <1>1, <2>1 DEF ReadSoFar, AISource
  <2> QED BY <1>1, <2>1, <2>2 DEF RequestInv, StageInv, AISource
<1>4. ScopeInv'
  <2>1. Focus' = Focus /\ \A k : About(k)' = About(k)
    BY <1>1, FocusSame, ScopeSame DEF RequestInv
  <2> QED BY <1>1, <2>1 DEF RequestInv, ScopeInv
<1>5. FineInv'
  BY <1>1 DEF RequestInv, FineInv, Fine, FineNow
<1> QED BY <1>2, <1>3, <1>4, <1>5 DEF RequestInv

\* Having looked everything up keeps it.
LEMMA PreparedKeep ==
    ASSUME RequestInv, Prepared
    PROVE  RequestInv'
<1>1. /\ stage = "lookups" /\ stage' = "model" /\ todo = {}
      /\ \/ limitations' = limitations
         \/ limitations' = Append(limitations, "no_specific_host")
      /\ UNCHANGED <<question, health, rows, links, todo, device, broken, summary, counted, details,
                     output, outcome, wasFine, failed, worldChanges, lookupFailures>>
  BY DEF Prepared, world
<1>2. InvestigationTypeOK'
  <2>1. limitations' \in Seq(Limitation)
    <3>1. "no_specific_host" \in Limitation
      BY DEF Limitation
    <3>2. limitations \in Seq(Limitation)
      BY DEF RequestInv, InvestigationTypeOK
    <3>3. \A x \in Limitation : Append(limitations, x) \in Seq(Limitation)
      BY <3>2
    <3> QED BY <1>1, <3>1, <3>2, <3>3, Zenon
  <2> QED BY <1>1, <2>1 DEF RequestInv, InvestigationTypeOK
<1>3. StageInv'
  BY <1>1 DEF RequestInv, StageInv, ReadSoFar, AISource
<1>4. ScopeInv'
  <2>1. Focus' = Focus /\ \A k : About(k)' = About(k)
    BY <1>1, FocusSame, ScopeSame DEF RequestInv
  <2> QED BY <1>1, <2>1 DEF RequestInv, ScopeInv
<1>5. FineInv'
  BY <1>1 DEF RequestInv, FineInv, Fine, FineNow
<1> QED BY <1>2, <1>3, <1>4, <1>5 DEF RequestInv

\* Finding the device keeps it.
LEMMA FindDeviceKeep ==
    ASSUME RequestInv, FindDevice
    PROVE  RequestInv'
<1>1. /\ stage = "ask" /\ stage' = "wazuh" /\ device' \in SUBSET AISource
      /\ UNCHANGED <<question, health, rows, links, todo, broken, summary, counted, details,
                     limitations, output, outcome, wasFine, failed, worldChanges, lookupFailures>>
  BY DEF FindDevice, world, RequestInv, InvestigationTypeOK
<1>2. DOMAIN details = {} /\ limitations = <<>> /\ failed = {} /\ todo = {}
  BY <1>1 DEF RequestInv, StageInv, AISource
<1>3. InvestigationTypeOK'
  BY <1>1 DEF RequestInv, InvestigationTypeOK, AISource
<1>4. StageInv'
  BY <1>1, <1>2 DEF RequestInv, StageInv, ReadSoFar, AISource
<1>5. ScopeInv'
  BY <1>1, <1>2 DEF ScopeInv
<1>6. FineInv'
  BY <1>1 DEF RequestInv, FineInv, Fine, FineNow
<1> QED BY <1>3, <1>4, <1>5, <1>6 DEF RequestInv

\* A change of the sources keeps it.
LEMMA WorldKeeps ==
    ASSUME RequestInv, WorldChanges
    PROVE  RequestInv'
<1>1. /\ wasFine' = wasFine \cup FineNow' /\ worldChanges' = worldChanges + 1
      /\ UNCHANGED <<question, stage, todo, device, broken, summary, counted, details, limitations,
                     output, outcome, failed, lookupFailures>>
  BY DEF WorldChanges, evidenceVars
<1>2. /\ health' \in [AISource -> {"healthy", "stale", "down"}]
      /\ rows' \in [AISource -> 0..MaxRows] /\ links' \in SUBSET AISource
  <2>1. /\ health \in [AISource -> {"healthy", "stale", "down"}]
        /\ rows \in [AISource -> 0..MaxRows] /\ links \in SUBSET AISource
    BY DEF RequestInv, InvestigationTypeOK
  <2>2. \A s \in AISource : MaxRows - rows[s] \in 0..MaxRows
    BY <2>1, LimitsAssumption
  <2>3. CASE /\ \E s \in AISource, h \in {"healthy", "stale", "down"} :
                  h # health[s] /\ health' = [health EXCEPT ![s] = h]
             /\ UNCHANGED <<rows, links>>
    BY <2>1, <2>3
  <2>4. CASE /\ \E s \in AISource : rows' = [rows EXCEPT ![s] = MaxRows - rows[s]]
             /\ UNCHANGED <<health, links>>
    BY <2>1, <2>2, <2>4
  <2>5. CASE /\ \E s \in AISource : links' = (links \ {s}) \cup ({s} \ links)
             /\ UNCHANGED <<health, rows>>
    BY <2>1, <2>5
  <2> QED BY <2>3, <2>4, <2>5 DEF WorldChanges
<1>3. FineNow' \in SUBSET AISource
  BY DEF FineNow
<1>4. InvestigationTypeOK'
  BY <1>1, <1>2, <1>3 DEF RequestInv, InvestigationTypeOK
<1>5. StageInv'
  BY <1>1 DEF RequestInv, StageInv, ReadSoFar
<1>6. ScopeInv'
  <2>1. Focus' = Focus /\ \A k : About(k)' = About(k)
    BY <1>1, FocusSame, ScopeSame DEF RequestInv
  <2> QED BY <1>1, <2>1 DEF RequestInv, ScopeInv
<1>7. FineInv'
  BY <1>1 DEF RequestInv, FineInv, Fine
<1> QED BY <1>4, <1>5, <1>6, <1>7 DEF RequestInv

\* Every step keeps the invariant of a request.
LEMMA RequestKeeps == RequestInv /\ [InvestigationNext]_investigationVars => RequestInv'
<1> SUFFICES ASSUME RequestInv, [InvestigationNext]_investigationVars PROVE RequestInv'
  OBVIOUS
<1>1. CASE UNCHANGED investigationVars
  <2>1. Focus' = Focus /\ \A k : About(k)' = About(k)
    BY <1>1, FocusSame, ScopeSame DEF RequestInv, investigationVars, evidenceVars
  <2>2. InvestigationTypeOK' /\ StageInv' /\ FineInv'
    BY <1>1 DEF RequestInv, investigationVars, evidenceVars, world, InvestigationTypeOK, StageInv,
                ReadSoFar, FineInv, Fine, FineNow
  <2>3. ScopeInv'
    BY <1>1, <2>1 DEF RequestInv, investigationVars, evidenceVars, ScopeInv
  <2> QED BY <2>2, <2>3 DEF RequestInv
<1> QED BY <1>1, RequestShape, LooksKeep, ReadsKeep, EndsKeep, PreparedKeep, FindDeviceKeep, WorldKeeps

\* Types, and the course of a request, for every question.
THEOREM InvestigationTypeCorrect == InvestigationSpec => []RequestInv
<1>1. InvestigationInit => RequestInv
  <2> SUFFICES ASSUME InvestigationInit PROVE RequestInv
    OBVIOUS
  <2>1. /\ DOMAIN summary = {} /\ DOMAIN details = {} /\ limitations \in Seq(Limitation)
        /\ stage = "ask" /\ todo = {} /\ failed = {} /\ wasFine = FineNow
    BY DEF InvestigationInit
  <2>2. InvestigationTypeOK
    <3>1. output \in [confidence : Confidence, about : AISource \cup {NoSource}, firm : BOOLEAN]
      BY DEF InvestigationInit, NoOutput, Confidence
    <3>2. rows \in [AISource -> 0..MaxRows]
      BY LimitsAssumption DEF InvestigationInit
    <3>3. links \in SUBSET AISource /\ wasFine \in SUBSET AISource
      BY DEF InvestigationInit, FineNow
    <3> QED BY <2>1, <3>1, <3>2, <3>3 DEF InvestigationInit, InvestigationTypeOK
  <2>3. StageInv
    BY <2>1 DEF InvestigationInit, StageInv, ReadSoFar
  <2> QED BY <2>1, <2>2, <2>3 DEF RequestInv, ScopeInv, FineInv
<1> QED BY <1>1, RequestKeeps, PTL DEF InvestigationSpec

-----------------------------------------------------------------------------
(* The confidence of an answer *)

\* The model is asked exactly when there is something to ask.
ModelInv ==
    stage = "done" => (outcome = "model" => NeedsModel) /\ (outcome = "fixed" => ~NeedsModel)

\* Whether the model is needed depends on what was read.
LEMMA NeedsSame == UNCHANGED <<question, summary, device>> => NeedsModel' = NeedsModel
<1> SUFFICES ASSUME UNCHANGED <<question, summary, device>> PROVE NeedsModel' = NeedsModel
  OBVIOUS
<1>1. Scope' = Scope /\ AskedSource' = AskedSource
  BY ScopeSame
<1>2. Selected' = Selected
  BY <1>1 DEF Selected, Fine
<1>3. Adverse(Summarises)' = Adverse(Summarises)
  BY DEF Adverse, Summarises, Fine
<1> QED BY <1>1, <1>2, <1>3 DEF NeedsModel

\* Every step keeps it so.
LEMMA ModelStep ==
    RequestInv /\ ModelInv /\ [InvestigationNext]_investigationVars => ModelInv'
<1> SUFFICES ASSUME RequestInv, ModelInv, [InvestigationNext]_investigationVars PROVE ModelInv'
  OBVIOUS
<1>1. ASSUME NEW how, Ends(how) PROVE ModelInv'
  <2>1. UNCHANGED <<question, summary, device>> /\ outcome' = how
    BY <1>1 DEF Ends, Ended, evidenceVars
  <2> QED BY <1>1, <2>1, NeedsSame DEF Ends, ModelInv
<1>2. CASE UNCHANGED investigationVars
  BY <1>2, NeedsSame DEF investigationVars, evidenceVars, ModelInv
<1>3. CASE stage' # "done"
  BY <1>3 DEF ModelInv
<1>4. ASSUME NEW s \in AISource, NEW reading, Reads(s, reading) PROVE stage' # "done"
  BY <1>4 DEF Reads, Summarised, StageAfter
<1>5. ASSUME NEW l \in todo, stage = "lookups", Looks(l) PROVE stage' # "done"
  BY <1>5 DEF Looks
<1>6. FindDevice \/ Prepared \/ WorldChanges => stage' # "done"
  BY DEF FindDevice, Prepared, WorldChanges
<1> QED BY <1>1, <1>2, <1>3, <1>4, <1>5, <1>6, RequestShape

\* When there is an answer, all sources have been read.
LEMMA AllRead ==
    ASSUME RequestInv, NEW kinds, AnswersAre(kinds)
    PROVE  \A s \in AISource : s \in DOMAIN summary /\ (Fine(s) => s \in wasFine)
BY DEF RequestInv, StageInv, FineInv, ReadSoFar, AnswersAre, AISource

\* There are four sources.
LEMMA SourcesFinite == IsFiniteSet(AISource)
<1>1. IsFiniteSet({}) /\ \A S, x : IsFiniteSet(S) => IsFiniteSet(S \cup {x})
  BY FS_EmptySet, FS_AddElement
<1>2. AISource = ((({} \cup {"wazuh"}) \cup {"zabbix"}) \cup {"snipe_it"}) \cup {"freshservice"}
  BY DEF AISource
<1> QED BY <1>1, <1>2, Zenon

\* No answer is more confident than the sources warrant.
THEOREM ConfidenceCorrect == InvestigationSpec => []ConfidenceWarranted
<1>1. RequestInv => ConfidenceWarranted
  <2> SUFFICES ASSUME RequestInv PROVE ConfidenceWarranted
    OBVIOUS
  <2>1. ASSUME AnswersAre({"investigate"}), Grounded # "low" PROVE Selected \subseteq wasFine
    <3>1. \A s \in Selected : Fine(s)
      BY <2>1 DEF Grounded
    <3> QED BY <2>1, <3>1, AllRead, SelectedType DEF RequestInv
  <2>2. ASSUME AnswersAre({"dashboard"})
        PROVE  /\ Executive = "high" => AISource \subseteq wasFine
               /\ Executive = "medium" => Cardinality(AISource \ wasFine) <= 1
               /\ \A s \in AISource : Section(s) = "high" => s \in wasFine
    <3>1. IsFiniteSet(AISource)
      BY SourcesFinite
    <3>2. AISource \ wasFine \in SUBSET Affected /\ Affected \in SUBSET AISource
      BY <2>2, AllRead DEF Affected
    <3>3. /\ IsFiniteSet(Affected) /\ Cardinality(Affected) \in Nat
          /\ Cardinality(AISource \ wasFine) <= Cardinality(Affected)
          /\ Cardinality(AISource \ wasFine) \in Nat
      BY <3>1, <3>2, FS_Subset, FS_CardinalityType
    <3>4. Executive = "high" => Cardinality(Affected) = 0
      BY <3>3 DEF Executive
    <3>5. Executive = "medium" => Cardinality(Affected) <= 1
      BY <3>3 DEF Executive
    <3>6. Cardinality(Affected) = 0 => Affected = {}
      BY <3>3, FS_EmptySet
    <3>7. \A s \in AISource : Section(s) = "high" => Fine(s)
      BY DEF Section, Lowered
    <3> QED BY <2>2, <3>2, <3>3, <3>4, <3>5, <3>6, <3>7, AllRead
  <2>3. ASSUME NEW s \in AISource, AnswersAre({s}), Lowered(s, output.confidence) = "high"
        PROVE  s \in wasFine
    <3>1. Fine(s)
      BY <2>3 DEF Lowered
    <3> QED BY <2>3, <3>1, AllRead
  <2> QED BY <2>1, <2>2, <2>3 DEF ConfidenceWarranted
<1> QED BY <1>1, InvestigationTypeCorrect, PTL

\* The sections of a dashboard summary agree with the summary.
THEOREM SectionsCorrect == InvestigationSpec => []SectionsAgree
<1>1. InvestigationInit => ModelInv
  BY DEF InvestigationInit, ModelInv
<1>2. RequestInv /\ ModelInv => SectionsAgree
  <2> SUFFICES ASSUME RequestInv, ModelInv, AnswersAre({"dashboard"})
               PROVE  /\ outcome = "fixed" <=> \A s \in AISource : Section(s) = "high"
                      /\ Executive = "high" => \A s \in AISource : Section(s) # "low"
    BY DEF SectionsAgree
  <2>1. NeedsModel <=> Adverse(AISource) # {}
    BY DEF AnswersAre, NeedsModel, Summarises
  <2>2. outcome = "fixed" <=> Adverse(AISource) = {}
    BY <2>1 DEF AnswersAre, ModelInv
  <2>3. \A s \in AISource : Section(s) = "high" <=> s \notin Adverse(AISource)
    BY DEF Section, Lowered, Adverse, Fine
  <2>4. \A s \in AISource : s \notin Affected => Section(s) # "low"
    BY DEF Affected, Section, Lowered, Fine
  <2>5. Executive = "high" => Affected = {}
    <3>1. Affected \in SUBSET AISource
      BY DEF Affected
    <3>2. IsFiniteSet(AISource)
      BY SourcesFinite
    <3>3. IsFiniteSet(Affected) /\ Cardinality(Affected) \in Nat
      BY <3>1, <3>2, FS_Subset, FS_CardinalityType
    <3>4. Executive = "high" => Cardinality(Affected) = 0
      BY <3>3 DEF Executive
    <3> QED BY <3>3, <3>4, FS_EmptySet
  <2>6. outcome = "fixed" <=> \A s \in AISource : Section(s) = "high"
    <3>1. Adverse(AISource) \in SUBSET AISource
      BY DEF Adverse
    <3> QED BY <2>2, <2>3, <3>1
  <2>7. Executive = "high" => \A s \in AISource : Section(s) # "low"
    BY <2>4, <2>5
  <2> QED BY <2>6, <2>7
<1> QED BY <1>1, <1>2, InvestigationTypeCorrect, ModelStep, PTL DEF InvestigationSpec

-----------------------------------------------------------------------------
(* The lines of an answer *)

What == {"identity", "status", "reason", "metric", "matching", "record", "note"}
Lines(S) == Seq([about : S, what : What])

\* A line of its own.
LEMMA LineType ==
    ASSUME NEW S, NEW s \in S, NEW what \in What
    PROVE  /\ Line(s, what) \in Lines(S) /\ Line(s, what) # <<>>
           /\ Line(s, what)[1] = [about |-> s, what |-> what]
           /\ Line(s, what)[1] \in [about : S, what : What]
BY DEF Line, Lines

\* Something n times over is a sequence.
LEMMA TimesType ==
    ASSUME NEW X, NEW x \in X, NEW n \in Nat
    PROVE  Times(n, x) \in Seq(X)
BY DEF Times

\* No lines are lines.
LEMMA EmptyLines == \A S : <<>> \in Lines(S)
BY DEF Lines

\* n lines of the same kind.
LEMMA TimesLines ==
    ASSUME NEW S, NEW s \in S, NEW what \in What, NEW n \in Nat
    PROVE  Times(n, Line(s, what)[1]) \in Lines(S)
<1>1. Line(s, what)[1] \in [about : S, what : What]
  BY LineType
<1> QED BY <1>1, TimesType DEF Lines

\* So are lines after lines.
LEMMA ConcatLines ==
    ASSUME NEW S, NEW a \in Lines(S), NEW b \in Lines(S)
    PROVE  a \o b \in Lines(S)
BY DEF Lines

\* And lines that are cut off.
LEMMA CutLines ==
    ASSUME NEW S, NEW a \in Lines(S), NEW n \in Nat
    PROVE  SubSeq(a, 1, Least(n, Len(a))) \in Lines(S)
<1>1. Len(a) \in Nat /\ a \in Seq([about : S, what : What])
  BY DEF Lines
<1>2. Least(n, Len(a)) \in 0..Len(a)
  BY <1>1 DEF Least
<1>3. \A k \in 0..Len(a) : SubSeq(a, 1, k) \in Seq([about : S, what : What])
  <2> SUFFICES ASSUME NEW k \in 0..Len(a) PROVE SubSeq(a, 1, k) \in Seq([about : S, what : What])
    OBVIOUS
  <2> DEFINE X == [about : S, what : What]
  <2>1. a \in Seq(X) /\ 1 \in 1..(Len(a) + 1) /\ k \in (1 - 1)..Len(a)
    BY <1>1
  <2> HIDE DEF X
  <2>2. SubSeq(a, 1, k) \in Seq(X)
    BY <2>1, SubSeqProperties
  <2> QED BY <2>2 DEF X
<1> QED BY <1>2, <1>3 DEF Lines

\* The sources in turn.
LEMMA InOrderLines ==
    ASSUME NEW S, NEW f, \A s \in DOMAIN f : f[s] \in Lines(S)
    PROVE  InOrder(f) \in Lines(S)
<1> DEFINE of(s) == IF s \in DOMAIN f THEN f[s] ELSE <<>>
<1>1. <<>> \in Lines(S)
  BY DEF Lines
<1>2. of("wazuh") \in Lines(S) /\ of("zabbix") \in Lines(S)
      /\ of("snipe_it") \in Lines(S) /\ of("freshservice") \in Lines(S)
  BY <1>1
<1>3. of("wazuh") \o of("zabbix") \in Lines(S)
  BY <1>2, ConcatLines
<1>4. of("wazuh") \o of("zabbix") \o of("snipe_it") \in Lines(S)
  BY <1>2, <1>3, ConcatLines
<1>5. of("wazuh") \o of("zabbix") \o of("snipe_it") \o of("freshservice") \in Lines(S)
  BY <1>2, <1>4, ConcatLines
<1> QED BY <1>5 DEF InOrder

\* The lines about one source are about it.
LEMMA SourceLinesType ==
    ASSUME InvestigationTypeOK, NEW S, NEW s \in S \cap AISource
    PROVE  SourceLines(s) \in Lines(S) /\ (LookedAt(s) => RecordLines(s) \in Lines(S))
<1>0. /\ s \in S /\ s \in AISource /\ <<>> \in Lines(S)
      /\ {"status", "reason", "metric", "matching", "record"} \subseteq What
  BY EmptyLines DEF What
<1>1. Least(4, WarningsOf(s)) \in Nat
  <2>1. Notes[s] \in Nat
    BY LimitsAssumption
  <2>2. WarningsOf(s) \in Nat
    BY <2>1 DEF WarningsOf
  <2> QED BY <2>2 DEF Least
<1>2. Counters[s] \in Nat
  BY DEF Counters, AISource
<1>3. LookedAt(s) => RecordLines(s) \in Lines(S)
  <2> SUFFICES ASSUME LookedAt(s) PROVE RecordLines(s) \in Lines(S)
    OBVIOUS
  <2>1. details[s].shown \in Nat
    BY DEF LookedAt, InvestigationTypeOK
  <2>2. Line(s, "matching") \in Lines(S) /\ Times(details[s].shown, Line(s, "record")[1]) \in Lines(S)
    BY <1>0, <2>1, LineType, TimesLines
  <2> QED BY <2>2, ConcatLines DEF RecordLines
<1> DEFINE a == IF ~Fine(s) \/ Scope = "source" THEN Line(s, "status") ELSE <<>>
           b == IF Fine(s) THEN <<>> ELSE Times(Least(4, WarningsOf(s)), Line(s, "reason")[1])
           c == IF LookedAt(s) /\ (s = "wazuh" => details[s].matching > 0) /\ s # "zabbix"
                THEN RecordLines(s) ELSE <<>>
           d == IF ShowsMetrics(s) /\ (summary[s].count > 0 \/ (Scope = "source" /\ Fine(s)))
                THEN Times(Counters[s], Line(s, "metric")[1]) ELSE <<>>
<1>4. a \in Lines(S)
  BY <1>0, LineType
<1>5. b \in Lines(S)
  BY <1>0, <1>1, TimesLines
<1>6. c \in Lines(S)
  BY <1>0, <1>3
<1>7. d \in Lines(S)
  BY <1>0, <1>2, TimesLines
<1> HIDE DEF a, b, c, d
<1>8. a \o b \in Lines(S)
  BY <1>4, <1>5, ConcatLines
<1>9. a \o b \o c \in Lines(S)
  BY <1>6, <1>8, ConcatLines
<1>10. a \o b \o c \o d \in Lines(S)
  BY <1>7, <1>9, ConcatLines
<1> QED BY <1>3, <1>10 DEF SourceLines, a, b, c, d

\* No fact of an answer is about a source that was not selected.
THEOREM ScopeCorrect == InvestigationSpec => []StaysInScope
<1>1. RequestInv => StaysInScope
  <2> SUFFICES ASSUME RequestInv, AnswersAre({"investigate"})
               PROVE  {line.about : line \in ToSet(Facts)} \subseteq Selected \cup {"device"}
    BY DEF StaysInScope
  <2> DEFINE S == Selected \cup {"device"}
             identity == IF Scope = "device" THEN Times(3, Line("device", "identity")[1]) ELSE <<>>
             hosts == IF LookedAt("zabbix") THEN RecordLines("zabbix") ELSE <<>>
             sources == InOrder([s \in Selected |-> SourceLines(s)])
  <2>0. InvestigationTypeOK /\ Selected \in SUBSET AISource /\ <<>> \in Lines(S)
    BY SelectedType, EmptyLines DEF RequestInv
  <2>1. identity \in Lines(S)
    <3>1. "device" \in S /\ "identity" \in What /\ 3 \in Nat
      BY DEF What
    <3>2. Times(3, Line("device", "identity")[1]) \in Lines(S)
      <4> HIDE DEF S
      <4> QED BY <3>1, TimesLines
    <3> QED BY <2>0, <3>2
  <2>2. hosts \in Lines(S)
    <3>1. ASSUME LookedAt("zabbix") PROVE "zabbix" \in S \cap AISource
      <4>1. "zabbix" \in Focus
        BY <3>1 DEF LookedAt, RequestInv, ScopeInv, AnswersAre
      <4> QED BY <2>0, <4>1, SelectedType
    <3> QED BY <2>0, <3>1, SourceLinesType
  <2>3. sources \in Lines(S)
    <3>1. \A s \in Selected : SourceLines(s) \in Lines(S)
      BY <2>0, SourceLinesType
    <3>2. \A t \in DOMAIN [s \in Selected |-> SourceLines(s)] :
                [s \in Selected |-> SourceLines(s)][t] \in Lines(S)
      BY <3>1
    <3> QED BY <3>2, InOrderLines
  <2> HIDE DEF S, identity, hosts, sources
  <2>4. identity \o hosts \in Lines(S)
    BY <2>1, <2>2, ConcatLines
  <2>5. identity \o hosts \o sources \in Lines(S)
    BY <2>3, <2>4, ConcatLines
  <2>6. SubSeq(identity \o hosts \o sources, 1,
               Least(FactLimit, Len(identity \o hosts \o sources))) \in Lines(S)
    BY <2>5, CutLines, LimitsAssumption
  <2>7. Facts \in Lines(S)
    BY <2>6 DEF Facts, identity, hosts, sources
  <2>8. {line.about : line \in ToSet(Facts)} \subseteq S
    <3>1. ASSUME NEW i \in DOMAIN Facts PROVE Facts[i].about \in S
      <4>1. Facts \in Seq([about : S, what : What]) /\ i \in 1..Len(Facts)
        BY <2>7 DEF Lines
      <4>2. Facts[i] \in [about : S, what : What]
        BY <4>1, ElementOfSeq
      <4> QED BY <4>2
    <3> QED BY <3>1 DEF ToSet
  <2> QED BY <2>8 DEF S
<1> QED BY <1>1, InvestigationTypeCorrect, PTL

-----------------------------------------------------------------------------
(* Missing evidence *)

\* A lookup is made after those it depends on.
LEMMA NextOrder ==
    /\ IsNext("list") => "count" \notin todo
    /\ IsNext("host") => "host_link" \notin todo
    /\ IsNext("wazuh") => "agent_link" \notin todo
<1>1. /\ DOMAIN LookupOrder = 1..8
      /\ LookupOrder[1] = "count" /\ LookupOrder[2] = "list" /\ LookupOrder[3] = "metrics"
      /\ LookupOrder[4] = "hosts" /\ LookupOrder[5] = "host_link" /\ LookupOrder[6] = "host"
      /\ LookupOrder[7] = "agent_link" /\ LookupOrder[8] = "wazuh"
  BY DEF LookupOrder
<1>2. ASSUME NEW i \in 1..8
      PROVE  /\ LookupOrder[i] = "list" => i = 2
             /\ LookupOrder[i] = "host" => i = 6
             /\ LookupOrder[i] = "wazuh" => i = 8
  <2>1. i = 1 \/ i = 2 \/ i = 3 \/ i = 4 \/ i = 5 \/ i = 6 \/ i = 7 \/ i = 8
    OBVIOUS
  <2> QED BY <1>1, <2>1
<1>3. 1 \in 1..(2 - 1) /\ 5 \in 1..(6 - 1) /\ 7 \in 1..(8 - 1)
  OBVIOUS
<1>4. IsNext("list") => "count" \notin todo
  BY <1>1, <1>2, <1>3 DEF IsNext
<1>5. IsNext("host") => "host_link" \notin todo
  BY <1>1, <1>2, <1>3 DEF IsNext
<1>6. IsNext("wazuh") => "agent_link" \notin todo
  BY <1>1, <1>2, <1>3 DEF IsNext
<1> QED BY <1>4, <1>5, <1>6

\* The limitations that the lookups of T may add.
DueRecords(T) == IF T \cap {"count", "list"} = {} THEN 0 ELSE 1
DueMetrics(T) == IF T \cap {"metrics"} = {} THEN 0 ELSE 1
DueHosts(T) == IF T \cap {"hosts"} = {} THEN 0 ELSE 1
DueHost(T) == IF T \cap {"host_link", "host"} = {} THEN 0 ELSE 1
DueAgent(T) == IF T \cap {"agent_link", "wazuh"} = {} THEN 0 ELSE 1
Due(T) == DueRecords(T) + DueMetrics(T) + DueHosts(T) + DueHost(T) + DueAgent(T)

\* Every failure is among the limitations, which are few.
LimitInv ==
    /\ Len(limitations) + Due(todo) <= 3
    /\ stage \notin {"model", "done"} \/ Scope = "device" => Len(limitations) + Due(todo) <= 2
    /\ \A s \in failed : \E i \in DOMAIN limitations : limitations[i] = NotAvailable(s)

\* Each kind of lookup adds one limitation at most.
LEMMA DueTypes ==
    ASSUME NEW T
    PROVE  /\ DueRecords(T) \in 0..1
           /\ DueMetrics(T) \in 0..1
           /\ DueHosts(T) \in 0..1
           /\ DueHost(T) \in 0..1
           /\ DueAgent(T) \in 0..1
BY DEF DueRecords, DueMetrics, DueHosts, DueHost, DueAgent

\* Fewer lookups add fewer limitations.
LEMMA DueTerms ==
    ASSUME NEW T, NEW U \in SUBSET T
    PROVE  /\ DueRecords(U) <= DueRecords(T)
           /\ DueMetrics(U) <= DueMetrics(T)
           /\ DueHosts(U) <= DueHosts(T)
           /\ DueHost(U) <= DueHost(T)
           /\ DueAgent(U) <= DueAgent(T)
<1>1. DueRecords(U) <= DueRecords(T)
  BY DEF DueRecords
<1>2. DueMetrics(U) <= DueMetrics(T)
  BY DEF DueMetrics
<1>3. DueHosts(U) <= DueHosts(T)
  BY DEF DueHosts
<1>4. DueHost(U) <= DueHost(T)
  BY DEF DueHost
<1>5. DueAgent(U) <= DueAgent(T)
  BY DEF DueAgent
<1> QED BY <1>1, <1>2, <1>3, <1>4, <1>5

\* Fewer lookups have fewer limitations due.
LEMMA DueLess ==
    ASSUME NEW T, NEW U \in SUBSET T
    PROVE  Due(U) \in Nat /\ Due(T) \in Nat /\ Due(U) <= Due(T)
BY DueTypes, DueTerms DEF Due

\* A lookup is made, and with it those that depend on it or it depends on.
LEMMA DueMade ==
    ASSUME NEW T, NEW U \in SUBSET T, NEW l \in T \cap LookupNames, l \notin U,
           l \in {"count", "list"} => U \cap {"count", "list"} = {},
           l \in {"host_link", "host"} => U \cap {"host_link", "host"} = {},
           l \in {"agent_link", "wazuh"} => U \cap {"agent_link", "wazuh"} = {}
    PROVE  Due(U) <= Due(T) - 1
<1>1. CASE l \in {"count", "list"}
  <2>1. DueRecords(T) = 1 /\ DueRecords(U) = 0
    BY <1>1 DEF DueRecords
  <2> QED BY <2>1, DueTypes, DueTerms DEF Due
<1>2. CASE l = "metrics"
  <2>1. DueMetrics(T) = 1 /\ DueMetrics(U) = 0
    BY <1>2 DEF DueMetrics
  <2> QED BY <2>1, DueTypes, DueTerms DEF Due
<1>3. CASE l = "hosts"
  <2>1. DueHosts(T) = 1 /\ DueHosts(U) = 0
    BY <1>3 DEF DueHosts
  <2> QED BY <2>1, DueTypes, DueTerms DEF Due
<1>4. CASE l \in {"host_link", "host"}
  <2>1. DueHost(T) = 1 /\ DueHost(U) = 0
    BY <1>4 DEF DueHost
  <2> QED BY <2>1, DueTypes, DueTerms DEF Due
<1>5. CASE l \in {"agent_link", "wazuh"}
  <2>1. DueAgent(T) = 1 /\ DueAgent(U) = 0
    BY <1>5 DEF DueAgent
  <2> QED BY <2>1, DueTypes, DueTerms DEF Due
<1> QED BY <1>1, <1>2, <1>3, <1>4, <1>5 DEF LookupNames

\* A lookup that adds a limitation was due to.
LEMMA DueStep ==
    ASSUME RequestInv, NEW l, Finds(l) \/ (l \in todo /\ LookupFails(l))
    PROVE  \/ limitations' = limitations /\ Due(todo') <= Due(todo)
           \/ /\ \E x \in Limitation : limitations' = Append(limitations, x)
              /\ Due(todo') <= Due(todo) - 1
<1>0. todo' \subseteq todo /\ l \in todo /\ l \in LookupNames
  BY FindShape, FailShape DEF Looks, RequestInv, InvestigationTypeOK
<1>1. \/ limitations' = limitations
      \/ \E x \in Limitation : limitations' = Append(limitations, x)
  BY FindShape, FailShape DEF Looks
<1>2. Due(todo') <= Due(todo)
  BY <1>0, DueLess
<1>3. CASE todo' = Others(l)
  <2>1. l \notin todo' /\ \A k \in todo' : About(k) # About(l)
    BY <1>3 DEF Others
  <2>2. /\ About("count") = About("list")
        /\ About("host_link") = About("host") /\ About("agent_link") = About("wazuh")
    BY DEF About
  <2>3. Due(todo') <= Due(todo) - 1
    BY <1>0, <2>1, <2>2, DueMade
  <2> QED BY <1>1, <1>2, <2>3
<1>4. CASE Finds(l) /\ todo' # Others(l)
  <2>1. IsNext(l)
    BY <1>4 DEF Finds, CountRecords, ListRecords, CountMetrics, ListHosts, SelectWazuhDetails,
                Listed, FindLink, FindHost, LookedUp
  <2>2. CASE l \in {"list", "metrics", "hosts", "host", "wazuh"}
    <3>1. l \notin todo'
      BY <1>4, <2>2 DEF Finds, CountRecords, ListRecords, CountMetrics, ListHosts,
                        SelectWazuhDetails, Listed, FindHost
    <3>2. /\ l = "list" => "count" \notin todo'
          /\ l = "host" => "host_link" \notin todo'
          /\ l = "wazuh" => "agent_link" \notin todo'
      BY <1>0, <2>1, NextOrder
    <3>3. Due(todo') <= Due(todo) - 1
      BY <1>0, <2>2, <3>1, <3>2, DueMade
    <3> QED BY <1>1, <1>2, <3>3
  <2>3. CASE l = "count" \/ (l \in {"host_link", "agent_link"} /\ FindLink(l))
    <3>1. limitations' = limitations
      BY <1>4, <2>3 DEF Finds, CountRecords, FindLink
    <3> QED BY <1>2, <3>1
  <2> QED BY <1>4, <2>2, <2>3 DEF Finds
<1> QED BY <1>3, <1>4 DEF LookupFails

\* At most two groups of lookups are made for one question.
LEMMA DueLookups == Due({}) = 0 /\ Due(Lookups) \in 0..2
<1>1. Due({}) = 0
  BY DEF Due, DueRecords, DueMetrics, DueHosts, DueHost, DueAgent
<1>2. ASSUME Scope = "source" PROVE Due(Lookups) \in 0..2
  <2>1. \/ Lookups \subseteq {"count", "list", "metrics"}
        \/ Lookups \subseteq {"hosts"}
        \/ Lookups \subseteq {"wazuh"}
    BY <1>2 DEF Lookups
  <2>2. CASE Lookups \subseteq {"count", "list", "metrics"}
    <3>1. DueHosts(Lookups) = 0 /\ DueHost(Lookups) = 0 /\ DueAgent(Lookups) = 0
      BY <2>2 DEF DueHosts, DueHost, DueAgent
    <3> QED BY <3>1, DueTypes DEF Due
  <2>3. CASE Lookups \subseteq {"hosts"} \/ Lookups \subseteq {"wazuh"}
    <3>1. DueRecords(Lookups) = 0 /\ DueMetrics(Lookups) = 0 /\ DueHost(Lookups) = 0
      BY <2>3 DEF DueRecords, DueMetrics, DueHost
    <3> QED BY <3>1, DueTypes DEF Due
  <2> QED BY <2>1, <2>2, <2>3
<1>3. ASSUME Scope # "source" PROVE Due(Lookups) \in 0..2
  <2>1. Lookups \subseteq {"host_link", "host", "agent_link", "wazuh"}
    BY <1>3 DEF Lookups
  <2>2. DueRecords(Lookups) = 0 /\ DueMetrics(Lookups) = 0 /\ DueHosts(Lookups) = 0
    BY <2>1 DEF DueRecords, DueMetrics, DueHosts
  <2> QED BY <2>2, DueTypes DEF Due
<1> QED BY <1>1, <1>2, <1>3

\* A lookup that fails says so.
LEMMA Says ==
    ASSUME RequestInv, NEW l, Finds(l) \/ (l \in todo /\ LookupFails(l))
    PROVE  \/ failed' = failed
           \/ failed' = failed \cup {About(l)}
              /\ limitations' = Append(limitations, NotAvailable(About(l)))
<1>1. CASE Finds(l)
  BY <1>1, FindShape
<1>2. CASE LookupFails(l)
  BY <1>2 DEF LookupFails, Add
<1> QED BY <1>1, <1>2

\* What has been said is not taken back.
LEMMA SaidStays ==
    ASSUME limitations \in Seq(Limitation), NEW x \in Limitation,
           limitations' = Append(limitations, x)
    PROVE  /\ Len(limitations') = Len(limitations) + 1
           /\ \A i \in DOMAIN limitations : i \in DOMAIN limitations' /\ limitations'[i] = limitations[i]
           /\ Len(limitations') \in DOMAIN limitations' /\ limitations'[Len(limitations')] = x
<1>1. \A i \in DOMAIN limitations : i \in 1..Len(limitations)
  OBVIOUS
<1> QED BY <1>1

\* Every step keeps the bound on the limitations.
LEMMA LimitKeeps ==
    RequestInv /\ LimitInv /\ [InvestigationNext]_investigationVars => LimitInv'
<1> SUFFICES ASSUME RequestInv, LimitInv, [InvestigationNext]_investigationVars
             PROVE  LimitInv'
  OBVIOUS
<1>0. limitations \in Seq(Limitation) /\ Len(limitations) \in Nat /\ Due(todo) \in Nat
  BY DueLess DEF RequestInv, InvestigationTypeOK
<1>1. CASE \E l : Finds(l) \/ (l \in todo /\ LookupFails(l))
  <2>1. PICK l : Finds(l) \/ (l \in todo /\ LookupFails(l))
    BY <1>1
  <2>2. stage = "lookups" /\ stage' = "lookups" /\ question' = question /\ Due(todo') \in Nat
        /\ todo' \subseteq todo
    BY <2>1, FindShape, FailShape, DueLess DEF Looks
  <2>3. Scope' = Scope
    BY <2>2, ScopeSame
  <2>4. CASE limitations' = limitations /\ Due(todo') <= Due(todo)
    <3>1. failed' = failed
      <4>1. limitations # Append(limitations, NotAvailable(About(l)))
        BY <1>0
      <4> QED BY <2>1, <2>4, <4>1, Says
    <3>2. Len(limitations') + Due(todo') <= Len(limitations) + Due(todo)
      BY <1>0, <2>2, <2>4
    <3> QED BY <1>0, <2>2, <2>3, <2>4, <3>1, <3>2 DEF LimitInv
  <2>5. CASE /\ \E x \in Limitation : limitations' = Append(limitations, x)
             /\ Due(todo') <= Due(todo) - 1
    <3>1. PICK x \in Limitation : limitations' = Append(limitations, x)
      BY <2>5
    <3>2. /\ Len(limitations') = Len(limitations) + 1
          /\ \A i \in DOMAIN limitations :
                i \in DOMAIN limitations' /\ limitations'[i] = limitations[i]
          /\ Len(limitations') \in DOMAIN limitations' /\ limitations'[Len(limitations')] = x
      BY <1>0, <3>1, SaidStays
    <3>3. Len(limitations') + Due(todo') <= Len(limitations) + Due(todo)
      BY <1>0, <2>2, <2>5, <3>2
    <3>4. \A s \in failed' : \E i \in DOMAIN limitations' : limitations'[i] = NotAvailable(s)
      <4>1. ASSUME NEW s \in failed
            PROVE  \E i \in DOMAIN limitations' : limitations'[i] = NotAvailable(s)
        BY <3>2 DEF LimitInv
      <4>2. CASE failed' = failed
        BY <4>1, <4>2
      <4>3. CASE /\ failed' = failed \cup {About(l)}
                 /\ limitations' = Append(limitations, NotAvailable(About(l)))
        <5>1. limitations'[Len(limitations')] = NotAvailable(About(l))
          <6>1. limitations'[Len(limitations) + 1] = NotAvailable(About(l))
            BY <1>0, <4>3
          <6> QED BY <3>2, <6>1
        <5> QED BY <3>2, <4>1, <4>3, <5>1
      <4> QED BY <2>1, <4>2, <4>3, Says
    <3> QED BY <1>0, <2>2, <2>3, <3>3, <3>4 DEF LimitInv
  <2> QED BY <2>1, <2>4, <2>5, DueStep
<1>2. CASE \E s \in AISource : \E reading : Reads(s, reading)
  <2>1. PICK s \in AISource : \E reading : Reads(s, reading)
    BY <1>2
  <2>2. /\ stage = s /\ (todo' = Lookups \/ todo' = {})
        /\ limitations' = limitations /\ failed' = failed
    BY <2>1 DEF Reads, Summarised
  <2>3. limitations = <<>> /\ failed = {}
    BY <2>2 DEF RequestInv, StageInv
  <2>4. Due(todo') \in 0..2
    BY <2>2, DueLookups
  <2>5. Len(limitations') = 0
    BY <2>2, <2>3
  <2> QED BY <2>2, <2>3, <2>4, <2>5 DEF LimitInv
<1>3. CASE Prepared
  <2>1. /\ stage = "lookups" /\ stage' = "model" /\ question' = question /\ failed' = failed
        /\ todo = {} /\ todo' = {}
        /\ \/ limitations' = limitations
           \/ limitations' = Append(limitations, "no_specific_host") /\ Scope = "source"
    BY <1>3 DEF Prepared
  <2>2. Scope' = Scope
    BY <2>1, ScopeSame
  <2>3. Due(todo) = 0 /\ Due(todo') = 0
    BY <2>1, DueLookups
  <2>4. Len(limitations) <= 2
    BY <1>0, <2>1, <2>3 DEF LimitInv
  <2>5. CASE limitations' = limitations
    BY <1>0, <2>1, <2>2, <2>3, <2>4, <2>5 DEF LimitInv
  <2>6. CASE limitations' = Append(limitations, "no_specific_host") /\ Scope = "source"
    <3>1. "no_specific_host" \in Limitation
      BY DEF Limitation
    <3>2. /\ Len(limitations') = Len(limitations) + 1
          /\ \A i \in DOMAIN limitations :
                i \in DOMAIN limitations' /\ limitations'[i] = limitations[i]
      BY <1>0, <2>6, <3>1, SaidStays
    <3>3. \A s \in failed' : \E i \in DOMAIN limitations' : limitations'[i] = NotAvailable(s)
      BY <2>1, <3>2 DEF LimitInv
    <3> QED BY <1>0, <2>1, <2>2, <2>3, <2>4, <2>6, <3>2, <3>3 DEF LimitInv
  <2> QED BY <2>1, <2>5, <2>6
<1>4. CASE /\ UNCHANGED <<question, todo, limitations, failed>>
           /\ stage' \in {"model", "done"} \/ stage \notin {"model", "done"}
  <2>1. Scope' = Scope
    BY <1>4, ScopeSame
  <2>2. Due(todo)' = Due(todo)
    BY <1>4 DEF Due, DueRecords, DueMetrics, DueHosts, DueHost, DueAgent
  <2> QED BY <1>0, <1>4, <2>1, <2>2 DEF LimitInv
<1>5. FindDevice \/ WorldChanges \/ (\E how : Ends(how)) \/ UNCHANGED investigationVars
        => /\ UNCHANGED <<question, todo, limitations, failed>>
           /\ stage' \in {"model", "done"} \/ stage \notin {"model", "done"}
  BY DEF FindDevice, WorldChanges, Ends, Ended, investigationVars, evidenceVars
<1>6. CASE Refuse \/ Ambiguous \/ FindDeviceFails \/ AnswerWithoutModel \/ ModelAnswers \/ ModelFails
  BY <1>4, <1>5, <1>6, EndShape
<1>7. CASE \E s \in AISource : ReadSummary(s) \/ ReadSummaryFails(s)
  BY <1>2, <1>7, ReadShape
<1> QED BY <1>1, <1>3, <1>4, <1>5, <1>6, <1>7 DEF InvestigationNext, RequestStep, Finds

\* What is in a list is in what it is joined to.
LEMMA ConcatHas ==
    ASSUME NEW X, NEW a \in Seq(X), NEW b \in Seq(X)
    PROVE  ToSet(a) \subseteq ToSet(a \o b) /\ ToSet(b) \subseteq ToSet(a \o b)
<1>1. /\ Len(a) \in Nat /\ Len(b) \in Nat /\ DOMAIN a = 1..Len(a) /\ DOMAIN b = 1..Len(b)
      /\ DOMAIN (a \o b) = 1..(Len(a) + Len(b))
  BY ConcatProperties
<1>2. ASSUME NEW i \in DOMAIN a PROVE i \in DOMAIN (a \o b) /\ (a \o b)[i] = a[i]
  BY <1>1, <1>2, ConcatProperties
<1>3. ASSUME NEW i \in DOMAIN b
      PROVE  Len(a) + i \in DOMAIN (a \o b) /\ (a \o b)[Len(a) + i] = b[i]
  BY <1>1, <1>3, ConcatProperties
<1>4. ToSet(a) \subseteq ToSet(a \o b)
  <2>1. ASSUME NEW i \in DOMAIN a PROVE a[i] \in ToSet(a \o b)
    BY <1>2 DEF ToSet
  <2> QED BY <2>1 DEF ToSet
<1>5. ToSet(b) \subseteq ToSet(a \o b)
  <2>1. ASSUME NEW i \in DOMAIN b PROVE b[i] \in ToSet(a \o b)
    <3>1. Len(a) + i \in DOMAIN (a \o b) /\ (a \o b)[Len(a) + i] = b[i]
      BY <1>3
    <3>2. \A j \in DOMAIN (a \o b) : (a \o b)[j] \in ToSet(a \o b)
      BY DEF ToSet
    <3> QED BY <3>1, <3>2
  <2> QED BY <2>1 DEF ToSet
<1> QED BY <1>4, <1>5

\* The lines of every source are among those of all.
LEMMA InOrderHas ==
    ASSUME NEW S, NEW f, \A s \in DOMAIN f : f[s] \in Lines(S), NEW s \in AISource \cap DOMAIN f
    PROVE  ToSet(f[s]) \subseteq ToSet(InOrder(f))
<1> DEFINE of(t) == IF t \in DOMAIN f THEN f[t] ELSE <<>>
           ab == of("wazuh") \o of("zabbix")
           abc == ab \o of("snipe_it")
           abcd == abc \o of("freshservice")
<1>1. \A t : of(t) \in Lines(S)
  BY EmptyLines
<1>2. ab \in Lines(S) /\ ToSet(of("wazuh")) \subseteq ToSet(ab)
      /\ ToSet(of("zabbix")) \subseteq ToSet(ab)
  BY <1>1, ConcatHas, ConcatLines DEF Lines
<1>3. abc \in Lines(S) /\ ToSet(ab) \subseteq ToSet(abc)
      /\ ToSet(of("snipe_it")) \subseteq ToSet(abc)
  <2> HIDE DEF ab
  <2> QED BY <1>1, <1>2, ConcatHas, ConcatLines DEF Lines
<1>4. ToSet(abc) \subseteq ToSet(abcd) /\ ToSet(of("freshservice")) \subseteq ToSet(abcd)
  <2> HIDE DEF abc
  <2> QED BY <1>1, <1>3, ConcatHas, ConcatLines DEF Lines
<1>5. InOrder(f) = abcd
  BY DEF InOrder
<1>6. ToSet(of(s)) \subseteq ToSet(abcd)
  <2> HIDE DEF ab, abc, abcd
  <2> QED BY <1>2, <1>3, <1>4 DEF AISource
<1>7. of(s) = f[s]
  OBVIOUS
<1> QED BY <1>5, <1>6, <1>7

\* The limitations of an answer are few enough to be given in full.
LEMMA AllGiven ==
    ASSUME RequestInv, LimitInv
    PROVE  /\ AllLimitations = BaseLimitations \o limitations
           /\ \E X : BaseLimitations \in Seq(X) /\ limitations \in Seq(X)
<1> DEFINE X == Limitation
                \cup {"normalized_evidence_only", "not_linked", "environment_level_metrics"}
           linked == IF Scope = "device" /\ AskedSource \notin device \cup {NoSource}
                     THEN <<"not_linked">> ELSE <<>>
           level == IF Scope = "device" THEN <<"environment_level_metrics">> ELSE <<>>
<1>1. limitations \in Seq(X) /\ Len(limitations) \in 0..3
      /\ (Scope = "device" => Len(limitations) \in 0..2)
  <2>1. limitations \in Seq(Limitation) /\ Due(todo) \in Nat /\ Len(limitations) \in Nat
    BY DueLess DEF RequestInv, InvestigationTypeOK
  <2>2. Limitation \subseteq X
    OBVIOUS
  <2>3. limitations \in Seq(X)
    <3> HIDE DEF X
    <3> QED BY <2>1, <2>2
  <2>4. ASSUME NEW n \in Nat, Len(limitations) + Due(todo) <= n PROVE Len(limitations) \in 0..n
    BY <2>1, <2>4
  <2>5. Len(limitations) \in 0..3
    BY <2>4 DEF LimitInv
  <2>6. ASSUME Scope = "device" PROVE Len(limitations) \in 0..2
    BY <2>4, <2>6 DEF LimitInv
  <2> HIDE DEF X
  <2> QED BY <2>3, <2>5, <2>6
<1>2. linked \in Seq(X) /\ level \in Seq(X) /\ <<"normalized_evidence_only">> \in Seq(X)
  <2>1. /\ "normalized_evidence_only" \in X
        /\ "not_linked" \in X
        /\ "environment_level_metrics" \in X
    OBVIOUS
  <2> HIDE DEF X
  <2> QED BY <2>1
<1>3. /\ Len(linked) \in 0..1 /\ Len(level) \in 0..1
      /\ Scope # "device" => Len(linked) = 0 /\ Len(level) = 0
      /\ Len(<<"normalized_evidence_only">>) = 1
  OBVIOUS
<1>4. BaseLimitations = <<"normalized_evidence_only">> \o linked \o level
  BY DEF BaseLimitations
<1> HIDE DEF X, linked, level
<1>5. /\ <<"normalized_evidence_only">> \o linked \in Seq(X)
      /\ Len(<<"normalized_evidence_only">> \o linked) = 1 + Len(linked)
  BY <1>2, <1>3, ConcatProperties
<1>6. BaseLimitations \in Seq(X) /\ Len(BaseLimitations) = 1 + Len(linked) + Len(level)
  BY <1>2, <1>3, <1>4, <1>5, ConcatProperties
<1> DEFINE all == BaseLimitations \o limitations
<1>7. all \in Seq(X) /\ Len(all) = Len(BaseLimitations) + Len(limitations)
  BY <1>1, <1>6, ConcatProperties
<1>8. Len(all) \in 0..5
  <2> HIDE DEF all
  <2>1. Len(all) = 1 + Len(linked) + Len(level) + Len(limitations)
    BY <1>6, <1>7, Zenon
  <2>2. CASE Scope = "device"
    <3>1. \A a \in 0..1, b \in 0..1, c \in 0..2 : 1 + a + b + c \in 0..5
      OBVIOUS
    <3> QED BY <1>1, <1>3, <2>1, <2>2, <3>1, Zenon
  <2>3. CASE Scope # "device"
    <3>1. \A c \in 0..3 : 1 + 0 + 0 + c \in 0..5
      OBVIOUS
    <3> QED BY <1>1, <1>3, <2>1, <2>3, <3>1, Zenon
  <2> QED BY <2>2, <2>3
<1>9. Least(LimitationLimit, Len(all)) = Len(all)
  <2> HIDE DEF all
  <2>1. \A n \in 0..5 : Least(LimitationLimit, n) = n
    BY LimitsAssumption DEF Least
  <2> QED BY <1>8, <2>1
<1>10. SubSeq(all, 1, Len(all)) = all
  <2> HIDE DEF all
  <2> QED BY <1>7, SubSeqFull
<1>11. AllLimitations = all
  BY <1>9, <1>10 DEF AllLimitations
<1> QED BY <1>1, <1>6, <1>11

\* The answer names the evidence that is missing.
THEOREM EvidenceCorrect == InvestigationSpec => []NamesMissingEvidence
<1>1. InvestigationInit => LimitInv
  <2> SUFFICES ASSUME InvestigationInit PROVE LimitInv
    OBVIOUS
  <2>1. Due(todo) = 0 /\ Len(limitations) = 0 /\ failed = {}
    BY DueLookups DEF InvestigationInit
  <2> QED BY <2>1 DEF LimitInv
<1>2. RequestInv /\ LimitInv => NamesMissingEvidence
  <2> SUFFICES ASSUME RequestInv, LimitInv, AnswersAre({"investigate"})
               PROVE  /\ \A s \in failed : NotAvailable(s) \in ToSet(AllLimitations)
                      /\ \A s \in WarnsAbout :
                            \/ Fine(s) \/ Len(SourceWarnings) = WarningLimit
                            \/ \E line \in ToSet(Facts) \cup ToSet(SourceWarnings) : line.about = s
    BY DEF NamesMissingEvidence
  <2>1. ASSUME NEW s \in failed PROVE NotAvailable(s) \in ToSet(AllLimitations)
    <3>1. NotAvailable(s) \in ToSet(limitations)
      <4>1. PICK i \in DOMAIN limitations : limitations[i] = NotAvailable(s)
        BY <2>1 DEF LimitInv
      <4> QED BY <4>1 DEF ToSet
    <3>2. ToSet(limitations) \subseteq ToSet(AllLimitations)
      BY AllGiven, ConcatHas
    <3> QED BY <3>1, <3>2
  <2>2. ASSUME NEW s \in WarnsAbout, ~Fine(s), Len(SourceWarnings) # WarningLimit
        PROVE  \E line \in ToSet(SourceWarnings) : line.about = s
    <3> DEFINE lines(t) == (IF Fine(t) THEN <<>> ELSE Line(t, "status"))
                               \o Times(WarningsOf(t), Line(t, "note")[1])
               f == [t \in WarnsAbout |-> lines(t)]
               all == InOrder(f)
    <3>1. WarnsAbout \subseteq AISource
      BY SelectedType DEF WarnsAbout, RequestInv
    <3>2. ASSUME NEW t \in WarnsAbout
          PROVE  /\ Line(t, "status") \in Lines(AISource)
                 /\ Times(WarningsOf(t), Line(t, "note")[1]) \in Lines(AISource)
      <4>1. t \in AISource /\ "status" \in What /\ "note" \in What
        BY <3>1 DEF What
      <4>2. WarningsOf(t) \in Nat
        BY <4>1, LimitsAssumption DEF WarningsOf
      <4> QED BY <4>1, <4>2, LineType, TimesLines
    <3>3. ASSUME NEW t \in DOMAIN f PROVE f[t] \in Lines(AISource)
      <4>1. CASE Fine(t)
        BY <3>2, <3>3, <4>1, EmptyLines, ConcatLines
      <4>2. CASE ~Fine(t)
        BY <3>2, <3>3, <4>2, ConcatLines
      <4> QED BY <4>1, <4>2
    <3>4. all \in Lines(AISource) /\ ToSet(f[s]) \subseteq ToSet(all)
      <4>1. s \in AISource \cap DOMAIN f
        BY <2>2, <3>1
      <4> HIDE DEF f
      <4> QED BY <3>3, <4>1, InOrderLines, InOrderHas
    <3>5. SourceWarnings = SubSeq(all, 1, Least(WarningLimit, Len(all)))
      BY DEF SourceWarnings
    <3>6. SourceWarnings = all
      <4> HIDE DEF all
      <4>1. all \in Seq([about : AISource, what : What]) /\ Len(all) \in Nat
        BY <3>4 DEF Lines
      <4>2. CASE WarningLimit < Len(all)
        <5>1. WarningLimit \in 0..Len(all) /\ WarningLimit \in Nat
          BY <4>1, <4>2, LimitsAssumption
        <5>2. Len(SubSeq(all, 1, WarningLimit)) = WarningLimit
          BY <4>1, <5>1
        <5> QED BY <2>2, <3>5, <4>2, <5>2 DEF Least
      <4>3. CASE ~(WarningLimit < Len(all))
        BY <3>5, <4>1, <4>3, SubSeqFull DEF Least
      <4> QED BY <4>2, <4>3
    <3>7. ToSet(Line(s, "status")) \subseteq ToSet(f[s])
      <4>1. f[s] = Line(s, "status") \o Times(WarningsOf(s), Line(s, "note")[1])
        BY <2>2
      <4> QED BY <3>2, <4>1, <2>2, ConcatHas DEF Lines
    <3>8. [about |-> s, what |-> "status"] \in ToSet(Line(s, "status"))
      BY DEF ToSet, Line
    <3>9. [about |-> s, what |-> "status"] \in ToSet(SourceWarnings)
      <4> HIDE DEF f, all
      <4> QED BY <3>4, <3>6, <3>7, <3>8
    <3> WITNESS [about |-> s, what |-> "status"] \in ToSet(SourceWarnings)
    <3> QED OBVIOUS
  <2> QED BY <2>1, <2>2
<1> QED BY <1>1, <1>2, LimitKeeps, InvestigationTypeCorrect, PTL DEF InvestigationSpec
=============================================================================
