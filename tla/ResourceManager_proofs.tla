----------------------- MODULE ResourceManager_proofs -----------------------
(* Proofs about ResourceManager: its list stays within the hardware's        *)
(* instances, agrees with the codecs that are open where nobody is           *)
(* preempted, and gives up its element of lowest priority only.              *)
EXTENDS ResourceManager, SequenceTheorems, WellFoundedInduction, TLAPS

-----------------------------------------------------------------------------
(* The least-number principle, which stands for induction: a set of the      *)
(* numbers that violate a claim has no least element.                        *)

LEMMA LeastNumber ==
    ASSUME NEW T \in SUBSET Nat, T # {}
    PROVE  \E n \in T : \A m \in T : n <= m
  <1> DEFINE R == OpToRel(<, Nat)
  <1>1. IsWellFoundedOn(R, Nat)
    BY Zenon, NatLessThanWellFounded DEF R
  <1>2. R = {ss \in Nat \X Nat : ss[1] < ss[2]}
    BY SMT DEF OpToRel, R
  <1> HIDE DEF R
  <1>3. PICK n \in T : \A m \in T : <<m, n>> \notin R
    BY <1>1, WFMin, Zenon
  <1>4. \A m \in T : ~ (m < n)
    BY <1>2, <1>3
  <1> QED
    BY <1>3, <1>4

-----------------------------------------------------------------------------
(* searchLowPriority: the recursive pass over the list exists, and what it   *)
(* keeps is the lowest priority seen so far, if that is below the given one. *)

IsPass(f, list, priority, n) ==
    f = [i \in 0 .. n |-> IF i = 0 THEN 0 ELSE better(list, priority, f[i - 1], i)]

LEMMA PassExists ==
    ASSUME NEW list, NEW priority, NEW n \in Nat
    PROVE  \E f : IsPass(f, list, priority, n)
  <1> DEFINE Missing == {m \in Nat : ~ \E f : IsPass(f, list, priority, m)}
  <1>1. SUFFICES ASSUME Missing # {} PROVE FALSE
    OBVIOUS
  <1>2. PICK m \in Missing : \A k \in Missing : m <= k
    BY <1>1, LeastNumber
  <1>3. CASE m = 0
    <2> DEFINE f == [i \in 0 .. 0 |-> 0]
    <2>1. f = [i \in 0 .. 0 |-> IF i = 0 THEN 0 ELSE better(list, priority, f[i - 1], i)]
      OBVIOUS
    <2> QED
      BY <1>2, <1>3, <2>1 DEF IsPass
  <1>4. CASE m # 0
    <2>1. m - 1 \in Nat /\ m - 1 \notin Missing
      BY <1>2, <1>4
    <2>2. PICK f : IsPass(f, list, priority, m - 1)
      BY <2>1
    <2> DEFINE g == [i \in 0 .. m |->
                        IF i = m THEN better(list, priority, f[m - 1], m) ELSE f[i]]
    <2>3. ASSUME NEW i \in 0 .. m
          PROVE  g[i] = IF i = 0 THEN 0 ELSE better(list, priority, g[i - 1], i)
      <3>1. CASE i = m
        BY <1>4, <3>1
      <3>2. CASE i # m
        <4>1. i \in 0 .. m - 1 /\ g[i] = f[i]
          BY <3>2
        <4>2. i # 0 => i - 1 \in 0 .. m - 1 /\ g[i - 1] = f[i - 1]
          BY <3>2
        <4>3. f[i] = IF i = 0 THEN 0 ELSE better(list, priority, f[i - 1], i)
          BY <2>2, <4>1, Zenon DEF IsPass
        <4> HIDE DEF g
        <4> QED
          BY <4>1, <4>2, <4>3, Zenon
      <3> QED
        BY <3>1, <3>2
    <2>4. g = [i \in 0 .. m |-> IF i = 0 THEN 0 ELSE better(list, priority, g[i - 1], i)]
      BY <2>3, Zenon
    <2> QED
      BY <1>2, <2>4 DEF IsPass
  <1> QED
    BY <1>3, <1>4

\* What the element at position k of the list is, among the first n.
LowestOf(list, priority, k, n) ==
    /\ k \in 0 .. n
    /\ k = 0 => \A j \in 1 .. n : list[j].groupPriority <= priority
    /\ k # 0 => /\ list[k].groupPriority > priority
                /\ \A j \in 1 .. n : list[j].groupPriority <= list[k].groupPriority

\* One step of the pass: the element at n is compared with the best before it.
LEMMA BetterIsLowest ==
    ASSUME NEW list, NEW n \in Nat \ {0}, NEW k \in 0 .. n - 1, NEW priority \in Nat,
           \A i \in 1 .. n : list[i].groupPriority \in Nat,
           LowestOf(list, priority, k, n - 1)
    PROVE  LowestOf(list, priority, better(list, priority, k, n), n)
  <1>1. list[n].groupPriority \in Nat /\ (k # 0 => list[k].groupPriority \in Nat)
    OBVIOUS
  <1>2. \A j \in 1 .. n : j \in 1 .. n - 1 \/ j = n
    OBVIOUS
  <1>3. CASE /\ list[n].groupPriority > priority
             /\ k # 0 => list[k].groupPriority < list[n].groupPriority
    <2>1. better(list, priority, k, n) = n
      BY <1>3 DEF better
    <2>2. ASSUME NEW j \in 1 .. n - 1 PROVE list[j].groupPriority <= list[n].groupPriority
      BY <1>1, <1>3 DEF LowestOf
    <2> QED
      BY <1>2, <1>3, <2>1, <2>2 DEF LowestOf
  <1>4. CASE ~ (/\ list[n].groupPriority > priority
                /\ k # 0 => list[k].groupPriority < list[n].groupPriority)
    <2>1. better(list, priority, k, n) = k
      BY <1>4, Zenon DEF better
    <2> QED
      BY <1>1, <1>2, <1>4, <2>1 DEF LowestOf
  <1> QED
    BY <1>3, <1>4

LEMMA SearchFindsLowest ==
    ASSUME NEW list \in Seq(Elements), NEW priority \in Priorities
    PROVE  LowestOf(list, priority, searchLowPriority(list, priority), Len(list))
  <1> DEFINE cand == CHOOSE f : IsPass(f, list, priority, Len(list))
  <1>1. Len(list) \in Nat /\ \A i \in 1 .. Len(list) : list[i].groupPriority \in Nat
    <2>1. Len(list) \in Nat /\ \A i \in 1 .. Len(list) : list[i] \in Elements
      BY LenProperties, ElementOfSeq
    <2> QED
      BY <2>1, ResourceManagerAssumption DEF Elements
  <1>2. searchLowPriority(list, priority) = cand[Len(list)]
    BY Zenon DEF searchLowPriority, IsPass
  <1>3. IsPass(cand, list, priority, Len(list))
    BY <1>1, PassExists, Zenon
  <1> HIDE DEF cand
  <1>4. \A i \in 0 .. Len(list) :
           cand[i] = IF i = 0 THEN 0 ELSE better(list, priority, cand[i - 1], i)
    BY <1>3, Zenon DEF IsPass
  <1> DEFINE Wrong == {i \in 0 .. Len(list) : ~ LowestOf(list, priority, cand[i], i)}
  <1>5. Wrong = {}
    <2>1. SUFFICES ASSUME Wrong # {} PROVE FALSE
      OBVIOUS
    <2>2. Wrong \in SUBSET Nat
      BY <1>1
    <2>3. PICK m \in Wrong : \A k \in Wrong : m <= k
      BY <2>1, <2>2, LeastNumber
    <2>4. CASE m = 0
      BY <1>1, <1>4, <2>3, <2>4 DEF LowestOf
    <2>5. CASE m # 0
      <3>1. m \in 1 .. Len(list) /\ m - 1 \in 0 .. Len(list) /\ m - 1 \notin Wrong
        BY <1>1, <2>3, <2>5
      <3>2. LowestOf(list, priority, cand[m - 1], m - 1)
        BY <3>1
      <3>3. cand[m] = better(list, priority, cand[m - 1], m)
        BY <1>4, <3>1, <2>5
      <3>4. priority \in Nat
        BY ResourceManagerAssumption
      <3>5. LowestOf(list, priority, cand[m], m)
        <4>1. /\ m \in Nat \ {0} /\ cand[m - 1] \in 0 .. m - 1
              /\ \A i \in 1 .. m : list[i].groupPriority \in Nat
          BY <1>1, <3>1, <3>2 DEF LowestOf
        <4> HIDE DEF Wrong
        <4> QED
          BY <3>2, <3>3, <3>4, <4>1, BetterIsLowest
      <3> QED
        BY <2>3, <3>5
    <2> QED
      BY <2>4, <2>5
  <1> QED
    BY <1>1, <1>2, <1>5

-----------------------------------------------------------------------------
(* The lists.                                                                *)

\* The first element of c goes, the others move up.
LEMMA RemoveShape ==
    ASSUME NEW list \in Seq(Elements), NEW c, NEW r, r = removeElementList(list, c)
    PROVE  /\ r \in Seq(Elements)
           /\ ~ IsIn(list, c) => r = list
           /\ IsIn(list, c) =>
                \E k \in 1 .. Len(list) :
                    /\ list[k].comp = c
                    /\ Len(r) = Len(list) - 1
                    /\ \A i \in 1 .. Len(r) : r[i] = list[IF i < k THEN i ELSE i + 1]
  <1>1. CASE ~ IsIn(list, c)
    <2>1. r = list
      BY <1>1 DEF IsIn, removeElementList, RemoveFirstMatch
    <2> QED
      BY <1>1, <2>1
  <1>2. CASE IsIn(list, c)
    <2> DEFINE Found == {i \in 1 .. Len(list) : list[i].comp = c}
    <2>1. r = RemoveAt(list, Min(Found))
      BY <1>2 DEF IsIn, removeElementList, RemoveFirstMatch, SelectInSeq
    <2>2. Found \in SUBSET Nat /\ Found # {}
      BY <1>2 DEF IsIn
    <2>3. \E n \in Found : \A m \in Found : n <= m
      BY <2>2, LeastNumber
    <2>4. Min(Found) \in Found
      BY <2>3 DEF Min
    <2> HIDE DEF Found
    <2> DEFINE k == Min(Found)
               front == SubSeq(list, 1, k - 1)
               back == SubSeq(list, k + 1, Len(list))
    <2>5. k \in 1 .. Len(list) /\ list[k].comp = c /\ Len(list) \in Nat
      BY <2>4 DEF Found
    <2>6. \A i \in 1 .. Len(list) : list[i] \in Elements
      OBVIOUS
    <2>7. r = front \o back
      BY <2>1 DEF RemoveAt
    <2> HIDE DEF k
    <2>8. /\ front \in Seq(Elements) /\ Len(front) = k - 1
          /\ \A i \in 1 .. k - 1 : front[i] = list[i]
      <3>1. 1 \in Int /\ k - 1 \in Int /\ \A i \in 1 .. k - 1 : list[i] \in Elements
        BY <2>5, <2>6
      <3> QED
        BY <2>5, <3>1, SubSeqProperties
    <2>9. /\ back \in Seq(Elements) /\ Len(back) = Len(list) - k
          /\ \A i \in 1 .. Len(list) - k : back[i] = list[k + i]
      <3>1. /\ k + 1 \in Int /\ Len(list) \in Int
            /\ \A i \in k + 1 .. Len(list) : list[i] \in Elements
        BY <2>5, <2>6
      <3> QED
        BY <2>5, <3>1, SubSeqProperties
    <2> HIDE DEF front, back
    <2>10. /\ r \in Seq(Elements) /\ Len(r) = Len(list) - 1
           /\ \A i \in 1 .. Len(list) - 1 :
                 r[i] = IF i <= k - 1 THEN front[i] ELSE back[i - (k - 1)]
      <3>1. r \in Seq(Elements) /\ Len(r) = Len(front) + Len(back)
        BY <2>7, <2>8, <2>9, ConcatProperties
      <3>2. \A i \in 1 .. Len(front) + Len(back) :
               r[i] = IF i <= Len(front) THEN front[i] ELSE back[i - Len(front)]
        BY <2>7, <2>8, <2>9, ConcatProperties
      <3> QED
        BY <2>5, <2>8, <2>9, <3>1, <3>2
    <2>11. \A i \in 1 .. Len(r) : r[i] = list[IF i < k THEN i ELSE i + 1]
      <3>1. SUFFICES ASSUME NEW i \in 1 .. Len(list) - 1
                     PROVE  r[i] = list[IF i < k THEN i ELSE i + 1]
        BY <2>10
      <3>2. /\ k \in Int /\ 1 <= k /\ k <= Len(list) /\ Len(list) \in Int
            /\ i \in Int /\ 1 <= i /\ i <= Len(list) - 1
        BY <2>5
      <3>3. CASE i < k
        <4>1. i \in 1 .. k - 1 /\ i <= k - 1
          BY ONLY <3>2, <3>3
        <4> QED
          BY ONLY <2>8, <2>10, <3>1, <3>3, <4>1
      <3>4. CASE ~ (i < k)
        <4>1. i - (k - 1) \in 1 .. Len(list) - k /\ ~ (i <= k - 1) /\ k + (i - (k - 1)) = i + 1
          BY ONLY <3>2, <3>4
        <4> QED
          BY ONLY <2>9, <2>10, <3>1, <3>4, <4>1
      <3> QED
        BY ONLY <3>3, <3>4
    <2> QED
      BY <1>2, <2>5, <2>10, <2>11
  <1> QED
    BY <1>1, <1>2

LEMMA RemoveKeeps ==
    ASSUME NEW list \in Seq(Elements), NEW c, NEW d
    PROVE  /\ Len(removeElementList(list, c)) <= Len(list)
           /\ IsIn(list, c) => Len(removeElementList(list, c)) = Len(list) - 1
           /\ IsIn(removeElementList(list, c), d) => IsIn(list, d)
           /\ d # c /\ IsIn(list, d) => IsIn(removeElementList(list, c), d)
  <1> DEFINE r == removeElementList(list, c)
  <1>1. /\ r \in Seq(Elements)
        /\ ~ IsIn(list, c) => r = list
        /\ IsIn(list, c) =>
             \E k \in 1 .. Len(list) :
                 /\ list[k].comp = c
                 /\ Len(r) = Len(list) - 1
                 /\ \A i \in 1 .. Len(r) : r[i] = list[IF i < k THEN i ELSE i + 1]
    BY RemoveShape
  <1> HIDE DEF r
  <1>2. Len(list) \in Nat
    OBVIOUS
  <1>3. CASE ~ IsIn(list, c)
    BY <1>1, <1>2, <1>3 DEF r
  <1>4. CASE IsIn(list, c)
    <2>1. PICK k \in 1 .. Len(list) :
             /\ list[k].comp = c
             /\ Len(r) = Len(list) - 1
             /\ \A i \in 1 .. Len(r) : r[i] = list[IF i < k THEN i ELSE i + 1]
      BY <1>1, <1>4
    <2>2. IsIn(r, d) => IsIn(list, d)
      <3>1. SUFFICES ASSUME NEW i \in 1 .. Len(r), r[i].comp = d PROVE IsIn(list, d)
        BY <1>1 DEF IsIn
      <3>2. (IF i < k THEN i ELSE i + 1) \in 1 .. Len(list)
        BY <1>2, <2>1
      <3> QED
        BY <2>1, <3>1, <3>2 DEF IsIn
    <2>3. d # c /\ IsIn(list, d) => IsIn(r, d)
      <3>1. SUFFICES ASSUME d # c, NEW i \in 1 .. Len(list), list[i].comp = d
                     PROVE  IsIn(r, d)
        BY DEF IsIn
      <3>2. i # k
        BY <2>1, <3>1
      <3>3. CASE i < k
        <4>1. i \in 1 .. Len(r) /\ r[i] = list[i]
          BY <1>2, <2>1, <3>3
        <4> QED
          BY <1>1, <3>1, <4>1 DEF IsIn
      <3>4. CASE i > k
        <4>1. i - 1 \in 1 .. Len(r) /\ r[i - 1] = list[i]
          BY <1>2, <2>1, <3>4
        <4> QED
          BY <1>1, <3>1, <4>1 DEF IsIn
      <3> QED
        BY <3>2, <3>3, <3>4
    <2> QED
      BY <1>2, <1>4, <2>1, <2>2, <2>3 DEF r
  <1> QED
    BY <1>3, <1>4

\* No component is listed twice.
Once(list) == \A i, j \in DOMAIN list : list[i].comp = list[j].comp => i = j

LEMMA RemoveOnce ==
    ASSUME NEW list \in Seq(Elements), NEW c, Once(list)
    PROVE  /\ Once(removeElementList(list, c))
           /\ ~ IsIn(removeElementList(list, c), c)
  <1> DEFINE r == removeElementList(list, c)
  <1>1. /\ r \in Seq(Elements)
        /\ ~ IsIn(list, c) => r = list
        /\ IsIn(list, c) =>
             \E k \in 1 .. Len(list) :
                 /\ list[k].comp = c
                 /\ Len(r) = Len(list) - 1
                 /\ \A i \in 1 .. Len(r) : r[i] = list[IF i < k THEN i ELSE i + 1]
    BY RemoveShape
  <1> HIDE DEF r
  <1>2. CASE ~ IsIn(list, c)
    BY <1>1, <1>2 DEF r
  <1>3. CASE IsIn(list, c)
    <2>1. PICK k \in 1 .. Len(list) :
             /\ list[k].comp = c
             /\ Len(r) = Len(list) - 1
             /\ \A i \in 1 .. Len(r) : r[i] = list[IF i < k THEN i ELSE i + 1]
      BY <1>1, <1>3
    <2> DEFINE was(i) == IF i < k THEN i ELSE i + 1
    <2>2. \A i \in 1 .. Len(r) : /\ was(i) \in 1 .. Len(list)
                                 /\ was(i) # k /\ r[i] = list[was(i)]
      BY <2>1
    <2>3. \A i, j \in 1 .. Len(r) : was(i) = was(j) => i = j
      BY <2>1
    <2> HIDE DEF was
    <2>4. \A i, j \in 1 .. Len(list) : list[i].comp = list[j].comp => i = j
      BY DEF Once
    <2>5. \A i, j \in 1 .. Len(r) : r[i].comp = r[j].comp => i = j
      BY <2>2, <2>3, <2>4
    <2>6. \A i \in 1 .. Len(r) : r[i].comp # c
      BY <2>1, <2>2, <2>4
    <2>7. DOMAIN r = 1 .. Len(r)
      BY <1>1
    <2>8. Once(r) /\ ~ IsIn(r, c)
      BY <2>5, <2>6, <2>7 DEF Once, IsIn
    <2> QED
      BY <2>8 DEF r
  <1> QED
    BY <1>2, <1>3

LEMMA AddShape ==
    ASSUME TypeOK, NEW list \in Seq(Elements), NEW c \in Components
    PROVE  /\ addElementList(list, c) \in Seq(Elements)
           /\ Len(addElementList(list, c)) = Len(list) + 1
           /\ \A d : IsIn(addElementList(list, c), d) <=> d = c \/ IsIn(list, d)
           /\ Once(list) /\ ~ IsIn(list, c) => Once(addElementList(list, c))
  <1> DEFINE e == [comp |-> c, groupPriority |-> nGroupPriority[c]]
             a == addElementList(list, c)
  <1>1. e \in Elements /\ e.comp = c
    BY DEF TypeOK, Elements
  <1>2. a = Append(list, e)
    BY DEF addElementList
  <1> HIDE DEF e, a
  <1>3. /\ a \in Seq(Elements)
        /\ Len(a) = Len(list) + 1
        /\ \A i \in 1 .. Len(list) : a[i] = list[i]
        /\ a[Len(list) + 1] = e
        /\ Len(list) \in Nat
    BY <1>1, <1>2, AppendProperties, LenProperties
  <1>4. \A d : IsIn(a, d) <=> d = c \/ IsIn(list, d)
    <2>1. ASSUME NEW d, IsIn(a, d) PROVE d = c \/ IsIn(list, d)
      <3>1. PICK i \in 1 .. Len(a) : a[i].comp = d
        BY <1>3, <2>1 DEF IsIn
      <3> QED
        BY <1>1, <1>3, <3>1 DEF IsIn
    <2>2. ASSUME NEW d, IsIn(list, d) PROVE IsIn(a, d)
      <3>1. PICK i \in 1 .. Len(list) : list[i].comp = d
        BY <2>2 DEF IsIn
      <3>2. i \in 1 .. Len(a) /\ a[i].comp = d
        BY <1>3, <3>1
      <3> QED
        BY <1>3, <3>2 DEF IsIn
    <2>3. IsIn(a, c)
      <3>1. Len(list) + 1 \in 1 .. Len(a) /\ a[Len(list) + 1].comp = c
        BY <1>1, <1>3
      <3> QED
        BY <1>3, <3>1 DEF IsIn
    <2> QED
      BY <2>1, <2>2, <2>3
  <1>5. Once(list) /\ ~ IsIn(list, c) => Once(a)
    <2>1. SUFFICES ASSUME Once(list), ~ IsIn(list, c), NEW i \in 1 .. Len(a),
                          NEW j \in 1 .. Len(a), a[i].comp = a[j].comp
                   PROVE  i = j
      BY <1>3 DEF Once
    <2>2. \A k \in 1 .. Len(list) : list[k].comp # c
      BY <2>1 DEF IsIn
    <2>3. \A k, l \in 1 .. Len(list) : list[k].comp = list[l].comp => k = l
      BY <2>1 DEF Once
    <2> QED
      BY <1>1, <1>3, <2>1, <2>2, <2>3
  <1> QED
    BY <1>3, <1>4, <1>5 DEF a

-----------------------------------------------------------------------------
(* The queues.                                                               *)

QueuesOK(q) == /\ q \in [Components -> Seq(States)]
               /\ \A c \in Components : Len(q[c]) <= QueueCapacity

LEMMA TakenKeeps ==
    ASSUME TypeOK, NEW c \in Components, messageQ[c] # <<>>
    PROVE  QueuesOK(Taken(c))
  <1>1. /\ Tail(messageQ[c]) \in Seq(States)
        /\ Len(Tail(messageQ[c])) = Len(messageQ[c]) - 1
        /\ Len(messageQ[c]) \in Nat
    BY HeadTailProperties DEF TypeOK
  <1> QED
    BY <1>1, ResourceManagerAssumption DEF TypeOK, Taken, QueuesOK

LEMMA SendKeeps ==
    ASSUME NEW q, QueuesOK(q), NEW c \in Components, NEW s \in States,
           Len(q[c]) < QueueCapacity
    PROVE  QueuesOK([q EXCEPT ![c] = Append(@, s)])
  <1>1. /\ Append(q[c], s) \in Seq(States)
        /\ Len(Append(q[c], s)) = Len(q[c]) + 1
        /\ Len(q[c]) \in Nat
    BY AppendProperties, LenProperties DEF QueuesOK
  <1> QED
    BY <1>1, ResourceManagerAssumption DEF QueuesOK

\* What Get_Resource and Release_Resource leave of the queues: a command to
\* another component joins the queue only if that component accepts it.
LEMMA SendAfterTaken ==
    ASSUME TypeOK, NEW c \in Components, messageQ[c] # <<>>,
           NEW d \in Components, Accepts(d), NEW s \in States
    PROVE  QueuesOK([Taken(c) EXCEPT ![d] = Append(@, s)])
  <1>1. QueuesOK(Taken(c))
    BY TakenKeeps
  <1>2. Len(Taken(c)[d]) < QueueCapacity
    <2>1. /\ Len(Tail(messageQ[c])) = Len(messageQ[c]) - 1
          /\ Len(messageQ[c]) \in Nat
      BY HeadTailProperties DEF TypeOK
    <2>2. CASE d = c
      BY <2>1, <2>2, ResourceManagerAssumption DEF TypeOK, Taken, Accepts
    <2>3. CASE d # c
      BY <2>3 DEF TypeOK, Taken, Accepts
    <2> QED
      BY <2>2, <2>3
  <1> QED
    BY <1>1, <1>2, SendKeeps

\* The component that gives way is a component and has an element.
LEMMA VictimIsListed ==
    ASSUME TypeOK, NEW c \in Components,
           searchLowPriority(componentList, nGroupPriority[c]) # 0
    PROVE  LET low == searchLowPriority(componentList, nGroupPriority[c])
           IN  /\ low \in DOMAIN componentList
               /\ componentList[low].comp \in Components
               /\ IsIn(componentList, componentList[low].comp)
  <1> DEFINE low == searchLowPriority(componentList, nGroupPriority[c])
  <1>1. componentList \in Seq(Elements) /\ nGroupPriority[c] \in Priorities
    BY DEF TypeOK
  <1>2. LowestOf(componentList, nGroupPriority[c], low, Len(componentList))
    BY <1>1, SearchFindsLowest
  <1>3. low # 0
    OBVIOUS
  <1> HIDE DEF low
  <1>4. low \in 1 .. Len(componentList) /\ Len(componentList) \in Nat
    BY <1>1, <1>2, <1>3 DEF LowestOf
  <1>5. componentList[low] \in Elements
    BY <1>1, <1>4
  <1>6. low \in DOMAIN componentList
    BY <1>1, <1>4
  <1> QED
    BY <1>5, <1>6, Zenon DEF Elements, IsIn, low

-----------------------------------------------------------------------------
(* The list stays typed and bounded: one lemma per action that touches the   *)
(* lists or tells another component, and one step per action below.          *)

Sound == TypeOK /\ ListBounded

\* A component that reaches for the resource either finds room or takes the
\* place of one that is listed.
LEMMA GetResourceIsSound ==
    ASSUME Sound, NEW c \in Components, Get_Resource(c)
    PROVE  Sound'
  <1> DEFINE low == searchLowPriority(componentList, nGroupPriority[c])
             victim == componentList[low].comp
             room == Len(componentList) < MaxResource
             told == ~room /\ low # 0 /\ currentState[victim] = "Idle"
             rest == removeElementList(componentList, victim)
  <1>1. TypeOK /\ ListBounded /\ componentList \in Seq(Elements)
    BY DEF Sound, TypeOK
  <1>2. messageQ[c] # <<>>
    BY DEF Get_Resource, Takes
  <1>3. QueuesOK(messageQ')
    <2>1. CASE told
      <3>1. victim \in Components
        BY <1>1, <2>1, VictimIsListed
      <3>2. Accepts(victim) /\ messageQ' = [Taken(c) EXCEPT ![victim] = Append(@, "Loaded")]
        BY <2>1 DEF Get_Resource
      <3> QED
        BY <1>1, <1>2, <3>1, <3>2, SendAfterTaken DEF States
    <2>2. CASE ~ told
      <3>1. messageQ' = Taken(c)
        BY <2>2 DEF Get_Resource
      <3> QED
        BY <1>1, <1>2, <3>1, TakenKeeps
    <2> QED
      BY <2>1, <2>2
  <1>4. componentList' \in Seq(Elements) /\ Len(componentList') <= MaxResource
    <2>1. CASE room
      <3>1. componentList' = addElementList(componentList, c)
        BY <2>1 DEF Get_Resource
      <3> QED
        BY <1>1, <2>1, <3>1, AddShape, ResourceManagerAssumption
    <2>2. CASE ~ room
      <3>1. low # 0 /\ componentList' = addElementList(rest, c)
        BY <2>2 DEF Get_Resource
      <3>2. IsIn(componentList, victim)
        BY <1>1, <3>1, VictimIsListed
      <3>3. rest \in Seq(Elements)
        BY <1>1, RemoveShape
      <3>4. Len(rest) = Len(componentList) - 1
        BY <1>1, <3>2, RemoveKeeps
      <3> HIDE DEF rest, low, victim
      <3>5. Len(componentList') = Len(rest) + 1 /\ componentList' \in Seq(Elements)
        BY <1>1, <3>1, <3>3, AddShape
      <3> QED
        BY <1>1, <3>4, <3>5, ResourceManagerAssumption DEF ListBounded
    <2> QED
      BY <2>1, <2>2
  <1>5. hpc' \in [Components -> {"wait", "open", "close"}]
    BY <1>1 DEF Get_Resource, At, TypeOK
  <1>6. UNCHANGED <<currentState, nGroupPriority, codecOpen, waitingList>>
    BY DEF Get_Resource
  <1> QED
    BY <1>1, <1>3, <1>4, <1>5, <1>6 DEF Sound, TypeOK, ListBounded, QueuesOK

\* One that gives it up shortens the list and commands one that waits.
LEMMA ReleaseIsSound ==
    ASSUME Sound, NEW c \in Components, Release_Resource(c)
    PROVE  Sound'
  <1> DEFINE waiter == Head(waitingList).comp
             wakes == IsIn(componentList, c) /\ waitingList # <<>>
  <1>1. TypeOK /\ ListBounded /\ componentList \in Seq(Elements)
    BY DEF Sound, TypeOK
  <1>2. messageQ[c] # <<>>
    BY DEF Release_Resource, Takes
  <1>3. waitingList # <<>> => waiter \in Components /\ Tail(waitingList) \in Seq(Elements)
    <2>1. waitingList # <<>> =>
             Head(waitingList) \in Elements /\ Tail(waitingList) \in Seq(Elements)
      BY <1>1, HeadTailProperties DEF TypeOK
    <2> QED
      BY <2>1 DEF Elements
  <1>4. QueuesOK(messageQ')
    <2>1. CASE wakes /\ Accepts(waiter)
      <3>1. messageQ' = [Taken(c) EXCEPT ![waiter] = Append(@, "Idle")]
        BY <2>1 DEF Release_Resource
      <3> QED
        BY <1>1, <1>2, <1>3, <2>1, <3>1, SendAfterTaken DEF States
    <2>2. CASE ~ (wakes /\ Accepts(waiter))
      <3>1. messageQ' = Taken(c)
        BY <2>2 DEF Release_Resource
      <3> QED
        BY <1>1, <1>2, <3>1, TakenKeeps
    <2> QED
      BY <2>1, <2>2
  <1>5. componentList' \in Seq(Elements) /\ Len(componentList') <= MaxResource
    <2>1. componentList' = removeElementList(componentList, c)
      BY DEF Release_Resource
    <2>2. componentList' \in Seq(Elements)
      BY <1>1, <2>1, RemoveShape
    <2>3. Len(componentList') <= Len(componentList)
      BY <1>1, <2>1, RemoveKeeps
    <2> QED
      BY <1>1, <2>2, <2>3, ResourceManagerAssumption DEF ListBounded
  <1>6. waitingList' \in Seq(Elements)
    BY <1>1, <1>3 DEF Release_Resource, TypeOK
  <1>7. /\ hpc' \in [Components -> {"wait", "open", "close"}]
        /\ currentState' \in [Components -> States]
    BY <1>1 DEF Release_Resource, At, Becomes, TypeOK, States
  <1>8. UNCHANGED <<nGroupPriority, codecOpen>>
    BY DEF Release_Resource
  <1> QED
    BY <1>1, <1>4, <1>5, <1>6, <1>7, <1>8 DEF Sound, TypeOK, ListBounded, QueuesOK

LEMMA SoundInit == Init => Sound
  <1> SUFFICES ASSUME Init PROVE Sound
    OBVIOUS
  <1>1. componentList = <<>> /\ waitingList = <<>>
    BY DEF Init
  <1>2. /\ messageQ \in [Components -> Seq(States)]
        /\ \A c \in Components : Len(messageQ[c]) = 0
    BY DEF Init
  <1> QED
    BY <1>1, <1>2, ResourceManagerAssumption
       DEF Init, Sound, TypeOK, ListBounded, States

LEMMA SoundStep == Sound /\ [Next]_vars => Sound'
  <1> SUFFICES ASSUME Sound, [Next]_vars PROVE Sound'
    OBVIOUS
  <1> USE DEF Sound
  <1>1. ASSUME NEW c \in Components, NEW dest \in Targets, SendCommand(c, dest)
        PROVE  Sound'
    <2>1. dest \in States /\ Len(messageQ[c]) < QueueCapacity
      BY <1>1, ResourceManagerAssumption DEF SendCommand, TypeOK
    <2>2. QueuesOK(messageQ')
      BY <1>1, <2>1, SendKeeps DEF SendCommand, TypeOK, QueuesOK
    <2> QED
      BY <1>1, <2>2 DEF SendCommand, TypeOK, ListBounded, QueuesOK
  <1>2. ASSUME NEW c \in Components, SetPriority(c) PROVE Sound'
    BY <1>2 DEF SetPriority, TypeOK, ListBounded
  <1>3. ASSUME NEW c \in Components, Get_Resource(c) PROVE Sound'
    BY <1>3, GetResourceIsSound
  <1>4. ASSUME NEW c \in Components, OpenCodec(c) PROVE Sound'
    BY <1>4 DEF OpenCodec, At, Becomes, TypeOK, States, ListBounded
  <1>5. ASSUME NEW c \in Components, Release_Resource(c) PROVE Sound'
    BY <1>5, ReleaseIsSound
  <1>6. ASSUME NEW c \in Components, CloseCodec(c) PROVE Sound'
    BY <1>6 DEF CloseCodec, At, Becomes, TypeOK, States, ListBounded
  <1>7. ASSUME NEW c \in Components,
               NoResource(c) \/ Invalidate(c) \/ In_WaitForResource(c)
                   \/ Out_WaitForResource(c) \/ Move(c) \/ Refuse(c)
        PROVE  Sound'
    <2>1. messageQ[c] # <<>> /\ messageQ' = Taken(c)
      BY <1>7 DEF NoResource, Invalidate, In_WaitForResource, Out_WaitForResource,
                  Move, Refuse, Takes
    <2>2. QueuesOK(messageQ')
      BY <2>1, TakenKeeps
    <2>3. waitingList' \in Seq(Elements)
      <3>1. removeElementList(waitingList, c) \in Seq(Elements)
        BY RemoveShape DEF TypeOK
      <3>2. addElementList(waitingList, c) \in Seq(Elements)
        BY AddShape DEF TypeOK
      <3> QED
        BY <1>7, <3>1, <3>2 DEF NoResource, Invalidate, In_WaitForResource,
               Out_WaitForResource, Move, Refuse, TypeOK
    <2>4. /\ currentState' \in [Components -> States]
          /\ hpc' \in [Components -> {"wait", "open", "close"}]
      <3>1. CASE Move(c)
        <4>1. PICK edge \in Moves : Becomes(c, edge[2]) /\ UNCHANGED hpc
          BY <3>1 DEF Move
        <4>2. edge[2] \in States
          BY DEF Moves, States
        <4> QED
          BY <4>1, <4>2 DEF Becomes, TypeOK
      <3>2. CASE NoResource(c) \/ Invalidate(c) \/ In_WaitForResource(c)
                     \/ Out_WaitForResource(c)
        BY <3>2 DEF NoResource, Invalidate, In_WaitForResource,
                    Out_WaitForResource, At, Becomes, TypeOK, States
      <3>3. CASE Refuse(c)
        BY <3>3 DEF Refuse, TypeOK
      <3> QED
        BY <1>7, <3>1, <3>2, <3>3
    <2>5. UNCHANGED <<nGroupPriority, codecOpen, componentList>>
      BY <1>7 DEF NoResource, Invalidate, In_WaitForResource, Out_WaitForResource,
                  Move, Refuse
    <2> QED
      BY <2>2, <2>3, <2>4, <2>5 DEF TypeOK, ListBounded, QueuesOK
  <1>8. CASE UNCHANGED vars
    BY <1>8 DEF vars, TypeOK, ListBounded
  <1> QED
    BY <1>1, <1>2, <1>3, <1>4, <1>5, <1>6, <1>7, <1>8 DEF Next, Handler

-----------------------------------------------------------------------------
(* The list and the open codecs.  Nobody gives way among equals, so only its *)
(* own handler lists a component or removes it: it is listed from the moment *)
(* its codec is being opened to the moment it begins to close it, and one    *)
(* that is at rest in a state without a codec has none open.                 *)

ListedWhileOpen(c) ==
    /\ hpc[c] = "wait" => (IsIn(componentList, c) <=> codecOpen[c])
    /\ hpc[c] = "open" => /\ IsIn(componentList, c) /\ ~ codecOpen[c]
                          /\ currentState[c] = "Loaded"
    /\ hpc[c] = "close" => ~ IsIn(componentList, c)
    /\ hpc[c] = "wait" /\ currentState[c] \in {"Loaded", "WaitForResources", "Invalid"}
           => ~ codecOpen[c]

AccountInv == Once(componentList) /\ \A c \in Components : ListedWhileOpen(c)

LEMMA NobodyGivesWay ==
    ASSUME TypeOK, Undisputed, NEW c \in Components
    PROVE  searchLowPriority(componentList, nGroupPriority[c]) = 0
  <1> DEFINE low == searchLowPriority(componentList, nGroupPriority[c])
  <1>1. componentList \in Seq(Elements) /\ nGroupPriority[c] \in Priorities
    BY DEF TypeOK
  <1>2. LowestOf(componentList, nGroupPriority[c], low, Len(componentList))
    BY <1>1, SearchFindsLowest
  <1> HIDE DEF low
  <1>3. low # 0 => low \in 1 .. Len(componentList)
    BY <1>1, <1>2 DEF LowestOf
  <1>4. low # 0 => componentList[low] \in Elements
    BY <1>1, <1>3
  <1>5. low # 0 => componentList[low].groupPriority \in Priorities
    BY <1>4 DEF Elements
  <1>6. low # 0 => componentList[low].groupPriority = nGroupPriority[c]
    BY <1>1, <1>5 DEF Undisputed
  <1>7. low # 0 => componentList[low].groupPriority > nGroupPriority[c]
    BY <1>2 DEF LowestOf
  <1>8. nGroupPriority[c] \in Nat
    BY <1>1, ResourceManagerAssumption
  <1>9. low = 0
    BY <1>6, <1>7, <1>8
  <1> QED
    BY <1>9 DEF low

LEMMA AccountStep ==
    Undisputed /\ Sound /\ AccountInv /\ [Next]_vars => AccountInv'
  <1> SUFFICES ASSUME Undisputed, Sound, AccountInv, [Next]_vars PROVE AccountInv'
    OBVIOUS
  <1>0. TypeOK /\ componentList \in Seq(Elements)
    BY DEF Sound, TypeOK
  <1>1. ASSUME NEW c \in Components, Get_Resource(c) PROVE AccountInv'
    <2>1. componentList' = addElementList(componentList, c)
      BY <1>0, <1>1, NobodyGivesWay DEF Get_Resource
    <2>2. /\ hpc[c] = "wait" /\ currentState[c] = "Loaded"
          /\ hpc' = [hpc EXCEPT ![c] = "open"]
          /\ UNCHANGED <<currentState, codecOpen>>
      BY <1>1 DEF Get_Resource, Takes, At
    <2>3. ~ IsIn(componentList, c) /\ ~ codecOpen[c]
      BY <2>2 DEF AccountInv, ListedWhileOpen
    <2>4. \A d : IsIn(componentList', d) <=> d = c \/ IsIn(componentList, d)
      BY <1>0, <2>1, AddShape
    <2>5. Once(componentList')
      BY <1>0, <2>1, <2>3, AddShape DEF AccountInv
    <2>6. ASSUME NEW d \in Components PROVE ListedWhileOpen(d)'
      <3>1. IsIn(componentList, d)' <=> d = c \/ IsIn(componentList, d)
        BY <2>4 DEF IsIn
      <3>2. hpc'[d] = IF d = c THEN "open" ELSE hpc[d]
        BY <1>0, <2>2 DEF TypeOK
      <3> QED
        BY <2>2, <2>3, <3>1, <3>2 DEF AccountInv, ListedWhileOpen
    <2> QED
      BY <2>5, <2>6 DEF AccountInv, Once
  <1>2. ASSUME NEW c \in Components, Release_Resource(c) PROVE AccountInv'
    <2>1. componentList' = removeElementList(componentList, c)
      BY <1>2 DEF Release_Resource
    <2>2. /\ hpc' = [hpc EXCEPT ![c] = "close"] /\ UNCHANGED codecOpen
          /\ \A d \in Components \ {c} : currentState'[d] = currentState[d]
      BY <1>0, <1>2 DEF Release_Resource, At, Becomes, TypeOK
    <2>3. Once(componentList') /\ ~ IsIn(componentList', c)
      BY <1>0, <2>1, RemoveOnce DEF AccountInv
    <2>4. \A d : d # c => (IsIn(componentList', d) <=> IsIn(componentList, d))
      BY <1>0, <2>1, RemoveKeeps
    <2>5. ASSUME NEW d \in Components PROVE ListedWhileOpen(d)'
      <3>1. IsIn(componentList, d)' <=> d # c /\ IsIn(componentList, d)
        BY <2>3, <2>4 DEF IsIn
      <3>2. hpc'[d] = IF d = c THEN "close" ELSE hpc[d]
        BY <1>0, <2>2 DEF TypeOK
      <3> QED
        BY <2>2, <3>1, <3>2 DEF AccountInv, ListedWhileOpen
    <2> QED
      BY <2>3, <2>5 DEF AccountInv, Once
  <1>3. ASSUME UNCHANGED componentList, \A d \in Components : ListedWhileOpen(d)'
        PROVE  AccountInv'
    BY <1>3 DEF AccountInv, Once
  <1>4. ASSUME NEW c \in Components, OpenCodec(c) PROVE AccountInv'
    <2>1. /\ hpc[c] = "open" /\ hpc' = [hpc EXCEPT ![c] = "wait"]
          /\ codecOpen' = [codecOpen EXCEPT ![c] = TRUE]
          /\ currentState' = [currentState EXCEPT ![c] = "Idle"]
          /\ UNCHANGED componentList
      BY <1>4 DEF OpenCodec, At, Becomes, Undisputed
    <2>2. ASSUME NEW d \in Components PROVE ListedWhileOpen(d)'
      BY <1>0, <2>1 DEF TypeOK, AccountInv, ListedWhileOpen, IsIn
    <2> QED
      BY <1>3, <2>1, <2>2
  <1>5. ASSUME NEW c \in Components, CloseCodec(c) PROVE AccountInv'
    <2>1. /\ hpc[c] = "close" /\ hpc' = [hpc EXCEPT ![c] = "wait"]
          /\ codecOpen' = [codecOpen EXCEPT ![c] = FALSE]
          /\ \A d \in Components \ {c} : currentState'[d] = currentState[d]
          /\ UNCHANGED componentList
      BY <1>0, <1>5 DEF CloseCodec, At, Becomes, TypeOK
    <2>2. ASSUME NEW d \in Components PROVE ListedWhileOpen(d)'
      BY <1>0, <2>1 DEF TypeOK, AccountInv, ListedWhileOpen, IsIn
    <2> QED
      BY <1>3, <2>1, <2>2
  <1>6. ASSUME NEW c \in Components, Invalidate(c) PROVE AccountInv'
    <2>1. /\ hpc[c] = "wait" /\ hpc' = [hpc EXCEPT ![c] = "close"]
          /\ currentState[c] \in {"Loaded", "WaitForResources"}
          /\ \A d \in Components \ {c} : currentState'[d] = currentState[d]
          /\ UNCHANGED <<codecOpen, componentList>>
      BY <1>0, <1>6 DEF Invalidate, Takes, At, Becomes, TypeOK
    <2>2. ASSUME NEW d \in Components PROVE ListedWhileOpen(d)'
      BY <1>0, <2>1 DEF TypeOK, AccountInv, ListedWhileOpen, IsIn
    <2> QED
      BY <1>3, <2>1, <2>2
  <1>7. ASSUME NEW c \in Components,
               In_WaitForResource(c) \/ Out_WaitForResource(c) \/ Move(c)
        PROVE  AccountInv'
    <2>1. PICK s \in States :
             /\ hpc[c] = "wait"
             /\ currentState' = [currentState EXCEPT ![c] = s]
             /\ s \in {"Loaded", "WaitForResources", "Invalid"} =>
                    currentState[c] \in {"Loaded", "WaitForResources", "Invalid"}
             /\ UNCHANGED <<hpc, codecOpen, componentList>>
      <3>1. CASE In_WaitForResource(c)
        BY <3>1 DEF In_WaitForResource, Takes, Becomes, States
      <3>2. CASE Out_WaitForResource(c)
        BY <3>2 DEF Out_WaitForResource, Takes, Becomes, States
      <3>3. CASE Move(c)
        <4>1. PICK edge \in Moves : /\ Takes(c, {edge[1]}, edge[2])
                                    /\ Becomes(c, edge[2])
                                    /\ UNCHANGED <<hpc, codecOpen, componentList>>
          BY <3>3 DEF Move
        <4>2. edge[2] \in {"Idle", "Executing", "Pause"}
          BY DEF Moves
        <4> QED
          BY <4>1, <4>2 DEF Takes, Becomes, States
      <3> QED
        BY <1>7, <3>1, <3>2, <3>3
    <2>2. ASSUME NEW d \in Components PROVE ListedWhileOpen(d)'
      BY <1>0, <2>1 DEF TypeOK, AccountInv, ListedWhileOpen, IsIn
    <2> QED
      BY <1>3, <2>1, <2>2
  <1>8. ASSUME UNCHANGED <<currentState, hpc, codecOpen, componentList>>
        PROVE  AccountInv'
    BY <1>8 DEF AccountInv, ListedWhileOpen, Once, IsIn
  <1>9. ASSUME NEW c \in Components,
               \/ \E dest \in Targets : SendCommand(c, dest)
               \/ SetPriority(c) \/ NoResource(c) \/ Refuse(c)
        PROVE  AccountInv'
    BY <1>8, <1>9 DEF SendCommand, SetPriority, NoResource, Refuse
  <1>10. CASE UNCHANGED vars
    BY <1>8, <1>10 DEF vars
  <1> QED
    BY <1>1, <1>2, <1>4, <1>5, <1>6, <1>7, <1>9, <1>10 DEF Next, Handler

-----------------------------------------------------------------------------
(* The theorems.                                                             *)

\* The manager never lists more components than the hardware has instances;
\* and where all priorities are equal and every codec opens, a component
\* whose handler is at rest is listed exactly if it has its codec open, and
\* once (Exynos_OMX_Get_Resource and Exynos_OMX_Release_Resource, called from
\* Exynos_OMX_ComponentStateSet).
THEOREM ListIsSound == Spec => []AccountedFor
  <1>1. Init => Sound
    BY SoundInit
  <1>2. Sound /\ [Next]_vars => Sound'
    BY SoundStep
  <1>3. Init => AccountInv
    BY DEF Init, AccountInv, ListedWhileOpen, Once, IsIn
  <1>4. Sound /\ AccountInv => Accounted
    BY DEF AccountInv, ListedWhileOpen, Accounted, Once
  <1>5. Spec => []Sound
    BY <1>1, <1>2, PTL DEF Spec
  <1>6. CASE Undisputed
    <2>1. Sound /\ AccountInv /\ [Next]_vars => AccountInv'
      BY <1>6, AccountStep
    <2>2. Sound /\ AccountInv => AccountedFor
      BY <1>4 DEF AccountedFor, Sound
    <2> QED
      BY <1>3, <1>5, <2>1, <2>2, PTL DEF Spec
  <1>7. CASE ~ Undisputed
    <2>1. Sound => AccountedFor
      BY <1>7 DEF AccountedFor, Sound
    <2> QED
      BY <1>5, <2>1, PTL
  <1> QED
    BY <1>6, <1>7

\* A component loses its element to another only in the call of
\* Exynos_OMX_Get_Resource of the other, to which searchLowPriority gave the
\* element of the lowest priority, and that is lower than the caller's.
THEOREM LowestGivesWay == Spec => PreemptsLowest
  <1> DEFINE Gives(c, d, i) ==
                 /\ componentList[i].comp = c
                 /\ componentList[i].groupPriority > nGroupPriority[d]
                 /\ \A j \in DOMAIN componentList :
                        componentList[j].groupPriority
                            <= componentList[i].groupPriority
             Step == \A c, d \in Components :
                        Lost(c) /\ ~ IsIn(componentList, d) /\ IsIn(componentList', d) =>
                            \E i \in DOMAIN componentList : Gives(c, d, i)
  <1>1. ASSUME Sound, [Next]_vars, NEW c \in Components, NEW d \in Components,
               Lost(c), ~ IsIn(componentList, d), IsIn(componentList', d)
        PROVE  \E i \in DOMAIN componentList : Gives(c, d, i)
    <2>0. TypeOK /\ componentList \in Seq(Elements)
      BY <1>1 DEF Sound, TypeOK
    <2>1. ASSUME NEW e \in Components, Release_Resource(e) PROVE FALSE
      <3>1. componentList' = removeElementList(componentList, e)
        BY <2>1 DEF Release_Resource
      <3> QED
        BY <1>1, <2>0, <3>1, RemoveKeeps
    <2>2. ASSUME NEW e \in Components, Get_Resource(e)
          PROVE  \E i \in DOMAIN componentList : Gives(c, d, i)
      <3> DEFINE low == searchLowPriority(componentList, nGroupPriority[e])
                 rest == removeElementList(componentList, componentList[low].comp)
      <3>1. \/ componentList' = addElementList(componentList, e)
            \/ low # 0 /\ componentList' = addElementList(rest, e)
        BY <2>2 DEF Get_Resource
      <3>2. rest \in Seq(Elements)
        BY <2>0, RemoveShape
      <3>3. LowestOf(componentList, nGroupPriority[e], low, Len(componentList))
        BY <2>0, SearchFindsLowest DEF TypeOK
      <3>4. \A f : IsIn(rest, f) => IsIn(componentList, f)
        BY <2>0, RemoveKeeps
      <3>5. \A f : f # componentList[low].comp /\ IsIn(componentList, f) => IsIn(rest, f)
        BY <2>0, RemoveKeeps
      <3> HIDE DEF rest, low
      <3>6. \A f : IsIn(addElementList(componentList, e), f) <=> f = e \/ IsIn(componentList, f)
        BY <2>0, AddShape
      <3>7. \A f : IsIn(addElementList(rest, e), f) <=> f = e \/ IsIn(rest, f)
        BY <2>0, <3>2, AddShape
      <3>8. d = e
        BY <1>1, <3>1, <3>4, <3>6, <3>7
      <3>9. low # 0 /\ componentList[low].comp = c
        BY <1>1, <3>1, <3>5, <3>6, <3>7 DEF Lost
      <3>10. low \in DOMAIN componentList /\ DOMAIN componentList = 1 .. Len(componentList)
        BY <2>0, <3>3, <3>9 DEF LowestOf
      <3>11. Gives(c, d, low)
        BY <3>3, <3>8, <3>9, <3>10 DEF LowestOf
      <3> QED
        BY <3>10, <3>11
    <2>3. CASE UNCHANGED componentList
      BY <1>1, <2>3 DEF Lost
    <2>4. \/ UNCHANGED componentList
          \/ \E e \in Components : Release_Resource(e) \/ Get_Resource(e)
      BY <1>1 DEF Next, Handler, vars, SendCommand, SetPriority, NoResource,
                  OpenCodec, CloseCodec, Invalidate, In_WaitForResource,
                  Out_WaitForResource, Move, Refuse
    <2> QED
      BY <2>1, <2>2, <2>3, <2>4
  <1>2. Sound /\ [Next]_vars => [Step]_vars
    BY <1>1
  <1>3. Init => Sound
    BY SoundInit
  <1> HIDE DEF Step
  <1>4. Spec => [][Step]_vars
    BY <1>2, <1>3, SoundStep, PTL DEF Spec
  <1> QED
    BY <1>4, PTL DEF Step, PreemptsLowest
=============================================================================
