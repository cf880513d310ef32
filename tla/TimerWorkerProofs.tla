-------------------------- MODULE TimerWorkerProofs --------------------------
(***************************************************************************)
(* That the heap of TimeQueue is one, for queues of any length, and what   *)
(* the timer of TimerWorker can rely on because of it.                     *)
(*                                                                         *)
(* The three loops of the heap are recursive functions that call           *)
(* themselves last: one lemma, by induction on how often they can still do *)
(* so, shows that such a definition defines something.  What they compute  *)
(* is then proved by induction on the same number.                         *)
(***************************************************************************)
EXTENDS TimerWorker, SequenceTheorems, WellFoundedInduction, TLAPS

LEMMA StrongInduction ==
    ASSUME NEW Good, \A n \in Nat : (\A m \in 0..(n - 1) : m \in Good) => n \in Good
    PROVE  \A n \in Nat : n \in Good
<1> DEFINE Bad == {n \in Nat : n \notin Good}
<1> SUFFICES ASSUME Bad # {} PROVE FALSE
    OBVIOUS
<1>1. PICK n \in Bad : \A m \in Bad : <<m, n>> \notin OpToRel(<, Nat)
    BY NatLessThanWellFounded, WFMin
<1>2. ASSUME NEW m \in 0..(n - 1) PROVE m \in Good
  <2>1. m \in Nat /\ n \in Nat /\ m < n
      OBVIOUS
  <2>2. <<m, n>> \in OpToRel(<, Nat)
      BY <2>1 DEF OpToRel
  <2>3. QED
      BY <1>1, <2>1, <2>2
<1>3. QED
    BY <1>2

------------------------------------------------------------------------------
(* A loop: it ends at the members of stop with the result base, and goes on  *)
(* at next otherwise.                                                        *)
Loops(f, D, stop, next, base) ==
    f = [x \in D |-> IF x \in stop THEN base[x] ELSE f[next[x]]]

Below(D, m, n) == {x \in D : m[x] < n}

(* Two loops agree where both are defined.                                   *)
LEMMA LoopsAgree ==
    ASSUME NEW D, NEW m \in [D -> Nat], NEW stop \in SUBSET D, NEW next, NEW base,
           \A x \in D \ stop : next[x] \in D /\ m[next[x]] < m[x],
           NEW n \in Nat, NEW g, Loops(g, Below(D, m, n), stop, next, base),
           NEW k \in Nat, NEW h, Loops(h, Below(D, m, k), stop, next, base),
           NEW y \in D, m[y] < n, m[y] < k
    PROVE  g[y] = h[y]
<1> DEFINE Good == {i \in Nat : \A x \in D :
                        m[x] = i /\ m[x] < n /\ m[x] < k => g[x] = h[x]}
<1>1. ASSUME NEW i \in Nat, \A j \in 0..(i - 1) : j \in Good
      PROVE  i \in Good
  <2> SUFFICES ASSUME NEW x \in D, m[x] = i, m[x] < n, m[x] < k
               PROVE  g[x] = h[x]
      OBVIOUS
  <2>1. x \in Below(D, m, n) /\ x \in Below(D, m, k)
      BY DEF Below
  <2>2. CASE x \in stop
      BY <2>1, <2>2 DEF Loops
  <2>3. CASE x \notin stop
    <3>1. next[x] \in D /\ m[next[x]] < m[x]
        BY <2>3
    <3>2. m[next[x]] \in Nat /\ m[next[x]] \in 0..(i - 1)
        BY <3>1
    <3>3. g[next[x]] = h[next[x]]
        BY <1>1, <3>1, <3>2
    <3>4. QED
        BY <2>1, <2>3, <3>3 DEF Loops
  <2>4. QED
      BY <2>2, <2>3
<1> HIDE DEF Good
<1>2. \A i \in Nat : i \in Good
    BY <1>1, StrongInduction
<1>3. QED
    BY <1>2 DEF Good

(* A loop that comes nearer to its end each time is a function.              *)
LEMMA LoopsExist ==
    ASSUME NEW D, NEW m \in [D -> Nat], NEW stop \in SUBSET D, NEW next, NEW base,
           \A x \in D \ stop : next[x] \in D /\ m[next[x]] < m[x]
    PROVE  \E f : Loops(f, D, stop, next, base)
<1> DEFINE part(i) == CHOOSE g : Loops(g, Below(D, m, i), stop, next, base)
           whole(E) == [x \in E |-> IF x \in stop THEN base[x]
                                    ELSE part(m[x])[next[x]]]
           Good == {i \in Nat : \E g : Loops(g, Below(D, m, i), stop, next, base)}
<1>0. \A i \in Good : Loops(part(i), Below(D, m, i), stop, next, base)
  <2> SUFFICES ASSUME NEW i \in Good
               PROVE  Loops(part(i), Below(D, m, i), stop, next, base)
      OBVIOUS
  <2>1. \E g : Loops(g, Below(D, m, i), stop, next, base)
      OBVIOUS
  <2>2. QED
      BY <2>1
<1>1. ASSUME NEW E \in SUBSET D, \A x \in E \ stop : next[x] \in E,
             \A x \in E : m[x] \in Good
      PROVE  Loops(whole(E), E, stop, next, base)
  <2>1. ASSUME NEW x \in E, x \notin stop
        PROVE  part(m[x])[next[x]] = whole(E)[next[x]]
    <3> DEFINE y == next[x]
    <3>1. y \in E /\ y \in D /\ m[y] < m[x] /\ m[x] \in Nat /\ m[y] \in Nat
        BY <1>1, <2>1
    <3>2. /\ Loops(part(m[x]), Below(D, m, m[x]), stop, next, base)
          /\ Loops(part(m[y]), Below(D, m, m[y]), stop, next, base)
      <4>1. m[x] \in Good /\ m[y] \in Good
          BY <1>1, <3>1
      <4> HIDE DEF Good, part, y
      <4>2. QED
          BY <1>0, <4>1
    <3> HIDE DEF part
    <3>3. y \in Below(D, m, m[x])
        BY <3>1 DEF Below
    <3>4. CASE y \in stop
        BY <3>1, <3>2, <3>3, <3>4 DEF Loops
    <3>5. CASE y \notin stop
      <4>1. next[y] \in D /\ m[next[y]] < m[y] /\ m[next[y]] < m[x] /\ m[next[y]] \in Nat
          BY <3>1, <3>5
      <4>2. part(m[x])[next[y]] = part(m[y])[next[y]]
        <5>1. \A n, k \in Nat : \A g, h : \A z \in D :
                  /\ Loops(g, Below(D, m, n), stop, next, base)
                  /\ Loops(h, Below(D, m, k), stop, next, base)
                  /\ m[z] < n /\ m[z] < k
                  => g[z] = h[z]
            BY LoopsAgree
        <5> HIDE DEF y
        <5>2. QED
            BY <3>1, <3>2, <4>1, <5>1
      <4>3. part(m[x])[y] = part(m[x])[next[y]]
          BY <3>2, <3>3, <3>5 DEF Loops
      <4>4. whole(E)[y] = part(m[y])[next[y]]
          BY <3>1, <3>5
      <4>5. QED
          BY <4>2, <4>3, <4>4
    <3>6. QED
        BY <3>4, <3>5
  <2> HIDE DEF part
  <2>2. whole(E) = [x \in E |-> IF x \in stop THEN base[x] ELSE whole(E)[next[x]]]
      BY <2>1
  <2>3. QED
      BY <2>2 DEF Loops
<1>2. ASSUME NEW i \in Nat, \A j \in 0..(i - 1) : j \in Good
      PROVE  i \in Good
  <2> DEFINE E == Below(D, m, i)
  <2>1. E \in SUBSET D /\ \A x \in E : m[x] \in Nat /\ m[x] \in 0..(i - 1)
      BY DEF Below
  <2>2. ASSUME NEW x \in E \ stop PROVE next[x] \in E
    <3>1. x \in D /\ m[x] < i /\ next[x] \in D /\ m[next[x]] < m[x]
        BY DEF Below
    <3>2. m[x] \in Nat /\ m[next[x]] \in Nat
        BY <3>1
    <3>3. m[next[x]] < i
        BY <3>1, <3>2
    <3>4. QED
        BY <3>1, <3>3 DEF Below
  <2>3. \A x \in E : m[x] \in Good
      BY <1>2, <2>1
  <2> HIDE DEF E, Good, whole
  <2>4. Loops(whole(E), E, stop, next, base)
      BY <1>1, <2>1, <2>2, <2>3
  <2>5. QED
      BY <2>4 DEF E, Good
<1> HIDE DEF Good, whole
<1>3. \A i \in Nat : i \in Good
    BY <1>2, StrongInduction
<1>4. Loops(whole(D), D, stop, next, base)
    BY <1>1, <1>3
<1>5. QED
    BY <1>4

------------------------------------------------------------------------------
(* The places of a queue.                                                    *)
LEMMA QueueParts ==
    ASSUME NEW queue \in Seq(Items)
    PROVE  /\ Len(queue) \in Nat
           /\ DOMAIN queue = 1..Len(queue)
           /\ \A i \in 1..Len(queue) : queue[i] \in Items /\ Date[queue[i]] \in Nat
BY DateAssumption

LEMMA Parent ==
    ASSUME NEW i \in Nat, i > 1
    PROVE  /\ i \div 2 \in Nat /\ 1 <= i \div 2 /\ i \div 2 < i
           /\ \A k \in Nat : k \div 2 = i <=> k \in {2 * i, 2 * i + 1}
OBVIOUS

LEMMA ChildOf ==
    ASSUME NEW i \in Nat, NEW k \in Nat
    PROVE  /\ k \div 2 \in Nat
           /\ k \div 2 = i <=> k \in {2 * i, 2 * i + 1}
OBVIOUS

LEMMA Exchanged ==
    ASSUME NEW queue \in Seq(Items), NEW i \in DOMAIN queue, NEW j \in DOMAIN queue, i # j
    PROVE  LET new == Exchange(queue, i, j)
           IN /\ new \in Seq(Items)
              /\ Len(new) = Len(queue)
              /\ DOMAIN new = DOMAIN queue
              /\ \A k \in DOMAIN queue :
                    new[k] = IF k = i THEN queue[j] ELSE IF k = j THEN queue[i] ELSE queue[k]
<1> DEFINE new == Exchange(queue, i, j)
<1>1. queue \in [1..Len(queue) -> Items] /\ Len(queue) \in Nat
    BY LenProperties
<1>2. /\ new \in [1..Len(queue) -> Items]
      /\ \A k \in 1..Len(queue) :
            new[k] = IF k = i THEN queue[j] ELSE IF k = j THEN queue[i] ELSE queue[k]
    BY <1>1 DEF Exchange
<1>3. new \in Seq(Items) /\ Len(new) = Len(queue)
  <2> HIDE DEF new
  <2>1. new \in Seq(Items)
      BY <1>1, <1>2, SeqDef
  <2>2. Len(new) = Len(queue)
      BY <1>1, <1>2, <2>1, LenProperties
  <2>3. QED
      BY <2>1, <2>2
<1>4. QED
    BY <1>1, <1>2, <1>3

(* What rises comes nearer to the root.                                      *)
LEMMA RiseUnfolds ==
    ASSUME NEW queue \in Seq(Items), NEW i \in DOMAIN queue
    PROVE  Rise[<<queue, i>>] =
               IF i > 1 /\ Earlier(queue, i, i \div 2)
               THEN Rise[<<Exchange(queue, i, i \div 2), i \div 2>>]
               ELSE queue
<1> DEFINE goesOn(at) == at[2] > 1 /\ Earlier(at[1], at[2], at[2] \div 2)
           stop == {at \in Places : ~goesOn(at)}
           next == [at \in Places |->
                       <<Exchange(at[1], at[2], at[2] \div 2), at[2] \div 2>>]
           base == [at \in Places |-> at[1]]
           m == [at \in Places |-> at[2]]
<1>1. ASSUME NEW at \in Places
      PROVE  at[1] \in Seq(Items) /\ at[2] \in Nat /\ at[2] \in DOMAIN at[1]
    BY DEF Places
<1>2. m \in [Places -> Nat] /\ stop \in SUBSET Places
    BY <1>1
<1>3. ASSUME NEW at \in Places \ stop
      PROVE  next[at] \in Places /\ m[next[at]] < m[at]
  <2> DEFINE q == at[1]
             k == at[2]
             j == k \div 2
             new == Exchange(q, k, j)
  <2>1. q \in Seq(Items) /\ k \in Nat /\ k \in DOMAIN q /\ k > 1
      BY <1>1, <1>3
  <2>2. j \in Nat /\ 1 <= j /\ j < k
      BY <2>1, Parent
  <2>3. DOMAIN q = 1..Len(q) /\ Len(q) \in Nat
      BY <2>1, QueueParts
  <2>4. j \in DOMAIN q
      BY <2>1, <2>2, <2>3
  <2>5. next[at] = <<new, j>>
      OBVIOUS
  <2> HIDE DEF q, k, j
  <2>6. new \in Seq(Items) /\ DOMAIN new = DOMAIN q
      BY <2>1, <2>2, <2>4, Exchanged
  <2> HIDE DEF new, next, stop
  <2>7. next[at] \in Places
      BY <2>2, <2>4, <2>5, <2>6 DEF Places
  <2>8. m[next[at]] = j /\ m[at] = k
      BY <2>5, <2>7 DEF k
  <2>9. QED
      BY <2>2, <2>7, <2>8
<1> HIDE DEF stop, next, base, m
<1>4. PICK f : Loops(f, Places, stop, next, base)
    BY <1>2, <1>3, LoopsExist
<1>5. f = [at \in Places |->
              IF at[2] > 1 /\ Earlier(at[1], at[2], at[2] \div 2)
              THEN f[<<Exchange(at[1], at[2], at[2] \div 2), at[2] \div 2>>]
              ELSE at[1]]
    BY <1>4 DEF Loops, stop, next, base
<1>6. Rise = [at \in Places |->
                 IF at[2] > 1 /\ Earlier(at[1], at[2], at[2] \div 2)
                 THEN Rise[<<Exchange(at[1], at[2], at[2] \div 2), at[2] \div 2>>]
                 ELSE at[1]]
    BY <1>5 DEF Rise
<1>7. i \in Nat /\ <<queue, i>> \in Places
    BY QueueParts DEF Places
<1>8. QED
    BY <1>6, <1>7

(* A child that no other child is earlier than.                              *)
LEMMA EarliestChildIs ==
    ASSUME NEW queue \in Seq(Items), NEW i \in DOMAIN queue, Children(queue, i) # {}
    PROVE  LET j == EarliestChild(queue, i)
           IN /\ j \in DOMAIN queue
              /\ j \in Nat /\ i < j /\ j \div 2 = i
              /\ \A k \in DOMAIN queue : k \div 2 = i => Date[queue[j]] <= Date[queue[k]]
<1> DEFINE j == EarliestChild(queue, i)
<1>1. /\ Len(queue) \in Nat /\ DOMAIN queue = 1..Len(queue)
      /\ \A k \in DOMAIN queue : Date[queue[k]] \in Nat
      /\ i \in Nat /\ i >= 1
    BY QueueParts
<1>2. ASSUME NEW k \in DOMAIN queue
      PROVE  k \div 2 = i <=> k \in Children(queue, i)
  <2>1. k \in Nat
      BY <1>1
  <2>2. k \div 2 = i <=> k \in {2 * i, 2 * i + 1}
      BY <1>1, <2>1, ChildOf
  <2>3. QED
      BY <2>2 DEF Children
<1>3. \E c \in Children(queue, i) :
          \A k \in Children(queue, i) : ~Earlier(queue, k, c)
  <2>1. CASE Children(queue, i) = {2 * i}
    <3>1. ~Earlier(queue, 2 * i, 2 * i)
        BY <1>1, <2>1 DEF Earlier, Children
    <3>2. QED
        BY <2>1, <3>1
  <2>2. CASE Children(queue, i) = {2 * i + 1}
    <3>1. ~Earlier(queue, 2 * i + 1, 2 * i + 1)
        BY <1>1, <2>2 DEF Earlier, Children
    <3>2. QED
        BY <2>2, <3>1
  <2>3. CASE Children(queue, i) = {2 * i, 2 * i + 1}
    <3>1. /\ 2 * i \in DOMAIN queue /\ 2 * i + 1 \in DOMAIN queue
          /\ Date[queue[2 * i]] \in Nat /\ Date[queue[2 * i + 1]] \in Nat
        BY <1>1, <2>3 DEF Children
    <3>2. CASE Earlier(queue, 2 * i, 2 * i + 1)
        BY <2>3, <3>1, <3>2 DEF Earlier
    <3>3. CASE ~Earlier(queue, 2 * i, 2 * i + 1)
        BY <2>3, <3>1, <3>3 DEF Earlier
    <3>4. QED
        BY <3>2, <3>3
  <2>4. QED
      BY <2>1, <2>2, <2>3 DEF Children
<1>4. /\ j \in Children(queue, i)
      /\ \A k \in Children(queue, i) : ~Earlier(queue, k, j)
    BY <1>3 DEF EarliestChild
<1> HIDE DEF j
<1>5. j \in DOMAIN queue /\ j \in {2 * i, 2 * i + 1}
    BY <1>4 DEF Children
<1>6. j \in Nat /\ i < j /\ j \div 2 = i
    BY <1>1, <1>2, <1>4, <1>5
<1>7. ASSUME NEW k \in DOMAIN queue, k \div 2 = i
      PROVE  Date[queue[j]] <= Date[queue[k]]
  <2>1. ~(Date[queue[k]] < Date[queue[j]])
      BY <1>2, <1>4, <1>7 DEF Earlier
  <2>2. Date[queue[k]] \in Nat /\ Date[queue[j]] \in Nat
      BY <1>1, <1>5
  <2>3. QED
      BY <2>1, <2>2
<1>8. QED
    BY <1>5, <1>6, <1>7 DEF j

(* What sinks comes nearer to the end.                                       *)
LEMMA SinkUnfolds ==
    ASSUME NEW queue \in Seq(Items), NEW i \in DOMAIN queue
    PROVE  LET j == EarliestChild(queue, i)
           IN Sink[<<queue, i>>] =
                  IF Children(queue, i) = {} \/ Earlier(queue, i, j)
                  THEN queue
                  ELSE Sink[<<Exchange(queue, i, j), j>>]
<1> DEFINE ends(at) == \/ Children(at[1], at[2]) = {}
                       \/ Earlier(at[1], at[2], EarliestChild(at[1], at[2]))
           stop == {at \in Places : ends(at)}
           next == [at \in Places |->
                       <<Exchange(at[1], at[2], EarliestChild(at[1], at[2])),
                         EarliestChild(at[1], at[2])>>]
           base == [at \in Places |-> at[1]]
           m == [at \in Places |-> Len(at[1]) - at[2]]
<1>1. ASSUME NEW at \in Places
      PROVE  /\ at[1] \in Seq(Items) /\ at[2] \in Nat /\ at[2] \in DOMAIN at[1]
             /\ Len(at[1]) \in Nat /\ Len(at[1]) - at[2] \in Nat
  <2>1. at[1] \in Seq(Items) /\ at[2] \in Nat /\ at[2] \in DOMAIN at[1]
      BY DEF Places
  <2>2. Len(at[1]) \in Nat /\ DOMAIN at[1] = 1..Len(at[1])
      BY <2>1, QueueParts
  <2>3. QED
      BY <2>1, <2>2
<1>2. m \in [Places -> Nat] /\ stop \in SUBSET Places
    BY <1>1
<1>3. ASSUME NEW at \in Places \ stop
      PROVE  next[at] \in Places /\ m[next[at]] < m[at]
  <2> DEFINE q == at[1]
             k == at[2]
             j == EarliestChild(q, k)
             new == Exchange(q, k, j)
  <2>1. q \in Seq(Items) /\ k \in Nat /\ k \in DOMAIN q /\ Children(q, k) # {}
      BY <1>1, <1>3
  <2>2. next[at] = <<new, j>>
      OBVIOUS
  <2>3. m[at] = Len(q) - k /\ m[at] \in Nat
      BY <1>1
  <2> HIDE DEF q, k
  <2>4. j \in Nat /\ k < j /\ j \in DOMAIN q
      BY <2>1, EarliestChildIs
  <2> HIDE DEF j
  <2>5. new \in Seq(Items) /\ DOMAIN new = DOMAIN q /\ Len(new) = Len(q)
      BY <2>1, <2>4, Exchanged
  <2> HIDE DEF new, next, stop
  <2>6. next[at] \in Places
      BY <2>2, <2>4, <2>5 DEF Places
  <2>7. m[next[at]] = Len(q) - j
      BY <2>2, <2>5, <2>6
  <2>8. Len(q) \in Nat
      BY <2>1, QueueParts
  <2> HIDE DEF m
  <2>9. QED
      BY <2>1, <2>3, <2>4, <2>6, <2>7, <2>8
<1> HIDE DEF stop, next, base, m
<1>4. PICK f : Loops(f, Places, stop, next, base)
    BY <1>2, <1>3, LoopsExist
<1> DEFINE result(g, at) ==
        IF Children(at[1], at[2]) = {}
               \/ Earlier(at[1], at[2], EarliestChild(at[1], at[2]))
        THEN at[1]
        ELSE g[<<Exchange(at[1], at[2], EarliestChild(at[1], at[2])),
                 EarliestChild(at[1], at[2])>>]
<1>5. f = [at \in Places |-> result(f, at)]
    BY <1>4 DEF Loops, stop, next, base
<1>6. Sink = [at \in Places |-> result(Sink, at)]
    BY <1>5 DEF Sink
<1>7. i \in Nat /\ <<queue, i>> \in Places
    BY QueueParts DEF Places
<1>8. QED
    BY <1>6, <1>7

------------------------------------------------------------------------------
(* The same items in another order.                                          *)
Reordered(new, old) ==
    /\ new \in Seq(Items)
    /\ Len(new) = Len(old)
    /\ Range(new) = Range(old)
    /\ IsInjective(old) => IsInjective(new)

LEMMA ExchangeReorders ==
    ASSUME NEW queue \in Seq(Items), NEW i \in DOMAIN queue, NEW j \in DOMAIN queue, i # j
    PROVE  Reordered(Exchange(queue, i, j), queue)
<1> DEFINE new == Exchange(queue, i, j)
<1>1. /\ new \in Seq(Items)
      /\ Len(new) = Len(queue)
      /\ DOMAIN new = DOMAIN queue
      /\ \A k \in DOMAIN queue :
            new[k] = IF k = i THEN queue[j] ELSE IF k = j THEN queue[i] ELSE queue[k]
    BY Exchanged
<1> HIDE DEF new
<1>2. Range(new) = Range(queue)
  <2>1. ASSUME NEW k \in DOMAIN new PROVE new[k] \in Range(queue)
    <3>1. new[k] \in {queue[i], queue[j], queue[k]}
        BY <1>1, <2>1
    <3>2. QED
        BY <1>1, <2>1, <3>1 DEF Range
  <2>2. ASSUME NEW k \in DOMAIN queue PROVE queue[k] \in Range(new)
    <3>1. queue[k] \in {new[i], new[j], new[k]}
        BY <1>1, <2>2
    <3>2. QED
        BY <1>1, <2>2, <3>1 DEF Range
  <2>3. Range(new) \subseteq Range(queue) /\ Range(queue) \subseteq Range(new)
      BY <2>1, <2>2 DEF Range
  <2>4. QED
      BY <2>3
<1>3. IsInjective(queue) => IsInjective(new)
    BY <1>1 DEF IsInjective
<1>4. QED
    BY <1>1, <1>2, <1>3 DEF Reordered, new

LEMMA ReorderedTwice ==
    ASSUME NEW a, NEW b, NEW c, Reordered(a, b), Reordered(b, c)
    PROVE  Reordered(a, c)
BY DEF Reordered

LEMMA RiseReorders ==
    ASSUME NEW queue \in Seq(Items), NEW i \in DOMAIN queue
    PROVE  Reordered(Rise[<<queue, i>>], queue)
<1> DEFINE Good == {n \in Nat : \A q \in Seq(Items) :
                        n \in DOMAIN q => Reordered(Rise[<<q, n>>], q)}
<1>1. ASSUME NEW n \in Nat, \A k \in 0..(n - 1) : k \in Good
      PROVE  n \in Good
  <2> SUFFICES ASSUME NEW q \in Seq(Items), n \in DOMAIN q
               PROVE  Reordered(Rise[<<q, n>>], q)
      OBVIOUS
  <2> DEFINE j == n \div 2
             new == Exchange(q, n, j)
  <2>1. CASE n > 1 /\ Earlier(q, n, j)
    <3>1. j \in Nat /\ 1 <= j /\ j < n
        BY <2>1, Parent
    <3>2. j \in DOMAIN q /\ j # n /\ j \in 0..(n - 1)
        BY <3>1, QueueParts
    <3>3. Rise[<<q, n>>] = Rise[<<new, j>>]
        BY <2>1, RiseUnfolds
    <3> HIDE DEF j
    <3>4. Reordered(new, q) /\ new \in Seq(Items) /\ DOMAIN new = DOMAIN q
        BY <3>2, ExchangeReorders, Exchanged
    <3> HIDE DEF new
    <3>5. Reordered(Rise[<<new, j>>], new)
        BY <1>1, <3>2, <3>4
    <3>6. QED
        BY <3>3, <3>4, <3>5, ReorderedTwice
  <2>2. CASE ~(n > 1 /\ Earlier(q, n, j))
    <3>1. Rise[<<q, n>>] = q
        BY <2>2, RiseUnfolds
    <3>2. QED
        BY <3>1 DEF Reordered
  <2>3. QED
      BY <2>1, <2>2
<1> HIDE DEF Good
<1>2. \A n \in Nat : n \in Good
    BY <1>1, StrongInduction
<1>3. i \in Nat
    BY QueueParts
<1>4. QED
    BY <1>2, <1>3 DEF Good

LEMMA SinkReorders ==
    ASSUME NEW queue \in Seq(Items), NEW i \in DOMAIN queue
    PROVE  Reordered(Sink[<<queue, i>>], queue)
<1> DEFINE Good == {n \in Nat : \A q \in Seq(Items) : \A k \in DOMAIN q :
                        Len(q) - k = n => Reordered(Sink[<<q, k>>], q)}
<1>1. ASSUME NEW n \in Nat, \A l \in 0..(n - 1) : l \in Good
      PROVE  n \in Good
  <2> SUFFICES ASSUME NEW q \in Seq(Items), NEW k \in DOMAIN q, Len(q) - k = n
               PROVE  Reordered(Sink[<<q, k>>], q)
      OBVIOUS
  <2> DEFINE j == EarliestChild(q, k)
             new == Exchange(q, k, j)
  <2>1. CASE ~(Children(q, k) = {} \/ Earlier(q, k, j))
    <3>1. Sink[<<q, k>>] = Sink[<<new, j>>]
        BY <2>1, SinkUnfolds
    <3>2. j \in DOMAIN q /\ j \in Nat /\ k < j
        BY <2>1, EarliestChildIs
    <3>3. k \in Nat /\ Len(q) \in Nat /\ DOMAIN q = 1..Len(q)
        BY QueueParts
    <3> HIDE DEF j
    <3>4. /\ Reordered(new, q) /\ new \in Seq(Items)
          /\ DOMAIN new = DOMAIN q /\ Len(new) = Len(q)
      <4>1. k # j
          BY <3>2, <3>3
      <4>2. QED
          BY <3>2, <4>1, ExchangeReorders, Exchanged
    <3> HIDE DEF new
    <3>5. Len(new) - j \in 0..(n - 1)
        BY <3>2, <3>3, <3>4
    <3>6. Reordered(Sink[<<new, j>>], new)
        BY <1>1, <3>2, <3>4, <3>5
    <3>7. QED
        BY <3>1, <3>4, <3>6, ReorderedTwice
  <2>2. CASE Children(q, k) = {} \/ Earlier(q, k, j)
    <3>1. Sink[<<q, k>>] = q
        BY <2>2, SinkUnfolds
    <3>2. QED
        BY <3>1 DEF Reordered
  <2>3. QED
      BY <2>1, <2>2
<1> HIDE DEF Good
<1>2. \A n \in Nat : n \in Good
    BY <1>1, StrongInduction
<1>3. Len(queue) - i \in Nat
    BY QueueParts
<1>4. QED
    BY <1>2, <1>3 DEF Good

------------------------------------------------------------------------------
(* The order of a heap, and what is left of it while an item rises or sinks. *)
Ordered(queue, k) == Date[queue[k \div 2]] <= Date[queue[k]]

IsHeap(queue) == \A k \in DOMAIN queue : k > 1 => Ordered(queue, k)

Over(queue, i) ==
    i > 1 => \A k \in DOMAIN queue :
                 k \div 2 = i => Date[queue[i \div 2]] <= Date[queue[k]]

HeapBut(queue, i) ==
    /\ \A k \in DOMAIN queue : k > 1 /\ k # i => Ordered(queue, k)
    /\ Over(queue, i)

HeapAbove(queue, i) ==
    /\ \A k \in DOMAIN queue : k > 1 /\ k \div 2 # i => Ordered(queue, k)
    /\ Over(queue, i)

LEMMA RisenOnce ==
    ASSUME NEW queue \in Seq(Items), NEW i \in DOMAIN queue, HeapBut(queue, i),
           i > 1, Earlier(queue, i, i \div 2)
    PROVE  HeapBut(Exchange(queue, i, i \div 2), i \div 2)
<1> DEFINE j == i \div 2
           new == Exchange(queue, i, j)
<1>1. /\ Len(queue) \in Nat /\ DOMAIN queue = 1..Len(queue) /\ i \in Nat
      /\ \A k \in DOMAIN queue : Date[queue[k]] \in Nat
    BY QueueParts
<1>2. j \in Nat /\ 1 <= j /\ j < i /\ j \in DOMAIN queue
    BY <1>1, Parent
<1>3. Date[queue[i]] < Date[queue[j]]
    BY DEF Earlier
<1>4. \A k \in DOMAIN queue :
          /\ k > 1 /\ k # i => Ordered(queue, k)
          /\ k \div 2 = i => Date[queue[j]] <= Date[queue[k]]
    BY DEF HeapBut, Over
<1>5. /\ DOMAIN new = DOMAIN queue
      /\ new[i] = queue[j] /\ new[j] = queue[i]
      /\ \A k \in DOMAIN queue \ {i, j} : new[k] = queue[k]
    BY <1>2, Exchanged
<1>6. \A k \in DOMAIN queue : k > 1 =>
          /\ k \div 2 \in DOMAIN queue /\ k \div 2 < k
    BY <1>1, Parent
<1>7. i \div 2 = j
    OBVIOUS
<1> HIDE DEF j, new
<1>8. ASSUME NEW k \in DOMAIN queue, k > 1, k # j
      PROVE  Date[new[k \div 2]] <= Date[new[k]]
  <2> DEFINE l == k \div 2
  <2>1. l \in DOMAIN queue /\ l < k /\ k \in Nat /\ l \in Nat
      BY <1>1, <1>6, <1>8
  <2>2. /\ k # i => Date[queue[l]] <= Date[queue[k]]
        /\ l = i => Date[queue[j]] <= Date[queue[k]]
      BY <1>4, <1>8 DEF Ordered
  <2>3. k = i => l = j
      BY <1>7
  <2>4. Date[queue[k]] \in Nat /\ Date[queue[l]] \in Nat /\ Date[queue[i]] \in Nat
            /\ Date[queue[j]] \in Nat
      BY <1>1, <1>2, <2>1
  <2> HIDE DEF l
  <2>5. CASE k = i
    <3>1. new[k] = queue[j] /\ new[l] = queue[i]
        BY <1>5, <2>3, <2>5
    <3>2. Date[queue[i]] <= Date[queue[j]]
        BY <1>3, <2>4
    <3>3. QED
        BY <3>1, <3>2 DEF l
  <2>6. CASE k # i /\ l = i
    <3>1. new[k] = queue[k] /\ new[l] = queue[j]
        BY <1>5, <1>8, <2>6
    <3>2. QED
        BY <2>2, <2>6, <3>1 DEF l
  <2>7. CASE k # i /\ l = j
    <3>1. new[k] = queue[k] /\ new[l] = queue[i]
        BY <1>5, <1>8, <2>7
    <3>2. Date[queue[i]] <= Date[queue[k]]
        BY <1>3, <2>2, <2>4, <2>7
    <3>3. QED
        BY <3>1, <3>2 DEF l
  <2>8. CASE k # i /\ l # i /\ l # j
    <3>1. new[k] = queue[k] /\ new[l] = queue[l]
        BY <1>5, <1>8, <2>1, <2>8
    <3>2. QED
        BY <2>2, <2>8, <3>1 DEF l
  <2>9. QED
      BY <2>5, <2>6, <2>7, <2>8
<1>9. ASSUME j > 1, NEW k \in DOMAIN queue, k \div 2 = j
      PROVE  Date[new[j \div 2]] <= Date[new[k]]
  <2> DEFINE g == j \div 2
  <2>1. g \in DOMAIN queue /\ g < j /\ g \in Nat
      BY <1>1, <1>2, <1>6, <1>9
  <2>2. Date[queue[g]] <= Date[queue[j]]
      BY <1>2, <1>4, <1>9 DEF Ordered
  <2>3. k \in Nat /\ k # j
      BY <1>1, <1>2, <1>9, ChildOf
  <2>4. k # i => Date[queue[j]] <= Date[queue[k]]
      BY <1>1, <1>2, <1>4, <1>9, ChildOf DEF Ordered
  <2> HIDE DEF g
  <2>5. new[g] = queue[g]
      BY <1>2, <1>5, <2>1
  <2>6. Date[queue[k]] \in Nat /\ Date[queue[g]] \in Nat /\ Date[queue[j]] \in Nat
      BY <1>1, <1>2, <2>1
  <2>7. CASE k = i
      BY <1>5, <2>2, <2>5, <2>7 DEF g
  <2>8. CASE k # i
    <3>1. new[k] = queue[k]
        BY <1>5, <2>3, <2>8
    <3>2. Date[queue[g]] <= Date[queue[k]]
        BY <2>2, <2>4, <2>6, <2>8
    <3>3. QED
        BY <2>5, <3>1, <3>2 DEF g
  <2>9. QED
      BY <2>7, <2>8
<1>10. HeapBut(new, j)
    BY <1>5, <1>8, <1>9 DEF HeapBut, Over, Ordered
<1>11. QED
    BY <1>10 DEF new, j

LEMMA RiseMakesHeap ==
    ASSUME NEW queue \in Seq(Items), NEW i \in DOMAIN queue, HeapBut(queue, i)
    PROVE  IsHeap(Rise[<<queue, i>>])
<1> DEFINE Good == {n \in Nat : \A q \in Seq(Items) :
                        n \in DOMAIN q /\ HeapBut(q, n) => IsHeap(Rise[<<q, n>>])}
<1>1. ASSUME NEW n \in Nat, \A k \in 0..(n - 1) : k \in Good
      PROVE  n \in Good
  <2> SUFFICES ASSUME NEW q \in Seq(Items), n \in DOMAIN q, HeapBut(q, n)
               PROVE  IsHeap(Rise[<<q, n>>])
      OBVIOUS
  <2> DEFINE j == n \div 2
             new == Exchange(q, n, j)
  <2>1. CASE n > 1 /\ Earlier(q, n, j)
    <3>1. j \in Nat /\ 1 <= j /\ j < n
        BY <2>1, Parent
    <3>2. j \in DOMAIN q /\ j # n /\ j \in 0..(n - 1)
        BY <3>1, QueueParts
    <3>3. Rise[<<q, n>>] = Rise[<<new, j>>]
        BY <2>1, RiseUnfolds
    <3>4. HeapBut(new, j)
        BY <2>1, RisenOnce
    <3> HIDE DEF j
    <3>5. new \in Seq(Items) /\ DOMAIN new = DOMAIN q
        BY <3>2, Exchanged
    <3> HIDE DEF new
    <3>6. IsHeap(Rise[<<new, j>>])
        BY <1>1, <3>2, <3>4, <3>5
    <3>7. QED
        BY <3>3, <3>6
  <2>2. CASE ~(n > 1 /\ Earlier(q, n, j))
    <3>1. Rise[<<q, n>>] = q
        BY <2>2, RiseUnfolds
    <3>2. ASSUME n > 1 PROVE Ordered(q, n)
      <4>1. j \in DOMAIN q
          BY <3>2, Parent, QueueParts
      <4>2. Date[q[n]] \in Nat /\ Date[q[j]] \in Nat
          BY <4>1, QueueParts
      <4>3. ~(Date[q[n]] < Date[q[j]])
          BY <2>2, <3>2 DEF Earlier
      <4>4. QED
          BY <4>2, <4>3 DEF Ordered
    <3>3. IsHeap(q)
        BY <3>2 DEF HeapBut, IsHeap
    <3>4. QED
        BY <3>1, <3>3
  <2>3. QED
      BY <2>1, <2>2
<1> HIDE DEF Good
<1>2. \A n \in Nat : n \in Good
    BY <1>1, StrongInduction
<1>3. i \in Nat
    BY QueueParts
<1>4. QED
    BY <1>2, <1>3 DEF Good

LEMMA SunkOnce ==
    ASSUME NEW queue \in Seq(Items), NEW i \in DOMAIN queue, HeapAbove(queue, i),
           NEW j, j = EarliestChild(queue, i), Children(queue, i) # {},
           ~Earlier(queue, i, j)
    PROVE  HeapAbove(Exchange(queue, i, j), j)
<1> DEFINE new == Exchange(queue, i, j)
<1>1. /\ Len(queue) \in Nat /\ DOMAIN queue = 1..Len(queue) /\ i \in Nat
      /\ \A k \in DOMAIN queue : Date[queue[k]] \in Nat
    BY QueueParts
<1>2. /\ j \in Nat /\ i < j /\ j \in DOMAIN queue /\ j \div 2 = i
      /\ \A k \in DOMAIN queue : k \div 2 = i => Date[queue[j]] <= Date[queue[k]]
    BY EarliestChildIs
<1>3. Date[queue[j]] <= Date[queue[i]]
  <2>1. ~(Date[queue[i]] < Date[queue[j]])
      BY DEF Earlier
  <2>2. Date[queue[i]] \in Nat /\ Date[queue[j]] \in Nat
      BY <1>1, <1>2
  <2>3. QED
      BY <2>1, <2>2
<1>4. \A k \in DOMAIN queue :
          /\ k > 1 /\ k \div 2 # i => Ordered(queue, k)
          /\ i > 1 /\ k \div 2 = i => Date[queue[i \div 2]] <= Date[queue[k]]
    BY DEF HeapAbove, Over
<1>5. /\ DOMAIN new = DOMAIN queue
      /\ new[i] = queue[j] /\ new[j] = queue[i]
      /\ \A k \in DOMAIN queue \ {i, j} : new[k] = queue[k]
  <2>1. i # j
      BY <1>1, <1>2
  <2>2. QED
      BY <1>2, <2>1, Exchanged
<1>6. \A k \in DOMAIN queue : k > 1 =>
          /\ k \div 2 \in DOMAIN queue /\ k \div 2 < k
    BY <1>1, Parent
<1> HIDE DEF new
<1>7. ASSUME NEW k \in DOMAIN queue, k > 1, k \div 2 # j
      PROVE  Date[new[k \div 2]] <= Date[new[k]]
  <2> DEFINE l == k \div 2
  <2>1. l \in DOMAIN queue /\ l < k /\ k \in Nat /\ l \in Nat /\ l # j
      BY <1>1, <1>6, <1>7
  <2>2. /\ l # i => Date[queue[l]] <= Date[queue[k]]
        /\ l = i => Date[queue[j]] <= Date[queue[k]]
        /\ k = i => Date[queue[l]] <= Date[queue[j]]
      BY <1>2, <1>4, <1>7 DEF Ordered
  <2>3. k = j => l = i
      BY <1>2
  <2> HIDE DEF l
  <2>4. CASE k = j
      BY <1>3, <1>5, <2>3, <2>4 DEF l
  <2>5. CASE k # j /\ l = i
    <3>1. k # i
        BY <2>1, <2>5
    <3>2. new[k] = queue[k] /\ new[l] = queue[j]
        BY <1>5, <2>5, <3>1
    <3>3. QED
        BY <2>2, <2>5, <3>2 DEF l
  <2>6. CASE k = i
    <3>1. new[k] = queue[j] /\ new[l] = queue[l]
        BY <1>5, <2>1, <2>6
    <3>2. QED
        BY <2>2, <2>6, <3>1 DEF l
  <2>7. CASE k # j /\ k # i /\ l # i
    <3>1. new[k] = queue[k] /\ new[l] = queue[l]
        BY <1>5, <2>1, <2>7
    <3>2. QED
        BY <2>2, <2>7, <3>1 DEF l
  <2>8. QED
      BY <2>4, <2>5, <2>6, <2>7
<1>8. ASSUME NEW k \in DOMAIN queue, k \div 2 = j
      PROVE  Date[new[j \div 2]] <= Date[new[k]]
  <2>1. k \in Nat /\ k > 1 /\ k # i /\ k # j /\ k \div 2 # i
      BY <1>1, <1>2, <1>8, ChildOf
  <2>2. Date[queue[j]] <= Date[queue[k]]
      BY <1>4, <1>8, <2>1 DEF Ordered
  <2>3. new[k] = queue[k] /\ new[j \div 2] = queue[j]
      BY <1>2, <1>5, <2>1
  <2>4. QED
      BY <2>2, <2>3
<1>9. HeapAbove(new, j)
    BY <1>5, <1>7, <1>8 DEF HeapAbove, Over, Ordered
<1>10. QED
    BY <1>9 DEF new

LEMMA SinkMakesHeap ==
    ASSUME NEW queue \in Seq(Items), NEW i \in DOMAIN queue, HeapAbove(queue, i)
    PROVE  IsHeap(Sink[<<queue, i>>])
<1> DEFINE Good == {n \in Nat : \A q \in Seq(Items) : \A k \in DOMAIN q :
                        Len(q) - k = n /\ HeapAbove(q, k) => IsHeap(Sink[<<q, k>>])}
<1>1. ASSUME NEW n \in Nat, \A l \in 0..(n - 1) : l \in Good
      PROVE  n \in Good
  <2> SUFFICES ASSUME NEW q \in Seq(Items), NEW k \in DOMAIN q, Len(q) - k = n,
                      HeapAbove(q, k)
               PROVE  IsHeap(Sink[<<q, k>>])
      OBVIOUS
  <2> DEFINE j == EarliestChild(q, k)
             new == Exchange(q, k, j)
  <2>1. CASE ~(Children(q, k) = {} \/ Earlier(q, k, j))
    <3>1. Sink[<<q, k>>] = Sink[<<new, j>>]
        BY <2>1, SinkUnfolds
    <3>2. j \in DOMAIN q /\ j \in Nat /\ k < j
        BY <2>1, EarliestChildIs
    <3>3. k \in Nat /\ Len(q) \in Nat /\ DOMAIN q = 1..Len(q)
        BY QueueParts
    <3>4. HeapAbove(new, j)
        BY <2>1, SunkOnce
    <3> HIDE DEF j
    <3>5. new \in Seq(Items) /\ DOMAIN new = DOMAIN q /\ Len(new) = Len(q)
      <4>1. k # j
          BY <3>2, <3>3
      <4>2. QED
          BY <3>2, <4>1, Exchanged
    <3> HIDE DEF new
    <3>6. Len(new) - j \in 0..(n - 1)
        BY <3>2, <3>3, <3>5
    <3>7. IsHeap(Sink[<<new, j>>])
        BY <1>1, <3>2, <3>4, <3>5, <3>6
    <3>8. QED
        BY <3>1, <3>7
  <2>2. CASE Children(q, k) = {} \/ Earlier(q, k, j)
    <3>1. Sink[<<q, k>>] = q
        BY <2>2, SinkUnfolds
    <3>2. ASSUME NEW l \in DOMAIN q, l \div 2 = k PROVE Ordered(q, l)
      <4>1. l \in Nat /\ k \in Nat
          BY QueueParts
      <4>2. l \in Children(q, k)
        <5>1. l \in {2 * k, 2 * k + 1}
            BY <3>2, <4>1, ChildOf
        <5>2. QED
            BY <5>1 DEF Children
      <4>3. /\ j \in DOMAIN q
            /\ Date[q[j]] <= Date[q[l]]
          BY <3>2, <4>2, EarliestChildIs
      <4>4. Date[q[k]] < Date[q[j]]
          BY <2>2, <4>2 DEF Earlier
      <4> HIDE DEF j
      <4>5. Date[q[k]] \in Nat /\ Date[q[j]] \in Nat /\ Date[q[l]] \in Nat
          BY <4>3, QueueParts
      <4>6. QED
          BY <3>2, <4>3, <4>4, <4>5 DEF Ordered
    <3>3. IsHeap(q)
        BY <3>2 DEF HeapAbove, IsHeap
    <3>4. QED
        BY <3>1, <3>3
  <2>3. QED
      BY <2>1, <2>2
<1> HIDE DEF Good
<1>2. \A n \in Nat : n \in Good
    BY <1>1, StrongInduction
<1>3. Len(queue) - i \in Nat
    BY QueueParts
<1>4. QED
    BY <1>2, <1>3 DEF Good

(* The earliest date is at the root.                                         *)
LEMMA RootIsEarliest ==
    ASSUME NEW queue \in Seq(Items), IsHeap(queue), NEW i \in DOMAIN queue
    PROVE  Date[queue[1]] <= Date[queue[i]]
<1> DEFINE Good == {n \in Nat : n \in DOMAIN queue => Date[queue[1]] <= Date[queue[n]]}
<1>1. /\ Len(queue) \in Nat /\ DOMAIN queue = 1..Len(queue) /\ i \in Nat
      /\ \A k \in DOMAIN queue : Date[queue[k]] \in Nat
    BY QueueParts
<1>2. ASSUME NEW n \in Nat, \A k \in 0..(n - 1) : k \in Good
      PROVE  n \in Good
  <2> SUFFICES ASSUME n \in DOMAIN queue PROVE Date[queue[1]] <= Date[queue[n]]
      OBVIOUS
  <2>1. CASE n = 1
      BY <1>1, <2>1
  <2>2. CASE n > 1
    <3> DEFINE j == n \div 2
    <3>1. j \in Nat /\ 1 <= j /\ j < n
        BY <2>2, Parent
    <3>2. Date[queue[j]] <= Date[queue[n]]
        BY <2>2 DEF IsHeap, Ordered
    <3> HIDE DEF j
    <3>3. j \in DOMAIN queue /\ j \in 0..(n - 1) /\ 1 \in DOMAIN queue
        BY <1>1, <3>1
    <3>4. Date[queue[1]] <= Date[queue[j]]
        BY <1>2, <3>3
    <3>5. Date[queue[1]] \in Nat /\ Date[queue[j]] \in Nat /\ Date[queue[n]] \in Nat
        BY <1>1, <3>3
    <3>6. QED
        BY <3>2, <3>4, <3>5
  <2>3. QED
      BY <1>1, <2>1, <2>2
<1> HIDE DEF Good
<1>3. \A n \in Nat : n \in Good
    BY <1>2, StrongInduction
<1>4. QED
    BY <1>1, <1>3 DEF Good

------------------------------------------------------------------------------
(* The operations of the queue.                                              *)
LEMMA Enqueued ==
    ASSUME NEW queue \in Seq(Items), NEW x \in Items
    PROVE  LET new == Enq(queue, x)
           IN /\ new \in Seq(Items)
              /\ Range(new) = Range(queue) \cup {x}
              /\ IsInjective(queue) /\ x \notin Range(queue) => IsInjective(new)
              /\ IsHeap(queue) => IsHeap(new)
<1> DEFINE longer == Append(queue, x)
           n == Len(queue) + 1
<1>1. Len(queue) \in Nat /\ DOMAIN queue = 1..Len(queue)
    BY QueueParts
<1>2. /\ longer \in Seq(Items) /\ Len(longer) = n /\ DOMAIN longer = 1..n
      /\ longer[n] = x
      /\ \A k \in DOMAIN queue : longer[k] = queue[k]
    BY <1>1, AppendProperties
<1>3. n \in DOMAIN longer /\ DOMAIN longer = DOMAIN queue \cup {n} /\ n \notin DOMAIN queue
    BY <1>1, <1>2
<1> HIDE DEF longer, n
<1>4. Reordered(Rise[<<longer, n>>], longer)
    BY <1>2, <1>3, RiseReorders
<1>5. Range(longer) = Range(queue) \cup {x}
  <2>1. Range(longer) = {longer[k] : k \in DOMAIN queue} \cup {longer[n]}
      BY <1>3 DEF Range
  <2>2. {longer[k] : k \in DOMAIN queue} = {queue[k] : k \in DOMAIN queue}
      BY <1>2
  <2>3. QED
      BY <1>2, <2>1, <2>2 DEF Range
<1>6. IsInjective(queue) /\ x \notin Range(queue) => IsInjective(longer)
    BY <1>2, <1>3 DEF IsInjective, Range
<1>7. IsHeap(queue) => HeapBut(longer, n)
  <2> SUFFICES ASSUME IsHeap(queue) PROVE HeapBut(longer, n)
      OBVIOUS
  <2>1. ASSUME NEW k \in DOMAIN longer, k > 1, k # n
        PROVE  Ordered(longer, k)
    <3>1. k \in DOMAIN queue
        BY <1>3, <2>1
    <3>2. k \div 2 \in DOMAIN queue
        BY <1>1, <2>1, <3>1, Parent
    <3>3. Ordered(queue, k)
        BY <2>1, <3>1 DEF IsHeap
    <3>4. QED
        BY <1>2, <3>1, <3>2, <3>3 DEF Ordered
  <2>2. ASSUME NEW k \in DOMAIN longer, k \div 2 = n PROVE FALSE
    <3>1. n \in Nat /\ n >= 1 /\ k \in Nat /\ k <= n
        BY <1>1, <1>2 DEF n
    <3>2. k \in {2 * n, 2 * n + 1}
        BY <2>2, <3>1, ChildOf
    <3>3. QED
        BY <3>1, <3>2
  <2>3. QED
      BY <2>1, <2>2 DEF HeapBut, Over
<1>8. IsHeap(queue) => IsHeap(Rise[<<longer, n>>])
    BY <1>2, <1>3, <1>7, RiseMakesHeap
<1>9. Enq(queue, x) = Rise[<<longer, n>>]
    BY DEF Enq, longer, n
<1>10. QED
    BY <1>4, <1>5, <1>6, <1>8, <1>9 DEF Reordered

(* The last item at the root, instead of the first.                          *)
LEMMA LastFirst ==
    ASSUME NEW queue \in Seq(Items), Len(queue) > 1
    PROVE  LET new == [Front(queue) EXCEPT ![1] = Last(queue)]
           IN /\ new \in Seq(Items)
              /\ Len(new) = Len(queue) - 1
              /\ DOMAIN new = 1..(Len(queue) - 1)
              /\ new[1] = queue[Len(queue)]
              /\ \A k \in DOMAIN new : k # 1 => new[k] = queue[k]
<1> DEFINE n == Len(queue) - 1
           front == Front(queue)
           new == [front EXCEPT ![1] = Last(queue)]
<1>1. /\ Len(queue) \in Nat /\ n \in Nat /\ n >= 1 /\ n <= Len(queue)
      /\ \A k \in 1..Len(queue) : queue[k] \in Items
    BY QueueParts
<1>2. /\ front \in Seq(Items) /\ Len(front) = n
      /\ \A k \in 1..n : front[k] = queue[k]
  <2>1. \A k \in 1..n : queue[k] \in Items
      BY <1>1
  <2>2. /\ SubSeq(queue, 1, n) \in Seq(Items)
        /\ Len(SubSeq(queue, 1, n)) = n
        /\ \A k \in 1..n : SubSeq(queue, 1, n)[k] = queue[k]
      BY <1>1, <2>1, SubSeqProperties
  <2>3. QED
      BY <2>2 DEF Front
<1>3. Last(queue) = queue[Len(queue)] /\ Last(queue) \in Items
    BY <1>1 DEF Last
<1> HIDE DEF front, n
<1>4. front \in [1..n -> Items]
    BY <1>2, LenProperties
<1>5. /\ new \in [1..n -> Items]
      /\ new[1] = Last(queue)
      /\ \A k \in 1..n : k # 1 => new[k] = queue[k]
    BY <1>1, <1>2, <1>3, <1>4
<1> HIDE DEF new
<1>6. new \in Seq(Items)
    BY <1>1, <1>5, SeqDef
<1>7. Len(new) = n /\ DOMAIN new = 1..n
    BY <1>1, <1>5, <1>6, LenProperties
<1>8. QED
    BY <1>3, <1>5, <1>6, <1>7 DEF new, front, n

LEMMA Dequeued ==
    ASSUME NEW queue \in Seq(Items), queue # <<>>
    PROVE  LET new == Deq(queue)
           IN /\ new \in Seq(Items)
              /\ Len(new) = Len(queue) - 1
              /\ Range(queue) = Range(new) \cup {Head(queue)}
              /\ IsInjective(queue) =>
                     IsInjective(new) /\ Head(queue) \notin Range(new)
              /\ IsHeap(queue) => IsHeap(new)
<1>1. /\ Len(queue) \in Nat /\ Len(queue) >= 1 /\ DOMAIN queue = 1..Len(queue)
      /\ Head(queue) = queue[1]
  <2>1. Len(queue) # 0
      BY EmptySeq
  <2>2. QED
      BY <2>1, QueueParts, HeadTailProperties
<1>2. CASE Len(queue) = 1
  <2>1. Deq(queue) = <<>>
      BY <1>2 DEF Deq
  <2>2. DOMAIN queue = {1} /\ Range(queue) = {Head(queue)}
      BY <1>1, <1>2 DEF Range
  <2>3. Range(<<>>) = {} /\ IsInjective(<<>>) /\ IsHeap(<<>>) /\ Len(<<>>) = 0
      BY DEF Range, IsInjective, IsHeap
  <2>4. <<>> \in Seq(Items)
      OBVIOUS
  <2>5. QED
      BY <1>2, <2>1, <2>2, <2>3, <2>4
<1>3. CASE Len(queue) # 1
  <2> DEFINE n == Len(queue) - 1
             new == [Front(queue) EXCEPT ![1] = Last(queue)]
  <2>1. /\ new \in Seq(Items) /\ Len(new) = n /\ DOMAIN new = 1..n
        /\ new[1] = queue[n + 1]
        /\ \A k \in DOMAIN new : k # 1 => new[k] = queue[k]
    <3>1. Len(queue) > 1 /\ n + 1 = Len(queue)
        BY <1>1, <1>3
    <3>2. QED
        BY <3>1, LastFirst
  <2>2. Deq(queue) = Sink[<<new, 1>>]
      BY <1>3 DEF Deq
  <2>3. n \in Nat /\ n >= 1 /\ 1 \in DOMAIN new /\ n + 1 \in DOMAIN queue
      BY <1>1, <1>3, <2>1
  <2>4. DOMAIN queue = DOMAIN new \cup {n + 1} /\ n + 1 \notin DOMAIN new
      BY <1>1, <2>1, <2>3
  <2> HIDE DEF new, n
  <2>5. Reordered(Sink[<<new, 1>>], new)
      BY <2>1, <2>3, SinkReorders
  <2>6. Range(queue) = Range(new) \cup {Head(queue)}
    <3>1. ASSUME NEW k \in DOMAIN queue PROVE queue[k] \in Range(new) \cup {Head(queue)}
      <4>1. CASE k = 1
          BY <1>1, <4>1
      <4>2. CASE k = n + 1
          BY <2>1, <2>3, <4>2 DEF Range
      <4>3. CASE k # 1 /\ k # n + 1
        <5>1. k \in DOMAIN new /\ new[k] = queue[k]
            BY <2>1, <2>4, <4>3
        <5>2. QED
            BY <5>1 DEF Range
      <4>4. QED
          BY <4>1, <4>2, <4>3
    <3>2. ASSUME NEW k \in DOMAIN new PROVE new[k] \in Range(queue)
      <4>1. new[k] \in {queue[k], queue[n + 1]} /\ k \in DOMAIN queue
          BY <2>1, <2>4
      <4>2. QED
          BY <2>3, <4>1 DEF Range
    <3>3. Head(queue) \in Range(queue)
        BY <1>1 DEF Range
    <3>4. Range(queue) \subseteq Range(new) \cup {Head(queue)}
        BY <3>1 DEF Range
    <3>5. Range(new) \subseteq Range(queue)
        BY <3>2 DEF Range
    <3>6. QED
        BY <3>3, <3>4, <3>5
  <2>7. ASSUME IsInjective(queue)
        PROVE  IsInjective(new) /\ Head(queue) \notin Range(new)
    <3>1. \A k, l \in DOMAIN queue : queue[k] = queue[l] => k = l
        BY <2>7 DEF IsInjective
    <3>2. IsInjective(new)
      <4> SUFFICES ASSUME NEW k \in DOMAIN new, NEW l \in DOMAIN new, new[k] = new[l]
                   PROVE  k = l
          BY DEF IsInjective
      <4>1. k \in DOMAIN queue /\ l \in DOMAIN queue /\ k # n + 1 /\ l # n + 1
          BY <2>4
      <4>2. QED
          BY <2>1, <2>3, <3>1, <4>1
    <3>3. ASSUME NEW k \in DOMAIN new PROVE new[k] # queue[1]
      <4>1. k \in DOMAIN queue /\ 1 \in DOMAIN queue /\ n + 1 # 1
          BY <1>1, <2>3, <2>4
      <4>2. QED
          BY <2>1, <2>3, <3>1, <4>1
    <3>4. QED
        BY <1>1, <3>2, <3>3 DEF Range
  <2>8. ASSUME IsHeap(queue) PROVE HeapAbove(new, 1)
    <3>1. ASSUME NEW k \in DOMAIN new, k > 1, k \div 2 # 1
          PROVE  Ordered(new, k)
      <4>1. k \in Nat /\ k \in DOMAIN queue
          BY <2>1, <2>4
      <4>2. k \div 2 \in DOMAIN new
          BY <2>1, <2>3, <3>1, <4>1, Parent
      <4>3. Ordered(queue, k)
          BY <2>8, <3>1, <4>1 DEF IsHeap
      <4>4. QED
          BY <2>1, <3>1, <4>1, <4>2, <4>3 DEF Ordered
    <3>2. QED
        BY <3>1 DEF HeapAbove, Over
  <2>9. IsHeap(queue) => IsHeap(Sink[<<new, 1>>])
      BY <2>1, <2>3, <2>8, SinkMakesHeap
  <2>10. QED
      BY <2>1, <2>2, <2>5, <2>6, <2>7, <2>9 DEF Reordered, n
<1>4. QED
    BY <1>2, <1>3

LEMMA RemovedItem ==
    ASSUME NEW queue \in Seq(Items), NEW x, Includes(queue, x)
    PROVE  LET new == RemoveItem(queue, x)
           IN /\ new \in Seq(Items)
              /\ Range(new) \subseteq Range(queue)
              /\ IsInjective(queue) => IsInjective(new)
<1> DEFINE i == CHOOSE k \in DOMAIN queue : queue[k] = x
           n == Len(queue)
           front == SubSeq(queue, 1, i - 1)
           back == SubSeq(queue, i + 1, n)
           new == front \o back
<1>1. /\ n \in Nat /\ DOMAIN queue = 1..n
      /\ \A k \in 1..n : queue[k] \in Items
    BY QueueParts
<1>2. \E k \in DOMAIN queue : queue[k] = x
    BY <1>1 DEF Includes, Contains
<1>3. i \in DOMAIN queue /\ i \in Nat /\ 1 <= i /\ i <= n
    BY <1>1, <1>2
<1>4. RemoveItem(queue, x) = new
    BY DEF RemoveItem, RemoveAt
<1> HIDE DEF i, n
<1>5. /\ front \in Seq(Items) /\ Len(front) = i - 1
      /\ \A k \in 1..(i - 1) : front[k] = queue[k]
  <2>1. \A k \in 1..(i - 1) : queue[k] \in Items
      BY <1>1, <1>3
  <2>2. /\ Len(front) = IF 1 <= i - 1 THEN i - 1 - 1 + 1 ELSE 0
        /\ front \in Seq(Items)
        /\ \A k \in 1..(i - 1 - 1 + 1) : front[k] = queue[1 + k - 1]
      BY <1>3, <2>1, SubSeqProperties
  <2>3. i - 1 - 1 + 1 = i - 1 /\ \A k \in 1..(i - 1) : 1 + k - 1 = k
      BY <1>3
  <2> HIDE DEF front
  <2>4. Len(front) = i - 1
      BY <1>3, <2>2
  <2>5. \A k \in 1..(i - 1) : front[k] = queue[k]
      BY <2>2, <2>3
  <2>6. QED
      BY <2>2, <2>4, <2>5
<1>6. /\ back \in Seq(Items) /\ Len(back) = n - i
      /\ \A k \in 1..(n - i) : back[k] = queue[k + i]
  <2>1. \A k \in (i + 1)..n : queue[k] \in Items
      BY <1>1, <1>3
  <2>2. /\ Len(back) = IF i + 1 <= n THEN n - (i + 1) + 1 ELSE 0
        /\ back \in Seq(Items)
        /\ \A k \in 1..(n - (i + 1) + 1) : back[k] = queue[i + 1 + k - 1]
      BY <1>1, <1>3, <2>1, SubSeqProperties
  <2>3. n - (i + 1) + 1 = n - i /\ \A k \in 1..(n - i) : i + 1 + k - 1 = k + i
      BY <1>1, <1>3
  <2> HIDE DEF back
  <2>4. Len(back) = n - i
      BY <1>1, <1>3, <2>2
  <2>5. \A k \in 1..(n - i) : back[k] = queue[k + i]
      BY <2>2, <2>3
  <2>6. QED
      BY <2>2, <2>4, <2>5
<1> HIDE DEF front, back
<1>7. /\ new \in Seq(Items) /\ Len(new) = n - 1 /\ DOMAIN new = 1..(n - 1)
      /\ \A k \in 1..(n - 1) : new[k] = IF k < i THEN queue[k] ELSE queue[k + 1]
  <2>1. /\ new \in Seq(Items)
        /\ Len(new) = (i - 1) + (n - i)
        /\ \A k \in 1..((i - 1) + (n - i)) :
              new[k] = IF k <= i - 1 THEN front[k] ELSE back[k - (i - 1)]
    <3>1. /\ front \o back \in Seq(Items)
          /\ Len(front \o back) = Len(front) + Len(back)
          /\ \A k \in 1..(Len(front) + Len(back)) : (front \o back)[k] =
                IF k <= Len(front) THEN front[k] ELSE back[k - Len(front)]
        BY <1>5, <1>6, ConcatProperties
    <3>2. Len(front) = i - 1 /\ Len(back) = n - i
        BY <1>5, <1>6
    <3>3. front \o back = new
        OBVIOUS
    <3> HIDE DEF new
    <3>4. QED
        BY <3>1, <3>2, <3>3
  <2>2. (i - 1) + (n - i) = n - 1
      BY <1>1, <1>3
  <2> HIDE DEF new
  <2>3. ASSUME NEW k \in 1..(n - 1)
        PROVE  new[k] = IF k < i THEN queue[k] ELSE queue[k + 1]
    <3>1. CASE k < i
      <4>1. k <= i - 1 /\ k \in 1..(i - 1)
          BY <1>3, <3>1
      <4>2. QED
          BY <1>5, <2>1, <2>2, <3>1, <4>1
    <3>2. CASE ~(k < i)
      <4>1. ~(k <= i - 1) /\ k - (i - 1) \in 1..(n - i) /\ k - (i - 1) + i = k + 1
          BY <1>1, <1>3, <3>2
      <4>2. QED
          BY <1>6, <2>1, <2>2, <3>2, <4>1
    <3>3. QED
        BY <3>1, <3>2
  <2>4. DOMAIN new = 1..(n - 1)
      BY <2>1, <2>2, LenProperties
  <2>5. QED
      BY <2>1, <2>2, <2>3, <2>4
<1> HIDE DEF new
<1>8. Range(new) \subseteq Range(queue)
  <2>1. ASSUME NEW k \in DOMAIN new PROVE new[k] \in Range(queue)
    <3>1. k \in DOMAIN queue /\ k + 1 \in DOMAIN queue /\ new[k] \in {queue[k], queue[k + 1]}
        BY <1>1, <1>7
    <3>2. QED
        BY <3>1 DEF Range
  <2>2. QED
      BY <2>1 DEF Range
<1>9. ASSUME IsInjective(queue) PROVE IsInjective(new)
  <2> SUFFICES ASSUME NEW k \in DOMAIN new, NEW l \in DOMAIN new, new[k] = new[l]
               PROVE  k = l
      BY DEF IsInjective
  <2>1. /\ k \in Nat /\ l \in Nat
        /\ k \in DOMAIN queue /\ k + 1 \in DOMAIN queue
        /\ l \in DOMAIN queue /\ l + 1 \in DOMAIN queue
      BY <1>1, <1>7
  <2>2. (IF k < i THEN k ELSE k + 1) = (IF l < i THEN l ELSE l + 1)
      BY <1>7, <1>9, <2>1 DEF IsInjective
  <2>3. QED
      BY <1>3, <2>1, <2>2
<1>10. QED
    BY <1>4, <1>7, <1>8, <1>9

LEMMA PopUnfolds ==
    ASSUME NEW popped \in Pops
    PROVE  PopWhileDue[popped] =
               IF popped.rest = <<>> \/ GetEarliestDate(popped.rest) > popped.date
               THEN popped
               ELSE PopWhileDue[[items |-> Append(popped.items, Head(popped.rest)),
                                 rest |-> Deq(popped.rest),
                                 date |-> popped.date]]
<1> DEFINE stop == {p \in Pops : p.rest = <<>> \/ GetEarliestDate(p.rest) > p.date}
           next == [p \in Pops |-> [items |-> Append(p.items, Head(p.rest)),
                                    rest |-> Deq(p.rest),
                                    date |-> p.date]]
           base == [p \in Pops |-> p]
           m == [p \in Pops |-> Len(p.rest)]
<1>1. m \in [Pops -> Nat] /\ stop \in SUBSET Pops
    BY LenProperties DEF Pops
<1>2. ASSUME NEW p \in Pops \ stop
      PROVE  next[p] \in Pops /\ m[next[p]] < m[p]
  <2>1. p.items \in Seq(Items) /\ p.rest \in Seq(Items) /\ p.date \in Int /\ p.rest # <<>>
      BY DEF Pops
  <2>2. Deq(p.rest) \in Seq(Items) /\ Len(Deq(p.rest)) = Len(p.rest) - 1
      BY <2>1, Dequeued
  <2>3. Append(p.items, Head(p.rest)) \in Seq(Items)
      BY <2>1, HeadTailProperties, AppendProperties
  <2>4. next[p] \in Pops /\ m[next[p]] = Len(Deq(p.rest)) /\ m[p] = Len(p.rest)
      BY <2>1, <2>2, <2>3 DEF Pops
  <2> HIDE DEF next, m
  <2>5. Len(p.rest) \in Nat
      BY <2>1, LenProperties
  <2>6. QED
      BY <2>2, <2>4, <2>5
<1> HIDE DEF stop, next, base, m
<1>3. PICK f : Loops(f, Pops, stop, next, base)
    BY <1>1, <1>2, LoopsExist
<1> DEFINE result(g, p) ==
        IF p.rest = <<>> \/ GetEarliestDate(p.rest) > p.date THEN p
        ELSE g[[items |-> Append(p.items, Head(p.rest)),
                rest |-> Deq(p.rest),
                date |-> p.date]]
<1>4. f = [p \in Pops |-> result(f, p)]
    BY <1>3 DEF Loops, stop, next, base
<1>5. PopWhileDue = [p \in Pops |-> result(PopWhileDue, p)]
    BY <1>4 DEF PopWhileDue, Pops
<1>6. QED
    BY <1>5

(* From what is popped and the rest before to those after.                   *)
PopsTo(p, r) ==
    /\ r \in Pops
    /\ Range(r.items) \cup Range(r.rest) = Range(p.items) \cup Range(p.rest)
    /\ IsInjective(p.rest) /\ Range(p.items) \cap Range(p.rest) = {} =>
           IsInjective(r.rest) /\ Range(r.items) \cap Range(r.rest) = {}
    /\ (\A x \in Range(p.items) : Date[x] <= p.date) =>
           \A x \in Range(r.items) : Date[x] <= p.date
    /\ r.rest # <<>> => Date[Head(r.rest)] > p.date
    /\ IsHeap(p.rest) => IsHeap(r.rest)

LEMMA PopOnce ==
    ASSUME NEW p \in Pops, p.rest # <<>>, Date[Head(p.rest)] <= p.date
    PROVE  LET next == [items |-> Append(p.items, Head(p.rest)),
                        rest |-> Deq(p.rest), date |-> p.date]
           IN /\ next \in Pops
              /\ Len(next.rest) = Len(p.rest) - 1
              /\ \A r : PopsTo(next, r) => PopsTo(p, r)
<1> DEFINE x == Head(p.rest)
           next == [items |-> Append(p.items, x), rest |-> Deq(p.rest), date |-> p.date]
<1>1. p.items \in Seq(Items) /\ p.rest \in Seq(Items) /\ p.date \in Int
    BY DEF Pops
<1>2. x \in Items
    BY <1>1, HeadTailProperties
<1>3. /\ next.items \in Seq(Items)
      /\ Range(next.items) = Range(p.items) \cup {x}
  <2> DEFINE n == Len(p.items) + 1
  <2>1. /\ next.items \in Seq(Items) /\ Len(next.items) = n
        /\ next.items[n] = x
        /\ \A k \in 1..Len(p.items) : next.items[k] = p.items[k]
      BY <1>1, <1>2, AppendProperties
  <2>2. DOMAIN next.items = DOMAIN p.items \cup {n}
      BY <1>1, <2>1, LenProperties
  <2>3. DOMAIN p.items = 1..Len(p.items)
      BY <1>1, LenProperties
  <2> HIDE DEF next, n
  <2>4. Range(next.items) = {next.items[k] : k \in DOMAIN p.items} \cup {next.items[n]}
      BY <2>2 DEF Range
  <2>5. {next.items[k] : k \in DOMAIN p.items} = {p.items[k] : k \in DOMAIN p.items}
      BY <2>1, <2>3
  <2>6. QED
      BY <2>1, <2>4, <2>5 DEF Range
<1>4. /\ next.rest \in Seq(Items)
      /\ Len(next.rest) = Len(p.rest) - 1
      /\ Range(p.rest) = Range(next.rest) \cup {x}
      /\ IsInjective(p.rest) => IsInjective(next.rest) /\ x \notin Range(next.rest)
      /\ IsHeap(p.rest) => IsHeap(next.rest)
    BY <1>1, Dequeued
<1>5. next.date = p.date
    OBVIOUS
<1>6. next \in Pops
    BY <1>1, <1>3, <1>4 DEF Pops
<1> HIDE DEF next
<1>7. ASSUME NEW r, PopsTo(next, r) PROVE PopsTo(p, r)
  <2>1. Range(r.items) \cup Range(r.rest) = Range(p.items) \cup Range(p.rest)
      BY <1>3, <1>4, <1>7 DEF PopsTo
  <2>2. IsInjective(p.rest) /\ Range(p.items) \cap Range(p.rest) = {} =>
            IsInjective(next.rest) /\ Range(next.items) \cap Range(next.rest) = {}
      BY <1>3, <1>4
  <2>3. (\A y \in Range(p.items) : Date[y] <= p.date) =>
            \A y \in Range(next.items) : Date[y] <= p.date
      BY <1>3
  <2>4. QED
      BY <1>4, <1>5, <1>7, <2>1, <2>2, <2>3 DEF PopsTo
<1> HIDE DEF x
<1>8. QED
    BY <1>4, <1>6, <1>7 DEF next, x

LEMMA PopsAll ==
    ASSUME NEW popped \in Pops
    PROVE  PopsTo(popped, PopWhileDue[popped])
<1> DEFINE Good == {n \in Nat : \A p \in Pops :
                        Len(p.rest) = n => PopsTo(p, PopWhileDue[p])}
<1>1. ASSUME NEW n \in Nat, \A k \in 0..(n - 1) : k \in Good
      PROVE  n \in Good
  <2> SUFFICES ASSUME NEW p \in Pops, Len(p.rest) = n
               PROVE  PopsTo(p, PopWhileDue[p])
      OBVIOUS
  <2>1. p.rest \in Seq(Items) /\ p.date \in Int
      BY DEF Pops
  <2>2. ASSUME p.rest # <<>> PROVE Date[Head(p.rest)] \in Nat
      BY <2>1, <2>2, HeadTailProperties, DateAssumption
  <2>3. CASE p.rest = <<>> \/ GetEarliestDate(p.rest) > p.date
    <3>1. PopWhileDue[p] = p
        BY <2>3, PopUnfolds
    <3>2. PopsTo(p, p)
        BY <2>3 DEF PopsTo, GetEarliestDate
    <3>3. QED
        BY <3>1, <3>2
  <2>4. CASE ~(p.rest = <<>> \/ GetEarliestDate(p.rest) > p.date)
    <3> DEFINE next == [items |-> Append(p.items, Head(p.rest)),
                        rest |-> Deq(p.rest), date |-> p.date]
    <3>1. PopWhileDue[p] = PopWhileDue[next]
        BY <2>4, PopUnfolds
    <3>2. p.rest # <<>> /\ Date[Head(p.rest)] <= p.date
        BY <2>1, <2>2, <2>4 DEF GetEarliestDate
    <3>3. /\ next \in Pops
          /\ Len(next.rest) = n - 1
          /\ \A r : PopsTo(next, r) => PopsTo(p, r)
        BY <3>2, PopOnce
    <3>4. Len(p.rest) # 0
        BY <2>1, <3>2, EmptySeq
    <3> HIDE DEF next
    <3>5. n - 1 \in 0..(n - 1) /\ n - 1 \in Good
        BY <1>1, <3>4
    <3>6. PopsTo(next, PopWhileDue[next])
        BY <3>3, <3>5
    <3>7. QED
        BY <3>1, <3>3, <3>6
  <2>5. QED
      BY <2>3, <2>4
<1> HIDE DEF Good
<1>2. \A n \in Nat : n \in Good
    BY <1>1, StrongInduction
<1>3. Len(popped.rest) \in Nat
    BY LenProperties DEF Pops
<1>4. QED
    BY <1>2, <1>3 DEF Good

(* What popBeforeDate takes off the queue, and what it leaves.               *)
LEMMA PoppedBefore ==
    ASSUME NEW queue \in Seq(Items), NEW date \in Int
    PROVE  LET popped == PopBeforeDate(queue, date)
           IN /\ popped.items \in Seq(Items) /\ popped.rest \in Seq(Items)
              /\ Range(popped.items) \cup Range(popped.rest) = Range(queue)
              /\ IsInjective(queue) =>
                     /\ IsInjective(popped.rest)
                     /\ Range(popped.items) \cap Range(popped.rest) = {}
              /\ \A x \in Range(popped.items) : Date[x] <= date
              /\ popped.rest # <<>> => Date[Head(popped.rest)] > date
              /\ IsHeap(queue) => IsHeap(popped.rest)
<1> DEFINE p == [items |-> <<>>, rest |-> queue, date |-> date]
           r == PopWhileDue[p]
<1>1. p \in Pops
    BY DEF Pops
<1>2. Range(p.items) = {} /\ p.rest = queue /\ p.date = date
    BY DEF Range
<1>3. PopBeforeDate(queue, date) = r
    BY DEF PopBeforeDate
<1> HIDE DEF p
<1>4. PopsTo(p, r)
    BY <1>1, PopsAll
<1> HIDE DEF r
<1>5. QED
    BY <1>2, <1>3, <1>4 DEF PopsTo, Pops

------------------------------------------------------------------------------
(* What a run has popped is due, and until something is removed the queue is *)
(* a heap: with the two, HeldOnce and TimerInTime are inductive.             *)
BatchesAreDue == \A r \in Runs : \A x \in Range(batch[r]) : Date[x] <= now

HeapUnlessRemoved == ~removed => IsHeap(elements)

IInv ==
    /\ TypeOK
    /\ HeldOnce
    /\ BatchesAreDue
    /\ HeapUnlessRemoved
    /\ TimerInTime

LEMMA MinOfTwo ==
    ASSUME NEW i \in Int, NEW j \in Int
    PROVE  Min({i, j}) = IF i <= j THEN i ELSE j
<1>1. \A k \in {i, j} : i <= j => i <= k
    OBVIOUS
<1>2. \A k \in {i, j} : ~(i <= j) => j <= k
    OBVIOUS
<1>3. \E k \in {i, j} : \A l \in {i, j} : k <= l
    BY <1>1, <1>2
<1> DEFINE least == Min({i, j})
<1>4. least \in {i, j} /\ \A k \in {i, j} : least <= k
    BY <1>3 DEF Min
<1> HIDE DEF least
<1>5. least <= i /\ least <= j /\ least \in Int
    BY <1>4
<1>6. least = IF i <= j THEN i ELSE j
    BY <1>4, <1>5
<1>7. QED
    BY <1>6 DEF least

LEMMA HeadInRange ==
    ASSUME NEW queue \in Seq(Items), queue # <<>>
    PROVE  /\ 1 \in DOMAIN queue /\ Head(queue) = queue[1]
           /\ Head(queue) \in Range(queue) /\ Date[Head(queue)] \in Nat
<1>1. Len(queue) \in Nat /\ Len(queue) # 0 /\ DOMAIN queue = 1..Len(queue)
    BY QueueParts, EmptySeq
<1>2. 1 \in DOMAIN queue
    BY <1>1
<1>3. Head(queue) = queue[1]
    BY <1>1, HeadTailProperties
<1>4. Head(queue) \in Range(queue)
    BY <1>2, <1>3 DEF Range
<1>5. QED
    BY <1>1, <1>2, <1>3, <1>4, QueueParts

LEMMA TailInRange ==
    ASSUME NEW queue \in Seq(Items), queue # <<>>
    PROVE  Tail(queue) \in Seq(Items) /\ Range(Tail(queue)) \subseteq Range(queue)
<1> DEFINE rest == Tail(queue)
           n == Len(queue)
<1>1. n \in Nat /\ n # 0 /\ DOMAIN queue = 1..n
    BY QueueParts, EmptySeq
<1>2. /\ rest \in Seq(Items) /\ Len(rest) = n - 1
      /\ \A k \in 1..(n - 1) : rest[k] = queue[k + 1]
    BY HeadTailProperties
<1>3. DOMAIN rest = 1..(n - 1)
    BY <1>2, LenProperties
<1> HIDE DEF rest, n
<1>4. ASSUME NEW k \in DOMAIN rest PROVE rest[k] \in Range(queue)
  <2>1. k + 1 \in DOMAIN queue /\ rest[k] = queue[k + 1]
      BY <1>1, <1>2, <1>3
  <2>2. QED
      BY <2>1 DEF Range
<1>5. Range(rest) \subseteq Range(queue)
    BY <1>4 DEF Range
<1>6. QED
    BY <1>2, <1>5 DEF rest

(* The timer that is set: not for the past, in reach, no later than the      *)
(* date at the root, and for the present moment only if the root is due.     *)
LEMMA TimerIsSet ==
    ASSUME TypeOK
    PROVE  /\ NextTimeout \in {NoTime} \cup 0..(now + MaxTimeout)
           /\ elements # <<>> =>
                  /\ NextTimeout # NoTime
                  /\ NextTimeout <= Date[Head(elements)]
                  /\ NextTimeout <= now => Date[Head(elements)] <= now
           /\ elements = <<>> => NextTimeout = NoTime
<1>1. now \in Nat /\ MaxTimeout \in Nat /\ MaxTimeout > 0 /\ elements \in Seq(Items)
    BY WorkerAssumption DEF TypeOK
<1>2. CASE elements = <<>>
    BY <1>2 DEF NextTimeout
<1>3. CASE elements # <<>>
  <2> DEFINE d == Date[Head(elements)]
             least == Min({d - now, MaxTimeout})
  <2>1. d \in Nat
      BY <1>1, <1>3, HeadInRange
  <2> HIDE DEF d
  <2>2. least = IF d - now <= MaxTimeout THEN d - now ELSE MaxTimeout
      BY <1>1, <2>1, MinOfTwo
  <2>3. NextTimeout = now + least
      BY <1>3 DEF NextTimeout, TimeLeft, GetEarliestDate, d
  <2> HIDE DEF least
  <2>4. /\ now + least \in Nat /\ now + least <= now + MaxTimeout
        /\ now + least <= d
        /\ now + least <= now => d <= now
      BY <1>1, <2>1, <2>2
  <2>5. QED
      BY <1>1, <1>3, <2>3, <2>4 DEF d, NoTime
<1>4. QED
    BY <1>2, <1>3

LEMMA NothingInEmpty ==
    IsHeap(<<>>) /\ IsInjective(<<>>) /\ Range(<<>>) = {} /\ <<>> \in Seq(Items)
BY DEF IsHeap, IsInjective, Range

LEMMA IncludesRange ==
    ASSUME NEW queue, NEW x
    PROVE  Includes(queue, x) <=> x \in Range(queue)
BY DEF Includes, Contains, Range

(* What Pop(r) does with the queue.                                          *)
LEMMA PopParts ==
    ASSUME TypeOK, NEW r \in Runs, Pop(r)
    PROVE  /\ elements' \in Seq(Items) /\ batch'[r] \in Seq(Items)
           /\ batch' = [batch EXCEPT ![r] = batch'[r]]
           /\ Range(batch'[r]) \cup Range(elements') = Range(elements)
           /\ IsInjective(elements) =>
                  /\ IsInjective(elements')
                  /\ Range(batch'[r]) \cap Range(elements') = {}
           /\ \A x \in Range(batch'[r]) : Date[x] <= now
           /\ elements' # <<>> => Date[Head(elements')] > now
           /\ IsHeap(elements) => IsHeap(elements')
<1> DEFINE popped == PopBeforeDate(elements, now)
<1>1. /\ elements' = popped.rest
      /\ batch' = [batch EXCEPT ![r] = popped.items]
    BY DEF Pop
<1>2. elements \in Seq(Items) /\ now \in Int /\ batch \in [Runs -> Seq(Items)]
    BY WorkerAssumption DEF TypeOK
<1>3. batch'[r] = popped.items
    BY <1>1, <1>2
<1>4. QED
    BY <1>1, <1>2, <1>3, PoppedBefore

LEMMA Start == Init => IInv
<1> SUFFICES ASSUME Init PROVE IInv
    OBVIOUS
<1>1. TypeOK
  <2>1. now \in 0..MaxTime
      BY WorkerAssumption DEF Init
  <2>2. /\ elements \in Seq(Items) /\ batch \in [Runs -> Seq(Items)]
        /\ pc \in [Runs -> {"idle", "pop", "expire", "failed"}]
      BY NothingInEmpty DEF Init
  <2>3. QED
      BY <2>1, <2>2 DEF Init, TypeOK
<1>2. \A r \in Runs : Range(batch[r]) = {}
    BY NothingInEmpty DEF Init
<1>3. HeldOnce /\ HeapUnlessRemoved /\ BatchesAreDue /\ TimerInTime
    BY <1>2, NothingInEmpty DEF Init, HeldOnce, HeapUnlessRemoved, BatchesAreDue, TimerInTime
<1>4. QED
    BY <1>1, <1>3 DEF IInv

LEMMA StepWatch ==
    ASSUME IInv, NEW r \in Runs, NEW x \in Items, Watch(r, x)
    PROVE  IInv'
<1>1. /\ ~Includes(elements, x) /\ elements' = Enq(elements, x)
      /\ now < Date[x]
      /\ pc' = [pc EXCEPT ![r] = "pop"]
      /\ now' = now /\ timeout' = timeout /\ batch' = batch /\ removed' = removed
    BY DEF Watch
<1>2. x \notin Range(elements)
    BY <1>1, IncludesRange
<1>3. TypeOK /\ elements \in Seq(Items) /\ pc \in [Runs -> {"idle", "pop", "expire", "failed"}]
    BY DEF IInv, TypeOK
<1>4. /\ elements' \in Seq(Items)
      /\ Range(elements') = Range(elements) \cup {x}
      /\ IsInjective(elements) => IsInjective(elements')
      /\ IsHeap(elements) => IsHeap(elements')
    BY <1>1, <1>2, <1>3, Enqueued
<1>5. TypeOK'
    BY <1>1, <1>3, <1>4 DEF TypeOK
<1>6. \A q \in Runs : x \notin Range(batch[q])
  <2>1. now \in Int /\ Date[x] \in Int
      BY <1>3, DateAssumption, WorkerAssumption DEF TypeOK
  <2>2. ~(Date[x] <= now)
      BY <1>1, <2>1
  <2>3. QED
      BY <2>2 DEF IInv, BatchesAreDue
<1>7. HeldOnce'
    BY <1>1, <1>4, <1>6 DEF IInv, HeldOnce
<1>8. ~Idle'
    BY <1>1, <1>3 DEF Idle
<1>9. QED
    BY <1>1, <1>4, <1>5, <1>7, <1>8
    DEF IInv, BatchesAreDue, HeapUnlessRemoved, TimerInTime

LEMMA StepUnwatch ==
    ASSUME IInv, NEW x \in Items, Unwatch(x)
    PROVE  IInv'
<1>1. /\ Includes(elements, x) /\ elements' = RemoveItem(elements, x)
      /\ removed' = TRUE
      /\ now' = now /\ timeout' = timeout /\ pc' = pc /\ batch' = batch
    BY DEF Unwatch
<1>2. elements \in Seq(Items)
    BY DEF IInv, TypeOK
<1>3. /\ elements' \in Seq(Items)
      /\ Range(elements') \subseteq Range(elements)
      /\ IsInjective(elements) => IsInjective(elements')
    BY <1>1, <1>2, RemovedItem
<1>4. TypeOK'
    BY <1>1, <1>3 DEF IInv, TypeOK
<1>5. HeldOnce'
    BY <1>1, <1>3 DEF IInv, HeldOnce
<1>6. QED
    BY <1>1, <1>4, <1>5 DEF IInv, BatchesAreDue, HeapUnlessRemoved, TimerInTime

LEMMA StepPop ==
    ASSUME IInv, NEW r \in Runs, Pop(r)
    PROVE  IInv'
<1>1. /\ pc' = [pc EXCEPT ![r] = "expire"]
      /\ now' = now /\ timeout' = timeout /\ removed' = removed
    BY DEF Pop
<1>2. TypeOK
    BY DEF IInv
<1>3. /\ elements' \in Seq(Items) /\ batch'[r] \in Seq(Items)
      /\ batch' = [batch EXCEPT ![r] = batch'[r]]
      /\ Range(batch'[r]) \cup Range(elements') = Range(elements)
      /\ IsInjective(elements) =>
             /\ IsInjective(elements')
             /\ Range(batch'[r]) \cap Range(elements') = {}
      /\ \A x \in Range(batch'[r]) : Date[x] <= now
      /\ IsHeap(elements) => IsHeap(elements')
    BY <1>2, PopParts
<1>4. /\ pc \in [Runs -> {"idle", "pop", "expire", "failed"}]
      /\ batch \in [Runs -> Seq(Items)]
    BY <1>2 DEF TypeOK
<1>5. \A q \in Runs : q # r => batch'[q] = batch[q]
    BY <1>3, <1>4
<1>6. batch' \in [Runs -> Seq(Items)] /\ pc' \in [Runs -> {"idle", "pop", "expire", "failed"}]
    BY <1>1, <1>3, <1>4
<1>7. TypeOK'
    BY <1>1, <1>2, <1>3, <1>6 DEF TypeOK
<1>8. HeldOnce'
  <2>1. IsInjective(elements')
      BY <1>3 DEF IInv, HeldOnce
  <2>2. ASSUME NEW q \in Runs PROVE Range(batch'[q]) \cap Range(elements') = {}
    <3>1. CASE q = r
        BY <1>3, <3>1 DEF IInv, HeldOnce
    <3>2. CASE q # r
      <4>1. Range(batch[q]) \cap Range(elements) = {}
          BY DEF IInv, HeldOnce
      <4>2. QED
          BY <1>3, <1>5, <3>2, <4>1
    <3>3. QED
        BY <3>1, <3>2
  <2>3. ASSUME NEW q \in Runs, NEW s \in Runs, q # s
        PROVE  Range(batch'[q]) \cap Range(batch'[s]) = {}
    <3>1. \A u \in Runs : Range(batch[u]) \cap Range(elements) = {}
        BY DEF IInv, HeldOnce
    <3>2. Range(batch'[r]) \subseteq Range(elements)
        BY <1>3
    <3>3. CASE q = r
        BY <1>5, <2>3, <3>1, <3>2, <3>3
    <3>4. CASE s = r
        BY <1>5, <2>3, <3>1, <3>2, <3>4
    <3>5. CASE q # r /\ s # r
        BY <1>5, <2>3, <3>5 DEF IInv, HeldOnce
    <3>6. QED
        BY <3>3, <3>4, <3>5
  <2>4. QED
      BY <2>1, <2>2, <2>3 DEF HeldOnce
<1>9. BatchesAreDue'
    BY <1>1, <1>3, <1>5 DEF IInv, BatchesAreDue
<1>10. ~Idle'
    BY <1>1, <1>4 DEF Idle
<1>11. QED
    BY <1>1, <1>3, <1>7, <1>8, <1>9, <1>10 DEF IInv, HeapUnlessRemoved, TimerInTime

(* Expire(r) and Fail(r): what r still has to expire becomes less.           *)
LEMMA StepShrink ==
    ASSUME IInv, NEW r \in Runs, Expire(r) \/ Fail(r)
    PROVE  IInv'
<1>1. /\ pc[r] = "expire" /\ batch[r] # <<>>
      /\ now' = now /\ elements' = elements /\ timeout' = timeout /\ removed' = removed
    BY DEF Expire, Fail
<1>2. /\ pc \in [Runs -> {"idle", "pop", "expire", "failed"}]
      /\ batch \in [Runs -> Seq(Items)]
    BY DEF IInv, TypeOK
<1>3. /\ batch' = [batch EXCEPT ![r] = batch'[r]]
      /\ batch'[r] \in Seq(Items) /\ Range(batch'[r]) \subseteq Range(batch[r])
  <2>1. CASE Expire(r)
    <3>1. batch' = [batch EXCEPT ![r] = Tail(batch[r])]
        BY <2>1 DEF Expire
    <3>2. Tail(batch[r]) \in Seq(Items) /\ Range(Tail(batch[r])) \subseteq Range(batch[r])
        BY <1>1, <1>2, TailInRange
    <3>3. batch'[r] = Tail(batch[r])
        BY <1>2, <3>1
    <3>4. QED
        BY <3>1, <3>2, <3>3
  <2>2. CASE Fail(r)
    <3>1. batch' = [batch EXCEPT ![r] = <<>>]
        BY <2>2 DEF Fail
    <3>2. batch'[r] = <<>>
        BY <1>2, <3>1
    <3>3. QED
        BY <3>1, <3>2, NothingInEmpty
  <2>3. QED
      BY <2>1, <2>2
<1>4. pc' \in [Runs -> {"idle", "pop", "expire", "failed"}] /\ pc'[r] # "idle"
    BY <1>1, <1>2 DEF Expire, Fail
<1>5. batch' \in [Runs -> Seq(Items)] /\ \A q \in Runs : q # r => batch'[q] = batch[q]
    BY <1>2, <1>3
<1>6. \A q \in Runs : Range(batch'[q]) \subseteq Range(batch[q])
    BY <1>3, <1>5
<1>7. TypeOK'
    BY <1>1, <1>4, <1>5 DEF IInv, TypeOK
<1>8. HeldOnce'
  <2>1. \A q \in Runs : Range(batch[q]) \cap Range(elements) = {}
      BY DEF IInv, HeldOnce
  <2>2. \A q, s \in Runs : q # s => Range(batch[q]) \cap Range(batch[s]) = {}
      BY DEF IInv, HeldOnce
  <2>3. \A q \in Runs : Range(batch'[q]) \cap Range(elements') = {}
      BY <1>1, <1>6, <2>1
  <2>4. \A q, s \in Runs : q # s => Range(batch'[q]) \cap Range(batch'[s]) = {}
      BY <1>6, <2>2
  <2>5. QED
      BY <1>1, <2>3, <2>4 DEF IInv, HeldOnce
<1>9. BatchesAreDue'
    BY <1>1, <1>6 DEF IInv, BatchesAreDue
<1>10. ~Idle'
    BY <1>4 DEF Idle
<1>11. QED
    BY <1>1, <1>7, <1>8, <1>9, <1>10 DEF IInv, HeapUnlessRemoved, TimerInTime

LEMMA StepArm ==
    ASSUME IInv, NEW r \in Runs, Arm(r)
    PROVE  IInv'
<1>1. /\ timeout' = NextTimeout
      /\ pc' = [pc EXCEPT ![r] = "idle"]
      /\ now' = now /\ elements' = elements /\ batch' = batch /\ removed' = removed
    BY DEF Arm
<1>2. TypeOK /\ elements \in Seq(Items)
    BY DEF IInv, TypeOK
<1>3. /\ NextTimeout \in {NoTime} \cup 0..(now + MaxTimeout)
      /\ elements # <<>> => NextTimeout # NoTime /\ NextTimeout <= Date[Head(elements)]
    BY <1>2, TimerIsSet
<1>4. TypeOK'
    BY <1>1, <1>2, <1>3 DEF TypeOK
<1>5. ASSUME ~removed, NEW x \in Range(elements)
      PROVE  NextTimeout # NoTime /\ NextTimeout <= Date[x]
  <2>1. PICK i \in DOMAIN elements : x = elements[i]
      BY <1>5 DEF Range
  <2>2. elements # <<>>
      BY <1>5, NothingInEmpty
  <2>3. Date[elements[1]] <= Date[elements[i]]
      BY <1>2, <1>5, RootIsEarliest DEF IInv, HeapUnlessRemoved
  <2>4. Head(elements) = elements[1] /\ Date[Head(elements)] \in Nat
      BY <1>2, <2>2, HeadInRange
  <2>5. Date[x] \in Nat
      BY <1>2, <2>1, QueueParts
  <2>6. NextTimeout \in Int
      BY <1>2, <1>3, WorkerAssumption DEF NoTime, TypeOK
  <2>7. QED
      BY <1>3, <2>1, <2>2, <2>3, <2>4, <2>5, <2>6
<1>6. TimerInTime'
    BY <1>1, <1>5 DEF TimerInTime
<1>7. QED
    BY <1>1, <1>4, <1>6 DEF IInv, HeldOnce, BatchesAreDue, HeapUnlessRemoved

LEMMA StepFire ==
    ASSUME IInv, NEW r \in Runs, Fire(r)
    PROVE  IInv'
<1>1. /\ timeout' = NoTime
      /\ pc' = [pc EXCEPT ![r] = "pop"]
      /\ now' = now /\ elements' = elements /\ batch' = batch /\ removed' = removed
    BY DEF Fire
<1>2. pc \in [Runs -> {"idle", "pop", "expire", "failed"}]
    BY DEF IInv, TypeOK
<1>3. TypeOK'
    BY <1>1 DEF IInv, TypeOK
<1>4. ~Idle'
    BY <1>1, <1>2 DEF Idle
<1>5. QED
    BY <1>1, <1>3, <1>4
    DEF IInv, HeldOnce, BatchesAreDue, HeapUnlessRemoved, TimerInTime

LEMMA StepTick ==
    ASSUME IInv, Tick
    PROVE  IInv'
<1>1. /\ now < MaxTime /\ now' = now + 1
      /\ elements' = elements /\ timeout' = timeout /\ pc' = pc
      /\ batch' = batch /\ removed' = removed
    BY DEF Tick
<1>2. now \in Nat /\ MaxTime \in Nat /\ MaxTimeout \in Nat
    BY WorkerAssumption DEF IInv, TypeOK
<1>3. now' \in 0..MaxTime
    BY <1>1, <1>2
<1>4. timeout' \in {NoTime} \cup 0..(now' + MaxTimeout)
  <2>1. timeout \in {NoTime} \cup 0..(now + MaxTimeout)
      BY DEF IInv, TypeOK
  <2>2. QED
      BY <1>1, <1>2, <2>1
<1>5. TypeOK'
    BY <1>1, <1>3, <1>4 DEF IInv, TypeOK
<1>6. BatchesAreDue'
  <2> SUFFICES ASSUME NEW q \in Runs, NEW x \in Range(batch[q]) PROVE Date[x] <= now'
      BY <1>1 DEF BatchesAreDue
  <2>1. Date[x] <= now
      BY DEF IInv, BatchesAreDue
  <2>2. batch[q] \in Seq(Items)
      BY DEF IInv, TypeOK
  <2>3. Date[x] \in Nat
      BY <2>2, QueueParts DEF Range
  <2>4. QED
      BY <1>1, <1>2, <2>1, <2>3
<1>7. QED
    BY <1>1, <1>5, <1>6 DEF IInv, HeldOnce, HeapUnlessRemoved, TimerInTime, Idle

LEMMA StepUnchanged ==
    ASSUME IInv, UNCHANGED vars
    PROVE  IInv'
BY DEF IInv, vars, TypeOK, HeldOnce, BatchesAreDue, HeapUnlessRemoved, TimerInTime, Idle

LEMMA Steps == IInv /\ [Next]_vars => IInv'
<1> SUFFICES ASSUME IInv, [Next]_vars PROVE IInv'
    OBVIOUS
<1>1. ASSUME NEW r \in Runs, Continue(r) PROVE IInv'
    BY <1>1, StepPop, StepShrink, StepArm DEF Continue
<1>2. ASSUME Quiescent PROVE UNCHANGED vars
    BY <1>2 DEF Quiescent
<1>3. QED
    BY <1>1, <1>2, StepWatch, StepUnwatch, StepFire, StepTick, StepUnchanged DEF Next

LEMMA AlwaysIInv == Spec => []IInv
BY Start, Steps, PTL DEF Spec

(* Every variable keeps its type, and no timer is set for longer than        *)
(* setTimeout takes (MAX_32INT).                                             *)
THEOREM Types == Spec => []TypeOK
BY AlwaysIInv, PTL DEF IInv

(* No transfer is in the queue twice, or in the queue and in the hands of a  *)
(* run (transferExpiryMonitor.watch, TimeQueue.includes and popBeforeDate).  *)
THEOREM NobodyIsHeldTwice == Spec => []HeldOnce
BY AlwaysIInv, PTL DEF IInv

(* When no run is going on the timer is set for no later than the earliest   *)
(* date in the queue, as long as no removal has disordered it                *)
(* (processTimeQueue).                                                       *)
THEOREM TimerIsInTime == Spec => []TimerInTime
BY AlwaysIInv, PTL DEF IInv

------------------------------------------------------------------------------
(* Only Pop takes a run from "pop" to "expire".                              *)
LEMMA OnlyPop ==
    ASSUME TypeOK, [Next]_vars, NEW r \in Runs, pc[r] = "pop", pc'[r] = "expire"
    PROVE  Pop(r)
<1>1. pc \in [Runs -> {"idle", "pop", "expire", "failed"}]
    BY DEF TypeOK
<1>2. ASSUME NEW q \in Runs, NEW v, pc' = [pc EXCEPT ![q] = v]
      PROVE  q = r /\ v = "expire"
    BY <1>1, <1>2
<1>3. pc' # pc
    OBVIOUS
<1>4. ASSUME NEW q \in Runs, NEW x \in Items, Watch(q, x) PROVE FALSE
  <2>1. pc' = [pc EXCEPT ![q] = "pop"]
      BY <1>4 DEF Watch
  <2>2. QED
      BY <1>2, <2>1
<1>5. ASSUME NEW q \in Runs, Fire(q) PROVE FALSE
  <2>1. pc' = [pc EXCEPT ![q] = "pop"]
      BY <1>5 DEF Fire
  <2>2. QED
      BY <1>2, <2>1
<1>6. ASSUME NEW q \in Runs, Continue(q) PROVE Pop(r)
  <2>1. CASE Pop(q)
    <3>1. pc' = [pc EXCEPT ![q] = "expire"]
        BY <2>1 DEF Pop
    <3>2. QED
        BY <1>2, <2>1, <3>1
  <2>2. CASE Expire(q)
      BY <1>3, <2>2 DEF Expire
  <2>3. CASE Fail(q)
    <3>1. pc' = [pc EXCEPT ![q] = "failed"]
        BY <2>3 DEF Fail
    <3>2. QED
        BY <1>2, <3>1
  <2>4. CASE Arm(q)
    <3>1. pc' = [pc EXCEPT ![q] = "idle"]
        BY <2>4 DEF Arm
    <3>2. QED
        BY <1>2, <3>1
  <2>5. QED
      BY <1>6, <2>1, <2>2, <2>3, <2>4 DEF Continue
<1>7. ASSUME (\E x \in Items : Unwatch(x)) \/ Tick \/ Quiescent \/ UNCHANGED vars
      PROVE  FALSE
    BY <1>3, <1>7 DEF Unwatch, Tick, Quiescent, vars
<1>8. QED
    BY <1>4, <1>5, <1>6, <1>7 DEF Next

(* A pop leaves nothing behind that is due, as long as nothing was ever      *)
(* removed: the heap of priorityqueuejs is one (popBeforeDate).              *)
THEOREM PopsTakeAllDue == Spec => AllDuePopped
<1>1. ASSUME IInv, [Next]_vars, NEW r \in Runs, pc[r] = "pop", pc'[r] = "expire", ~removed
      PROVE  \A x \in Range(elements') : Date[x] > now
  <2>1. TypeOK /\ IsHeap(elements) /\ now \in Int
      BY <1>1, WorkerAssumption DEF IInv, HeapUnlessRemoved, TypeOK
  <2>2. Pop(r)
      BY <1>1, <2>1, OnlyPop
  <2> DEFINE rest == elements'
  <2>3. rest \in Seq(Items) /\ IsHeap(rest) /\ (rest # <<>> => Date[Head(rest)] > now)
      BY <2>1, <2>2, PopParts
  <2> HIDE DEF rest
  <2>4. ASSUME NEW i \in DOMAIN rest PROVE Date[rest[i]] > now
    <3>1. rest # <<>>
        BY <2>3, QueueParts, EmptySeq
    <3>2. Head(rest) = rest[1] /\ Date[rest[1]] \in Nat /\ Date[rest[1]] > now
        BY <2>3, <3>1, HeadInRange
    <3>3. Date[rest[1]] <= Date[rest[i]] /\ Date[rest[i]] \in Nat
        BY <2>3, RootIsEarliest, QueueParts
    <3>4. QED
        BY <2>1, <3>2, <3>3
  <2>5. QED
      BY <2>4 DEF rest, Range
<1> DEFINE A == \A r \in Runs : pc[r] = "pop" /\ pc'[r] = "expire" =>
                    removed \/ \A x \in Range(elements') : Date[x] > now
<1>2. IInv /\ [Next]_vars => A
    BY <1>1
<1> HIDE DEF A
<1>3. Spec => [][A]_vars
    BY <1>2, AlwaysIInv, PTL DEF Spec
<1>4. QED
    BY <1>3, PTL DEF AllDuePopped, A

(* A timer is set to fire at once only if something is due, though timeouts  *)
(* are limited (processTimeQueue).                                           *)
THEOREM NoCircles == Spec => NoBusyLoop
<1> DEFINE A == timeout' # timeout /\ timeout' # NoTime /\ timeout' <= now =>
                    \E x \in Range(elements) : Date[x] <= now
<1>1. ASSUME IInv, [Next]_vars, timeout' # timeout, timeout' # NoTime, timeout' <= now
      PROVE  \E x \in Range(elements) : Date[x] <= now
  <2>1. PICK r \in Runs : Arm(r)
      BY <1>1 DEF Next, Watch, Unwatch, Fire, Continue, Pop, Expire, Fail, Tick, Quiescent, vars
  <2>2. timeout' = NextTimeout
      BY <2>1 DEF Arm
  <2>3. TypeOK /\ elements \in Seq(Items)
      BY <1>1 DEF IInv, TypeOK
  <2>4. elements # <<>> /\ Date[Head(elements)] <= now
      BY <1>1, <2>2, <2>3, TimerIsSet
  <2>5. QED
      BY <2>3, <2>4, HeadInRange
<1>2. IInv /\ [Next]_vars => A
    BY <1>1
<1> HIDE DEF A
<1>3. Spec => [][A]_vars
    BY <1>2, AlwaysIInv, PTL DEF Spec
<1>4. QED
    BY <1>3, PTL DEF NoBusyLoop, A

(* What the queue of LedgerServer assumes of the heap, removals or not: only *)
(* due items are popped, none is lost, and an item that is not due ends the  *)
(* loop (popBeforeDate).                                                     *)
THEOREM PopsAreAsAssumed == Spec => PopsAsAssumed
<1> DEFINE A == \A r \in Runs : pc[r] = "pop" /\ pc'[r] = "expire" =>
                    /\ \A x \in Range(batch'[r]) : Date[x] <= now
                    /\ Range(batch'[r]) \cup Range(elements') = Range(elements)
                    /\ elements' = <<>> \/ \E x \in Range(elements') : Date[x] > now
<1>1. ASSUME IInv, [Next]_vars, NEW r \in Runs, pc[r] = "pop", pc'[r] = "expire"
      PROVE  /\ \A x \in Range(batch'[r]) : Date[x] <= now
             /\ Range(batch'[r]) \cup Range(elements') = Range(elements)
             /\ elements' = <<>> \/ \E x \in Range(elements') : Date[x] > now
  <2>1. TypeOK
      BY <1>1 DEF IInv
  <2>2. Pop(r)
      BY <1>1, <2>1, OnlyPop
  <2> DEFINE rest == elements'
  <2>3. /\ rest \in Seq(Items)
        /\ \A x \in Range(batch'[r]) : Date[x] <= now
        /\ Range(batch'[r]) \cup Range(rest) = Range(elements)
        /\ rest # <<>> => Date[Head(rest)] > now
      BY <2>1, <2>2, PopParts
  <2> HIDE DEF rest
  <2>4. rest # <<>> => Head(rest) \in Range(rest)
      BY <2>3, HeadInRange
  <2>5. QED
      BY <2>3, <2>4 DEF rest
<1>2. IInv /\ [Next]_vars => A
    BY <1>1
<1> HIDE DEF A
<1>3. Spec => [][A]_vars
    BY <1>2, AlwaysIInv, PTL DEF Spec
<1>4. QED
    BY <1>3, PTL DEF PopsAsAssumed, A
=============================================================================
