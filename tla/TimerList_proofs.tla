--------------------------- MODULE TimerList_proofs ---------------------------
(* The timers of an application (TimerList): the pointers always form      *)
(* rings, what is pending can be stopped, and the list of ticks that wrap  *)
(* implements Countdown.                                                   *)
EXTENDS TimerList, FiniteSetTheorems, WellFoundedInduction, TLAPS

-----------------------------------------------------------------------------
(* Rings.                                                                  *)

Heap == [next : [Node -> Node], prev : [Node -> Node]]

\* A set of naturals has a least element.
LEMMA LeastOf ==
  ASSUME NEW T \in SUBSET Nat, T # {}
  PROVE  \E m \in T : \A n \in T : m <= n
<1>1. \E m \in T : \A n \in T : ~(<<n, m>> \in OpToRel(<, Nat))
  BY NatLessThanWellFounded, WFMin
<1>2. \A a, b \in Nat : a < b => <<a, b>> \in OpToRel(<, Nat)
  BY Zenon DEF OpToRel
<1>3. \E m \in T : \A n \in T : ~(n < m)
  BY <1>1, <1>2, Zenon
<1> QED
  BY <1>3, SMT

\* A walk of n steps along next.
IsWalk(r, l, n, f) ==
    f \in [0 .. n -> Node] /\ f[0] = l /\ \A k \in 1 .. n : f[k] = r.next[f[k - 1]]

LEMMA WalkExists ==
  ASSUME NEW r \in Heap, NEW l \in Node, NEW n \in Nat
  PROVE  \E f : IsWalk(r, l, n, f)
<1> DEFINE Fails == {k \in Nat : ~\E f : IsWalk(r, l, k, f)}
<1>1. SUFFICES Fails = {}
  OBVIOUS
<1>2. SUFFICES ASSUME NEW m \in Fails, \A k \in Fails : m <= k PROVE FALSE
  <2>1. Fails \in SUBSET Nat
    OBVIOUS
  <2> HIDE DEF Fails
  <2> QED
    BY <2>1, LeastOf
<1>3. m # 0
  <2>1. IsWalk(r, l, 0, [k \in 0 .. 0 |-> l])
    BY DEF IsWalk
  <2> QED
    BY <2>1
<1>4. m - 1 \in Nat /\ m - 1 \notin Fails
  BY <1>2, <1>3
<1>5. PICK f : IsWalk(r, l, m - 1, f)
  BY <1>4
<1> DEFINE g == [k \in 0 .. m |-> IF k = m THEN r.next[f[m - 1]] ELSE f[k]]
<1>6. IsWalk(r, l, m, g)
  <2>1. /\ f \in [0 .. m - 1 -> Node] /\ f[0] = l
        /\ \A k \in 1 .. m - 1 : f[k] = r.next[f[k - 1]]
    BY <1>5 DEF IsWalk
  <2>2. r.next \in [Node -> Node]
    BY DEF Heap
  <2>3. m \in Nat /\ m # 0
    BY <1>3
  <2>4. g \in [0 .. m -> Node]
    BY <2>1, <2>2, <2>3
  <2>5. g[0] = l
    BY <2>1, <2>3
  <2>6. ASSUME NEW k \in 1 .. m PROVE g[k] = r.next[g[k - 1]]
    BY <2>1, <2>3
  <2> QED
    BY <2>4, <2>5, <2>6 DEF IsWalk
<1> QED
  BY <1>6

\* Steps is the walk that goes as far as there are nodes.
LEMMA StepsIsWalk ==
  ASSUME NEW r \in Heap, NEW l \in Node, Cardinality(Node) \in Nat
  PROVE  IsWalk(r, l, Cardinality(Node), Steps(r, l))
<1> DEFINE N == Cardinality(Node)
<1>1. PICK f : IsWalk(r, l, N, f)
  BY WalkExists
<1>2. f = [k \in 0 .. N |-> IF k = 0 THEN l ELSE r.next[f[k - 1]]]
  <2>1. /\ f \in [0 .. N -> Node] /\ f[0] = l /\ \A k \in 1 .. N : f[k] = r.next[f[k - 1]]
    BY <1>1 DEF IsWalk
  <2>2. \A k \in 0 .. N : f[k] = IF k = 0 THEN l ELSE r.next[f[k - 1]]
    BY <2>1
  <2> QED
    BY <2>1, <2>2
<1>3. DOMAIN r.next = Node
  BY DEF Heap
<1>4. Steps(r, l) = CHOOSE w : w = [k \in 0 .. N |-> IF k = 0 THEN l ELSE r.next[w[k - 1]]]
  BY <1>3 DEF Steps
<1> DEFINE s == Steps(r, l)
<1>5. s = [k \in 0 .. N |-> IF k = 0 THEN l ELSE r.next[s[k - 1]]]
  BY <1>2, <1>4
<1> HIDE DEF s
<1>6. \A k \in 0 .. N : s[k] \in Node
  <2> DEFINE Fails == {k \in 0 .. N : s[k] \notin Node}
  <2>1. SUFFICES ASSUME NEW m \in Fails, \A k \in Fails : m <= k PROVE FALSE
    <3>1. Fails \in SUBSET Nat
      OBVIOUS
    <3>2. Fails # {} => \E m \in Fails : \A k \in Fails : m <= k
      <4> HIDE DEF Fails
      <4> QED
        BY <3>1, LeastOf
    <3> QED
      BY <3>2
  <2>2. m # 0
    BY <1>5
  <2>3. m - 1 \in 0 .. N /\ s[m - 1] \in Node
    BY <2>1, <2>2
  <2> QED
    BY <1>5, <2>2, <2>3 DEF Heap
<1> QED
  BY <1>5, <1>6 DEF IsWalk, s

\* Steps comes back to its node: there are more steps than nodes, and two steps
\* that lead to one node start from one node.
LEMMA WalkReturns ==
  ASSUME IsFiniteSet(Node), NEW r \in Heap, Rings(r), NEW l \in Node
  PROVE  \E k \in 1 .. Cardinality(Node) : Steps(r, l)[k] = l
<1> DEFINE N == Cardinality(Node)
           s == Steps(r, l)
<1>1. N \in Nat
  BY FS_CardinalityType
<1>2. /\ s \in [0 .. N -> Node] /\ s[0] = l /\ \A k \in 1 .. N : s[k] = r.next[s[k - 1]]
  BY <1>1, StepsIsWalk DEF IsWalk
<1>3. \A n \in Node : r.prev[r.next[n]] = n
  BY DEF Rings, Heap
<1>4. \E i, j \in 0 .. N : i < j /\ s[i] = s[j]
  <2>1. IsFiniteSet(0 .. N) /\ Cardinality(0 .. N) = N + 1
    BY <1>1, FS_Interval
  <2>2. Cardinality(Node) < Cardinality(0 .. N)
    BY <1>1, <2>1
  <2>3. s \in [0 .. N -> Node]
    BY <1>2
  <2> HIDE DEF s, N
  <2>4. \E i, j \in 0 .. N : i # j /\ s[i] = s[j]
    BY <2>1, <2>2, <2>3, FS_PigeonHole, Zenon
  <2>5. PICK i, j \in 0 .. N : i # j /\ s[i] = s[j]
    BY <2>4
  <2> QED
    BY <1>1, <2>5 DEF N
<1> HIDE DEF s, N
<1> DEFINE Firsts == {i \in 0 .. N : \E j \in 0 .. N : i < j /\ s[i] = s[j]}
<1>5. PICK i \in Firsts : \A k \in Firsts : i <= k
  <2>1. Firsts \in SUBSET Nat /\ Firsts # {}
    BY <1>1, <1>4
  <2> HIDE DEF Firsts
  <2> QED
    BY <2>1, LeastOf
<1>6. PICK j \in 0 .. N : i < j /\ s[i] = s[j]
  BY <1>5
<1>7. i = 0
  <2> SUFFICES ASSUME i # 0 PROVE FALSE
    OBVIOUS
  <2>1. i \in 1 .. N /\ j \in 1 .. N
    BY <1>1, <1>6
  <2>2. s[i] = r.next[s[i - 1]] /\ s[j] = r.next[s[j - 1]]
    BY <1>2, <2>1
  <2>3. i - 1 \in 0 .. N /\ j - 1 \in 0 .. N /\ i - 1 < j - 1
    BY <1>1, <1>6, <2>1
  <2>4. r.prev[s[i]] = s[i - 1] /\ r.prev[s[j]] = s[j - 1]
    <3>1. s[i - 1] \in Node /\ s[j - 1] \in Node
      BY <1>2, <2>3
    <3> QED
      BY <1>3, <2>2, <3>1
  <2>5. s[i - 1] = s[j - 1]
    BY <1>6, <2>4
  <2>6. i - 1 \in Firsts
    BY <2>3, <2>5
  <2> QED
    BY <1>5, <2>1, <2>6
<1>8. j \in 1 .. N /\ s[j] = l
  BY <1>1, <1>2, <1>6, <1>7
<1> QED
  BY <1>8 DEF s, N

\* So rt_list_len is the number of nodes before it comes back first, and
\* Elements are those nodes; none of them is alone.
LEMMA ElementsOfRing ==
  ASSUME IsFiniteSet(Node), NEW r \in Heap, Rings(r), NEW l \in Node
  PROVE  /\ rt_list_len(r, l) \in Nat
         /\ Elements(r, l) \in Seq(Node) /\ Len(Elements(r, l)) = rt_list_len(r, l)
         /\ \A k \in 1 .. rt_list_len(r, l) :
              LET n == Elements(r, l)[k] IN n \in Node \ {l} /\ r.next[n] # n
         /\ r.next[l] = IF rt_list_len(r, l) = 0 THEN l ELSE Elements(r, l)[1]
         /\ \A k \in 1 .. rt_list_len(r, l) :
              r.next[Elements(r, l)[k]] =
                IF k = rt_list_len(r, l) THEN l ELSE Elements(r, l)[k + 1]
<1> DEFINE N == Cardinality(Node)
           s == Steps(r, l)
           Back == {k \in DOMAIN s \ {0} : s[k] = l}
           L == rt_list_len(r, l)
<1>1. N \in Nat
  BY FS_CardinalityType
<1>2. /\ s \in [0 .. N -> Node] /\ s[0] = l /\ \A k \in 1 .. N : s[k] = r.next[s[k - 1]]
  BY <1>1, StepsIsWalk DEF IsWalk
<1>3. \A n \in Node : r.prev[r.next[n]] = n /\ r.next[n] \in Node
  BY DEF Rings, Heap
<1>4. \E k \in Back : \A j \in Back : k <= j
  <2>1. Back \in SUBSET Nat /\ Back # {}
    <3>1. \E k \in 1 .. N : s[k] = l
      BY WalkReturns
    <3> HIDE DEF s, N
    <3> QED
      BY <1>1, <1>2, <3>1
  <2> HIDE DEF Back
  <2> QED
    BY <2>1, LeastOf
<1>5. L = (CHOOSE k \in Back : \A j \in Back : k <= j) - 1
  BY DEF rt_list_len
<1> DEFINE first == CHOOSE k \in Back : \A j \in Back : k <= j
<1>6. first \in Back /\ \A j \in Back : first <= j
  <2> HIDE DEF Back
  <2> QED
    BY <1>4
<1> HIDE DEF s, L, first, N
<1>7. /\ L \in Nat /\ L + 1 \in 1 .. N
      /\ \A j \in 1 .. L : s[j] \in Node \ {l}
      /\ s[L + 1] = l
  <2>1. first \in 1 .. N /\ L = first - 1 /\ s[first] = l
    BY <1>1, <1>2, <1>5, <1>6 DEF first
  <2>2. ASSUME NEW j \in 1 .. L PROVE s[j] \in Node \ {l}
    <3>1. j \in 1 .. N /\ j < first
      BY <1>1, <2>1
    <3> QED
      BY <1>2, <1>6, <3>1
  <2> QED
    BY <1>1, <2>1, <2>2
<1>8. ASSUME NEW j \in 1 .. L PROVE r.next[s[j]] # s[j]
  <2> SUFFICES ASSUME r.next[s[j]] = s[j] PROVE FALSE
    OBVIOUS
  <2> DEFINE x == s[j]
             Same == {i \in 0 .. N : s[i] = x}
  <2>1. Same \in SUBSET Nat /\ j \in Same /\ 0 \notin Same
    BY <1>1, <1>2, <1>7
  <2>2. PICK m \in Same : \A i \in Same : m <= i
    <3> HIDE DEF Same
    <3> QED
      BY <2>1, LeastOf
  <2>3. m \in 1 .. N /\ m - 1 \in 0 .. N /\ s[m] = x /\ s[m - 1] \in Node
    BY <1>1, <1>2, <2>1, <2>2
  <2>4. r.next[s[m - 1]] = x
    BY <1>2, <2>3
  <2>5. s[m - 1] = x
    BY <1>2, <1>3, <1>7, <2>3, <2>4
  <2>6. m - 1 \in Same
    BY <2>3, <2>5
  <2> QED
    BY <2>2, <2>3, <2>6
<1>9. Elements(r, l) = [j \in 1 .. L |-> s[j]]
  BY DEF Elements, L, s
<1>10. s[L + 1] = l /\ r.next[l] = s[1] /\ \A k \in 1 .. L : r.next[s[k]] = s[k + 1]
  <2>1. s[L + 1] = l
    BY <1>7
  <2>2. 1 \in 1 .. N /\ \A k \in 1 .. L : k + 1 \in 1 .. N
    BY <1>1, <1>7
  <2>3. s[1] = r.next[s[1 - 1]] /\ \A k \in 1 .. L : s[k + 1] = r.next[s[k + 1 - 1]]
    BY <1>2, <2>2
  <2> QED
    BY <1>2, <1>7, <2>1, <2>3
<1>11. L = 0 => s[1] = l
  BY <1>10
<1>12. L # 0 => 1 \in 1 .. L
  BY <1>7
<1>13. \A k \in 1 .. L : s[k + 1] = IF k = L THEN l ELSE Elements(r, l)[k + 1]
  <2> SUFFICES ASSUME NEW k \in 1 .. L, k # L PROVE k + 1 \in 1 .. L
    BY <1>9, <1>10
  <2> QED
    BY <1>7
<1> QED
  BY <1>7, <1>8, <1>9, <1>10, <1>11, <1>12, <1>13 DEF L

LEMMA NodesFinite == IsFiniteSet(Node) /\ rt_timer_list \in Node /\ Timer \subseteq Node
BY TimerAssumption, FS_AddElement DEF Node

\* rt_list_insert_after, of a node that is alone.
LEMMA LinkedIn ==
  ASSUME NEW r \in Heap, Rings(r), NEW x \in Node, r.next[x] = x, NEW l \in Node \ {x}
  PROVE  LET q == rt_list_insert_after(r, l, x) IN
         /\ q \in Heap /\ Rings(q)
         /\ q.next[l] = x /\ q.next[x] = r.next[l] /\ r.next[l] # x
         /\ \A y \in Node \ {x, l} : q.next[y] = r.next[y] /\ r.next[y] # x
<1> DEFINE q == rt_list_insert_after(r, l, x)
           m == r.next[l]
<1>1. r.next \in [Node -> Node] /\ r.prev \in [Node -> Node] /\ m \in Node
  BY DEF Heap
<1>2. \A n \in Node : r.prev[r.next[n]] = n /\ r.next[r.prev[n]] = n
  BY <1>1 DEF Rings
<1>3. r.prev[x] = x /\ m # x /\ \A y \in Node \ {x} : r.next[y] # x /\ r.prev[y] # x
  BY <1>1, <1>2
<1>4. /\ q.next = [r.next EXCEPT ![x] = m, ![l] = x]
      /\ q.prev = [r.prev EXCEPT ![m] = x, ![x] = l]
      /\ q = [next |-> q.next, prev |-> q.prev]
  BY DEF rt_list_insert_after
<1> HIDE DEF q, m
<1>5. q.next \in [Node -> Node] /\ q.prev \in [Node -> Node]
  BY <1>1, <1>4
<1>6. /\ q.next[x] = m /\ q.next[l] = x
      /\ \A n \in Node \ {x, l} : q.next[n] = r.next[n]
      /\ q.prev[m] = x /\ q.prev[x] = l
      /\ \A n \in Node \ {x, m} : q.prev[n] = r.prev[n]
  BY <1>1, <1>3, <1>4
<1>7. ASSUME NEW n \in Node PROVE q.prev[q.next[n]] = n /\ q.next[q.prev[n]] = n
  <2>1. CASE n = x
    BY <1>6, <2>1
  <2>2. CASE n # x
    <3>1. q.prev[q.next[n]] = n
      BY <1>1, <1>2, <1>3, <1>6, <2>2 DEF m
    <3>2. q.next[q.prev[n]] = n
      BY <1>1, <1>2, <1>3, <1>6, <2>2 DEF m
    <3> QED
      BY <3>1, <3>2
  <2> QED
    BY <2>1, <2>2
<1>8. q \in Heap /\ Rings(q)
  BY <1>4, <1>5, <1>7 DEF Heap, Rings
<1> QED
  BY <1>3, <1>6, <1>8 DEF q, m

\* rt_list_remove, of a node that may be alone.
LEMMA LinkedOut ==
  ASSUME NEW r \in Heap, Rings(r), NEW x \in Node
  PROVE  LET q == rt_list_remove(r, x) IN
         /\ q \in Heap /\ Rings(q) /\ q.next[x] = x
         /\ \A y \in Node \ {x} : q.next[y] = IF r.next[y] = x THEN r.next[x] ELSE r.next[y]
<1> DEFINE q == rt_list_remove(r, x)
           a == r.prev[x]
           b == r.next[x]
<1>1. r.next \in [Node -> Node] /\ r.prev \in [Node -> Node] /\ a \in Node /\ b \in Node
  BY DEF Heap
<1>2. \A n \in Node : r.prev[r.next[n]] = n /\ r.next[r.prev[n]] = n
  BY <1>1 DEF Rings
<1>3. /\ a = x <=> b = x
      /\ \A y \in Node : (r.next[y] = x <=> y = a) /\ (r.prev[y] = x <=> y = b)
  BY <1>1, <1>2
<1>4. /\ q.next = [r.next EXCEPT ![a] = b, ![x] = x]
      /\ q.prev = [r.prev EXCEPT ![b] = a, ![x] = x]
      /\ q = [next |-> q.next, prev |-> q.prev]
  BY DEF rt_list_remove
<1> HIDE DEF q
<1>5. q.next \in [Node -> Node] /\ q.prev \in [Node -> Node]
  BY <1>1, <1>4
<1>6. /\ q.next[x] = x /\ q.prev[x] = x
      /\ a # x => q.next[a] = b /\ q.prev[b] = a
      /\ \A n \in Node \ {x, a} : q.next[n] = r.next[n]
      /\ \A n \in Node \ {x, b} : q.prev[n] = r.prev[n]
  BY <1>1, <1>3, <1>4
<1>7. ASSUME NEW n \in Node PROVE q.prev[q.next[n]] = n /\ q.next[q.prev[n]] = n
  <2>1. CASE n = x
    BY <1>6, <2>1
  <2>2. CASE n # x
    <3>1. q.prev[q.next[n]] = n
      BY <1>1, <1>2, <1>3, <1>6, <2>2
    <3>2. q.next[q.prev[n]] = n
      BY <1>1, <1>2, <1>3, <1>6, <2>2
    <3> QED
      BY <3>1, <3>2
  <2> QED
    BY <2>1, <2>2
<1>8. q \in Heap /\ Rings(q)
  BY <1>4, <1>5, <1>7 DEF Heap, Rings
<1>9. \A y \in Node \ {x} : q.next[y] = IF r.next[y] = x THEN r.next[x] ELSE r.next[y]
  BY <1>3, <1>6
<1> QED
  BY <1>6, <1>8, <1>9 DEF q

-----------------------------------------------------------------------------
(* The search of rt_timer_start.                                           *)

\* Where the search stops: at the first node that is later, or at the end.
IsStop(list, t, i) ==
    /\ \A j \in 1 .. i - 1 : ~Later(timeout_tick[list[j]], t)
    /\ i <= Len(list) => Later(timeout_tick[list[i]], t)

LEMMA SearchStops ==
  ASSUME NEW list, Len(list) \in Nat, NEW t
  PROVE  \E i \in 1 .. Len(list) + 1 : IsStop(list, t, i)
<1> DEFINE Stops == {i \in 1 .. Len(list) + 1 :
                       i <= Len(list) => Later(timeout_tick[list[i]], t)}
<1>1. Stops \in SUBSET Nat /\ Len(list) + 1 \in Stops
  OBVIOUS
<1>2. PICK i \in Stops : \A k \in Stops : i <= k
  <2> HIDE DEF Stops
  <2> QED
    BY <1>1, LeastOf
<1>3. ASSUME NEW j \in 1 .. i - 1 PROVE ~Later(timeout_tick[list[j]], t)
  <2>1. j \in 1 .. Len(list) /\ ~(i <= j)
    OBVIOUS
  <2> QED
    BY <1>2, <2>1
<1> QED
  BY <1>2, <1>3 DEF IsStop

\* It stops at the head or at a timer that is linked.
LEMMA RowHeadIsLinked ==
  ASSUME NEW r \in Heap, Rings(r), NEW t
  PROVE  /\ RowHead(r, t) \in Node
         /\ RowHead(r, t) = rt_timer_list \/ r.next[RowHead(r, t)] # RowHead(r, t)
<1> DEFINE list == Elements(r, rt_timer_list)
           k == CHOOSE i \in 1 .. Len(list) + 1 : IsStop(list, t, i)
<1>1. /\ Len(list) \in Nat
      /\ \A i \in 1 .. Len(list) : list[i] \in Node /\ r.next[list[i]] # list[i]
  BY NodesFinite, ElementsOfRing
<1>2. RowHead(r, t) = IF k = 1 THEN rt_timer_list ELSE list[k - 1]
  BY DEF RowHead, IsStop
<1> HIDE DEF list
<1>3. k \in 1 .. Len(list) + 1
  BY <1>1, SearchStops
<1> HIDE DEF k
<1>4. k # 1 => k - 1 \in 1 .. Len(list)
  BY <1>1, <1>3
<1> QED
  BY <1>1, <1>2, <1>4, NodesFinite

\* Second critical section of rt_timer_start, of a timer in no list.
LEMMA Inserted ==
  ASSUME NEW r \in Heap, Rings(r), NEW x \in Timer, r.next[x] = x, NEW t
  PROVE  LET q == Insert(r, x, t) IN
         /\ q \in Heap /\ Rings(q) /\ q.next[x] # x
         /\ \A y \in Timer \ {x} : q.next[y] # y <=> r.next[y] # y
<1> DEFINE l == RowHead(r, t)
           q == Insert(r, x, t)
<1>1. /\ x \in Node /\ x # rt_timer_list /\ l \in Node
      /\ l = rt_timer_list \/ r.next[l] # l
  BY RowHeadIsLinked, NodesFinite, TimerAssumption
<1> HIDE DEF l
<1>2. l # x
  BY <1>1
<1>3. q = rt_list_insert_after(r, l, x)
  BY DEF Insert, l
<1> HIDE DEF q
<1>4. /\ q \in Heap /\ Rings(q)
      /\ q.next[l] = x /\ q.next[x] = r.next[l] /\ r.next[l] # x
      /\ \A y \in Node \ {x, l} : q.next[y] = r.next[y] /\ r.next[y] # x
  BY <1>1, <1>2, <1>3, LinkedIn
<1>5. ASSUME NEW y \in Timer \ {x} PROVE q.next[y] # y <=> r.next[y] # y
  <2>1. CASE y = l
    BY <1>1, <1>2, <1>4, <2>1, TimerAssumption
  <2>2. CASE y # l
    BY <1>4, <2>2, NodesFinite
  <2> QED
    BY <2>1, <2>2
<1> QED
  BY <1>4, <1>5 DEF q

\* _rt_timer_remove, of a timer that may be in no list.
LEMMA Removed ==
  ASSUME NEW r \in Heap, Rings(r), NEW x \in Timer
  PROVE  LET q == rt_list_remove(r, x) IN
         /\ q \in Heap /\ Rings(q) /\ q.next[x] = x
         /\ \A y \in Timer : q.next[y] # y => r.next[y] # y
<1> DEFINE q == rt_list_remove(r, x)
<1>1. /\ q \in Heap /\ Rings(q) /\ q.next[x] = x
      /\ \A y \in Node \ {x} : q.next[y] = IF r.next[y] = x THEN r.next[x] ELSE r.next[y]
  BY LinkedOut, NodesFinite
<1> QED
  BY <1>1, NodesFinite

-----------------------------------------------------------------------------
(* Types.                                                                  *)

\* The timers that calls work on.
Places ==
    /\ \A t \in Thread : pc[t].at # "user" => pc[t].timer \in Timer
    /\ isr.at \in {"callback", "called"} => isr.timer \in Timer

\* A timer that a rt_timer_start has unlinked is in no list until it is inserted.
Starting(t) == pc[t].at \in {"start_tick", "start_insert"}
StartsApart ==
    \A t \in Thread : Starting(t) =>
        /\ <<"start", pc[t].timer>> \in Api[t]
        /\ ~Pending(pc[t].timer)
        /\ isr.at \in {"callback", "called"} => isr.timer # pc[t].timer

Linked == Rings(ring)
ListSound == TimerTypeOK /\ Linked /\ Places /\ StartsApart

\* A tick number, computed in rt_tick_t.
LEMMA TickNumber == \A a \in Int : a % TickRange \in 0 .. RT_TICK_MAX
BY TimerAssumption DEF RT_TICK_MAX

LEMMA TickTypes ==
  /\ TickRange \in Nat /\ RT_TICK_MAX \in Nat /\ MaxTime \in Nat /\ 0 \in 0 .. RT_TICK_MAX
  /\ \A x \in Timer : Time[x] \subseteq 1 .. MaxTime
BY TimerAssumption DEF RT_TICK_MAX

\* What the steps do to the list, the ticks and the flags.
SoundFields ==
    /\ ring \in Heap /\ Rings(ring)
    /\ timeout_tick \in [Timer -> 0 .. RT_TICK_MAX]
    /\ init_tick \in [Timer -> 1 .. MaxTime]
    /\ flag \in [Timer -> SUBSET Bits]

LEMMA RemoveStep ==
  ASSUME SoundFields, NEW x \in Timer, _rt_timer_remove(x)
  PROVE  /\ ring' \in Heap /\ Rings(ring') /\ timeout_tick' \in [Timer -> 0 .. RT_TICK_MAX]
         /\ ~Pending(x)' /\ \A y \in Timer : Pending(y)' => Pending(y)
         /\ \A y \in Timer : y # x \/ AboutToInsert(x) => timeout_tick'[y] = timeout_tick[y]
<1>1. /\ ring' = rt_list_remove(ring, x)
      /\ timeout_tick' = IF AboutToInsert(x) THEN timeout_tick
                                             ELSE [timeout_tick EXCEPT ![x] = 0]
  BY DEF _rt_timer_remove
<1>2. /\ ring' \in Heap /\ Rings(ring') /\ ring'.next[x] = x
      /\ \A y \in Timer : ring'.next[y] # y => ring.next[y] # y
  BY <1>1, Removed DEF SoundFields
<1> QED
  BY <1>1, <1>2, TickTypes DEF SoundFields, Pending

LEMMA StartNowStep ==
  ASSUME SoundFields, rt_tick \in Int, NEW x \in Timer, StartNow(x)
  PROVE  /\ SoundFields' /\ Pending(x)' /\ \A y \in Timer \ {x} : Pending(y)' => Pending(y)
         /\ flag' = [flag EXCEPT ![x] = @ \cup {"activated"}]
<1> DEFINE t == (rt_tick + init_tick[x]) % TickRange
           r == rt_list_remove(ring, x)
<1>1. /\ ring' = Insert(r, x, t)
      /\ timeout_tick' = [timeout_tick EXCEPT ![x] = t]
      /\ flag' = [flag EXCEPT ![x] = @ \cup {"activated"}]
      /\ init_tick' = init_tick
  BY DEF StartNow
<1>2. init_tick[x] \in Int /\ rt_tick + init_tick[x] \in Int
  BY TickTypes DEF SoundFields
<1>3. t \in 0 .. RT_TICK_MAX
  BY <1>2, TickNumber
<1>4. /\ r \in Heap /\ Rings(r) /\ r.next[x] = x
      /\ \A y \in Timer : r.next[y] # y => ring.next[y] # y
  BY Removed DEF SoundFields
<1> HIDE DEF r, t
<1>5. /\ ring' \in Heap /\ Rings(ring') /\ ring'.next[x] # x
      /\ \A y \in Timer \ {x} : ring'.next[y] # y <=> r.next[y] # y
  BY <1>1, <1>4, Inserted
<1> QED
  BY <1>1, <1>3, <1>4, <1>5 DEF SoundFields, Pending, Bits

LEMMA StopNowStep ==
  ASSUME SoundFields, NEW x \in Timer, StopNow(x)
  PROVE  /\ SoundFields' /\ \A y \in Timer : Pending(y)' => Pending(y)
         /\ flag' = [flag EXCEPT ![x] = @ \ {"activated"}]
         /\ "activated" \in flag[x] => ~Pending(x)'
<1>1. CASE "activated" \in flag[x]
  BY <1>1, RemoveStep DEF StopNow, SoundFields
<1>2. CASE "activated" \notin flag[x]
  BY <1>2 DEF StopNow, SoundFields, Pending
<1> QED
  BY <1>1, <1>2

LEMMA FieldsOf ==
  ASSUME ListSound
  PROVE  /\ SoundFields /\ rt_tick \in Int /\ rt_tick \in 0 .. RT_TICK_MAX
         /\ pc \in [Thread -> [at : Place, timer : Node, flag : SUBSET Bits]]
         /\ isr \in [at : {"none", "check", "callback", "called"}, timer : Node]
         /\ \A t \in Thread : pc[t].timer \in Node
BY TickTypes DEF ListSound, TimerTypeOK, Linked, SoundFields, Heap

\* A step of the tick handler, or none.
LEMMA HandlerKeeps ==
  ASSUME ListSound, SoundFields', rt_tick' \in 0 .. RT_TICK_MAX, pc' = pc,
         isr' \in [at : {"none", "check", "callback", "called"}, timer : Node],
         isr'.at \in {"callback", "called"} =>
            /\ isr'.timer \in Timer
            /\ Pending(isr'.timer) \/ (isr'.timer = isr.timer /\ isr.at \in {"callback", "called"}),
         \A t \in Thread : Starting(t) => (Pending(pc[t].timer)' => Pending(pc[t].timer))
  PROVE  ListSound'
<1>1. TimerTypeOK' /\ Linked' /\ Places'
  BY DEF ListSound, TimerTypeOK, Linked, Places, SoundFields, Heap
<1>2. \A t \in Thread : Starting(t)' <=> Starting(t)
  BY DEF Starting
<1>3. StartsApart'
  BY <1>2 DEF ListSound, StartsApart
<1> QED
  BY <1>1, <1>3 DEF ListSound

\* A step of thread t, which goes to p.
LEMMA ThreadKeeps ==
  ASSUME ListSound, SoundFields', UNCHANGED <<rt_tick, isr>>, isr = NoHandler,
         NEW t \in Thread, NEW p \in [at : Place, timer : Node, flag : SUBSET Bits],
         pc' = [pc EXCEPT ![t] = p],
         p.at # "user" => p.timer \in Timer,
         p.at \in {"start_tick", "start_insert"} => <<"start", p.timer>> \in Api[t] /\ ~Pending(p.timer)',
         \A u \in Thread \ {t}, x \in Timer :
            Starting(u) /\ pc[u].timer = x => (Pending(x)' => Pending(x))
  PROVE  ListSound'
<1>1. pc'[t] = p /\ \A u \in Thread \ {t} : pc'[u] = pc[u]
  BY FieldsOf
<1>2. pc' \in [Thread -> [at : Place, timer : Node, flag : SUBSET Bits]]
  BY FieldsOf
<1>3. TimerTypeOK' /\ Linked'
  BY <1>2 DEF ListSound, TimerTypeOK, Linked, SoundFields, Heap
<1>4. Places'
  BY <1>1 DEF ListSound, Places
<1>5. \A u \in Thread \ {t} : Starting(u)' <=> Starting(u)
  BY <1>1 DEF Starting
<1>6. isr'.at \notin {"callback", "called"}
  BY DEF NoHandler
<1>7. StartsApart'
  <2> SUFFICES ASSUME NEW u \in Thread, Starting(u)'
               PROVE  <<"start", pc'[u].timer>> \in Api[u] /\ ~Pending(pc[u].timer)'
    BY <1>6 DEF StartsApart
  <2>1. CASE u = t
    BY <1>1, <2>1 DEF Starting
  <2>2. CASE u # t
    <3> DEFINE x == pc[u].timer
    <3>1. Starting(u) /\ pc[u].timer \in Timer
      BY <1>5, <2>2 DEF ListSound, Places, Starting
    <3>2. <<"start", x>> \in Api[u] /\ ~Pending(x)
      BY <3>1 DEF ListSound, StartsApart
    <3>3. pc'[u] = pc[u]
      BY <1>1, <2>2
    <3> HIDE DEF x
    <3>4. ~Pending(x)'
      BY <2>2, <3>1, <3>2 DEF x
    <3> QED
      BY <3>2, <3>3, <3>4 DEF x
  <2> QED
    BY <2>1, <2>2
<1> QED
  BY <1>3, <1>4, <1>7 DEF ListSound

-----------------------------------------------------------------------------
(* One lemma for each step.                                                *)

LEMMA TickKeeps ==
  ASSUME ListSound, rt_tick_increase
  PROVE  ListSound'
<1>1. rt_tick' \in 0 .. RT_TICK_MAX
  BY FieldsOf, TickNumber DEF rt_tick_increase
<1>2. SoundFields' /\ pc' = pc /\ \A x \in Timer : Pending(x)' <=> Pending(x)
  BY FieldsOf DEF rt_tick_increase, SoundFields, fields, Pending
<1>3. /\ isr' \in [at : {"none", "check", "callback", "called"}, timer : Node]
      /\ isr'.at = "check"
  BY NodesFinite DEF rt_tick_increase, NoHandler
<1>4. \A t \in Thread : Starting(t) => pc[t].timer \in Timer
  BY DEF ListSound, Places, Starting
<1> QED
  BY <1>1, <1>2, <1>3, <1>4, HandlerKeeps

\* The timers that are about to be started.
LEMMA StartingTimer ==
  ASSUME ListSound, NEW t \in Thread, Starting(t)
  PROVE  pc[t].timer \in Timer /\ <<"start", pc[t].timer>> \in Api[t] /\ ~Pending(pc[t].timer)
BY DEF ListSound, Places, StartsApart, Starting

\* The first timer of a list that is not empty.
LEMMA FirstPending ==
  ASSUME ListSound, ~rt_list_isempty(ring, rt_timer_list)
  PROVE  First \in Timer /\ Pending(First)
<1>1. First \in Node /\ First # rt_timer_list /\ ring.prev[First] = rt_timer_list
  BY FieldsOf, NodesFinite DEF First, rt_list_isempty, SoundFields, Heap, Rings
<1>2. First \in Timer
  BY <1>1 DEF Node
<1>3. ring.next[First] # First
  BY <1>1, <1>2, FieldsOf, NodesFinite DEF SoundFields, Heap, Rings
<1> QED
  BY <1>2, <1>3 DEF Pending

LEMMA CheckKeeps ==
  ASSUME ListSound, rt_timer_check
  PROVE  ListSound'
<1>1. UNCHANGED <<rt_tick, init_tick, flag, pc>>
  BY DEF rt_timer_check
<1>2. PICK x \in Timer :
        /\ Pending(x) /\ _rt_timer_remove(x)
        /\ isr' = [at |-> "callback", timer |-> x]
  BY FirstPending DEF rt_timer_check, FirstExpired
<1>3. SoundFields' /\ \A y \in Timer : Pending(y)' => Pending(y)
  BY <1>1, <1>2, FieldsOf, RemoveStep DEF SoundFields
<1>4. \A t \in Thread : Starting(t) => pc[t].timer \in Timer /\ pc[t].timer # x
  BY <1>2, StartingTimer
<1>5. isr'.at = "callback" /\ isr'.timer = x
  BY <1>2
<1>6. rt_tick' \in 0 .. RT_TICK_MAX /\ pc' = pc
  BY <1>1, FieldsOf
<1>7. isr' \in [at : {"none", "check", "callback", "called"}, timer : Node]
  BY <1>2, NodesFinite
<1> QED
  BY <1>2, <1>3, <1>4, <1>5, <1>6, <1>7, HandlerKeeps

LEMMA CallbackKeeps ==
  ASSUME StartsAlone, ListSound, timeout_func
  PROVE  ListSound'
<1> DEFINE x == isr.timer
<1>1. /\ x \in Timer /\ isr.at = "callback"
      /\ isr' = [isr EXCEPT !.at = "called"]
      /\ UNCHANGED <<rt_tick, pc>>
  BY DEF timeout_func, ListSound, Places
<1>2. /\ isr' \in [at : {"none", "check", "callback", "called"}, timer : Node]
      /\ isr'.at = "called" /\ isr'.timer = x
  BY <1>1, FieldsOf
<1>3. /\ SoundFields'
      /\ \A t \in Thread : Starting(t) => (Pending(pc[t].timer)' => Pending(pc[t].timer))
  <2>1. CASE UNCHANGED <<ring, fields>>
    BY <1>1, <2>1, FieldsOf DEF SoundFields, fields, Pending
  <2>2. ASSUME NEW y \in Timer, <<"start", y>> \in Callback[x], StartNow(y)
        PROVE  <1>3!1 /\ <1>3!2
    <3>1. SoundFields' /\ \A z \in Timer \ {y} : Pending(z)' => Pending(z)
      BY <2>2, FieldsOf, StartNowStep
    <3>2. \A t \in Thread : Starting(t) => pc[t].timer \in Timer /\ pc[t].timer # y
      BY <1>1, <2>2, StartingTimer DEF StartsAlone
    <3> QED
      BY <1>1, <3>1, <3>2
  <2>3. ASSUME NEW y \in Timer, StopNow(y)
        PROVE  <1>3!1 /\ <1>3!2
    BY <1>1, <2>3, FieldsOf, StopNowStep, StartingTimer
  <2> QED
    BY <2>1, <2>2, <2>3 DEF timeout_func
<1>4. rt_tick' \in 0 .. RT_TICK_MAX /\ pc' = pc
  BY <1>1, FieldsOf
<1> QED
  BY <1>1, <1>2, <1>3, <1>4, HandlerKeeps

LEMMA RestartKeeps ==
  ASSUME ListSound, RestartPeriodic
  PROVE  ListSound'
<1> DEFINE x == isr.timer
<1>1. /\ x \in Timer /\ isr.at = "called" /\ StartNow(x)
      /\ isr' = [NoHandler EXCEPT !.at = "check"]
      /\ rt_tick' = rt_tick /\ pc' = pc
  BY DEF RestartPeriodic, ListSound, Places
<1>2. SoundFields' /\ \A z \in Timer \ {x} : Pending(z)' => Pending(z)
  BY <1>1, FieldsOf, StartNowStep
<1>3. \A t \in Thread : Starting(t) => pc[t].timer \in Timer /\ pc[t].timer # x
  BY <1>1, StartingTimer DEF ListSound, StartsApart
<1>4. /\ isr' \in [at : {"none", "check", "callback", "called"}, timer : Node]
      /\ isr'.at = "check"
  BY <1>1, NodesFinite DEF NoHandler
<1> QED
  BY <1>1, <1>2, <1>3, <1>4, FieldsOf, HandlerKeeps

LEMMA StopOneShotKeeps ==
  ASSUME ListSound, StopOneShot
  PROVE  ListSound'
<1>1. SoundFields' /\ \A x \in Timer : Pending(x)' <=> Pending(x)
  BY FieldsOf DEF StopOneShot, SoundFields, Pending
<1>2. /\ isr' \in [at : {"none", "check", "callback", "called"}, timer : Node]
      /\ isr'.at = "check" /\ rt_tick' = rt_tick /\ pc' = pc
  BY NodesFinite DEF StopOneShot, NoHandler
<1> QED
  BY <1>1, <1>2, StartingTimer, FieldsOf, HandlerKeeps

LEMMA DoneKeeps ==
  ASSUME ListSound, CheckDone
  PROVE  ListSound'
<1>1. SoundFields' /\ \A x \in Timer : Pending(x)' <=> Pending(x)
  BY FieldsOf DEF CheckDone, SoundFields, fields, Pending
<1>2. /\ isr' \in [at : {"none", "check", "callback", "called"}, timer : Node]
      /\ isr'.at = "none" /\ rt_tick' = rt_tick /\ pc' = pc
  BY NodesFinite DEF CheckDone, NoHandler
<1> QED
  BY <1>1, <1>2, StartingTimer, FieldsOf, HandlerKeeps

\* Two threads do not start one timer at a time.
LEMMA OtherTimer ==
  ASSUME StartsAlone, ListSound, NEW t \in Thread, NEW x \in Timer,
         \/ <<"start", x>> \in Api[t] \/ <<"start_masked", x>> \in Api[t]
  PROVE  \A u \in Thread \ {t} : Starting(u) => pc[u].timer \in Timer /\ pc[u].timer # x
BY StartingTimer DEF StartsAlone

LEMMA StartKeeps ==
  ASSUME ListSound, NEW t \in Thread, NEW x \in Timer, rt_timer_start(t, x)
  PROVE  ListSound'
<1> DEFINE p == At("start_tick", x)
<1>1. /\ isr = NoHandler /\ <<"start", x>> \in Api[t] /\ _rt_timer_remove(x)
      /\ flag' = [flag EXCEPT ![x] = @ \ {"activated"}]
      /\ pc' = [pc EXCEPT ![t] = p] /\ UNCHANGED <<rt_tick, init_tick, isr>>
  BY DEF rt_timer_start, Calls, Free, Goto
<1>2. SoundFields' /\ ~Pending(x)' /\ \A y \in Timer : Pending(y)' => Pending(y)
  BY <1>1, FieldsOf, RemoveStep DEF SoundFields
<1>3. /\ p \in [at : Place, timer : Node, flag : SUBSET Bits]
      /\ p.at = "start_tick" /\ p.timer = x
  BY NodesFinite DEF At, Place
<1> HIDE DEF p
<1> QED
  BY <1>1, <1>2, <1>3, StartingTimer, ThreadKeeps

LEMMA StartTickKeeps ==
  ASSUME ListSound, NEW t \in Thread, StartTick(t)
  PROVE  ListSound'
<1> DEFINE x == pc[t].timer
           p == At("start_insert", x)
<1>1. /\ isr = NoHandler /\ Starting(t)
      /\ timeout_tick' = [timeout_tick EXCEPT ![x] = (rt_tick + init_tick[x]) % TickRange]
      /\ pc' = [pc EXCEPT ![t] = p]
      /\ UNCHANGED <<rt_tick, ring, init_tick, flag, isr>>
  BY DEF StartTick, AtPlace, Free, Goto, Starting
<1>2. x \in Timer /\ <<"start", x>> \in Api[t] /\ ~Pending(x)
  BY <1>1, StartingTimer
<1>3. p \in [at : Place, timer : Node, flag : SUBSET Bits] /\ p.timer = x
  BY <1>2, NodesFinite DEF At, Place
<1>4. (rt_tick + init_tick[x]) % TickRange \in 0 .. RT_TICK_MAX
  BY <1>2, FieldsOf, TickTypes, TickNumber DEF SoundFields
<1> HIDE DEF p, x
<1>5. SoundFields' /\ \A y \in Timer : Pending(y)' <=> Pending(y)
  BY <1>1, <1>2, <1>4, FieldsOf DEF SoundFields, Pending
<1> QED
  BY <1>1, <1>2, <1>3, <1>5, StartingTimer, ThreadKeeps

LEMMA UserPlace ==
  /\ User \in [at : Place, timer : Node, flag : SUBSET Bits] /\ User.at = "user"
BY NodesFinite DEF User, Place

LEMMA StartInsertKeeps ==
  ASSUME StartsAlone, ListSound, NEW t \in Thread, StartInsert(t)
  PROVE  ListSound'
<1> DEFINE x == pc[t].timer
<1>1. /\ isr = NoHandler /\ Starting(t)
      /\ ring' = Insert(ring, x, timeout_tick[x])
      /\ flag' = [flag EXCEPT ![x] = @ \cup {"activated"}]
      /\ pc' = [pc EXCEPT ![t] = User]
      /\ UNCHANGED <<rt_tick, timeout_tick, init_tick, isr>>
  BY DEF StartInsert, AtPlace, Free, Goto, Starting
<1>2. x \in Timer /\ <<"start", x>> \in Api[t] /\ ~Pending(x)
  BY <1>1, StartingTimer
<1> HIDE DEF x
<1>3. /\ ring' \in Heap /\ Rings(ring')
      /\ \A y \in Timer \ {x} : Pending(y)' <=> Pending(y)
  BY <1>1, <1>2, FieldsOf, Inserted DEF SoundFields, Pending
<1>4. SoundFields'
  BY <1>1, <1>3, FieldsOf DEF SoundFields, Bits
<1> QED
  BY <1>1, <1>2, <1>3, <1>4, OtherTimer, UserPlace, ThreadKeeps

LEMMA MaskedKeeps ==
  ASSUME StartsAlone, ListSound, NEW t \in Thread, NEW x \in Timer, StartMasked(t, x)
  PROVE  ListSound'
<1>1. /\ isr = NoHandler /\ pc[t] = User /\ <<"start_masked", x>> \in Api[t] /\ StartNow(x)
      /\ UNCHANGED <<rt_tick, pc, isr>>
  BY DEF StartMasked, Calls, Free
<1>2. SoundFields' /\ \A y \in Timer \ {x} : Pending(y)' => Pending(y)
  BY <1>1, FieldsOf, StartNowStep
<1>3. pc' = [pc EXCEPT ![t] = User]
  BY <1>1, FieldsOf
<1>4. \A y \in Thread \ {t} : Starting(y) => pc[y].timer # x
  BY <1>1, OtherTimer
<1>5. isr = NoHandler /\ UNCHANGED <<rt_tick, isr>>
  BY <1>1
<1> QED
  BY <1>2, <1>3, <1>4, <1>5, UserPlace, ThreadKeeps

LEMMA StopKeeps ==
  ASSUME ListSound, NEW t \in Thread, NEW x \in Timer, rt_timer_stop(t, x)
  PROVE  ListSound'
<1> DEFINE p == At("stop_remove", x)
<1>1. /\ isr = NoHandler /\ pc' = [pc EXCEPT ![t] = p]
      /\ UNCHANGED <<rt_tick, ring, fields, isr>>
  BY DEF rt_timer_stop, Calls, Free, Goto
<1>2. SoundFields' /\ \A y \in Timer : Pending(y)' <=> Pending(y)
  BY <1>1, FieldsOf DEF SoundFields, fields, Pending
<1>3. /\ p \in [at : Place, timer : Node, flag : SUBSET Bits]
      /\ p.at = "stop_remove" /\ p.timer = x
  BY NodesFinite DEF At, Place
<1> HIDE DEF p
<1> QED
  BY <1>1, <1>2, <1>3, StartingTimer, ThreadKeeps

LEMMA StopRemoveKeeps ==
  ASSUME ListSound, NEW t \in Thread, StopRemove(t)
  PROVE  ListSound'
<1> DEFINE x == pc[t].timer
           p == At("stop_clear", x)
<1>1. /\ isr = NoHandler /\ x \in Timer /\ _rt_timer_remove(x)
      /\ pc' = [pc EXCEPT ![t] = p] /\ UNCHANGED <<rt_tick, init_tick, flag, isr>>
  BY DEF StopRemove, AtPlace, Free, Goto, ListSound, Places
<1>2. SoundFields' /\ \A y \in Timer : Pending(y)' => Pending(y)
  BY <1>1, FieldsOf, RemoveStep DEF SoundFields
<1>3. /\ p \in [at : Place, timer : Node, flag : SUBSET Bits]
      /\ p.at = "stop_clear" /\ p.timer = x
  BY <1>1, NodesFinite DEF At, Place
<1> HIDE DEF p, x
<1> QED
  BY <1>1, <1>2, <1>3, StartingTimer, ThreadKeeps

LEMMA StopClearKeeps ==
  ASSUME ListSound, NEW t \in Thread, StopClear(t)
  PROVE  ListSound'
<1> DEFINE x == pc[t].timer
           f == flag[x] \ {"activated"}
           p == [At("set_flag", x) EXCEPT !.flag = f]
<1>1. /\ isr = NoHandler /\ x \in Timer /\ pc' = [pc EXCEPT ![t] = p]
      /\ UNCHANGED <<rt_tick, ring, fields, isr>>
  BY DEF StopClear, AtPlace, Free, Goto, ListSound, Places
<1>2. SoundFields' /\ \A y \in Timer : Pending(y)' <=> Pending(y)
  BY <1>1, FieldsOf DEF SoundFields, fields, Pending
<1>3. f \in SUBSET Bits
  BY <1>1, FieldsOf DEF SoundFields
<1>4. p = [at |-> "set_flag", timer |-> x, flag |-> f]
  BY DEF At
<1>5. /\ p \in [at : Place, timer : Node, flag : SUBSET Bits]
      /\ p.at = "set_flag" /\ p.timer = x
  BY <1>1, <1>3, <1>4, NodesFinite DEF Place
<1> HIDE DEF p, x
<1> QED
  BY <1>1, <1>2, <1>5, StartingTimer, ThreadKeeps

LEMMA DetachKeeps ==
  ASSUME ListSound, NEW t \in Thread, NEW x \in Timer, rt_timer_detach(t, x)
  PROVE  ListSound'
<1>1. /\ isr = NoHandler /\ pc[t] = User /\ _rt_timer_remove(x)
      /\ UNCHANGED <<rt_tick, init_tick, flag, pc, isr>>
  BY DEF rt_timer_detach, Calls, Free
<1>2. SoundFields' /\ \A y \in Timer : Pending(y)' => Pending(y)
  BY <1>1, FieldsOf, RemoveStep DEF SoundFields
<1>3. pc' = [pc EXCEPT ![t] = User]
  BY <1>1, FieldsOf
<1> QED
  BY <1>1, <1>2, <1>3, StartingTimer, UserPlace, ThreadKeeps

LEMMA SetTimeKeeps ==
  ASSUME ListSound, NEW t \in Thread, NEW x \in Timer, SetTime(t, x)
  PROVE  ListSound'
<1>1. /\ isr = NoHandler /\ pc[t] = User
      /\ UNCHANGED <<rt_tick, ring, timeout_tick, flag, pc, isr>>
  BY DEF SetTime, Calls, Free
<1>2. PICK d \in Time[x] : init_tick' = [init_tick EXCEPT ![x] = d]
  BY DEF SetTime
<1>3. d \in 1 .. MaxTime
  BY TickTypes
<1>4. SoundFields' /\ \A y \in Timer : Pending(y)' <=> Pending(y)
  BY <1>1, <1>2, <1>3, FieldsOf DEF SoundFields, Pending
<1>5. pc' = [pc EXCEPT ![t] = User]
  BY <1>1, FieldsOf
<1> QED
  BY <1>1, <1>4, <1>5, StartingTimer, UserPlace, ThreadKeeps

LEMMA SetModeKeeps ==
  ASSUME ListSound, NEW t \in Thread, NEW x \in Timer, SetMode(t, x)
  PROVE  ListSound'
<1>1. PICK f \in {flag[x] \ {"periodic"}, flag[x] \cup {"periodic"}} :
        pc' = [pc EXCEPT ![t] = [At("set_flag", x) EXCEPT !.flag = f]]
  BY DEF SetMode, Goto
<1> DEFINE p == [At("set_flag", x) EXCEPT !.flag = f]
<1>2. isr = NoHandler /\ UNCHANGED <<rt_tick, ring, fields, isr>>
  BY DEF SetMode, Calls, Free
<1>3. SoundFields' /\ \A y \in Timer : Pending(y)' <=> Pending(y)
  BY <1>2, FieldsOf DEF SoundFields, fields, Pending
<1>4. f \in SUBSET Bits
  BY FieldsOf DEF SoundFields, Bits
<1>5. p = [at |-> "set_flag", timer |-> x, flag |-> f]
  BY DEF At
<1>6. /\ p \in [at : Place, timer : Node, flag : SUBSET Bits]
      /\ p.at = "set_flag" /\ p.timer = x
  BY <1>4, <1>5, NodesFinite DEF Place
<1> HIDE DEF p
<1>7. pc' = [pc EXCEPT ![t] = p]
  BY <1>1 DEF p
<1> QED
  BY <1>2, <1>3, <1>6, <1>7, StartingTimer, ThreadKeeps

LEMMA SetFlagKeeps ==
  ASSUME ListSound, NEW t \in Thread, SetFlag(t)
  PROVE  ListSound'
<1>1. /\ isr = NoHandler /\ pc' = [pc EXCEPT ![t] = User]
      /\ flag' = [flag EXCEPT ![pc[t].timer] = pc[t].flag]
      /\ UNCHANGED <<rt_tick, ring, timeout_tick, init_tick, isr>>
  BY DEF SetFlag, AtPlace, Free, Goto
<1>2. pc[t].flag \in SUBSET Bits
  BY FieldsOf
<1>3. SoundFields' /\ \A y \in Timer : Pending(y)' <=> Pending(y)
  BY <1>1, <1>2, FieldsOf DEF SoundFields, Pending
<1> QED
  BY <1>1, <1>3, StartingTimer, UserPlace, ThreadKeeps

LEMMA ListStep ==
  ASSUME StartsAlone, ListSound, [TimerNext]_timerVars
  PROVE  ListSound'
<1>1. CASE rt_tick_increase
  BY <1>1, TickKeeps
<1>2. CASE Handler
  BY <1>2, CheckKeeps, CallbackKeeps, RestartKeeps, StopOneShotKeeps, DoneKeeps DEF Handler
<1>3. ASSUME NEW t \in Thread, TimerCall(t) PROVE ListSound'
  <2>1. ASSUME NEW x \in Timer,
               \/ rt_timer_start(t, x) \/ StartMasked(t, x) \/ rt_timer_stop(t, x)
               \/ rt_timer_detach(t, x) \/ SetTime(t, x) \/ SetMode(t, x)
        PROVE  ListSound'
    BY <2>1, StartKeeps, MaskedKeeps, StopKeeps, DetachKeeps, SetTimeKeeps, SetModeKeeps
  <2> QED
    BY <1>3, <2>1, StartTickKeeps, StartInsertKeeps, StopRemoveKeeps, StopClearKeeps,
       SetFlagKeeps DEF TimerCall
<1>4. CASE UNCHANGED timerVars
  BY <1>4 DEF timerVars, fields, ListSound, TimerTypeOK, Linked, Places, StartsApart,
     Starting, Pending
<1> QED
  BY <1>1, <1>2, <1>3, <1>4 DEF TimerNext

LEMMA ListStarts ==
  ASSUME TimerInit
  PROVE  ListSound
<1>1. SoundFields /\ \A x \in Timer : ~Pending(x)
  <2>1. ring = [next |-> [n \in Node |-> n], prev |-> [n \in Node |-> n]]
    BY DEF TimerInit, rt_list_init
  <2>2. ring \in Heap /\ Rings(ring) /\ \A x \in Timer : ~Pending(x)
    BY <2>1, NodesFinite DEF Heap, Rings, Pending
  <2> QED
    BY <2>2, TickTypes DEF TimerInit, SoundFields, Bits
<1>2. pc = [t \in Thread |-> User] /\ isr = NoHandler /\ rt_tick \in 0 .. RT_TICK_MAX
  BY TickTypes DEF TimerInit
<1>3. /\ pc \in [Thread -> [at : Place, timer : Node, flag : SUBSET Bits]]
      /\ isr \in [at : {"none", "check", "callback", "called"}, timer : Node]
      /\ isr.at = "none" /\ \A t \in Thread : pc[t].at = "user"
  BY <1>2, UserPlace, NodesFinite DEF NoHandler
<1> QED
  BY <1>1, <1>2, <1>3 DEF ListSound, TimerTypeOK, Linked, SoundFields, Heap, Places,
     StartsApart, Starting

LEMMA ListInvariant ==
  ASSUME StartsAlone
  PROVE  TimerSpec => []ListSound
<1>1. TimerInit => ListSound
  BY ListStarts
<1>2. ListSound /\ [TimerNext]_timerVars => ListSound'
  BY ListStep
<1> QED
  BY <1>1, <1>2, PTL DEF TimerSpec

\* Whatever the threads, the tick and the time-out functions do with them, the
\* fields of the timers have their types (timer.c:50-179).
THEOREM TimersTyped ==
  ASSUME StartsAlone
  PROVE  TimerSpec => []TimerTypeOK
BY ListInvariant, PTL DEF ListSound

-----------------------------------------------------------------------------
(* What is pending can be stopped.                                         *)

LEMMA OwnersStartAlone ==
  ASSUME OwnTimers
  PROVE  StartsAlone
<1> SUFFICES ASSUME NEW t \in Thread, NEW x \in Timer, <<"start", x>> \in Api[t]
             PROVE  /\ \A u \in Thread \ {t} :
                         {<<"start", x>>, <<"start_masked", x>>} \cap Api[u] = {}
                    /\ \A y \in Timer : <<"start", x>> \notin Callback[y]
  BY DEF StartsAlone
<1>1. \A u \in Thread : <<"start", x>> \in Api[u] \/ <<"start_masked", x>> \in Api[u] => Uses(u, x)
  BY DEF Uses, Op
<1>2. \A u \in Thread \ {t} : ~Uses(u, x)
  BY <1>1 DEF OwnTimers
<1>3. \A y \in Timer : <<"start", x>> \notin Callback[y]
  BY DEF OwnTimers
<1> QED
  BY <1>1, <1>2, <1>3

\* The tick handler has taken timer x out of the list.
Held(x) == isr.at \in {"callback", "called"} /\ isr.timer = x
Busy(x) == Pending(x) \/ Held(x)

\* The call that thread t is in when it is at place p.
InCall(t, p) ==
    \/ p.at = "user"
    \/ p.at \in {"start_tick", "start_insert"} /\ <<"start", p.timer>> \in Api[t]
    \/ p.at \in {"stop_remove", "stop_clear"} /\ <<"stop", p.timer>> \in Api[t]
    \/ /\ p.at = "set_flag"
       /\ \E op \in {"stop", "set_oneshot", "set_periodic"} : <<op, p.timer>> \in Api[t]

\* What a pending timer is, while calls and the handler are under way.
Marked == \A x \in Timer : Pending(x) => "activated" \in flag[x]
CallsMade == \A t \in Thread : InCall(t, pc[t])
TakenOut ==
    \A t \in Thread : pc[t].at \in {"start_tick", "start_insert", "stop_clear"} =>
        ~Busy(pc[t].timer)
SavedFlag ==
    \A t \in Thread : pc[t].at = "set_flag" /\ Busy(pc[t].timer) => "activated" \in pc[t].flag
HandlerTimer ==
    /\ isr.at = "callback" => ~Pending(isr.timer)
    /\ isr.at = "called" /\ Pending(isr.timer) => "periodic" \in flag[isr.timer]
SelfStarters == \A x \in Timer : <<"start", x>> \in Callback[x] => "periodic" \in flag[x]

StopSound ==
    Marked /\ CallsMade /\ TakenOut /\ SavedFlag /\ HandlerTimer /\ SelfStarters

LEMMA CallUses ==
  ASSUME StopSound, NEW t \in Thread, pc[t].at # "user"
  PROVE  Uses(t, pc[t].timer)
BY DEF StopSound, CallsMade, InCall, Uses, Op

\* A step of the tick handler, or none.
LEMMA HandlerKeepsCalls ==
  ASSUME StopSound, pc' = pc,
         \A t \in Thread : pc[t].at # "user" => (Busy(pc[t].timer)' => Busy(pc[t].timer))
  PROVE  CallsMade' /\ TakenOut' /\ SavedFlag'
<1>1. CallsMade'
  BY DEF StopSound, CallsMade, InCall
<1>2. TakenOut'
  BY DEF StopSound, TakenOut
<1>3. SavedFlag'
  BY DEF StopSound, SavedFlag
<1> QED
  BY <1>1, <1>2, <1>3

\* A step of thread t, which goes to p.
LEMMA ThreadKeepsCalls ==
  ASSUME ListSound, StopSound, UNCHANGED isr, isr = NoHandler,
         NEW t \in Thread, NEW p, pc' = [pc EXCEPT ![t] = p], InCall(t, p),
         p.at \in {"start_tick", "start_insert", "stop_clear"} => ~Pending(p.timer)',
         p.at = "set_flag" => (Pending(p.timer)' => "activated" \in p.flag),
         \A u \in Thread \ {t}, x \in Timer :
            pc[u].at # "user" /\ pc[u].timer = x => (Pending(x)' => Pending(x))
  PROVE  CallsMade' /\ TakenOut' /\ SavedFlag' /\ HandlerTimer'
<1>1. pc'[t] = p /\ \A u \in Thread \ {t} : pc'[u] = pc[u]
  BY FieldsOf
<1>2. isr.at = "none" /\ isr'.at = "none"
  BY DEF NoHandler
<1>3. \A x : (Busy(x) <=> Pending(x)) /\ (Busy(x)' <=> Pending(x)')
  BY <1>2 DEF Busy, Held
<1>4. CallsMade'
  <2> SUFFICES ASSUME NEW u \in Thread PROVE InCall(u, pc'[u])
    BY DEF CallsMade, InCall
  <2> QED
    BY <1>1 DEF StopSound, CallsMade
<1>5. ASSUME NEW u \in Thread, pc'[u].at # "user"
      PROVE  /\ pc'[u].at \in {"start_tick", "start_insert", "stop_clear"} =>
                  ~Pending(pc[u].timer)'
             /\ pc'[u].at = "set_flag" => (Pending(pc[u].timer)' => "activated" \in pc'[u].flag)
  <2>1. CASE u = t
    BY <1>1, <2>1
  <2>2. CASE u # t
    <3> DEFINE x == pc[u].timer
    <3>1. pc'[u] = pc[u] /\ pc[u].at # "user" /\ x \in Timer
      BY <1>1, <1>5, <2>2 DEF ListSound, Places
    <3>2. /\ pc[u].at \in {"start_tick", "start_insert", "stop_clear"} => ~Pending(x)
          /\ pc[u].at = "set_flag" /\ Pending(x) => "activated" \in pc[u].flag
      BY <1>3, <3>1 DEF StopSound, TakenOut, SavedFlag
    <3> HIDE DEF x
    <3>3. Pending(x)' => Pending(x)
      BY <2>2, <3>1 DEF x
    <3> QED
      BY <3>1, <3>2, <3>3 DEF x
  <2> QED
    BY <2>1, <2>2
<1>6. TakenOut' /\ SavedFlag'
  BY <1>3, <1>5 DEF TakenOut, SavedFlag
<1> QED
  BY <1>2, <1>4, <1>6 DEF HandlerTimer

\* Steps that start nothing and change no flag but, maybe, take "activated"
\* from timers that are in no list.
LEMMA FlagsKept ==
  ASSUME StopSound,
         \A x \in Timer : Pending(x)' => Pending(x) /\ flag'[x] = flag[x],
         \A x \in Timer : "periodic" \in flag[x] => "periodic" \in flag'[x]
  PROVE  Marked' /\ SelfStarters'
BY DEF StopSound, Marked, SelfStarters

\* The step of a timer that starts.
LEMMA MarkedByStart ==
  ASSUME StopSound, SoundFields, NEW x \in Timer,
         flag' = [flag EXCEPT ![x] = @ \cup {"activated"}],
         \A y \in Timer \ {x} : Pending(y)' => Pending(y)
  PROVE  Marked' /\ SelfStarters'
BY DEF StopSound, Marked, SelfStarters, SoundFields

LEMMA TickKeepsStops ==
  ASSUME ListSound, StopSound, rt_tick_increase
  PROVE  StopSound'
<1>1. /\ isr = NoHandler /\ isr' = [NoHandler EXCEPT !.at = "check"]
      /\ UNCHANGED <<ring, flag, pc>>
  BY DEF rt_tick_increase, fields
<1>2. isr.at = "none" /\ isr'.at = "check"
  BY <1>1 DEF NoHandler
<1>3. \A x : (Busy(x)' => Busy(x)) /\ (Pending(x)' <=> Pending(x))
  BY <1>1, <1>2 DEF Busy, Held, Pending
<1>4. HandlerTimer'
  BY <1>2 DEF HandlerTimer
<1> QED
  BY <1>1, <1>3, <1>4, HandlerKeepsCalls, FlagsKept DEF StopSound

LEMMA CheckKeepsStops ==
  ASSUME ListSound, StopSound, rt_timer_check
  PROVE  StopSound'
<1>1. PICK x \in Timer :
        /\ Pending(x) /\ _rt_timer_remove(x)
        /\ isr' = [at |-> "callback", timer |-> x]
        /\ UNCHANGED <<init_tick, flag, pc>>
  BY FirstPending DEF rt_timer_check, FirstExpired
<1>2. ~Pending(x)' /\ \A y \in Timer : Pending(y)' => Pending(y)
  BY <1>1, FieldsOf, RemoveStep
<1>3. \A y \in Timer : Busy(y)' => Busy(y)
  BY <1>1, <1>2 DEF Busy, Held
<1>4. HandlerTimer'
  BY <1>1, <1>2 DEF HandlerTimer
<1>5. CallsMade' /\ TakenOut' /\ SavedFlag'
  BY <1>1, <1>3, HandlerKeepsCalls DEF ListSound, Places
<1>6. Marked' /\ SelfStarters'
  BY <1>1, <1>2, FlagsKept
<1> QED
  BY <1>4, <1>5, <1>6 DEF StopSound

LEMMA CallbackKeepsStops ==
  ASSUME OwnTimers, ListSound, StopSound, timeout_func
  PROVE  StopSound'
<1> DEFINE x == isr.timer
<1>1. /\ x \in Timer /\ isr.at = "callback" /\ ~Pending(x) /\ pc' = pc
      /\ isr' = [isr EXCEPT !.at = "called"]
  BY DEF timeout_func, ListSound, Places, StopSound, HandlerTimer
<1>2. isr'.at = "called" /\ isr'.timer = x
  BY <1>1, FieldsOf
<1>3. \A y : Busy(y)' <=> Pending(y)' \/ y = x
  BY <1>2 DEF Busy, Held
<1>4. \A y : Busy(y) <=> Pending(y) \/ y = x
  BY <1>1 DEF Busy, Held
<1> HIDE DEF x
<1>5. CASE UNCHANGED <<ring, fields>>
  <2>1. \A y : Pending(y)' <=> Pending(y)
    BY <1>5 DEF Pending
  <2>2. HandlerTimer'
    BY <1>1, <1>2, <2>1 DEF HandlerTimer
  <2>3. Marked' /\ SelfStarters'
    BY <1>5, <2>1, FlagsKept DEF fields
  <2>4. CallsMade' /\ TakenOut' /\ SavedFlag'
    BY <1>1, <1>3, <1>4, <2>1, HandlerKeepsCalls
  <2> QED
    BY <2>2, <2>3, <2>4 DEF StopSound
<1>6. ASSUME NEW y \in Timer, <<"start", y>> \in Callback[x], StartNow(y)
      PROVE  StopSound'
  <2>1. /\ flag' = [flag EXCEPT ![y] = @ \cup {"activated"}]
        /\ \A z \in Timer \ {y} : Pending(z)' => Pending(z)
    BY <1>6, FieldsOf, StartNowStep
  <2>2. Marked' /\ SelfStarters'
    BY <2>1, FieldsOf, MarkedByStart
  <2>3. HandlerTimer'
    <3>1. CASE x = y
      BY <1>1, <1>2, <1>6, <2>2, <3>1 DEF HandlerTimer, SelfStarters
    <3>2. CASE x # y
      BY <1>1, <1>2, <2>1, <3>2 DEF HandlerTimer
    <3> QED
      BY <3>1, <3>2
  <2>4. \A t \in Thread : pc[t].at # "user" => pc[t].timer \in Timer /\ pc[t].timer # y
    BY <1>1, <1>6 DEF ListSound, Places, StopSound, CallsMade, InCall, OwnTimers
  <2>5. CallsMade' /\ TakenOut' /\ SavedFlag'
    BY <1>1, <1>3, <1>4, <2>1, <2>4, HandlerKeepsCalls
  <2> QED
    BY <2>2, <2>3, <2>5 DEF StopSound
<1>7. ASSUME NEW y \in Timer, StopNow(y)
      PROVE  StopSound'
  <2>1. /\ flag' = [flag EXCEPT ![y] = @ \ {"activated"}]
        /\ \A z \in Timer : Pending(z)' => Pending(z)
        /\ "activated" \in flag[y] => ~Pending(y)'
    BY <1>7, FieldsOf, StopNowStep
  <2>2. ~Pending(y)'
    BY <2>1 DEF StopSound, Marked
  <2>3. Marked' /\ SelfStarters'
    <3>1. flag \in [Timer -> SUBSET Bits]
      BY FieldsOf DEF SoundFields
    <3>2. \A z \in Timer \ {y} : flag'[z] = flag[z]
      BY <2>1, <3>1
    <3>3. \A z \in Timer : "periodic" \in flag[z] => "periodic" \in flag'[z]
      BY <2>1, <3>1
    <3> QED
      BY <2>1, <2>2, <3>2, <3>3, FlagsKept
  <2>4. HandlerTimer'
    BY <1>1, <1>2, <2>1 DEF HandlerTimer
  <2>5. \A t \in Thread : pc[t].at # "user" => pc[t].timer \in Timer
    BY DEF ListSound, Places
  <2>6. CallsMade' /\ TakenOut' /\ SavedFlag'
    BY <1>1, <1>3, <1>4, <2>1, <2>5, HandlerKeepsCalls
  <2> QED
    BY <2>3, <2>4, <2>6 DEF StopSound
<1> QED
  BY <1>5, <1>6, <1>7 DEF timeout_func, x

LEMMA RestartKeepsStops ==
  ASSUME ListSound, StopSound, RestartPeriodic
  PROVE  StopSound'
<1> DEFINE x == isr.timer
<1>1. /\ x \in Timer /\ isr.at = "called" /\ StartNow(x) /\ pc' = pc
      /\ isr' = [NoHandler EXCEPT !.at = "check"]
  BY DEF RestartPeriodic, ListSound, Places
<1>2. isr'.at = "check" /\ Busy(x) /\ \A y : Busy(y)' <=> Pending(y)'
  BY <1>1 DEF NoHandler, Busy, Held
<1> HIDE DEF x
<1>3. /\ flag' = [flag EXCEPT ![x] = @ \cup {"activated"}]
      /\ \A y \in Timer \ {x} : Pending(y)' => Pending(y)
  BY <1>1, FieldsOf, StartNowStep
<1>4. \A y \in Timer : Busy(y)' => Busy(y)
  BY <1>2, <1>3 DEF Busy
<1>5. CallsMade' /\ TakenOut' /\ SavedFlag'
  BY <1>1, <1>4, HandlerKeepsCalls DEF ListSound, Places
<1>6. HandlerTimer'
  BY <1>2 DEF HandlerTimer
<1> QED
  BY <1>1, <1>3, <1>5, <1>6, FieldsOf, MarkedByStart DEF StopSound

LEMMA StopOneShotKeepsStops ==
  ASSUME ListSound, StopSound, StopOneShot
  PROVE  StopSound'
<1> DEFINE x == isr.timer
<1>1. /\ x \in Timer /\ isr.at = "called" /\ ~({"periodic", "activated"} \subseteq flag[x])
      /\ flag' = [flag EXCEPT ![x] = @ \ {"activated"}]
      /\ isr' = [NoHandler EXCEPT !.at = "check"] /\ UNCHANGED <<ring, pc>>
  BY DEF StopOneShot, ListSound, Places
<1>2. ~Pending(x)
  BY <1>1 DEF StopSound, Marked, HandlerTimer
<1>3. isr'.at = "check" /\ \A y : (Busy(y)' => Busy(y)) /\ (Pending(y)' <=> Pending(y))
  BY <1>1 DEF NoHandler, Busy, Held, Pending
<1> HIDE DEF x
<1>4. CallsMade' /\ TakenOut' /\ SavedFlag'
  BY <1>1, <1>3, HandlerKeepsCalls
<1>5. Marked' /\ SelfStarters'
  BY <1>1, <1>2, <1>3, FieldsOf, FlagsKept DEF SoundFields
<1>6. HandlerTimer'
  BY <1>3 DEF HandlerTimer
<1> QED
  BY <1>4, <1>5, <1>6 DEF StopSound

LEMMA DoneKeepsStops ==
  ASSUME ListSound, StopSound, CheckDone
  PROVE  StopSound'
<1>1. isr'.at = "none" /\ UNCHANGED <<ring, flag, pc>>
  BY DEF CheckDone, NoHandler, fields
<1>2. \A y : (Busy(y)' => Busy(y)) /\ (Pending(y)' <=> Pending(y))
  BY <1>1 DEF Busy, Held, Pending
<1>3. HandlerTimer'
  BY <1>1 DEF HandlerTimer
<1> QED
  BY <1>1, <1>2, <1>3, HandlerKeepsCalls, FlagsKept DEF StopSound

\* No other thread is in a call with a timer that thread t uses.
LEMMA OthersElsewhere ==
  ASSUME OwnTimers, ListSound, StopSound, NEW t \in Thread, NEW x \in Timer, Uses(t, x)
  PROVE  \A u \in Thread \ {t} : pc[u].at # "user" => pc[u].timer # x
BY CallUses DEF OwnTimers, ListSound, Places

LEMMA StartKeepsStops ==
  ASSUME ListSound, StopSound, NEW t \in Thread, NEW x \in Timer, rt_timer_start(t, x)
  PROVE  StopSound'
<1> DEFINE p == At("start_tick", x)
<1>1. /\ isr = NoHandler /\ <<"start", x>> \in Api[t] /\ _rt_timer_remove(x)
      /\ flag' = [flag EXCEPT ![x] = @ \ {"activated"}]
      /\ pc' = [pc EXCEPT ![t] = p] /\ UNCHANGED isr
  BY DEF rt_timer_start, Calls, Free, Goto
<1>2. ~Pending(x)' /\ \A y \in Timer : Pending(y)' => Pending(y)
  BY <1>1, FieldsOf, RemoveStep
<1>3. p.at = "start_tick" /\ p.timer = x
  BY DEF At
<1> HIDE DEF p
<1>4. InCall(t, p)
  BY <1>1, <1>3 DEF InCall
<1>5. CallsMade' /\ TakenOut' /\ SavedFlag' /\ HandlerTimer'
  BY <1>1, <1>2, <1>3, <1>4, ThreadKeepsCalls
<1>6. Marked' /\ SelfStarters'
  BY <1>1, <1>2, FieldsOf, FlagsKept DEF SoundFields
<1> QED
  BY <1>5, <1>6 DEF StopSound

LEMMA StartTickKeepsStops ==
  ASSUME ListSound, StopSound, NEW t \in Thread, StartTick(t)
  PROVE  StopSound'
<1>1. PICK x \in Timer :
        /\ <<"start", x>> \in Api[t] /\ ~Pending(x)
        /\ pc' = [pc EXCEPT ![t] = At("start_insert", x)]
  BY StartingTimer DEF StartTick, AtPlace, Goto, Starting
<1>2. isr = NoHandler /\ UNCHANGED <<ring, flag, isr>>
  BY DEF StartTick, AtPlace, Free
<1>3. \A y : Pending(y)' <=> Pending(y)
  BY <1>2 DEF Pending
<1> DEFINE p == At("start_insert", x)
<1>4. p.at = "start_insert" /\ p.timer = x
  BY DEF At
<1> HIDE DEF p
<1>5. InCall(t, p)
  BY <1>1, <1>4 DEF InCall
<1>6. CallsMade' /\ TakenOut' /\ SavedFlag' /\ HandlerTimer'
  BY <1>1, <1>2, <1>3, <1>4, <1>5, ThreadKeepsCalls DEF p
<1>7. Marked' /\ SelfStarters'
  BY <1>2, <1>3, FlagsKept
<1> QED
  BY <1>6, <1>7 DEF StopSound

LEMMA UserInCall ==
  ASSUME NEW t \in Thread
  PROVE  InCall(t, User) /\ User.at = "user"
BY DEF InCall, User

LEMMA StartInsertKeepsStops ==
  ASSUME OwnTimers, ListSound, StopSound, NEW t \in Thread, StartInsert(t)
  PROVE  StopSound'
<1>1. PICK x \in Timer :
        /\ <<"start", x>> \in Api[t] /\ ~Pending(x)
        /\ ring' = Insert(ring, x, timeout_tick[x])
        /\ flag' = [flag EXCEPT ![x] = @ \cup {"activated"}]
  BY StartingTimer DEF StartInsert, AtPlace, Starting
<1>2. isr = NoHandler /\ UNCHANGED isr /\ pc' = [pc EXCEPT ![t] = User]
  BY DEF StartInsert, AtPlace, Free, Goto
<1>3. \A y \in Timer \ {x} : Pending(y)' <=> Pending(y)
  BY <1>1, FieldsOf, Inserted DEF SoundFields, Pending
<1>4. \A u \in Thread \ {t} : pc[u].at # "user" => pc[u].timer # x
  BY <1>1, OthersElsewhere DEF Uses, Op
<1>5. CallsMade' /\ TakenOut' /\ SavedFlag' /\ HandlerTimer'
  BY <1>2, <1>3, <1>4, UserInCall, ThreadKeepsCalls
<1>6. Marked' /\ SelfStarters'
  BY <1>1, <1>3, FieldsOf, MarkedByStart
<1> QED
  BY <1>5, <1>6 DEF StopSound

LEMMA MaskedKeepsStops ==
  ASSUME OwnTimers, ListSound, StopSound, NEW t \in Thread, NEW x \in Timer, StartMasked(t, x)
  PROVE  StopSound'
<1>1. /\ isr = NoHandler /\ pc[t] = User /\ <<"start_masked", x>> \in Api[t] /\ StartNow(x)
      /\ UNCHANGED <<pc, isr>>
  BY DEF StartMasked, Calls, Free
<1>2. /\ flag' = [flag EXCEPT ![x] = @ \cup {"activated"}]
      /\ \A y \in Timer \ {x} : Pending(y)' => Pending(y)
  BY <1>1, FieldsOf, StartNowStep
<1>3. pc' = [pc EXCEPT ![t] = User]
  BY <1>1, FieldsOf
<1>4. \A u \in Thread \ {t} : pc[u].at # "user" => pc[u].timer # x
  BY <1>1, OthersElsewhere DEF Uses, Op
<1>5. CallsMade' /\ TakenOut' /\ SavedFlag' /\ HandlerTimer'
  <2>1. isr = NoHandler /\ UNCHANGED isr
    BY <1>1
  <2> QED
    BY <2>1, <1>2, <1>3, <1>4, UserInCall, ThreadKeepsCalls
<1>6. Marked' /\ SelfStarters'
  BY <1>2, FieldsOf, MarkedByStart
<1> QED
  BY <1>5, <1>6 DEF StopSound

LEMMA StopKeepsStops ==
  ASSUME ListSound, StopSound, NEW t \in Thread, NEW x \in Timer, rt_timer_stop(t, x)
  PROVE  StopSound'
<1> DEFINE p == At("stop_remove", x)
<1>1. /\ isr = NoHandler /\ <<"stop", x>> \in Api[t] /\ pc' = [pc EXCEPT ![t] = p]
      /\ UNCHANGED <<ring, flag, isr>>
  BY DEF rt_timer_stop, Calls, Free, Goto, fields
<1>2. \A y : Pending(y)' <=> Pending(y)
  BY <1>1 DEF Pending
<1>3. p.at = "stop_remove" /\ p.timer = x
  BY DEF At
<1> HIDE DEF p
<1>4. InCall(t, p)
  BY <1>1, <1>3 DEF InCall
<1>5. CallsMade' /\ TakenOut' /\ SavedFlag' /\ HandlerTimer'
  BY <1>1, <1>2, <1>3, <1>4, ThreadKeepsCalls
<1>6. Marked' /\ SelfStarters'
  BY <1>1, <1>2, FlagsKept
<1> QED
  BY <1>5, <1>6 DEF StopSound

LEMMA StopRemoveKeepsStops ==
  ASSUME ListSound, StopSound, NEW t \in Thread, StopRemove(t)
  PROVE  StopSound'
<1>1. PICK x \in Timer :
        /\ <<"stop", x>> \in Api[t] /\ _rt_timer_remove(x)
        /\ pc' = [pc EXCEPT ![t] = At("stop_clear", x)]
  <2>1. pc[t].at = "stop_remove" /\ pc[t].timer \in Timer
    BY DEF StopRemove, AtPlace, ListSound, Places
  <2>2. <<"stop", pc[t].timer>> \in Api[t]
    BY <2>1 DEF StopSound, CallsMade, InCall
  <2> QED
    BY <2>1, <2>2 DEF StopRemove, Goto
<1>2. isr = NoHandler /\ UNCHANGED <<flag, isr>>
  BY DEF StopRemove, AtPlace, Free
<1>3. ~Pending(x)' /\ \A y \in Timer : Pending(y)' => Pending(y)
  BY <1>1, FieldsOf, RemoveStep
<1> DEFINE p == At("stop_clear", x)
<1>4. p.at = "stop_clear" /\ p.timer = x
  BY DEF At
<1>5. pc' = [pc EXCEPT ![t] = p]
  BY <1>1
<1> HIDE DEF p
<1>6. InCall(t, p)
  BY <1>1, <1>4 DEF InCall
<1>7. CallsMade' /\ TakenOut' /\ SavedFlag' /\ HandlerTimer'
  BY <1>2, <1>3, <1>4, <1>5, <1>6, ThreadKeepsCalls
<1>8. Marked' /\ SelfStarters'
  BY <1>2, <1>3, FlagsKept
<1> QED
  BY <1>7, <1>8 DEF StopSound

LEMMA StopClearKeepsStops ==
  ASSUME ListSound, StopSound, NEW t \in Thread, StopClear(t)
  PROVE  StopSound'
<1>1. PICK x \in Timer :
        /\ <<"stop", x>> \in Api[t] /\ ~Pending(x)
        /\ pc' = [pc EXCEPT ![t] =
                    [At("set_flag", x) EXCEPT !.flag = flag[x] \ {"activated"}]]
  <2>1. pc[t].at = "stop_clear" /\ pc[t].timer \in Timer
    BY DEF StopClear, AtPlace, ListSound, Places
  <2>2. <<"stop", pc[t].timer>> \in Api[t] /\ ~Pending(pc[t].timer)
    BY <2>1 DEF StopSound, CallsMade, InCall, TakenOut, Busy
  <2> QED
    BY <2>1, <2>2 DEF StopClear, Goto
<1>2. isr = NoHandler /\ UNCHANGED <<ring, flag, isr>>
  BY DEF StopClear, AtPlace, Free, fields
<1>3. \A y : Pending(y)' <=> Pending(y)
  BY <1>2 DEF Pending
<1> DEFINE p == [At("set_flag", x) EXCEPT !.flag = flag[x] \ {"activated"}]
<1>4. p.at = "set_flag" /\ p.timer = x
  BY DEF At
<1>5. pc' = [pc EXCEPT ![t] = p]
  BY <1>1
<1> HIDE DEF p
<1>6. InCall(t, p)
  BY <1>1, <1>4 DEF InCall
<1>7. CallsMade' /\ TakenOut' /\ SavedFlag' /\ HandlerTimer'
  BY <1>1, <1>2, <1>3, <1>4, <1>5, <1>6, ThreadKeepsCalls
<1>8. Marked' /\ SelfStarters'
  BY <1>2, <1>3, FlagsKept
<1> QED
  BY <1>7, <1>8 DEF StopSound

LEMMA DetachKeepsStops ==
  ASSUME ListSound, StopSound, NEW t \in Thread, NEW x \in Timer, rt_timer_detach(t, x)
  PROVE  StopSound'
<1>1. /\ isr = NoHandler /\ pc[t] = User /\ _rt_timer_remove(x)
      /\ UNCHANGED <<flag, pc, isr>>
  BY DEF rt_timer_detach, Calls, Free
<1>2. \A y \in Timer : Pending(y)' => Pending(y)
  BY <1>1, FieldsOf, RemoveStep
<1>3. pc' = [pc EXCEPT ![t] = User]
  BY <1>1, FieldsOf
<1>4. CallsMade' /\ TakenOut' /\ SavedFlag' /\ HandlerTimer'
  BY <1>1, <1>2, <1>3, UserInCall, ThreadKeepsCalls
<1>5. Marked' /\ SelfStarters'
  BY <1>1, <1>2, FlagsKept
<1> QED
  BY <1>4, <1>5 DEF StopSound

LEMMA SetTimeKeepsStops ==
  ASSUME ListSound, StopSound, NEW t \in Thread, NEW x \in Timer, SetTime(t, x)
  PROVE  StopSound'
<1>1. isr = NoHandler /\ pc[t] = User /\ UNCHANGED <<ring, flag, pc, isr>>
  BY DEF SetTime, Calls, Free
<1>2. \A y : Pending(y)' <=> Pending(y)
  BY <1>1 DEF Pending
<1>3. pc' = [pc EXCEPT ![t] = User]
  BY <1>1, FieldsOf
<1>4. CallsMade' /\ TakenOut' /\ SavedFlag' /\ HandlerTimer'
  BY <1>1, <1>2, <1>3, UserInCall, ThreadKeepsCalls
<1>5. Marked' /\ SelfStarters'
  BY <1>1, <1>2, FlagsKept
<1> QED
  BY <1>4, <1>5 DEF StopSound

LEMMA SetModeKeepsStops ==
  ASSUME ListSound, StopSound, NEW t \in Thread, NEW x \in Timer, SetMode(t, x)
  PROVE  StopSound'
<1>1. PICK f \in {flag[x] \ {"periodic"}, flag[x] \cup {"periodic"}} :
        pc' = [pc EXCEPT ![t] = [At("set_flag", x) EXCEPT !.flag = f]]
  BY DEF SetMode, Goto
<1>2. isr = NoHandler /\ UNCHANGED <<ring, flag, isr>>
  BY DEF SetMode, Calls, Free, fields
<1>3. \A y : Pending(y)' <=> Pending(y)
  BY <1>2 DEF Pending
<1> DEFINE p == [At("set_flag", x) EXCEPT !.flag = f]
<1>4. p.at = "set_flag" /\ p.timer = x /\ p.flag = f
  BY DEF At
<1>5. pc' = [pc EXCEPT ![t] = p]
  BY <1>1
<1> HIDE DEF p
<1>6. InCall(t, p)
  BY <1>4 DEF SetMode, Calls, InCall
<1>7. Pending(x) => "activated" \in f
  BY DEF StopSound, Marked
<1>8. CallsMade' /\ TakenOut' /\ SavedFlag' /\ HandlerTimer'
  BY <1>2, <1>3, <1>4, <1>5, <1>6, <1>7, ThreadKeepsCalls
<1>9. Marked' /\ SelfStarters'
  BY <1>2, <1>3, FlagsKept
<1> QED
  BY <1>8, <1>9 DEF StopSound

LEMMA SetFlagKeepsStops ==
  ASSUME OwnTimers, ListSound, StopSound, NEW t \in Thread, SetFlag(t)
  PROVE  StopSound'
<1>1. PICK x \in Timer : x = pc[t].timer
  BY DEF SetFlag, AtPlace, ListSound, Places
<1>2. /\ <<"start", x>> \notin Callback[x]
      /\ Pending(x) => "activated" \in pc[t].flag
      /\ flag' = [flag EXCEPT ![x] = pc[t].flag]
  <2>1. pc[t].at = "set_flag"
    BY DEF SetFlag, AtPlace
  <2>2. \E op \in {"stop", "set_oneshot", "set_periodic"} : <<op, x>> \in Api[t]
    BY <1>1, <2>1 DEF StopSound, CallsMade, InCall
  <2> QED
    BY <1>1, <2>1, <2>2 DEF SetFlag, StopSound, SavedFlag, Busy, OwnTimers
<1>3. isr = NoHandler /\ UNCHANGED <<ring, isr>> /\ pc' = [pc EXCEPT ![t] = User]
  BY DEF SetFlag, AtPlace, Free, Goto
<1>4. \A y : Pending(y)' <=> Pending(y)
  BY <1>3 DEF Pending
<1>5. CallsMade' /\ TakenOut' /\ SavedFlag' /\ HandlerTimer'
  BY <1>3, <1>4, UserInCall, ThreadKeepsCalls
<1>6. Marked' /\ SelfStarters'
  <2>1. flag'[x] = pc[t].flag /\ \A y \in Timer \ {x} : flag'[y] = flag[y]
    BY <1>2, FieldsOf DEF SoundFields
  <2> QED
    BY <1>2, <1>4, <2>1 DEF StopSound, Marked, SelfStarters
<1> QED
  BY <1>5, <1>6 DEF StopSound

LEMMA StopStep ==
  ASSUME OwnTimers, ListSound, StopSound, [TimerNext]_timerVars
  PROVE  StopSound'
<1>1. CASE rt_tick_increase
  BY <1>1, TickKeepsStops
<1>2. CASE Handler
  BY <1>2, CheckKeepsStops, CallbackKeepsStops, RestartKeepsStops, StopOneShotKeepsStops,
     DoneKeepsStops DEF Handler
<1>3. ASSUME NEW t \in Thread, TimerCall(t) PROVE StopSound'
  <2>1. ASSUME NEW x \in Timer,
               \/ rt_timer_start(t, x) \/ StartMasked(t, x) \/ rt_timer_stop(t, x)
               \/ rt_timer_detach(t, x) \/ SetTime(t, x) \/ SetMode(t, x)
        PROVE  StopSound'
    BY <2>1, StartKeepsStops, MaskedKeepsStops, StopKeepsStops, DetachKeepsStops,
       SetTimeKeepsStops, SetModeKeepsStops
  <2> QED
    BY <1>3, <2>1, StartTickKeepsStops, StartInsertKeepsStops, StopRemoveKeepsStops,
       StopClearKeepsStops, SetFlagKeepsStops DEF TimerCall
<1>4. CASE UNCHANGED timerVars
  BY <1>4 DEF timerVars, fields, StopSound, Marked, CallsMade, InCall, TakenOut, SavedFlag,
     HandlerTimer, SelfStarters, Busy, Held, Pending
<1> QED
  BY <1>1, <1>2, <1>3, <1>4 DEF TimerNext

LEMMA StopStarts ==
  ASSUME OwnTimers, TimerInit
  PROVE  StopSound
<1>1. \A x \in Timer : ~Pending(x)
  BY NodesFinite DEF TimerInit, rt_list_init, Pending
<1>2. isr.at = "none" /\ \A t \in Thread : pc[t].at = "user"
  BY UserPlace DEF TimerInit, NoHandler
<1>3. SelfStarters
  BY DEF TimerInit, SelfStarters, OwnTimers
<1> QED
  BY <1>1, <1>2, <1>3 DEF StopSound, Marked, CallsMade, InCall, TakenOut, SavedFlag, HandlerTimer

\* Every timer that is pending can be stopped as soon as the tick handler has
\* returned (timer.c:77-97 tests RT_TIMER_FLAG_ACTIVATED): whatever a start, a
\* stop or a change of the mode that the handler interrupts has saved, and
\* whatever the time-out functions start, if each timer has one user.
THEOREM PendingIsStoppable ==
  ASSUME OwnTimers
  PROVE  TimerSpec => []PendingCanBeStopped
<1>1. TimerSpec => []ListSound
  BY OwnersStartAlone, ListInvariant
<1>2. TimerInit => StopSound
  BY StopStarts
<1>3. ListSound /\ StopSound /\ [TimerNext]_timerVars => StopSound'
  BY StopStep
<1>4. StopSound => PendingCanBeStopped
  BY DEF StopSound, Marked, PendingCanBeStopped
<1> QED
  BY <1>1, <1>2, <1>3, <1>4, PTL DEF TimerSpec

-----------------------------------------------------------------------------
(* Ticks that wrap.                                                        *)

\* Arithmetic in rt_tick_t.
LEMMA ModCases ==
  ASSUME NEW e \in -TickRange .. 2 * TickRange - 1
  PROVE  e % TickRange = IF e < 0 THEN e + TickRange
                         ELSE IF e < TickRange THEN e ELSE e - TickRange
BY TimerAssumption

Half == RT_TICK_MAX \div 2

LEMMA HalfBounds ==
  /\ TickRange \in Nat \ {0} /\ RT_TICK_MAX = TickRange - 1 /\ MaxTime \in Nat /\ Patience \in Nat
  /\ Half \in Nat /\ 2 * Half <= TickRange - 1 /\ MaxTime + Patience < Half
BY TimerAssumption DEF RT_TICK_MAX, Half

\* How far a pending timer is away: behind by the ticks its start was late.
Windowed == -Patience .. MaxTime

LEMMA DiffCases ==
  ASSUME NEW a \in 0 .. RT_TICK_MAX, NEW b \in 0 .. RT_TICK_MAX
  PROVE  TickDiff(a, b) = IF a >= b THEN a - b ELSE a - b + TickRange
<1>1. a - b \in -TickRange .. 2 * TickRange - 1 /\ a - b < TickRange
  BY HalfBounds
<1> QED
  BY <1>1, ModCases DEF TickDiff

\* How far tick a is away.
LEMMA UntilCases ==
  ASSUME rt_tick \in 0 .. RT_TICK_MAX, NEW a \in 0 .. RT_TICK_MAX
  PROVE  LET d == IF a >= rt_tick THEN a - rt_tick ELSE a - rt_tick + TickRange
         IN  TicksUntil(a) \in Int /\ TicksUntil(a) = IF d < Half THEN d ELSE d - TickRange
<1>1. TicksUntil(a) = IF TickDiff(a, rt_tick) < Half THEN TickDiff(a, rt_tick)
                                                    ELSE TickDiff(a, rt_tick) - TickRange
  BY DEF TicksUntil, Half
<1> QED
  BY <1>1, DiffCases, HalfBounds

\* Ticks within the window are compared right, although they wrap.
LEMMA LaterIsLater ==
  ASSUME rt_tick \in 0 .. RT_TICK_MAX, NEW a \in 0 .. RT_TICK_MAX, NEW b \in 0 .. RT_TICK_MAX,
         TicksUntil(a) \in Windowed, TicksUntil(b) \in Windowed
  PROVE  Later(a, b) <=> TicksUntil(b) < TicksUntil(a)
<1>1. Later(a, b) <=> TickDiff(a, b) \in 1 .. Half - 1
  BY DEF Later, Half
<1> DEFINE la == TicksUntil(a)
           lb == TicksUntil(b)
           d == TickDiff(a, b)
<1>2. /\ d = IF a >= b THEN a - b ELSE a - b + TickRange
      /\ la = (LET n == IF a >= rt_tick THEN a - rt_tick ELSE a - rt_tick + TickRange
               IN  IF n < Half THEN n ELSE n - TickRange)
      /\ lb = (LET n == IF b >= rt_tick THEN b - rt_tick ELSE b - rt_tick + TickRange
               IN  IF n < Half THEN n ELSE n - TickRange)
  BY DiffCases, UntilCases
<1>3. la \in -Patience .. MaxTime /\ lb \in -Patience .. MaxTime
  BY DEF Windowed
<1> HIDE DEF la, lb, d
<1>4. d \in 1 .. Half - 1 <=> lb < la
  BY <1>2, <1>3, HalfBounds
<1> QED
  BY <1>1, <1>4 DEF la, lb, d

LEMMA ExpiredIsDue ==
  ASSUME rt_tick \in 0 .. RT_TICK_MAX, NEW x, timeout_tick[x] \in 0 .. RT_TICK_MAX,
         TicksUntil(timeout_tick[x]) \in Windowed
  PROVE  Expired(x) <=> TicksUntil(timeout_tick[x]) <= 0
<1> DEFINE a == timeout_tick[x]
           l == TicksUntil(a)
           d == TickDiff(rt_tick, a)
<1>1. Expired(x) <=> d < Half
  BY DEF Expired, Half
<1>2. /\ d = IF rt_tick >= a THEN rt_tick - a ELSE rt_tick - a + TickRange
      /\ l = (LET n == IF a >= rt_tick THEN a - rt_tick ELSE a - rt_tick + TickRange
              IN  IF n < Half THEN n ELSE n - TickRange)
      /\ a \in 0 .. RT_TICK_MAX
  BY DiffCases, UntilCases
<1>3. l \in -Patience .. MaxTime
  BY DEF Windowed
<1> HIDE DEF a, l, d
<1>4. d < Half <=> l <= 0
  BY <1>2, <1>3, HalfBounds
<1> QED
  BY <1>1, <1>4 DEF l, a

\* The tick of a timer that starts now.
LEMMA StartedUntil ==
  ASSUME rt_tick \in 0 .. RT_TICK_MAX, NEW d \in 1 .. MaxTime
  PROVE  /\ (rt_tick + d) % TickRange \in 0 .. RT_TICK_MAX
         /\ TicksUntil((rt_tick + d) % TickRange) = d
<1> DEFINE a == (rt_tick + d) % TickRange
<1>1. a = IF rt_tick + d < TickRange THEN rt_tick + d ELSE rt_tick + d - TickRange
  <2>1. rt_tick + d \in -TickRange .. 2 * TickRange - 1 /\ rt_tick + d >= 0
    BY HalfBounds
  <2> DEFINE e == rt_tick + d
  <2>2. e % TickRange = IF e < 0 THEN e + TickRange
                        ELSE IF e < TickRange THEN e ELSE e - TickRange
    BY <2>1, ModCases
  <2> QED
    BY <2>1, <2>2, HalfBounds
<1> HIDE DEF a
<1>2. a \in 0 .. RT_TICK_MAX
  BY <1>1, HalfBounds
<1> QED
  BY <1>1, <1>2, UntilCases, HalfBounds DEF a

\* A tick takes one from all.
LEMMA TickUntil ==
  ASSUME rt_tick \in 0 .. RT_TICK_MAX, rt_tick' = (rt_tick + 1) % TickRange,
         NEW a \in 0 .. RT_TICK_MAX, TicksUntil(a) \in 1 - Patience .. MaxTime
  PROVE  rt_tick' \in 0 .. RT_TICK_MAX /\ TicksUntil(a)' = TicksUntil(a) - 1
<1>1. rt_tick' = IF rt_tick + 1 < TickRange THEN rt_tick + 1 ELSE rt_tick + 1 - TickRange
  <2>1. rt_tick + 1 \in -TickRange .. 2 * TickRange - 1 /\ rt_tick + 1 >= 0
    BY HalfBounds
  <2> DEFINE e == rt_tick + 1
  <2>2. e % TickRange = IF e < 0 THEN e + TickRange
                        ELSE IF e < TickRange THEN e ELSE e - TickRange
    BY <2>1, ModCases
  <2> QED
    BY <2>1, <2>2, HalfBounds
<1>2. rt_tick' \in 0 .. RT_TICK_MAX
  BY <1>1, HalfBounds
<1> DEFINE d == IF a >= rt_tick' THEN a - rt_tick' ELSE a - rt_tick' + TickRange
<1>3. TicksUntil(a)' = IF d < Half THEN d ELSE d - TickRange
  <2>1. TickDiff(a, rt_tick') = d
    BY <1>2, DiffCases
  <2> QED
    BY <2>1 DEF TicksUntil, Half
<1> QED
  BY <1>1, <1>2, <1>3, UntilCases, HalfBounds

\* A start that has waited less than Patience may wait for one more tick.
LEMMA DelayedUntil ==
  ASSUME rt_tick \in 0 .. RT_TICK_MAX, NEW t, NEW d \in 1 .. MaxTime, NEW a \in 0 .. RT_TICK_MAX,
         init_tick[pc[t].timer] = d, timeout_tick[pc[t].timer] = a,
         TicksUntil(a) \in 1 - Patience .. MaxTime, Delayed(t) < Patience
  PROVE  TicksUntil(a) \in 2 - Patience .. MaxTime
<1>1. Delayed(t) = (rt_tick - (a - d)) % TickRange
  BY DEF Delayed, TickDiff
<1> DEFINE e == rt_tick - (a - d)
<1>2. e \in -TickRange .. 2 * TickRange - 1
  BY HalfBounds
<1>3. e % TickRange = IF e < 0 THEN e + TickRange
                         ELSE IF e < TickRange THEN e ELSE e - TickRange
  BY <1>2, ModCases
<1>4. e % TickRange < Patience
  BY <1>1
<1> QED
  BY <1>3, <1>4, UntilCases, HalfBounds

-----------------------------------------------------------------------------
(* The list is sorted.                                                     *)

\* Along next from the head the ranks rise, and ticks do not fall.  So every
\* timer that is linked is linked behind the head.
InOrder(r, rank, ticks) ==
    \A n \in Node : LET m == r.next[n] IN
        m # n /\ m # rt_timer_list =>
            /\ rank[n] < rank[m]
            /\ n # rt_timer_list => ticks[n] <= ticks[m]

LEMMA OrderLoses ==
  ASSUME NEW r \in Heap, Rings(r), NEW x \in Timer, NEW rank \in [Node -> Nat],
         NEW ticks \in [Timer -> Int], NEW later \in [Timer -> Int],
         InOrder(r, rank, ticks), \A y \in Timer \ {x} : later[y] = ticks[y]
  PROVE  LET q == rt_list_remove(r, x) IN
         InOrder(q, rank, later) /\ \A y \in Timer \ {x} : q.next[y] # y <=> r.next[y] # y
<1> DEFINE q == rt_list_remove(r, x)
<1>1. /\ q.next[x] = x
      /\ \A y \in Node \ {x} : q.next[y] = IF r.next[y] = x THEN r.next[x] ELSE r.next[y]
      /\ x \in Node /\ x # rt_timer_list
  BY LinkedOut, NodesFinite, TimerAssumption
<1>2. /\ r.next \in [Node -> Node] /\ rank \in [Node -> Nat]
      /\ \A n \in Node : r.prev[r.next[n]] = n
  BY DEF Heap, Rings
<1> HIDE DEF q
<1>3. ASSUME NEW n \in Node \ {x}, r.next[n] = x
      PROVE  LET m == q.next[n] IN
             /\ n # rt_timer_list => m # n
             /\ m # rt_timer_list => /\ rank[n] < rank[m]
                                     /\ n # rt_timer_list => later[n] <= later[m]
  <2> DEFINE m == r.next[x]
  <2>1. q.next[n] = m /\ m \in Node /\ m # x
    BY <1>1, <1>2, <1>3
  <2>2. rank[n] < rank[x] /\ (n # rt_timer_list => ticks[n] <= ticks[x])
    BY <1>1, <1>3 DEF InOrder
  <2>3. m # rt_timer_list => rank[x] < rank[m] /\ ticks[x] <= ticks[m]
    BY <1>1, <2>1 DEF InOrder
  <2> HIDE DEF m
  <2>4. n # rt_timer_list => m # n
    <3>1. rank[n] \in Nat /\ rank[x] \in Nat
      BY <1>1, <1>2
    <3> QED
      BY <2>2, <2>3, <3>1
  <2>5. CASE m # rt_timer_list
    <3>1. rank[n] \in Nat /\ rank[x] \in Nat /\ rank[m] \in Nat /\ m \in Timer \ {x}
      BY <1>1, <1>2, <2>1, <2>5 DEF Node
    <3>2. rank[n] < rank[m]
      BY <2>2, <2>3, <2>5, <3>1
    <3>3. n # rt_timer_list => later[n] <= later[m]
      BY <2>2, <2>3, <2>5, <3>1 DEF Node
    <3> QED
      BY <2>1, <2>4, <3>2, <3>3
  <2> QED
    BY <2>1, <2>4, <2>5
<1>4. ASSUME NEW n \in Node \ {x}, r.next[n] # x
      PROVE  LET m == q.next[n] IN
             /\ m = r.next[n]
             /\ m # n /\ m # rt_timer_list => /\ rank[n] < rank[m]
                                              /\ n # rt_timer_list => later[n] <= later[m]
  <2>1. q.next[n] = r.next[n] /\ r.next[n] \in Node \ {x}
    BY <1>1, <1>2, <1>4
  <2>2. \A y \in Node \ {x} : y # rt_timer_list => later[y] = ticks[y]
    BY DEF Node
  <2> QED
    BY <2>1, <2>2 DEF InOrder
<1>5. InOrder(q, rank, later)
  BY <1>1, <1>3, <1>4 DEF InOrder
<1>6. \A y \in Timer \ {x} : q.next[y] # y <=> r.next[y] # y
  <2> SUFFICES ASSUME NEW y \in Timer \ {x} PROVE q.next[y] # y <=> r.next[y] # y
    OBVIOUS
  <2>1. CASE r.next[y] = x
    BY <1>3, <2>1, NodesFinite, TimerAssumption
  <2>2. CASE r.next[y] # x
    BY <1>4, <2>2, NodesFinite
  <2> QED
    BY <2>1, <2>2
<1> QED
  BY <1>5, <1>6 DEF q

LEMMA OrderGains ==
  ASSUME NEW r \in Heap, Rings(r), NEW x \in Timer, r.next[x] = x, NEW l \in Node \ {x},
         l = rt_timer_list \/ r.next[l] # l,
         NEW rank \in [Node -> Nat], NEW ticks \in [Timer -> Int],
         NEW later \in [Timer -> Int],
         InOrder(r, rank, ticks), \A y \in Timer \ {x} : later[y] = ticks[y],
         l # rt_timer_list => later[l] <= later[x],
         r.next[l] # rt_timer_list => later[x] <= later[r.next[l]]
  PROVE  \E up \in [Node -> Nat] : InOrder(rt_list_insert_after(r, l, x), up, later)
<1> DEFINE q == rt_list_insert_after(r, l, x)
           m == r.next[l]
           up == [n \in Node |-> IF n = x THEN 2 * rank[l] + 1 ELSE 2 * rank[n]]
<1>1. /\ q.next[l] = x /\ q.next[x] = m /\ m # x /\ m \in Node
      /\ \A y \in Node \ {x, l} : q.next[y] = r.next[y] /\ r.next[y] # x
      /\ x \in Node /\ x # rt_timer_list
  BY LinkedIn, NodesFinite, TimerAssumption DEF Heap
<1>2. /\ up \in [Node -> Nat] /\ up[x] = 2 * rank[l] + 1
      /\ \A n \in Node \ {x} : up[n] = 2 * rank[n] /\ rank[n] \in Nat
      /\ r.next \in [Node -> Node]
  BY <1>1 DEF Heap
<1> HIDE DEF q, m, up
<1>3. ASSUME NEW n \in Node, q.next[n] # n, q.next[n] # rt_timer_list
      PROVE  up[n] < up[q.next[n]] /\ (n # rt_timer_list => later[n] <= later[q.next[n]])
  <2>1. CASE n = l
    BY <1>1, <1>2, <2>1
  <2>2. CASE n = x
    <3>1. m # rt_timer_list /\ later[x] <= later[m]
      BY <1>1, <1>3, <2>2 DEF m
    <3>2. rank[l] < rank[m]
      BY <3>1 DEF InOrder, m
    <3>3. up[x] < up[m]
      BY <1>1, <1>2, <3>2
    <3> QED
      BY <1>1, <2>2, <3>1, <3>3
  <2>3. CASE n \notin {x, l}
    <3>1. q.next[n] = r.next[n] /\ r.next[n] \in Node \ {x}
      BY <1>1, <1>2, <2>3
    <3>2. rank[n] < rank[r.next[n]] /\ (n # rt_timer_list => ticks[n] <= ticks[r.next[n]])
      BY <1>3, <3>1 DEF InOrder
    <3>3. n # rt_timer_list => later[n] = ticks[n] /\ later[r.next[n]] = ticks[r.next[n]]
      BY <1>3, <2>3, <3>1 DEF Node
    <3> QED
      BY <1>2, <2>3, <3>1, <3>2, <3>3
  <2> QED
    BY <2>1, <2>2, <2>3
<1>4. InOrder(q, up, later)
  BY <1>3 DEF InOrder
<1> QED
  BY <1>2, <1>4 DEF q

\* The first timer is the one that is due the longest.
LEMMA FirstIsLeast ==
  ASSUME NEW r \in Heap, Rings(r), NEW rank \in [Node -> Nat], NEW ticks \in [Timer -> Int],
         InOrder(r, rank, ticks), NEW y \in Timer, r.next[y] # y
  PROVE  LET m == r.next[rt_timer_list] IN
         m \in Timer /\ r.next[m] # m /\ ticks[m] <= ticks[y]
<1> DEFINE m == r.next[rt_timer_list]
           Bad == {n \in Timer : r.next[n] # n /\ ~(m \in Timer /\ ticks[m] <= ticks[n])}
           Ranks == {rank[n] : n \in Bad}
<1>1. /\ r.next \in [Node -> Node] /\ r.prev \in [Node -> Node]
      /\ \A n \in Node : r.prev[r.next[n]] = n /\ r.next[r.prev[n]] = n
      /\ Timer \subseteq Node /\ rt_timer_list \in Node
  BY NodesFinite DEF Heap, Rings
<1>2. Bad = {}
  <2> SUFFICES ASSUME Bad # {} PROVE FALSE
    OBVIOUS
  <2>1. Ranks \in SUBSET Nat /\ Ranks # {}
    BY <1>1
  <2>2. PICK k \in Ranks : \A i \in Ranks : k <= i
    <3> HIDE DEF Ranks
    <3> QED
      BY <2>1, LeastOf
  <2>3. PICK z \in Bad : rank[z] = k
    BY <2>2
  <2> DEFINE p == r.prev[z]
  <2>4. z \in Timer /\ r.next[z] # z /\ p \in Node /\ r.next[p] = z /\ p # z
    BY <1>1, <2>3
  <2>5. CASE p = rt_timer_list
    BY <2>3, <2>4, <2>5
  <2>6. CASE p # rt_timer_list
    <3>1. p \in Timer
      BY <2>4, <2>6 DEF Node
    <3>2. rank[p] < rank[z] /\ ticks[p] <= ticks[z]
      BY <2>4, <2>6, TimerAssumption DEF InOrder
    <3>3. p \notin Bad
      <4>1. p \in Bad => k <= rank[p]
        BY <2>2
      <4>2. rank[p] \in Nat /\ k \in Nat
        BY <2>1, <2>4
      <4> HIDE DEF Bad, p
      <4> QED
        BY <2>3, <3>2, <4>1, <4>2
    <3>4. m \in Timer /\ ticks[m] <= ticks[p]
      BY <2>4, <3>1, <3>3
    <3> QED
      BY <2>3, <3>1, <3>2, <3>4
  <2> QED
    BY <2>5, <2>6
<1>3. m \in Timer /\ ticks[m] <= ticks[y]
  BY <1>2
<1>4. r.next[m] # m
  BY <1>1, <1>3, TimerAssumption
<1> QED
  BY <1>3, <1>4

\* The search stops between what is not later and what is.
LEMMA RowPlace ==
  ASSUME NEW r \in Heap, Rings(r), NEW t
  PROVE  LET l == RowHead(r, t) IN
         /\ l # rt_timer_list => r.next[l] # l /\ ~Later(timeout_tick[l], t)
         /\ r.next[l] # rt_timer_list =>
               r.next[r.next[l]] # r.next[l] /\ Later(timeout_tick[r.next[l]], t)
<1> DEFINE list == Elements(r, rt_timer_list)
           k == CHOOSE i \in 1 .. Len(list) + 1 : IsStop(list, t, i)
           l == RowHead(r, t)
           head == rt_timer_list
<1>1. /\ Len(list) \in Nat
      /\ \A i \in 1 .. Len(list) : list[i] # head /\ r.next[list[i]] # list[i]
      /\ r.next[head] = IF Len(list) = 0 THEN head ELSE list[1]
      /\ \A i \in 1 .. Len(list) : r.next[list[i]] = IF i = Len(list) THEN head ELSE list[i + 1]
  BY NodesFinite, ElementsOfRing
<1>2. l = IF k = 1 THEN head ELSE list[k - 1]
  BY DEF RowHead, IsStop
<1> HIDE DEF list, l, head
<1>3. k \in 1 .. Len(list) + 1 /\ IsStop(list, t, k)
  BY <1>1, SearchStops
<1> HIDE DEF k
<1>4. CASE k = 1
  <2>1. l = head /\ (r.next[l] # head => Len(list) # 0 /\ r.next[l] = list[1])
    BY <1>1, <1>2, <1>4
  <2>2. Len(list) # 0 => 1 \in 1 .. Len(list) /\ k <= Len(list)
    BY <1>1, <1>4
  <2>3. Len(list) # 0 => Later(timeout_tick[list[1]], t)
    BY <1>3, <1>4, <2>2 DEF IsStop
  <2> QED
    BY <1>1, <2>1, <2>2, <2>3 DEF l, head
<1>5. CASE k # 1
  <2>1. k - 1 \in 1 .. Len(list) /\ k - 1 \in 1 .. k - 1 /\ l = list[k - 1]
    BY <1>1, <1>2, <1>3, <1>5
  <2>2. ~Later(timeout_tick[l], t)
    BY <1>3, <2>1 DEF IsStop
  <2>3. r.next[l] = IF k - 1 = Len(list) THEN head ELSE list[k - 1 + 1]
    BY <1>1, <2>1
  <2>4. k - 1 # Len(list) => k \in 1 .. Len(list) /\ k <= Len(list) /\ k - 1 + 1 = k
    BY <1>1, <1>3
  <2>5. k - 1 # Len(list) => Later(timeout_tick[list[k]], t)
    BY <1>3, <2>4 DEF IsStop
  <2>6. r.next[l] # head =>
          r.next[r.next[l]] # r.next[l] /\ Later(timeout_tick[r.next[l]], t)
    BY <1>1, <2>3, <2>4, <2>5
  <2> QED
    BY <1>1, <2>1, <2>2, <2>6 DEF l, head
<1> QED
  BY <1>4, <1>5

TicksLeft == [x \in Timer |-> TicksUntil(timeout_tick[x])]

LEMMA TicksLeftType ==
  ASSUME SoundFields, rt_tick \in 0 .. RT_TICK_MAX
  PROVE  /\ TicksLeft \in [Timer -> Int]
         /\ \A x \in Timer : TicksLeft[x] = TicksUntil(timeout_tick[x])
BY UntilCases DEF TicksLeft, SoundFields

\* Insertion keeps the order, if nobody is out of the window.
LEMMA InsertInOrder ==
  ASSUME SoundFields, rt_tick \in 0 .. RT_TICK_MAX,
         NEW r \in Heap, Rings(r), NEW rank \in [Node -> Nat], InOrder(r, rank, TicksLeft),
         NEW x \in Timer, r.next[x] = x, NEW t \in 0 .. RT_TICK_MAX, TicksUntil(t) \in Windowed,
         \A y \in Timer : r.next[y] # y => TicksLeft[y] \in Windowed,
         NEW later \in [Timer -> Int], later[x] = TicksUntil(t),
         \A y \in Timer \ {x} : later[y] = TicksLeft[y]
  PROVE  \E up \in [Node -> Nat] : InOrder(Insert(r, x, t), up, later)
<1> DEFINE l == RowHead(r, t)
           m == r.next[l]
<1>1. /\ l \in Node /\ l # x /\ (l = rt_timer_list \/ r.next[l] # l) /\ m \in Node
      /\ Insert(r, x, t) = rt_list_insert_after(r, l, x)
  BY RowHeadIsLinked, TimerAssumption DEF Insert, Heap
<1>2. /\ l # rt_timer_list => r.next[l] # l /\ ~Later(timeout_tick[l], t)
      /\ m # rt_timer_list => r.next[m] # m /\ Later(timeout_tick[m], t)
  BY RowPlace
<1> HIDE DEF l, m
<1>3. TicksLeft \in [Timer -> Int] /\ \A y \in Timer : TicksLeft[y] = TicksUntil(timeout_tick[y])
  BY TicksLeftType
<1>4. ASSUME NEW y \in Timer, r.next[y] # y
      PROVE  /\ y # x /\ later[y] = TicksLeft[y]
             /\ Later(timeout_tick[y], t) <=> later[x] < later[y]
  <2>1. y # x /\ later[y] = TicksLeft[y] /\ TicksLeft[y] \in Windowed
    BY <1>4
  <2>2. timeout_tick[y] \in 0 .. RT_TICK_MAX /\ TicksLeft[y] = TicksUntil(timeout_tick[y])
    BY <1>3 DEF SoundFields
  <2>3. Later(timeout_tick[y], t) <=> TicksUntil(t) < TicksUntil(timeout_tick[y])
    BY <2>1, <2>2, LaterIsLater
  <2> QED
    BY <2>1, <2>2, <2>3
<1>5. l # rt_timer_list => later[l] <= later[x]
  <2> SUFFICES ASSUME l # rt_timer_list PROVE later[l] <= later[x]
    OBVIOUS
  <2>1. l \in Timer /\ r.next[l] # l /\ ~Later(timeout_tick[l], t)
    BY <1>1, <1>2 DEF Node
  <2> QED
    BY <1>4, <2>1
<1>6. m # rt_timer_list => later[x] <= later[m]
  <2> SUFFICES ASSUME m # rt_timer_list PROVE later[x] <= later[m]
    OBVIOUS
  <2>1. m \in Timer /\ r.next[m] # m /\ Later(timeout_tick[m], t)
    BY <1>1, <1>2 DEF Node
  <2> QED
    BY <1>4, <2>1
<1> QED
  BY <1>1, <1>3, <1>5, <1>6, OrderGains DEF m

-----------------------------------------------------------------------------
(* TimerList implements Countdown.                                         *)

\* Countdown's variables in terms of the timers.
PLeft == [x \in {y \in Timer : Pending(y)} |-> TicksUntil(timeout_tick[x])]
PBegun == [x \in {y \in Timer : AboutToInsert(y)} |-> TicksUntil(timeout_tick[x])]
PTime == [x \in Timer |-> {init_tick[x]}]
PPeriodic == {x \in Timer : "periodic" \in flag[x]}
Checking == isr.at # "none"
PTaken == IF isr.at = "callback" THEN isr.timer ELSE rt_timer_list
PFired == IF isr.at = "called" THEN {isr.timer} ELSE {}
Mapped == <<PLeft, PBegun, PTime, PPeriodic, Checking, PTaken, PFired>>

\* The ticks left without timer x, and with d ticks left for it.
Losing(x) == Promised!Without(PLeft, x)
Gaining(x, d) == Promised!With(PLeft, x, d)

\* The list is sorted; a pending timer is in the window, in which ticks are
\* compared right, and stays in it in the next tick; so is one that is about to
\* be inserted.
Order == \E rank \in [Node -> Nat] : InOrder(ring, rank, TicksLeft)
Window ==
    \A x \in Timer : Pending(x) =>
        /\ TicksUntil(timeout_tick[x]) \in Windowed
        /\ isr.at = "none" => TicksUntil(timeout_tick[x]) >= 1 - Patience
StartWindow ==
    \A t \in Thread : pc[t].at = "start_insert" =>
        TicksUntil(timeout_tick[pc[t].timer]) \in 1 - Patience .. MaxTime
Timely == Order /\ Window /\ StartWindow

\* What a step does to the ticks left.
SameTicks(x) == UNCHANGED TicksUntil(timeout_tick[x])

LEMMA LeftStays ==
  ASSUME \A y \in Timer : (Pending(y)' <=> Pending(y)) /\ (Pending(y) => SameTicks(y))
  PROVE  PLeft' = PLeft
<1> DEFINE S == {y \in Timer : Pending(y)}
<1>1. S' = S
  OBVIOUS
<1>2. \A x \in S : TicksUntil(timeout_tick[x])' = TicksUntil(timeout_tick[x])
  BY DEF SameTicks
<1>3. PLeft = [x \in S |-> TicksUntil(timeout_tick[x])]
  BY DEF PLeft
<1>4. PLeft' = [x \in S' |-> TicksUntil(timeout_tick[x])']
  BY DEF PLeft
<1> HIDE DEF S
<1> QED
  BY <1>1, <1>2, <1>3, <1>4

LEMMA LeftLoses ==
  ASSUME NEW x \in Timer, \A y \in Timer : Pending(y)' <=> Pending(y) /\ y # x,
         \A y \in Timer \ {x} : SameTicks(y)
  PROVE  PLeft' = Losing(x)
<1> DEFINE S == {y \in Timer : Pending(y)}
<1>1. S' = S \ {x}
  OBVIOUS
<1>2. \A y \in S \ {x} : TicksUntil(timeout_tick[y])' = TicksUntil(timeout_tick[y])
  BY DEF SameTicks
<1>3. PLeft = [y \in S |-> TicksUntil(timeout_tick[y])]
  BY DEF PLeft
<1>4. PLeft' = [y \in S' |-> TicksUntil(timeout_tick[y])']
  BY DEF PLeft
<1> HIDE DEF S
<1>5. DOMAIN PLeft = S /\ \A y \in S : PLeft[y] = TicksUntil(timeout_tick[y])
  BY <1>3
<1> QED
  BY <1>1, <1>2, <1>4, <1>5 DEF Losing, Promised!Without

LEMMA LeftGains ==
  ASSUME NEW x \in Timer, \A y \in Timer : Pending(y)' <=> Pending(y) \/ y = x,
         \A y \in Timer \ {x} : SameTicks(y)
  PROVE  PLeft' = Gaining(x, TicksUntil(timeout_tick[x])')
<1> DEFINE S == {y \in Timer : Pending(y)}
<1>1. S' = S \cup {x}
  OBVIOUS
<1>2. \A y \in S \ {x} : TicksUntil(timeout_tick[y])' = TicksUntil(timeout_tick[y])
  BY DEF SameTicks
<1>3. PLeft = [y \in S |-> TicksUntil(timeout_tick[y])]
  BY DEF PLeft
<1>4. PLeft' = [y \in S' |-> TicksUntil(timeout_tick[y])']
  BY DEF PLeft
<1> HIDE DEF S
<1>5. DOMAIN PLeft = S /\ \A y \in S : PLeft[y] = TicksUntil(timeout_tick[y])
  BY <1>3
<1> QED
  BY <1>1, <1>2, <1>4, <1>5 DEF Gaining, Promised!With

\* A step that leaves the list and the ticks alone.
LEMMA TimelyStays ==
  ASSUME Timely, UNCHANGED <<rt_tick, ring, timeout_tick>>, isr'.at = "none" => isr.at = "none",
         \A t \in Thread : pc'[t].at = "start_insert" => pc'[t] = pc[t]
  PROVE  Timely' /\ PLeft' = PLeft
<1>1. \A y : (Pending(y)' <=> Pending(y)) /\ SameTicks(y)
  BY DEF Pending, SameTicks, TicksUntil
<1>2. TicksLeft' = TicksLeft
  BY <1>1 DEF TicksLeft, SameTicks
<1>3. Order'
  BY <1>2 DEF Timely, Order
<1>4. Window'
  BY <1>1 DEF Timely, Window, SameTicks
<1>5. StartWindow'
  BY <1>1 DEF Timely, StartWindow, SameTicks
<1> QED
  BY <1>1, <1>3, <1>4, <1>5, LeftStays DEF Timely

\* A step that removes timer x.
LEMMA TimelyLoses ==
  ASSUME ListSound, Timely, NEW x \in Timer, _rt_timer_remove(x), rt_tick' = rt_tick,
         isr'.at = "none" => isr.at = "none",
         \A t \in Thread : pc'[t].at = "start_insert" => pc'[t] = pc[t]
  PROVE  /\ Timely' /\ \A y \in Timer : Pending(y)' <=> Pending(y) /\ y # x
         /\ PLeft' = Losing(x)
<1>1. /\ ring' = rt_list_remove(ring, x) /\ timeout_tick' \in [Timer -> 0 .. RT_TICK_MAX]
      /\ \A y \in Timer : y # x \/ AboutToInsert(x) => timeout_tick'[y] = timeout_tick[y]
      /\ SoundFields /\ rt_tick \in 0 .. RT_TICK_MAX
  BY FieldsOf, RemoveStep DEF _rt_timer_remove
<1>2. \A y \in Timer : y # x \/ AboutToInsert(x) => SameTicks(y)
  BY <1>1 DEF SameTicks, TicksUntil, TickDiff
<1>3. TicksLeft \in [Timer -> Int] /\ \A y \in Timer : TicksLeft[y] = TicksUntil(timeout_tick[y])
  BY <1>1, TicksLeftType
<1>4. /\ TicksLeft' \in [Timer -> Int]
      /\ \A y \in Timer : TicksLeft'[y] = TicksUntil(timeout_tick[y])'
  <2>1. \A a \in 0 .. RT_TICK_MAX : TicksUntil(a) \in Int /\ TicksUntil(a)' = TicksUntil(a)
    BY <1>1, UntilCases DEF TicksUntil, TickDiff
  <2> QED
    BY <1>1, <2>1 DEF TicksLeft, TicksUntil, TickDiff
<1>5. \A y \in Timer \ {x} : TicksLeft'[y] = TicksLeft[y]
  BY <1>2, <1>3, <1>4 DEF SameTicks
<1>6. PICK rank \in [Node -> Nat] : InOrder(ring, rank, TicksLeft)
  BY DEF Timely, Order
<1>7. /\ InOrder(ring', rank, TicksLeft')
      /\ ring'.next[x] = x
      /\ \A y \in Timer \ {x} : ring'.next[y] # y <=> ring.next[y] # y
  <2> DEFINE later == TicksLeft'
  <2>1. later \in [Timer -> Int] /\ \A y \in Timer \ {x} : later[y] = TicksLeft[y]
    BY <1>4, <1>5
  <2> HIDE DEF later
  <2>2. /\ InOrder(ring', rank, later)
        /\ \A y \in Timer \ {x} : ring'.next[y] # y <=> ring.next[y] # y
    BY <1>1, <1>3, <1>6, <2>1, OrderLoses DEF SoundFields
  <2>3. ring'.next[x] = x
    BY <1>1, Removed DEF SoundFields
  <2> QED
    BY <2>2, <2>3 DEF later
<1>8. \A y \in Timer : Pending(y)' <=> Pending(y) /\ y # x
  BY <1>7 DEF Pending
<1>9. Order'
  BY <1>7 DEF Order
<1>10. Window'
  BY <1>2, <1>8 DEF Timely, Window, SameTicks
<1>11. StartWindow'
  <2> SUFFICES ASSUME NEW t \in Thread, pc'[t].at = "start_insert"
               PROVE  TicksUntil(timeout_tick[pc[t].timer])' \in 1 - Patience .. MaxTime
    BY DEF StartWindow
  <2> DEFINE z == pc[t].timer
  <2>1. /\ pc'[t] = pc[t] /\ pc[t].at = "start_insert" /\ z \in Timer
        /\ TicksUntil(timeout_tick[z]) \in 1 - Patience .. MaxTime
    BY DEF ListSound, Places, Timely, StartWindow
  <2>2. z # x \/ AboutToInsert(x)
    BY <2>1 DEF AboutToInsert
  <2>3. SameTicks(z)
    BY <1>2, <2>1, <2>2
  <2> QED
    BY <2>1, <2>3 DEF SameTicks
<1> QED
  BY <1>2, <1>8, <1>9, <1>10, <1>11, LeftLoses DEF Timely

\* A step that inserts timer x with tick t into the list r.
LEMMA TimelyGains ==
  ASSUME SoundFields, rt_tick \in 0 .. RT_TICK_MAX, Timely, NEW x \in Timer,
         NEW r \in Heap, Rings(r), r.next[x] = x,
         NEW rank \in [Node -> Nat], InOrder(r, rank, TicksLeft),
         \A y \in Timer \ {x} : r.next[y] # y <=> ring.next[y] # y,
         NEW t \in 0 .. RT_TICK_MAX, TicksUntil(t) \in 1 - Patience .. MaxTime,
         ring' = Insert(r, x, t), timeout_tick' = [timeout_tick EXCEPT ![x] = t],
         rt_tick' = rt_tick, isr'.at = "none" => isr.at = "none",
         \A u \in Thread :
            pc'[u].at = "start_insert" => pc'[u] = pc[u] /\ pc[u].timer \in Timer \ {x}
  PROVE  Timely' /\ PLeft' = Gaining(x, TicksUntil(t))
<1>1. /\ timeout_tick' \in [Timer -> 0 .. RT_TICK_MAX] /\ timeout_tick'[x] = t
      /\ \A y \in Timer \ {x} : timeout_tick'[y] = timeout_tick[y]
  BY DEF SoundFields
<1>2. /\ TicksUntil(timeout_tick[x])' = TicksUntil(t)
      /\ \A y \in Timer \ {x} : SameTicks(y)
  BY <1>1 DEF SameTicks, TicksUntil, TickDiff
<1>3. TicksLeft \in [Timer -> Int] /\ \A y \in Timer : TicksLeft[y] = TicksUntil(timeout_tick[y])
  BY TicksLeftType
<1>4. /\ TicksLeft' \in [Timer -> Int]
      /\ \A y \in Timer : TicksLeft'[y] = TicksUntil(timeout_tick[y])'
  <2>1. \A a \in 0 .. RT_TICK_MAX : TicksUntil(a) \in Int /\ TicksUntil(a)' = TicksUntil(a)
    BY UntilCases DEF TicksUntil, TickDiff
  <2> QED
    BY <1>1, <2>1 DEF TicksLeft, TicksUntil, TickDiff
<1>5. TicksLeft'[x] = TicksUntil(t) /\ \A y \in Timer \ {x} : TicksLeft'[y] = TicksLeft[y]
  BY <1>2, <1>3, <1>4 DEF SameTicks
<1>6. \A y \in Timer : r.next[y] # y => TicksLeft[y] \in Windowed
  BY <1>3 DEF Timely, Window, Pending
<1>7. TicksUntil(t) \in Windowed
  BY HalfBounds DEF Windowed
<1>8. Order'
  <2> DEFINE later == TicksLeft'
  <2>1. /\ later \in [Timer -> Int] /\ later[x] = TicksUntil(t)
        /\ \A y \in Timer \ {x} : later[y] = TicksLeft[y]
    BY <1>4, <1>5
  <2> HIDE DEF later
  <2>2. \E up \in [Node -> Nat] : InOrder(ring', up, later)
    BY <1>6, <1>7, <2>1, InsertInOrder
  <2> QED
    BY <2>2 DEF Order, later
<1>9. \A y \in Timer : Pending(y)' <=> Pending(y) \/ y = x
  BY Inserted DEF Pending
<1>10. Window'
  BY <1>2, <1>7, <1>9 DEF Timely, Window, SameTicks
<1>11. StartWindow'
  BY <1>2 DEF Timely, StartWindow, SameTicks
<1> QED
  BY <1>2, <1>8, <1>9, <1>10, <1>11, LeftGains DEF Timely

\* rt_timer_start as one step, of a timer that no thread is starting.
LEMMA TimelyStarts ==
  ASSUME ListSound, Timely, NEW x \in Timer, StartNow(x), rt_tick' = rt_tick,
         isr'.at = "none" => isr.at = "none", pc' = pc,
         \A u \in Thread : Starting(u) => pc[u].timer # x
  PROVE  Timely' /\ PLeft' = Gaining(x, init_tick[x])
<1> DEFINE t == (rt_tick + init_tick[x]) % TickRange
           r == rt_list_remove(ring, x)
<1>1. /\ SoundFields /\ rt_tick \in 0 .. RT_TICK_MAX /\ init_tick[x] \in 1 .. MaxTime
      /\ TicksLeft \in [Timer -> Int]
  BY FieldsOf, TicksLeftType DEF SoundFields
<1>2. t \in 0 .. RT_TICK_MAX /\ TicksUntil(t) = init_tick[x]
  BY <1>1, StartedUntil
<1>3. ring' = Insert(r, x, t) /\ timeout_tick' = [timeout_tick EXCEPT ![x] = t]
  BY DEF StartNow
<1>4. PICK rank \in [Node -> Nat] : InOrder(ring, rank, TicksLeft)
  BY DEF Timely, Order
<1>5. /\ r \in Heap /\ Rings(r) /\ r.next[x] = x /\ InOrder(r, rank, TicksLeft)
      /\ \A y \in Timer \ {x} : r.next[y] # y <=> ring.next[y] # y
  BY <1>1, <1>4, Removed, OrderLoses DEF SoundFields
<1> HIDE DEF t, r
<1>6. \A u \in Thread : pc[u].at = "start_insert" => pc[u].timer \in Timer \ {x}
  BY StartingTimer DEF Starting
<1>7. TicksUntil(t) \in 1 - Patience .. MaxTime /\ TicksUntil(t) \in Windowed
  BY <1>1, <1>2, HalfBounds DEF Windowed
<1> QED
  BY <1>1, <1>2, <1>3, <1>5, <1>6, <1>7, TimelyGains

\* The starts under way, when no thread comes to the insertion or leaves it.
LEMMA BegunStays ==
  ASSUME \A t \in Thread :
            pc[t].at = "start_insert" \/ pc'[t].at = "start_insert" => pc'[t] = pc[t],
         \A y \in Timer : AboutToInsert(y) => SameTicks(y)
  PROVE  PBegun' = PBegun
<1> DEFINE S == {y \in Timer : AboutToInsert(y)}
<1>1. \A y \in Timer : AboutToInsert(y)' <=> AboutToInsert(y)
  BY DEF AboutToInsert
<1>2. S' = S
  BY <1>1
<1>3. \A y \in S : TicksUntil(timeout_tick[y])' = TicksUntil(timeout_tick[y])
  BY DEF SameTicks
<1>4. PBegun = [y \in S |-> TicksUntil(timeout_tick[y])]
  BY DEF PBegun
<1>5. PBegun' = [y \in S' |-> TicksUntil(timeout_tick[y])']
  BY DEF PBegun
<1> HIDE DEF S
<1> QED
  BY <1>2, <1>3, <1>4, <1>5

\* The ticks of the other timers, in a step that does not count.
LEMMA OtherTicks ==
  ASSUME SoundFields, rt_tick' = rt_tick, NEW x \in Timer, NEW a,
         timeout_tick' = [timeout_tick EXCEPT ![x] = a]
  PROVE  \A y \in Timer \ {x} : SameTicks(y)
<1>1. \A y \in Timer \ {x} : timeout_tick'[y] = timeout_tick[y]
  BY DEF SoundFields
<1> QED
  BY <1>1 DEF SameTicks, TicksUntil, TickDiff

\* Taking a timer out leaves the starts under way alone.
LEMMA BegunByRemove ==
  ASSUME ListSound, NEW x \in Timer, _rt_timer_remove(x), rt_tick' = rt_tick,
         \A t \in Thread :
            pc[t].at = "start_insert" \/ pc'[t].at = "start_insert" => pc'[t] = pc[t]
  PROVE  PBegun' = PBegun
<1>1. \A y \in Timer : y # x \/ AboutToInsert(x) => timeout_tick'[y] = timeout_tick[y]
  BY FieldsOf, RemoveStep
<1>2. \A y \in Timer : AboutToInsert(y) => SameTicks(y)
  BY <1>1 DEF SameTicks, TicksUntil, TickDiff
<1> QED
  BY <1>2, BegunStays

\* So does a start in one step, of a timer that no thread is starting.
LEMMA BegunByStart ==
  ASSUME ListSound, NEW x \in Timer, StartNow(x), rt_tick' = rt_tick, pc' = pc,
         \A u \in Thread : Starting(u) => pc[u].timer # x
  PROVE  PBegun' = PBegun /\ PTime' = PTime /\ PPeriodic' = PPeriodic
<1>1. ~AboutToInsert(x)
  BY DEF AboutToInsert, Starting
<1>2. \A y \in Timer \ {x} : SameTicks(y)
  BY FieldsOf, OtherTicks DEF StartNow
<1>3. PBegun' = PBegun
  BY <1>1, <1>2, BegunStays
<1>4. PTime' = PTime
  BY DEF StartNow, PTime
<1>5. \A y \in Timer : "periodic" \in flag'[y] <=> "periodic" \in flag[y]
  BY FieldsOf DEF StartNow, SoundFields
<1>6. PPeriodic' = PPeriodic
  BY <1>5 DEF PPeriodic
<1> QED
  BY <1>3, <1>4, <1>6

\* Each step is one of Countdown, or it changes none of its variables.
Refined == [Promised!CountdownNext]_Mapped

\* Countdown, and its variables.
LEMMA Substituted ==
  /\ Promised!Outside <=>
       ~Checking /\ Checking' = Checking /\ PTaken' = PTaken /\ PFired' \subseteq Timer
  /\ Promised!Handling <=>
       /\ Checking /\ Checking' = Checking
       /\ PBegun' = PBegun /\ PTime' = PTime /\ PPeriodic' = PPeriodic
  /\ \A x \in Timer : Promised!Stops(x) <=> PLeft' = Losing(x)
  /\ \A x \in Timer : Promised!Starts(x) <=> \E d \in PTime[x] : PLeft' = Gaining(x, d)
  /\ \A x \in Timer : PTime[x] = {init_tick[x]}
BY DEF Promised!Outside, Promised!Handling, Promised!Stops, Promised!Starts, Losing, Gaining,
   PLeft, PBegun, PTime, PPeriodic, Checking, PTaken, PFired

\* Threads use the timers while the handler is not active.
LEMMA OutsideCall ==
  ASSUME isr = NoHandler, isr' = isr
  PROVE  Promised!Outside
BY Substituted DEF NoHandler, Checking, PTaken, PFired

LEMMA StopRefines ==
  ASSUME NEW x \in Timer, isr = NoHandler, isr' = isr, PLeft' = Losing(x),
         PBegun' = PBegun, PTime' = PTime, PPeriodic' = PPeriodic
  PROVE  Refined
<1>1. Promised!Stop(x)
  BY OutsideCall, Substituted DEF Promised!Stop, PBegun, PTime, PPeriodic
<1> QED
  BY <1>1 DEF Refined, Promised!CountdownNext, Promised!Caller

\* rt_tick_increase is Tick.
LEMMA TickRefines ==
  ASSUME ListSound, Timely, rt_tick_increase
  PROVE  Timely' /\ Refined
<1>1. /\ isr.at = "none" /\ isr'.at = "check" /\ UNCHANGED <<ring, fields, pc>>
      /\ timeout_tick' = timeout_tick /\ rt_tick' = (rt_tick + 1) % TickRange
      /\ \A t \in Thread : pc[t].at = "start_insert" => Delayed(t) < Patience
  BY DEF rt_tick_increase, NoHandler, fields
<1>2. /\ SoundFields /\ rt_tick \in 0 .. RT_TICK_MAX
      /\ timeout_tick \in [Timer -> 0 .. RT_TICK_MAX] /\ init_tick \in [Timer -> 1 .. MaxTime]
  BY FieldsOf DEF SoundFields
<1>3. \A x \in Timer : Pending(x)' <=> Pending(x)
  BY <1>1 DEF Pending
<1>4. ASSUME NEW x \in Timer, TicksUntil(timeout_tick[x]) \in 1 - Patience .. MaxTime
      PROVE  TicksUntil(timeout_tick[x])' = TicksUntil(timeout_tick[x]) - 1
  <2> DEFINE a == timeout_tick[x]
  <2>1. PICK b \in 0 .. RT_TICK_MAX : b = a
    BY <1>2
  <2>2. TicksUntil(b)' = TicksUntil(b) - 1
    BY <1>1, <1>2, <1>4, <2>1, TickUntil
  <2>3. b = a'
    BY <1>1, <2>1
  <2> QED
    BY <2>1, <2>2, <2>3 DEF TicksUntil
<1>5. ASSUME NEW x \in Timer, Pending(x)
      PROVE  /\ TicksUntil(timeout_tick[x]) \in 1 - Patience .. MaxTime
             /\ TicksUntil(timeout_tick[x])' = TicksUntil(timeout_tick[x]) - 1
  <2>1. TicksUntil(timeout_tick[x]) \in 1 - Patience .. MaxTime
    BY <1>1, <1>5, HalfBounds DEF Timely, Window, Windowed
  <2> QED
    BY <1>4, <2>1
<1>6. Order'
  <2>1. PICK rank \in [Node -> Nat] : InOrder(ring, rank, TicksLeft)
    BY DEF Timely, Order
  <2>2. ASSUME NEW n \in Timer, NEW m \in Timer, ring.next[n] = m, m # n
        PROVE  TicksLeft'[n] <= TicksLeft'[m]
    <3>1. Pending(n) /\ Pending(m)
      BY <1>2, <2>2, NodesFinite DEF Pending, SoundFields, Heap, Rings
    <3>2. TicksLeft[n] <= TicksLeft[m]
      BY <2>1, <2>2, NodesFinite, TimerAssumption DEF InOrder
    <3> QED
      BY <1>5, <3>1, <3>2, HalfBounds DEF TicksLeft
  <2>3. ring' = ring /\ ring.next \in [Node -> Node]
    BY <1>1, <1>2 DEF SoundFields, Heap
  <2>4. InOrder(ring', rank, TicksLeft')
    BY <2>1, <2>2, <2>3 DEF InOrder, Node
  <2> QED
    BY <2>4 DEF Order
<1>7. Window'
  BY <1>1, <1>3, <1>5, HalfBounds DEF Window, Windowed
<1>8. StartWindow'
  <2> SUFFICES ASSUME NEW t \in Thread, pc'[t].at = "start_insert"
               PROVE  TicksUntil(timeout_tick[pc[t].timer])' \in 1 - Patience .. MaxTime
    BY DEF StartWindow
  <2>1. PICK x \in Timer : x = pc[t].timer
    BY <1>1 DEF ListSound, Places
  <2>2. /\ TicksUntil(timeout_tick[x]) \in 1 - Patience .. MaxTime
        /\ Delayed(t) < Patience
    BY <1>1, <2>1 DEF Timely, StartWindow
  <2>3. TicksUntil(timeout_tick[x]) \in 2 - Patience .. MaxTime
    BY <1>2, <2>1, <2>2, DelayedUntil
  <2>4. TicksUntil(timeout_tick[x])' \in 1 - Patience .. MaxTime
    BY <1>4, <2>2, <2>3, HalfBounds
  <2> QED
    BY <1>1, <2>1, <2>4
<1>9. PLeft' = Promised!CountedDown(PLeft)
  <2> DEFINE S == {y \in Timer : Pending(y)}
  <2>1. S' = S
    BY <1>3
  <2>2. \A y \in S : TicksUntil(timeout_tick[y])' = TicksUntil(timeout_tick[y]) - 1
    BY <1>5
  <2>3. PLeft = [y \in S |-> TicksUntil(timeout_tick[y])]
    BY DEF PLeft
  <2>4. PLeft' = [y \in S' |-> TicksUntil(timeout_tick[y])']
    BY DEF PLeft
  <2> HIDE DEF S
  <2> QED
    BY <2>1, <2>2, <2>3, <2>4 DEF Promised!CountedDown
<1>10. PBegun' = Promised!CountedDown(PBegun)
  <2> DEFINE S == {y \in Timer : AboutToInsert(y)}
  <2>1. S' = S
    BY <1>1 DEF AboutToInsert
  <2>2. ASSUME NEW y \in S
        PROVE  TicksUntil(timeout_tick[y])' = TicksUntil(timeout_tick[y]) - 1
    <3>1. TicksUntil(timeout_tick[y]) \in 1 - Patience .. MaxTime
      BY DEF AboutToInsert, Timely, StartWindow
    <3> QED
      BY <1>4, <3>1
  <2>3. PBegun = [y \in S |-> TicksUntil(timeout_tick[y])]
    BY DEF PBegun
  <2>4. PBegun' = [y \in S' |-> TicksUntil(timeout_tick[y])']
    BY DEF PBegun
  <2> HIDE DEF S
  <2> QED
    BY <2>1, <2>2, <2>3, <2>4 DEF Promised!CountedDown
<1>11. UNCHANGED <<PTime, PPeriodic, PTaken, PFired>> /\ ~Checking /\ Checking'
  BY <1>1 DEF fields, PTime, PPeriodic, Checking, PTaken, PFired
<1>12. Promised!Tick
  BY <1>9, <1>10, <1>11
  DEF Promised!Tick, PLeft, PBegun, PTime, PPeriodic, Checking, PTaken, PFired
<1> QED
  BY <1>6, <1>7, <1>8, <1>12 DEF Timely, Refined, Promised!CountdownNext

\* The first timer, once it has expired, is due the longest.
LEMMA FirstIsDue ==
  ASSUME ListSound, Timely, ~rt_list_isempty(ring, rt_timer_list)
  PROVE  /\ First \in Timer /\ Pending(First)
         /\ Expired(First) <=> TicksUntil(timeout_tick[First]) <= 0
         /\ \A y \in Timer : Pending(y) =>
               TicksUntil(timeout_tick[First]) <= TicksUntil(timeout_tick[y])
<1>1. /\ SoundFields /\ rt_tick \in 0 .. RT_TICK_MAX
      /\ timeout_tick \in [Timer -> 0 .. RT_TICK_MAX]
      /\ ring \in Heap /\ Rings(ring)
  BY FieldsOf DEF SoundFields
<1>2. First \in Timer /\ Pending(First)
  BY FirstPending
<1>3. TicksUntil(timeout_tick[First]) \in Windowed
  BY <1>2 DEF Timely, Window
<1>4. Expired(First) <=> TicksUntil(timeout_tick[First]) <= 0
  <2>1. timeout_tick[First] \in 0 .. RT_TICK_MAX
    BY <1>1, <1>2
  <2> QED
    BY <1>1, <1>3, <2>1, ExpiredIsDue
<1>5. ASSUME NEW y \in Timer, Pending(y)
      PROVE  TicksUntil(timeout_tick[First]) <= TicksUntil(timeout_tick[y])
  <2>1. PICK rank \in [Node -> Nat] : InOrder(ring, rank, TicksLeft)
    BY DEF Timely, Order
  <2>2. TicksLeft \in [Timer -> Int] /\ \A z \in Timer : TicksLeft[z] = TicksUntil(timeout_tick[z])
    BY <1>1, TicksLeftType
  <2>3. ring.next[y] # y
    BY <1>5 DEF Pending
  <2>4. TicksLeft[ring.next[rt_timer_list]] <= TicksLeft[y]
    BY <1>1, <2>1, <2>2, <2>3, FirstIsLeast
  <2> QED
    BY <1>2, <2>2, <2>4 DEF First
<1> QED
  BY <1>2, <1>4, <1>5

\* The timer that rt_timer_check takes out is due, the longest.
LEMMA CheckRefines ==
  ASSUME ListSound, Timely, rt_timer_check
  PROVE  Timely' /\ Refined
<1>1. /\ isr.at = "check" /\ isr'.at = "callback" /\ pc' = pc /\ rt_tick' = rt_tick
      /\ ~rt_list_isempty(ring, rt_timer_list) /\ Expired(First)
  BY DEF rt_timer_check, FirstExpired
<1>2. PICK x \in Timer : x = First
  BY <1>1, FirstIsDue
<1>3. /\ Pending(x) /\ TicksUntil(timeout_tick[x]) <= 0
      /\ \A y \in Timer : Pending(y) => TicksUntil(timeout_tick[x]) <= TicksUntil(timeout_tick[y])
  BY <1>1, <1>2, FirstIsDue
<1>4. _rt_timer_remove(x)
  BY <1>2 DEF rt_timer_check
<1>5. Timely' /\ PLeft' = Losing(x)
  BY <1>1, <1>4, TimelyLoses
<1>6. /\ x \in DOMAIN PLeft /\ PLeft[x] <= 0
      /\ \A y \in DOMAIN PLeft : PLeft[x] <= PLeft[y]
  BY <1>3 DEF PLeft
<1>7. PBegun' = PBegun /\ PTime' = PTime /\ PPeriodic' = PPeriodic
  <2>1. PBegun' = PBegun
    BY <1>1, <1>4, BegunByRemove
  <2> QED
    BY <2>1 DEF rt_timer_check, PTime, PPeriodic
<1>8. /\ Checking /\ Checking' /\ PTaken = rt_timer_list /\ PTaken' = x
      /\ PFired = {} /\ PFired' = {}
  BY <1>1, <1>2 DEF rt_timer_check, Checking, PTaken, PFired
<1>9. Promised!Handling /\ Promised!Stops(x)
  BY <1>5, <1>7, <1>8, Substituted
<1>10. Promised!Due(x)
  BY <1>6, <1>8 DEF Promised!Due, PLeft, PTaken
<1>11. Promised!Expire(x)
  BY <1>8, <1>9, <1>10 DEF Promised!Expire, PTaken, PFired
<1> QED
  BY <1>5, <1>11 DEF Refined, Promised!CountdownNext, Promised!Handler

\* rt_timer_check returns when nobody is due.
LEMMA DoneRefines ==
  ASSUME ListSound, Timely, CheckDone
  PROVE  Timely' /\ Refined
<1>1. /\ isr.at = "check" /\ isr'.at = "none" /\ pc' = pc
      /\ UNCHANGED <<rt_tick, ring, timeout_tick>> /\ ~FirstExpired
  BY DEF CheckDone, NoHandler, fields
<1>2. \A y : (Pending(y)' <=> Pending(y)) /\ SameTicks(y)
  BY <1>1 DEF Pending, SameTicks, TicksUntil
<1>3. ASSUME NEW y \in Timer, Pending(y)
      PROVE  TicksUntil(timeout_tick[y]) \in 1 .. MaxTime
  <2>1. TicksUntil(timeout_tick[y]) \in Windowed
    BY <1>3 DEF Timely, Window
  <2>2. ~rt_list_isempty(ring, rt_timer_list)
    <3>1. PICK rank \in [Node -> Nat] : InOrder(ring, rank, TicksLeft)
      BY DEF Timely, Order
    <3>2. ring \in Heap /\ Rings(ring) /\ TicksLeft \in [Timer -> Int] /\ ring.next[y] # y
      BY <1>3, FieldsOf, TicksLeftType DEF SoundFields, Pending
    <3>3. ring.next[rt_timer_list] \in Timer
      BY <3>1, <3>2, FirstIsLeast
    <3> QED
      BY <3>3, TimerAssumption DEF rt_list_isempty
  <2>3. /\ First \in Timer /\ ~(TicksUntil(timeout_tick[First]) <= 0) /\ Pending(First)
        /\ TicksUntil(timeout_tick[First]) <= TicksUntil(timeout_tick[y])
    BY <1>1, <1>3, <2>2, FirstIsDue DEF FirstExpired
  <2>4. TicksUntil(timeout_tick[First]) \in Windowed
    BY <2>3 DEF Timely, Window
  <2> QED
    BY <2>1, <2>3, <2>4, HalfBounds DEF Windowed
<1>4. Order'
  <2>1. TicksLeft' = TicksLeft
    BY <1>2 DEF TicksLeft, SameTicks
  <2> QED
    BY <1>1, <2>1 DEF Timely, Order
<1>5. Window'
  BY <1>2, <1>3, HalfBounds DEF Window, SameTicks, Windowed
<1>6. StartWindow'
  BY <1>1, <1>2 DEF Timely, StartWindow, SameTicks
<1>7. PLeft' = PLeft
  BY <1>2, LeftStays
<1>8. \A y \in DOMAIN PLeft : PLeft[y] > 0
  BY <1>3 DEF PLeft
<1>9. PBegun' = PBegun /\ PTime' = PTime /\ PPeriodic' = PPeriodic
  <2>1. PBegun' = PBegun
    BY <1>1, <1>2, BegunStays
  <2> QED
    BY <2>1 DEF CheckDone, fields, PTime, PPeriodic
<1>10. /\ Checking /\ ~Checking' /\ PTaken = rt_timer_list /\ PTaken' = PTaken
       /\ PFired' = PFired
  BY <1>1 DEF Checking, PTaken, PFired
<1>11. Promised!CheckDone
  BY <1>7, <1>8, <1>9, <1>10
  DEF Promised!CheckDone, PLeft, PBegun, PTime, PPeriodic, Checking, PTaken, PFired
<1> QED
  BY <1>4, <1>5, <1>6, <1>11 DEF Timely, Refined, Promised!CountdownNext, Promised!Handler

\* A stop leaves the times and the modes alone.
LEMMA StoppedFields ==
  ASSUME ListSound, NEW x \in Timer, StopNow(x)
  PROVE  PTime' = PTime /\ PPeriodic' = PPeriodic
<1>1. \A y \in Timer : "periodic" \in flag'[y] <=> "periodic" \in flag[y]
  BY FieldsOf DEF StopNow, SoundFields
<1> QED
  BY <1>1 DEF StopNow, PTime, PPeriodic

\* The function of the timer taken out is called: it starts a timer, stops one,
\* or does something else.
LEMMA CallbackRefines ==
  ASSUME StartsAlone, ListSound, Timely, timeout_func
  PROVE  Timely' /\ Refined
<1>1. /\ isr.at = "callback" /\ isr'.at = "called" /\ isr'.timer = isr.timer
      /\ isr.timer \in Timer /\ pc' = pc /\ rt_tick' = rt_tick
  BY FieldsOf DEF timeout_func, ListSound, Places
<1>2. /\ Checking /\ Checking' = Checking
      /\ PTaken = isr.timer /\ PTaken' = rt_timer_list /\ PTaken # rt_timer_list
      /\ PFired = {} /\ PFired' = PFired \cup {PTaken}
  BY <1>1, TimerAssumption DEF Checking, PTaken, PFired
<1> DEFINE Kept ==
        Timely' /\ PBegun' = PBegun /\ PTime' = PTime /\ PPeriodic' = PPeriodic
<1>3. /\ Kept
      /\ \/ PLeft' = PLeft
         \/ \E y \in Timer : PLeft' = Gaining(y, init_tick[y]) \/ PLeft' = Losing(y)
  <2>1. CASE UNCHANGED <<ring, fields>>
    <3>1. Timely' /\ PLeft' = PLeft
      BY <1>1, <2>1, TimelyStays DEF fields
    <3>2. \A y \in Timer : SameTicks(y)
      BY <1>1, <2>1 DEF fields, SameTicks, TicksUntil, TickDiff
    <3>3. PBegun' = PBegun
      BY <1>1, <3>2, BegunStays
    <3> QED
      BY <2>1, <3>1, <3>3 DEF fields, PTime, PPeriodic
  <2>2. ASSUME NEW y \in Timer, <<"start", y>> \in Callback[isr.timer], StartNow(y)
        PROVE  Kept /\ PLeft' = Gaining(y, init_tick[y])
    <3>1. \A u \in Thread : Starting(u) => pc[u].timer # y
      BY <1>1, <2>2, StartingTimer DEF StartsAlone
    <3> QED
      BY <1>1, <2>2, <3>1, TimelyStarts, BegunByStart
  <2>3. ASSUME NEW y \in Timer, StopNow(y)
        PROVE  Kept /\ (PLeft' = PLeft \/ PLeft' = Losing(y))
    <3>1. CASE "activated" \in flag[y]
      <4>1. Timely' /\ PLeft' = Losing(y) /\ PBegun' = PBegun
        BY <1>1, <2>3, <3>1, TimelyLoses, BegunByRemove DEF StopNow
      <4> QED
        BY <2>3, <4>1, StoppedFields
    <3>2. CASE "activated" \notin flag[y]
      <4>1. Timely' /\ PLeft' = PLeft
        BY <1>1, <2>3, <3>2, TimelyStays DEF StopNow
      <4>2. \A z \in Timer : SameTicks(z)
        BY <1>1, <2>3, <3>2 DEF StopNow, SameTicks, TicksUntil, TickDiff
      <4>3. PBegun' = PBegun
        BY <1>1, <4>2, BegunStays
      <4> QED
        BY <2>3, <4>1, <4>3, StoppedFields
    <3> QED
      BY <3>1, <3>2
  <2> QED
    BY <2>1, <2>2, <2>3 DEF timeout_func
<1>4. Promised!Handling
  BY <1>2, <1>3, Substituted
<1>5. PLeft' = PLeft \/ \E y \in Timer : Promised!Starts(y) \/ Promised!Stops(y)
  BY <1>3, Substituted
<1>6. Promised!Call
  BY <1>2, <1>4, <1>5 DEF Promised!Call, PLeft, PTaken, PFired
<1> QED
  BY <1>3, <1>6 DEF Refined, Promised!CountdownNext, Promised!Handler

\* A periodic timer whose function has returned is started again.
LEMMA RestartRefines ==
  ASSUME ListSound, Timely, RestartPeriodic
  PROVE  Timely' /\ Refined
<1>1. /\ isr.at = "called" /\ isr'.at = "check" /\ pc' = pc /\ rt_tick' = rt_tick
      /\ StartNow(isr.timer) /\ "periodic" \in flag[isr.timer]
  BY DEF RestartPeriodic, NoHandler
<1>2. PICK x \in Timer : x = isr.timer
  BY <1>1 DEF ListSound, Places
<1>3. \A u \in Thread : Starting(u) => pc[u].timer # x
  BY <1>1, <1>2 DEF ListSound, StartsApart
<1>4. Timely' /\ PLeft' = Gaining(x, init_tick[x])
  BY <1>1, <1>2, <1>3, TimelyStarts
<1>5. PBegun' = PBegun /\ PTime' = PTime /\ PPeriodic' = PPeriodic
  BY <1>1, <1>2, <1>3, BegunByStart
<1>6. /\ Checking /\ Checking' = Checking /\ PTaken' = PTaken
      /\ PFired = {x} /\ PFired' = {}
  BY <1>1, <1>2 DEF Checking, PTaken, PFired
<1>7. Promised!Handling /\ Promised!Starts(x)
  BY <1>4, <1>5, <1>6, Substituted
<1>8. Promised!Return(x)
  BY <1>1, <1>2, <1>6, <1>7 DEF Promised!Return, PPeriodic, PTaken, PFired
<1> QED
  BY <1>4, <1>8 DEF Refined, Promised!CountdownNext, Promised!Handler

LEMMA StopOneShotRefines ==
  ASSUME ListSound, Timely, StopOneShot
  PROVE  Timely' /\ Refined
<1>1. /\ isr.at = "called" /\ isr'.at = "check" /\ pc' = pc /\ isr.timer \in Timer
      /\ UNCHANGED <<rt_tick, ring, timeout_tick, init_tick>>
      /\ flag' = [flag EXCEPT ![isr.timer] = @ \ {"activated"}]
  BY DEF StopOneShot, NoHandler, ListSound, Places
<1>2. Timely' /\ PLeft' = PLeft
  BY <1>1, TimelyStays
<1>3. \A y \in Timer : SameTicks(y)
  BY <1>1 DEF SameTicks, TicksUntil, TickDiff
<1>4. PBegun' = PBegun
  BY <1>1, <1>3, BegunStays
<1>5. PTime' = PTime
  BY <1>1 DEF PTime
<1>6. PPeriodic' = PPeriodic
  <2>1. \A y \in Timer : "periodic" \in flag'[y] <=> "periodic" \in flag[y]
    BY <1>1, FieldsOf DEF SoundFields
  <2> QED
    BY <2>1 DEF PPeriodic
<1>7. /\ Checking /\ Checking' = Checking /\ PTaken' = PTaken
      /\ PFired = {isr.timer} /\ PFired' = {}
  BY <1>1 DEF Checking, PTaken, PFired
<1>8. Promised!Handling
  BY <1>4, <1>5, <1>6, <1>7, Substituted
<1>9. Promised!Return(isr.timer)
  BY <1>2, <1>7, <1>8 DEF Promised!Return, PLeft, PTaken, PFired
<1> QED
  BY <1>1, <1>2, <1>9 DEF Refined, Promised!CountdownNext, Promised!Handler

\* The steps of a call that leave the list and the ticks alone.
LEMMA QuietCall ==
  ASSUME ListSound, Timely, NEW t \in Thread, pc[t].at # "start_insert",
         UNCHANGED <<rt_tick, ring, timeout_tick, isr>>,
         pc' = pc \/ \E p : pc' = [pc EXCEPT ![t] = p] /\ p.at # "start_insert"
  PROVE  /\ Timely' /\ PLeft' = PLeft /\ PBegun' = PBegun
         /\ Checking' = Checking /\ PTaken' = PTaken /\ PFired' = PFired
<1>1. \A u \in Thread :
        pc[u].at = "start_insert" \/ pc'[u].at = "start_insert" => pc'[u] = pc[u]
  BY FieldsOf
<1>2. Timely' /\ PLeft' = PLeft
  BY <1>1, TimelyStays
<1>3. \A y \in Timer : SameTicks(y)
  BY DEF SameTicks, TicksUntil, TickDiff
<1>4. PBegun' = PBegun
  BY <1>1, <1>3, BegunStays
<1> QED
  BY <1>2, <1>4 DEF Checking, PTaken, PFired

\* The test of a stop, and the flag byte that is read, are no steps of Countdown.
LEMMA ReadingCallRefines ==
  ASSUME ListSound, Timely, NEW t \in Thread,
         \/ \E x \in Timer : rt_timer_stop(t, x) \/ SetMode(t, x)
         \/ StopClear(t)
  PROVE  Timely' /\ Refined
<1>1. pc[t].at # "start_insert" /\ UNCHANGED <<rt_tick, ring, fields, isr>>
  BY UserPlace DEF rt_timer_stop, SetMode, StopClear, Calls, AtPlace
<1>2. \E p : pc' = [pc EXCEPT ![t] = p] /\ p.at # "start_insert"
  <2>1. \A x \in Timer : At("stop_remove", x).at = "stop_remove"
    BY DEF At
  <2>2. \A x \in Timer, f \in SUBSET Bits :
          [At("set_flag", x) EXCEPT !.flag = f].at = "set_flag"
    BY DEF At
  <2>3. CASE \E x \in Timer : rt_timer_stop(t, x)
    BY <2>1, <2>3 DEF rt_timer_stop, Goto
  <2>4. ASSUME NEW x \in Timer, SetMode(t, x) PROVE <1>2
    <3>1. flag[x] \ {"periodic"} \in SUBSET Bits /\ flag[x] \cup {"periodic"} \in SUBSET Bits
      BY FieldsOf DEF SoundFields, Bits
    <3> QED
      BY <2>2, <2>4, <3>1 DEF SetMode, Goto
  <2>5. CASE StopClear(t)
    <3>1. pc[t].timer \in Timer
      BY <2>5 DEF StopClear, AtPlace, ListSound, Places
    <3>2. flag[pc[t].timer] \ {"activated"} \in SUBSET Bits
      BY <3>1, FieldsOf DEF SoundFields
    <3> QED
      BY <2>2, <2>5, <3>1, <3>2 DEF StopClear, Goto
  <2> QED
    BY <2>3, <2>4, <2>5
<1>3. /\ Timely' /\ PLeft' = PLeft /\ PBegun' = PBegun
      /\ Checking' = Checking /\ PTaken' = PTaken /\ PFired' = PFired
  BY <1>1, <1>2, QuietCall DEF fields
<1>4. PTime' = PTime /\ PPeriodic' = PPeriodic
  BY <1>1 DEF fields, PTime, PPeriodic
<1> QED
  BY <1>3, <1>4 DEF Refined, Mapped

\* A new time, or the flag byte that is written back, is Control.
LEMMA ControlRefines ==
  ASSUME ListSound, Timely, NEW t \in Thread,
         (\E x \in Timer : SetTime(t, x)) \/ SetFlag(t)
  PROVE  Timely' /\ Refined
<1>1. /\ pc[t].at # "start_insert" /\ isr = NoHandler
      /\ UNCHANGED <<rt_tick, ring, timeout_tick, isr>>
  BY UserPlace DEF SetTime, SetFlag, Calls, AtPlace, Free
<1>2. pc' = pc \/ \E p : pc' = [pc EXCEPT ![t] = p] /\ p.at # "start_insert"
  BY UserPlace DEF SetTime, SetFlag, Goto
<1>3. /\ Timely' /\ PLeft' = PLeft /\ PBegun' = PBegun
      /\ Checking' = Checking /\ PTaken' = PTaken /\ PFired' = PFired
  BY <1>1, <1>2, QuietCall
<1>4. \E x \in Timer : \A y \in Timer \ {x} :
        init_tick'[y] = init_tick[y] /\ flag'[y] = flag[y]
  <2>1. CASE \E x \in Timer : SetTime(t, x)
    BY <2>1, FieldsOf DEF SetTime, SoundFields
  <2>2. CASE SetFlag(t)
    <3>1. pc[t].timer \in Timer
      BY <2>2 DEF SetFlag, AtPlace, ListSound, Places
    <3> QED
      BY <2>2, <3>1, FieldsOf DEF SetFlag, SoundFields
  <2> QED
    BY <2>1, <2>2
<1>5. PICK x \in Timer : \A y \in Timer \ {x} :
        PTime'[y] = PTime[y] /\ (y \in PPeriodic' <=> y \in PPeriodic)
  BY <1>4 DEF PTime, PPeriodic
<1>6. Promised!Control(x)
  BY <1>1, <1>3, <1>5, OutsideCall DEF Promised!Control, PLeft, PBegun, PTime, PPeriodic
<1> QED
  BY <1>3, <1>6 DEF Refined, Promised!CountdownNext, Promised!Caller

\* The steps of a call that take a timer out of its list.
LEMMA RemovingCallRefines ==
  ASSUME ListSound, Timely, NEW t \in Thread,
         \/ \E x \in Timer : rt_timer_start(t, x) \/ rt_timer_detach(t, x)
         \/ StopRemove(t)
  PROVE  Timely' /\ Refined
<1>1. /\ isr = NoHandler /\ isr' = isr /\ rt_tick' = rt_tick
      /\ pc[t].at # "start_insert"
  BY UserPlace DEF rt_timer_start, rt_timer_detach, StopRemove, Calls, AtPlace, Free
<1>2. PICK x \in Timer :
        /\ _rt_timer_remove(x)
        /\ \/ pc' = pc
           \/ pc' = [pc EXCEPT ![t] = At("start_tick", x)]
           \/ pc' = [pc EXCEPT ![t] = At("stop_clear", x)]
  <2>1. StopRemove(t) => pc[t].timer \in Timer
    BY DEF StopRemove, AtPlace, ListSound, Places
  <2> QED
    BY <2>1 DEF rt_timer_start, rt_timer_detach, StopRemove, Goto
<1>3. At("start_tick", x).at # "start_insert" /\ At("stop_clear", x).at # "start_insert"
  BY DEF At
<1>4. \A u \in Thread :
        pc[u].at = "start_insert" \/ pc'[u].at = "start_insert" => pc'[u] = pc[u]
  BY <1>1, <1>2, <1>3, FieldsOf
<1>5. Timely' /\ PLeft' = Losing(x) /\ PBegun' = PBegun
  BY <1>1, <1>2, <1>4, TimelyLoses, BegunByRemove
<1>6. init_tick' = init_tick /\ \A y \in Timer : "periodic" \in flag'[y] <=> "periodic" \in flag[y]
  BY FieldsOf DEF rt_timer_start, rt_timer_detach, StopRemove, SoundFields
<1>7. PTime' = PTime /\ PPeriodic' = PPeriodic
  BY <1>6 DEF PTime, PPeriodic
<1> QED
  BY <1>1, <1>5, <1>7, StopRefines

\* A start that has read the tick, of a timer that is in no list, is Begin.
LEMMA StartTickRefines ==
  ASSUME StartsAlone, ListSound, Timely, NEW t \in Thread, StartTick(t)
  PROVE  Timely' /\ Refined
<1>1. PICK x \in Timer : x = pc[t].timer /\ ~Pending(x) /\ <<"start", x>> \in Api[t]
  BY StartingTimer DEF StartTick, AtPlace, Starting
<1> DEFINE a == (rt_tick + init_tick[x]) % TickRange
<1>2. /\ timeout_tick' = [timeout_tick EXCEPT ![x] = a]
      /\ pc' = [pc EXCEPT ![t] = At("start_insert", x)]
      /\ UNCHANGED <<rt_tick, ring, init_tick, flag, isr>> /\ isr = NoHandler
  BY <1>1 DEF StartTick, Goto, AtPlace, Free
<1>3. /\ SoundFields /\ rt_tick \in 0 .. RT_TICK_MAX /\ init_tick[x] \in 1 .. MaxTime
      /\ timeout_tick \in [Timer -> 0 .. RT_TICK_MAX]
      /\ ring \in Heap /\ Rings(ring)
  BY FieldsOf DEF SoundFields
<1>4. a \in 0 .. RT_TICK_MAX /\ TicksUntil(a) = init_tick[x]
  BY <1>3, StartedUntil
<1> HIDE DEF a
<1>5. /\ timeout_tick'[x] = a
      /\ \A y \in Timer \ {x} : timeout_tick'[y] = timeout_tick[y]
  BY <1>2, <1>3
<1>6. /\ TicksUntil(timeout_tick[x])' = init_tick[x]
      /\ \A y \in Timer \ {x} : SameTicks(y)
  BY <1>2, <1>4, <1>5 DEF SameTicks, TicksUntil, TickDiff
<1>7. \A y \in Timer : (Pending(y)' <=> Pending(y)) /\ (Pending(y) => y # x)
  BY <1>1, <1>2 DEF Pending
<1>8. Order'
  <2>1. PICK rank \in [Node -> Nat] : InOrder(ring, rank, TicksLeft)
    BY DEF Timely, Order
  <2>2. \A y \in Timer \ {x} : TicksLeft'[y] = TicksLeft[y]
    BY <1>6 DEF TicksLeft, SameTicks
  <2>3. ASSUME NEW n \in Node, ring.next[n] # n, ring.next[n] # rt_timer_list, n # rt_timer_list
        PROVE  TicksLeft'[n] <= TicksLeft'[ring.next[n]]
    <3> DEFINE m == ring.next[n]
    <3>1. n \in Timer /\ m \in Timer /\ ring.prev[m] = n
      BY <1>3, <2>3 DEF Node, Heap, Rings
    <3>2. ring.next[m] # m
      BY <1>3, <2>3, <3>1, NodesFinite DEF Heap, Rings
    <3>3. n # x /\ m # x
      BY <1>1, <2>3, <3>2 DEF Pending
    <3>4. TicksLeft[n] <= TicksLeft[m]
      BY <2>1, <2>3 DEF InOrder
    <3> QED
      BY <2>2, <3>1, <3>3, <3>4
  <2>4. InOrder(ring, rank, TicksLeft')
    BY <2>1, <2>3 DEF InOrder
  <2> QED
    BY <1>2, <2>4 DEF Order
<1>9. Window'
  BY <1>2, <1>6, <1>7 DEF Timely, Window, SameTicks
<1>10. StartWindow'
  <2> SUFFICES ASSUME NEW u \in Thread, pc'[u].at = "start_insert"
               PROVE  TicksUntil(timeout_tick[pc[u].timer])' \in 1 - Patience .. MaxTime
    BY DEF StartWindow
  <2>1. CASE u = t
    <3>1. pc'[u].timer = x
      BY <1>2, <2>1, FieldsOf DEF At
    <3> QED
      BY <1>3, <1>6, <3>1, HalfBounds
  <2>2. CASE u # t
    <3>1. pc'[u] = pc[u]
      BY <1>2, <2>2, FieldsOf
    <3>2. PICK y \in Timer : y = pc[u].timer /\ y # x
      BY <1>1, <2>2, <3>1, OtherTimer DEF Starting
    <3>3. TicksUntil(timeout_tick[y]) \in 1 - Patience .. MaxTime
      BY <3>1, <3>2 DEF Timely, StartWindow
    <3>4. TicksUntil(timeout_tick[y])' \in 1 - Patience .. MaxTime
      BY <1>6, <3>2, <3>3 DEF SameTicks
    <3> QED
      BY <3>1, <3>2, <3>4
  <2> QED
    BY <2>1, <2>2
<1>11. PLeft' = PLeft
  BY <1>6, <1>7, LeftStays
<1>12. PBegun' = Promised!With(PBegun, x, init_tick[x])
  <2> DEFINE S == {y \in Timer : AboutToInsert(y)}
  <2>1. pc'[t].at = "start_insert" /\ pc'[t].timer = x /\ pc[t].at # "start_insert"
    BY <1>2, FieldsOf DEF At, StartTick, AtPlace
  <2>2. \A u \in Thread \ {t} : pc'[u] = pc[u]
    BY <1>2, FieldsOf
  <2>3. \A y \in Timer : AboutToInsert(y)' <=> AboutToInsert(y) \/ y = x
    BY <2>1, <2>2 DEF AboutToInsert
  <2>4. S' = S \cup {x}
    BY <2>3
  <2>5. \A y \in S \ {x} : TicksUntil(timeout_tick[y])' = TicksUntil(timeout_tick[y])
    BY <1>6 DEF SameTicks
  <2>6. PBegun = [y \in S |-> TicksUntil(timeout_tick[y])]
    BY DEF PBegun
  <2>7. PBegun' = [y \in S' |-> TicksUntil(timeout_tick[y])']
    BY DEF PBegun
  <2> HIDE DEF S
  <2>8. DOMAIN PBegun = S /\ \A y \in S : PBegun[y] = TicksUntil(timeout_tick[y])
    BY <2>6
  <2> QED
    BY <1>6, <2>4, <2>5, <2>7, <2>8 DEF Promised!With
<1>13. PTime' = PTime /\ PPeriodic' = PPeriodic
  BY <1>2 DEF PTime, PPeriodic
<1>14. init_tick[x] \in PTime[x]
  BY DEF PTime
<1>15. Promised!Begin(x)
  BY <1>2, <1>11, <1>12, <1>13, <1>14, OutsideCall
  DEF Promised!Begin, PLeft, PBegun, PTime, PPeriodic
<1> QED
  BY <1>8, <1>9, <1>10, <1>15 DEF Timely, Refined, Promised!CountdownNext, Promised!Caller

\* The second critical section of rt_timer_start is Insert.
LEMMA StartInsertRefines ==
  ASSUME StartsAlone, ListSound, Timely, NEW t \in Thread, StartInsert(t)
  PROVE  Timely' /\ Refined
<1>1. PICK x \in Timer : x = pc[t].timer /\ ~Pending(x) /\ <<"start", x>> \in Api[t]
  BY StartingTimer DEF StartInsert, AtPlace, Starting
<1>2. PICK a \in 0 .. RT_TICK_MAX : a = timeout_tick[x]
  BY FieldsOf DEF SoundFields
<1>3. /\ ring' = Insert(ring, x, a) /\ pc' = [pc EXCEPT ![t] = User]
      /\ UNCHANGED <<rt_tick, timeout_tick, init_tick, isr>> /\ isr = NoHandler
      /\ pc[t].at = "start_insert"
  BY <1>1, <1>2 DEF StartInsert, Goto, AtPlace, Free
<1>4. SoundFields /\ rt_tick \in 0 .. RT_TICK_MAX /\ ring \in Heap /\ Rings(ring)
  BY FieldsOf DEF SoundFields
<1>5. timeout_tick' = [timeout_tick EXCEPT ![x] = a] /\ ring.next[x] = x
  BY <1>1, <1>2, <1>3, <1>4 DEF SoundFields, Pending
<1>6. TicksUntil(a) \in 1 - Patience .. MaxTime /\ TicksUntil(a) \in Windowed
  BY <1>1, <1>2, <1>3, HalfBounds DEF Timely, StartWindow, Windowed
<1>7. ASSUME NEW u \in Thread, pc'[u].at = "start_insert"
      PROVE  pc'[u] = pc[u] /\ pc[u].timer \in Timer \ {x}
  <2>1. u # t /\ pc'[u] = pc[u]
    BY <1>3, <1>7, UserPlace, FieldsOf
  <2> QED
    BY <1>1, <1>7, <2>1, OtherTimer DEF Starting
<1>8. PICK rank \in [Node -> Nat] : InOrder(ring, rank, TicksLeft)
  BY DEF Timely, Order
<1>9. Timely' /\ PLeft' = Gaining(x, TicksUntil(a))
  BY <1>3, <1>4, <1>5, <1>6, <1>7, <1>8, TimelyGains
<1>10. AboutToInsert(x) /\ \A y \in Timer : AboutToInsert(y)' <=> AboutToInsert(y) /\ y # x
  <2>1. \A u \in Thread \ {t} : pc'[u] = pc[u]
    BY <1>3, FieldsOf
  <2>2. pc'[t].at # "start_insert"
    BY <1>3, UserPlace, FieldsOf
  <2>3. \A u \in Thread \ {t} : pc[u].at = "start_insert" => pc[u].timer # x
    BY <1>7, <2>1
  <2> QED
    BY <1>1, <1>3, <2>1, <2>2, <2>3 DEF AboutToInsert
<1>11. x \in DOMAIN PBegun /\ PBegun[x] = TicksUntil(a)
  BY <1>2, <1>10 DEF PBegun
<1>12. PBegun' = Promised!Without(PBegun, x)
  <2> DEFINE S == {y \in Timer : AboutToInsert(y)}
  <2>1. S' = S \ {x}
    BY <1>10
  <2>2. \A y \in S \ {x} : TicksUntil(timeout_tick[y])' = TicksUntil(timeout_tick[y])
    BY <1>3 DEF TicksUntil, TickDiff
  <2>3. PBegun = [y \in S |-> TicksUntil(timeout_tick[y])]
    BY DEF PBegun
  <2>4. PBegun' = [y \in S' |-> TicksUntil(timeout_tick[y])']
    BY DEF PBegun
  <2> HIDE DEF S
  <2>5. DOMAIN PBegun = S /\ \A y \in S : PBegun[y] = TicksUntil(timeout_tick[y])
    BY <2>3
  <2> QED
    BY <2>1, <2>2, <2>4, <2>5 DEF Promised!Without
<1>13. PTime' = PTime /\ PPeriodic' = PPeriodic
  <2>1. \A y \in Timer : "periodic" \in flag'[y] <=> "periodic" \in flag[y]
    BY FieldsOf DEF StartInsert, SoundFields
  <2> QED
    BY <1>3, <2>1 DEF PTime, PPeriodic
<1>14. Promised!Insert(x)
  BY <1>3, <1>9, <1>11, <1>12, <1>13, OutsideCall
  DEF Promised!Insert, Gaining, PLeft, PBegun, PTime, PPeriodic
<1> QED
  BY <1>9, <1>14 DEF Refined, Promised!CountdownNext, Promised!Caller

\* A start with interrupts off is Start.
LEMMA MaskedRefines ==
  ASSUME StartsAlone, ListSound, Timely, NEW t \in Thread, NEW x \in Timer, StartMasked(t, x)
  PROVE  Timely' /\ Refined
<1>1. /\ pc[t] = User /\ <<"start_masked", x>> \in Api[t] /\ StartNow(x)
      /\ UNCHANGED <<rt_tick, pc, isr>> /\ isr = NoHandler
  BY DEF StartMasked, Calls, Free
<1>2. \A u \in Thread : Starting(u) => pc[u].timer # x
  BY <1>1, OtherTimer, UserPlace DEF Starting
<1>3. Timely' /\ PLeft' = Gaining(x, init_tick[x])
  BY <1>1, <1>2, TimelyStarts
<1>4. PBegun' = PBegun /\ PTime' = PTime /\ PPeriodic' = PPeriodic
  BY <1>1, <1>2, BegunByStart
<1>5. Promised!Start(x)
  BY <1>1, <1>3, <1>4, OutsideCall, Substituted
  DEF Promised!Start, PBegun, PTime, PPeriodic
<1> QED
  BY <1>3, <1>5 DEF Refined, Promised!CountdownNext, Promised!Caller

LEMMA TimelyStep ==
  ASSUME StartsAlone, ListSound, Timely, [TimerNext]_timerVars
  PROVE  Timely' /\ Refined
<1>1. CASE rt_tick_increase
  BY <1>1, TickRefines
<1>2. CASE Handler
  BY <1>2, CheckRefines, CallbackRefines, RestartRefines, StopOneShotRefines, DoneRefines
     DEF Handler
<1>3. ASSUME NEW t \in Thread, TimerCall(t) PROVE Timely' /\ Refined
  BY <1>3, ReadingCallRefines, ControlRefines, RemovingCallRefines, StartTickRefines, StartInsertRefines,
     MaskedRefines DEF TimerCall
<1>4. CASE UNCHANGED timerVars
  <2>1. UNCHANGED <<rt_tick, ring, timeout_tick, init_tick, flag, pc, isr>>
    BY <1>4 DEF timerVars, fields
  <2>2. Timely' /\ PLeft' = PLeft
    BY <2>1, TimelyStays
  <2>3. \A y \in Timer : SameTicks(y)
    BY <2>1 DEF SameTicks, TicksUntil, TickDiff
  <2>4. PBegun' = PBegun
    BY <2>1, <2>3, BegunStays
  <2>5. UNCHANGED <<PTime, PPeriodic, Checking, PTaken, PFired>>
    BY <2>1 DEF PTime, PPeriodic, Checking, PTaken, PFired
  <2> QED
    BY <2>2, <2>4, <2>5 DEF Refined, Mapped
<1> QED
  BY <1>1, <1>2, <1>3, <1>4 DEF TimerNext

LEMMA TimelyInit ==
  ASSUME TimerInit
  PROVE  Timely /\ Promised!CountdownInit
<1>1. /\ ring = [next |-> [n \in Node |-> n], prev |-> [n \in Node |-> n]]
      /\ pc = [t \in Thread |-> User] /\ isr = NoHandler
  BY DEF TimerInit, rt_list_init
<1>2. \A x \in Node : ring.next[x] = x
  BY <1>1
<1>3. \A x \in Timer : ~Pending(x)
  BY <1>2, NodesFinite DEF Pending
<1>4. Order
  <2>1. [n \in Node |-> 0] \in [Node -> Nat] /\ InOrder(ring, [n \in Node |-> 0], TicksLeft)
    BY <1>2 DEF InOrder
  <2> QED
    BY <2>1 DEF Order
<1>5. Window
  BY <1>3 DEF Window
<1>6. StartWindow
  BY <1>1, UserPlace DEF StartWindow
<1>7. PLeft = <<>>
  <2>1. {y \in Timer : Pending(y)} = {}
    BY <1>3
  <2>2. PLeft = [x \in {} |-> TicksUntil(timeout_tick[x])]
    BY <2>1 DEF PLeft
  <2> QED
    BY <2>2
<1>8. PBegun = <<>>
  <2>1. {y \in Timer : AboutToInsert(y)} = {}
    BY <1>1, UserPlace DEF AboutToInsert
  <2>2. PBegun = [x \in {} |-> TicksUntil(timeout_tick[x])]
    BY <2>1 DEF PBegun
  <2> QED
    BY <2>2
<1>9. PTime \in [Timer -> SUBSET Int] /\ PPeriodic \subseteq Timer
  <2>1. \A x \in Timer : {init_tick[x]} \in SUBSET Int
    BY ListStarts, FieldsOf, TickTypes DEF SoundFields
  <2> QED
    BY <2>1 DEF PTime, PPeriodic
<1>10. ~Checking /\ PTaken = rt_timer_list /\ PFired = {}
  BY <1>1 DEF NoHandler, Checking, PTaken, PFired
<1>11. Promised!CountdownInit
  BY <1>7, <1>8, <1>9, <1>10
  DEF Promised!CountdownInit, PLeft, PBegun, PTime, PPeriodic, Checking, PTaken, PFired
<1> QED
  BY <1>4, <1>5, <1>6, <1>11 DEF Timely

\* Nothing is linked apart from the head: the ranks of the order rise along
\* next, so a timer outside the row of the head would have one of less rank
\* before it, and that one another, without end.
LEMMA AllInRow ==
  ASSUME ListSound, Order
  PROVE  RingSound
<1> DEFINE head == rt_timer_list
           row == Elements(ring, head)
           n == rt_list_len(ring, head)
           Apart == {y \in Timer : Pending(y) /\ ~InRow(y)}
<1>1. /\ ring \in Heap /\ Rings(ring)
      /\ \A y \in Node : ring.prev[y] \in Node /\ ring.next[ring.prev[y]] = y
  BY FieldsOf, NodesFinite DEF SoundFields, Heap, Rings
<1>2. /\ n \in Nat /\ row \in Seq(Node) /\ Len(row) = n
      /\ ring.next[head] = IF n = 0 THEN head ELSE row[1]
      /\ \A k \in 1 .. n : ring.next[row[k]] = IF k = n THEN head ELSE row[k + 1]
  BY <1>1, NodesFinite, ElementsOfRing
<1>3. DOMAIN row = 1 .. n
  BY <1>2
<1>4. \A y : InRow(y) <=> \E k \in 1 .. n : row[k] = y
  BY <1>3 DEF InRow
<1> HIDE DEF row, n
<1>5. PICK rank \in [Node -> Nat] : InOrder(ring, rank, TicksLeft)
  BY DEF Order
<1>6. ASSUME NEW y \in Apart
      PROVE  \E w \in Apart : rank[w] < rank[y]
  <2> DEFINE w == ring.prev[y]
  <2>1. y \in Node /\ y # head /\ w \in Node /\ ring.next[w] = y
    BY <1>1, NodesFinite, TimerAssumption
  <2>2. ring.next[y] # y /\ ~InRow(y)
    BY DEF Pending
  <2> HIDE DEF w
  <2>3. w # y
    BY <2>1, <2>2
  <2>4. w # head
    <3>1. ASSUME w = head PROVE FALSE
      <4>1. n # 0 /\ y = row[1]
        BY <1>2, <2>1, <3>1
      <4>2. 1 \in 1 .. n
        BY <1>2, <4>1
      <4> QED
        BY <1>4, <2>2, <4>1, <4>2
    <3> QED
      BY <3>1
  <2>5. ~InRow(w)
    <3>1. ASSUME NEW k \in 1 .. n, row[k] = w PROVE FALSE
      <4>1. k # n /\ y = row[k + 1]
        BY <1>2, <2>1, <3>1
      <4>2. k + 1 \in 1 .. n
        BY <1>2, <4>1
      <4> QED
        BY <1>4, <2>2, <4>1, <4>2
    <3> QED
      BY <1>4, <3>1
  <2>6. w \in Apart
    BY <2>1, <2>3, <2>4, <2>5 DEF Node, Pending
  <2>7. rank[w] < rank[y]
    BY <1>5, <2>1, <2>3 DEF InOrder
  <2> QED
    BY <2>6, <2>7
<1>7. Apart = {}
  <2> DEFINE T == {rank[y] : y \in Apart}
  <2>1. Apart \subseteq Node
    BY NodesFinite
  <2> HIDE DEF Apart
  <2>2. T \in SUBSET Nat
    BY <2>1
  <2>3. ASSUME T # {} PROVE FALSE
    <3> HIDE DEF T
    <3>1. PICK m \in T : \A k \in T : m <= k
      BY <2>2, <2>3, LeastOf
    <3>2. PICK y \in Apart : m = rank[y]
      BY <3>1 DEF T
    <3>3. PICK w \in Apart : rank[w] < rank[y]
      BY <1>6, <3>2
    <3>4. rank[w] \in T /\ rank[w] \in Nat /\ rank[y] \in Nat
      BY <2>1 DEF T
    <3> QED
      BY <3>1, <3>2, <3>3, <3>4
  <2> QED
    BY <2>3
<1> QED
  BY <1>1, <1>7 DEF RingSound

\* The pointers of the rows always form rings, and no pending timer is outside
\* the ring of rt_timer_list, where rt_timer_check looks for it: a start that is
\* interrupted between its critical sections (timer.c:126-179), a stop that
\* meets the tick, and a time-out function that starts timers lose no timer and
\* link none twice, if nobody else starts the same timer meanwhile.
THEOREM RingsStaySound ==
  ASSUME StartsAlone
  PROVE  TimerSpec => []RingSound
<1>1. TimerSpec => []ListSound
  BY ListInvariant
<1>2. TimerInit => Timely
  BY TimelyInit
<1>3. ListSound /\ Timely /\ [TimerNext]_timerVars => Timely'
  BY TimelyStep
<1>4. ListSound /\ Timely => RingSound
  BY AllInRow DEF Timely
<1> QED
  BY <1>1, <1>2, <1>3, <1>4, PTL DEF TimerSpec

\* The timers of timer.c keep the promise of a countdown, whatever the width of
\* rt_tick_t and however many timers and threads there are.  The list of absolute
\* ticks, compared modulo 2^w (timer.c:193-198, 268), lets each timer run for its
\* init_tick from the tick that rt_timer_start has read (line 161).  The handler
\* calls the time-out function of a timer (line 279) only when it is due, the
\* longest due first, of every timer that it has taken out, and it returns when
\* none is due; no other timer is taken out by it: with starts that are
\* interrupted (lines 147-164) for no more than Patience ticks, with time-out
\* functions that use timers, and across the wrap of clock.c:12.
THEOREM TimersKeepTheirPromise ==
  ASSUME StartsAlone
  PROVE  TimerSpec => CountsDown
<1>1. TimerSpec => []ListSound
  BY ListInvariant
<1>2. TimerInit => Timely /\ Promised!CountdownInit
  BY TimelyInit
<1>3. ListSound /\ Timely /\ [TimerNext]_timerVars => Timely' /\ [Promised!CountdownNext]_Mapped
  BY TimelyStep DEF Refined
<1>4. TimerSpec => Promised!CountdownInit /\ [][Promised!CountdownNext]_Mapped
  BY <1>1, <1>2, <1>3, PTL DEF TimerSpec
<1>5. Promised!CountdownInit /\ [][Promised!CountdownNext]_Mapped => CountsDown
  BY PTL DEF CountsDown, Promised!CountdownSpec, Promised!countdownVars, Mapped, PLeft,
     PBegun, PTime, PPeriodic, Checking, PTaken, PFired
<1> QED
  BY <1>4, <1>5

=============================================================================
