--------------------------- MODULE RtKernel_proofs ---------------------------
(* Proofs about RtKernel, for any threads, priorities, slices and calls.    *)
EXTENDS RtKernel, TLAPS, SequenceTheorems, WellFoundedInduction

-----------------------------------------------------------------------------
(* Numbers and sequences.                                                  *)

\* A set of naturals has a least element.
LEMMA LeastNat ==
  ASSUME NEW T \in SUBSET Nat, T # {}
  PROVE  \E m \in T : \A n \in T : m <= n
<1>1. \E m \in T : \A n \in T : ~(<<n, m>> \in OpToRel(<, Nat))
  BY NatLessThanWellFounded, WFMin
<1>2. \A a, b \in Nat : a < b => <<a, b>> \in OpToRel(<, Nat)
  BY Zenon DEF OpToRel
<1>3. \E m \in T : \A n \in T : ~(n < m)
  BY <1>1, <1>2, Zenon
<1> QED
  BY <1>3, SMT

\* The index that Without removes.
LEMMA IndexOfElement ==
  ASSUME NEW s \in Seq(Thread), NEW x, Contains(s, x)
  PROVE  IndexOf(s, x) \in 1 .. Len(s) /\ s[IndexOf(s, x)] = x
<1>1. \E i \in DOMAIN s : s[i] = x
  BY LenProperties DEF Contains
<1>2. DOMAIN s = 1 .. Len(s)
  BY LenProperties
<1> QED
  BY <1>1, <1>2 DEF IndexOf

\* RemoveAt closes the gap.
LEMMA RemoveAtProperties ==
  ASSUME NEW s \in Seq(Thread), NEW k \in 1 .. Len(s)
  PROVE  /\ RemoveAt(s, k) \in Seq(Thread)
         /\ Len(RemoveAt(s, k)) = Len(s) - 1
         /\ \A i \in 1 .. Len(s) - 1 :
                RemoveAt(s, k)[i] = IF i < k THEN s[i] ELSE s[i + 1]
<1> DEFINE a == SubSeq(s, 1, k - 1)
           b == SubSeq(s, k + 1, Len(s))
<1>1. Len(s) \in Nat /\ \A i \in 1 .. Len(s) : s[i] \in Thread
  BY LenProperties, ElementOfSeq
<1>2. /\ a \in Seq(Thread) /\ Len(a) = k - 1
      /\ \A i \in 1 .. k - 1 : a[i] = s[i]
  <2>1. \A i \in 1 .. k - 1 : s[i] \in Thread
    BY <1>1
  <2>2. /\ a \in Seq(Thread)
        /\ Len(a) = IF 1 <= k - 1 THEN k - 1 - 1 + 1 ELSE 0
        /\ \A i \in 1 .. k - 1 - 1 + 1 : a[i] = s[1 + i - 1]
    BY <1>1, <2>1, SubSeqProperties
  <2> QED
    BY <1>1, <2>2
<1>3. /\ b \in Seq(Thread) /\ Len(b) = Len(s) - k
      /\ \A i \in 1 .. Len(s) - k : b[i] = s[k + i]
  <2>1. \A i \in k + 1 .. Len(s) : s[i] \in Thread
    BY <1>1
  <2>2. /\ b \in Seq(Thread)
        /\ Len(b) = IF k + 1 <= Len(s) THEN Len(s) - (k + 1) + 1 ELSE 0
        /\ \A i \in 1 .. Len(s) - (k + 1) + 1 : b[i] = s[k + 1 + i - 1]
    BY <1>1, <2>1, SubSeqProperties
  <2> QED
    BY <1>1, <2>2
<1>4. /\ a \o b \in Seq(Thread) /\ Len(a \o b) = Len(s) - 1
      /\ \A i \in 1 .. Len(a) + Len(b) : (a \o b)[i] =
             IF i <= Len(a) THEN a[i] ELSE b[i - Len(a)]
  <2> HIDE DEF a, b
  <2> QED
    BY <1>1, <1>2, <1>3, ConcatProperties
<1>5. ASSUME NEW i \in 1 .. Len(s) - 1
      PROVE  (a \o b)[i] = IF i < k THEN s[i] ELSE s[i + 1]
  <2> HIDE DEF a, b
  <2>1. ASSUME i < k PROVE (a \o b)[i] = s[i]
    <3>1. i \in 1 .. k - 1 /\ i \in 1 .. Len(a) + Len(b)
      BY <1>1, <1>2, <1>3, <2>1
    <3> QED
      BY <1>2, <1>4, <2>1, <3>1
  <2>2. ASSUME ~(i < k) PROVE (a \o b)[i] = s[i + 1]
    <3>1. /\ i - (k - 1) \in 1 .. Len(s) - k /\ i \in 1 .. Len(a) + Len(b)
          /\ ~(i <= Len(a)) /\ i - Len(a) = i - (k - 1) /\ k + (i - (k - 1)) = i + 1
      BY <1>1, <1>2, <1>3, <2>2
    <3>2. (a \o b)[i] = b[i - (k - 1)]
      BY <1>4, <3>1
    <3> QED
      BY <1>3, <2>2, <3>1, <3>2
  <2> QED
    BY <2>1, <2>2
<1> QED
  BY <1>4, <1>5 DEF RemoveAt

\* InsertAt opens a gap.
LEMMA InsertAtProperties ==
  ASSUME NEW s \in Seq(Thread), NEW k \in 1 .. Len(s) + 1, NEW x \in Thread
  PROVE  /\ InsertAt(s, k, x) \in Seq(Thread)
         /\ Len(InsertAt(s, k, x)) = Len(s) + 1
         /\ \A i \in 1 .. Len(s) + 1 :
                InsertAt(s, k, x)[i] = IF i < k THEN s[i]
                                       ELSE IF i = k THEN x ELSE s[i - 1]
<1> DEFINE a == SubSeq(s, 1, k - 1)
           b == SubSeq(s, k, Len(s))
<1>1. Len(s) \in Nat /\ \A i \in 1 .. Len(s) : s[i] \in Thread
  BY LenProperties, ElementOfSeq
<1>2. /\ a \in Seq(Thread) /\ Len(a) = k - 1
      /\ \A i \in 1 .. k - 1 : a[i] = s[i]
  <2>1. \A i \in 1 .. k - 1 : s[i] \in Thread
    BY <1>1
  <2>2. /\ a \in Seq(Thread)
        /\ Len(a) = IF 1 <= k - 1 THEN k - 1 - 1 + 1 ELSE 0
        /\ \A i \in 1 .. k - 1 - 1 + 1 : a[i] = s[1 + i - 1]
    BY <1>1, <2>1, SubSeqProperties
  <2> QED
    BY <1>1, <2>2
<1>3. /\ b \in Seq(Thread) /\ Len(b) = Len(s) - k + 1
      /\ \A i \in 1 .. Len(s) - k + 1 : b[i] = s[k + i - 1]
  <2>1. \A i \in k .. Len(s) : s[i] \in Thread
    BY <1>1
  <2>2. /\ b \in Seq(Thread)
        /\ Len(b) = IF k <= Len(s) THEN Len(s) - k + 1 ELSE 0
        /\ \A i \in 1 .. Len(s) - k + 1 : b[i] = s[k + i - 1]
    BY <1>1, <2>1, SubSeqProperties
  <2> QED
    BY <1>1, <2>2
<1>4. /\ <<x>> \in Seq(Thread) /\ Len(<<x>>) = 1 /\ <<x>>[1] = x
  OBVIOUS
<1> HIDE DEF a, b
<1>5. /\ a \o <<x>> \in Seq(Thread) /\ Len(a \o <<x>>) = k
      /\ \A i \in 1 .. k : (a \o <<x>>)[i] = IF i < k THEN s[i] ELSE x
  <2>1. /\ a \o <<x>> \in Seq(Thread)
        /\ Len(a \o <<x>>) = Len(a) + Len(<<x>>)
        /\ \A i \in 1 .. Len(a) + Len(<<x>>) : (a \o <<x>>)[i] =
               IF i <= Len(a) THEN a[i] ELSE <<x>>[i - Len(a)]
    BY <1>2, <1>4, ConcatProperties
  <2> QED
    BY <1>1, <1>2, <1>4, <2>1
<1> DEFINE c == a \o <<x>>
<1>6. /\ c \o b \in Seq(Thread)
      /\ Len(c \o b) = Len(c) + Len(b)
      /\ \A i \in 1 .. Len(c) + Len(b) : (c \o b)[i] =
             IF i <= Len(c) THEN c[i] ELSE b[i - Len(c)]
  <2> HIDE DEF c
  <2>1. c \in Seq(Thread)
    BY <1>5 DEF c
  <2> QED
    BY <1>3, <2>1, ConcatProperties
<1>7. /\ Len(c \o b) = Len(s) + 1
      /\ \A i \in 1 .. Len(s) + 1 :
             (c \o b)[i] = IF i < k THEN s[i] ELSE IF i = k THEN x ELSE s[i - 1]
  <2>1. c \in Seq(Thread) /\ Len(c) = k /\ \A i \in 1 .. k : c[i] = IF i < k THEN s[i] ELSE x
    BY <1>5
  <2> HIDE DEF c
  <2> QED
    BY <1>1, <1>3, <1>6, <2>1
<1> QED
  BY <1>6, <1>7 DEF InsertAt, a, b

-----------------------------------------------------------------------------
(* Lists of threads.                                                       *)

Distinct(s) == \A i, j \in DOMAIN s : s[i] = s[j] => i = j

\* Without takes one occurrence out and keeps the order of the others.
LEMMA WithoutProperties ==
  ASSUME NEW s \in Seq(Thread), NEW x
  PROVE  /\ Without(s, x) \in Seq(Thread)
         /\ ~Contains(s, x) => Without(s, x) = s
         /\ Contains(s, x) =>
              /\ IndexOf(s, x) \in 1 .. Len(s) /\ s[IndexOf(s, x)] = x
              /\ Len(Without(s, x)) = Len(s) - 1
              /\ \A i \in 1 .. Len(s) - 1 : Without(s, x)[i] =
                     IF i < IndexOf(s, x) THEN s[i] ELSE s[i + 1]
<1>1. CASE Contains(s, x)
  <2>1. IndexOf(s, x) \in 1 .. Len(s) /\ s[IndexOf(s, x)] = x
    BY <1>1, IndexOfElement
  <2>2. Without(s, x) = RemoveAt(s, IndexOf(s, x))
    BY <1>1 DEF Without
  <2> QED
    BY <1>1, <2>1, <2>2, RemoveAtProperties
<1>2. CASE ~Contains(s, x)
  BY <1>2 DEF Without
<1> QED
  BY <1>1, <1>2

\* What stays behind was there before; of distinct elements x is gone.
LEMMA WithoutElements ==
  ASSUME NEW s \in Seq(Thread), NEW x
  PROVE  /\ \A y : Contains(Without(s, x), y) => Contains(s, y)
         /\ Distinct(s) => Distinct(Without(s, x)) /\ ~Contains(Without(s, x), x)
         /\ Without(s, x) # <<>> => s # <<>>
<1> DEFINE w == Without(s, x)
           k == IndexOf(s, x)
<1>1. CASE ~Contains(s, x)
  BY <1>1, WithoutProperties
<1>2. CASE Contains(s, x)
  <2>1. /\ Len(s) \in Nat /\ w \in Seq(Thread) /\ k \in 1 .. Len(s) /\ s[k] = x
        /\ Len(w) = Len(s) - 1
        /\ \A i \in 1 .. Len(s) - 1 : w[i] = IF i < k THEN s[i] ELSE s[i + 1]
    BY <1>2, WithoutProperties, LenProperties
  <2>2. DOMAIN w = 1 .. Len(w) /\ DOMAIN s = 1 .. Len(s)
    BY <2>1, LenProperties
  <2> HIDE DEF w, k
  <2>3. ASSUME NEW y, Contains(w, y) PROVE Contains(s, y)
    BY <2>1, <2>3 DEF Contains
  <2>4. ASSUME Distinct(s) PROVE Distinct(w) /\ ~Contains(w, x)
    <3>1. Distinct(w)
      <4> SUFFICES ASSUME NEW i \in 1 .. Len(s) - 1, NEW j \in 1 .. Len(s) - 1, w[i] = w[j]
                   PROVE  i = j
        BY <2>1, <2>2 DEF Distinct
      <4>1. \A m, n \in 1 .. Len(s) : s[m] = s[n] => m = n
        BY <2>2, <2>4 DEF Distinct
      <4> DEFINE m == IF i < k THEN i ELSE i + 1
                 n == IF j < k THEN j ELSE j + 1
      <4>2. m \in 1 .. Len(s) /\ n \in 1 .. Len(s) /\ w[i] = s[m] /\ w[j] = s[n]
        BY <2>1
      <4>3. m = n
        <5> HIDE DEF m, n
        <5> QED
          BY <4>1, <4>2
      <4> QED
        BY <2>1, <4>3
    <3>2. \A i \in 1 .. Len(s) : s[i] = x => i = k
      BY <2>1, <2>2, <2>4 DEF Distinct
    <3>3. ~Contains(w, x)
      BY <2>1, <3>2 DEF Contains
    <3> QED
      BY <3>1, <3>3
  <2>5. s # <<>>
    BY <1>2, EmptySeq DEF Contains
  <2> QED
    BY <2>3, <2>4, <2>5 DEF w
<1> QED
  BY <1>1, <1>2

\* Appending puts one new element at the end.
LEMMA AppendElements ==
  ASSUME NEW s \in Seq(Thread), NEW x \in Thread
  PROVE  /\ \A y : Contains(Append(s, x), y) <=> Contains(s, y) \/ y = x
         /\ Distinct(s) /\ ~Contains(s, x) => Distinct(Append(s, x))
<1> DEFINE a == Append(s, x)
<1>1. /\ Len(s) \in Nat /\ a \in Seq(Thread) /\ Len(a) = Len(s) + 1
      /\ \A i \in 1 .. Len(s) : a[i] = s[i]
      /\ a[Len(s) + 1] = x
  BY AppendProperties, LenProperties
<1>2. DOMAIN a = 1 .. Len(a) /\ DOMAIN s = 1 .. Len(s)
  BY <1>1, LenProperties
<1> HIDE DEF a
<1>3. \A y : Contains(a, y) <=> Contains(s, y) \/ y = x
  BY <1>1 DEF Contains
<1>4. ASSUME Distinct(s), ~Contains(s, x) PROVE Distinct(a)
  <2> SUFFICES ASSUME NEW i \in 1 .. Len(s) + 1, NEW j \in 1 .. Len(s) + 1, a[i] = a[j]
               PROVE  i = j
    BY <1>1, <1>2 DEF Distinct
  <2>1. \A m \in 1 .. Len(s) : s[m] # x
    BY <1>4 DEF Contains
  <2>2. CASE i \in 1 .. Len(s) /\ j \in 1 .. Len(s)
    BY <1>1, <1>2, <1>4, <2>2 DEF Distinct
  <2>3. CASE i = Len(s) + 1 \/ j = Len(s) + 1
    BY <1>1, <2>1, <2>3
  <2> QED
    BY <1>1, <2>2, <2>3
<1> QED
  BY <1>3, <1>4 DEF a

\* Tail drops one element.
LEMMA TailElements ==
  ASSUME NEW s \in Seq(Thread), s # <<>>
  PROVE  /\ Tail(s) \in Seq(Thread) /\ Head(s) \in Thread
         /\ \A y : Contains(Tail(s), y) => Contains(s, y)
<1>1. /\ Tail(s) \in Seq(Thread) /\ Head(s) \in Thread
      /\ Len(Tail(s)) = Len(s) - 1 /\ Len(s) \in Nat
      /\ \A i \in 1 .. Len(Tail(s)) : Tail(s)[i] = s[i + 1]
  BY HeadTailProperties, LenProperties
<1> QED
  BY <1>1 DEF Contains

\* rt_list_remove unlinks x and moves nothing else.
LEMMA RemoveProperties ==
  ASSUME NEW ls \in [ListHead -> Seq(Thread)], NEW x
  PROVE  /\ rt_list_remove(ls, x) \in [ListHead -> Seq(Thread)]
         /\ \A h \in ListHead : rt_list_remove(ls, x)[h] = Without(ls[h], x)
         /\ \A h \in ListHead : rt_list_remove(ls, x)[h] # <<>> => ls[h] # <<>>
<1>1. \A h \in ListHead : Without(ls[h], x) \in Seq(Thread)
  BY WithoutProperties
<1>2. \A h \in ListHead : rt_list_remove(ls, x)[h] = Without(ls[h], x)
  BY DEF rt_list_remove
<1>3. rt_list_remove(ls, x) \in [ListHead -> Seq(Thread)]
  BY <1>1 DEF rt_list_remove
<1> QED
  BY <1>2, <1>3, WithoutElements

\* insert_ready appends x to the level of its priority.
LEMMA InsertProperties ==
  ASSUME NEW ls \in [ListHead -> Seq(Thread)], NEW x \in Thread
  PROVE  /\ Priority[x] \in Prio /\ Priority[x] \in ListHead
         /\ insert_ready(ls, x) \in [ListHead -> Seq(Thread)]
         /\ \A h \in ListHead : insert_ready(ls, x)[h] =
                IF h = Priority[x] THEN Append(ls[h], x) ELSE ls[h]
         /\ \A h \in ListHead : insert_ready(ls, x)[h] # <<>>
                <=> ls[h] # <<>> \/ h = Priority[x]
<1>1. Priority[x] \in Prio /\ Priority[x] \in ListHead
  BY ConstantsAssumption DEF ListHead
<1>2. Append(ls[Priority[x]], x) \in Seq(Thread) /\ Append(ls[Priority[x]], x) # <<>>
  BY <1>1, AppendProperties
<1> QED
  BY <1>1, <1>2 DEF insert_ready

-----------------------------------------------------------------------------
(* The choices of the scheduler and of the timer list.                     *)

\* A byte of a word, and the table's entry for it.
LEMMA ByteEntry ==
  ASSUME NEW value \in SUBSET (0 .. 31), NEW k \in 0 .. 3, Byte(value, k) # {}
  PROVE  /\ __lowest_bit_bitmap[Byte(value, k)] \in 0 .. 7
         /\ 8 * k + __lowest_bit_bitmap[Byte(value, k)] \in value
         /\ \A b \in 0 .. 7 : 8 * k + b \in value => __lowest_bit_bitmap[Byte(value, k)] <= b
<1> DEFINE byte == Byte(value, k)
<1>1. byte \in (SUBSET (0 .. 7)) \ {{}} /\ byte \in SUBSET Nat
  BY DEF Byte
<1>2. \E b \in byte : \A c \in byte : b <= c
  BY <1>1, LeastNat
<1>3. __lowest_bit_bitmap[byte] = CHOOSE b \in byte : \A c \in byte : b <= c
  BY <1>1, Zenon DEF __lowest_bit_bitmap
<1>4. /\ __lowest_bit_bitmap[byte] \in byte
      /\ \A c \in byte : __lowest_bit_bitmap[byte] <= c
  <2> HIDE DEF byte
  <2> QED
    BY <1>2, <1>3
<1> QED
  BY <1>4 DEF Byte

\* __rt_ffs (kservice.c) returns 0 for 0, and for every other word of 32 bits
\* the number of its first 1 bit, counted from 1.
THEOREM FirstBitIsFound ==
  ASSUME NEW value \in SUBSET (0 .. 31)
  PROVE  /\ value = {} => __rt_ffs(value) = 0
         /\ value # {} => /\ __rt_ffs(value) - 1 \in value
                          /\ \A q \in value : __rt_ffs(value) - 1 <= q
<1>1. CASE value = {}
  BY <1>1 DEF __rt_ffs
<1>2. CASE value # {}
  <2>1. \A q \in value : \E k \in 0 .. 3, b \in 0 .. 7 : q = 8 * k + b /\ Byte(value, k) # {}
    <3> SUFFICES ASSUME NEW q \in value
                 PROVE  \E k \in 0 .. 3, b \in 0 .. 7 : q = 8 * k + b /\ Byte(value, k) # {}
      OBVIOUS
    <3>1. q \in 0 .. 7 \/ q \in 8 .. 15 \/ q \in 16 .. 23 \/ q \in 24 .. 31
      OBVIOUS
    <3>2. \E k \in 0 .. 3, b \in 0 .. 7 : q = 8 * k + b
      <4>1. \A k \in 0 .. 3 : q \in 8 * k .. 8 * k + 7 => q - 8 * k \in 0 .. 7 /\ q = 8 * k + (q - 8 * k)
        OBVIOUS
      <4>2. \E k \in 0 .. 3 : q \in 8 * k .. 8 * k + 7
        <5>1. q \in 8 * 0 .. 8 * 0 + 7 \/ q \in 8 * 1 .. 8 * 1 + 7 \/ q \in 8 * 2 .. 8 * 2 + 7
              \/ q \in 8 * 3 .. 8 * 3 + 7
          BY <3>1
        <5> QED
          BY <5>1
      <4> QED
        BY <4>1, <4>2
    <3>3. PICK k \in 0 .. 3, b \in 0 .. 7 : q = 8 * k + b
      BY <3>2
    <3>4. b \in Byte(value, k)
      BY <3>3 DEF Byte
    <3> QED
      BY <3>3, <3>4
  <2>2. \A k \in 0 .. 3 : Byte(value, k) # {} => __lowest_bit_bitmap[Byte(value, k)] \in 0 .. 7
    BY ByteEntry
  <2>3. \E k \in 0 .. 3 :
            /\ Byte(value, k) # {}
            /\ \A j \in 0 .. k - 1 : Byte(value, j) = {}
            /\ __rt_ffs(value) - 1 = 8 * k + __lowest_bit_bitmap[Byte(value, k)]
    <3>1. CASE Byte(value, 0) # {}
      <4>1. __rt_ffs(value) = __lowest_bit_bitmap[Byte(value, 0)] + 1
        BY <1>2, <3>1 DEF __rt_ffs
      <4>2. __rt_ffs(value) - 1 = 8 * 0 + __lowest_bit_bitmap[Byte(value, 0)]
        BY <2>2, <3>1, <4>1
      <4>3. \A j \in 0 .. 0 - 1 : Byte(value, j) = {}
        <5>1. \A j \in 0 .. 0 - 1 : FALSE
          OBVIOUS
        <5> QED
          BY <3>1, <5>1
      <4> QED
        BY <3>1, <4>2, <4>3
    <3>2. CASE Byte(value, 0) = {} /\ Byte(value, 1) # {}
      <4>1. __rt_ffs(value) = __lowest_bit_bitmap[Byte(value, 1)] + 9
        BY <1>2, <3>2 DEF __rt_ffs
      <4>2. __rt_ffs(value) - 1 = 8 * 1 + __lowest_bit_bitmap[Byte(value, 1)]
        BY <2>2, <3>2, <4>1
      <4>3. \A j \in 0 .. 1 - 1 : Byte(value, j) = {}
        <5>1. \A j \in 0 .. 1 - 1 : j = 0
          OBVIOUS
        <5> QED
          BY <3>2, <5>1
      <4> QED
        BY <3>2, <4>2, <4>3
    <3>3. CASE Byte(value, 0) = {} /\ Byte(value, 1) = {} /\ Byte(value, 2) # {}
      <4>1. __rt_ffs(value) = __lowest_bit_bitmap[Byte(value, 2)] + 17
        BY <1>2, <3>3 DEF __rt_ffs
      <4>2. __rt_ffs(value) - 1 = 8 * 2 + __lowest_bit_bitmap[Byte(value, 2)]
        BY <2>2, <3>3, <4>1
      <4>3. \A j \in 0 .. 2 - 1 : Byte(value, j) = {}
        <5>1. \A j \in 0 .. 2 - 1 : j = 0 \/ j = 1
          OBVIOUS
        <5> QED
          BY <3>3, <5>1
      <4> QED
        BY <3>3, <4>2, <4>3
    <3>4. CASE Byte(value, 0) = {} /\ Byte(value, 1) = {} /\ Byte(value, 2) = {} /\ Byte(value, 3) # {}
      <4>1. __rt_ffs(value) = __lowest_bit_bitmap[Byte(value, 3)] + 25
        BY <1>2, <3>4 DEF __rt_ffs
      <4>2. __rt_ffs(value) - 1 = 8 * 3 + __lowest_bit_bitmap[Byte(value, 3)]
        BY <2>2, <3>4, <4>1
      <4>3. \A j \in 0 .. 3 - 1 : Byte(value, j) = {}
        <5>1. \A j \in 0 .. 3 - 1 : j = 0 \/ j = 1 \/ j = 2
          OBVIOUS
        <5> QED
          BY <3>4, <5>1
      <4> QED
        BY <3>4, <4>2, <4>3
    <3>5. Byte(value, 0) # {} \/ Byte(value, 1) # {} \/ Byte(value, 2) # {} \/ Byte(value, 3) # {}
      <4>1. PICK k \in 0 .. 3 : Byte(value, k) # {}
        BY <1>2, <2>1
      <4>2. k = 0 \/ k = 1 \/ k = 2 \/ k = 3
        OBVIOUS
      <4> QED
        BY <4>1, <4>2
    <3> QED
      BY <3>1, <3>2, <3>3, <3>4, <3>5
  <2> QED
    BY <1>2, <2>1, <2>3, ByteEntry
<1> QED
  BY <1>1, <1>2

\* A bitmap that is not empty has a highest priority.
LEMMA HighestPriority ==
  ASSUME NEW g \in SUBSET Prio, g # {}
  PROVE  /\ highest_ready_priority(g) \in g
         /\ \A q \in g : highest_ready_priority(g) <= q
<1>1. g \in SUBSET (0 .. 31)
  BY ConstantsAssumption DEF Prio
<1> QED
  BY <1>1, FirstBitIsFound DEF highest_ready_priority

\* The scheduler chooses a thread or nothing.
LEMMA ToThread ==
  ASSUME NEW ls \in [ListHead -> Seq(Thread)], NEW g \in SUBSET Prio
  PROVE  to_thread(ls, g) \in Thread \cup {NoThread}
<1>1. CASE g = {} \/ ls[highest_ready_priority(g)] = <<>>
  BY <1>1 DEF to_thread
<1>2. CASE g # {} /\ ls[highest_ready_priority(g)] # <<>>
  <2>1. highest_ready_priority(g) \in ListHead
    BY <1>2, HighestPriority DEF ListHead
  <2>2. Head(ls[highest_ready_priority(g)]) \in Thread
    BY <1>2, <2>1, HeadTailProperties
  <2> QED
    BY <1>2, <2>2 DEF to_thread
<1> QED
  BY <1>1, <1>2

\* rt_timer_start always finds a place.
LEMMA InsertPlace ==
  ASSUME NEW l \in Seq(Thread), timeout \in [Thread -> Int], NEW d \in Int
  PROVE  /\ InsertPosition(l, d) \in 1 .. Len(l) + 1
         /\ \A j \in 1 .. InsertPosition(l, d) - 1 : timeout[l[j]] <= d
         /\ InsertPosition(l, d) <= Len(l) => timeout[l[InsertPosition(l, d)]] > d
<1> DEFINE T == {i \in 1 .. Len(l) + 1 : i <= Len(l) => timeout[l[i]] > d}
<1>1. Len(l) \in Nat /\ \A i \in 1 .. Len(l) : timeout[l[i]] \in Int
  BY LenProperties, ElementOfSeq
<1>2. T \in SUBSET Nat /\ Len(l) + 1 \in T
  BY <1>1
<1>3. PICK m \in T : \A n \in T : m <= n
  <2> HIDE DEF T
  <2> QED
    BY <1>2, LeastNat
<1>4. m \in 1 .. Len(l) + 1 /\ (m <= Len(l) => timeout[l[m]] > d)
  BY <1>3
<1>5. ASSUME NEW j \in 1 .. m - 1 PROVE timeout[l[j]] <= d
  <2>1. j \in 1 .. Len(l) + 1 /\ j <= Len(l) /\ j \notin T
    BY <1>1, <1>3, <1>4
  <2> QED
    BY <1>1, <2>1
<1>6. \E i \in 1 .. Len(l) + 1 :
        /\ \A j \in 1 .. i - 1 : timeout[l[j]] <= d
        /\ i <= Len(l) => timeout[l[i]] > d
  BY <1>4, <1>5
<1> QED
  BY <1>6 DEF InsertPosition

-----------------------------------------------------------------------------
(* Type correctness.                                                       *)

\* The places a call passes through are in PC ...
LEMMA PlacesInPC ==
  /\ User \in PC /\ At("schedule", NoThread, "user") \in PC
  /\ \A n \in {"user", "schedule"} : At(n, NoThread, "user") \in PC
  /\ \A l \in {"startup_resume", "resume_remove", "resume_insert", "suspend_crit"},
        x \in Thread, n \in {"user", "schedule"} : At(l, x, n) \in PC
  /\ \A l \in {"close_remove", "close_timer", "close_stat", "close_list"},
        x \in Thread, n \in {"delete", "detach"} : At(l, x, n) \in PC
  BY DEF PC, At, User

\* ... and say what a call that has begun works on.
LEMMA PlacesOfPC ==
  ASSUME NEW p \in PC
  PROVE  /\ p.at \in {"startup_resume", "resume_remove", "resume_insert", "suspend_crit"}
               => p.arg \in Thread /\ p.then \in {"user", "schedule"}
         /\ p.at \in {"close_remove", "close_timer", "close_stat", "close_list"}
               => p.arg \in Thread /\ p.then \in {"delete", "detach"}
  BY DEF PC

\* Going to a place in PC keeps the type of pc.
LEMMA GotoType ==
  ASSUME NEW t \in Thread, NEW p \in PC, pc \in [Thread -> PC], Goto(t, p)
  PROVE  pc' \in [Thread -> PC]
  BY DEF Goto

\* rt_schedule_insert_thread keeps the types of the lists.
LEMMA InsertType ==
  ASSUME NEW ls \in [ListHead -> Seq(Thread)], NEW x \in Thread, TypeOK,
         rt_schedule_insert_thread(ls, x)
  PROVE  /\ tlist' \in [ListHead -> Seq(Thread)] /\ group' \in SUBSET Prio
         /\ stat' \in [Thread -> Stat]
<1>1. tlist' \in [ListHead -> Seq(Thread)] /\ Priority[x] \in Prio
  BY InsertProperties DEF rt_schedule_insert_thread
<1> QED
  BY <1>1 DEF rt_schedule_insert_thread, TypeOK, Stat

\* rt_schedule_remove_thread keeps the types of the lists.
LEMMA RemoveType ==
  ASSUME NEW x, TypeOK, rt_schedule_remove_thread(x)
  PROVE  tlist' \in [ListHead -> Seq(Thread)] /\ group' \in SUBSET Prio
<1>1. tlist' \in [ListHead -> Seq(Thread)]
  BY RemoveProperties DEF rt_schedule_remove_thread, TypeOK
<1> QED
  BY <1>1 DEF rt_schedule_remove_thread, TypeOK

\* rt_timer_stop and rt_timer_start keep the types of the timers.
LEMMA TimerType ==
  ASSUME NEW x \in Thread, TypeOK
  PROVE  /\ rt_timer_stop(x) =>
              /\ timer_list' \in Seq(Thread) /\ activated' \in SUBSET Thread
              /\ timeout' \in [Thread -> Int]
         /\ \A d \in Int : rt_timer_start(x, d) =>
              /\ timer_list' \in Seq(Thread) /\ activated' \in SUBSET Thread
              /\ timeout' \in [Thread -> Int]
<1>1. Without(timer_list, x) \in Seq(Thread)
  BY WithoutProperties DEF TypeOK
<1>2. ASSUME NEW d \in Int, rt_timer_start(x, d)
      PROVE  /\ timer_list' \in Seq(Thread) /\ activated' \in SUBSET Thread
             /\ timeout' \in [Thread -> Int]
  <2>1. InsertPosition(Without(timer_list, x), d) \in 1 .. Len(Without(timer_list, x)) + 1
    BY <1>1, InsertPlace DEF TypeOK
  <2>2. timer_list' \in Seq(Thread)
    BY <1>1, <1>2, <2>1, InsertAtProperties DEF rt_timer_start
  <2> QED
    BY <1>2, <2>2 DEF rt_timer_start, TypeOK
<1>3. rt_timer_stop(x) =>
        /\ timer_list' \in Seq(Thread) /\ activated' \in SUBSET Thread
        /\ timeout' \in [Thread -> Int]
  BY <1>1 DEF rt_timer_stop, TypeOK
<1> QED
  BY <1>2, <1>3

\* rt_schedule keeps the types of rt_current_thread and of fault.
LEMMA ScheduleType ==
  ASSUME NEW ls \in [ListHead -> Seq(Thread)], NEW g \in SUBSET Prio, TypeOK,
         rt_schedule(ls, g)
  PROVE  /\ current_thread' \in Thread \cup {NoThread}
         /\ fault' = fault \/ fault' = "empty_level"
  BY ToThread DEF rt_schedule, TypeOK

\* MoveToTail keeps the types of the lists.
LEMMA MoveType ==
  ASSUME NEW x \in Thread, TypeOK, MoveToTail(x)
  PROVE  tlist' \in [ListHead -> Seq(Thread)]
<1>1. rt_list_remove(tlist, x) \in [ListHead -> Seq(Thread)]
  BY RemoveProperties DEF TypeOK
<1> QED
  BY <1>1, InsertProperties DEF MoveToTail

\* The two steps of the boot keep the types.
LEMMA BootTypes == TypeOK /\ Boot => TypeOK'
<1> SUFFICES ASSUME TypeOK, Boot PROVE TypeOK'
  OBVIOUS
<1>1. ASSUME NEW x \in Thread, BootStartup(x) PROVE TypeOK'
  <2>1. rt_list_remove(tlist, x) \in [ListHead -> Seq(Thread)]
    BY RemoveProperties DEF TypeOK
  <2>2. /\ tlist' \in [ListHead -> Seq(Thread)] /\ group' \in SUBSET Prio
        /\ stat' \in [Thread -> Stat]
    BY <1>1, <2>1, InsertType DEF BootStartup
  <2> QED
    BY <1>1, <2>2 DEF BootStartup, TypeOK, timers, sched
<1>2. CASE rt_system_scheduler_start
  BY <1>2, ToThread DEF rt_system_scheduler_start, TypeOK, links, timers
<1> QED
  BY <1>1, <1>2 DEF Boot

\* The tick stores slices within rt_tick_t.
LEMMA SliceType ==
  ASSUME TypeOK, rt_tick_increase
  PROVE  remaining_tick' \in [Thread -> 0 .. TickMax]
<1>1. current_thread \in Thread /\ TickMax \in Nat \ {0}
      /\ InitTick \in [Thread -> 0 .. TickMax]
  BY ConstantsAssumption DEF rt_tick_increase, TypeOK
<1>2. TickDec(remaining_tick[current_thread]) \in 0 .. TickMax
  BY <1>1 DEF TickDec, TypeOK
<1> QED
  BY <1>1, <1>2 DEF rt_tick_increase, TypeOK

\* The three steps of the tick interrupt keep the types.
LEMMA TickTypes == TypeOK /\ SysTick => TypeOK'
<1> SUFFICES ASSUME TypeOK, SysTick PROVE TypeOK'
  OBVIOUS
<1>1. CASE rt_tick_increase
  <2>1. remaining_tick' \in [Thread -> 0 .. TickMax] /\ current_thread \in Thread
    BY <1>1, SliceType DEF rt_tick_increase, TypeOK
  <2>2. timeout' \in [Thread -> Int]
    BY <1>1 DEF rt_tick_increase, TypeOK
  <2>3. CASE SliceEnds /\ CanYield(current_thread)
    <3>1. MoveToTail(current_thread) /\ rt_schedule(tlist', group)
      BY <1>1, <2>3 DEF rt_tick_increase
    <3>2. tlist' \in [ListHead -> Seq(Thread)]
      BY <2>1, <3>1, MoveType
    <3>3. current_thread' \in Thread \cup {NoThread} /\ (fault' = fault \/ fault' = "empty_level")
      BY <3>1, <3>2, ScheduleType DEF TypeOK
    <3> QED
      BY <1>1, <2>1, <2>2, <3>1, <3>2, <3>3 DEF rt_tick_increase, MoveToTail, TypeOK
  <2>4. CASE ~(SliceEnds /\ CanYield(current_thread))
    BY <1>1, <2>1, <2>2, <2>4 DEF rt_tick_increase, TypeOK, links
  <2> QED
    BY <2>3, <2>4
<1>2. CASE rt_thread_timeout
  <2> DEFINE x == Head(timer_list)
  <2>1. x \in Thread /\ timer_list' \in Seq(Thread)
    BY <1>2, TailElements DEF rt_thread_timeout, Expired, TypeOK
  <2>2. rt_list_remove(tlist, x) \in [ListHead -> Seq(Thread)]
    BY RemoveProperties DEF TypeOK
  <2>3. /\ tlist' \in [ListHead -> Seq(Thread)] /\ group' \in SUBSET Prio
        /\ stat' \in [Thread -> Stat]
    BY <1>2, <2>1, <2>2, InsertType DEF rt_thread_timeout
  <2>4. current_thread' \in Thread \cup {NoThread} /\ (fault' = fault \/ fault' = "empty_level")
    BY <1>2, <2>3, ScheduleType DEF rt_thread_timeout
  <2> QED
    BY <1>2, <2>1, <2>3, <2>4 DEF rt_thread_timeout, TypeOK
<1>3. CASE rt_timer_check_done
  BY <1>3 DEF rt_timer_check_done, TypeOK, links, timers, sched
<1> QED
  BY <1>1, <1>2, <1>3 DEF SysTick

\* The first step of every call keeps the types.
LEMMA CallTypes == TypeOK /\ (\E t \in Thread : Call(t)) => TypeOK'
<1> SUFFICES ASSUME TypeOK, NEW t \in Thread, Call(t) PROVE TypeOK'
  OBVIOUS
<1>1. ASSUME NEW p \in PC, Goto(t, p) PROVE pc' \in [Thread -> PC]
  BY <1>1, GotoType DEF TypeOK
<1>2. ASSUME NEW x \in Thread, rt_thread_resume(t, x) PROVE TypeOK'
  <2>1. pc' \in [Thread -> PC]
    BY <1>1, <1>2, PlacesInPC DEF rt_thread_resume, CheckSuspended
  <2> QED
    BY <1>2, <2>1 DEF rt_thread_resume, TypeOK, links, timers, sched
<1>3. ASSUME NEW x \in Thread, rt_thread_startup(t, x) PROVE TypeOK'
  <2>1. pc' \in [Thread -> PC]
    BY <1>1, <1>3, PlacesInPC DEF rt_thread_startup
  <2> QED
    BY <1>3, <2>1 DEF rt_thread_startup, TypeOK, timers, sched, Stat
<1>4. ASSUME NEW x \in Thread, rt_thread_suspend(t, x) PROVE TypeOK'
  <2>1. pc' \in [Thread -> PC]
    BY <1>1, <1>4, PlacesInPC DEF rt_thread_suspend
  <2> QED
    BY <1>4, <2>1 DEF rt_thread_suspend, TypeOK, links, timers, sched
<1>5. ASSUME NEW x \in Thread, rt_thread_delete(t, x) \/ rt_thread_detach(t, x) PROVE TypeOK'
  <2>1. PICK kind \in {"delete", "detach"} : CloseThread(t, x, kind)
    BY <1>5 DEF rt_thread_delete, rt_thread_detach
  <2>2. pc' \in [Thread -> PC]
    BY <1>1, <2>1, PlacesInPC DEF CloseThread
  <2> QED
    BY <2>1, <2>2 DEF CloseThread, TypeOK, links, timers, sched
<1>6. ASSUME NEW tick \in Delay, rt_thread_sleep(t, tick) PROVE TypeOK'
  <2>1. pc' \in [Thread -> PC]
    BY <1>1, <1>6, PlacesInPC DEF rt_thread_sleep
  <2>2. tick \in Int
    BY ConstantsAssumption
  <2>3. /\ timer_list' \in Seq(Thread) /\ activated' \in SUBSET Thread
        /\ timeout' \in [Thread -> Int]
    BY <1>6, <2>2, TimerType DEF rt_thread_sleep
  <2>4. /\ tlist' \in [ListHead -> Seq(Thread)] /\ group' \in SUBSET Prio
        /\ stat' \in [Thread -> Stat]
    BY <1>6, RemoveType DEF rt_thread_sleep, Suspend, TypeOK, links, Stat
  <2> QED
    BY <1>6, <2>1, <2>3, <2>4 DEF rt_thread_sleep, TypeOK, sched
<1>7. CASE rt_thread_yield(t)
  <2>1. pc' \in [Thread -> PC]
    BY <1>1, <1>7, PlacesInPC DEF rt_thread_yield
  <2>2. tlist' \in [ListHead -> Seq(Thread)]
    BY <1>7, MoveType DEF rt_thread_yield
  <2> QED
    BY <1>7, <2>1, <2>2 DEF rt_thread_yield, MoveToTail, TypeOK, timers, sched
<1>8. CASE call_rt_schedule(t)
  <2>1. current_thread' \in Thread \cup {NoThread} /\ (fault' = fault \/ fault' = "empty_level")
    BY <1>8, ScheduleType DEF call_rt_schedule, TypeOK
  <2> QED
    BY <1>8, <2>1 DEF call_rt_schedule, TypeOK, links, timers
<1>9. CASE rt_enter_critical(t)
  <2>1. lock_nest' \in 0 .. LockMax
    BY <1>9, ConstantsAssumption DEF rt_enter_critical, TypeOK
  <2> QED
    BY <1>9, <2>1 DEF rt_enter_critical, TypeOK, links, timers
<1>10. CASE rt_exit_critical(t)
  <2>1. pc' \in [Thread -> PC]
    BY <1>1, <1>10, PlacesInPC DEF rt_exit_critical
  <2>2. lock_nest' \in 0 .. LockMax
    BY <1>10, ConstantsAssumption DEF rt_exit_critical, TypeOK
  <2> QED
    BY <1>10, <2>1, <2>2 DEF rt_exit_critical, TypeOK, links, timers
<1> QED
  BY <1>2, <1>3, <1>4, <1>5, <1>6, <1>7, <1>8, <1>9, <1>10 DEF Call, OnTarget

\* The later steps of every call keep the types.
LEMMA ContinueTypes == TypeOK /\ (\E t \in Thread : Continue(t)) => TypeOK'
<1> SUFFICES ASSUME TypeOK, NEW t \in Thread, Continue(t) PROVE TypeOK'
  OBVIOUS
<1>1. ASSUME NEW p \in PC, Goto(t, p) PROVE pc' \in [Thread -> PC]
  BY <1>1, GotoType DEF TypeOK
<1>2. pc[t] \in PC
  BY DEF TypeOK
<1>3. CASE Reschedule(t)
  <2>1. current_thread' \in Thread \cup {NoThread} /\ (fault' = fault \/ fault' = "empty_level")
    BY <1>3, ScheduleType DEF Reschedule, TypeOK
  <2>2. pc' \in [Thread -> PC]
    BY <1>1, <1>3, PlacesInPC DEF Reschedule
  <2> QED
    BY <1>3, <2>1, <2>2 DEF Reschedule, TypeOK, links, timers
<1>4. CASE ResumeRemove(t)
  <2>1. pc[t].arg \in Thread /\ pc[t].then \in {"user", "schedule"}
    BY <1>2, <1>4, PlacesOfPC DEF ResumeRemove
  <2>2. pc' \in [Thread -> PC]
    BY <1>1, <1>4, <2>1, PlacesInPC DEF ResumeRemove
  <2>3. tlist' \in [ListHead -> Seq(Thread)]
    BY <1>4, RemoveProperties DEF ResumeRemove, TypeOK
  <2> QED
    BY <1>4, <2>2, <2>3 DEF ResumeRemove, TypeOK, timers, sched
<1>5. CASE ResumeInsert(t)
  <2>1. pc[t].arg \in Thread /\ pc[t].then \in {"user", "schedule"}
    BY <1>2, <1>5, PlacesOfPC DEF ResumeInsert
  <2>2. pc' \in [Thread -> PC]
    BY <1>1, <1>5, <2>1, PlacesInPC DEF ResumeInsert
  <2>3. /\ tlist' \in [ListHead -> Seq(Thread)] /\ group' \in SUBSET Prio
        /\ stat' \in [Thread -> Stat]
    BY <1>5, <2>1, InsertType DEF ResumeInsert, TypeOK
  <2> QED
    BY <1>5, <2>2, <2>3 DEF ResumeInsert, TypeOK, timers, sched
<1>6. CASE StartupResume(t)
  <2>1. pc[t].arg \in Thread
    BY <1>2, <1>6, PlacesOfPC DEF StartupResume
  <2>2. pc' \in [Thread -> PC]
    BY <1>1, <1>6, <2>1, PlacesInPC DEF StartupResume, CheckSuspended
  <2> QED
    BY <1>6, <2>2 DEF StartupResume, TypeOK, links, timers, sched
<1>7. CASE SuspendCrit(t)
  <2>1. pc[t].arg \in Thread
    BY <1>2, <1>7, PlacesOfPC DEF SuspendCrit
  <2>2. pc' \in [Thread -> PC]
    BY <1>1, <1>7, PlacesInPC DEF SuspendCrit
  <2>3. /\ tlist' \in [ListHead -> Seq(Thread)] /\ group' \in SUBSET Prio
        /\ stat' \in [Thread -> Stat]
    BY <1>7, RemoveType DEF SuspendCrit, Suspend, TypeOK, Stat
  <2>4. /\ timer_list' \in Seq(Thread) /\ activated' \in SUBSET Thread
        /\ timeout' \in [Thread -> Int]
    BY <1>7, <2>1, TimerType DEF SuspendCrit
  <2> QED
    BY <1>7, <2>2, <2>3, <2>4 DEF SuspendCrit, TypeOK, sched
<1>8. CASE CloseRemove(t)
  <2>1. pc[t].arg \in Thread /\ pc[t].then \in {"delete", "detach"}
    BY <1>2, <1>8, PlacesOfPC DEF CloseRemove
  <2>2. pc' \in [Thread -> PC]
    BY <1>1, <1>8, <2>1, PlacesInPC DEF CloseRemove
  <2>3. tlist' \in [ListHead -> Seq(Thread)] /\ group' \in SUBSET Prio
    BY <1>8, RemoveType DEF CloseRemove
  <2> QED
    BY <1>8, <2>2, <2>3 DEF CloseRemove, TypeOK, timers, sched
<1>9. CASE CloseTimer(t)
  <2>1. pc[t].arg \in Thread /\ pc[t].then \in {"delete", "detach"}
    BY <1>2, <1>9, PlacesOfPC DEF CloseTimer
  <2>2. pc' \in [Thread -> PC]
    BY <1>1, <1>9, <2>1, PlacesInPC DEF CloseTimer
  <2>3. timer_list' \in Seq(Thread)
    BY <1>9, WithoutProperties DEF CloseTimer, TypeOK
  <2> QED
    BY <1>9, <2>2, <2>3 DEF CloseTimer, TypeOK, links, sched
<1>10. CASE CloseStat(t)
  <2>1. pc[t].arg \in Thread /\ pc[t].then \in {"delete", "detach"}
    BY <1>2, <1>10, PlacesOfPC DEF CloseStat
  <2>2. pc' \in [Thread -> PC]
    BY <1>1, <1>10, <2>1, PlacesInPC DEF CloseStat
  <2> QED
    BY <1>10, <2>2 DEF CloseStat, TypeOK, timers, sched, Stat
<1>11. CASE CloseList(t)
  <2>1. pc' \in [Thread -> PC]
    BY <1>1, <1>11, PlacesInPC DEF CloseList
  <2> QED
    BY <1>11, <2>1 DEF CloseList, TypeOK, links, timers, sched
<1> QED
  BY <1>3, <1>4, <1>5, <1>6, <1>7, <1>8, <1>9, <1>10, <1>11 DEF Continue

\* Every step of the kernel keeps the types.
LEMMA TypeStep == TypeOK /\ [Next]_vars => TypeOK'
<1>1. TypeOK /\ UNCHANGED vars => TypeOK'
  BY DEF TypeOK, vars, links, timers, sched
<1> QED
  BY <1>1, BootTypes, TickTypes, CallTypes, ContinueTypes DEF Next

\* Whatever the threads call and however their calls interleave, every
\* variable of the kernel stays in its type; in particular a call that is
\* half done still knows which thread it works on.
THEOREM TypeCorrect == Spec => []TypeOK
<1>1. Init => TypeOK
  BY ConstantsAssumption, PlacesInPC, EmptySeq
     DEF Init, rt_system_scheduler_init, rt_thread_init, rt_timer_init,
         TypeOK, Stat
<1> QED
  BY <1>1, TypeStep, PTL DEF Spec

-----------------------------------------------------------------------------
(* The lists and the bitmap.                                               *)

\* The parts of the invariant: none of them is inductive without OwnLevel,
\* which tells rt_list_remove which level can become empty.
ListInv ==
    /\ ReadyLevelsHaveBits
    /\ OwnLevel
    /\ StaleBitsAreTransient
    /\ LinkedOnce

\* No rt_thread_resume enters or leaves its window.
WindowsStay == \A u \in Thread : pc[u].at = "resume_insert" => pc'[u] = pc[u]

OnceIn(ls) ==
    \A g, h \in ListHead : \A i \in DOMAIN ls[g], j \in DOMAIN ls[h] :
        ls[g][i] = ls[h][j] => g = h /\ i = j

\* OnceIn in terms of membership.
LEMMA OnceMembership ==
  ASSUME NEW ls \in [ListHead -> Seq(Thread)]
  PROVE  OnceIn(ls) <=>
           /\ \A h \in ListHead : Distinct(ls[h])
           /\ \A g, h \in ListHead : \A x \in Thread :
                Contains(ls[g], x) /\ Contains(ls[h], x) => g = h
<1>1. \A h \in ListHead : DOMAIN ls[h] = 1 .. Len(ls[h])
                          /\ \A i \in 1 .. Len(ls[h]) : ls[h][i] \in Thread
  BY LenProperties, ElementOfSeq
<1> QED
  BY <1>1 DEF OnceIn, Distinct, Contains

\* Unlinking x.
LEMMA Unlinked ==
  ASSUME NEW ls \in [ListHead -> Seq(Thread)], NEW x
  PROVE  /\ \A h \in ListHead : \A y :
              Contains(rt_list_remove(ls, x)[h], y) => Contains(ls[h], y)
         /\ \A h \in ListHead :
              rt_list_remove(ls, x)[h] = <<>> => ls[h] = <<>> \/ Contains(ls[h], x)
         /\ OnceIn(ls) => OnceIn(rt_list_remove(ls, x)) /\ ~IsLinked(rt_list_remove(ls, x), x)
<1> DEFINE m == rt_list_remove(ls, x)
<1>1. m \in [ListHead -> Seq(Thread)] /\ \A h \in ListHead : m[h] = Without(ls[h], x)
  BY RemoveProperties
<1>2. \A h \in ListHead : \A y : Contains(m[h], y) => Contains(ls[h], y)
  BY <1>1, WithoutElements
<1>3. \A h \in ListHead : m[h] = <<>> => ls[h] = <<>> \/ Contains(ls[h], x)
  BY <1>1, WithoutProperties
<1>4. ASSUME OnceIn(ls) PROVE OnceIn(m) /\ ~IsLinked(m, x)
  <2>1. \A h \in ListHead : Distinct(ls[h])
    BY <1>4, OnceMembership
  <2>2. \A h \in ListHead : Distinct(m[h]) /\ ~Contains(m[h], x)
    BY <1>1, <2>1, WithoutElements
  <2>3. \A g, h \in ListHead : \A y \in Thread :
          Contains(m[g], y) /\ Contains(m[h], y) => g = h
    <3>1. \A g, h \in ListHead : \A y \in Thread :
            Contains(ls[g], y) /\ Contains(ls[h], y) => g = h
      BY <1>4, OnceMembership
    <3> HIDE DEF m
    <3> QED
      BY <1>2, <3>1
  <2> HIDE DEF m
  <2>4. OnceIn(m)
    BY <1>1, <2>2, <2>3, OnceMembership
  <2> QED
    BY <2>2, <2>4 DEF IsLinked
<1> QED
  BY <1>2, <1>3, <1>4

\* Linking x into its level.
LEMMA Linked ==
  ASSUME NEW ls \in [ListHead -> Seq(Thread)], NEW x \in Thread
  PROVE  /\ \A h \in ListHead : \A y : Contains(insert_ready(ls, x)[h], y)
              => Contains(ls[h], y) \/ (y = x /\ h = Priority[x])
         /\ OnceIn(ls) /\ ~IsLinked(ls, x) => OnceIn(insert_ready(ls, x))
<1> DEFINE m == insert_ready(ls, x)
<1>1. /\ m \in [ListHead -> Seq(Thread)] /\ Priority[x] \in ListHead
      /\ \A h \in ListHead : m[h] = IF h = Priority[x] THEN Append(ls[h], x) ELSE ls[h]
  BY InsertProperties
<1>2. \A h \in ListHead : \A y :
        Contains(m[h], y) => Contains(ls[h], y) \/ (y = x /\ h = Priority[x])
  <2> SUFFICES ASSUME NEW h \in ListHead, NEW y, Contains(m[h], y)
               PROVE  Contains(ls[h], y) \/ (y = x /\ h = Priority[x])
    OBVIOUS
  <2>1. CASE h = Priority[x]
    <3>1. Contains(Append(ls[h], x), y)
      BY <1>1, <2>1
    <3> QED
      BY <2>1, <3>1, AppendElements
  <2>2. CASE h # Priority[x]
    BY <1>1, <2>2
  <2> QED
    BY <2>1, <2>2
<1>3. ASSUME OnceIn(ls), ~IsLinked(ls, x) PROVE OnceIn(m)
  <2>1. \A h \in ListHead : Distinct(ls[h]) /\ ~Contains(ls[h], x)
    BY <1>3, OnceMembership DEF IsLinked
  <2>2. ASSUME NEW h \in ListHead PROVE Distinct(m[h])
    <3>1. Distinct(ls[h]) /\ Distinct(Append(ls[h], x))
      BY <2>1, AppendElements
    <3>2. m[h] = ls[h] \/ m[h] = Append(ls[h], x)
      BY <1>1
    <3> HIDE DEF m
    <3> QED
      BY <3>1, <3>2
  <2>3. \A g, h \in ListHead : \A y \in Thread :
          Contains(m[g], y) /\ Contains(m[h], y) => g = h
    <3>1. \A g, h \in ListHead : \A y \in Thread :
            Contains(ls[g], y) /\ Contains(ls[h], y) => g = h
      BY <1>3, OnceMembership
    <3> HIDE DEF m
    <3> QED
      BY <1>2, <2>1, <3>1
  <2> HIDE DEF m
  <2> QED
    BY <1>1, <2>2, <2>3, OnceMembership
<1> QED
  BY <1>2, <1>3

\* LinkedOnce is OnceIn(tlist).
LEMMA LinkedOnceIsOnceIn == LinkedOnce <=> (fault = "none" => OnceIn(tlist))
  BY DEF LinkedOnce, OnceIn

\* A step that leaves the lists, the bitmap and the windows alone.
LEMMA NoListStep ==
  ASSUME ListInv, fault = "none", UNCHANGED <<tlist, group>>, WindowsStay
  PROVE  ListInv'
<1>1. ReadyLevelsHaveBits' /\ OwnLevel' /\ LinkedOnce'
  BY DEF ListInv, ReadyLevelsHaveBits, OwnLevel, LinkedOnce
<1>2. StaleBitsAreTransient'
  BY DEF ListInv, StaleBitsAreTransient, WindowsStay
<1> QED
  BY <1>1, <1>2 DEF ListInv

\* A step that unlinks x and appends it to its level.
LEMMA RelinkStep ==
  ASSUME TypeOK, ListInv, fault = "none", WindowsStay, NEW x \in Thread,
         tlist' = insert_ready(rt_list_remove(tlist, x), x),
         group' = group \cup {Priority[x]}
  PROVE  ListInv'
<1> DEFINE l == rt_list_remove(tlist, x)
<1>1. tlist \in [ListHead -> Seq(Thread)] /\ l \in [ListHead -> Seq(Thread)]
  BY RemoveProperties DEF TypeOK
<1>2. \A h \in ListHead : /\ l[h] # <<>> => tlist[h] # <<>>
                          /\ l[h] = <<>> => tlist[h] = <<>> \/ Contains(tlist[h], x)
                          /\ \A y : Contains(l[h], y) => Contains(tlist[h], y)
  BY <1>1, RemoveProperties, Unlinked
<1>3. OnceIn(tlist) => OnceIn(l) /\ ~IsLinked(l, x)
  BY <1>1, Unlinked
<1> HIDE DEF l
<1>4. tlist' = insert_ready(l, x)
  BY DEF l
<1>5. \A h \in ListHead : /\ tlist'[h] # <<>> <=> l[h] # <<>> \/ h = Priority[x]
                          /\ \A y : Contains(tlist'[h], y)
                               => Contains(l[h], y) \/ (y = x /\ h = Priority[x])
  <2>1. \A h \in ListHead : tlist'[h] # <<>> <=> l[h] # <<>> \/ h = Priority[x]
    BY <1>1, <1>4, InsertProperties
  <2>2. \A h \in ListHead : \A y :
          Contains(tlist'[h], y) => Contains(l[h], y) \/ (y = x /\ h = Priority[x])
    BY <1>1, <1>4, Linked
  <2> QED
    BY <2>1, <2>2
<1>6. OnceIn(l) /\ ~IsLinked(l, x) => OnceIn(tlist')
  BY <1>1, <1>4, Linked
<1>7. Prio \subseteq ListHead /\ group \subseteq Prio /\ Priority[x] \in Prio
  BY InsertProperties, <1>1 DEF ListHead, TypeOK
<1>8. ReadyLevelsHaveBits'
  BY <1>2, <1>5, <1>7 DEF ListInv, ReadyLevelsHaveBits
<1>9. OwnLevel'
  BY <1>2, <1>5 DEF ListInv, OwnLevel
<1>10. StaleBitsAreTransient'
  <2> SUFFICES ASSUME NEW p \in group', tlist'[p] = <<>>
               PROVE  \E t \in Thread : pc'[t].at = "resume_insert" /\ Priority[pc'[t].arg] = p
    BY DEF StaleBitsAreTransient
  <2>1. p \in group /\ p \in ListHead /\ l[p] = <<>> /\ p # Priority[x]
    BY <1>5, <1>7
  <2>2. tlist[p] = <<>>
    BY <1>2, <2>1 DEF ListInv, OwnLevel
  <2> QED
    BY <2>1, <2>2 DEF ListInv, StaleBitsAreTransient, WindowsStay
<1>11. LinkedOnce'
  <2>1. OnceIn(tlist')
    BY <1>3, <1>6, LinkedOnceIsOnceIn DEF ListInv
  <2> QED
    BY <2>1 DEF LinkedOnce, OnceIn
<1> QED
  BY <1>8, <1>9, <1>10, <1>11 DEF ListInv

\* A thread that was never started is nowhere: no list or timer has it, it does not
\* run, and only a call that closes it works on it.  Its number_mask is 0, so
\* closing it may leave its level's bit alone.
Working == {"startup_resume", "resume_remove", "resume_insert", "suspend_crit"}
StartedInv ==
    /\ current_thread # NoThread => NumberMask(current_thread) # {}
    /\ \A x \in Thread : NumberMask(x) = {} =>
          /\ ~IsLinked(tlist, x) /\ ~Contains(timer_list, x)
          /\ \A t \in Thread : pc[t].arg = x => pc[t].at \notin Working

\* A step that links only started threads, and chooses the next one from a list.
LEMMA StartedKept ==
  ASSUME TypeOK, TypeOK', StartedInv,
         \A x \in Thread : NumberMask(x)' = {} =>
            /\ NumberMask(x) = {}
            /\ IsLinked(tlist', x) => IsLinked(tlist, x)
            /\ Contains(timer_list', x) => Contains(timer_list, x)
            /\ \A t \in Thread : pc'[t].arg = x /\ pc'[t].at \in Working
                  => pc[t].arg = x /\ pc[t].at \in Working,
         \/ current_thread' \in {current_thread, NoThread}
         \/ IsLinked(tlist', current_thread')
  PROVE  StartedInv'
<1>1. ASSUME NEW x \in Thread, NumberMask(x)' = {}
      PROVE  /\ ~IsLinked(tlist', x) /\ ~Contains(timer_list', x)
             /\ \A t \in Thread : pc'[t].arg = x => pc'[t].at \notin Working
  BY <1>1 DEF StartedInv
<1>2. ASSUME current_thread' # NoThread PROVE NumberMask(current_thread)' # {}
  <2>1. current_thread' \in Thread
    BY <1>2 DEF TypeOK
  <2> QED
    BY <1>1, <1>2, <2>1 DEF StartedInv
<1> QED
  BY <1>1, <1>2 DEF StartedInv, IsLinked

\* What the list operations link, and whom rt_schedule chooses.
LEMMA LinksOf ==
  ASSUME NEW ls \in [ListHead -> Seq(Thread)], NEW x \in Thread
  PROVE  /\ \A y : IsLinked(rt_list_remove(ls, x), y) => IsLinked(ls, y)
         /\ \A y : IsLinked(insert_ready(ls, x), y) => IsLinked(ls, y) \/ y = x
<1>1. \A h \in ListHead : \A y :
        Contains(rt_list_remove(ls, x)[h], y) => Contains(ls[h], y)
  BY Unlinked
<1>2. \A h \in ListHead : \A y : Contains(insert_ready(ls, x)[h], y)
        => Contains(ls[h], y) \/ (y = x /\ h = Priority[x])
  BY Linked
<1> QED
  BY <1>1, <1>2 DEF IsLinked

LEMMA ChosenIsLinked ==
  ASSUME NEW ls \in [ListHead -> Seq(Thread)], NEW g \in SUBSET Prio
  PROVE  to_thread(ls, g) = NoThread \/ IsLinked(ls, to_thread(ls, g))
<1> DEFINE h == highest_ready_priority(g)
<1>1. CASE g = {} \/ ls[h] = <<>>
  BY <1>1 DEF to_thread
<1>2. CASE g # {} /\ ls[h] # <<>>
  <2>1. h \in ListHead /\ ls[h] \in Seq(Thread)
    BY <1>2, HighestPriority DEF ListHead
  <2> HIDE DEF h
  <2>2. 1 \in 1 .. Len(ls[h]) /\ ls[h][1] = Head(ls[h])
    BY <1>2, <2>1, LenProperties, HeadTailProperties, EmptySeq
  <2>3. Contains(ls[h], Head(ls[h]))
    BY <2>2 DEF Contains
  <2> QED
    BY <1>2, <2>1, <2>3 DEF to_thread, IsLinked, h
<1> QED
  BY <1>1, <1>2

\* What the timer operations leave in the list.
LEMMA TimersOf ==
  ASSUME TypeOK, NEW x \in Thread
  PROVE  /\ \A y : Contains(Without(timer_list, x), y) => Contains(timer_list, y)
         /\ \A d \in Int : rt_timer_start(x, d) =>
              \A y : Contains(timer_list', y) => Contains(timer_list, y) \/ y = x
<1> DEFINE l == Without(timer_list, x)
<1>1. l \in Seq(Thread) /\ \A y : Contains(l, y) => Contains(timer_list, y)
  BY WithoutProperties, WithoutElements DEF TypeOK
<1>2. ASSUME NEW d \in Int, rt_timer_start(x, d), NEW y, Contains(timer_list', y)
      PROVE  Contains(timer_list, y) \/ y = x
  <2> DEFINE k == InsertPosition(l, d)
  <2>1. k \in 1 .. Len(l) + 1 /\ timer_list' = InsertAt(l, k, x)
    BY <1>1, <1>2, InsertPlace DEF rt_timer_start, TypeOK
  <2> HIDE DEF l, k
  <2>2. /\ InsertAt(l, k, x) \in Seq(Thread) /\ Len(InsertAt(l, k, x)) = Len(l) + 1
        /\ \A i \in 1 .. Len(l) + 1 : InsertAt(l, k, x)[i] =
               IF i < k THEN l[i] ELSE IF i = k THEN x ELSE l[i - 1]
    BY <1>1, <2>1, InsertAtProperties
  <2>3. Len(l) \in Nat
    BY <1>1, LenProperties
  <2>4. PICK i \in 1 .. Len(l) + 1 : InsertAt(l, k, x)[i] = y
    BY <1>2, <2>1, <2>2 DEF Contains
  <2>5. y = x \/ \E j \in 1 .. Len(l) : l[j] = y
    BY <2>1, <2>2, <2>3, <2>4
  <2> QED
    BY <1>1, <2>5 DEF Contains
<1> QED
  BY <1>1, <1>2

\* main and the tick handler.
LEMMA BootStarted == TypeOK /\ TypeOK' /\ StartedInv /\ (Boot \/ SysTick) => StartedInv'
<1> SUFFICES ASSUME TypeOK, TypeOK', StartedInv, Boot \/ SysTick PROVE StartedInv'
  OBVIOUS
<1>1. /\ tlist \in [ListHead -> Seq(Thread)] /\ stat \in [Thread -> Stat]
      /\ tlist' \in [ListHead -> Seq(Thread)] /\ group \in SUBSET Prio /\ group' \in SUBSET Prio
  BY DEF TypeOK
<1>2. ASSUME NEW x \in Thread
      PROVE  \A y : IsLinked(insert_ready(rt_list_remove(tlist, x), x), y)
                 => IsLinked(tlist, y) \/ y = x
  <2>1. rt_list_remove(tlist, x) \in [ListHead -> Seq(Thread)]
    BY <1>1, RemoveProperties
  <2> QED
    BY <1>1, <2>1, LinksOf
<1>3. ASSUME rt_schedule(tlist', group')
      PROVE  \/ current_thread' \in {current_thread, NoThread}
             \/ IsLinked(tlist', current_thread')
  BY <1>1, <1>3, ChosenIsLinked DEF rt_schedule
<1>4. ASSUME NEW x \in Thread, BootStartup(x) PROVE StartedInv'
  <2>1. /\ tlist' = insert_ready(rt_list_remove(tlist, x), x)
        /\ stat' = [stat EXCEPT ![x] = "ready"]
        /\ UNCHANGED <<timer_list, current_thread, pc>>
    BY <1>4 DEF BootStartup, rt_schedule_insert_thread, timers, sched
  <2>2. ASSUME NEW y \in Thread, NumberMask(y)' = {} PROVE NumberMask(y) = {} /\ y # x
    BY <1>1, <2>1, <2>2 DEF NumberMask
  <2> QED
    BY <1>2, <2>1, <2>2, StartedKept
<1>5. CASE rt_system_scheduler_start
  <2>1. IsLinked(tlist', current_thread') \/ current_thread' = NoThread
    BY <1>1, <1>5, ChosenIsLinked DEF rt_system_scheduler_start, links
  <2> QED
    BY <1>5, <2>1, StartedKept DEF rt_system_scheduler_start, links, timers, NumberMask
<1>6. CASE rt_tick_increase
  <2> DEFINE c == current_thread
  <2>1. c \in Thread /\ NumberMask(c) # {}
    BY <1>6 DEF rt_tick_increase, TypeOK, StartedInv
  <2>2. /\ stat' = stat /\ timer_list' = timer_list /\ pc' = pc
        /\ \/ UNCHANGED <<tlist, current_thread>>
           \/ tlist' = insert_ready(rt_list_remove(tlist, c), c) /\ rt_schedule(tlist', group')
    BY <1>6 DEF rt_tick_increase, links, MoveToTail
  <2>3. ASSUME NEW y \in Thread, NumberMask(y)' = {} PROVE NumberMask(y) = {} /\ y # c
    BY <2>1, <2>2, <2>3 DEF NumberMask
  <2> HIDE DEF c
  <2>4. \/ current_thread' \in {current_thread, NoThread}
        \/ IsLinked(tlist', current_thread')
    BY <1>3, <2>2
  <2>5. \A y : IsLinked(tlist', y) => IsLinked(tlist, y) \/ y = c
    BY <1>2, <2>1, <2>2
  <2> QED
    BY <2>2, <2>3, <2>4, <2>5, StartedKept
<1>7. CASE rt_thread_timeout
  <2> DEFINE x == Head(timer_list)
  <2>1. x \in Thread /\ \A y : Contains(timer_list', y) => Contains(timer_list, y)
    BY <1>7, TailElements DEF rt_thread_timeout, Expired, TypeOK
  <2>2. /\ tlist' = insert_ready(rt_list_remove(tlist, x), x) /\ rt_schedule(tlist', group')
        /\ stat' = [stat EXCEPT ![x] = "ready"] /\ pc' = pc
    BY <1>7 DEF rt_thread_timeout, rt_schedule_insert_thread
  <2> HIDE DEF x
  <2>3. ASSUME NEW y \in Thread, NumberMask(y)' = {} PROVE NumberMask(y) = {} /\ y # x
    BY <1>1, <2>1, <2>2, <2>3 DEF NumberMask
  <2>4. \A y : IsLinked(tlist', y) => IsLinked(tlist, y) \/ y = x
    BY <1>2, <2>1, <2>2
  <2> QED
    BY <1>3, <2>1, <2>2, <2>3, <2>4, StartedKept
<1>8. CASE rt_timer_check_done
  BY <1>8, StartedKept DEF rt_timer_check_done, links, timers, sched, NumberMask
<1> QED
  BY <1>4, <1>5, <1>6, <1>7, <1>8 DEF Boot, SysTick

\* The threads' calls.
LEMMA CallStarted ==
  TypeOK /\ TypeOK' /\ StartedInv /\ (\E t \in Thread : Call(t)) => StartedInv'
<1> SUFFICES ASSUME TypeOK, TypeOK', StartedInv, NEW t \in Thread, Call(t) PROVE StartedInv'
  OBVIOUS
<1>1. /\ tlist \in [ListHead -> Seq(Thread)] /\ stat \in [Thread -> Stat]
      /\ tlist' \in [ListHead -> Seq(Thread)] /\ group \in SUBSET Prio
      /\ pc \in [Thread -> PC] /\ NoThread \notin Thread
  BY ConstantsAssumption DEF TypeOK
<1>2. current_thread = t /\ NumberMask(t) # {}
  <2>1. current_thread = t
    BY DEF Call, OnTarget, rt_thread_resume, rt_thread_startup, rt_thread_suspend,
       rt_thread_delete, rt_thread_detach, CloseThread, rt_thread_sleep, rt_thread_yield,
       call_rt_schedule, rt_enter_critical, rt_exit_critical, Calls, Running
  <2> QED
    BY <1>1, <2>1 DEF StartedInv
<1>3. ASSUME NEW p, Goto(t, p), p.at \notin Working
      PROVE  \A u, x \in Thread : pc'[u].arg = x /\ pc'[u].at \in Working
               => pc[u].arg = x /\ pc[u].at \in Working
  BY <1>1, <1>3 DEF Goto
<1>4. ASSUME NEW x \in Thread, OnTarget(t, x) PROVE StartedInv'
  <2>1. /\ UNCHANGED <<tlist, timer_list, current_thread>>
        /\ \E p : /\ Goto(t, p)
                  /\ \/ p.at \notin Working /\ stat' = stat
                     \/ p.arg = x /\ stat[x] \in {"ready", "suspend"} /\ stat' = stat
                     \/ p.arg = x /\ stat' = [stat EXCEPT ![x] = "suspend"]
    BY <1>4 DEF OnTarget, rt_thread_resume, rt_thread_startup, rt_thread_suspend,
       rt_thread_delete, rt_thread_detach, CloseThread, CheckSuspended, links, timers, sched,
       At, User, Working
  <2>2. PICK p : /\ Goto(t, p)
                 /\ \/ p.at \notin Working /\ stat' = stat
                    \/ p.arg = x /\ stat[x] \in {"ready", "suspend"} /\ stat' = stat
                    \/ p.arg = x /\ stat' = [stat EXCEPT ![x] = "suspend"]
    BY <2>1
  <2>3. ASSUME NEW y \in Thread, NumberMask(y)' = {}
        PROVE  /\ NumberMask(y) = {}
               /\ p.at \notin Working \/ p.arg # y
    BY <1>1, <2>2, <2>3 DEF NumberMask
  <2>4. \A y \in Thread : NumberMask(y)' = {} =>
          \A u \in Thread : pc'[u].arg = y /\ pc'[u].at \in Working
               => pc[u].arg = y /\ pc[u].at \in Working
    BY <1>1, <2>2, <2>3 DEF Goto
  <2> QED
    BY <2>1, <2>3, <2>4, StartedKept
<1>5. ASSUME NEW tick \in Delay, rt_thread_sleep(t, tick) PROVE StartedInv'
  <2>1. /\ rt_timer_start(t, tick) /\ current_thread' = current_thread
        /\ Goto(t, At("schedule", NoThread, "user"))
        /\ \/ stat' = stat /\ tlist' = tlist
           \/ stat' = [stat EXCEPT ![t] = "suspend"] /\ tlist' = rt_list_remove(tlist, t)
    BY <1>5 DEF rt_thread_sleep, Suspend, rt_schedule_remove_thread, links, sched
  <2>2. ASSUME NEW y \in Thread, NumberMask(y)' = {} PROVE NumberMask(y) = {} /\ y # t
    BY <1>1, <1>2, <2>1, <2>2 DEF NumberMask
  <2>3. \A y : IsLinked(tlist', y) => IsLinked(tlist, y)
    BY <1>1, <2>1, LinksOf
  <2>4. \A y : Contains(timer_list', y) => Contains(timer_list, y) \/ y = t
    <3>1. tick \in Int
      BY ConstantsAssumption
    <3> QED
      BY <2>1, <3>1, TimersOf
  <2>5. At("schedule", NoThread, "user").at \notin Working
    BY DEF At, Working
  <2> QED
    BY <1>3, <2>1, <2>2, <2>3, <2>4, <2>5, StartedKept
<1>6. CASE rt_thread_yield(t)
  <2>1. /\ tlist' = insert_ready(rt_list_remove(tlist, t), t) /\ stat' = stat
        /\ UNCHANGED <<timer_list, current_thread>>
        /\ Goto(t, At("schedule", NoThread, "user"))
    BY <1>6 DEF rt_thread_yield, MoveToTail, timers, sched
  <2>2. ASSUME NEW y \in Thread, NumberMask(y)' = {} PROVE NumberMask(y) = {} /\ y # t
    BY <1>2, <2>1, <2>2 DEF NumberMask
  <2>3. rt_list_remove(tlist, t) \in [ListHead -> Seq(Thread)]
    BY <1>1, RemoveProperties
  <2>4. \A y : IsLinked(tlist', y) => IsLinked(tlist, y) \/ y = t
    BY <1>1, <2>1, <2>3, LinksOf
  <2>5. At("schedule", NoThread, "user").at \notin Working
    BY DEF At, Working
  <2> QED
    BY <1>3, <2>1, <2>2, <2>4, <2>5, StartedKept
<1>7. CASE call_rt_schedule(t)
  <2>1. /\ UNCHANGED <<tlist, stat, timer_list, pc>>
        /\ \/ current_thread' \in {current_thread, NoThread}
           \/ IsLinked(tlist', current_thread')
    BY <1>1, <1>7, ChosenIsLinked DEF call_rt_schedule, rt_schedule, links, timers
  <2> QED
    BY <2>1, StartedKept DEF NumberMask
<1>8. CASE rt_enter_critical(t) \/ rt_exit_critical(t)
  <2>1. /\ UNCHANGED <<tlist, stat, timer_list, current_thread>>
        /\ pc' = pc \/ \E p : Goto(t, p) /\ p.at \notin Working
    BY <1>8 DEF rt_enter_critical, rt_exit_critical, links, timers, At, User, Working
  <2> QED
    BY <1>3, <2>1, StartedKept DEF NumberMask
<1> QED
  BY <1>4, <1>5, <1>6, <1>7, <1>8 DEF Call

\* The rest of the calls.
LEMMA ContinueStarted ==
  TypeOK /\ TypeOK' /\ StartedInv /\ (\E t \in Thread : Continue(t)) => StartedInv'
<1> SUFFICES ASSUME TypeOK, TypeOK', StartedInv, NEW t \in Thread, Continue(t)
             PROVE  StartedInv'
  OBVIOUS
<1>1. /\ tlist \in [ListHead -> Seq(Thread)] /\ stat \in [Thread -> Stat]
      /\ tlist' \in [ListHead -> Seq(Thread)] /\ group \in SUBSET Prio
      /\ pc \in [Thread -> PC] /\ NoThread \notin Thread /\ timer_list \in Seq(Thread)
  BY ConstantsAssumption DEF TypeOK
<1> DEFINE x == pc[t].arg
<1>2. ASSUME NEW p, Goto(t, p), p.at \notin Working \/ (p.arg = x /\ pc[t].at \in Working)
      PROVE  \A u, y \in Thread : pc'[u].arg = y /\ pc'[u].at \in Working
               => pc[u].arg = y /\ pc[u].at \in Working
  BY <1>1, <1>2 DEF Goto
<1>3. ASSUME pc[t].at \in Working PROVE x \in Thread /\ NumberMask(x) # {}
  <2>1. x \in Thread
    BY <1>1, <1>3, PlacesOfPC DEF Working
  <2> QED
    BY <1>3, <2>1 DEF StartedInv
<1>4. CASE Reschedule(t)
  <2>1. /\ UNCHANGED <<tlist, stat, timer_list>> /\ Goto(t, User)
        /\ \/ current_thread' \in {current_thread, NoThread}
           \/ IsLinked(tlist', current_thread')
    BY <1>1, <1>4, ChosenIsLinked DEF Reschedule, rt_schedule, links, timers
  <2>2. User.at \notin Working
    BY DEF User, Working
  <2> QED
    BY <1>2, <2>1, <2>2, StartedKept DEF NumberMask
<1>5. CASE ResumeRemove(t) \/ SuspendCrit(t)
  <2>1. /\ tlist' = rt_list_remove(tlist, x) /\ current_thread' = current_thread
        /\ timer_list' \in {timer_list, Without(timer_list, x)}
        /\ stat' = stat \/ stat' = [stat EXCEPT ![x] = "suspend"]
        /\ pc[t].at \in Working
        /\ \E p : Goto(t, p) /\ (p.at \notin Working \/ p.arg = x)
    BY <1>5 DEF ResumeRemove, SuspendCrit, Suspend, rt_schedule_remove_thread, rt_timer_stop,
       timers, sched, At, User, Working
  <2>2. x \in Thread
    BY <1>3, <2>1
  <2> HIDE DEF x
  <2>3. ASSUME NEW y \in Thread, NumberMask(y)' = {} PROVE NumberMask(y) = {}
    BY <1>1, <2>1, <2>2, <2>3 DEF NumberMask
  <2>4. \A y : IsLinked(tlist', y) => IsLinked(tlist, y)
    BY <1>1, <2>1, <2>2, LinksOf
  <2>5. \A y : Contains(timer_list', y) => Contains(timer_list, y)
    BY <2>1, <2>2, TimersOf
  <2> QED
    BY <1>2, <2>1, <2>3, <2>4, <2>5, StartedKept
<1>6. CASE ResumeInsert(t)
  <2>1. /\ tlist' = insert_ready(tlist, x) /\ stat' = [stat EXCEPT ![x] = "ready"]
        /\ UNCHANGED <<timer_list, current_thread>> /\ pc[t].at \in Working
        /\ Goto(t, At(pc[t].then, NoThread, "user")) /\ pc[t].at = "resume_insert"
    BY <1>6 DEF ResumeInsert, rt_schedule_insert_thread, timers, sched, Working
  <2>2. x \in Thread /\ pc[t].then \in {"user", "schedule"}
    BY <1>1, <2>1, PlacesOfPC
  <2>3. At(pc[t].then, NoThread, "user").at \notin Working
    BY <2>2 DEF At, Working
  <2> HIDE DEF x
  <2>4. ASSUME NEW y \in Thread, NumberMask(y)' = {} PROVE NumberMask(y) = {} /\ y # x
    BY <1>1, <2>1, <2>2, <2>4 DEF NumberMask
  <2>5. \A y : IsLinked(tlist', y) => IsLinked(tlist, y) \/ y = x
    BY <1>1, <2>1, <2>2, LinksOf
  <2> QED
    BY <1>2, <2>1, <2>3, <2>4, <2>5, StartedKept
<1>7. CASE StartupResume(t)
  <2>1. /\ UNCHANGED <<tlist, stat, timer_list, current_thread>> /\ pc[t].at \in Working
        /\ \E p : Goto(t, p) /\ (p.at \notin Working \/ p.arg = x)
    BY <1>7 DEF StartupResume, CheckSuspended, links, timers, sched, At, Working
  <2> HIDE DEF x
  <2> QED
    BY <1>2, <2>1, StartedKept DEF NumberMask
<1>8. CASE CloseRemove(t) \/ CloseTimer(t) \/ CloseStat(t) \/ CloseList(t)
  <2>1. x \in Thread
    BY <1>1, <1>8, PlacesOfPC DEF CloseRemove, CloseTimer, CloseStat, CloseList
  <2>2. /\ tlist' \in {tlist, rt_list_remove(tlist, x)} /\ current_thread' = current_thread
        /\ timer_list' \in {timer_list, Without(timer_list, x)}
        /\ \/ stat' = stat
           \/ stat' = [stat EXCEPT ![x] = IF NumberMask(x) = {} THEN "close_init" ELSE "close"]
        /\ \E p : Goto(t, p) /\ p.at \notin Working
    BY <1>8 DEF CloseRemove, CloseTimer, CloseStat, CloseList, rt_schedule_remove_thread,
       links, timers, sched, At, User, Working
  <2> HIDE DEF x
  <2>3. ASSUME NEW y \in Thread, NumberMask(y)' = {} PROVE NumberMask(y) = {}
    BY <1>1, <2>1, <2>2, <2>3 DEF NumberMask
  <2>4. \A y : IsLinked(tlist', y) => IsLinked(tlist, y)
    <3>1. \A y : IsLinked(rt_list_remove(tlist, x), y) => IsLinked(tlist, y)
      BY <1>1, <2>1, LinksOf
    <3>2. tlist' = tlist \/ tlist' = rt_list_remove(tlist, x)
      BY <2>2
    <3>3. CASE tlist' = tlist
      BY <3>3
    <3>4. CASE tlist' = rt_list_remove(tlist, x)
      BY <3>1, <3>4
    <3> QED
      BY <3>2, <3>3, <3>4
  <2>5. \A y : Contains(timer_list', y) => Contains(timer_list, y)
    BY <2>1, <2>2, TimersOf
  <2> QED
    BY <1>2, <2>2, <2>3, <2>4, <2>5, StartedKept
<1> QED
  BY <1>4, <1>5, <1>6, <1>7, <1>8 DEF Continue

LEMMA NeverStartedIsNowhere == Spec => []StartedInv
<1>1. Init => StartedInv
  <2> SUFFICES ASSUME Init PROVE StartedInv
    OBVIOUS
  <2>1. /\ current_thread = NoThread /\ tlist = [h \in ListHead |-> <<>>]
        /\ timer_list = <<>> /\ pc = [t \in Thread |-> User]
    BY DEF Init, rt_system_scheduler_init, rt_thread_init, rt_timer_init
  <2> QED
    BY <2>1 DEF StartedInv, IsLinked, Contains, User, Working
<1>2. TypeOK /\ StartedInv /\ UNCHANGED vars => StartedInv'
  BY DEF StartedInv, NumberMask, IsLinked, vars, links, timers, sched
<1>3. TypeOK /\ TypeOK' /\ StartedInv /\ [Next]_vars => StartedInv'
  BY <1>2, BootStarted, CallStarted, ContinueStarted DEF Next
<1> QED
  BY <1>1, <1>3, TypeCorrect, PTL DEF Spec

\* rt_schedule_remove_thread: only x's own level can become empty.
LEMMA UnlinkStep ==
  ASSUME TypeOK, ListInv, StartedInv, fault = "none", WindowsStay, NEW x \in Thread,
         rt_schedule_remove_thread(x)
  PROVE  ListInv'
<1>1. tlist \in [ListHead -> Seq(Thread)] /\ tlist' = rt_list_remove(tlist, x)
  BY DEF TypeOK, rt_schedule_remove_thread
<1>2. \A h \in ListHead : /\ tlist'[h] # <<>> => tlist[h] # <<>>
                          /\ tlist'[h] = <<>> => tlist[h] = <<>> \/ Contains(tlist[h], x)
                          /\ \A y : Contains(tlist'[h], y) => Contains(tlist[h], y)
  <2>1. \A h \in ListHead : tlist'[h] # <<>> => tlist[h] # <<>>
    BY <1>1, RemoveProperties
  <2>2. \A h \in ListHead :
          /\ tlist'[h] = <<>> => tlist[h] = <<>> \/ Contains(tlist[h], x)
          /\ \A y : Contains(tlist'[h], y) => Contains(tlist[h], y)
    BY <1>1, Unlinked
  <2> QED
    BY <2>1, <2>2
<1>3. OnceIn(tlist) => OnceIn(tlist')
  BY <1>1, Unlinked
<1>4. Prio \subseteq ListHead /\ group \subseteq Prio /\ Priority[x] \in Prio
  BY InsertProperties, <1>1 DEF ListHead, TypeOK
<1>5. /\ NumberMask(x) \in {{}, {Priority[x]}}
      /\ group' = IF tlist'[Priority[x]] = <<>> THEN group \ NumberMask(x) ELSE group
  BY DEF rt_schedule_remove_thread, NumberMask
<1>6. ReadyLevelsHaveBits'
  BY <1>2, <1>4, <1>5 DEF ListInv, ReadyLevelsHaveBits
<1>7. OwnLevel'
  BY <1>2 DEF ListInv, OwnLevel
<1>8. StaleBitsAreTransient'
  <2> SUFFICES ASSUME NEW p \in group', tlist'[p] = <<>>
               PROVE  \E t \in Thread : pc'[t].at = "resume_insert" /\ Priority[pc'[t].arg] = p
    BY DEF StaleBitsAreTransient
  <2>1. p \in group /\ p \in ListHead /\ (p # Priority[x] \/ NumberMask(x) = {})
    BY <1>4, <1>5
  <2>2. tlist[p] = <<>>
    BY <1>2, <2>1 DEF ListInv, OwnLevel, StartedInv, IsLinked
  <2> QED
    BY <2>1, <2>2 DEF ListInv, StaleBitsAreTransient, WindowsStay
<1>9. LinkedOnce'
  BY <1>3, LinkedOnceIsOnceIn DEF ListInv, LinkedOnce, OnceIn
<1> QED
  BY <1>6, <1>7, <1>8, <1>9 DEF ListInv

\* First critical section of rt_thread_resume: the bit of x becomes stale.
LEMMA ResumeRemoveStep ==
  ASSUME TypeOK, ListInv, NEW t \in Thread, ResumeRemove(t)
  PROVE  ListInv'
<1> DEFINE x == pc[t].arg
<1>1. x \in Thread /\ tlist \in [ListHead -> Seq(Thread)] /\ pc \in [Thread -> PC]
  BY PlacesOfPC DEF ResumeRemove, TypeOK
<1>2. /\ tlist' = rt_list_remove(tlist, x) /\ group' = group /\ fault = "none"
      /\ pc' = [pc EXCEPT ![t] = At("resume_insert", x, pc[t].then)]
      /\ pc[t].at = "resume_remove"
  BY DEF ResumeRemove, Goto, Running
<1> HIDE DEF x
<1>3. \A h \in ListHead : /\ tlist'[h] # <<>> => tlist[h] # <<>>
                          /\ tlist'[h] = <<>> => tlist[h] = <<>> \/ Contains(tlist[h], x)
                          /\ \A y : Contains(tlist'[h], y) => Contains(tlist[h], y)
  BY <1>1, <1>2, RemoveProperties, Unlinked
<1>4. OnceIn(tlist) => OnceIn(tlist')
  BY <1>1, <1>2, Unlinked
<1>5. Prio \subseteq ListHead /\ group \subseteq Prio
  BY DEF ListHead, TypeOK
<1>6. ReadyLevelsHaveBits'
  BY <1>2, <1>3, <1>5 DEF ListInv, ReadyLevelsHaveBits
<1>7. OwnLevel'
  BY <1>3 DEF ListInv, OwnLevel
<1>8. StaleBitsAreTransient'
  <2> SUFFICES ASSUME NEW p \in group', tlist'[p] = <<>>
               PROVE  \E u \in Thread : pc'[u].at = "resume_insert" /\ Priority[pc'[u].arg] = p
    BY DEF StaleBitsAreTransient
  <2>1. p \in group /\ p \in ListHead
    BY <1>2, <1>5
  <2>2. pc'[t].at = "resume_insert" /\ pc'[t].arg = x
    BY <1>1, <1>2 DEF At
  <2>3. CASE p = Priority[x]
    BY <2>2, <2>3
  <2>4. CASE p # Priority[x]
    <3>1. tlist[p] = <<>>
      BY <1>1, <1>3, <2>1, <2>4 DEF ListInv, OwnLevel
    <3>2. PICK u \in Thread : pc[u].at = "resume_insert" /\ Priority[pc[u].arg] = p
      BY <2>1, <3>1 DEF ListInv, StaleBitsAreTransient
    <3>3. u # t /\ pc'[u] = pc[u]
      BY <1>1, <1>2, <3>2
    <3> QED
      BY <3>2, <3>3
  <2> QED
    BY <2>3, <2>4
<1>9. LinkedOnce'
  BY <1>2, <1>4, LinkedOnceIsOnceIn DEF ListInv, LinkedOnce, OnceIn
<1> QED
  BY <1>6, <1>7, <1>8, <1>9 DEF ListInv

\* Second critical section of rt_thread_resume: x fills its level, and if it
\* was linked again in between the step is recorded as a fault.
LEMMA ResumeInsertStep ==
  ASSUME TypeOK, ListInv, NEW t \in Thread, ResumeInsert(t)
  PROVE  ListInv'
<1> DEFINE x == pc[t].arg
<1>1. /\ x \in Thread /\ tlist \in [ListHead -> Seq(Thread)] /\ pc \in [Thread -> PC]
      /\ pc[t].then \in {"user", "schedule"}
  BY PlacesOfPC DEF ResumeInsert, TypeOK
<1>2. /\ tlist' = insert_ready(tlist, x) /\ group' = group \cup {Priority[x]}
      /\ fault = "none" /\ fault' = IF IsLinked(tlist, x) THEN "double_link" ELSE fault
      /\ pc' = [pc EXCEPT ![t] = At(pc[t].then, NoThread, "user")]
  BY DEF ResumeInsert, Goto, Running, rt_schedule_insert_thread
<1>3. \A h \in ListHead : /\ tlist'[h] # <<>> <=> tlist[h] # <<>> \/ h = Priority[x]
                          /\ \A y : Contains(tlist'[h], y)
                               => Contains(tlist[h], y) \/ (y = x /\ h = Priority[x])
  <2>1. \A h \in ListHead : tlist'[h] # <<>> <=> tlist[h] # <<>> \/ h = Priority[x]
    BY <1>1, <1>2, InsertProperties
  <2>2. \A h \in ListHead : \A y :
          Contains(tlist'[h], y) => Contains(tlist[h], y) \/ (y = x /\ h = Priority[x])
    <3>1. \A h \in ListHead : \A y : Contains(insert_ready(tlist, x)[h], y)
            => Contains(tlist[h], y) \/ (y = x /\ h = Priority[x])
      <4>1. x \in Thread /\ tlist \in [ListHead -> Seq(Thread)]
        BY <1>1
      <4> HIDE DEF x
      <4> QED
        BY <4>1, Linked
    <3> QED
      BY <1>2, <3>1
  <2> QED
    BY <2>1, <2>2
<1>4. OnceIn(tlist) /\ ~IsLinked(tlist, x) => OnceIn(tlist')
  BY <1>1, <1>2, Linked
<1>5. Prio \subseteq ListHead /\ group \subseteq Prio /\ Priority[x] \in Prio
  BY <1>1, InsertProperties DEF ListHead, TypeOK
<1>6. ReadyLevelsHaveBits'
  BY <1>2, <1>3, <1>5 DEF ListInv, ReadyLevelsHaveBits
<1>7. OwnLevel'
  BY <1>3 DEF ListInv, OwnLevel
<1>8. StaleBitsAreTransient'
  <2> SUFFICES ASSUME NEW p \in group', tlist'[p] = <<>>
               PROVE  \E u \in Thread : pc'[u].at = "resume_insert" /\ Priority[pc'[u].arg] = p
    BY DEF StaleBitsAreTransient
  <2>1. p \in group /\ p \in ListHead /\ p # Priority[x] /\ tlist[p] = <<>>
    BY <1>2, <1>3, <1>5
  <2>2. PICK u \in Thread : pc[u].at = "resume_insert" /\ Priority[pc[u].arg] = p
    BY <2>1 DEF ListInv, StaleBitsAreTransient
  <2>3. u # t /\ pc'[u] = pc[u]
    BY <1>1, <1>2, <2>1, <2>2
  <2> QED
    BY <2>2, <2>3
<1>9. LinkedOnce'
  <2>1. fault' = "none" => OnceIn(tlist')
    BY <1>2, <1>4, LinkedOnceIsOnceIn DEF ListInv
  <2> QED
    BY <2>1 DEF LinkedOnce, OnceIn
<1> QED
  BY <1>6, <1>7, <1>8, <1>9 DEF ListInv

\* A thread that is elsewhere leaves every window as it is.
LEMMA GotoKeepsWindows ==
  ASSUME TypeOK, NEW t \in Thread, NEW p, Goto(t, p), pc[t].at # "resume_insert"
  PROVE  WindowsStay
  BY DEF TypeOK, Goto, WindowsStay

\* rt_thread_yield and the end of a slice move x inside its own level.
LEMMA MoveStep ==
  ASSUME TypeOK, ListInv, fault = "none", WindowsStay, NEW x \in Thread,
         CanYield(x), MoveToTail(x)
  PROVE  ListInv'
<1>1. PICK h \in ListHead : Contains(tlist[h], x) /\ Len(tlist[h]) > 1
  BY DEF CanYield, HasPeer
<1>2. h = Priority[x] /\ tlist[h] # <<>>
  BY <1>1, EmptySeq DEF ListInv, OwnLevel
<1>3. Priority[x] \in Prio
  BY ConstantsAssumption
<1>4. group' = group \cup {Priority[x]}
  BY <1>2, <1>3 DEF MoveToTail, ListInv, ReadyLevelsHaveBits
<1> QED
  BY <1>4, RelinkStep DEF MoveToTail

\* main links each thread once before it starts the scheduler.
LEMMA BootLists == TypeOK /\ ListInv /\ Boot => ListInv'
<1> SUFFICES ASSUME TypeOK, ListInv, Boot PROVE ListInv'
  OBVIOUS
<1>1. ASSUME NEW x \in Thread, BootStartup(x) PROVE ListInv'
  BY <1>1, RelinkStep DEF BootStartup, rt_schedule_insert_thread, WindowsStay
<1>2. CASE rt_system_scheduler_start
  BY <1>2, NoListStep DEF rt_system_scheduler_start, links, WindowsStay
<1> QED
  BY <1>1, <1>2 DEF Boot

\* The end of a slice rotates a level; a timeout relinks a thread.
LEMMA TickLists == TypeOK /\ ListInv /\ SysTick => ListInv'
<1> SUFFICES ASSUME TypeOK, ListInv, SysTick PROVE ListInv'
  OBVIOUS
<1>1. CASE rt_tick_increase
  <2>1. WindowsStay /\ fault = "none" /\ current_thread \in Thread
    BY <1>1 DEF rt_tick_increase, WindowsStay, TypeOK
  <2>2. CASE SliceEnds /\ CanYield(current_thread)
    BY <1>1, <2>1, <2>2, MoveStep DEF rt_tick_increase
  <2>3. CASE ~(SliceEnds /\ CanYield(current_thread))
    BY <1>1, <2>1, <2>3, NoListStep DEF rt_tick_increase, links
  <2> QED
    BY <2>2, <2>3
<1>2. CASE rt_thread_timeout
  <2>1. Head(timer_list) \in Thread
    BY <1>2, TailElements DEF rt_thread_timeout, Expired, TypeOK
  <2> QED
    BY <1>2, <2>1, RelinkStep DEF rt_thread_timeout, rt_schedule_insert_thread, WindowsStay
<1>3. CASE rt_timer_check_done
  BY <1>3, NoListStep DEF rt_timer_check_done, links, WindowsStay
<1> QED
  BY <1>1, <1>2, <1>3 DEF SysTick

\* Of the first steps only sleep and yield touch the ready lists.
LEMMA CallLists ==
  TypeOK /\ ListInv /\ StartedInv /\ (\E t \in Thread : Call(t)) => ListInv'
<1> SUFFICES ASSUME TypeOK, ListInv, StartedInv, NEW t \in Thread, Call(t) PROVE ListInv'
  OBVIOUS
<1>1. ASSUME pc[t] = User, NEW p, Goto(t, p) PROVE WindowsStay
  BY <1>1, GotoKeepsWindows DEF User
<1>2. ASSUME NEW x \in Thread, OnTarget(t, x) PROVE ListInv'
  <2>1. /\ fault = "none" /\ UNCHANGED <<tlist, group>> /\ pc[t] = User
        /\ \E p : Goto(t, p)
    BY <1>2 DEF OnTarget, rt_thread_resume, rt_thread_startup, rt_thread_suspend,
       rt_thread_delete, rt_thread_detach, CloseThread, CheckSuspended, Calls, Running, links
  <2> QED
    BY <1>1, <2>1, NoListStep
<1>3. ASSUME NEW tick \in Delay, rt_thread_sleep(t, tick) PROVE ListInv'
  <2>1. WindowsStay /\ fault = "none"
    BY <1>1, <1>3 DEF rt_thread_sleep, Calls, Running
  <2>2. CASE stat[t] = "ready"
    BY <1>3, <2>1, <2>2, UnlinkStep DEF rt_thread_sleep, Suspend
  <2>3. CASE stat[t] # "ready"
    BY <1>3, <2>1, <2>3, NoListStep DEF rt_thread_sleep, links
  <2> QED
    BY <2>2, <2>3
<1>4. CASE rt_thread_yield(t)
  <2>1. WindowsStay /\ fault = "none"
    BY <1>1, <1>4 DEF rt_thread_yield, Calls, Running
  <2> QED
    BY <1>4, <2>1, MoveStep DEF rt_thread_yield
<1>5. CASE call_rt_schedule(t) \/ rt_enter_critical(t)
  BY <1>5, NoListStep DEF call_rt_schedule, rt_enter_critical, Calls, Running, links, WindowsStay
<1>6. CASE rt_exit_critical(t)
  <2>1. WindowsStay /\ fault = "none"
    BY <1>1, <1>6 DEF rt_exit_critical, Calls, Running
  <2> QED
    BY <1>6, <2>1, NoListStep DEF rt_exit_critical, links
<1> QED
  BY <1>2, <1>3, <1>4, <1>5, <1>6 DEF Call

\* Resume, suspend and close touch the lists in their later steps.
LEMMA ContinueLists ==
  TypeOK /\ ListInv /\ StartedInv /\ (\E t \in Thread : Continue(t)) => ListInv'
<1> SUFFICES ASSUME TypeOK, ListInv, StartedInv, NEW t \in Thread, Continue(t)
             PROVE  ListInv'
  OBVIOUS
<1>1. ASSUME pc[t].at # "resume_insert", NEW p, Goto(t, p) PROVE WindowsStay
  BY <1>1, GotoKeepsWindows
<1>2. CASE Reschedule(t)
  <2>1. WindowsStay /\ fault = "none"
    BY <1>1, <1>2 DEF Reschedule, Running
  <2> QED
    BY <1>2, <2>1, NoListStep DEF Reschedule, links
<1>3. CASE ResumeRemove(t)
  BY <1>3, ResumeRemoveStep
<1>4. CASE ResumeInsert(t)
  BY <1>4, ResumeInsertStep
<1>5. CASE StartupResume(t) \/ CloseTimer(t) \/ CloseStat(t) \/ CloseList(t)
  <2>1. /\ fault = "none" /\ UNCHANGED <<tlist, group>> /\ pc[t].at # "resume_insert"
        /\ \E p : Goto(t, p)
    BY <1>5 DEF StartupResume, CloseTimer, CloseStat, CloseList, CheckSuspended, Running, links
  <2> QED
    BY <1>1, <2>1, NoListStep
<1>6. CASE SuspendCrit(t) \/ CloseRemove(t)
  <2>1. pc[t].arg \in Thread
    BY <1>6, PlacesOfPC DEF SuspendCrit, CloseRemove, TypeOK
  <2>2. /\ fault = "none" /\ pc[t].at # "resume_insert" /\ \E p : Goto(t, p)
        /\ rt_schedule_remove_thread(pc[t].arg)
    BY <1>6 DEF SuspendCrit, CloseRemove, Suspend, Running
  <2> QED
    BY <1>1, <2>1, <2>2, UnlinkStep
<1> QED
  BY <1>2, <1>3, <1>4, <1>5, <1>6 DEF Continue

\* Every step of the kernel keeps the lists and the bitmap in agreement.
LEMMA ListStep == TypeOK /\ ListInv /\ StartedInv /\ [Next]_vars => ListInv'
<1>1. TypeOK /\ ListInv /\ UNCHANGED vars => ListInv'
  BY DEF ListInv, ReadyLevelsHaveBits, OwnLevel, StaleBitsAreTransient, LinkedOnce, vars, links
<1> QED
  BY <1>1, BootLists, TickLists, CallLists, ContinueLists DEF Next

\* The lists and the bitmap agree in every reachable state.
LEMMA ListsAndBitmap == Spec => []ListInv
<1>1. Init => ListInv
  <2> SUFFICES ASSUME Init PROVE ListInv
    OBVIOUS
  <2>1. \A h \in ListHead : tlist[h] = <<>> /\ Len(tlist[h]) = 0 /\ DOMAIN tlist[h] = {}
    BY DEF Init, rt_system_scheduler_init, rt_thread_init, rt_timer_init
  <2>2. group = {} /\ Prio \subseteq ListHead
    BY DEF Init, rt_system_scheduler_init, rt_thread_init, rt_timer_init,
         ListHead
  <2> QED
    BY <2>1, <2>2 DEF ListInv, ReadyLevelsHaveBits, OwnLevel, StaleBitsAreTransient,
       LinkedOnce, Contains
<1> QED
  BY <1>1, ListStep, TypeCorrect, NeverStartedIsNowhere, PTL DEF Spec

\* rt_schedule, which looks only at the bitmap, cannot overlook a level that
\* has a ready thread, whatever the threads call.
THEOREM NoReadyLevelIsOverlooked == Spec => []ReadyLevelsHaveBits
<1>1. ListInv => ReadyLevelsHaveBits
  BY DEF ListInv
<1> QED
  BY <1>1, ListsAndBitmap, PTL

\* The bitmap names an empty level only while some rt_thread_resume of that
\* priority is between its two critical sections: only in that window can
\* rt_schedule take its next thread from an empty level.
THEOREM OnlyResumeLeavesStaleBits == Spec => []StaleBitsAreTransient
<1>1. ListInv => StaleBitsAreTransient
  BY DEF ListInv
<1> QED
  BY <1>1, ListsAndBitmap, PTL

\* Until two resumes of one thread overlap, no thread is linked twice: every
\* other operation unlinks a thread in the critical section that links it.
THEOREM ThreadsAreLinkedOnce == Spec => []LinkedOnce
<1>1. ListInv => LinkedOnce
  BY DEF ListInv
<1> QED
  BY <1>1, ListsAndBitmap, PTL

\* Without IPC objects a thread is only ever in the level of its priority.
THEOREM ThreadsStayInTheirLevel == Spec => []OwnLevel
<1>1. ListInv => OwnLevel
  BY DEF ListInv
<1> QED
  BY <1>1, ListsAndBitmap, PTL
=============================================================================
