--------------------------- MODULE CilOrderProofs ---------------------------
(***************************************************************************)
(* What the merge of order statements keeps, for all statements: the       *)
(* composite list only grows, so what a merged statement found in it stays *)
(* there, and two items that contradict a statement stay so.               *)
(***************************************************************************)
EXTENDS CilOrder, NumberLemmas, SequenceTheorems

(* r is list with the first n items of seg put in after position i, and    *)
(* the next one is refused because it is there already.                    *)
Inserted(r, list, i, seg, n) ==
  /\ n \in 0..Len(seg) /\ Len(r.list) = Len(list) + n
  /\ \A p \in 1..i : r.list[p] = list[p]
  /\ \A p \in 1..n : r.list[i + p] = seg[p]
  /\ \A p \in (i + 1)..Len(list) : r.list[p + n] = list[p]
  /\ r.ok = (n = Len(seg))
  /\ n < Len(seg) => \/ \E p \in 1..Len(list) : list[p] = seg[n + 1]
                     \/ \E p \in 1..n : seg[p] = seg[n + 1]

(* InsertItems does this, and the list still holds every item once.        *)
LEMMA Insertion ==
  ASSUME NEW S, NEW list \in Seq(S), IsInjective(list), NEW seg \in Seq(S),
         NEW i \in 0..Len(list)
  PROVE  LET r == InsertItems(list, i, seg)
         IN  /\ r.list \in Seq(S) /\ IsInjective(r.list)
             /\ \E n \in 0..Len(seg) : Inserted(r, list, i, seg, n)
<1> DEFINE fresh(k) == /\ seg[k] \notin ToSet(list)
                       /\ \A j \in 1..(k - 1) : seg[j] # seg[k]
           bad  == {k \in DOMAIN seg : ~ fresh(k)}
           n    == IF bad = {} THEN Len(seg) ELSE Min(bad) - 1
           r    == InsertItems(list, i, seg)
           a    == SubSeq(list, 1, i)
           b    == SubSeq(seg, 1, n)
           c    == SubSeq(list, i + 1, Len(list))
<1>1. r = [ok |-> bad = {}, list |-> a \o b \o c]
  BY DEF InsertItems
<1>2. DOMAIN seg = 1..Len(seg) /\ Len(seg) \in Nat /\ DOMAIN list = 1..Len(list) /\ Len(list) \in Nat
  BY LenProperties
<1>3. /\ n \in 0..Len(seg) /\ (bad = {} <=> n = Len(seg))
      /\ \A k \in 1..n : fresh(k)
      /\ n < Len(seg) => ~ fresh(n + 1)
  <2>1. CASE bad = {}
    BY <2>1, <1>2
  <2>2. CASE bad # {}
    <3>1. bad \in SUBSET Nat
      BY <1>2
    <3>2. Min(bad) \in bad /\ \A k \in bad : Min(bad) <= k
      BY <3>1, <2>2, MinIn
    <3>3. Min(bad) \in 1..Len(seg) /\ ~ fresh(Min(bad)) /\ n = Min(bad) - 1
      BY <3>2, <2>2, <1>2
    <3>4. \A k \in 1..n : k \in DOMAIN seg /\ k \notin bad
      <4> SUFFICES ASSUME NEW k \in 1..n PROVE k \in 1..Len(seg) /\ ~ (Min(bad) <= k)
        BY <3>2, <1>2
      <4> HIDE DEF bad
      <4> QED
        BY <3>3, <1>2
    <3>5. n \in 0..Len(seg) /\ n # Len(seg) /\ n + 1 = Min(bad)
      BY <3>3, <1>2
    <3>6. \A k \in 1..n : fresh(k)
      BY <3>4
    <3>7. ~ fresh(n + 1)
      BY <3>3, <3>5
    <3> HIDE DEF fresh, bad, n
    <3> QED
      BY <3>5, <3>6, <3>7, <2>2
  <2> QED
    BY <2>1, <2>2
<1> HIDE DEF n, fresh, bad
<1>0. n \in Nat /\ i \in Nat /\ Len(list) \in Nat /\ Len(seg) \in Nat
      /\ i <= Len(list) /\ n <= Len(seg)
  <2>1. n \in 0..Len(seg)
    BY <1>3
  <2>2. Len(list) \in Nat /\ Len(seg) \in Nat
    BY <1>2
  <2> QED
    BY <2>1, <2>2
<1>4. a \in Seq(S) /\ Len(a) = i /\ \A p \in 1..i : a[p] = list[p]
  <2>1. \A p \in 1..i : list[p] \in S
    BY <1>2, ElementOfSeq
  <2> QED
    BY <2>1, SubSeqProperties
<1>5. b \in Seq(S) /\ Len(b) = n /\ \A p \in 1..n : b[p] = seg[p]
  <2>1. \A p \in 1..n : seg[p] \in S
    BY <1>0, ElementOfSeq
  <2> QED
    BY <2>1, <1>3, SubSeqProperties
<1>6. c \in Seq(S) /\ Len(c) = Len(list) - i /\ \A p \in 1..(Len(list) - i) : c[p] = list[i + p]
  <2>1. \A p \in (i + 1)..Len(list) : list[p] \in S
    BY <1>2, ElementOfSeq
  <2>2. i + 1 \in Int /\ Len(list) \in Int
    BY <1>2
  <2>3. /\ c \in Seq(S)
        /\ Len(c) = IF i + 1 <= Len(list) THEN Len(list) - (i + 1) + 1 ELSE 0
        /\ \A p \in 1..(Len(list) - (i + 1) + 1) : c[p] = list[i + 1 + p - 1]
    BY <2>1, <2>2, SubSeqProperties
  <2>4. ASSUME NEW p \in 1..(Len(list) - i) PROVE c[p] = list[i + p]
    <3>1. p \in 1..(Len(list) - (i + 1) + 1) /\ i + 1 + p - 1 = i + p
      BY <1>0
    <3> QED
      BY <3>1, <2>3
  <2>5. Len(c) = Len(list) - i
    BY <2>3, <1>0
  <2> QED
    BY <2>3, <2>4, <2>5
<1> HIDE DEF a, b, c
<1>7. /\ a \o b \in Seq(S) /\ Len(a \o b) = i + n
      /\ \A p \in 1..(i + n) : (a \o b)[p] = IF p <= i THEN list[p] ELSE seg[p - i]
  <2>1. /\ a \o b \in Seq(S) /\ Len(a \o b) = Len(a) + Len(b)
        /\ \A p \in 1..(Len(a) + Len(b)) : (a \o b)[p] = IF p <= Len(a) THEN a[p] ELSE b[p - Len(a)]
    BY <1>4, <1>5, ConcatProperties
  <2> QED
    BY <2>1, <1>3, <1>4, <1>5
<1>8. /\ r.list \in Seq(S) /\ Len(r.list) = Len(list) + n
      /\ \A p \in 1..(Len(list) + n) :
           r.list[p] = IF p <= i THEN list[p] ELSE IF p <= i + n THEN seg[p - i] ELSE list[p - n]
  <2> DEFINE ab == a \o b
  <2>1. /\ ab \o c \in Seq(S) /\ Len(ab \o c) = Len(ab) + Len(c)
        /\ \A p \in 1..(Len(ab) + Len(c)) : (ab \o c)[p] = IF p <= Len(ab) THEN ab[p] ELSE c[p - Len(ab)]
    BY <1>6, <1>7, ConcatProperties
  <2>2. r.list = ab \o c
    BY <1>1
  <2> HIDE DEF ab, r
  <2>3. Len(ab) + Len(c) = Len(list) + n
    BY <1>0, <1>6, <1>7 DEF ab
  <2>4. ASSUME NEW p \in 1..(Len(list) + n)
        PROVE  r.list[p] = IF p <= i THEN list[p] ELSE IF p <= i + n THEN seg[p - i] ELSE list[p - n]
    <3>1. CASE p <= i + n
      BY <3>1, <2>1, <2>2, <2>3, <1>0, <1>7 DEF ab
    <3>2. CASE p > i + n
      <4>1. p - (i + n) \in 1..(Len(list) - i) /\ i + (p - (i + n)) = p - n
        BY <3>2, <1>0
      <4> QED
        <5>1. r.list[p] = c[p - (i + n)]
          BY <3>2, <2>1, <2>2, <2>3, <1>0, <1>7 DEF ab
        <5>2. c[p - (i + n)] = list[p - n]
          BY <4>1, <1>6
        <5> QED
          BY <5>1, <5>2, <3>2, <1>0
    <3> QED
      BY <3>1, <3>2, <1>3
  <2> QED
    BY <2>1, <2>2, <2>3, <2>4
<1>9. r.ok = (bad = {})
  BY <1>1
<1> HIDE DEF r
<1>10. Inserted(r, list, i, seg, n)
  <2>1. \A p \in 1..i : r.list[p] = list[p]
    BY <1>8, <1>0
  <2>2. ASSUME NEW p \in 1..n PROVE r.list[i + p] = seg[p]
    <3>1. i + p \in 1..(Len(list) + n) /\ ~ (i + p <= i) /\ i + p <= i + n /\ i + p - i = p
      BY <1>0
    <3> QED
      BY <3>1, <1>8
  <2>3. ASSUME NEW p \in (i + 1)..Len(list) PROVE r.list[p + n] = list[p]
    <3>1. p + n \in 1..(Len(list) + n) /\ ~ (p + n <= i) /\ ~ (p + n <= i + n) /\ p + n - n = p
      BY <1>0
    <3> DEFINE m == p + n
    <3>2. m \in 1..(Len(list) + n) /\ ~ (m <= i) /\ ~ (m <= i + n) /\ m - n = p
      BY <3>1, <1>0
    <3> HIDE DEF m
    <3>3. r.list[m] = list[m - n]
      BY <3>2, <1>8
    <3> QED
      BY <3>2, <3>3 DEF m
  <2>4. ASSUME n < Len(seg)
        PROVE  \/ \E p \in 1..Len(list) : list[p] = seg[n + 1]
               \/ \E p \in 1..n : seg[p] = seg[n + 1]
    <3>1. ~ fresh(n + 1)
      BY <2>4, <1>3
    <3>2. seg[n + 1] \in ToSet(list) => \E p \in 1..Len(list) : list[p] = seg[n + 1]
      BY <1>2 DEF ToSet
    <3>3. (n + 1) - 1 = n
      BY <1>3
    <3> QED
      BY <3>1, <3>2, <3>3 DEF fresh
  <2>5. r.ok = (n = Len(seg))
    BY <1>9, <1>3
  <2> QED
    BY <1>3, <1>8, <2>1, <2>2, <2>3, <2>4, <2>5 DEF Inserted
<1>11. IsInjective(r.list)
  <2>1. DOMAIN r.list = 1..(Len(list) + n)
    BY <1>8, LenProperties
  <2>2. \A p, q \in 1..Len(list) : list[p] = list[q] => p = q
    BY <1>2 DEF IsInjective
  <2>3. \A p \in 1..Len(list), q \in 1..n : list[p] # seg[q]
    BY <1>2, <1>3 DEF ToSet, fresh
  <2>4. \A p, q \in 1..n : p < q => seg[p] # seg[q]
    BY <1>3, <1>0 DEF fresh
  <2>5. ASSUME NEW p \in 1..(Len(list) + n), NEW q \in 1..(Len(list) + n),
               p < q, r.list[p] = r.list[q]
        PROVE  FALSE
    <3>1. /\ r.list[p] = IF p <= i THEN list[p] ELSE IF p <= i + n THEN seg[p - i] ELSE list[p - n]
          /\ r.list[q] = IF q <= i THEN list[q] ELSE IF q <= i + n THEN seg[q - i] ELSE list[q - n]
      BY <1>8
    <3>2. p \in Nat /\ q \in Nat /\ i \in Nat /\ n \in Nat /\ Len(list) \in Nat
          /\ i <= Len(list) /\ 1 <= p /\ p < q /\ q <= Len(list) + n
      BY <1>0, <2>5
    <3>3. CASE q <= i
      <4>1. p \in 1..Len(list) /\ q \in 1..Len(list) /\ list[p] = list[q]
        BY <3>1, <3>2, <3>3, <2>5
      <4> QED
        BY <4>1, <3>2, <2>2
    <3>4. CASE p <= i /\ i < q /\ q <= i + n
      <4>1. p \in 1..Len(list) /\ q - i \in 1..n /\ list[p] = seg[q - i]
        BY <3>1, <3>2, <3>4, <2>5
      <4> QED
        BY <4>1, <2>3
    <3>5. CASE p <= i /\ i + n < q
      <4>1. p \in 1..Len(list) /\ q - n \in 1..Len(list) /\ list[p] = list[q - n] /\ p # q - n
        BY <3>1, <3>2, <3>5, <2>5
      <4> QED
        BY <4>1, <2>2
    <3>6. CASE i < p /\ q <= i + n
      <4>1. p - i \in 1..n /\ q - i \in 1..n /\ seg[p - i] = seg[q - i] /\ p - i < q - i
        BY <3>1, <3>2, <3>6, <2>5
      <4> QED
        BY <4>1, <2>4
    <3>7. CASE i < p /\ p <= i + n /\ i + n < q
      <4>1. p - i \in 1..n /\ q - n \in 1..Len(list) /\ list[q - n] = seg[p - i]
        BY <3>1, <3>2, <3>7, <2>5
      <4> QED
        BY <4>1, <2>3
    <3>8. CASE i + n < p
      <4>1. p - n \in 1..Len(list) /\ q - n \in 1..Len(list) /\ list[p - n] = list[q - n] /\ p - n # q - n
        BY <3>1, <3>2, <3>8, <2>5
      <4> QED
        BY <4>1, <2>2
    <3> QED
      BY <3>2, <3>3, <3>4, <3>5, <3>6, <3>7, <3>8
  <2>6. ASSUME NEW p \in 1..(Len(list) + n), NEW q \in 1..(Len(list) + n), r.list[p] = r.list[q]
        PROVE  p = q
    <3>1. ~ (p < q) /\ ~ (q < p)
      BY <2>5, <2>6
    <3> QED
      BY <3>1, <2>6, <1>0
  <2> QED
    BY <2>1, <2>6 DEF IsInjective
<1> QED
  BY <1>3, <1>8, <1>10, <1>11 DEF r

(* r is list with items a to a + n - 1 of statement s put in after         *)
(* position i; of the items a to b the next one is refused, if any is.     *)
Placed(r, list, i, s, a, b, n) ==
  /\ r.list \in Seq(Item) /\ IsInjective(r.list)
  /\ n \in 0..(b + 1 - a) /\ Len(r.list) = Len(list) + n
  /\ \A p \in 1..i : r.list[p] = list[p]
  /\ \A p \in 1..n : r.list[i + p] = s[a + p - 1]
  /\ \A p \in (i + 1)..Len(list) : r.list[p + n] = list[p]
  /\ r.ok = (n = b + 1 - a)
  /\ n < b + 1 - a => \/ \E p \in 1..Len(list) : list[p] = s[a + n]
                      \/ \E p \in 1..n : s[a + p - 1] = s[a + n]

LEMMA Placing ==
  ASSUME NEW list \in Seq(Item), IsInjective(list), NEW s \in Seq(Item),
         NEW i \in 0..Len(list), NEW a \in 1..(Len(s) + 1), NEW b \in (a - 1)..Len(s)
  PROVE  \E n \in 0..(b + 1 - a) :
           Placed(InsertItems(list, i, SubSeq(s, a, b)), list, i, s, a, b, n)
<1> DEFINE seg == SubSeq(s, a, b)
           r   == InsertItems(list, i, seg)
<1>1. Len(s) \in Nat /\ a \in Nat /\ b \in Nat /\ 1 <= a /\ a <= b + 1 /\ b <= Len(s)
  <2>1. Len(s) \in Nat
    BY LenProperties
  <2> QED
    BY <2>1
<1>2. /\ seg \in Seq(Item) /\ Len(seg) = b + 1 - a
      /\ \A p \in 1..(b + 1 - a) : seg[p] = s[a + p - 1]
  <2>1. \A p \in a..b : s[p] \in Item
    BY <1>1, ElementOfSeq
  <2>2. /\ seg \in Seq(Item) /\ Len(seg) = IF a <= b THEN b - a + 1 ELSE 0
        /\ \A p \in 1..(b - a + 1) : seg[p] = s[a + p - 1]
    BY <1>1, <2>1, SubSeqProperties
  <2>3. b - a + 1 = b + 1 - a /\ (~ (a <= b) => b + 1 - a = 0)
    BY <1>1
  <2> HIDE DEF seg
  <2> QED
    BY <2>2, <2>3
<1> HIDE DEF seg
<1>3. PICK n \in 0..Len(seg) : Inserted(r, list, i, seg, n)
  BY <1>2, Insertion
<1>4. r.list \in Seq(Item) /\ IsInjective(r.list)
  BY <1>2, Insertion
<1> HIDE DEF r
<1>5. n \in Nat /\ n <= b + 1 - a /\ n \in 0..(b + 1 - a)
  BY <1>1, <1>2, <1>3
<1>6. ASSUME NEW p \in 1..n PROVE r.list[i + p] = s[a + p - 1]
  <2>1. p \in 1..(b + 1 - a)
    BY <1>1, <1>5
  <2> QED
    BY <2>1, <1>2, <1>3 DEF Inserted
<1>7. ASSUME n < b + 1 - a
      PROVE  \/ \E p \in 1..Len(list) : list[p] = s[a + n]
             \/ \E p \in 1..n : s[a + p - 1] = s[a + n]
  <2>1. n + 1 \in 1..(b + 1 - a) /\ a + (n + 1) - 1 = a + n
    BY <1>1, <1>5, <1>7
  <2>2. seg[n + 1] = s[a + n]
    BY <2>1, <1>2
  <2>3. ASSUME NEW p \in 1..n PROVE seg[p] = s[a + p - 1]
    <3>1. p \in 1..(b + 1 - a)
      BY <1>1, <1>5
    <3> QED
      BY <3>1, <1>2
  <2> QED
    BY <2>2, <2>3, <1>2, <1>3, <1>7 DEF Inserted
<1>8. Placed(r, list, i, s, a, b, n)
  BY <1>2, <1>3, <1>4, <1>5, <1>6, <1>7 DEF Inserted, Placed
<1> QED
  BY <1>5, <1>8 DEF r, seg

(* Where position p of the old list is in the new one.                     *)
Shift(p, i, n) == IF p <= i THEN p ELSE p + n

Moves(r, list, i, n) ==
  /\ \A p \in 1..Len(list) : /\ Shift(p, i, n) \in 1..Len(r.list)
                            /\ r.list[Shift(p, i, n)] = list[p]
  /\ \A p, q \in 1..Len(list) : p < q => Shift(p, i, n) < Shift(q, i, n)
  /\ DOMAIN r.list = 1..Len(r.list) /\ Len(r.list) \in Nat
  /\ DOMAIN list = 1..Len(list) /\ Len(list) \in Nat

LEMMA Shifted ==
  ASSUME NEW list \in Seq(Item), NEW s, NEW i \in 0..Len(list), NEW a, NEW b, NEW n \in Nat,
         NEW r, Placed(r, list, i, s, a, b, n)
  PROVE  Moves(r, list, i, n)
<1>1. /\ Len(list) \in Nat /\ DOMAIN list = 1..Len(list)
      /\ Len(r.list) \in Nat /\ DOMAIN r.list = 1..Len(r.list)
  BY LenProperties DEF Placed
<1>2. Len(r.list) = Len(list) + n
  BY DEF Placed
<1>3. ASSUME NEW p \in 1..Len(list)
      PROVE  Shift(p, i, n) \in 1..Len(r.list) /\ r.list[Shift(p, i, n)] = list[p]
  <2>1. CASE p <= i
    <3>1. Shift(p, i, n) = p /\ p \in 1..i /\ p \in 1..Len(r.list)
      BY <2>1, <1>1, <1>2 DEF Shift
    <3> QED
      BY <3>1 DEF Placed
  <2>2. CASE ~ (p <= i)
    <3>1. Shift(p, i, n) = p + n /\ p \in (i + 1)..Len(list) /\ p + n \in 1..Len(r.list)
      BY <2>2, <1>1, <1>2 DEF Shift
    <3> QED
      BY <3>1 DEF Placed
  <2> QED
    BY <2>1, <2>2
<1>4. \A p, q \in 1..Len(list) : p < q => Shift(p, i, n) < Shift(q, i, n)
  BY <1>1 DEF Shift
<1> QED
  BY <1>1, <1>3, <1>4 DEF Moves

(* What was found in the list is still found in it.                        *)
LEMMA SubsequenceStays ==
  ASSUME NEW list \in Seq(Item), NEW s, NEW i \in 0..Len(list), NEW a, NEW b, NEW n \in Nat,
         NEW r, Placed(r, list, i, s, a, b, n), NEW t, IsSubsequence(t, list)
  PROVE  IsSubsequence(t, r.list)
<1>1. PICK f \in [DOMAIN t -> DOMAIN list] :
        /\ \A k \in DOMAIN t : list[f[k]] = t[k]
        /\ \A k, l \in DOMAIN t : k < l => f[k] < f[l]
  BY DEF IsSubsequence
<1>2. Moves(r, list, i, n)
  BY Shifted
<1> DEFINE g == [k \in DOMAIN t |-> Shift(f[k], i, n)]
<1>3. g \in [DOMAIN t -> DOMAIN r.list]
  BY <1>1, <1>2 DEF Moves
<1>4. \A k \in DOMAIN t : r.list[g[k]] = t[k]
  BY <1>1, <1>2 DEF Moves
<1>5. \A k, l \in DOMAIN t : k < l => g[k] < g[l]
  BY <1>1, <1>2 DEF Moves
<1> HIDE DEF g
<1> QED
  BY <1>3, <1>4, <1>5 DEF IsSubsequence

(* Two items that stand in the wrong order stay so.                        *)
LEMMA ClashStays ==
  ASSUME NEW list \in Seq(Item), NEW s, NEW i \in 0..Len(list), NEW a, NEW b, NEW n \in Nat,
         NEW r, Placed(r, list, i, s, a, b, n), NEW t, Clash(t, list)
  PROVE  Clash(t, r.list)
<1>1. PICK k, l \in DOMAIN t, p, q \in DOMAIN list :
        k < l /\ q <= p /\ list[p] = t[k] /\ list[q] = t[l]
  BY DEF Clash
<1>2. Moves(r, list, i, n)
  BY Shifted
<1>3. Shift(q, i, n) <= Shift(p, i, n)
  BY <1>1, <1>2 DEF Shift, Moves
<1>4. /\ Shift(p, i, n) \in DOMAIN r.list /\ r.list[Shift(p, i, n)] = t[k]
      /\ Shift(q, i, n) \in DOMAIN r.list /\ r.list[Shift(q, i, n)] = t[l]
  BY <1>1, <1>2 DEF Moves
<1> QED
  BY <1>1, <1>3, <1>4 DEF Clash

(* A statement that clashes with the list is not found in it.              *)
LEMMA NotBoth ==
  ASSUME NEW list \in Seq(Item), IsInjective(list), NEW t,
         IsSubsequence(t, list), Clash(t, list)
  PROVE  FALSE
<1>1. PICK f \in [DOMAIN t -> DOMAIN list] :
        /\ \A k \in DOMAIN t : list[f[k]] = t[k]
        /\ \A k, l \in DOMAIN t : k < l => f[k] < f[l]
  BY DEF IsSubsequence
<1>2. PICK k, l \in DOMAIN t, p, q \in DOMAIN list :
        k < l /\ q <= p /\ list[p] = t[k] /\ list[q] = t[l]
  BY DEF Clash
<1>3. f[k] = p /\ f[l] = q
  BY <1>1, <1>2 DEF IsInjective
<1>4. DOMAIN list = 1..Len(list) /\ Len(list) \in Nat
  BY LenProperties
<1>5. p < q /\ q <= p /\ p \in Nat /\ q \in Nat
  BY <1>1, <1>2, <1>3, <1>4
<1> QED
  BY <1>5

(* y comes directly behind x in some statement.                            *)
Asked(x, y) ==
  \E k \in DOMAIN lists : \E j \in 1..(Len(lists[k]) - 1) :
    lists[k][j] = x /\ lists[k][j + 1] = y

(* The seams are what a statement asks for when the items before and       *)
(* behind the insertion are its neighbours in the statement.               *)
LEMMA ForcedGrows ==
  ASSUME NEW list \in Seq(Item), Forced(list), NEW i \in 0..Len(list),
         NEW k \in DOMAIN lists, NEW s \in Seq(Item), s = lists[k],
         NEW a \in 1..(Len(s) + 1), NEW b \in (a - 1)..Len(s),
         NEW n \in Nat, NEW r, Placed(r, list, i, s, a, b, n),
         n > 0 /\ i > 0 => a > 1 /\ list[i] = s[a - 1],
         n > 0 /\ i < Len(list) => n = b + 1 - a /\ b < Len(s) /\ list[i + 1] = s[b + 1]
  PROVE  Forced(r.list)
<1>1. /\ Len(list) \in Nat /\ Len(s) \in Nat /\ i \in Nat /\ a \in Nat /\ b \in Nat
      /\ i <= Len(list) /\ 1 <= a /\ a <= b + 1 /\ b <= Len(s)
      /\ n <= b + 1 - a /\ Len(r.list) = Len(list) + n
  <2>1. Len(list) \in Nat /\ Len(s) \in Nat
    BY LenProperties
  <2>2. n \in 0..(b + 1 - a) /\ Len(r.list) = Len(list) + n
    BY DEF Placed
  <2>3. i \in Nat /\ a \in Nat /\ b \in Nat /\ i <= Len(list) /\ 1 <= a /\ a <= b + 1 /\ b <= Len(s)
    BY <2>1
  <2>4. n <= b + 1 - a
    BY <2>2, <2>3
  <2> QED
    BY <2>1, <2>2, <2>3, <2>4
<1>2. \A p \in 1..(Len(list) - 1) : Asked(list[p], list[p + 1])
  BY DEF Forced, Asked
<1>3. \A j \in 1..(Len(s) - 1) : Asked(s[j], s[j + 1])
  BY DEF Asked
<1>4. /\ \A p \in 1..i : r.list[p] = list[p]
      /\ \A p \in 1..n : r.list[i + p] = s[a + p - 1]
      /\ \A p \in (i + 1)..Len(list) : r.list[p + n] = list[p]
  BY DEF Placed
<1>5. ASSUME NEW p \in 1..(Len(r.list) - 1) PROVE Asked(r.list[p], r.list[p + 1])
  <2>0. p \in Nat /\ 1 <= p /\ p < Len(list) + n
    BY <1>1
  <2>1. CASE p < i
    <3>1. p \in 1..i /\ p + 1 \in 1..i /\ p \in 1..(Len(list) - 1)
      BY <2>0, <2>1, <1>1
    <3> QED
      BY <3>1, <1>2, <1>4
  <2>2. CASE p = i /\ n > 0
    <3>1. a - 1 \in 1..(Len(s) - 1) /\ (a - 1) + 1 = a /\ p \in 1..i /\ 1 \in 1..n /\ a + 1 - 1 = a
      BY <2>0, <2>2, <1>1
    <3>2. r.list[i + 1] = s[a] /\ r.list[p] = s[a - 1]
      BY <3>1, <2>2, <2>0, <1>4
    <3>3. Asked(s[a - 1], s[a])
      BY <3>1, <1>3
    <3> QED
      BY <3>2, <3>3, <2>2
  <2>3. CASE i < p /\ p < i + n
    <3> DEFINE q == p - i
    <3>0. /\ q \in Nat /\ 1 <= q /\ q < n /\ i + q = p /\ i + (q + 1) = p + 1
      BY <2>0, <2>3, <1>1
    <3> HIDE DEF q
    <3>1. /\ q \in 1..n /\ q + 1 \in 1..n /\ i + q = p /\ i + (q + 1) = p + 1
          /\ a + q - 1 \in 1..(Len(s) - 1) /\ a + (q + 1) - 1 = (a + q - 1) + 1
      BY <3>0, <1>1
    <3> HIDE DEF q
    <3>2. r.list[p] = s[a + q - 1] /\ r.list[p + 1] = s[(a + q - 1) + 1]
      BY <3>1, <1>4
    <3> QED
      BY <3>1, <3>2, <1>3
  <2>4. CASE p = i + n /\ n > 0
    <3>1. /\ n \in 1..n /\ i + 1 \in (i + 1)..Len(list) /\ (i + 1) + n = p + 1 /\ i < Len(list)
          /\ b \in 1..(Len(s) - 1) /\ a + n - 1 = b
      BY <2>0, <2>4, <1>1
    <3>4. list[i + 1] = s[b + 1]
      BY <3>1, <2>4
    <3>5. Asked(s[b], s[b + 1])
      BY <3>1, <1>3
    <3>2. r.list[p] = s[b]
      BY <3>1, <2>4, <1>4
    <3>3. r.list[p + 1] = list[i + 1]
      <4>1. r.list[(i + 1) + n] = list[i + 1]
        BY <3>1, <1>4
      <4> QED
        BY <4>1, <3>1
    <3> QED
      BY <3>2, <3>3, <3>4, <3>5
  <2>5. CASE i + n < p \/ (p = i + n /\ n = 0)
    <3> DEFINE q == p - n
    <3>1. q + n = p /\ (q + 1) + n = p + 1 /\ q \in 1..(Len(list) - 1) /\ q + 1 \in (i + 1)..Len(list)
      <4>1. CASE i + n < p
        BY <4>1, <2>0, <1>1
      <4>2. CASE p = i + n /\ n = 0
        BY <4>2, <2>0, <1>1
      <4> QED
        BY <4>1, <4>2, <2>5
    <3>2. r.list[p] = list[q]
      <4>1. CASE q \in (i + 1)..Len(list)
        BY <4>1, <3>1, <1>4
      <4>2. CASE q \notin (i + 1)..Len(list)
        <5>1. p \in 1..i /\ q = p
          BY <4>2, <3>1, <2>5, <2>0, <1>1
        <5> QED
          BY <5>1, <1>4
      <4> QED
        BY <4>1, <4>2
    <3> HIDE DEF q
    <3>3. r.list[p + 1] = list[q + 1]
      BY <3>1, <1>4
    <3> QED
      BY <3>1, <3>2, <3>3, <1>2
  <2> QED
    BY <2>0, <2>1, <2>2, <2>3, <2>4, <2>5, <1>1
<1> QED
  BY <1>5 DEF Forced, Asked

(* The list holds the items of statements and nothing else.                *)
LEMMA ItemsStay ==
  ASSUME NEW list \in Seq(Item), ToSet(list) \subseteq Items(lists), NEW i \in 0..Len(list),
         NEW k \in DOMAIN lists, NEW s \in Seq(Item), s = lists[k],
         NEW a \in 1..(Len(s) + 1), NEW b \in (a - 1)..Len(s),
         NEW n \in Nat, NEW r, Placed(r, list, i, s, a, b, n)
  PROVE  ToSet(r.list) \subseteq Items(lists)
<1>1. /\ Len(list) \in Nat /\ Len(s) \in Nat /\ i \in Nat /\ a \in Nat /\ b \in Nat
      /\ i <= Len(list) /\ 1 <= a /\ a <= b + 1 /\ b <= Len(s)
      /\ n <= b + 1 - a /\ Len(r.list) = Len(list) + n
  <2>1. Len(list) \in Nat /\ Len(s) \in Nat
    BY LenProperties
  <2>2. n \in 0..(b + 1 - a) /\ Len(r.list) = Len(list) + n
    BY DEF Placed
  <2>3. i \in Nat /\ a \in Nat /\ b \in Nat /\ i <= Len(list) /\ 1 <= a /\ a <= b + 1 /\ b <= Len(s)
    BY <2>1
  <2>4. n <= b + 1 - a
    BY <2>2, <2>3
  <2> QED
    BY <2>1, <2>2, <2>3, <2>4
<1>2. DOMAIN list = 1..Len(list) /\ DOMAIN s = 1..Len(s) /\ DOMAIN r.list = 1..(Len(list) + n)
  BY <1>1, LenProperties DEF Placed
<1>3. /\ \A p \in 1..i : r.list[p] = list[p]
      /\ \A p \in 1..n : r.list[i + p] = s[a + p - 1]
      /\ \A p \in (i + 1)..Len(list) : r.list[p + n] = list[p]
  BY DEF Placed
<1>4. \A j \in DOMAIN s : s[j] \in Items(lists)
  BY DEF Items, ToSet
<1>5. \A p \in DOMAIN list : list[p] \in Items(lists)
  BY DEF ToSet
<1>6. ASSUME NEW p \in 1..(Len(list) + n) PROVE r.list[p] \in Items(lists)
  <2>1. CASE p <= i
    BY <2>1, <1>1, <1>2, <1>3, <1>5
  <2>2. CASE i < p /\ p <= i + n
    <3> DEFINE q == p - i
    <3>1. q \in 1..n /\ i + q = p /\ a + q - 1 \in 1..Len(s)
      BY <2>2, <1>1
    <3> HIDE DEF q
    <3> QED
      BY <3>1, <1>2, <1>3, <1>4
  <2>3. CASE i + n < p
    <3> DEFINE q == p - n
    <3>1. q \in (i + 1)..Len(list) /\ q + n = p /\ q \in 1..Len(list)
      BY <2>3, <1>1
    <3> HIDE DEF q
    <3> QED
      BY <3>1, <1>2, <1>3, <1>5
  <2> QED
    BY <2>1, <2>2, <2>3, <1>1
<1> QED
  BY <1>2, <1>6 DEF ToSet

(* An insertion that fails leaves a list with which its statement clashes, *)
(* when the refused item, if it was in the list before, stands on the      *)
(* wrong side of an item of the statement.                                 *)
WrongSide(list, i, s, a, b, n) ==
  \A p \in 1..Len(list) : list[p] = s[a + n] =>
     \/ p <= i /\ a > 1 /\ list[i] = s[a - 1]
     \/ i < p /\ b < Len(s) /\ list[i + 1] = s[b + 1]

LEMMA Fails ==
  ASSUME NEW list \in Seq(Item), NEW i \in 0..Len(list), NEW s \in Seq(Item),
         NEW a \in 1..(Len(s) + 1), NEW b \in (a - 1)..Len(s),
         NEW n \in Nat, NEW r, Placed(r, list, i, s, a, b, n), ~ r.ok,
         WrongSide(list, i, s, a, b, n)
  PROVE  Clash(s, r.list)
<1>1. /\ Len(list) \in Nat /\ Len(s) \in Nat /\ i \in Nat /\ a \in Nat /\ b \in Nat
      /\ i <= Len(list) /\ 1 <= a /\ a <= b + 1 /\ b <= Len(s)
      /\ n < b + 1 - a /\ Len(r.list) = Len(list) + n
  <2>1. Len(list) \in Nat /\ Len(s) \in Nat
    BY LenProperties
  <2>2. n \in 0..(b + 1 - a) /\ Len(r.list) = Len(list) + n /\ n # b + 1 - a
    BY DEF Placed
  <2> QED
    BY <2>1, <2>2
<1>2. DOMAIN s = 1..Len(s) /\ a + n \in 1..Len(s)
  BY <1>1, LenProperties
<1>3. Moves(r, list, i, n)
  BY Shifted
<1>4. CASE \E p \in 1..n : s[a + p - 1] = s[a + n]
  <2>1. PICK p \in 1..n : s[a + p - 1] = s[a + n]
    BY <1>4
  <2>2. r.list[i + p] = s[a + p - 1]
    BY DEF Placed
  <2>3. i + p \in 1..Len(r.list) /\ i + p <= i + p /\ a + p - 1 \in 1..Len(s) /\ a + p - 1 < a + n
    <3>1. p \in Nat /\ 1 <= p /\ p <= n
      OBVIOUS
    <3>2. a + p - 1 \in 1..Len(s) /\ a + p - 1 < a + n
      BY <3>1, <1>1
    <3>3. i + p \in 1..Len(r.list) /\ i + p <= i + p
      BY <3>1, <1>1
    <3> QED
      BY <3>2, <3>3
  <2> QED
    BY <2>1, <2>2, <2>3, <1>2, <1>3 DEF Clash, Moves
<1>5. CASE \E p \in 1..Len(list) : list[p] = s[a + n]
  <2>1. PICK p \in 1..Len(list) : list[p] = s[a + n]
    BY <1>5
  <2> DEFINE x == Shift(p, i, n)
  <2>2. x \in DOMAIN r.list /\ r.list[x] = s[a + n]
    BY <2>1, <1>3 DEF Moves
  <2>3. CASE p <= i /\ a > 1 /\ list[i] = s[a - 1]
    <3> DEFINE y == Shift(i, i, n)
    <3>1. i \in 1..Len(list) /\ a - 1 \in DOMAIN s /\ a - 1 < a + n
      BY <2>3, <1>1, <1>2
    <3>2. y \in DOMAIN r.list /\ r.list[y] = s[a - 1]
      BY <3>1, <2>3, <1>3 DEF Moves
    <3>3. x <= y
      BY <2>3 DEF Shift
    <3> HIDE DEF x, y
    <3> QED
      BY <2>2, <3>1, <3>2, <3>3, <1>2 DEF Clash
  <2>4. CASE i < p /\ b < Len(s) /\ list[i + 1] = s[b + 1]
    <3> DEFINE y == Shift(i + 1, i, n)
    <3>1. i + 1 \in 1..Len(list) /\ b + 1 \in DOMAIN s /\ a + n < b + 1
      BY <2>1, <2>4, <1>1, <1>2
    <3>2. y \in DOMAIN r.list /\ r.list[y] = s[b + 1]
      BY <3>1, <2>4, <1>3 DEF Moves
    <3>3. y <= x
      BY <2>4, <1>1 DEF Shift
    <3> HIDE DEF x, y
    <3> QED
      BY <2>2, <3>1, <3>2, <3>3, <1>2 DEF Clash
  <2> QED
    BY <2>1, <2>3, <2>4 DEF WrongSide
<1> QED
  BY <1>1, <1>4, <1>5 DEF Placed

(* The first m items of s stand in this order among the first o of list.   *)
Kept(list, s, m, o) ==
  \E f \in [1..m -> 1..o] :
     /\ \A k \in 1..m : list[f[k]] = s[k]
     /\ \A k, l \in 1..m : k < l => f[k] < f[l]

LEMMA KeptNothing ==
  ASSUME NEW list, NEW s, NEW o \in Nat PROVE Kept(list, s, 0, o)
<1> DEFINE f == [k \in 1..0 |-> 0]
<1>1. f \in [1..0 -> 1..o] /\ \A k \in 1..0 : FALSE
  OBVIOUS
<1> HIDE DEF f
<1> QED
  BY <1>1 DEF Kept

LEMMA KeptMore ==
  ASSUME NEW list, NEW s, NEW m \in Nat, NEW o \in Nat, Kept(list, s, m, o),
         NEW q \in Nat, o < q, list[q] = s[m + 1]
  PROVE  Kept(list, s, m + 1, q)
<1>1. PICK f \in [1..m -> 1..o] : /\ \A k \in 1..m : list[f[k]] = s[k]
                                  /\ \A k, l \in 1..m : k < l => f[k] < f[l]
  BY DEF Kept
<1> DEFINE g == [k \in 1..(m + 1) |-> IF k = m + 1 THEN q ELSE f[k]]
<1>2. \A k \in 1..(m + 1) : k = m + 1 \/ k \in 1..m
  OBVIOUS
<1>3. \A k \in 1..m : f[k] \in 1..o /\ k # m + 1 /\ k \in 1..(m + 1)
  BY <1>1
<1>4. g[m + 1] = q /\ \A k \in 1..m : g[k] = f[k]
  BY <1>3
<1>5. g \in [1..(m + 1) -> 1..q]
  <2>1. \A k \in 1..(m + 1) : g[k] \in 1..q
    BY <1>2, <1>3, <1>4
  <2> QED
    BY <2>1
<1> HIDE DEF g
<1>6. \A k \in 1..(m + 1) : list[g[k]] = s[k]
  BY <1>1, <1>2, <1>4
<1>7. ASSUME NEW k \in 1..(m + 1), NEW l \in 1..(m + 1), k < l PROVE g[k] < g[l]
  <2>1. k \in 1..m
    BY <1>7
  <2>2. CASE l = m + 1
    BY <2>1, <2>2, <1>3, <1>4
  <2>3. CASE l \in 1..m
    BY <2>1, <2>3, <1>1, <1>4, <1>7
  <2> QED
    BY <2>2, <2>3, <1>2
<1> QED
  BY <1>5, <1>6, <1>7 DEF Kept

LEMMA KeptWider ==
  ASSUME NEW list, NEW s, NEW m \in Nat, NEW o \in Nat, Kept(list, s, m, o),
         NEW q \in Nat, o <= q
  PROVE  Kept(list, s, m, q)
<1>1. PICK f \in [1..m -> 1..o] : /\ \A k \in 1..m : list[f[k]] = s[k]
                                  /\ \A k, l \in 1..m : k < l => f[k] < f[l]
  BY DEF Kept
<1>2. f \in [1..m -> 1..q]
  BY <1>1
<1> QED
  BY <1>1, <1>2 DEF Kept

(* What is put in continues what was kept.                                 *)
LEMMA KeptGrows ==
  ASSUME NEW list \in Seq(Item), NEW i \in 0..Len(list), NEW s \in Seq(Item),
         NEW a \in 1..(Len(s) + 1), NEW b \in (a - 1)..Len(s),
         NEW n \in Nat, NEW r, Placed(r, list, i, s, a, b, n), r.ok,
         Kept(list, s, a - 1, i)
  PROVE  Kept(r.list, s, b, i + n)
<1>1. /\ Len(list) \in Nat /\ Len(s) \in Nat /\ i \in Nat /\ a \in Nat /\ b \in Nat
      /\ i <= Len(list) /\ 1 <= a /\ a <= b + 1 /\ b <= Len(s) /\ n = b + 1 - a
  <2>1. Len(list) \in Nat /\ Len(s) \in Nat
    BY LenProperties
  <2>2. n = b + 1 - a
    BY DEF Placed
  <2> QED
    BY <2>1, <2>2
<1>2. PICK f \in [1..(a - 1) -> 1..i] : /\ \A k \in 1..(a - 1) : list[f[k]] = s[k]
                                        /\ \A k, l \in 1..(a - 1) : k < l => f[k] < f[l]
  BY DEF Kept
<1>3. /\ \A p \in 1..i : r.list[p] = list[p]
      /\ \A p \in 1..n : r.list[i + p] = s[a + p - 1]
  BY DEF Placed
<1> DEFINE g == [k \in 1..b |-> IF k < a THEN f[k] ELSE i + (k - a + 1)]
<1>4. \A k \in 1..b : k < a => k \in 1..(a - 1) /\ g[k] = f[k] /\ g[k] \in 1..i
  BY <1>1, <1>2
<1>5. \A k \in 1..b : ~ (k < a) => /\ g[k] = i + (k - a + 1)
                                   /\ k - a + 1 \in 1..n /\ a + (k - a + 1) - 1 = k
  BY <1>1
<1> HIDE DEF g
<1>6. ASSUME NEW k \in 1..b PROVE g[k] \in 1..(i + n) /\ r.list[g[k]] = s[k]
  <2>1. CASE k < a
    <3>1. k \in 1..(a - 1) /\ g[k] = f[k] /\ g[k] \in 1..i
      BY <2>1, <1>4
    <3>2. r.list[g[k]] = s[k]
      BY <3>1, <1>2, <1>3
    <3>3. g[k] \in 1..(i + n)
      BY <3>1, <1>1
    <3> QED
      BY <3>2, <3>3
  <2>2. CASE ~ (k < a)
    <3> DEFINE p == k - a + 1
    <3>1. p \in 1..n /\ g[k] = i + p /\ a + p - 1 = k
      BY <2>2, <1>5
    <3> HIDE DEF p
    <3>2. r.list[i + p] = s[k]
      BY <3>1, <1>3
    <3>3. g[k] \in 1..(i + n)
      BY <3>1, <1>1
    <3> QED
      BY <3>1, <3>2, <3>3
  <2> QED
    BY <2>1, <2>2
<1>7. ASSUME NEW k \in 1..b, NEW l \in 1..b, k < l PROVE g[k] < g[l]
  <2>1. CASE l < a
    <3>1. k < a
      BY <2>1, <1>7, <1>1
    <3> QED
      BY <2>1, <3>1, <1>2, <1>4, <1>7
  <2>2. CASE k < a /\ ~ (l < a)
    BY <2>2, <1>1, <1>4, <1>5
  <2>3. CASE ~ (k < a) /\ ~ (l < a)
    BY <2>3, <1>1, <1>5, <1>7
  <2> QED
    BY <2>1, <2>2, <2>3, <1>7, <1>1
<1>8. g \in [1..b -> 1..(i + n)]
  <2>1. g = [k \in 1..b |-> g[k]]
    BY DEF g
  <2> QED
    BY <2>1, <1>6
<1> QED
  BY <1>6, <1>7, <1>8 DEF Kept

LEMMA KeptAll ==
  ASSUME NEW list \in Seq(Item), NEW s \in Seq(Item), NEW o \in 0..Len(list),
         Kept(list, s, Len(s), o)
  PROVE  IsSubsequence(s, list)
<1>1. PICK f \in [1..Len(s) -> 1..o] : /\ \A k \in 1..Len(s) : list[f[k]] = s[k]
                                       /\ \A k, l \in 1..Len(s) : k < l => f[k] < f[l]
  BY DEF Kept
<1>2. DOMAIN s = 1..Len(s) /\ DOMAIN list = 1..Len(list) /\ Len(list) \in Nat
  BY LenProperties
<1>3. f \in [DOMAIN s -> DOMAIN list]
  BY <1>1, <1>2
<1> QED
  BY <1>1, <1>2, <1>3 DEF IsSubsequence

(* FindMatch finds a match, or 0.                                          *)
LEMMA Match ==
  ASSUME NEW item, NEW list, NEW from \in Nat, Len(list) \in Nat
  PROVE  /\ FindMatch(item, list, from) \in Nat
         /\ FindMatch(item, list, from) # 0 =>
              /\ FindMatch(item, list, from) \in from..Len(list)
              /\ list[FindMatch(item, list, from)] = item
         /\ from # 0 /\ (\E k \in from..Len(list) : list[k] = item) =>
              FindMatch(item, list, from) # 0
<1> DEFINE at == {k \in from..Len(list) : list[k] = item}
<1>1. FindMatch(item, list, from) = IF at = {} THEN 0 ELSE Min(at)
  BY DEF FindMatch
<1>2. CASE at = {}
  <2>1. FindMatch(item, list, from) = 0
    BY <1>1, <1>2
  <2>2. ~ \E k \in from..Len(list) : list[k] = item
    BY <1>2
  <2> QED
    BY <2>1, <2>2
<1>3. CASE at # {}
  <2>1. at \in SUBSET Nat
    OBVIOUS
  <2>2. Min(at) \in at
    BY <2>1, <1>3, MinIn
  <2>3. FindMatch(item, list, from) = Min(at)
    BY <1>1, <1>3
  <2>4. Min(at) \in from..Len(list) /\ list[Min(at)] = item
    BY <2>2
  <2> HIDE DEF at
  <2> QED
    BY <2>3, <2>4
<1> QED
  BY <1>2, <1>3
-----------------------------------------------------------------------------
(* The invariant: the composite list holds items of statements, each once, *)
(* and keeps the order of what is merged; and while a statement is being   *)
(* merged, its items before ncurr stand in this order up to oprev, where   *)
(* the last of them is.                                                    *)
OrderInv ==
  /\ TypeOK
  /\ IsInjective(composite)
  /\ ToSet(composite) \subseteq Items(lists)
  /\ \A k \in merged : IsSubsequence(lists[k], composite)
  /\ MergeIsForced
  /\ step = "overlap" => /\ new[ncurr - 1] = composite[oprev]
                         /\ Kept(composite, new, ncurr - 1, oprev)
  /\ step = "gather" => composite = <<>> /\ merged = {} /\ curr = 1
  /\ step = "done" => merged = DOMAIN lists

LEMMA StatementIs ==
  ASSUME NEW s \in Statement PROVE s \in Seq(Item) /\ Len(s) \in Nat \ {0}
<1>1. PICK n \in 1..MaxLength : s \in [1..n -> Item]
  BY DEF Statement
<1>2. n \in Nat /\ n # 0
  BY BoundsAssumption
<1>3. s \in Seq(Item)
  BY <1>1, <1>2, SeqDef
<1>4. Len(s) = n
  BY <1>1, <1>2
<1> QED
  BY <1>2, <1>3, <1>4

LEMMA ListsAre ==
  ASSUME TypeOK
  PROVE  /\ Len(lists) \in Nat /\ DOMAIN lists = 1..Len(lists)
         /\ Len(composite) \in Nat /\ DOMAIN composite = 1..Len(composite)
         /\ \A k \in DOMAIN lists : /\ lists[k] \in Seq(Item) /\ Len(lists[k]) \in Nat \ {0}
                                    /\ DOMAIN lists[k] = 1..Len(lists[k])
<1>1. lists \in Seq(Statement) /\ composite \in Seq(Item)
  BY DEF TypeOK
<1>2. /\ Len(lists) \in Nat /\ DOMAIN lists = 1..Len(lists)
      /\ Len(composite) \in Nat /\ DOMAIN composite = 1..Len(composite)
  BY <1>1, LenProperties
<1>3. ASSUME NEW k \in DOMAIN lists
      PROVE  /\ lists[k] \in Seq(Item) /\ Len(lists[k]) \in Nat \ {0}
             /\ DOMAIN lists[k] = 1..Len(lists[k])
  <2>1. lists[k] \in Statement
    BY <1>1, <1>2, ElementOfSeq
  <2>2. lists[k] \in Seq(Item) /\ Len(lists[k]) \in Nat \ {0}
    BY <2>1, StatementIs
  <2> QED
    BY <2>2, LenProperties
<1> QED
  BY <1>2, <1>3

(* r is a list that the merge may have: of items of statements, each once, *)
(* in which the merged statements are found.                               *)
Sound(r) ==
  /\ r.list \in Seq(Item) /\ r.ok \in BOOLEAN
  /\ IsInjective(r.list)
  /\ ToSet(r.list) \subseteq Items(lists)
  /\ \A k \in merged : IsSubsequence(lists[k], r.list)
  /\ \/ Forced(r.list)
     \/ \E k \in DOMAIN lists \ merged : Clash(lists[k], r.list)

(* The insertion of a part of the statement that is being merged, when the *)
(* items around the place are those around the part.                       *)
Place(s, i, a, b) ==
  /\ i \in 0..Len(composite) /\ a \in 1..(Len(s) + 1) /\ b \in (a - 1)..Len(s)
  /\ Kept(composite, s, a - 1, i)
  /\ a <= b /\ i > 0 => a > 1 /\ composite[i] = s[a - 1]
  /\ a <= b /\ i < Len(composite) => b < Len(s) /\ composite[i + 1] = s[b + 1]

PutIn(r, s, i, a, b) ==
  /\ Kept(r.list, s, b, i + (b + 1 - a))
  /\ Len(r.list) = Len(composite) + (b + 1 - a)
  /\ \A p \in (i + 1)..Len(composite) : r.list[p + (b + 1 - a)] = composite[p]

LEMMA Putting ==
  ASSUME OrderInv, curr \in DOMAIN lists \ merged, NEW s, s = new,
         NEW i, NEW a, NEW b, Place(s, i, a, b),
         NEW r, r = InsertItems(composite, i, SubSeq(s, a, b))
  PROVE  Sound(r) /\ (r.ok => PutIn(r, s, i, a, b))
<1>0. /\ i \in 0..Len(composite) /\ a \in 1..(Len(s) + 1) /\ b \in (a - 1)..Len(s)
      /\ Kept(composite, s, a - 1, i)
      /\ a <= b /\ i > 0 => a > 1 /\ composite[i] = s[a - 1]
      /\ a <= b /\ i < Len(composite) => b < Len(s) /\ composite[i + 1] = s[b + 1]
  BY DEF Place
<1>1. /\ composite \in Seq(Item) /\ IsInjective(composite)
      /\ s \in Seq(Item) /\ curr \in DOMAIN lists /\ s = lists[curr]
      /\ Len(composite) \in Nat /\ Len(s) \in Nat
  BY ListsAre DEF OrderInv, TypeOK, new
<1>2. PICK n \in 0..(b + 1 - a) : Placed(r, composite, i, s, a, b, n)
  BY <1>0, <1>1, Placing
<1>3. n \in Nat /\ a \in Nat /\ b \in Nat /\ i \in Nat /\ a <= b + 1 /\ n <= b + 1 - a
      /\ i <= Len(composite)
  BY <1>0, <1>1
<1>4. r.list \in Seq(Item) /\ IsInjective(r.list) /\ r.ok = (n = b + 1 - a)
  BY <1>2 DEF Placed
<1>5. ToSet(r.list) \subseteq Items(lists)
  BY <1>0, <1>1, <1>2, <1>3, ItemsStay DEF OrderInv
<1>6. \A k \in merged : IsSubsequence(lists[k], r.list)
  BY <1>0, <1>1, <1>2, <1>3, SubsequenceStays DEF OrderInv
<1>7. \/ Forced(r.list)
      \/ \E k \in DOMAIN lists \ merged : Clash(lists[k], r.list)
  <2>1. CASE ~ r.ok
    <3>0. n # b + 1 - a
      BY <2>1, <1>4
    <3>1. a <= b
      BY <3>0, <1>3
    <3>2. ASSUME NEW p \in 1..Len(composite), composite[p] = s[a + n]
          PROVE  \/ p <= i /\ a > 1 /\ composite[i] = s[a - 1]
                 \/ i < p /\ b < Len(s) /\ composite[i + 1] = s[b + 1]
      <4>1. CASE p <= i
        <5>1. i > 0
          BY <4>1, <1>3
        <5> QED
          BY <4>1, <5>1, <3>1, <1>0
      <4>2. CASE i < p
        <5>1. i < Len(composite)
          BY <4>2, <1>1, <1>3
        <5> QED
          BY <4>2, <5>1, <3>1, <1>0
      <4> QED
        BY <4>1, <4>2, <1>3
    <3>3. WrongSide(composite, i, s, a, b, n)
      BY <3>2 DEF WrongSide
    <3>4. Clash(s, r.list)
      BY <2>1, <3>3, <1>0, <1>1, <1>2, <1>3, Fails
    <3> QED
      BY <3>4, <1>1
  <2>2. CASE r.ok /\ Forced(composite)
    <3>0. n = b + 1 - a
      BY <2>2, <1>4
    <3>1. n = b + 1 - a /\ (n > 0 => a <= b)
      BY <3>0, <1>3
    <3>2. n > 0 /\ i > 0 => a > 1 /\ composite[i] = s[a - 1]
      BY <3>1, <1>0
    <3>3. n > 0 /\ i < Len(composite) => n = b + 1 - a /\ b < Len(s) /\ composite[i + 1] = s[b + 1]
      BY <3>1, <1>0
    <3>4. Forced(r.list)
      BY <2>2, <3>2, <3>3, <1>0, <1>1, <1>2, <1>3, ForcedGrows
    <3> QED
      BY <3>4
  <2>3. CASE \E k \in DOMAIN lists \ merged : Clash(lists[k], composite)
    <3>1. PICK k \in DOMAIN lists \ merged : Clash(lists[k], composite)
      BY <2>3
    <3>2. Clash(lists[k], r.list)
      BY <3>1, <1>0, <1>1, <1>2, <1>3, ClashStays
    <3> QED
      BY <3>2
  <2> QED
    BY <2>1, <2>2, <2>3 DEF OrderInv, MergeIsForced
<1>8. ASSUME r.ok
      PROVE  PutIn(r, s, i, a, b)
  <2>1. n = b + 1 - a
    BY <1>4, <1>8
  <2>2. Kept(r.list, s, b, i + n)
    BY <1>8, <1>0, <1>1, <1>2, <1>3, KeptGrows
  <2> QED
    BY <2>1, <2>2, <1>2 DEF Placed, PutIn
<1> QED
  BY <1>4, <1>5, <1>6, <1>7, <1>8 DEF Sound

LEMMA OrderInit == Init => OrderInv
<1> SUFFICES ASSUME Init PROVE OrderInv
  OBVIOUS
<1>1. /\ lists = <<>> /\ step = "gather" /\ composite = <<>> /\ merged = {}
      /\ changed = FALSE /\ curr = 1 /\ oprev = 0 /\ ncurr = 0
  BY DEF Init
<1>2. /\ lists \in Seq(Statement) /\ composite \in Seq(Item)
      /\ Len(lists) = 0 /\ Len(composite) = 0
  BY <1>1, EmptySeq
<1>3. DOMAIN composite = {}
  BY <1>1
<1>4. TypeOK
  <2>1. Len(lists) <= MaxLists
    BY <1>2, BoundsAssumption
  <2>2. curr \in 1..(Len(lists) + 1) /\ oprev \in 0..Len(composite)
    BY <1>1, <1>2
  <2>3. merged \in SUBSET DOMAIN lists /\ changed \in BOOLEAN
    BY <1>1
  <2> QED
    BY <1>1, <1>2, <2>1, <2>2, <2>3 DEF TypeOK, Steps
<1>5. IsInjective(composite) /\ ToSet(composite) \subseteq Items(lists)
  BY <1>3 DEF IsInjective, ToSet
<1>6. MergeIsForced
  BY <1>2 DEF MergeIsForced, Forced
<1> QED
  BY <1>1, <1>4, <1>5, <1>6 DEF OrderInv

LEMMA ForcedSame ==
  ASSUME NEW t, Forced(t), lists' = lists, composite' = t
  PROVE  Forced(composite)'
<1> SUFFICES ASSUME NEW i \in 1..(Len(composite') - 1)
             PROVE  \E k \in DOMAIN lists' : \E j \in 1..(Len(lists'[k]) - 1) :
                      lists'[k][j] = composite'[i] /\ lists'[k][j + 1] = composite'[i + 1]
  BY DEF Forced
<1>1. i \in 1..(Len(t) - 1)
  OBVIOUS
<1>2. PICK k \in DOMAIN lists : \E j \in 1..(Len(lists[k]) - 1) :
        lists[k][j] = t[i] /\ lists[k][j + 1] = t[i + 1]
  BY <1>1 DEF Forced
<1> QED
  BY <1>2

(* A call returns: what it leaves in the list is sound, and a statement    *)
(* that counts as merged is found there.                                   *)
LEMMA Returning ==
  ASSUME OrderInv, curr \in DOMAIN lists \ merged, NEW r, Sound(r),
         r.ok => IsSubsequence(new, r.list), Return(r)
  PROVE  OrderInv'
<1>1. /\ composite' = r.list /\ lists' = lists /\ curr' = curr + 1
      /\ merged' = IF r.ok THEN merged \cup {curr} ELSE merged
      /\ changed' = (changed \/ r.ok)
      /\ step' = "try" /\ oprev' = 0 /\ ncurr' = 0
  BY DEF Return
<1>2. /\ Len(lists) \in Nat /\ DOMAIN lists = 1..Len(lists)
      /\ \A k \in DOMAIN lists : lists[k] \in Seq(Item) /\ DOMAIN lists[k] = 1..Len(lists[k])
  BY ListsAre DEF OrderInv
<1>3. Len(composite') \in Nat
  BY <1>1, LenProperties DEF Sound
<1>4. merged' \subseteq DOMAIN lists /\ curr' \in 1..(Len(lists) + 1)
  BY <1>1, <1>2 DEF OrderInv, TypeOK
<1>5. changed' \in BOOLEAN
  BY <1>1 DEF Sound, OrderInv, TypeOK
<1>6. TypeOK'
  BY <1>1, <1>3, <1>4, <1>5 DEF OrderInv, TypeOK, Steps, Sound
<1>7. IsInjective(composite') /\ ToSet(composite') \subseteq Items(lists')
  BY <1>1 DEF Sound
<1>8. \A k \in merged' : IsSubsequence(lists'[k], composite')
  BY <1>1 DEF Sound, new
<1>9. MergeIsForced'
  <2>1. CASE Forced(r.list)
    <3>1. composite' = r.list /\ lists' = lists
      BY <1>1
    <3>2. Forced(composite)'
      BY <2>1, <3>1, ForcedSame
    <3> QED
      BY <3>2 DEF MergeIsForced
  <2>2. CASE \E k \in DOMAIN lists \ merged : Clash(lists[k], r.list)
    <3>1. PICK k \in DOMAIN lists \ merged : Clash(lists[k], r.list)
      BY <2>2
    <3>2. k \notin merged'
      <4> SUFFICES ASSUME k \in merged' PROVE FALSE
        OBVIOUS
      <4>1. IsSubsequence(lists[k], r.list)
        BY <1>1, <1>8
      <4> QED
        BY <4>1, <3>1, NotBoth DEF Sound
    <3> QED
      BY <3>1, <3>2, <1>1 DEF MergeIsForced
  <2> QED
    BY <2>1, <2>2 DEF Sound
<1> QED
  BY <1>1, <1>6, <1>7, <1>8, <1>9 DEF OrderInv

(* The list that there is, is sound.                                       *)
LEMMA NothingDone ==
  ASSUME OrderInv PROVE Sound([ok |-> FALSE, list |-> composite])
BY DEF OrderInv, TypeOK, MergeIsForced, Sound

LEMMA CannotStep ==
  ASSUME OrderInv, curr \in DOMAIN lists \ merged, Cannot PROVE OrderInv'
<1> DEFINE r == [ok |-> FALSE, list |-> composite]
<1>1. Sound(r) /\ ~ r.ok
  BY NothingDone
<1>2. Return(r)
  BY DEF Cannot
<1> HIDE DEF r
<1> QED
  BY <1>1, <1>2, Returning

(* A call goes on, with oprev and ncurr where they belong.                 *)
LEMMA Overlaps ==
  ASSUME OrderInv, curr \in DOMAIN lists \ merged, NEW r, Sound(r),
         composite' = r.list, step' = "overlap", UNCHANGED round,
         oprev' \in 1..Len(r.list), ncurr' \in 2..(Len(new) + 1),
         new[ncurr' - 1] = r.list[oprev'],
         Kept(r.list, new, ncurr' - 1, oprev')
  PROVE  OrderInv'
<1>1. lists' = lists /\ merged' = merged /\ changed' = changed /\ curr' = curr
  BY DEF round
<1>2. new' = new
  BY <1>1 DEF new
<1>3. Len(lists) \in Nat /\ DOMAIN lists = 1..Len(lists)
  BY ListsAre DEF OrderInv
<1>4. Len(r.list) \in Nat
  BY LenProperties DEF Sound
<1>5. TypeOK'
  <2>1. oprev' \in 0..Len(composite') /\ oprev' # 0
    BY <1>4
  <2>2. ncurr' \in 2..(Len(new') + 1)
    BY <1>2
  <2> QED
    BY <1>1, <2>1, <2>2 DEF OrderInv, TypeOK, Steps, Sound
<1>6. IsInjective(composite') /\ ToSet(composite') \subseteq Items(lists')
  BY <1>1 DEF Sound
<1>7. \A k \in merged' : IsSubsequence(lists'[k], composite')
  BY <1>1 DEF Sound
<1>8. MergeIsForced'
  <2>1. CASE Forced(r.list)
    <3>1. composite' = r.list /\ lists' = lists
      BY <1>1
    <3>2. Forced(composite)'
      BY <2>1, <3>1, ForcedSame
    <3> QED
      BY <3>2 DEF MergeIsForced
  <2>2. CASE \E k \in DOMAIN lists \ merged : Clash(lists[k], r.list)
    BY <2>2, <1>1 DEF MergeIsForced
  <2> QED
    BY <2>1, <2>2 DEF Sound
<1>9. new'[ncurr' - 1] = composite'[oprev'] /\ Kept(composite', new', ncurr' - 1, oprev')
  BY <1>2
<1> QED
  BY <1>5, <1>6, <1>7, <1>8, <1>9 DEF OrderInv

LEMMA FirstStep == ASSUME OrderInv, TryFirst PROVE OrderInv'
<1> DEFINE s == new
           b == Len(s)
           r == InsertItems(composite, 0, new)
<1>1. curr \in DOMAIN lists \ merged /\ composite = <<>> /\ Return(r)
  BY DEF TryFirst, Trying
<1>2. s \in Seq(Item) /\ Len(s) \in Nat \ {0}
  BY <1>1, ListsAre DEF new, OrderInv
<1>3. Len(composite) = 0
  BY <1>1
<1>4. SubSeq(s, 1, b) = s
  BY <1>2, SubSeqFull
<1>5. Kept(composite, s, 1 - 1, 0)
  <2>1. Kept(composite, s, 0, 0)
    BY KeptNothing
  <2> QED
    BY <2>1
<1>6. 0 \in 0..Len(composite) /\ 1 \in 1..(Len(s) + 1) /\ b \in (1 - 1)..Len(s)
  BY <1>2, <1>3
<1>7. r = InsertItems(composite, 0, SubSeq(s, 1, b))
  BY <1>4
<1> HIDE DEF r, s
<1>8. Sound(r) /\ (r.ok => PutIn(r, s, 0, 1, b))
  <2>1. Place(s, 0, 1, b)
    BY <1>3, <1>5, <1>6 DEF Place
  <2>2. s = new
    BY DEF s
  <2> QED
    BY <1>1, <1>7, <2>1, <2>2, Putting
<1>9. ASSUME r.ok PROVE IsSubsequence(new, r.list)
  <2>1. Kept(r.list, s, Len(s), Len(s)) /\ Len(r.list) = Len(s)
    BY <1>8, <1>9, <1>2, <1>3 DEF PutIn
  <2>2. r.list \in Seq(Item) /\ Len(s) \in 0..Len(r.list)
    BY <1>2, <1>8, <2>1 DEF Sound
  <2>3. IsSubsequence(s, r.list)
    BY <1>2, <2>1, <2>2, KeptAll
  <2> QED
    BY <2>3 DEF s
<1> QED
  BY <1>1, <1>8, <1>9, Returning

LEMMA MatchStep == ASSUME OrderInv, TryMatch PROVE OrderInv'
<1> DEFINE s == new
           b == NMatch - 1
           r == Prepended
<1>1. /\ curr \in DOMAIN lists \ merged /\ composite # <<>>
      /\ Matched # {} /\ (NMatch = 1 \/ OMatch = 1)
  BY DEF TryMatch, Trying, Mergeable
<1>2. /\ s \in Seq(Item) /\ Len(s) \in Nat \ {0} /\ DOMAIN s = 1..Len(s)
      /\ Len(composite) \in Nat /\ DOMAIN composite = 1..Len(composite)
      /\ composite \in Seq(Item)
  BY <1>1, ListsAre DEF new, OrderInv, TypeOK
<1>3. NMatch \in 1..Len(s) /\ s[NMatch] \in ToSet(composite)
  <2>1. Matched \in SUBSET Nat
    BY <1>2 DEF Matched
  <2>2. NMatch \in Matched
    BY <1>1, <2>1, MinIn DEF NMatch
  <2> QED
    BY <2>2, <1>2 DEF Matched
<1>4. OMatch \in 1..Len(composite) /\ composite[OMatch] = s[NMatch]
  <2>1. \E k \in 1..Len(composite) : composite[k] = s[NMatch]
    BY <1>2, <1>3 DEF ToSet
  <2>2. /\ OMatch # 0 => OMatch \in 1..Len(composite) /\ composite[OMatch] = s[NMatch]
        /\ (\E k \in 1..Len(composite) : composite[k] = s[NMatch]) => OMatch # 0
    BY <1>2, Match DEF OMatch
  <2> QED
    BY <2>1, <2>2
<1>5. 0 \in 0..Len(composite) /\ 1 \in 1..(Len(s) + 1) /\ b \in (1 - 1)..Len(s)
  BY <1>2, <1>3
<1>6. Kept(composite, s, 1 - 1, 0)
  <2>1. Kept(composite, s, 0, 0)
    BY KeptNothing
  <2> QED
    BY <2>1
<1>7. r = InsertItems(composite, 0, SubSeq(s, 1, b))
  BY DEF Prepended
<1>8. 1 <= b => b < Len(s) /\ composite[0 + 1] = s[b + 1]
  <2> SUFFICES ASSUME 1 <= b PROVE b < Len(s) /\ composite[0 + 1] = s[b + 1]
    OBVIOUS
  <2>1. NMatch # 1 /\ b < Len(s) /\ b + 1 = NMatch
    BY <1>2, <1>3
  <2>2. OMatch = 1
    BY <2>1, <1>1
  <2> QED
    BY <2>1, <2>2, <1>4
<1>9. b + 1 - 1 = b /\ b + 1 = NMatch /\ b \in Nat /\ OMatch \in Nat /\ OMatch # 0
  BY <1>3, <1>4, <1>2
<1> HIDE DEF r, s, b
<1>10. Sound(r) /\ (r.ok => PutIn(r, s, 0, 1, b))
  <2>1. Place(s, 0, 1, b)
    BY <1>5, <1>6, <1>8 DEF Place
  <2>2. s = new
    BY DEF s
  <2> QED
    BY <1>1, <1>7, <2>1, <2>2, Putting
<1>11. CASE ~ r.ok
  <2>1. Return(r)
    BY <1>11 DEF TryMatch, r
  <2> QED
    BY <2>1, <1>1, <1>10, <1>11, Returning
<1>12. CASE r.ok
  <2>1. /\ composite' = r.list /\ step' = "overlap" /\ UNCHANGED round
        /\ oprev' = OMatch + NMatch - 1 /\ ncurr' = NMatch + 1
    BY <1>12 DEF TryMatch, r
  <2>2. oprev' = OMatch + b /\ ncurr' - 1 = b + 1 /\ ncurr' \in 2..(Len(s) + 1)
    BY <2>1, <1>2, <1>3, <1>9
  <2>3. Kept(r.list, s, b, b) /\ Len(r.list) = Len(composite) + b
    BY <1>9, <1>10, <1>12 DEF PutIn
  <2>4. oprev' \in 1..Len(r.list) /\ b < oprev' /\ oprev' \in Nat
    BY <2>2, <2>3, <1>2, <1>4, <1>9
  <2>5. r.list[oprev'] = s[b + 1]
    <3>1. r.list[OMatch + b] = composite[OMatch]
      BY <1>4, <1>9, <1>10, <1>12 DEF PutIn
    <3> QED
      BY <3>1, <2>2, <1>4, <1>9
  <2>6. Kept(r.list, s, b + 1, oprev')
    BY <2>3, <2>4, <2>5, <1>9, KeptMore
  <2> QED
    BY <1>1, <1>10, <2>1, <2>2, <2>4, <2>5, <2>6, Overlaps DEF s
<1> QED
  BY <1>11, <1>12

(* What the overlapping portion is about.                                  *)
LEMMA AtOverlap ==
  ASSUME OrderInv, step = "overlap"
  PROVE  /\ curr \in DOMAIN lists \ merged
         /\ new \in Seq(Item) /\ Len(new) \in Nat \ {0}
         /\ composite \in Seq(Item) /\ Len(composite) \in Nat
         /\ oprev \in 1..Len(composite) /\ ncurr \in 2..(Len(new) + 1)
         /\ new[ncurr - 1] = composite[oprev]
         /\ Kept(composite, new, ncurr - 1, oprev)
<1>1. curr \in DOMAIN lists \ merged /\ composite \in Seq(Item)
  BY DEF OrderInv, TypeOK
<1>2. new \in Seq(Item) /\ Len(new) \in Nat \ {0} /\ Len(composite) \in Nat
  BY <1>1, ListsAre DEF new, OrderInv
<1>3. oprev \in 0..Len(composite) /\ oprev # 0 /\ ncurr \in 2..(Len(new) + 1)
  BY DEF OrderInv, TypeOK
<1>4. oprev \in 1..Len(composite)
  BY <1>2, <1>3
<1> QED
  BY <1>1, <1>2, <1>3, <1>4 DEF OrderInv

(* The list stays as it is and the statement goes on at q.                 *)
LEMMA StayStep ==
  ASSUME OrderInv, step = "overlap", NEW q \in 1..Len(composite), oprev < q,
         ncurr <= Len(new), composite[q] = new[ncurr],
         oprev' = q, ncurr' = ncurr + 1, UNCHANGED <<round, step, composite>>
  PROVE  OrderInv'
<1> DEFINE s == new
           r == [ok |-> FALSE, list |-> composite]
           m == ncurr - 1
<1>1. /\ curr \in DOMAIN lists \ merged /\ Len(s) \in Nat /\ Len(composite) \in Nat
      /\ oprev \in 1..Len(composite) /\ ncurr \in 2..(Len(s) + 1)
      /\ Kept(composite, s, m, oprev)
  BY AtOverlap
<1>2. m \in Nat /\ oprev \in Nat /\ q \in Nat /\ m + 1 = ncurr /\ ncurr' - 1 = m + 1
      /\ ncurr' \in 2..(Len(s) + 1)
  BY <1>1
<1> HIDE DEF m, s
<1>3. Kept(composite, s, m + 1, q)
  BY <1>1, <1>2, KeptMore DEF s
<1>4. Sound(r)
  BY NothingDone
<1>5. r.list = composite
  OBVIOUS
<1> HIDE DEF r
<1>6. Kept(r.list, new, ncurr' - 1, oprev') /\ new[ncurr' - 1] = r.list[oprev']
  BY <1>2, <1>3, <1>5 DEF s
<1>7. ncurr' \in 2..(Len(new) + 1) /\ composite' = r.list /\ step' = "overlap" /\ UNCHANGED round
      /\ oprev' \in 1..Len(r.list)
  BY <1>2, <1>5 DEF s
<1> QED
  BY <1>1, <1>4, <1>6, <1>7, Overlaps

LEMMA AdvanceStep == ASSUME OrderInv, Advance PROVE OrderInv'
<1>1. /\ step = "overlap" /\ ncurr <= Len(new) /\ ocurr <= Len(composite)
      /\ new[ncurr] = composite[ocurr] /\ oprev' = ocurr /\ ncurr' = ncurr + 1
      /\ UNCHANGED <<round, step, composite>>
  BY DEF Advance, Same, Overlapping
<1>2. oprev \in 1..Len(composite) /\ Len(composite) \in Nat
  BY <1>1, AtOverlap
<1>3. ocurr \in 1..Len(composite) /\ oprev < ocurr
  BY <1>1, <1>2 DEF ocurr
<1> QED
  BY <1>1, <1>3, StayStep

LEMMA SkipStep == ASSUME OrderInv, GapInNew PROVE OrderInv'
<1>1. /\ step = "overlap" /\ ncurr <= Len(new) /\ SkipEnd # 0
      /\ oprev' = SkipEnd /\ ncurr' = ncurr + 1
      /\ UNCHANGED <<round, step, composite>>
  BY DEF GapInNew, Gap, Overlapping
<1>2. oprev \in 1..Len(composite) /\ Len(composite) \in Nat
  BY <1>1, AtOverlap
<1>3. ocurr + 1 \in Nat
  BY <1>2 DEF ocurr
<1>4. SkipEnd \in (ocurr + 1)..Len(composite) /\ composite[SkipEnd] = new[ncurr]
  BY <1>1, <1>2, <1>3, Match DEF SkipEnd
<1>5. SkipEnd \in 1..Len(composite) /\ oprev < SkipEnd
  BY <1>2, <1>4 DEF ocurr
<1> QED
  BY <1>1, <1>4, <1>5, StayStep

LEMMA GapStep == ASSUME OrderInv, GapInOld PROVE OrderInv'
<1> DEFINE s == new
           b == GapEnd - 1
           r == InsertItems(composite, oprev, SubSeq(new, ncurr, GapEnd - 1))
<1>1. /\ step = "overlap" /\ ncurr <= Len(new) /\ ocurr <= Len(composite) /\ GapEnd # 0
  BY DEF GapInOld, Gap, Overlapping
<1>2. /\ curr \in DOMAIN lists \ merged /\ Len(s) \in Nat /\ Len(composite) \in Nat
      /\ oprev \in 1..Len(composite) /\ ncurr \in 2..(Len(s) + 1)
      /\ s[ncurr - 1] = composite[oprev] /\ Kept(composite, s, ncurr - 1, oprev)
  BY <1>1, AtOverlap
<1>3. ncurr + 1 \in Nat /\ ocurr = oprev + 1 /\ ocurr \in 1..Len(composite)
  BY <1>1, <1>2 DEF ocurr
<1>4. GapEnd \in (ncurr + 1)..Len(s) /\ s[GapEnd] = composite[ocurr]
  BY <1>1, <1>2, <1>3, Match DEF GapEnd
<1>5. /\ b + 1 = GapEnd /\ b \in Nat /\ ncurr <= b /\ b < Len(s)
      /\ b \in (ncurr - 1)..Len(s) /\ ncurr \in 1..(Len(s) + 1) /\ ncurr > 1
  BY <1>2, <1>4
<1> HIDE DEF r, s, b
<1>6. Sound(r) /\ (r.ok => PutIn(r, s, oprev, ncurr, b))
  <2>1. Place(s, oprev, ncurr, b)
    BY <1>2, <1>3, <1>4, <1>5 DEF Place
  <2>2. s = new /\ r = InsertItems(composite, oprev, SubSeq(s, ncurr, b))
    BY DEF s, r, b
  <2> QED
    BY <1>2, <2>1, <2>2, Putting
<1>7. CASE ~ r.ok
  <2>1. Return(r)
    BY <1>7 DEF GapInOld, r
  <2> QED
    BY <2>1, <1>2, <1>6, <1>7, Returning
<1>8. CASE r.ok
  <2> DEFINE n == b + 1 - ncurr
  <2>1. /\ composite' = r.list /\ step' = "overlap" /\ UNCHANGED round
        /\ oprev' = ocurr + (GapEnd - ncurr) /\ ncurr' = GapEnd + 1
    BY <1>1, <1>8 DEF GapInOld, r
  <2>2. /\ Kept(r.list, s, b, oprev + n) /\ Len(r.list) = Len(composite) + n
        /\ \A p \in (oprev + 1)..Len(composite) : r.list[p + n] = composite[p]
    BY <1>6, <1>8 DEF PutIn
  <2>3. n \in Nat /\ oprev' = ocurr + n /\ ncurr' - 1 = b + 1 /\ ncurr' \in 2..(Len(s) + 1)
    BY <2>1, <1>2, <1>3, <1>4, <1>5
  <2> HIDE DEF n
  <2>4. /\ ocurr \in (oprev + 1)..Len(composite) /\ oprev' \in 1..Len(r.list)
        /\ oprev + n < oprev' /\ oprev' \in Nat /\ oprev + n \in Nat
    <3>1. /\ n \in Nat /\ oprev' = oprev + 1 + n /\ ocurr = oprev + 1
          /\ Len(r.list) = Len(composite) + n /\ Len(composite) \in Nat
          /\ oprev \in Nat /\ oprev + 1 <= Len(composite)
      BY <2>2, <2>3, <1>2, <1>3
    <3> QED
      BY <3>1
  <2>5. r.list[oprev'] = s[b + 1]
    <3>1. r.list[ocurr + n] = composite[ocurr]
      BY <2>2, <2>4
    <3> QED
      BY <3>1, <2>3, <1>4, <1>5
  <2>6. Kept(r.list, s, b + 1, oprev')
    BY <2>2, <2>4, <2>5, <1>5, KeptMore
  <2> QED
    BY <1>2, <1>6, <2>1, <2>3, <2>4, <2>5, <2>6, Overlaps DEF s
<1> QED
  BY <1>7, <1>8

LEMMA RestStep == ASSUME OrderInv, AddRest PROVE OrderInv'
<1> DEFINE s == new
           i == Len(composite)
           b == Len(s)
           r == InsertItems(composite, Len(composite), SubSeq(new, ncurr, Len(new)))
<1>1. step = "overlap" /\ (ncurr > Len(new) \/ ocurr > Len(composite)) /\ Return(r)
  BY DEF AddRest
<1>2. /\ curr \in DOMAIN lists \ merged /\ Len(s) \in Nat /\ i \in Nat
      /\ oprev \in 1..i /\ ncurr \in 2..(Len(s) + 1) /\ s \in Seq(Item)
      /\ s[ncurr - 1] = composite[oprev] /\ Kept(composite, s, ncurr - 1, oprev)
  BY <1>1, AtOverlap
<1>3. ncurr <= b => oprev = i
  BY <1>1, <1>2 DEF ocurr
<1>4. Kept(composite, s, ncurr - 1, i)
  <2>1. ncurr - 1 \in Nat /\ oprev \in Nat /\ oprev <= i
    BY <1>2
  <2> QED
    BY <2>1, <1>2, KeptWider
<1>5. i \in 0..i /\ ~ (i < i) /\ ncurr \in 1..(b + 1) /\ b \in (ncurr - 1)..b /\ ncurr > 1
  BY <1>2
<1>6. i = Len(composite) /\ b = Len(s) /\ s = new /\ r = InsertItems(composite, i, SubSeq(s, ncurr, b))
  OBVIOUS
<1> HIDE DEF r, s, b, i
<1>7. Sound(r) /\ (r.ok => PutIn(r, s, i, ncurr, b))
  <2>1. Place(s, i, ncurr, b)
    BY <1>2, <1>3, <1>4, <1>5, <1>6 DEF Place
  <2> QED
    BY <1>2, <1>6, <2>1, Putting
<1>8. ASSUME r.ok PROVE IsSubsequence(new, r.list)
  <2>1. Kept(r.list, s, b, i + (b + 1 - ncurr)) /\ Len(r.list) = i + (b + 1 - ncurr)
    BY <1>6, <1>7, <1>8 DEF PutIn
  <2>2. Len(r.list) \in 0..Len(r.list) /\ r.list \in Seq(Item)
    <3>1. r.list \in Seq(Item)
      BY <1>7 DEF Sound
    <3>2. Len(r.list) \in Nat
      BY <3>1, LenProperties
    <3> QED
      BY <3>1, <3>2
  <2>3. IsSubsequence(s, r.list)
    BY <1>2, <1>6, <2>1, <2>2, KeptAll
  <2> QED
    BY <2>3, <1>6
<1> QED
  BY <1>1, <1>2, <1>7, <1>8, Returning

(* The composite list and what is merged stay as they are.                 *)
LEMMA PlainStep ==
  ASSUME OrderInv, UNCHANGED <<lists, composite, merged>>, TypeOK',
         step' # "overlap",
         step' = "gather" => composite = <<>> /\ merged = {} /\ curr' = 1,
         step' = "done" => merged = DOMAIN lists
  PROVE  OrderInv'
<1>1. MergeIsForced'
  BY DEF OrderInv, MergeIsForced, Forced
<1> QED
  BY <1>1 DEF OrderInv

LEMMA GatherStep ==
  ASSUME OrderInv, NEW s \in Statement, AddOrderStatement(s) PROVE OrderInv'
<1>1. /\ step = "gather" /\ Len(lists) < MaxLists /\ lists' = Append(lists, s)
      /\ UNCHANGED <<step, composite, merged, changed, curr, oprev, ncurr>>
  BY DEF AddOrderStatement
<1>2. composite = <<>> /\ merged = {} /\ curr = 1 /\ lists \in Seq(Statement)
  BY <1>1 DEF OrderInv, TypeOK
<1>3. /\ lists' \in Seq(Statement) /\ Len(lists') = Len(lists) + 1
      /\ Len(lists) \in Nat
  BY <1>1, <1>2, AppendProperties, LenProperties
<1>4. TypeOK'
  <2>1. Len(lists') <= MaxLists /\ curr' \in 1..(Len(lists') + 1)
    BY <1>1, <1>2, <1>3, BoundsAssumption
  <2>2. merged' \in SUBSET DOMAIN lists'
    BY <1>1, <1>2
  <2> QED
    BY <1>1, <1>3, <2>1, <2>2 DEF OrderInv, TypeOK, Steps
<1>5. DOMAIN composite' = {} /\ Len(composite') = 0
  BY <1>1, <1>2
<1>6. IsInjective(composite') /\ ToSet(composite') \subseteq Items(lists')
  BY <1>5 DEF IsInjective, ToSet
<1>7. MergeIsForced'
  BY <1>5 DEF MergeIsForced, Forced
<1> QED
  BY <1>1, <1>2, <1>4, <1>6, <1>7 DEF OrderInv

LEMMA OrderStep == OrderInv /\ [Next]_vars => OrderInv'
<1> SUFFICES ASSUME OrderInv, [Next]_vars PROVE OrderInv'
  OBVIOUS
<1>1. CASE \E s \in Statement : AddOrderStatement(s)
  BY <1>1, GatherStep
<1>2. CASE StartMerge
  <2>1. /\ UNCHANGED <<lists, composite, merged, changed, curr, oprev, ncurr>>
        /\ step = "gather" /\ step' = "try"
    BY <1>2 DEF StartMerge, round
  <2>2. TypeOK'
    BY <2>1 DEF OrderInv, TypeOK, Steps
  <2> QED
    BY <2>1, <2>2, PlainStep
<1>3. CASE SkipMerged
  <2>1. /\ UNCHANGED <<lists, step, composite, merged, changed, oprev, ncurr>>
        /\ step = "try" /\ curr \in merged /\ curr' = curr + 1
    BY <1>3 DEF SkipMerged
  <2>2. curr' \in 1..(Len(lists) + 1)
    BY <2>1, ListsAre DEF OrderInv, TypeOK
  <2>3. TypeOK'
    BY <2>1, <2>2 DEF OrderInv, TypeOK, Steps
  <2> QED
    BY <2>1, <2>3, PlainStep
<1>4. CASE TryFirst
  BY <1>4, FirstStep
<1>5. CASE TryInVain
  BY <1>5, CannotStep DEF TryInVain, Trying
<1>6. CASE TryMatch
  BY <1>6, MatchStep
<1>7. CASE Advance
  BY <1>7, AdvanceStep
<1>8. CASE GapInOld
  BY <1>8, GapStep
<1>9. CASE GapInNew
  BY <1>9, SkipStep
<1>10. CASE NoMatch
  <2>1. step = "overlap" /\ Cannot
    BY <1>10 DEF NoMatch, Gap, Overlapping
  <2>2. curr \in DOMAIN lists \ merged
    BY <2>1, AtOverlap
  <2> QED
    BY <2>1, <2>2, CannotStep
<1>11. CASE AddRest
  BY <1>11, RestStep
<1>12. CASE EndRound
  <2>1. /\ UNCHANGED <<lists, composite, merged, oprev, ncurr>>
        /\ step = "try" /\ changed' = FALSE /\ curr' = 1
        /\ step' \in {"done", "try", "failed"}
        /\ step' = "done" => merged = DOMAIN lists
    BY <1>12 DEF EndRound
  <2>2. curr' \in 1..(Len(lists) + 1)
    BY <2>1, ListsAre DEF OrderInv
  <2>3. TypeOK'
    BY <2>1, <2>2 DEF OrderInv, TypeOK, Steps
  <2> QED
    BY <2>1, <2>3, PlainStep
<1>13. CASE UNCHANGED vars
  <2>1. UNCHANGED <<lists, merged, changed, curr, step, composite, oprev, ncurr>>
    BY <1>13 DEF vars, round
  <2>2. TypeOK'
    BY <2>1 DEF OrderInv, TypeOK, new
  <2>3. MergeIsForced'
    BY <2>1 DEF OrderInv, MergeIsForced, Forced
  <2> QED
    BY <2>1, <2>2, <2>3 DEF OrderInv, new
<1> QED
  BY <1>1, <1>2, <1>3, <1>4, <1>5, <1>6, <1>7, <1>8, <1>9, <1>10, <1>11, <1>12, <1>13 DEF Next

LEMMA OrderInvariant == Spec => []OrderInv
BY OrderInit, OrderStep, PTL DEF Spec

LEMMA MergedKeepOrders == OrderInv => MergeKeepsOrders
<1> SUFFICES ASSUME OrderInv, step = "done"
             PROVE  /\ IsInjective(composite) /\ ToSet(composite) = Items(lists)
                    /\ \A k \in DOMAIN lists : IsSubsequence(lists[k], composite)
  BY DEF MergeKeepsOrders
<1>1. merged = DOMAIN lists
  BY DEF OrderInv
<1>2. \A k \in DOMAIN lists : IsSubsequence(lists[k], composite)
  BY <1>1 DEF OrderInv
<1>3. ASSUME NEW x \in Items(lists) PROVE x \in ToSet(composite)
  <2>1. PICK k \in DOMAIN lists : x \in ToSet(lists[k])
    BY DEF Items
  <2>2. PICK j \in DOMAIN lists[k] : x = lists[k][j]
    BY <2>1 DEF ToSet
  <2>3. PICK f \in [DOMAIN lists[k] -> DOMAIN composite] :
          \A i \in DOMAIN lists[k] : composite[f[i]] = lists[k][i]
    BY <1>2 DEF IsSubsequence
  <2>4. f[j] \in DOMAIN composite /\ composite[f[j]] = x
    BY <2>2, <2>3
  <2> QED
    BY <2>4 DEF ToSet
<1> QED
  BY <1>2, <1>3 DEF OrderInv

(* The state of the merge is always of its types.                          *)
THEOREM OrderTypesTheorem == Spec => []TypeOK
<1>1. OrderInv => TypeOK
  BY DEF OrderInv
<1> QED
  BY <1>1, OrderInvariant, PTL

(* When __cil_ordered_lists_merge_all returns a list, it holds all ordered *)
(* items, each once, in an order that keeps that of every statement.       *)
THEOREM MergeTheorem == Spec => []MergeKeepsOrders
BY MergedKeepOrders, OrderInvariant, PTL

(* Neighbours in the composite list are neighbours in a statement, unless  *)
(* an attempt has failed in the middle, and then its statement clashes     *)
(* with the list for good.                                                 *)
THEOREM ForcedTheorem == Spec => []MergeIsForced
<1>1. OrderInv => MergeIsForced
  BY DEF OrderInv
<1> QED
  BY <1>1, OrderInvariant, PTL

(* So a list that __cil_ordered_lists_merge_all returns holds no two       *)
(* neighbours that no statement asks for.                                  *)
THEOREM ResultForcedTheorem == Spec => [](step = "done" => Forced(composite))
<1>1. OrderInv => (step = "done" => Forced(composite))
  BY DEF OrderInv, MergeIsForced
<1> QED
  BY <1>1, OrderInvariant, PTL
=============================================================================
