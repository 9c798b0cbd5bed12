--------------------------- MODULE CilExpandProofs ---------------------------
(***************************************************************************)
(* Theorems about the passes TIF to CALL1, for every tree that may be      *)
(* built: the tree stays a tree while bodies are copied, moved and         *)
(* destroyed, the helpers of the walk know what is around it, and nothing  *)
(* ends up where it may not stand.                                         *)
(***************************************************************************)
EXTENDS CilExpand, NumberLemmas

(* Parents come before their children, and node 1 is above all others      *)
Forest(p) ==
  /\ Len(p) \in Nat \ {0} /\ DOMAIN p = 1..Len(p)
  /\ p[1].parent = 0
  /\ \A n \in 2..Len(p) : p[n].parent \in 1..(n - 1)

Path(p, n) == {n} \cup Above(p, n)
-----------------------------------------------------------------------------
(* What is above a node *)

(* The recursive function of Above is there.                               *)
LEMMA AboveExists ==
  ASSUME NEW p, Forest(p)
  PROVE  \E f : f = [m \in 0..Len(p) |-> IF m = 0 THEN {} ELSE {p[m].parent} \cup f[p[m].parent]]
<1> DEFINE Is(f, k) == f = [m \in 0..k |-> IF m = 0 THEN {} ELSE {p[m].parent} \cup f[p[m].parent]]
           S == {k \in 0..Len(p) : \E f : Is(f, k)}
<1>1. Len(p) \in Nat /\ \A m \in 1..Len(p) : p[m].parent \in 0..(m - 1)
  BY DEF Forest
<1>2. 0 \in S
  <2>1. Is([m \in 0..0 |-> {}], 0)
    OBVIOUS
  <2>2. \E f : Is(f, 0)
    BY <2>1
  <2> HIDE DEF Is
  <2> QED
    BY <1>1, <2>2
<1>3. ASSUME NEW b \in 1..Len(p), b - 1 \in S PROVE b \in S
  <2>1. PICK f : Is(f, b - 1)
    BY <1>3
  <2> DEFINE g == [m \in 0..b |-> IF m = b THEN {p[b].parent} \cup f[p[b].parent] ELSE f[m]]
  <2>2. \A m \in 0..b : g[m] = IF m = 0 THEN {} ELSE {p[m].parent} \cup g[p[m].parent]
    <3> SUFFICES ASSUME NEW m \in 0..b
                 PROVE  g[m] = IF m = 0 THEN {} ELSE {p[m].parent} \cup g[p[m].parent]
      OBVIOUS
    <3>1. \A k \in 0..(b - 1) : g[k] = f[k]
      OBVIOUS
    <3>2. CASE m = b
      <4>1. g[m] = {p[b].parent} \cup f[p[b].parent]
        BY <3>2
      <4>2. p[b].parent \in 0..(b - 1)
        BY <1>1
      <4> HIDE DEF g
      <4> QED
        BY <3>1, <3>2, <4>1, <4>2
    <3>3. CASE m # b
      <4>1. m \in 0..(b - 1) /\ (m # 0 => p[m].parent \in 0..(b - 1))
        BY <3>3, <1>1
      <4>2. f[m] = IF m = 0 THEN {} ELSE {p[m].parent} \cup f[p[m].parent]
        BY <4>1, <2>1
      <4> HIDE DEF g
      <4> QED
        BY <3>1, <4>1, <4>2
    <3> QED
      BY <3>2, <3>3
  <2>3. Is(g, b)
    <3>1. g = [m \in 0..b |-> g[m]]
      OBVIOUS
    <3> HIDE DEF g
    <3> QED
      BY <2>2, <3>1
  <2> HIDE DEF g
  <2>4. \E h : Is(h, b)
    BY <2>3
  <2> HIDE DEF Is
  <2> QED
    BY <2>4, <1>1
<1>4. \A k \in 0..Len(p) : k \in S
  <2> HIDE DEF S
  <2>1. \A k \in 0..Len(p) : (\A j \in 0..Len(p) : j < k => j \in S) => k \in S
    <3> SUFFICES ASSUME NEW k \in 0..Len(p), \A j \in 0..Len(p) : j < k => j \in S PROVE k \in S
      OBVIOUS
    <3>1. k # 0 => k \in 1..Len(p) /\ k - 1 \in 0..Len(p) /\ k - 1 < k
      BY <1>1
    <3> QED
      BY <3>1, <1>2, <1>3
  <2> QED
    BY <2>1, <1>1, Complete
<1>5. Len(p) \in 0..Len(p)
  BY <1>1
<1> QED
  BY <1>4, <1>5

(* What is above a node is its parent and what is above that.              *)
LEMMA AboveIs ==
  ASSUME NEW p, Forest(p), NEW n \in DOMAIN p
  PROVE  /\ n = 1 => Above(p, n) = {}
         /\ n # 1 => Above(p, n) = {p[n].parent} \cup Above(p, p[n].parent)
<1> DEFINE Is(f) == f = [m \in 0..Len(p) |-> IF m = 0 THEN {} ELSE {p[m].parent} \cup f[p[m].parent]]
           above == CHOOSE f : Is(f)
<1>1. Is(above)
  BY AboveExists
<1>2. \A m \in 0..Len(p) : Above(p, m) = above[m] \ {0}
  BY DEF Above
<1>3. n \in 1..Len(p) /\ p[n].parent \in 0..Len(p) /\ (n # 1 => p[n].parent # 0) /\ (n = 1 => p[n].parent = 0)
      /\ 0 \in 0..Len(p)
  BY DEF Forest
<1>4. above[n] = {p[n].parent} \cup above[p[n].parent] /\ above[0] = {}
  <2> HIDE DEF above
  <2> QED
    BY <1>1, <1>3
<1> HIDE DEF above
<1>5. Above(p, n) = above[n] \ {0} /\ Above(p, p[n].parent) = above[p[n].parent] \ {0}
  BY <1>2, <1>3
<1> QED
  BY <1>3, <1>4, <1>5

(* It comes earlier, and holds what is above each of its nodes.            *)
LEMMA AboveBounds ==
  ASSUME NEW p, Forest(p), NEW n \in DOMAIN p
  PROVE  Above(p, n) \subseteq 1..(n - 1) /\ \A m \in Above(p, n) : Above(p, m) \subseteq Above(p, n)
<1> DEFINE S == {k \in 0..Len(p) : k \in DOMAIN p =>
                   /\ Above(p, k) \subseteq 1..(k - 1)
                   /\ \A m \in Above(p, k) : Above(p, m) \subseteq Above(p, k)}
<1>1. Len(p) \in Nat /\ DOMAIN p = 1..Len(p)
  BY DEF Forest
<1>2. \A k \in 0..Len(p) : (\A j \in 0..Len(p) : j < k => j \in S) => k \in S
  <2> SUFFICES ASSUME NEW k \in 1..Len(p), \A j \in 0..Len(p) : j < k => j \in S
               PROVE  /\ Above(p, k) \subseteq 1..(k - 1)
                      /\ \A m \in Above(p, k) : Above(p, m) \subseteq Above(p, k)
    BY <1>1
  <2>1. CASE k = 1
    BY <2>1, <1>1, AboveIs
  <2>2. CASE k # 1
    <3>1. p[k].parent \in 1..(k - 1) /\ k \in 2..Len(p)
      BY <2>2 DEF Forest
    <3>2. p[k].parent \in S /\ p[k].parent \in DOMAIN p
      BY <3>1, <1>1
    <3>3. /\ Above(p, p[k].parent) \subseteq 1..(p[k].parent - 1)
          /\ \A m \in Above(p, p[k].parent) : Above(p, m) \subseteq Above(p, p[k].parent)
      BY <3>2
    <3>4. Above(p, k) = {p[k].parent} \cup Above(p, p[k].parent)
      BY <2>2, <1>1, AboveIs
    <3>5. Above(p, k) \subseteq 1..(k - 1)
      BY <3>1, <3>3, <3>4
    <3> QED
      BY <3>3, <3>4, <3>5
  <2> QED
    BY <2>1, <2>2
<1>3. \A k \in 0..Len(p) : k \in S
  <2> HIDE DEF S
  <2> QED
    BY <1>1, <1>2, Complete
<1> QED
  BY <1>1, <1>3

(* New nodes change nothing above the old ones.                            *)
LEMMA AboveStays ==
  ASSUME NEW p, Forest(p), NEW q, Forest(q), Len(p) <= Len(q),
         \A k \in DOMAIN p : q[k].parent = p[k].parent
  PROVE  \A n \in DOMAIN p : Above(q, n) = Above(p, n)
<1> DEFINE S == {k \in 0..Len(p) : k \in DOMAIN p => Above(q, k) = Above(p, k)}
<1>1. Len(p) \in Nat /\ DOMAIN p = 1..Len(p) /\ DOMAIN p \subseteq DOMAIN q
  BY DEF Forest
<1>2. \A k \in 0..Len(p) : (\A j \in 0..Len(p) : j < k => j \in S) => k \in S
  <2> SUFFICES ASSUME NEW k \in 1..Len(p), \A j \in 0..Len(p) : j < k => j \in S
               PROVE  Above(q, k) = Above(p, k)
    BY <1>1
  <2>1. k = 1 => Above(q, k) = Above(p, k)
    BY <1>1, AboveIs
  <2>2. ASSUME k # 1 PROVE Above(q, k) = Above(p, k)
    <3>1. p[k].parent \in 1..(k - 1) /\ q[k].parent = p[k].parent
      BY <1>1, <2>2 DEF Forest
    <3>2. Above(q, p[k].parent) = Above(p, p[k].parent)
      BY <3>1, <1>1
    <3>3. Above(p, k) = {p[k].parent} \cup Above(p, p[k].parent)
      BY <2>2, <1>1, AboveIs
    <3>4. Above(q, k) = {q[k].parent} \cup Above(q, q[k].parent)
      BY <2>2, <1>1, AboveIs
    <3> QED
      BY <3>1, <3>2, <3>3, <3>4
  <2> QED
    BY <2>1, <2>2
<1>3. \A k \in 0..Len(p) : k \in S
  <2> HIDE DEF S
  <2> QED
    BY <1>1, <1>2, Complete
<1> QED
  BY <1>1, <1>3

(* A node above another has a child on the way to it, but one only.        *)
LEMMA PathChild ==
  ASSUME NEW p, Forest(p), NEW n \in DOMAIN p
  PROVE  /\ \A m \in Above(p, n) : \E k \in Path(p, n) : k # 1 /\ p[k].parent = m
         /\ \A a, b \in Path(p, n) : a # b => p[a].parent # p[b].parent
<1> DEFINE S == {j \in 0..Len(p) : j \in DOMAIN p =>
                   /\ \A m \in Above(p, j) : \E k \in Path(p, j) : k # 1 /\ p[k].parent = m
                   /\ \A a, b \in Path(p, j) : a # b => p[a].parent # p[b].parent}
<1>1. Len(p) \in Nat /\ DOMAIN p = 1..Len(p)
  BY DEF Forest
<1>2. \A j \in 0..Len(p) : (\A i \in 0..Len(p) : i < j => i \in S) => j \in S
  <2> SUFFICES ASSUME NEW j \in 1..Len(p), \A i \in 0..Len(p) : i < j => i \in S
               PROVE  /\ \A m \in Above(p, j) : \E k \in Path(p, j) : k # 1 /\ p[k].parent = m
                      /\ \A a, b \in Path(p, j) : a # b => p[a].parent # p[b].parent
    BY <1>1
  <2>1. CASE j = 1
    <3>1. Above(p, j) = {}
      BY <2>1, <1>1, AboveIs
    <3> QED
      BY <3>1 DEF Path
  <2>2. CASE j # 1
    <3> DEFINE u == p[j].parent
    <3>1. u \in 1..(j - 1) /\ j \in 2..Len(p) /\ u \in DOMAIN p
      BY <2>2, <1>1 DEF Forest
    <3>2. /\ \A m \in Above(p, u) : \E k \in Path(p, u) : k # 1 /\ p[k].parent = m
          /\ \A a, b \in Path(p, u) : a # b => p[a].parent # p[b].parent
      BY <3>1, <1>1
    <3>3. Above(p, j) = Path(p, u) /\ Path(p, j) = {j} \cup Path(p, u)
      BY <2>2, <1>1, AboveIs DEF Path
    <3>4. \A a \in Path(p, u) : a \in 1..u /\ p[a].parent < u
      <4> SUFFICES ASSUME NEW a \in Path(p, u) PROVE a \in 1..u /\ p[a].parent < u
        OBVIOUS
      <4>1. a \in 1..u
        BY <3>1, AboveBounds DEF Path
      <4>2. a \in 2..Len(p) \/ a = 1
        BY <4>1, <3>1
      <4> QED
        BY <4>1, <4>2, <3>1 DEF Forest
    <3>5. ASSUME NEW m \in Above(p, j) PROVE \E k \in Path(p, j) : k # 1 /\ p[k].parent = m
      <4>1. m = u \/ m \in Above(p, u)
        BY <3>3 DEF Path
      <4> QED
        BY <4>1, <3>2, <3>3, <2>2
    <3>6. ASSUME NEW a \in Path(p, j), NEW b \in Path(p, j), a # b
          PROVE  p[a].parent # p[b].parent
      <4>1. a = j \/ a \in Path(p, u)
        BY <3>3
      <4>2. b = j \/ b \in Path(p, u)
        BY <3>3
      <4>3. u \in Nat /\ (a \in Path(p, u) => p[a].parent < u) /\ (b \in Path(p, u) => p[b].parent < u)
        BY <3>1, <3>4
      <4>4. CASE a \in Path(p, u) /\ b \in Path(p, u)
        BY <4>4, <3>2, <3>6
      <4>5. CASE a = j /\ b \in Path(p, u)
        BY <4>5, <4>3
      <4>6. CASE b = j /\ a \in Path(p, u)
        BY <4>6, <4>3
      <4> QED
        BY <4>1, <4>2, <4>4, <4>5, <4>6, <3>6
    <3> QED
      BY <3>5, <3>6
  <2> QED
    BY <2>1, <2>2
<1>3. \A k \in 0..Len(p) : k \in S
  <2> HIDE DEF S
  <2> QED
    BY <1>1, <1>2, Complete
<1> QED
  BY <1>1, <1>3
-----------------------------------------------------------------------------
(* The order of the walk *)

(* Every element has parent m or comes after its parent *)
Follows(s, parent, m) ==
  \A i \in 1..Len(s) : parent[s[i]] = m \/ \E j \in 1..(i - 1) : s[j] = parent[s[i]]

(* One such sequence after another is one.                                 *)
LEMMA FollowsOn ==
  ASSUME NEW X, NEW a \in Seq(X), NEW b \in Seq(X), NEW parent, NEW m,
         Follows(a, parent, m), Follows(b, parent, m)
  PROVE  a \o b \in Seq(X) /\ Follows(a \o b, parent, m)
<1>1. /\ a \o b \in Seq(X) /\ Len(a \o b) = Len(a) + Len(b) /\ Len(a) \in Nat /\ Len(b) \in Nat
      /\ \A i \in 1..Len(a) : (a \o b)[i] = a[i]
      /\ \A i \in 1..Len(b) : (a \o b)[i + Len(a)] = b[i]
  OBVIOUS
<1> DEFINE c == a \o b
<1>2. ASSUME NEW i \in 1..Len(c)
      PROVE  parent[c[i]] = m \/ \E j \in 1..(i - 1) : c[j] = parent[c[i]]
  <2>1. CASE i <= Len(a)
    <3>1. i \in 1..Len(a) /\ c[i] = a[i] /\ \A j \in 1..(i - 1) : c[j] = a[j]
      BY <2>1, <1>1
    <3> HIDE DEF c
    <3> QED
      BY <3>1 DEF Follows
  <2>2. CASE i > Len(a)
    <3> DEFINE k == i - Len(a)
    <3>1. k \in 1..Len(b) /\ i = k + Len(a)
      BY <2>2, <1>1
    <3>2. c[i] = b[k]
      BY <3>1, <1>1
    <3>3. parent[b[k]] = m \/ \E j \in 1..(k - 1) : b[j] = parent[b[k]]
      BY <3>1 DEF Follows
    <3>4. ASSUME NEW j \in 1..(k - 1) PROVE j + Len(a) \in 1..(i - 1) /\ c[j + Len(a)] = b[j]
      BY <3>1, <1>1
    <3> HIDE DEF c, k
    <3> QED
      BY <3>2, <3>3, <3>4
  <2> QED
    BY <2>1, <2>2, <1>1
<1> QED
  BY <1>1, <1>2 DEF Follows

(* FlattenSeq puts them one after another.                                 *)
LEMMA FlattenFollows ==
  ASSUME NEW X, NEW s \in Seq(Seq(X)), NEW parent, NEW m,
         \A k \in DOMAIN s : Follows(s[k], parent, m)
  PROVE  FlattenSeq(s) \in Seq(X) /\ Follows(FlattenSeq(s), parent, m)
<1>1. CASE Len(s) = 0
  <2>1. s = <<>> /\ FlattenSeq(s) = s
    BY <1>1 DEF FlattenSeq
  <2>2. <<>> \in Seq(X) /\ Len(<<>>) = 0
    OBVIOUS
  <2>3. Follows(<<>>, parent, m)
    BY <2>2 DEF Follows
  <2> QED
    BY <2>1, <2>2, <2>3
<1>2. CASE Len(s) # 0
  <2> DEFINE Is(f, k) == f = [i \in 1..k |-> IF i = 1 THEN s[i] ELSE f[i - 1] \o s[i]]
             N == Len(s)
             S == {k \in 0..N : \E f : Is(f, k)}
  <2>1. N \in Nat /\ N # 0 /\ DOMAIN s = 1..N
    BY <1>2
  <2>2. 0 \in S
    <3>1. Is(<<>>, 0)
      OBVIOUS
    <3>2. \E f : Is(f, 0)
      BY <3>1
    <3> HIDE DEF Is
    <3> QED
      BY <2>1, <3>2
  <2>3. ASSUME NEW k \in 1..N, k - 1 \in S PROVE k \in S
    <3>1. PICK f : Is(f, k - 1)
      BY <2>3
    <3> DEFINE g == [i \in 1..k |-> IF i = k THEN (IF k = 1 THEN s[k] ELSE f[k - 1] \o s[k]) ELSE f[i]]
    <3>2. \A i \in 1..k : g[i] = IF i = 1 THEN s[i] ELSE g[i - 1] \o s[i]
      <4> SUFFICES ASSUME NEW i \in 1..k PROVE g[i] = IF i = 1 THEN s[i] ELSE g[i - 1] \o s[i]
        OBVIOUS
      <4>1. \A j \in 1..(k - 1) : g[j] = f[j]
        OBVIOUS
      <4>2. CASE i = k
        <5>1. g[i] = IF k = 1 THEN s[k] ELSE f[k - 1] \o s[k]
          BY <4>2
        <5>2. k # 1 => k - 1 \in 1..(k - 1)
          OBVIOUS
        <5> HIDE DEF g
        <5> QED
          BY <4>1, <4>2, <5>1, <5>2
      <4>3. CASE i # k
        <5>1. i \in 1..(k - 1) /\ (i # 1 => i - 1 \in 1..(k - 1))
          BY <4>3
        <5>2. f[i] = IF i = 1 THEN s[i] ELSE f[i - 1] \o s[i]
          BY <5>1, <3>1
        <5> HIDE DEF g
        <5> QED
          BY <4>1, <5>1, <5>2
      <4> QED
        BY <4>2, <4>3
    <3>3. Is(g, k)
      <4>1. g = [i \in 1..k |-> g[i]]
        OBVIOUS
      <4> HIDE DEF g
      <4> QED
        BY <3>2, <4>1
    <3> HIDE DEF g
    <3>4. \E h : Is(h, k)
      BY <3>3
    <3> HIDE DEF Is
    <3> QED
      BY <3>4, <2>1
  <2>4. N \in S
    <3> HIDE DEF S, N
    <3>1. \A k \in 0..N : (\A j \in 0..N : j < k => j \in S) => k \in S
      <4> SUFFICES ASSUME NEW k \in 0..N, \A j \in 0..N : j < k => j \in S PROVE k \in S
        OBVIOUS
      <4>1. k # 0 => k \in 1..N /\ k - 1 \in 0..N /\ k - 1 < k
        BY <2>1
      <4> QED
        BY <4>1, <2>2, <2>3
    <3>2. \A k \in 0..N : k \in S
      BY <3>1, <2>1, Complete
    <3> QED
      BY <3>2, <2>1
  <2> DEFINE flatten == CHOOSE f : Is(f, N)
  <2>5. Is(flatten, N)
    <3>1. \E f : Is(f, N)
      BY <2>4
    <3> HIDE DEF Is, N
    <3> QED
      BY <3>1
  <2>6. FlattenSeq(s) = flatten[N]
    BY <1>2 DEF FlattenSeq
  <2> DEFINE T == {k \in 0..N : k # 0 => flatten[k] \in Seq(X) /\ Follows(flatten[k], parent, m)}
  <2>7. \A k \in 0..N : (\A j \in 0..N : j < k => j \in T) => k \in T
    <3> HIDE DEF flatten
    <3> SUFFICES ASSUME NEW k \in 0..N, \A j \in 0..N : j < k => j \in T, k # 0
                 PROVE  flatten[k] \in Seq(X) /\ Follows(flatten[k], parent, m)
      OBVIOUS
    <3>4. k \in 1..N
      BY <2>1
    <3>1. flatten[k] = IF k = 1 THEN s[k] ELSE flatten[k - 1] \o s[k]
      BY <2>5, <3>4
    <3>2. s[k] \in Seq(X) /\ Follows(s[k], parent, m)
      BY <2>1, <3>4
    <3>3. k # 1 => flatten[k - 1] \in Seq(X) /\ Follows(flatten[k - 1], parent, m)
      <4>1. k # 1 => k - 1 \in 0..N /\ k - 1 < k /\ k - 1 # 0
        BY <2>1
      <4> QED
        BY <4>1
    <3> QED
      BY <3>1, <3>2, <3>3, FollowsOn
  <2>8. \A k \in 0..N : k \in T
    <3> HIDE DEF T, N
    <3> QED
      BY <2>1, <2>7, Complete
  <2> HIDE DEF flatten
  <2> QED
    BY <2>1, <2>6, <2>8
<1> QED
  BY <1>1, <1>2

(* A node before what follows from it follows from its parent.             *)
LEMMA ConsFollows ==
  ASSUME NEW X, NEW a \in Seq(X), NEW k \in X, NEW parent, Follows(a, parent, k)
  PROVE  <<k>> \o a \in Seq(X) /\ Follows(<<k>> \o a, parent, parent[k])
<1> DEFINE c == <<k>> \o a
<1>1. /\ c \in Seq(X) /\ Len(c) = Len(a) + 1 /\ Len(a) \in Nat /\ c[1] = k
      /\ \A i \in 1..Len(a) : c[i + 1] = a[i]
  OBVIOUS
<1>2. ASSUME NEW i \in 1..Len(c)
      PROVE  parent[c[i]] = parent[k] \/ \E j \in 1..(i - 1) : c[j] = parent[c[i]]
  <2> HIDE DEF c
  <2>1. CASE i = 1
    BY <2>1, <1>1
  <2>2. CASE i # 1
    <3> DEFINE h == i - 1
    <3>1. h \in 1..Len(a) /\ i = h + 1 /\ 1 \in 1..(i - 1)
      BY <2>2, <1>1
    <3>2. c[i] = a[h] /\ (parent[a[h]] = k \/ \E j \in 1..(h - 1) : a[j] = parent[a[h]])
      BY <3>1, <1>1 DEF Follows
    <3>3. \A j \in 1..(h - 1) : j + 1 \in 1..(i - 1) /\ c[j + 1] = a[j]
      BY <3>1, <1>1
    <3> HIDE DEF h
    <3> QED
      BY <3>1, <3>2, <3>3, <1>1
  <2> QED
    BY <2>1, <2>2
<1> QED
  BY <1>1, <1>2 DEF Follows

(* The nodes of a tree: those in it hang below one another                 *)
TreeShape(t) ==
  /\ Forest(t.node)
  /\ t.live \subseteq DOMAIN t.node /\ Root \in t.live
  /\ \A n \in t.live \ {Root} : t.node[n].parent \in t.live

Parents(t) == [n \in DOMAIN t.node |-> t.node[n].parent]

(* One place of the recursive function in Preorder                         *)
OrderAt(t, f, m) ==
  <<m>> \o FlattenSeq([k \in DOMAIN t.node |-> IF k \in Kids(t, m) THEN f[k] ELSE <<>>])

(* It looks only at children, which come later.                            *)
LEMMA OrderAtLocal ==
  ASSUME NEW t, TreeShape(t), NEW m \in DOMAIN t.node, NEW f, NEW g,
         \A k \in DOMAIN t.node : k > m => g[k] = f[k]
  PROVE  OrderAt(t, g, m) = OrderAt(t, f, m)
<1>1. \A k \in Kids(t, m) : k \in DOMAIN t.node /\ k > m
  BY DEF Kids, TreeShape, Forest, Root
<1>2. [k \in DOMAIN t.node |-> IF k \in Kids(t, m) THEN f[k] ELSE <<>>]
      = [k \in DOMAIN t.node |-> IF k \in Kids(t, m) THEN g[k] ELSE <<>>]
  BY <1>1
<1> QED
  BY <1>2 DEF OrderAt

(* The recursive function of Preorder is there.                            *)
LEMMA OrderExists ==
  ASSUME NEW t, TreeShape(t)
  PROVE  \E f : f = [m \in DOMAIN t.node |-> OrderAt(t, f, m)]
<1> DEFINE N == Len(t.node)
           Is(f, b) == f = [m \in b..N |-> OrderAt(t, f, m)]
           S == {i \in 0..N : \E f : Is(f, N + 1 - i)}
<1>1. N \in Nat /\ DOMAIN t.node = 1..N
  BY DEF TreeShape, Forest
<1>2. 0 \in S
  <2>1. Is(<<>>, N + 1)
    BY <1>1
  <2>2. \E f : Is(f, N + 1 - 0)
    <3> HIDE DEF Is
    <3> QED
      BY <2>1, <1>1
  <2> HIDE DEF Is
  <2> QED
    BY <1>1, <2>2
<1>3. ASSUME NEW i \in 1..N, i - 1 \in S PROVE i \in S
  <2> DEFINE b == N + 1 - i
  <2>1. b \in 1..N /\ N + 1 - (i - 1) = b + 1
    BY <1>1
  <2>2. PICK f : Is(f, b + 1)
    BY <1>3, <2>1
  <2> DEFINE g == [m \in b..N |-> IF m = b THEN OrderAt(t, f, b) ELSE f[m]]
  <2>3. \A m \in b..N : g[m] = OrderAt(t, g, m)
    <3> SUFFICES ASSUME NEW m \in b..N PROVE g[m] = OrderAt(t, g, m)
      OBVIOUS
    <3>1. \A k \in DOMAIN t.node : k > m => g[k] = f[k]
      BY <1>1, <2>1
    <3>2. OrderAt(t, g, m) = OrderAt(t, f, m)
      <4>1. m \in DOMAIN t.node
        BY <1>1, <2>1
      <4>2. \A k \in DOMAIN t.node : k > m => g[k] = f[k]
        BY <3>1
      <4> HIDE DEF g, b, N, Is
      <4> QED
        BY <4>1, <4>2, OrderAtLocal
    <3>3. m = b => g[m] = OrderAt(t, f, m)
      BY <2>1
    <3>4. m # b => g[m] = f[m] /\ m \in (b + 1)..N
      BY <2>1, <1>1
    <3>5. m # b => f[m] = OrderAt(t, f, m)
      BY <3>4, <2>2
    <3> HIDE DEF g, b, N, Is
    <3> QED
      BY <3>2, <3>3, <3>4, <3>5
  <2>4. Is(g, b)
    <3>1. g = [m \in b..N |-> g[m]]
      OBVIOUS
    <3> HIDE DEF g
    <3> QED
      BY <2>3, <3>1
  <2> HIDE DEF g
  <2>5. \E h : Is(h, N + 1 - i)
    BY <2>4
  <2> HIDE DEF Is
  <2> QED
    BY <2>5, <1>1
<1>4. N \in S
  <2> HIDE DEF S, N
  <2>1. \A k \in 0..N : (\A j \in 0..N : j < k => j \in S) => k \in S
    <3> SUFFICES ASSUME NEW k \in 0..N, \A j \in 0..N : j < k => j \in S PROVE k \in S
      OBVIOUS
    <3>1. k # 0 => k \in 1..N /\ k - 1 \in 0..N /\ k - 1 < k
      BY <1>1
    <3> QED
      BY <3>1, <1>2, <1>3
  <2>2. \A k \in 0..N : k \in S
    BY <2>1, <1>1, Complete
  <2> QED
    BY <2>2, <1>1
<1>5. PICK f : Is(f, N + 1 - N)
  BY <1>4
<1>6. (N + 1 - N)..N = DOMAIN t.node
  BY <1>1
<1> QED
  BY <1>5, <1>6

(* The walk of a subtree goes through nodes of the tree, each after its    *)
(* parent.                                                                 *)
LEMMA PreorderIs ==
  ASSUME NEW t, TreeShape(t), NEW n \in DOMAIN t.node
  PROVE  \E flat \in Seq(t.live) : /\ Preorder(t, n) = <<n>> \o flat
                                   /\ Follows(flat, Parents(t), n)
<1> DEFINE N == Len(t.node)
           Is(f) == f = [m \in DOMAIN t.node |-> OrderAt(t, f, m)]
           order == CHOOSE f : Is(f)
           Good(m) == \E flat \in Seq(t.live) : /\ order[m] = <<m>> \o flat
                                                /\ Follows(flat, Parents(t), m)
           S == {i \in 0..N : i # 0 => Good(N + 1 - i)}
<1>1. N \in Nat /\ DOMAIN t.node = 1..N /\ t.live \subseteq 1..N
  BY DEF TreeShape, Forest
<1>2. Is(order)
  <2>1. \E f : Is(f)
    BY OrderExists
  <2> HIDE DEF Is
  <2> QED
    BY <2>1
<1>3. Preorder(t, n) = order[n]
  BY DEF Preorder, OrderAt
<1>4. \A m \in DOMAIN t.node : order[m] = OrderAt(t, order, m)
  <2> HIDE DEF order
  <2> QED
    BY <1>2
<1> HIDE DEF order
<1>5. \A i \in 0..N : (\A j \in 0..N : j < i => j \in S) => i \in S
  <2> SUFFICES ASSUME NEW i \in 1..N, \A j \in 0..N : j < i => j \in S
               PROVE  Good(N + 1 - i)
    <3> HIDE DEF Good
    <3> QED
      BY <1>1
  <2> DEFINE m == N + 1 - i
             s == [k \in DOMAIN t.node |-> IF k \in Kids(t, m) THEN order[k] ELSE <<>>]
  <2>1. m \in 1..N
    BY <1>1
  <2>2. \A k \in Kids(t, m) : k \in t.live /\ k \in (m + 1)..N /\ Parents(t)[k] = m
    <3> SUFFICES ASSUME NEW k \in Kids(t, m)
                 PROVE  k \in t.live /\ k \in (m + 1)..N /\ Parents(t)[k] = m
      OBVIOUS
    <3>1. k \in t.live /\ t.node[k].parent = m /\ k \in 1..N
      BY <1>1 DEF Kids
    <3>2. k # 1 => t.node[k].parent \in 1..(k - 1)
      BY <3>1, <1>1 DEF TreeShape, Forest
    <3>3. k = 1 => t.node[k].parent = 0
      BY DEF TreeShape, Forest
    <3> HIDE DEF m
    <3> QED
      BY <3>1, <3>2, <3>3, <2>1, <1>1 DEF Parents
  <2>3. ASSUME NEW k \in 1..N
        PROVE  s[k] \in Seq(t.live) /\ Follows(s[k], Parents(t), m)
    <3>1. CASE k \in Kids(t, m)
      <4>1. k \in (m + 1)..N
        BY <3>1, <2>2
      <4>2. N + 1 - k \in 0..N /\ N + 1 - k < i /\ N + 1 - k # 0 /\ N + 1 - (N + 1 - k) = k
        BY <4>1, <1>1
      <4>3. Good(k)
        BY <4>2
      <4>4. PICK flat \in Seq(t.live) : order[k] = <<k>> \o flat /\ Follows(flat, Parents(t), k)
        BY <4>3
      <4>5. k \in t.live /\ Parents(t)[k] = m
        BY <3>1, <2>2
      <4>6. s[k] = <<k>> \o flat
        BY <3>1, <4>4, <1>1
      <4> HIDE DEF m, s
      <4> QED
        BY <4>4, <4>5, <4>6, ConsFollows
    <3>2. CASE k \notin Kids(t, m)
      <4>1. s[k] = <<>>
        BY <3>2, <1>1
      <4>2. <<>> \in Seq(t.live) /\ Len(<<>>) = 0
        OBVIOUS
      <4>3. Follows(<<>>, Parents(t), m)
        BY <4>2 DEF Follows
      <4> HIDE DEF s
      <4> QED
        BY <4>1, <4>2, <4>3
    <3> QED
      BY <3>1, <3>2
  <2>4. s \in Seq(Seq(t.live)) /\ DOMAIN s = 1..N
    <3>1. s \in [1..N -> Seq(t.live)]
      <4> HIDE DEF m
      <4>1. s = [k \in 1..N |-> s[k]]
        BY <1>1
      <4> HIDE DEF s
      <4> QED
        BY <4>1, <2>3
    <3> HIDE DEF s, m, N
    <3> QED
      BY <3>1, <1>1
  <2>5. FlattenSeq(s) \in Seq(t.live) /\ Follows(FlattenSeq(s), Parents(t), m)
    <3> HIDE DEF s, m
    <3> QED
      BY <2>3, <2>4, FlattenFollows
  <2>6. order[m] = <<m>> \o FlattenSeq(s)
    BY <1>4, <2>1, <1>1 DEF OrderAt
  <2> HIDE DEF s
  <2> QED
    BY <2>5, <2>6
<1>6. \A i \in 0..N : i \in S
  <2> HIDE DEF S, N
  <2> QED
    BY <1>1, <1>5, Complete
<1>7. N + 1 - n \in 0..N /\ N + 1 - n # 0 /\ N + 1 - (N + 1 - n) = n
  BY <1>1
<1>8. Good(n)
  BY <1>6, <1>7
<1> QED
  BY <1>3, <1>8
-----------------------------------------------------------------------------
(* Scopes and names *)

(* One place of the recursive function in Home                             *)
HomeAt(node, f, n) ==
  CASE node[n].kind \in {"root", "block", "macro", "in"} -> node[n].datum
    [] node[n].kind = "cond" /\ node[node[n].parent].kind = "tunableif" -> n
    [] OTHER -> f[node[n].parent]

(* The tree of a scope: its root, and the data of its nodes                *)
Scoped(node) ==
  /\ Forest(node) /\ node[1].kind = "root"
  /\ \A n \in DOMAIN node : node[n].datum \in DOMAIN node

(* It looks only at the parent, and gives one of the nodes.                *)
LEMMA HomeAtIs ==
  ASSUME NEW node, NEW n \in DOMAIN node, NEW f, NEW g, NEW X, node[n].datum \in X, n \in X,
         node[n].kind = "root" \/ f[node[n].parent] = g[node[n].parent]
  PROVE  /\ HomeAt(node, f, n) = HomeAt(node, g, n)
         /\ node[n].kind = "root" \/ f[node[n].parent] \in X => HomeAt(node, f, n) \in X
<1>1. CASE node[n].kind \in {"root", "block", "macro", "in"}
  <2>1. HomeAt(node, f, n) = node[n].datum /\ HomeAt(node, g, n) = node[n].datum
    BY <1>1, Zenon DEF HomeAt
  <2> QED
    BY <2>1
<1>2. CASE node[n].kind = "cond" /\ node[node[n].parent].kind = "tunableif"
  <2>1. node[n].kind \notin {"root", "block", "macro", "in"}
    BY <1>2
  <2>2. HomeAt(node, f, n) = n /\ HomeAt(node, g, n) = n
    BY <1>2, <2>1, Zenon DEF HomeAt
  <2> QED
    BY <2>2
<1>3. CASE /\ node[n].kind \notin {"root", "block", "macro", "in"}
           /\ ~ (node[n].kind = "cond" /\ node[node[n].parent].kind = "tunableif")
  <2>1. HomeAt(node, f, n) = f[node[n].parent] /\ HomeAt(node, g, n) = g[node[n].parent]
    BY <1>3, Zenon DEF HomeAt
  <2>2. node[n].kind # "root"
    BY <1>3
  <2> QED
    BY <2>1, <2>2
<1> QED
  BY <1>1, <1>2, <1>3

(* The scope of a place is the datum of one of the nodes.                  *)
LEMMA HomeIs ==
  ASSUME NEW node, Scoped(node), NEW p \in DOMAIN node
  PROVE  Home(node, p) \in DOMAIN node
<1> DEFINE N == Len(node)
           Is(f, k) == f = [n \in 1..k |-> HomeAt(node, f, n)]
           S == {k \in 0..N : \E f : Is(f, k)}
<1>1. /\ N \in Nat /\ DOMAIN node = 1..N
      /\ \A n \in 1..N : node[n].kind = "root" \/ node[n].parent \in 1..(n - 1)
  BY DEF Scoped, Forest
<1>2. 0 \in S
  <2>1. Is(<<>>, 0)
    OBVIOUS
  <2>2. \E f : Is(f, 0)
    BY <2>1
  <2> HIDE DEF Is
  <2> QED
    BY <1>1, <2>2
<1>3. ASSUME NEW b \in 1..N, b - 1 \in S PROVE b \in S
  <2>1. PICK f : Is(f, b - 1)
    BY <1>3
  <2> DEFINE g == [n \in 1..b |-> IF n = b THEN HomeAt(node, f, b) ELSE f[n]]
  <2>2. \A n \in 1..b : g[n] = HomeAt(node, g, n)
    <3> SUFFICES ASSUME NEW n \in 1..b PROVE g[n] = HomeAt(node, g, n)
      OBVIOUS
    <3>1. \A k \in 1..(b - 1) : g[k] = f[k]
      OBVIOUS
    <3>2. HomeAt(node, g, n) = HomeAt(node, f, n)
      <4>1. n \in DOMAIN node /\ node[n].datum \in DOMAIN node
        BY <1>1 DEF Scoped
      <4>2. node[n].kind = "root" \/ g[node[n].parent] = f[node[n].parent]
        <5>1. node[n].kind = "root" \/ node[n].parent \in 1..(b - 1)
          BY <1>1
        <5> HIDE DEF g
        <5> QED
          BY <3>1, <5>1
      <4> HIDE DEF g
      <4> QED
        BY <4>1, <4>2, HomeAtIs
    <3>3. n = b => g[n] = HomeAt(node, f, n)
      OBVIOUS
    <3>4. n # b => g[n] = f[n] /\ n \in 1..(b - 1)
      OBVIOUS
    <3>5. n # b => f[n] = HomeAt(node, f, n)
      BY <3>4, <2>1
    <3> HIDE DEF g, Is
    <3> QED
      BY <3>2, <3>3, <3>4, <3>5
  <2>3. Is(g, b)
    <3>1. g = [n \in 1..b |-> g[n]]
      OBVIOUS
    <3> HIDE DEF g
    <3> QED
      BY <2>2, <3>1
  <2> HIDE DEF g
  <2>4. \E h : Is(h, b)
    BY <2>3
  <2> HIDE DEF Is
  <2> QED
    BY <2>4, <1>1
<1>4. N \in S
  <2> HIDE DEF S, N
  <2>1. \A k \in 0..N : (\A j \in 0..N : j < k => j \in S) => k \in S
    <3> SUFFICES ASSUME NEW k \in 0..N, \A j \in 0..N : j < k => j \in S PROVE k \in S
      OBVIOUS
    <3>1. k # 0 => k \in 1..N /\ k - 1 \in 0..N /\ k - 1 < k
      BY <1>1
    <3> QED
      BY <3>1, <1>2, <1>3
  <2>2. \A k \in 0..N : k \in S
    BY <2>1, <1>1, Complete
  <2> QED
    BY <2>2, <1>1
<1> DEFINE Whole(f) == f = [n \in DOMAIN node |-> HomeAt(node, f, n)]
           home == CHOOSE f : Whole(f)
<1>5. Whole(home)
  <2>1. PICK f : Is(f, N)
    BY <1>4
  <2>2. Whole(f)
    BY <2>1, <1>1
  <2> HIDE DEF Whole
  <2> QED
    BY <2>2
<1>6. Home(node, p) = home[p]
  BY DEF Home, HomeAt
<1>7. \A n \in DOMAIN node : home[n] = HomeAt(node, home, n)
  <2> HIDE DEF home
  <2> QED
    BY <1>5
<1> HIDE DEF home
<1> DEFINE T == {k \in 0..N : k # 0 => home[k] \in DOMAIN node}
<1>8. \A k \in 0..N : (\A j \in 0..N : j < k => j \in T) => k \in T
  <2> SUFFICES ASSUME NEW k \in 1..N, \A j \in 0..N : j < k => j \in T PROVE home[k] \in DOMAIN node
    BY <1>1
  <2>1. node[k].kind = "root" \/ home[node[k].parent] \in DOMAIN node
    <3>1. node[k].kind = "root" \/ node[k].parent \in 1..(k - 1)
      BY <1>1
    <3>2. node[k].parent \in 1..(k - 1) => node[k].parent \in 0..N /\ node[k].parent < k /\ node[k].parent # 0
      BY <1>1
    <3> QED
      BY <3>1, <3>2
  <2>2. k \in DOMAIN node /\ node[k].datum \in DOMAIN node
    BY <1>1 DEF Scoped
  <2>3. HomeAt(node, home, k) \in DOMAIN node
    BY <2>1, <2>2, HomeAtIs
  <2> QED
    BY <2>2, <2>3, <1>7
<1>9. \A k \in 0..N : k \in T
  <2> HIDE DEF T, N
  <2> QED
    BY <1>1, <1>8, Complete
<1> QED
  BY <1>1, <1>6, <1>9

(* A tree of the compiler, with its data and its lists of blockinherits    *)
TreeOK(t) ==
  /\ t \in [node : Seq(Node), live : SUBSET Nat, links : Seq(Nat)]
  /\ TreeShape(t)
  /\ \A n \in DOMAIN t.node : (t.node[n].kind = "root") = (n = Root)
  /\ \A n \in DOMAIN t.node : /\ t.node[n].datum \in DOMAIN t.node
                              /\ {t.node[n].to, t.node[n].ns} \subseteq 0..Len(t.node)
                              /\ t.node[n].kind \in UsesName => t.node[n].ref # <<>>
  /\ ToSet(t.links) \subseteq DOMAIN t.node

(* What is known of the nodes of such a tree.                              *)
LEMMA TreeHere ==
  ASSUME NEW t, TreeOK(t)
  PROVE  /\ Len(t.node) \in Nat \ {0} /\ DOMAIN t.node = 1..Len(t.node) /\ Forest(t.node)
         /\ Root \in t.live /\ Root \in DOMAIN t.node /\ t.live \subseteq 1..Len(t.node)
         /\ \A n \in DOMAIN t.node : t.node[n] \in Node
         /\ \A n \in DOMAIN t.node \ {Root} : t.node[n].parent \in 1..(n - 1)
         /\ \A n \in t.live \ {Root} : t.node[n].parent \in t.live
         /\ t.node[Root].parent = 0
         /\ Scoped(t.node)
<1>1. Len(t.node) \in Nat \ {0} /\ DOMAIN t.node = 1..Len(t.node) /\ Forest(t.node)
  BY DEF TreeOK, TreeShape, Forest
<1>2. Root \in t.live /\ Root \in DOMAIN t.node /\ t.live \subseteq 1..Len(t.node)
  BY <1>1 DEF TreeOK, TreeShape
<1>3. \A n \in DOMAIN t.node : t.node[n] \in Node
  BY DEF TreeOK
<1>4. \A n \in DOMAIN t.node \ {Root} : t.node[n].parent \in 1..(n - 1)
  BY <1>1 DEF Forest, Root
<1>5. Scoped(t.node)
  BY <1>1, <1>2 DEF Scoped, TreeOK, Root
<1> QED
  BY <1>1, <1>2, <1>3, <1>4, <1>5 DEF TreeOK, TreeShape, Forest, Root

(* The node of a datum that has one.                                       *)
LEMMA NodeOf ==
  ASSUME NEW t, TreeOK(t), NEW d, NodesOf(t, d) # {}
  PROVE  NODE(t, d) \in t.live /\ NODE(t, d) \in DOMAIN t.node /\ t.node[NODE(t, d)].datum = d
         /\ d \in DOMAIN t.node
<1>1. NodesOf(t, d) \in SUBSET Nat /\ NodesOf(t, d) \subseteq t.live
  BY TreeHere DEF NodesOf
<1>2. NODE(t, d) \in NodesOf(t, d)
  BY <1>1, MinIn DEF NODE
<1> QED
  BY <1>2, TreeHere DEF NodesOf, TreeOK

(* What is found in a symtab has a node.                                   *)
LEMMA GetIs ==
  ASSUME NEW t, TreeOK(t), NEW scope, NEW sym, NEW name
  PROVE  LET d == Get(t, scope, sym, name)
         IN d = 0 \/ (d \in DOMAIN t.node /\ NodesOf(t, d) # {})
<1> DEFINE found == {n \in t.live : /\ t.node[n].ns = scope
                                    /\ t.node[n].name = name
                                    /\ Sym(t.node[n].kind) = sym}
<1>1. Get(t, scope, sym, name) = IF found = {} THEN 0 ELSE t.node[Min(found)].datum
  BY DEF Get
<1>2. found # {} => Min(found) \in t.live
  <2>1. found \in SUBSET Nat /\ found \subseteq t.live
    BY TreeHere
  <2> HIDE DEF found
  <2> QED
    BY <2>1, MinIn
<1>3. found # {} => t.node[Min(found)].datum \in DOMAIN t.node
                    /\ Min(found) \in NodesOf(t, t.node[Min(found)].datum)
  <2> HIDE DEF found
  <2> QED
    BY <1>2, TreeHere DEF TreeOK, NodesOf
<1> QED
  BY <1>1, <1>3
-----------------------------------------------------------------------------
(* Trees that grow and shrink *)

(* q has grown out of p: there are new nodes below dest.                   *)
Grown(p, q, dest) ==
  /\ Len(p.node) <= Len(q.node)
  /\ \A k \in DOMAIN p.node : q.node[k] = p.node[k] /\ (k \in q.live) = (k \in p.live)
  /\ \A k \in DOMAIN q.node \ DOMAIN p.node :
       q.node[k].parent = dest \/ q.node[k].parent > Len(p.node)

(* A node that is added to a tree.                                         *)
LEMMA AddNode ==
  ASSUME NEW t, TreeOK(t), NEW s \in Node, s.kind # "root", s.parent \in t.live,
         s.datum \in 1..(Len(t.node) + 1), s.to \in 0..(Len(t.node) + 1),
         s.ns \in 0..(Len(t.node) + 1), s.kind \in UsesName => s.ref # <<>>,
         NEW links \in Seq(Nat),
         ToSet(links) \subseteq 1..(Len(t.node) + 1)
  PROVE  TreeOK([node |-> Append(t.node, s), live |-> t.live \cup {Len(t.node) + 1},
                 links |-> links])
<1> DEFINE N == Len(t.node)
           q == [node |-> Append(t.node, s), live |-> t.live \cup {N + 1}, links |-> links]
<1>1. /\ N \in Nat \ {0} /\ DOMAIN t.node = 1..N /\ t.node \in Seq(Node) /\ t.live \in SUBSET Nat
      /\ t.live \subseteq 1..N /\ Root \in t.live
  BY TreeHere DEF TreeOK
<1>2. /\ q.node \in Seq(Node) /\ Len(q.node) = N + 1 /\ DOMAIN q.node = 1..(N + 1)
      /\ \A n \in 1..N : q.node[n] = t.node[n]
      /\ q.node[N + 1] = s
  BY <1>1
<1>3. /\ q.live = t.live \cup {N + 1} /\ q.live \in SUBSET Nat /\ q.links = links
      /\ q \in [node : Seq(Node), live : SUBSET Nat, links : Seq(Nat)]
  BY <1>1, <1>2
<1> HIDE DEF q
<1>4. Forest(q.node)
  <2>1. ASSUME NEW n \in 2..(N + 1) PROVE q.node[n].parent \in 1..(n - 1)
    <3>1. CASE n = N + 1
      <4>1. s.parent \in 1..N
        BY <1>1
      <4> QED
        BY <3>1, <4>1, <1>2
    <3>2. CASE n # N + 1
      <4>1. n \in 1..N /\ n # 1
        <5> HIDE DEF N
        <5> QED
          BY <3>2, <1>1
      <4>3. n # Root /\ n \in DOMAIN t.node
        BY <4>1, <1>1 DEF Root
      <4>2. t.node[n].parent \in 1..(n - 1)
        BY <4>1, <4>3, TreeHere
      <4> QED
        BY <4>1, <4>2, <1>2
    <3> QED
      BY <3>1, <3>2
  <2>2. q.node[1].parent = 0
    BY <1>1, <1>2, TreeHere DEF Root
  <2>3. Len(q.node) = N + 1 /\ N + 1 \in Nat \ {0} /\ DOMAIN q.node = 1..(N + 1)
    BY <1>1, <1>2
  <2> HIDE DEF N
  <2> QED
    BY <2>1, <2>2, <2>3 DEF Forest
<1>5. \A n \in q.live \ {Root} : q.node[n].parent \in q.live
  BY <1>1, <1>2, <1>3, TreeHere
<1>6. TreeShape(q)
  BY <1>1, <1>2, <1>3, <1>4, <1>5 DEF TreeShape
<1>7. \A n \in DOMAIN q.node : (q.node[n].kind = "root") = (n = Root)
  <2> SUFFICES ASSUME NEW n \in 1..(N + 1) PROVE (q.node[n].kind = "root") = (n = Root)
    BY <1>2
  <2>1. CASE n = N + 1
    BY <2>1, <1>1, <1>2 DEF Root
  <2>2. CASE n \in 1..N
    <3>1. (t.node[n].kind = "root") = (n = Root)
      BY <2>2, <1>1 DEF TreeOK
    <3> QED
      BY <2>2, <3>1, <1>2
  <2> QED
    BY <2>1, <2>2, <1>1
<1>8. \A n \in DOMAIN q.node : /\ q.node[n].datum \in DOMAIN q.node
                               /\ {q.node[n].to, q.node[n].ns} \subseteq 0..Len(q.node)
                               /\ q.node[n].kind \in UsesName => q.node[n].ref # <<>>
  <2> SUFFICES ASSUME NEW n \in 1..(N + 1)
               PROVE  /\ q.node[n].datum \in 1..(N + 1)
                      /\ {q.node[n].to, q.node[n].ns} \subseteq 0..(N + 1)
                      /\ q.node[n].kind \in UsesName => q.node[n].ref # <<>>
    BY <1>2
  <2>1. CASE n = N + 1
    BY <2>1, <1>2
  <2>2. CASE n \in 1..N
    <3>1. /\ t.node[n].datum \in 1..N /\ t.node[n].to \in 0..N /\ t.node[n].ns \in 0..N
          /\ t.node[n].kind \in UsesName => t.node[n].ref # <<>>
      BY <2>2, <1>1 DEF TreeOK
    <3>2. q.node[n] = t.node[n]
      BY <2>2, <1>2
    <3> HIDE DEF N
    <3>3. q.node[n].datum \in 1..(N + 1) /\ {q.node[n].to, q.node[n].ns} \subseteq 0..(N + 1)
      <4>1. 1..N \subseteq 1..(N + 1) /\ 0..N \subseteq 0..(N + 1)
        BY <1>1
      <4> QED
        BY <3>1, <3>2, <4>1, Zenon
    <3> QED
      BY <3>1, <3>2, <3>3
  <2> QED
    BY <2>1, <2>2, <1>1
<1>9. ToSet(q.links) \subseteq DOMAIN q.node
  BY <1>2, <1>3
<1>10. TreeOK(q)
  BY <1>3, <1>6, <1>7, <1>8, <1>9 DEF TreeOK
<1> QED
  BY <1>10 DEF q

(* A subtree that is destroyed.                                            *)
LEMMA Destroyed ==
  ASSUME NEW t, TreeOK(t), NEW n \in t.live
  PROVE  LET q == DestroyKids(t, n)
         IN /\ TreeOK(q) /\ q.node = t.node /\ q.links = t.links
            /\ q.live = t.live \ Below(t, n) /\ n \in q.live
<1> DEFINE q == DestroyKids(t, n)
<1>1. /\ q.node = t.node /\ q.links = t.links /\ q.live = t.live \ Below(t, n)
      /\ q \in [node : Seq(Node), live : SUBSET Nat, links : Seq(Nat)]
  BY DEF DestroyKids, TreeOK
<1> HIDE DEF q
<1>2. \A m \in t.live : m \in DOMAIN t.node /\ m \in Nat
  BY TreeHere
<1>3. n \notin Below(t, n)
  BY <1>2, TreeHere, AboveBounds DEF Below
<1>4. Root \notin Below(t, n)
  <2>1. Above(t.node, Root) = {}
    BY TreeHere, AboveIs DEF Root
  <2> QED
    BY <2>1 DEF Below
<1>5. ASSUME NEW m \in q.live \ {Root} PROVE t.node[m].parent \in q.live
  <2>1. m \in t.live /\ n \notin Above(t.node, m) /\ t.node[m].parent \in t.live /\ m \in DOMAIN t.node
    BY <1>1, <1>2, <1>5, TreeHere DEF Below
  <2>2. Above(t.node, m) = {t.node[m].parent} \cup Above(t.node, t.node[m].parent)
    BY <2>1, <1>5, TreeHere, AboveIs DEF Root
  <2> QED
    BY <2>1, <2>2, <1>1 DEF Below
<1>6. TreeShape(q)
  BY <1>1, <1>4, <1>5 DEF TreeOK, TreeShape
<1>7. TreeOK(q)
  BY <1>1, <1>6 DEF TreeOK
<1> QED
  BY <1>1, <1>3, <1>7 DEF q
-----------------------------------------------------------------------------
(* Copying *)

(* What copying below dest has come to, after the nodes in DOMAIN c.to     *)
CopyInv(c, t, orig, dest) ==
  /\ c = [rc |-> c.rc, to |-> c.to, tree |-> c.tree]
  /\ c.rc \in {"ok", "err", "undefined"}
  /\ TreeOK(c.tree) /\ Grown(t, c.tree, dest)
  /\ orig \in DOMAIN c.to
  /\ \A m \in DOMAIN c.to : c.to[m] \in c.tree.live /\ (c.to[m] = dest \/ c.to[m] > Len(t.node))

(* A statement is copied or refused.                                       *)
LEMMA CopyRcIs ==
  ASSUME NEW t, NEW s, NEW p, NEW old
  PROVE  CopyRc(t, s, p, old) \in {"ok", "err", "undefined"}
BY DEF CopyRc

(* One node is copied below the copy of its parent.                        *)
LEMMA CopyStep ==
  ASSUME NEW t, TreeOK(t), NEW orig, NEW dest, NEW c, CopyInv(c, t, orig, dest),
         NEW n \in t.live \ {Root}, c.rc = "ok" => t.node[n].parent \in DOMAIN c.to
  PROVE  LET d == CopyNode(c, n)
         IN /\ CopyInv(d, t, orig, dest)
            /\ d.rc = "ok" => c.rc = "ok" /\ DOMAIN d.to = DOMAIN c.to \cup {n}
<1> DEFINE u    == c.tree
           N    == Len(u.node)
           s    == u.node[n]
           p    == c.to[s.parent]
           home == IF Sym(s.kind) = "none" THEN 0 ELSE Home(u.node, p)
           old  == IF home = 0 THEN 0 ELSE Get(u, home, Sym(s.kind), s.name)
           rc   == CopyRc(u, s, p, old)
           copy == CopyOf(s, p, home, IF old = 0 THEN N + 1 ELSE old)
           links == IF s.kind = "blockinherit" THEN Append(u.links, N + 1) ELSE u.links
           q    == [node |-> Append(u.node, copy), live |-> u.live \cup {N + 1}, links |-> links]
           e    == [rc |-> "ok", tree |-> q,
                    to |-> [m \in DOMAIN c.to \cup {n} |-> IF m = n THEN N + 1 ELSE c.to[m]]]
           d    == CopyNode(c, n)
<1>1. /\ c.rc # "ok" => d = c
      /\ c.rc = "ok" /\ rc # "ok" => d = [c EXCEPT !.rc = rc]
      /\ c.rc = "ok" /\ rc = "ok" => d = e
  BY DEF CopyNode
<1> SUFFICES CopyInv(d, t, orig, dest)
             /\ (d.rc = "ok" => c.rc = "ok" /\ DOMAIN d.to = DOMAIN c.to \cup {n})
  OBVIOUS
<1>2. CASE c.rc # "ok"
  BY <1>1, <1>2
<1>3. CASE c.rc = "ok" /\ rc # "ok"
  <2>1. rc \in {"ok", "err", "undefined"}
    BY CopyRcIs
  <2>2. d = [rc |-> rc, to |-> c.to, tree |-> c.tree]
    <3>1. c = [rc |-> c.rc, to |-> c.to, tree |-> c.tree]
      BY DEF CopyInv
    <3> HIDE DEF rc, d
    <3> QED
      BY <1>1, <1>3, <3>1
  <2> HIDE DEF d, rc
  <2> QED
    BY <2>1, <2>2, <1>3 DEF CopyInv
<1>4. CASE c.rc = "ok" /\ rc = "ok"
  <2>1. d = e
    BY <1>1, <1>4
  <2>2. TreeOK(u) /\ Grown(t, u, dest)
    BY DEF CopyInv
  <2>3. /\ N \in Nat \ {0} /\ DOMAIN u.node = 1..N /\ u.live \subseteq 1..N
        /\ n \in DOMAIN u.node /\ s = t.node[n] /\ s \in Node /\ s.kind # "root"
        /\ Len(t.node) \in Nat /\ DOMAIN t.node = 1..Len(t.node) /\ Len(t.node) <= N
    <3>1. n \in DOMAIN t.node /\ Len(t.node) \in Nat /\ DOMAIN t.node = 1..Len(t.node)
      BY TreeHere
    <3>2. N \in Nat \ {0} /\ DOMAIN u.node = 1..N /\ u.live \subseteq 1..N /\ Scoped(u.node)
      BY <2>2, TreeHere
    <3>3. n \in DOMAIN u.node /\ s = t.node[n] /\ Len(t.node) <= N
      BY <3>1, <3>2, <2>2 DEF Grown
    <3>4. s \in Node /\ s.kind # "root"
      BY <3>3, <2>2, TreeHere DEF TreeOK
    <3> QED
      BY <3>1, <3>2, <3>3, <3>4
  <2>4. p \in u.live /\ p \in DOMAIN u.node /\ (p = dest \/ p > Len(t.node))
    <3>1. s.parent \in DOMAIN c.to
      BY <2>3, <1>4
    <3> QED
      BY <3>1, <2>3 DEF CopyInv
  <2>5. home \in 0..N
    <3>1. Home(u.node, p) \in 1..N
      BY <2>2, <2>3, <2>4, HomeIs, TreeHere
    <3> HIDE DEF p
    <3> QED
      BY <3>1, <2>3
  <2>6. old \in 0..N
    <3>1. Get(u, home, Sym(s.kind), s.name) \in 0..N
      <4> HIDE DEF home, s
      <4>1. Get(u, home, Sym(s.kind), s.name) = 0 \/ Get(u, home, Sym(s.kind), s.name) \in 1..N
        BY <2>2, <2>3, GetIs
      <4> QED
        BY <4>1, <2>3
    <3> HIDE DEF home, s
    <3> QED
      BY <3>1, <2>3
  <2> HIDE DEF p, home, old
  <2>7. /\ copy \in Node /\ copy.kind = s.kind /\ copy.parent = p /\ copy.ns = home
        /\ copy.datum \in 1..(N + 1) /\ copy.to = s.to /\ copy.ref = s.ref
    <3> DEFINE m == IF old = 0 THEN N + 1 ELSE old
    <3>1. m \in 1..(N + 1) /\ p \in Nat /\ home \in Nat /\ m \in Nat
      BY <2>3, <2>4, <2>5, <2>6
    <3> HIDE DEF m, s, N
    <3>2. copy = [s EXCEPT !.parent = p, !.ns = home, !.datum = m]
      BY DEF CopyOf, m, s, N
    <3> HIDE DEF copy
    <3> QED
      BY <3>1, <3>2, <2>3 DEF Node
  <2>8. s.to \in 0..(N + 1)
    <3>1. s.to \in 0..N
      BY <2>2, <2>3 DEF TreeOK
    <3> HIDE DEF s
    <3> QED
      BY <3>1, <2>3
  <2>9. links \in Seq(Nat) /\ ToSet(links) \subseteq 1..(N + 1)
    <3>1. u.links \in Seq(Nat) /\ ToSet(u.links) \subseteq 1..N
      BY <2>2, <2>3 DEF TreeOK
    <3>2. ToSet(Append(u.links, N + 1)) \subseteq ToSet(u.links) \cup {N + 1}
      BY <3>1 DEF ToSet
    <3> HIDE DEF s, N
    <3> QED
      BY <3>1, <3>2, <2>3
  <2>10. TreeOK(q)
    <3>1. copy.kind # "root" /\ copy.parent \in u.live /\ copy.to \in 0..(N + 1) /\ copy.ns \in 0..(N + 1)
      <4> HIDE DEF copy, s, N
      <4>1. copy.kind # "root" /\ copy.parent \in u.live
        BY <2>3, <2>4, <2>5, <2>7
      <4>2. copy.to \in 0..(N + 1) /\ copy.ns \in 0..(N + 1)
        BY <2>3, <2>4, <2>5, <2>7, <2>8
      <4> QED
        BY <4>1, <4>2
    <3>2. copy.kind \in UsesName => copy.ref # <<>>
      <4>1. s.kind \in UsesName => s.ref # <<>>
        BY <2>2, <2>3 DEF TreeOK
      <4> HIDE DEF s, copy
      <4> QED
        BY <4>1, <2>7
    <3> HIDE DEF copy, links, u
    <3> QED
      BY <2>2, <2>7, <2>9, <3>1, <3>2, AddNode
  <2>11. /\ Len(q.node) = N + 1 /\ DOMAIN q.node = 1..(N + 1)
         /\ \A k \in 1..N : q.node[k] = u.node[k]
         /\ q.node[N + 1] = copy /\ q.live = u.live \cup {N + 1}
    <3>1. u.node \in Seq(Node)
      BY <2>2 DEF TreeOK
    <3> HIDE DEF copy, u, links
    <3> QED
      BY <3>1, <2>3
  <2>12. Grown(t, q, dest)
    <3> HIDE DEF q, copy, u, N
    <3>1. \A k \in DOMAIN t.node : q.node[k] = t.node[k] /\ (k \in q.live) = (k \in t.live)
      <4> SUFFICES ASSUME NEW k \in 1..Len(t.node)
                   PROVE  q.node[k] = t.node[k] /\ (k \in q.live) = (k \in t.live)
        BY <2>3
      <4>1. k \in 1..N /\ k # N + 1 /\ k \in DOMAIN t.node
        BY <2>3
      <4>2. u.node[k] = t.node[k] /\ (k \in u.live) = (k \in t.live)
        BY <4>1, <2>2 DEF Grown
      <4> QED
        BY <4>1, <4>2, <2>11
    <3>2. ASSUME NEW k \in DOMAIN q.node \ DOMAIN t.node
          PROVE  q.node[k].parent = dest \/ q.node[k].parent > Len(t.node)
      <4>1. k = N + 1 \/ k \in DOMAIN u.node \ DOMAIN t.node
        BY <2>3, <2>11, <3>2
      <4>2. k = N + 1 => q.node[k].parent = p
        BY <2>7, <2>11
      <4>3. k \in DOMAIN u.node => q.node[k] = u.node[k]
        BY <2>3, <2>11
      <4> QED
        BY <4>1, <4>2, <4>3, <2>2, <2>4 DEF Grown
    <3> QED
      BY <3>1, <3>2, <2>3, <2>11 DEF Grown
  <2>13. /\ e.rc = "ok" /\ e.tree = q /\ e = [rc |-> e.rc, to |-> e.to, tree |-> e.tree]
         /\ e.to = [m \in DOMAIN c.to \cup {n} |-> IF m = n THEN N + 1 ELSE c.to[m]]
    OBVIOUS
  <2>14. /\ DOMAIN e.to = DOMAIN c.to \cup {n}
         /\ \A m \in DOMAIN e.to : e.to[m] = IF m = n THEN N + 1 ELSE c.to[m]
    <3> HIDE DEF N, q, e
    <3> QED
      BY <2>13
  <2> HIDE DEF e, d, N, q, u
  <2>15. \A m \in DOMAIN e.to : e.to[m] \in q.live /\ (e.to[m] = dest \/ e.to[m] > Len(t.node))
    <3> SUFFICES ASSUME NEW m \in DOMAIN e.to
                 PROVE  e.to[m] \in q.live /\ (e.to[m] = dest \/ e.to[m] > Len(t.node))
      OBVIOUS
    <3>1. CASE m # n
      <4>1. c.to[m] \in u.live /\ (c.to[m] = dest \/ c.to[m] > Len(t.node))
        BY <3>1, <2>14 DEF CopyInv, u
      <4> QED
        BY <4>1, <3>1, <2>11, <2>14
    <3>2. CASE m = n
      <4>1. e.to[m] = N + 1
        BY <3>2, <2>14
      <4>2. N + 1 \in q.live /\ N + 1 > Len(t.node)
        BY <2>3, <2>11
      <4> QED
        BY <4>1, <4>2
    <3> QED
      BY <3>1, <3>2
  <2>16. orig \in DOMAIN e.to
    BY <2>14 DEF CopyInv
  <2>17. CopyInv(e, t, orig, dest)
    BY <2>10, <2>12, <2>13, <2>15, <2>16 DEF CopyInv
  <2> QED
    BY <2>1, <2>13, <2>14, <2>17, <1>4
<1> QED
  BY <1>2, <1>3, <1>4

(* What a copy has come to when it ends *)
CopyDone(c, t, dest) ==
  /\ c = [rc |-> c.rc, to |-> c.to, tree |-> c.tree]
  /\ c.rc \in {"ok", "err", "undefined", "diverges"}
  /\ TreeOK(c.tree) /\ Grown(t, c.tree, dest)

(* What a copy begins with, and the recursive function in CopyAst          *)
CopyStart(t, orig, dest) == [rc |-> "ok", to |-> [m \in {orig} |-> dest], tree |-> t]
IsCopied(f, k, t, orig, dest, todo) ==
  f = [i \in 0..k |-> IF i = 0 THEN CopyStart(t, orig, dest) ELSE CopyNode(f[i - 1], todo[i])]

(* It is there.                                                            *)
LEMMA CopiedExists ==
  ASSUME NEW t, NEW orig, NEW dest, NEW X, NEW todo \in Seq(X)
  PROVE  \E f : IsCopied(f, Len(todo), t, orig, dest, todo)
<1> DEFINE N == Len(todo)
           c0 == CopyStart(t, orig, dest)
           Is(f, k) == f = [i \in 0..k |-> IF i = 0 THEN c0 ELSE CopyNode(f[i - 1], todo[i])]
           S == {k \in 0..N : \E f : Is(f, k)}
<1>1. N \in Nat
  OBVIOUS
<1>2. 0 \in S
  <2>1. Is([i \in 0..0 |-> c0], 0)
    OBVIOUS
  <2>2. \E f : Is(f, 0)
    BY <2>1
  <2> HIDE DEF Is
  <2> QED
    BY <1>1, <2>2
<1>3. ASSUME NEW b \in 1..N, b - 1 \in S PROVE b \in S
  <2>1. PICK f : Is(f, b - 1)
    BY <1>3
  <2> DEFINE g == [i \in 0..b |-> IF i = b THEN CopyNode(f[b - 1], todo[b]) ELSE f[i]]
  <2>2. \A i \in 0..b : g[i] = IF i = 0 THEN c0 ELSE CopyNode(g[i - 1], todo[i])
    <3> SUFFICES ASSUME NEW i \in 0..b
                 PROVE  g[i] = IF i = 0 THEN c0 ELSE CopyNode(g[i - 1], todo[i])
      OBVIOUS
    <3>1. \A k \in 0..(b - 1) : g[k] = f[k]
      OBVIOUS
    <3>2. CASE i = b
      <4>1. g[i] = CopyNode(f[b - 1], todo[b]) /\ b - 1 \in 0..(b - 1)
        BY <3>2
      <4>2. g[i - 1] = f[b - 1]
        BY <3>1, <4>1, <3>2
      <4> HIDE DEF g, c0
      <4> QED
        BY <3>2, <4>1, <4>2
    <3>3. CASE i # b
      <4>1. i \in 0..(b - 1) /\ (i # 0 => i - 1 \in 0..(b - 1))
        BY <3>3
      <4>2. f[i] = IF i = 0 THEN c0 ELSE CopyNode(f[i - 1], todo[i])
        BY <4>1, <2>1
      <4> HIDE DEF g, c0
      <4> QED
        BY <3>1, <4>1, <4>2
    <3> QED
      BY <3>2, <3>3
  <2>3. Is(g, b)
    <3>1. g = [i \in 0..b |-> g[i]]
      OBVIOUS
    <3> HIDE DEF g, c0
    <3> QED
      BY <2>2, <3>1
  <2> HIDE DEF g
  <2>4. \E h : Is(h, b)
    BY <2>3
  <2> HIDE DEF Is
  <2> QED
    BY <2>4, <1>1
<1>4. N \in S
  <2> HIDE DEF S, N
  <2>1. \A k \in 0..N : (\A j \in 0..N : j < k => j \in S) => k \in S
    <3> SUFFICES ASSUME NEW k \in 0..N, \A j \in 0..N : j < k => j \in S PROVE k \in S
      OBVIOUS
    <3>1. k # 0 => k \in 1..N /\ k - 1 \in 0..N /\ k - 1 < k
      BY <1>1
    <3> QED
      BY <3>1, <1>2, <1>3
  <2>2. \A k \in 0..N : k \in S
    BY <2>1, <1>1, Complete
  <2> QED
    BY <2>2, <1>1
<1>5. PICK f : Is(f, N)
  BY <1>4
<1>6. IsCopied(f, N, t, orig, dest, todo)
  BY <1>5 DEF IsCopied
<1> QED
  BY <1>6

(* The nodes of a walk are copied one after the other.                     *)
LEMMA CopySeq ==
  ASSUME NEW t, TreeOK(t), NEW orig \in t.live, NEW dest \in t.live,
         NEW todo \in Seq(t.live), Follows(todo, Parents(t), orig),
         NEW copied, IsCopied(copied, Len(todo), t, orig, dest, todo)
  PROVE  CopyInv(copied[Len(todo)], t, orig, dest)
<1> DEFINE N == Len(todo)
           c0 == CopyStart(t, orig, dest)
<1>1. N \in Nat
  OBVIOUS
<1>2. \A k \in 0..N : copied[k] = IF k = 0 THEN c0 ELSE CopyNode(copied[k - 1], todo[k])
  BY DEF IsCopied
<1> DEFINE Good(k) == /\ CopyInv(copied[k], t, orig, dest)
                      /\ copied[k].rc = "ok" => DOMAIN copied[k].to = {orig} \cup {todo[j] : j \in 1..k}
           T == {k \in 0..N : Good(k)}
<1>6. Good(0)
  <2>1. copied[0] = c0
    <3> HIDE DEF c0
    <3> QED
      BY <1>2, <1>1
  <2>2. c0.rc = "ok" /\ c0.tree = t /\ DOMAIN c0.to = {orig} /\ c0.to[orig] = dest
        /\ c0 = [rc |-> c0.rc, to |-> c0.to, tree |-> c0.tree]
    BY DEF CopyStart
  <2>3. Grown(t, t, dest)
    BY TreeHere DEF Grown
  <2> HIDE DEF c0
  <2>4. CopyInv(c0, t, orig, dest)
    BY <2>2, <2>3 DEF CopyInv
  <2>5. {todo[j] : j \in 1..0} = {}
    OBVIOUS
  <2> QED
    BY <2>1, <2>2, <2>4, <2>5
<1>7. ASSUME NEW k \in 1..N, Good(k - 1) PROVE Good(k)
  <2>1. copied[k] = CopyNode(copied[k - 1], todo[k])
    <3> HIDE DEF c0
    <3> QED
      BY <1>2, <1>1
  <2>2. todo[k] \in t.live /\ k \in DOMAIN todo /\ todo[k] \in DOMAIN t.node
    BY TreeHere
  <2>3. t.node[todo[k]].parent = orig \/ \E j \in 1..(k - 1) : todo[j] = t.node[todo[k]].parent
    BY <2>2 DEF Follows, Parents
  <2>4. todo[k] # Root
    <3>1. orig # 0 /\ \A j \in 1..(k - 1) : todo[j] # 0
      BY TreeHere
    <3>2. t.node[Root].parent = 0
      BY TreeHere
    <3> QED
      BY <2>3, <3>1, <3>2
  <2> DEFINE c == copied[k - 1]
             n == todo[k]
  <2>5. c.rc = "ok" => t.node[n].parent \in DOMAIN c.to
    BY <1>7, <2>3
  <2>6. c.rc = "ok" => DOMAIN c.to = {orig} \cup {todo[j] : j \in 1..(k - 1)}
    BY <1>7
  <2>7. {todo[j] : j \in 1..k} = {todo[j] : j \in 1..(k - 1)} \cup {todo[k]}
    OBVIOUS
  <2>8. CopyInv(c, t, orig, dest) /\ n \in t.live \ {Root}
    BY <1>7, <2>2, <2>4
  <2> HIDE DEF c, n
  <2>9. LET d == CopyNode(c, n)
        IN /\ CopyInv(d, t, orig, dest)
           /\ d.rc = "ok" => c.rc = "ok" /\ DOMAIN d.to = DOMAIN c.to \cup {n}
    BY <2>5, <2>8, CopyStep
  <2>10. copied[k] = CopyNode(c, n)
    BY <2>1 DEF c, n
  <2> QED
    BY <2>6, <2>7, <2>9, <2>10 DEF n
<1>8. \A k \in 0..N : k \in T
  <2> HIDE DEF Good
  <2>1. \A k \in 0..N : (\A j \in 0..N : j < k => j \in T) => k \in T
    <3> SUFFICES ASSUME NEW k \in 0..N, \A j \in 0..N : j < k => j \in T PROVE k \in T
      OBVIOUS
    <3>1. k # 0 => k \in 1..N /\ k - 1 \in 0..N /\ k - 1 < k
      BY <1>1
    <3> QED
      BY <3>1, <1>6, <1>7
  <2> HIDE DEF T, N
  <2> QED
    BY <2>1, <1>1, Complete
<1>9. Good(N)
  <2> HIDE DEF Good
  <2> QED
    BY <1>1, <1>8
<1> QED
  BY <1>9

(* A beginning of a walk follows as well.                                  *)
LEMMA PrefixFollows ==
  ASSUME NEW X, NEW a \in Seq(X), NEW parent, NEW m, Follows(a, parent, m), NEW k \in 0..Len(a)
  PROVE  SubSeq(a, 1, k) \in Seq(X) /\ Follows(SubSeq(a, 1, k), parent, m)
<1> DEFINE b == SubSeq(a, 1, k)
<1>1. b \in Seq(X) /\ Len(b) = k /\ \A i \in 1..k : b[i] = a[i]
  OBVIOUS
<1>2. k <= Len(a) /\ k \in Nat
  OBVIOUS
<1> HIDE DEF b
<1>3. Follows(b, parent, m)
  <2> SUFFICES ASSUME NEW i \in 1..k
               PROVE  parent[b[i]] = m \/ \E j \in 1..(i - 1) : b[j] = parent[b[i]]
    BY <1>1 DEF Follows
  <2>1. i \in 1..Len(a) /\ b[i] = a[i] /\ \A j \in 1..(i - 1) : b[j] = a[j]
    BY <1>1, <1>2
  <2> QED
    BY <2>1 DEF Follows
<1> QED
  BY <1>1, <1>3 DEF b

(* A copy leaves a tree, which has grown below the place it was made for.  *)
LEMMA CopyIs ==
  ASSUME NEW t, TreeOK(t), NEW orig \in t.live, NEW dest \in t.live
  PROVE  CopyDone(CopyAst(t, orig, dest), t, dest)
<1>1. PICK flat \in Seq(t.live) : /\ Preorder(t, orig) = <<orig>> \o flat
                                  /\ Follows(flat, Parents(t), orig)
  <2>1. TreeShape(t) /\ orig \in DOMAIN t.node
    BY TreeHere DEF TreeOK
  <2> QED
    BY <2>1, PreorderIs
<1> DEFINE order == Tail(Preorder(t, orig))
           loops == dest \in ToSet(order)
           here == {i \in DOMAIN order : order[i] = dest}
           todo == IF loops THEN SubSeq(order, 1, Min(here) - 1) ELSE order
           copied == CHOOSE f : IsCopied(f, Len(todo), t, orig, dest, todo)
           c == copied[Len(todo)]
<1>2. order = flat
  BY <1>1
<1>3. CopyAst(t, orig, dest) = IF loops /\ c.rc = "ok" THEN [c EXCEPT !.rc = "diverges"] ELSE c
  BY DEF CopyAst, IsCopied, CopyStart
<1> HIDE DEF order
<1>4. todo \in Seq(t.live) /\ Follows(todo, Parents(t), orig)
  <2>2. loops => here # {}
    BY DEF ToSet
  <2>3. here # {} => Min(here) \in 1..Len(order)
    <3>1. here \in SUBSET Nat /\ here \subseteq 1..Len(order)
      BY <1>2
    <3> HIDE DEF here
    <3> QED
      BY <3>1, MinIn
  <2>4. loops => Min(here) - 1 \in 0..Len(order)
    <3> HIDE DEF here, loops
    <3> QED
      BY <2>2, <2>3
  <2> HIDE DEF loops, here
  <2> QED
    BY <1>1, <1>2, <2>4, PrefixFollows
<1>5. CopyInv(c, t, orig, dest)
  <2> HIDE DEF todo
  <2>1. \E f : IsCopied(f, Len(todo), t, orig, dest, todo)
    BY <1>4, CopiedExists
  <2>2. IsCopied(copied, Len(todo), t, orig, dest, todo)
    BY <2>1
  <2> HIDE DEF copied
  <2> QED
    BY <1>4, <2>2, CopySeq
<1> HIDE DEF c
<1>6. c.rc \in {"ok", "err", "undefined"} /\ TreeOK(c.tree) /\ Grown(t, c.tree, dest)
      /\ c = [rc |-> c.rc, to |-> c.to, tree |-> c.tree]
  BY <1>5 DEF CopyInv
<1>7. [c EXCEPT !.rc = "diverges"] = [rc |-> "diverges", to |-> c.to, tree |-> c.tree]
  BY <1>6
<1> QED
  BY <1>3, <1>6, <1>7 DEF CopyDone
-----------------------------------------------------------------------------
(* Names *)

Rc == {"ok", "enoent", "err", "undefined"}

(* A part of a name that is found has a node.                              *)
LEMMA NextPartIs ==
  ASSUME NEW t, TreeOK(t), NEW n, NEW sym, NEW parts, NEW r, NEW i,
         r = [rc |-> r.rc, scope |-> r.scope, datum |-> r.datum], r.rc \in Rc
  PROVE  LET d == NextPart(t, n, sym, parts, r, i)
         IN /\ d = [rc |-> d.rc, scope |-> d.scope, datum |-> d.datum] /\ d.rc \in Rc
            /\ i = Len(parts) /\ d.rc = "ok" => NodesOf(t, d.datum) # {}
<1> DEFINE e == Get(t, r.scope, IF i = Len(parts) THEN sym ELSE "blocks", parts[i])
           bad == t.node[NODE(t, e)].kind # "block" /\ t.node[n].kind # "in"
           scope == IF t.node[NODE(t, e)].kind = "optional" THEN t.node[NODE(t, e)].ns ELSE e
           d == NextPart(t, n, sym, parts, r, i)
<1>1. d = IF r.rc # "ok" THEN r
          ELSE IF e = 0 THEN [r EXCEPT !.rc = "enoent"]
          ELSE IF i = Len(parts) THEN [r EXCEPT !.datum = e]
          ELSE IF bad THEN [r EXCEPT !.rc = "err"]
          ELSE [r EXCEPT !.scope = scope]
  BY DEF NextPart
<1>2. e = 0 \/ NodesOf(t, e) # {}
  BY GetIs
<1> SUFFICES /\ d = [rc |-> d.rc, scope |-> d.scope, datum |-> d.datum] /\ d.rc \in Rc
             /\ i = Len(parts) /\ d.rc = "ok" => NodesOf(t, d.datum) # {}
  OBVIOUS
<1> HIDE DEF e, bad, scope, d
<1>3. CASE r.rc # "ok"
  BY <1>1, <1>3
<1>4. CASE r.rc = "ok" /\ e = 0
  <2>1. d = [rc |-> "enoent", scope |-> r.scope, datum |-> r.datum]
    BY <1>1, <1>4
  <2> QED
    BY <2>1 DEF Rc
<1>5. CASE r.rc = "ok" /\ e # 0 /\ i = Len(parts)
  <2>1. d = [rc |-> r.rc, scope |-> r.scope, datum |-> e]
    BY <1>1, <1>5
  <2> QED
    BY <2>1, <1>2, <1>5
<1>6. CASE r.rc = "ok" /\ e # 0 /\ i # Len(parts)
  <2>1. d = [rc |-> "err", scope |-> r.scope, datum |-> r.datum]
        \/ d = [rc |-> r.rc, scope |-> scope, datum |-> r.datum]
    BY <1>1, <1>6
  <2> QED
    BY <2>1, <1>6 DEF Rc
<1> QED
  BY <1>3, <1>4, <1>5, <1>6

(* What a name is resolved to has a node.                                  *)
LEMMA ResolveNameIs ==
  ASSUME NEW t, TreeOK(t), NEW n \in DOMAIN t.node, t.node[n].kind \in UsesName, NEW sym
  PROVE  LET r == ResolveName(t, n, sym)
         IN /\ r.rc \in Rc
            /\ r.rc = "ok" => NodesOf(t, r.datum) # {}
<1> DEFINE ref   == t.node[n].ref
           parts == IF ref[1] = "." THEN Tail(ref) ELSE ref
           search(s) == FromNode(t, t.node[n].parent, s, ref[1])
           first == search("blocks")
           start == IF ref[1] = "." THEN [rc |-> "ok", scope |-> Root, datum |-> 0]
                    ELSE Found(t, first, t.node[NODE(t, first)].ns)
           N == Len(parts)
           Is(f, k) == f = [i \in 0..k |-> IF i = 0 THEN start
                                           ELSE NextPart(t, n, sym, parts, f[i - 1], i)]
           after == CHOOSE f : Is(f, N)
           r == ResolveName(t, n, sym)
<1>1. r = IF Len(ref) = 1 THEN Found(t, search(sym), 0) ELSE after[N]
  BY DEF ResolveName
<1>2. ASSUME NEW d, NEW s
      PROVE  LET e == Found(t, d, s)
             IN /\ e = [rc |-> e.rc, scope |-> e.scope, datum |-> e.datum] /\ e.rc \in Rc
                /\ e.rc = "ok" => NodesOf(t, e.datum) # {}
  BY DEF Found, Rc
<1>3. CASE Len(ref) = 1
  <2> HIDE DEF r, ref
  <2>1. r = Found(t, search(sym), 0)
    BY <1>1, <1>3
  <2> HIDE DEF search
  <2>2. r.rc \in Rc /\ (r.rc = "ok" => NodesOf(t, r.datum) # {})
    BY <2>1, <1>2
  <2> QED
    BY <2>2 DEF r
<1>4. CASE Len(ref) # 1
  <2>1. ref \in Seq(Name \cup {"."}) /\ ref # <<>>
    <3>1. t.node[n] \in Node /\ t.node[n].ref # <<>>
      BY TreeHere DEF TreeOK
    <3> QED
      BY <3>1 DEF Node
  <2>2. \A s \in Seq(Name \cup {"."}) : s # <<>> /\ Len(s) # 1
          => Len(s) \in Nat \ {0} /\ Len(Tail(s)) \in Nat \ {0}
    OBVIOUS
  <2>3. N \in Nat /\ N # 0
    BY <2>1, <2>2, <1>4
  <2>4. start = [rc |-> start.rc, scope |-> start.scope, datum |-> start.datum] /\ start.rc \in Rc
    <3>1. ref[1] = "." => start = [rc |-> "ok", scope |-> Root, datum |-> 0]
      OBVIOUS
    <3>2. ref[1] # "." => start = Found(t, first, t.node[NODE(t, first)].ns)
      OBVIOUS
    <3> HIDE DEF start, first, ref
    <3> QED
      BY <3>1, <3>2, <1>2 DEF Rc
  <2> HIDE DEF r, start, parts, N
  <2> DEFINE S == {k \in 0..N : \E f : Is(f, k)}
  <2>5. 0 \in S
    <3>1. Is([i \in 0..0 |-> start], 0)
      OBVIOUS
    <3>2. \E f : Is(f, 0)
      BY <3>1
    <3> HIDE DEF Is
    <3> QED
      BY <2>3, <3>2
  <2>6. ASSUME NEW b \in 1..N, b - 1 \in S PROVE b \in S
    <3>0. b \in Nat /\ b >= 1
      BY <2>3
    <3>1. PICK f : Is(f, b - 1)
      BY <2>6
    <3> DEFINE next == NextPart(t, n, sym, parts, f[b - 1], b)
               g == [i \in 0..b |-> IF i = b THEN next ELSE f[i]]
    <3>2. \A i \in 0..b : g[i] = IF i = 0 THEN start ELSE NextPart(t, n, sym, parts, g[i - 1], i)
      <4> SUFFICES ASSUME NEW i \in 0..b
                   PROVE  g[i] = IF i = 0 THEN start ELSE NextPart(t, n, sym, parts, g[i - 1], i)
        OBVIOUS
      <4>1. (\A k \in 0..(b - 1) : g[k] = f[k]) /\ g[b] = next
        BY <3>0
      <4>2. CASE i = b
        <5>1. b - 1 \in 0..(b - 1) /\ i # 0
          BY <3>0, <4>2
        <5> HIDE DEF g
        <5> QED
          BY <4>1, <4>2, <5>1
      <4>3. CASE i # b
        <5>1. i \in 0..(b - 1) /\ (i # 0 => i - 1 \in 0..(b - 1))
          BY <3>0, <4>3
        <5>2. f[i] = IF i = 0 THEN start ELSE NextPart(t, n, sym, parts, f[i - 1], i)
          BY <5>1, <3>1
        <5> HIDE DEF g, next
        <5> QED
          BY <4>1, <5>1, <5>2
      <4> QED
        BY <4>2, <4>3
    <3>3. Is(g, b)
      <4>1. g = [i \in 0..b |-> g[i]]
        OBVIOUS
      <4> HIDE DEF g
      <4> QED
        BY <3>2, <4>1
    <3> HIDE DEF g
    <3>4. \E h : Is(h, b)
      BY <3>3
    <3> HIDE DEF Is
    <3> QED
      BY <3>4, <2>3
  <2>7. N \in S
    <3> HIDE DEF S
    <3>1. \A k \in 0..N : (\A j \in 0..N : j < k => j \in S) => k \in S
      <4> SUFFICES ASSUME NEW k \in 0..N, \A j \in 0..N : j < k => j \in S PROVE k \in S
        OBVIOUS
      <4>1. k # 0 => k \in 1..N /\ k - 1 \in 0..N /\ k - 1 < k
        BY <2>3
      <4> QED
        BY <4>1, <2>5, <2>6
    <3>2. \A k \in 0..N : k \in S
      BY <3>1, <2>3, Complete
    <3> QED
      BY <3>2, <2>3
  <2>8. Is(after, N)
    <3>1. \E f : Is(f, N)
      BY <2>7
    <3> HIDE DEF Is
    <3> QED
      BY <3>1
  <2>9. \A k \in 0..N : after[k] = IF k = 0 THEN start ELSE NextPart(t, n, sym, parts, after[k - 1], k)
    <3> HIDE DEF after
    <3> QED
      BY <2>8
  <2> HIDE DEF after
  <2> DEFINE Good(e, k) == /\ e = [rc |-> e.rc, scope |-> e.scope, datum |-> e.datum] /\ e.rc \in Rc
                           /\ k = N /\ e.rc = "ok" => NodesOf(t, e.datum) # {}
             T == {k \in 0..N : Good(after[k], k)}
  <2>10. Good(after[0], 0)
    <3>1. after[0] = start
      BY <2>9, <2>3
    <3> QED
      BY <3>1, <2>4, <2>3
  <2>11. ASSUME NEW k \in 1..N, Good(after[k - 1], k - 1) PROVE Good(after[k], k)
    <3> DEFINE u == after[k - 1]
    <3>1. after[k] = NextPart(t, n, sym, parts, u, k)
      BY <2>9, <2>3
    <3>2. u = [rc |-> u.rc, scope |-> u.scope, datum |-> u.datum] /\ u.rc \in Rc
      BY <2>11
    <3> HIDE DEF u
    <3>3. LET d == NextPart(t, n, sym, parts, u, k)
          IN /\ d = [rc |-> d.rc, scope |-> d.scope, datum |-> d.datum] /\ d.rc \in Rc
             /\ k = Len(parts) /\ d.rc = "ok" => NodesOf(t, d.datum) # {}
      BY <3>2, NextPartIs
    <3> QED
      BY <3>1, <3>3 DEF N
  <2>12. \A k \in 0..N : k \in T
    <3> HIDE DEF Good
    <3>1. \A k \in 0..N : (\A j \in 0..N : j < k => j \in T) => k \in T
      <4> SUFFICES ASSUME NEW k \in 0..N, \A j \in 0..N : j < k => j \in T PROVE k \in T
        OBVIOUS
      <4>1. k # 0 => k \in 1..N /\ k - 1 \in 0..N /\ k - 1 < k
        BY <2>3
      <4> QED
        BY <4>1, <2>10, <2>11
    <3> HIDE DEF T
    <3> QED
      BY <3>1, <2>3, Complete
  <2>13. Good(after[N], N)
    BY <2>3, <2>12
  <2>14. r = after[N]
    BY <1>1, <1>4
  <2> QED
    BY <2>13, <2>14 DEF r
<1> QED
  BY <1>3, <1>4
-----------------------------------------------------------------------------
(* Places in trees *)

(* The nodes above one of the tree are in the tree, the root among them.   *)
LEMMA AboveLive ==
  ASSUME NEW t, TreeOK(t), NEW n \in t.live
  PROVE  /\ Above(t.node, n) \subseteq t.live \cap 1..(n - 1)
         /\ n # Root => Root \in Above(t.node, n)
         /\ n = Root => Above(t.node, n) = {}
         /\ n # Root => Above(t.node, n) = Path(t.node, t.node[n].parent)
<1> DEFINE N == Len(t.node)
           Good(k) == Above(t.node, k) \subseteq t.live /\ (k # Root => Root \in Above(t.node, k))
           S == {k \in 0..N : k \in t.live => Good(k)}
<1>1. N \in Nat /\ DOMAIN t.node = 1..N /\ t.live \subseteq 1..N /\ Forest(t.node)
  BY TreeHere
<1>2. \A k \in t.live : /\ k # Root => Above(t.node, k) = {t.node[k].parent} \cup Above(t.node, t.node[k].parent)
                        /\ k = Root => Above(t.node, k) = {}
  BY <1>1, AboveIs DEF Root
<1>3. \A k \in 0..N : (\A j \in 0..N : j < k => j \in S) => k \in S
  <2> SUFFICES ASSUME NEW k \in 0..N, \A j \in 0..N : j < k => j \in S, k \in t.live PROVE Good(k)
    <3> HIDE DEF Good
    <3> QED
      OBVIOUS
  <2>1. CASE k = Root
    BY <2>1, <1>2
  <2>2. CASE k # Root
    <3> DEFINE u == t.node[k].parent
    <3>1. u \in t.live /\ u \in 1..(k - 1) /\ u \in 0..N /\ u < k
      BY <2>2, <1>1, TreeHere
    <3>2. Good(u)
      BY <3>1
    <3> QED
      BY <2>2, <3>1, <3>2, <1>2
  <2> QED
    BY <2>1, <2>2
<1>4. \A k \in 0..N : k \in S
  <2> HIDE DEF S, N
  <2> QED
    BY <1>1, <1>3, Complete
<1>5. Good(n)
  <2> HIDE DEF Good
  <2> QED
    BY <1>1, <1>4
<1>6. Above(t.node, n) \subseteq 1..(n - 1)
  BY <1>1, AboveBounds
<1> QED
  BY <1>2, <1>5, <1>6 DEF Path

(* q has the nodes of t, at the same places.                               *)
Kept(t, q) ==
  /\ TreeOK(q) /\ Len(t.node) <= Len(q.node)
  /\ \A k \in DOMAIN t.node : /\ q.node[k].kind = t.node[k].kind
                              /\ q.node[k].parent = t.node[k].parent
                              /\ q.node[k].datum = t.node[k].datum

(* Nothing changes above them.                                             *)
LEMMA KeptAbove ==
  ASSUME NEW t, TreeOK(t), NEW q, Kept(t, q)
  PROVE  /\ \A n \in DOMAIN t.node : Above(q.node, n) = Above(t.node, n)
         /\ DOMAIN t.node \subseteq DOMAIN q.node
<1> DEFINE a == t.node
           b == q.node
<1>1. Forest(a) /\ Forest(b) /\ Len(a) <= Len(b)
  BY TreeHere DEF Kept
<1>2. \A k \in DOMAIN a : b[k].parent = a[k].parent
  BY DEF Kept
<1> HIDE DEF a, b
<1>3. \A n \in DOMAIN a : Above(b, n) = Above(a, n)
  BY <1>1, <1>2, AboveStays
<1>4. DOMAIN a \subseteq DOMAIN b
  BY <1>1 DEF Forest
<1> QED
  BY <1>3, <1>4 DEF a, b

(* A tree keeps its own nodes, and one that has grown those it had.        *)
LEMMA GrownKept ==
  ASSUME NEW t, TreeOK(t)
  PROVE  /\ Kept(t, t)
         /\ \A q, dest : TreeOK(q) /\ Grown(t, q, dest) => Kept(t, q) /\ t.live \subseteq q.live
<1>1. Kept(t, t)
  BY TreeHere DEF Kept
<1>2. ASSUME NEW q, NEW dest, TreeOK(q), Grown(t, q, dest) PROVE Kept(t, q) /\ t.live \subseteq q.live
  BY <1>2, TreeHere DEF Kept, Grown
<1> QED
  BY <1>1, <1>2

(* All that has grown is below the place the copy was made for.            *)
LEMMA GrownBelow ==
  ASSUME NEW t, TreeOK(t), NEW q, TreeOK(q), NEW dest \in t.live, Grown(t, q, dest)
  PROVE  \A n \in DOMAIN q.node \ DOMAIN t.node : dest \in Above(q.node, n)
<1> DEFINE N == Len(q.node)
           Good(k) == k \in DOMAIN q.node \ DOMAIN t.node => dest \in Above(q.node, k)
           S == {k \in 0..N : Good(k)}
<1>1. /\ N \in Nat /\ DOMAIN q.node = 1..N /\ Forest(q.node)
      /\ Len(t.node) \in Nat \ {0} /\ DOMAIN t.node = 1..Len(t.node)
  BY TreeHere
<1>2. \A k \in 0..N : (\A j \in 0..N : j < k => j \in S) => k \in S
  <2> SUFFICES ASSUME NEW k \in 0..N, \A j \in 0..N : j < k => j \in S,
                      k \in DOMAIN q.node \ DOMAIN t.node
               PROVE  dest \in Above(q.node, k)
    OBVIOUS
  <2> DEFINE u == q.node[k].parent
  <2>1. k \in 2..N
    BY <1>1
  <2>2. u \in 1..(k - 1) /\ Above(q.node, k) = {u} \cup Above(q.node, u)
    <3>1. u \in 1..(k - 1)
      BY <2>1, <1>1 DEF Forest
    <3>2. k \in DOMAIN q.node /\ k # 1
      BY <2>1
    <3> QED
      BY <3>1, <3>2, <1>1, AboveIs
  <2>3. u = dest \/ u > Len(t.node)
    BY DEF Grown
  <2>4. u # dest => dest \in Above(q.node, u)
    <3>1. u # dest => u \in 0..N /\ u < k /\ u \in DOMAIN q.node \ DOMAIN t.node
      BY <2>1, <2>2, <2>3, <1>1
    <3> QED
      BY <3>1
  <2> QED
    BY <2>2, <2>4
<1>3. \A k \in 0..N : k \in S
  <2> HIDE DEF S, N
  <2> QED
    BY <1>1, <1>2, Complete
<1> QED
  BY <1>1, <1>3

(* A statement that is linked to what it names.                            *)
LEMMA Linked ==
  ASSUME NEW t, TreeOK(t), NEW n \in t.live, NEW e \in Node,
         e.kind = t.node[n].kind, e.parent = t.node[n].parent, e.datum = t.node[n].datum,
         e.ns = t.node[n].ns, e.ref = t.node[n].ref, e.to \in DOMAIN t.node,
         NEW links \in Seq(Nat), ToSet(links) \subseteq DOMAIN t.node
  PROVE  LET q == [node |-> [t.node EXCEPT ![n] = e], live |-> t.live, links |-> links]
         IN Kept(t, q) /\ q.live = t.live /\ Len(q.node) = Len(t.node)
<1> DEFINE N == Len(t.node)
           q == [node |-> [t.node EXCEPT ![n] = e], live |-> t.live, links |-> links]
<1>1. /\ N \in Nat \ {0} /\ DOMAIN t.node = 1..N /\ t.node \in Seq(Node) /\ t.live \in SUBSET Nat
      /\ n \in 1..N /\ Forest(t.node)
  BY TreeHere DEF TreeOK
<1>2. /\ q.node \in Seq(Node) /\ Len(q.node) = N /\ DOMAIN q.node = 1..N
      /\ \A k \in 1..N : q.node[k] = IF k = n THEN e ELSE t.node[k]
  BY <1>1
<1>3. /\ q.live = t.live /\ q.links = links
      /\ q \in [node : Seq(Node), live : SUBSET Nat, links : Seq(Nat)]
  BY <1>1, <1>2
<1> HIDE DEF q
<1>4. \A k \in 1..N : /\ q.node[k].kind = t.node[k].kind /\ q.node[k].parent = t.node[k].parent
                      /\ q.node[k].datum = t.node[k].datum /\ q.node[k].ns = t.node[k].ns
                      /\ q.node[k].ref = t.node[k].ref
                      /\ q.node[k].to \in 0..N
  <2>1. \A k \in 1..N : t.node[k].to \in 0..N
    BY <1>1 DEF TreeOK
  <2>2. e.to \in 0..N
    BY <1>1
  <2> HIDE DEF N
  <2> QED
    BY <1>2, <2>1, <2>2
<1>5. Forest(q.node)
  <2>1. t.node[1].parent = 0 /\ \A k \in 2..N : t.node[k].parent \in 1..(k - 1)
    BY <1>1 DEF Forest
  <2>2. q.node[1].parent = 0 /\ \A k \in 2..N : q.node[k].parent \in 1..(k - 1)
    <3>1. 1 \in 1..N /\ 2..N \subseteq 1..N
      BY <1>1
    <3>2. \A k \in 1..N : q.node[k].parent = t.node[k].parent
      BY <1>4
    <3> HIDE DEF N
    <3> QED
      BY <2>1, <3>1, <3>2
  <2> HIDE DEF N
  <2> QED
    BY <1>1, <1>2, <2>2 DEF Forest
<1>6. TreeShape(q)
  <2>1. Root \in t.live /\ t.live \subseteq 1..N /\ \A k \in t.live \ {Root} : t.node[k].parent \in t.live
    BY TreeHere
  <2> QED
    BY <1>2, <1>3, <1>4, <1>5, <2>1 DEF TreeShape
<1>7. \A k \in DOMAIN q.node : /\ (q.node[k].kind = "root") = (k = Root)
                               /\ q.node[k].datum \in DOMAIN q.node
                               /\ {q.node[k].to, q.node[k].ns} \subseteq 0..Len(q.node)
                               /\ q.node[k].kind \in UsesName => q.node[k].ref # <<>>
  <2> SUFFICES ASSUME NEW k \in 1..N
               PROVE  /\ (q.node[k].kind = "root") = (k = Root)
                      /\ q.node[k].datum \in 1..N
                      /\ {q.node[k].to, q.node[k].ns} \subseteq 0..N
                      /\ q.node[k].kind \in UsesName => q.node[k].ref # <<>>
    BY <1>2
  <2>1. /\ (t.node[k].kind = "root") = (k = Root)
        /\ t.node[k].datum \in 1..N /\ t.node[k].ns \in 0..N
        /\ t.node[k].kind \in UsesName => t.node[k].ref # <<>>
    BY <1>1 DEF TreeOK
  <2> HIDE DEF N
  <2> QED
    BY <2>1, <1>4
<1>8. TreeOK(q)
  BY <1>1, <1>2, <1>3, <1>6, <1>7 DEF TreeOK
<1>9. Kept(t, q)
  BY <1>1, <1>2, <1>4, <1>8 DEF Kept
<1> QED
  BY <1>2, <1>3, <1>9 DEF q
-----------------------------------------------------------------------------
(* The invariant *)

TypeInv ==
  /\ TreeOK(tree)
  /\ abstract \cup disabled \subseteq DOMAIN tree.node
  /\ status \in {"walk", "ins", "ok", "err", "undefined", "diverges"}
  /\ pass \in TIF..CALL1
  /\ cur \in tree.live
  /\ at \in {"visit", "down", "heirs", "over"}
  /\ at = "visit" => cur # Root
  /\ at = "heirs" => pass = BLKIN_COPY
  /\ status = "ins" => pass = PassIn /\ cur = Root /\ at = "over"
  /\ item \in Nat \ {0}
  /\ ins \in Seq(Nat)
  /\ \A i \in DOMAIN ins : ins[i] = 0 \/ (ins[i] \in DOMAIN tree.node /\ tree.node[ins[i]].kind = "in")
  /\ resolved \in BOOLEAN

(* A stack of the values that the nodes S have, innermost first            *)
IsStack(s, S, val) ==
  /\ Len(s) = Cardinality(S)
  /\ \A n \in S : s[Depth(n, S)] = val[n]

Data == [n \in DOMAIN tree.node |-> tree.node[n].datum]

(* What the checks of __cil_resolve_ast_node_helper let pass               *)
MayStand(n) ==
  /\ AboveKind(n, "optional") # {} => tree.node[n].kind \notin {"macro", "tunable"}
  /\ AboveKind(n, "booleanif") # {} => tree.node[n].kind \in {"cond", "rule", "call", "tunableif"}

PathTo(n) == Path(tree.node, n)

(* The walk has gone past the place where the paths to n and cur part      *)
Passed(n) ==
  \E a \in PathTo(n), b \in PathTo(cur) : tree.node[a].parent = tree.node[b].parent /\ a < b

(* ... or comes out of a node on the path to n                             *)
Left(n) == Passed(n) \/ (at = "over" /\ cur \in PathTo(n))

(* A macro that was copied into another, and left                          *)
LeftInner ==
  \E n \in tree.live : /\ tree.node[n].kind = "macro" /\ AboveKind(n, "macro") # {}
                       /\ AboveKind(n, "optional") = {} /\ Left(n)

ContextInv ==
  /\ optstack \in Seq(DOMAIN tree.node)
  /\ IsStack(optstack, AboveKind(cur, "optional"), Data)
  /\ callstack \in Seq(AboveKind(cur, "call"))
  /\ \A i, j \in 1..Len(callstack) : i < j => callstack[i] > callstack[j]
  /\ IsStack(callstack, AboveKind(cur, "call"), [n \in DOMAIN tree.node |-> n])
  /\ boolif \in {0} \cup AboveKind(cur, "booleanif")
  /\ AboveKind(cur, "booleanif") # {} => boolif # 0
  /\ macro \in {0} \cup AboveKind(cur, "macro")
  /\ AboveKind(cur, "macro") # {} => macro # 0 \/ LeftInner
  /\ \A n \in Above(tree.node, cur) \cup (IF at = "visit" THEN {} ELSE {cur}) : MayStand(n)

(* The nodes that the walk has looked at                                   *)
Seen(n) == Left(n) \/ n \in Above(tree.node, cur) \/ (n = cur /\ at # "visit")

NestingInv ==
  /\ pass = CALL1 => \A n \in tree.live : Reached(n) /\ Seen(n) => MayStand(n)
  /\ status = "ok" => NestingAllowed

ExpandInv == TypeInv /\ ContextInv /\ NestingInv
-----------------------------------------------------------------------------
(* The stacks *)

(* One more node, later than the others, lies on top of them.              *)
LEMMA DepthUp ==
  ASSUME NEW c \in Nat \ {0}, NEW S \in SUBSET (1..(c - 1))
  PROVE  /\ Cardinality(S) \in Nat /\ Cardinality(S \cup {c}) = Cardinality(S) + 1
         /\ Depth(c, S \cup {c}) = 1
         /\ \A n \in S : Depth(n, S) \in 1..Cardinality(S) /\ Depth(n, S \cup {c}) = Depth(n, S) + 1
<1>1. IsFiniteSet(S)
  <2>1. IsFiniteSet(1..(c - 1))
    BY FS_Interval
  <2> QED
    BY <2>1, FS_Subset
<1>2. c \notin S
  OBVIOUS
<1>3. Cardinality(S) \in Nat /\ Cardinality(S \cup {c}) = Cardinality(S) + 1
  BY <1>1, <1>2, FS_AddElement, FS_CardinalityType
<1>4. Depth(c, S \cup {c}) = 1
  <2>1. {m \in S \cup {c} : m >= c} = {c}
    <3>1. c >= c /\ \A m \in S : ~ (m >= c)
      OBVIOUS
    <3> QED
      BY <3>1
  <2> QED
    BY <2>1, FS_Singleton DEF Depth
<1>5. ASSUME NEW n \in S
      PROVE  Depth(n, S) \in 1..Cardinality(S) /\ Depth(n, S \cup {c}) = Depth(n, S) + 1
  <2> DEFINE D == {m \in S : m >= n}
  <2>1. IsFiniteSet(D) /\ Cardinality(D) <= Cardinality(S) /\ Cardinality(D) \in Nat
    BY <1>1, FS_Subset, FS_CardinalityType
  <2>2. n \in D /\ c \notin D
    BY <1>2
  <2>3. Cardinality(D) # 0
    <3> HIDE DEF D
    <3> QED
      BY <2>1, <2>2, FS_EmptySet
  <2>4. {m \in S \cup {c} : m >= n} = D \cup {c}
    OBVIOUS
  <2>5. Cardinality(D \cup {c}) = Cardinality(D) + 1
    <3> HIDE DEF D
    <3> QED
      BY <2>1, <2>2, FS_AddElement
  <2> QED
    BY <1>3, <2>1, <2>3, <2>4, <2>5 DEF Depth
<1> QED
  BY <1>3, <1>4, <1>5

(* It is pushed ...                                                        *)
LEMMA StackPush ==
  ASSUME NEW X, NEW s \in Seq(X), NEW c \in Nat \ {0}, NEW S \in SUBSET (1..(c - 1)), NEW val,
         IsStack(s, S, val), val[c] \in X
  PROVE  <<val[c]>> \o s \in Seq(X) /\ IsStack(<<val[c]>> \o s, S \cup {c}, val)
<1> DEFINE t == <<val[c]>> \o s
<1>1. /\ t \in Seq(X) /\ Len(t) = Len(s) + 1 /\ Len(s) \in Nat /\ t[1] = val[c]
      /\ \A i \in 1..Len(s) : t[i + 1] = s[i]
  OBVIOUS
<1>2. /\ Len(s) = Cardinality(S) /\ \A n \in S : s[Depth(n, S)] = val[n]
  BY DEF IsStack
<1> HIDE DEF t
<1>3. Len(t) = Cardinality(S \cup {c})
  BY <1>1, <1>2, DepthUp
<1>4. ASSUME NEW n \in S \cup {c} PROVE t[Depth(n, S \cup {c})] = val[n]
  <2>1. CASE n = c
    BY <2>1, <1>1, DepthUp
  <2>2. CASE n \in S
    <3>1. Depth(n, S) \in 1..Len(s) /\ Depth(n, S \cup {c}) = Depth(n, S) + 1
      BY <2>2, <1>2, DepthUp
    <3> QED
      BY <3>1, <1>1, <1>2, <2>2
  <2> QED
    BY <2>1, <2>2
<1>5. IsStack(t, S \cup {c}, val)
  BY <1>3, <1>4 DEF IsStack
<1> QED
  BY <1>1, <1>5 DEF t

(* ... and popped.                                                         *)
LEMMA StackPop ==
  ASSUME NEW X, NEW s \in Seq(X), NEW c \in Nat \ {0}, NEW S \in SUBSET (1..(c - 1)), NEW val,
         IsStack(s, S \cup {c}, val)
  PROVE  /\ s # <<>> /\ s[1] = val[c]
         /\ Tail(s) \in Seq(X) /\ IsStack(Tail(s), S, val)
<1>1. Len(s) = Cardinality(S) + 1 /\ Cardinality(S) \in Nat /\ s[1] = val[c]
  BY DepthUp DEF IsStack
<1>2. s # <<>>
  BY <1>1
<1> DEFINE t == Tail(s)
<1>3. t \in Seq(X) /\ Len(t) = Cardinality(S) /\ \A i \in 1..Len(t) : t[i] = s[i + 1]
  BY <1>1, <1>2
<1> HIDE DEF t
<1>4. ASSUME NEW n \in S PROVE t[Depth(n, S)] = val[n]
  <2>1. Depth(n, S) \in 1..Len(t) /\ Depth(n, S \cup {c}) = Depth(n, S) + 1
    BY <1>3, DepthUp
  <2>2. s[Depth(n, S \cup {c})] = val[n]
    BY DEF IsStack
  <2> QED
    BY <1>3, <2>1, <2>2
<1>5. IsStack(t, S, val)
  BY <1>3, <1>4 DEF IsStack
<1> QED
  BY <1>1, <1>2, <1>3, <1>5 DEF t
-----------------------------------------------------------------------------
(* Steps that leave the walk where it is *)

(* Such a step adds or destroys nodes below the place, may look at the     *)
(* node there, and passes it on.                                           *)
Stays ==
  /\ status \in {"walk", "ins"}
  /\ UNCHANGED <<pass, cur, optstack, callstack, boolif, macro>>
  /\ Kept(tree, tree') /\ cur \in tree'.live
  /\ \A n \in tree.live \ tree'.live : cur = Root \/ (at = "visit" /\ cur \in Above(tree.node, n))
  /\ abstract' \cup disabled' \subseteq DOMAIN tree.node
  /\ pass = CALL1 => /\ abstract' = abstract
                     /\ \A n \in tree'.live \ tree.live : /\ n \notin DOMAIN tree.node
                                                          /\ cur \in Above(tree'.node, n)
                                                          /\ at' = "down"
  /\ status' \in {"walk", "ins", "err", "undefined", "diverges"}
  /\ status' = "ins" => status = "ins" /\ at' = at
  /\ \/ at' = at
     \/ at = "visit" /\ ~Forbidden /\ at' \in {"down", "heirs"}
     \/ at = "visit" /\ ~Forbidden /\ at' = "over" /\ Skipped
     \/ at = "heirs" /\ at' = "down"
  /\ at' = "heirs" => pass = BLKIN_COPY
  /\ item' \in Nat \ {0} /\ resolved' \in BOOLEAN
  /\ ins' \in Seq(Nat)
  /\ \A i \in DOMAIN ins' : ins'[i] = 0 \/ (ins'[i] \in DOMAIN tree.node
                                            /\ tree.node[ins'[i]].kind = "in")

(* The steps that leave the tree as it is.                                 *)
LEMMA TreeUnchanged ==
  ASSUME TypeInv
  PROVE  tree' = tree => /\ Kept(tree, tree') /\ cur \in tree'.live
                         /\ \A n : n \in tree.live \ tree'.live => FALSE
                         /\ \A n : n \in tree'.live \ tree.live => FALSE
<1>1. TreeOK(tree) /\ cur \in tree.live
  BY DEF TypeInv
<1>2. Kept(tree, tree)
  BY <1>1, GrownKept
<1> QED
  BY <1>1, <1>2

(* A check fails, a subtree is left out, or there is nothing to do yet.    *)
LEMMA PlainStays ==
  ASSUME TypeInv, RejectNesting \/ SkipSubtree \/ PlainNode \/ VisitBlock
  PROVE  Stays
<1>1. tree' = tree /\ abstract' = abstract /\ disabled' = disabled /\ ins' = ins /\ resolved' = resolved
      /\ UNCHANGED <<pass, cur, optstack, callstack, boolif, macro>>
  BY DEF RejectNesting, SkipSubtree, PlainNode, VisitBlock, Handling, context
<1>2. status = "walk" /\ at = "visit" /\ status' \in {"walk", "err"} /\ item' \in Nat \ {0}
  BY DEF RejectNesting, SkipSubtree, PlainNode, VisitBlock, Handling, Visiting, TypeInv
<1>3. \/ at' = at
      \/ ~Forbidden /\ at' \in {"down", "heirs"}
      \/ ~Forbidden /\ at' = "over" /\ Skipped
  BY DEF RejectNesting, SkipSubtree, PlainNode, VisitBlock, Handling
<1>4. /\ Kept(tree, tree') /\ cur \in tree'.live
      /\ \A n : n \in tree.live \ tree'.live => FALSE
      /\ \A n : n \in tree'.live \ tree.live => FALSE
  BY <1>1, TreeUnchanged
<1>6. at' = "heirs" => pass = BLKIN_COPY
  BY <1>2 DEF RejectNesting, SkipSubtree, PlainNode, VisitBlock, Handling
<1>5. /\ abstract \cup disabled \subseteq DOMAIN tree.node /\ ins \in Seq(Nat) /\ resolved \in BOOLEAN
      /\ \A i \in DOMAIN ins : ins[i] = 0 \/ (ins[i] \in DOMAIN tree.node
                                              /\ tree.node[ins[i]].kind = "in")
  BY DEF TypeInv
<1> QED
  BY <1>1, <1>2, <1>3, <1>4, <1>5, <1>6 DEF Stays

(* The statement a pass deals with.                                        *)
LEMMA HandledIs ==
  ASSUME Handled
  PROVE  /\ pass = TIF => Me.kind = "tunableif"
         /\ pass = PassIn => Me.kind = "in"
         /\ pass = BLKIN_LINK => Me.kind = "blockinherit"
         /\ pass = BLKIN_COPY => Me.kind = "block"
         /\ pass = BLKABS => Me.kind = "blockabstract"
         /\ pass = MACRO => Me.kind = "call"
         /\ pass = CALL1 => Me.kind = "call"
<1>1. /\ TIF \notin {PassIn, BLKIN_LINK, BLKIN_COPY, BLKABS, MACRO, CALL1}
      /\ PassIn \notin {TIF, BLKIN_LINK, BLKIN_COPY, BLKABS, MACRO, CALL1}
      /\ BLKIN_LINK \notin {TIF, PassIn, BLKIN_COPY, BLKABS, MACRO, CALL1}
      /\ BLKIN_COPY \notin {TIF, PassIn, BLKIN_LINK, BLKABS, MACRO, CALL1}
      /\ BLKABS \notin {TIF, PassIn, BLKIN_LINK, BLKIN_COPY, MACRO, CALL1}
      /\ MACRO \notin {TIF, PassIn, BLKIN_LINK, BLKIN_COPY, BLKABS, CALL1}
      /\ CALL1 \notin {TIF, PassIn, BLKIN_LINK, BLKIN_COPY, BLKABS, MACRO}
  BY DEF TIF, PassIn, BLKIN_LINK, BLKIN_COPY, BLKABS, MACRO, CALL1
<1>2. pass = TIF => Me.kind = "tunableif"
  BY <1>1, Zenon DEF Handled
<1>3. pass = PassIn => Me.kind = "in"
  BY <1>1, Zenon DEF Handled
<1>4. pass = BLKIN_LINK => Me.kind = "blockinherit"
  BY <1>1, Zenon DEF Handled
<1>5. pass = BLKIN_COPY => Me.kind = "block"
  BY <1>1, Zenon DEF Handled
<1>6. pass = BLKABS => Me.kind = "blockabstract"
  BY <1>1, Zenon DEF Handled
<1>7. pass = MACRO => Me.kind = "call"
  BY <1>1, Zenon DEF Handled
<1>8. pass = CALL1 => Me.kind = "call"
  BY <1>1, Zenon DEF Handled
<1> QED
  BY <1>2, <1>3, <1>4, <1>5, <1>6, <1>7, <1>8

(* An in statement is put on the list.                                     *)
LEMMA GatherStays ==
  ASSUME TypeInv, GatherIn
  PROVE  Stays
<1>1. tree' = tree /\ abstract' = abstract /\ disabled' = disabled /\ resolved' = resolved
      /\ UNCHANGED <<pass, cur, optstack, callstack, boolif, macro>>
      /\ ins' = <<cur>> \o ins /\ Me.kind = "in" /\ pass = PassIn
      /\ status = "walk" /\ at = "visit" /\ status' = status /\ item' = item
      /\ ~Forbidden /\ at' = "down"
  <2>1. Handled /\ pass = PassIn
    BY DEF GatherIn, Handling
  <2>2. Me.kind = "in"
    BY <2>1, HandledIs
  <2> QED
    BY <2>1, <2>2 DEF GatherIn, Handling, Visiting, context
<1>2. /\ Kept(tree, tree') /\ cur \in tree'.live
      /\ \A n : n \in tree.live \ tree'.live => FALSE
      /\ \A n : n \in tree'.live \ tree.live => FALSE
  BY <1>1, TreeUnchanged
<1>3. /\ abstract \cup disabled \subseteq DOMAIN tree.node /\ ins \in Seq(Nat) /\ resolved \in BOOLEAN
      /\ \A i \in DOMAIN ins : ins[i] = 0 \/ (ins[i] \in DOMAIN tree.node
                                              /\ tree.node[ins[i]].kind = "in")
      /\ item \in Nat \ {0} /\ cur \in DOMAIN tree.node /\ cur \in Nat
  BY TreeHere DEF TypeInv
<1>4. ins' \in Seq(Nat) /\ \A i \in DOMAIN ins' : ins'[i] = cur \/ \E j \in DOMAIN ins : ins'[i] = ins[j]
  BY <1>1, <1>3
<1>5. \A i \in DOMAIN ins' : ins'[i] = 0 \/ (ins'[i] \in DOMAIN tree.node
                                             /\ tree.node[ins'[i]].kind = "in")
  BY <1>1, <1>3, <1>4 DEF Me
<1> QED
  BY <1>1, <1>2, <1>3, <1>4, <1>5 DEF Stays

(* A statement whose name cannot be resolved.                              *)
LEMMA FailStays ==
  ASSUME TypeInv, ContextInv, NEW p, Handling(p), NEW rc \in Rc, HandlerFails(rc),
         UNCHANGED <<abstract, pass, cur, item, context, ins, resolved>>
  PROVE  Stays
<1>1. /\ tree' = tree /\ abstract' = abstract /\ resolved' = resolved
      /\ UNCHANGED <<pass, cur, optstack, callstack, boolif, macro>> /\ ins' = ins /\ item' = item
      /\ status = "walk" /\ at = "visit" /\ ~Forbidden
  BY DEF HandlerFails, Handling, Visiting, context
<1>2. status' \in {"walk", "err", "undefined"} /\ at' \in {at, "down"}
  BY <1>1 DEF HandlerFails, Rc
<1>3. /\ abstract \cup disabled \subseteq DOMAIN tree.node /\ ins \in Seq(Nat) /\ resolved \in BOOLEAN
      /\ \A i \in DOMAIN ins : ins[i] = 0 \/ (ins[i] \in DOMAIN tree.node
                                              /\ tree.node[ins[i]].kind = "in")
      /\ item \in Nat \ {0}
  BY DEF TypeInv
<1>4. disabled' \subseteq DOMAIN tree.node
  <2>1. optstack \in Seq(DOMAIN tree.node)
    BY DEF ContextInv
  <2>2. optstack # <<>> => Head(optstack) \in DOMAIN tree.node
    BY <2>1
  <2> QED
    BY <1>3, <2>2 DEF HandlerFails
<1>5. /\ Kept(tree, tree') /\ cur \in tree'.live
      /\ \A n : n \in tree.live \ tree'.live => FALSE
      /\ \A n : n \in tree'.live \ tree.live => FALSE
  BY <1>1, TreeUnchanged
<1> QED
  BY <1>1, <1>2, <1>3, <1>4, <1>5 DEF Stays

(* Statement s, linked to datum d                                          *)
IsLinked(e, s, d) ==
  /\ e \in Node /\ e.kind = s.kind /\ e.parent = s.parent /\ e.datum = s.datum
  /\ e.ns = s.ns /\ e.ref = s.ref /\ e.to = d

(* Such a statement otherwise stays what it is.                            *)
LEMMA LinkedNode ==
  ASSUME NEW s \in Node, NEW d \in Nat
  PROVE  /\ IsLinked([s EXCEPT !.to = d], s, d)
         /\ IsLinked([s EXCEPT !.to = d, !.copied = TRUE], s, d)
<1>1. IsLinked([s EXCEPT !.to = d], s, d)
  BY DEF Node, IsLinked
<1>2. IsLinked([s EXCEPT !.to = d, !.copied = TRUE], s, d)
  BY DEF Node, IsLinked
<1> QED
  BY <1>1, <1>2

(* A blockinherit is linked.                                               *)
LEMMA LinkStays ==
  ASSUME TypeInv, ContextInv, LinkInherit
  PROVE  Stays
<1> DEFINE r == ResolveName(tree, cur, "blocks")
           rc == IF r.rc = "ok" /\ tree.node[NODE(tree, r.datum)].kind # "block"
                 THEN "err" ELSE r.rc
           e == [tree.node[cur] EXCEPT !.to = r.datum]
           links == Append(tree.links, cur)
           q == [node |-> [tree.node EXCEPT ![cur] = e], live |-> tree.live, links |-> links]
<1>1. /\ Handling(BLKIN_LINK)
      /\ UNCHANGED <<abstract, pass, cur, item, context, ins, resolved>>
      /\ \/ HandlerFails(rc)
         \/ /\ rc = "ok"
            /\ tree' = [tree EXCEPT !.node[cur].to = r.datum, !.links = Append(@, cur)]
            /\ at' = "down"
            /\ UNCHANGED <<disabled, status>>
  BY DEF LinkInherit
<1>2. pass = BLKIN_LINK /\ Me.kind = "blockinherit" /\ TreeOK(tree) /\ cur \in tree.live
      /\ cur \in DOMAIN tree.node /\ status = "walk" /\ at = "visit" /\ ~Forbidden
  BY <1>1, HandledIs, TreeHere DEF Handling, Visiting, TypeInv
<1>3. r.rc \in Rc /\ (r.rc = "ok" => NodesOf(tree, r.datum) # {})
  <2>1. tree.node[cur].kind \in UsesName
    BY <1>2 DEF Me, UsesName
  <2> QED
    BY <1>2, <2>1, ResolveNameIs
<1> HIDE DEF r
<1>4. rc \in Rc
  BY <1>3 DEF Rc
<1>5. CASE HandlerFails(rc)
  <2> HIDE DEF rc
  <2> QED
    BY <1>1, <1>4, <1>5, FailStays
<1>6. CASE /\ rc = "ok"
           /\ tree' = [tree EXCEPT !.node[cur].to = r.datum, !.links = Append(@, cur)]
           /\ at' = "down"
           /\ UNCHANGED <<disabled, status>>
  <2>1. r.datum \in DOMAIN tree.node
    BY <1>2, <1>3, <1>6, NodeOf
  <2>2. tree.node[cur] \in Node /\ Len(tree.node) \in Nat /\ DOMAIN tree.node = 1..Len(tree.node)
    BY <1>2, TreeHere
  <2>3. /\ e \in Node /\ e.kind = tree.node[cur].kind /\ e.parent = tree.node[cur].parent
        /\ e.datum = tree.node[cur].datum /\ e.ns = tree.node[cur].ns /\ e.ref = tree.node[cur].ref
        /\ e.to = r.datum
    <3>1. r.datum \in Nat
      BY <2>1, <2>2
    <3>2. IsLinked(e, tree.node[cur], r.datum)
      BY <2>2, <3>1, LinkedNode
    <3> HIDE DEF e
    <3> QED
      BY <3>2 DEF IsLinked
  <2>4. links \in Seq(Nat) /\ ToSet(links) \subseteq DOMAIN tree.node
    <3>1. tree.links \in Seq(Nat) /\ ToSet(tree.links) \subseteq DOMAIN tree.node /\ cur \in Nat
      BY <1>2, <2>2 DEF TreeOK
    <3>2. ToSet(links) \subseteq ToSet(tree.links) \cup {cur}
      BY <3>1 DEF ToSet
    <3> QED
      BY <3>1, <3>2, <1>2
  <2>5. tree' = q
    <3>1. tree = [node |-> tree.node, live |-> tree.live, links |-> tree.links]
      BY <1>2 DEF TreeOK
    <3> QED
      BY <1>6, <3>1
  <2>6. Kept(tree, q) /\ q.live = tree.live
    <3> HIDE DEF e, links
    <3> QED
      BY <1>2, <2>1, <2>3, <2>4, Linked
  <2> HIDE DEF q
  <2>7. /\ abstract \cup disabled \subseteq DOMAIN tree.node /\ ins \in Seq(Nat) /\ resolved \in BOOLEAN
        /\ \A i \in DOMAIN ins : ins[i] = 0 \/ (ins[i] \in DOMAIN tree.node
                                                /\ tree.node[ins[i]].kind = "in")
        /\ item \in Nat \ {0}
    BY DEF TypeInv
  <2>8. pass # CALL1
    BY <1>2 DEF BLKIN_LINK, CALL1
  <2> QED
    BY <1>1, <1>2, <1>6, <2>5, <2>6, <2>7, <2>8 DEF Stays, context
<1> QED
  BY <1>1, <1>5, <1>6

(* A block is marked abstract.                                             *)
LEMMA AbstractStays ==
  ASSUME TypeInv, ContextInv, MarkAbstract
  PROVE  Stays
<1> DEFINE r == ResolveName(tree, cur, "blocks")
           isBlock == tree.node[NODE(tree, r.datum)].kind = "block"
<1>1. /\ Handling(BLKABS)
      /\ UNCHANGED <<pass, cur, item, context, ins, resolved>>
      /\ \/ HandlerFails(r.rc) /\ UNCHANGED abstract
         \/ /\ r.rc = "ok"
            /\ abstract' = IF isBlock THEN abstract \cup {r.datum} ELSE abstract
            /\ at' = "down"
            /\ UNCHANGED <<tree, disabled, status>>
  BY DEF MarkAbstract
<1>2. pass = BLKABS /\ Me.kind = "blockabstract" /\ TreeOK(tree) /\ cur \in tree.live
      /\ cur \in DOMAIN tree.node /\ status = "walk" /\ at = "visit" /\ ~Forbidden
  BY <1>1, HandledIs, TreeHere DEF Handling, Visiting, TypeInv
<1>3. r.rc \in Rc /\ (r.rc = "ok" => NodesOf(tree, r.datum) # {})
  <2>1. tree.node[cur].kind \in UsesName
    BY <1>2 DEF Me, UsesName
  <2> QED
    BY <1>2, <2>1, ResolveNameIs
<1> HIDE DEF r, isBlock
<1>4. CASE HandlerFails(r.rc) /\ UNCHANGED abstract
  BY <1>1, <1>3, <1>4, FailStays
<1>5. CASE /\ r.rc = "ok"
           /\ abstract' = IF isBlock THEN abstract \cup {r.datum} ELSE abstract
           /\ at' = "down"
           /\ UNCHANGED <<tree, disabled, status>>
  <2>1. r.datum \in DOMAIN tree.node
    BY <1>2, <1>3, <1>5, NodeOf
  <2>2. /\ abstract \cup disabled \subseteq DOMAIN tree.node /\ ins \in Seq(Nat) /\ resolved \in BOOLEAN
        /\ \A i \in DOMAIN ins : ins[i] = 0 \/ (ins[i] \in DOMAIN tree.node
                                                /\ tree.node[ins[i]].kind = "in")
        /\ item \in Nat \ {0}
    BY DEF TypeInv
  <2>3. abstract' \cup disabled' \subseteq DOMAIN tree.node
    BY <1>5, <2>1, <2>2
  <2>4. pass # CALL1
    BY <1>2 DEF BLKABS, CALL1
  <2>5. /\ Kept(tree, tree') /\ cur \in tree'.live
        /\ \A n : n \in tree.live \ tree'.live => FALSE
    BY <1>5, TreeUnchanged
  <2> QED
    BY <1>1, <1>2, <1>5, <2>2, <2>3, <2>4, <2>5 DEF Stays, context
<1> QED
  BY <1>1, <1>4, <1>5

(* A call gets the body of its macro.                                      *)
LEMMA ExpandStays ==
  ASSUME TypeInv, ContextInv, ExpandCall
  PROVE  Stays
<1> DEFINE r == ResolveName(tree, cur, "blocks")
           m == NODE(tree, r.datum)
           rc == IF r.rc = "ok" /\ (\/ tree.node[m].kind # "macro"
                                    \/ Len(tree.node[m].params) # Len(Me.params))
                 THEN "err" ELSE r.rc
           e == [tree.node[cur] EXCEPT !.to = r.datum, !.copied = TRUE]
           t == [tree EXCEPT !.node[cur] = [@ EXCEPT !.to = r.datum, !.copied = TRUE]]
           q == [node |-> [tree.node EXCEPT ![cur] = e], live |-> tree.live, links |-> tree.links]
           c == IF Me.copied THEN [rc |-> "ok", tree |-> t] ELSE CopyAst(t, m, cur)
<1>1. /\ Handling(MACRO) \/ Handling(CALL1)
      /\ UNCHANGED <<abstract, pass, cur, item, context, ins, resolved>>
      /\ HandlerFails(rc) \/ (rc = "ok" /\ HandlerCopies(c))
  BY DEF ExpandCall
<1>2. pass \in {MACRO, CALL1} /\ Me.kind = "call" /\ TreeOK(tree) /\ cur \in tree.live
      /\ cur \in DOMAIN tree.node /\ status = "walk" /\ at = "visit" /\ ~Forbidden
  BY <1>1, HandledIs, TreeHere DEF Handling, Visiting, TypeInv
<1>3. r.rc \in Rc /\ (r.rc = "ok" => NodesOf(tree, r.datum) # {})
  <2>1. tree.node[cur].kind \in UsesName
    BY <1>2 DEF Me, UsesName
  <2> QED
    BY <1>2, <2>1, ResolveNameIs
<1> HIDE DEF r
<1>4. rc \in Rc
  BY <1>3 DEF Rc
<1>5. CASE HandlerFails(rc)
  <2> HIDE DEF rc
  <2> QED
    BY <1>1, <1>2, <1>4, <1>5, FailStays
<1>6. CASE rc = "ok" /\ HandlerCopies(c)
  <2>1. r.datum \in DOMAIN tree.node /\ m \in tree.live
    BY <1>2, <1>3, <1>6, NodeOf
  <2>2. tree.node[cur] \in Node /\ Len(tree.node) \in Nat /\ DOMAIN tree.node = 1..Len(tree.node)
    BY <1>2, TreeHere
  <2>3. /\ e \in Node /\ e.kind = tree.node[cur].kind /\ e.parent = tree.node[cur].parent
        /\ e.datum = tree.node[cur].datum /\ e.ns = tree.node[cur].ns /\ e.ref = tree.node[cur].ref
        /\ e.to = r.datum
    <3>1. r.datum \in Nat
      BY <2>1, <2>2
    <3>2. IsLinked(e, tree.node[cur], r.datum)
      BY <2>2, <3>1, LinkedNode
    <3> HIDE DEF e
    <3> QED
      BY <3>2 DEF IsLinked
  <2>4. tree.links \in Seq(Nat) /\ ToSet(tree.links) \subseteq DOMAIN tree.node
    BY <1>2 DEF TreeOK
  <2>5. t = q
    <3>1. tree = [node |-> tree.node, live |-> tree.live, links |-> tree.links]
      BY <1>2 DEF TreeOK
    <3> QED
      BY <3>1
  <2>6. Kept(tree, q) /\ q.live = tree.live /\ Len(q.node) = Len(tree.node)
    <3> HIDE DEF e
    <3> QED
      BY <1>2, <2>1, <2>3, <2>4, Linked
  <2>7. TreeOK(t) /\ Kept(tree, t) /\ t.live = tree.live /\ Len(t.node) = Len(tree.node)
    BY <2>5, <2>6 DEF Kept
  <2> HIDE DEF q, t, m, rc
  <2>8. /\ c.rc \in {"ok", "err", "undefined", "diverges"} /\ TreeOK(c.tree) /\ Grown(t, c.tree, cur)
    <3>1. CASE Me.copied
      <4>1. c.rc = "ok" /\ c.tree = t
        BY <3>1
      <4>2. Grown(t, t, cur)
        BY <2>7, TreeHere DEF Grown
      <4> QED
        BY <4>1, <4>2, <2>7
    <3>2. CASE ~Me.copied
      <4>1. CopyDone(CopyAst(t, m, cur), t, cur)
        BY <2>1, <2>7, <1>2, CopyIs
      <4> QED
        BY <3>2, <4>1 DEF CopyDone
    <3> QED
      BY <3>1, <3>2
  <2> HIDE DEF c
  <2>9. /\ abstract \cup disabled \subseteq DOMAIN tree.node /\ ins \in Seq(Nat) /\ resolved \in BOOLEAN
        /\ \A i \in DOMAIN ins : ins[i] = 0 \/ (ins[i] \in DOMAIN tree.node
                                                /\ tree.node[ins[i]].kind = "in")
        /\ item \in Nat \ {0}
    BY DEF TypeInv
  <2>10. disabled' = disabled
    BY <1>6 DEF HandlerCopies
  <2>11. CASE c.rc = "ok"
    <3>1. tree' = c.tree /\ at' = "down" /\ status' = "walk"
      BY <1>2, <1>6, <2>11 DEF HandlerCopies
    <3>2. Kept(t, c.tree) /\ t.live \subseteq c.tree.live
      BY <2>7, <2>8, GrownKept
    <3>3. Kept(tree, c.tree)
      BY <2>2, <2>7, <3>2, TreeHere DEF Kept
    <3>4. ASSUME NEW n \in c.tree.live \ tree.live
          PROVE  n \notin DOMAIN tree.node /\ cur \in Above(c.tree.node, n)
      <4>1. n \in DOMAIN c.tree.node /\ DOMAIN t.node = DOMAIN tree.node /\ n \notin t.live
        BY <2>7, <2>8, <2>2, TreeHere
      <4>2. n \notin DOMAIN t.node
        BY <4>1, <2>8 DEF Grown
      <4>3. cur \in Above(c.tree.node, n)
        BY <4>1, <4>2, <2>7, <2>8, <1>2, GrownBelow
      <4> QED
        BY <4>1, <4>2, <4>3
    <3> QED
      BY <1>1, <1>2, <2>7, <2>9, <2>10, <3>1, <3>2, <3>3, <3>4 DEF Stays, context
  <2>12. CASE c.rc # "ok"
    <3>1. tree' = tree /\ at' = at /\ status' \in {"err", "undefined", "diverges"}
      BY <1>6, <2>8, <2>12 DEF HandlerCopies
    <3>2. /\ Kept(tree, tree') /\ cur \in tree'.live
          /\ \A n : n \in tree.live \ tree'.live => FALSE
          /\ \A n : n \in tree'.live \ tree.live => FALSE
      BY <3>1, TreeUnchanged
    <3> QED
      BY <1>1, <1>2, <2>9, <2>10, <3>1, <3>2 DEF Stays, context
  <2> QED
    BY <2>11, <2>12
<1> QED
  BY <1>1, <1>5, <1>6

(* The branch of a tunableif moves, and the tunableif is emptied.          *)
LEMMA TunifStays ==
  ASSUME TypeInv, ContextInv, ResolveTunif
  PROVE  Stays
<1> DEFINE r == ResolveName(tree, cur, "tunables")
           value == tree.node[NODE(tree, r.datum)].val
           none == [rc |-> "ok", tree |-> tree]
           c == IF Branch(value) = {} THEN none
                ELSE CopyAst(tree, Max(Branch(value)), Me.parent)
           d == [c EXCEPT !.tree = DestroyKids(@, cur)]
<1>1. /\ Handling(TIF)
      /\ UNCHANGED <<abstract, pass, cur, item, context, ins, resolved>>
      /\ HandlerFails(r.rc) \/ (r.rc = "ok" /\ HandlerCopies(d))
  BY DEF ResolveTunif
<1>2. pass = TIF /\ Me.kind = "tunableif" /\ TreeOK(tree) /\ cur \in tree.live
      /\ cur \in DOMAIN tree.node /\ status = "walk" /\ at = "visit" /\ ~Forbidden
  BY <1>1, HandledIs, TreeHere DEF Handling, Visiting, TypeInv
<1>3. r.rc \in Rc
  <2>1. tree.node[cur].kind \in UsesName
    BY <1>2 DEF Me, UsesName
  <2> QED
    BY <1>2, <2>1, ResolveNameIs
<1> HIDE DEF r, value
<1>4. CASE HandlerFails(r.rc)
  BY <1>1, <1>3, <1>4, FailStays
<1>5. CASE HandlerCopies(d)
  <2>1. cur # Root /\ Me.parent \in tree.live
    BY <1>2, TreeHere DEF Me, TreeOK
  <2>2. /\ c.rc \in {"ok", "err", "undefined", "diverges"} /\ TreeOK(c.tree)
        /\ Grown(tree, c.tree, Me.parent)
        /\ d.rc = c.rc /\ d.tree = DestroyKids(c.tree, cur)
    <3>1. CASE Branch(value) = {}
      <4>1. c = [rc |-> "ok", tree |-> tree]
        BY <3>1
      <4>2. Grown(tree, tree, Me.parent)
        BY <1>2, TreeHere DEF Grown
      <4> HIDE DEF c
      <4> QED
        BY <4>1, <4>2, <1>2
    <3>2. CASE Branch(value) # {}
      <4> DEFINE m == Max(Branch(value))
      <4>1. Branch(value) \in SUBSET Nat /\ Branch(value) \subseteq tree.live
            /\ Len(tree.node) \in Nat /\ \A x \in Branch(value) : x <= Len(tree.node)
        BY <1>2, TreeHere DEF Branch, Kids
      <4>2. m \in tree.live
        BY <3>2, <4>1, MaxIn
      <4>3. c = CopyAst(tree, m, Me.parent)
        BY <3>2
      <4> HIDE DEF c, m
      <4>4. CopyDone(c, tree, Me.parent)
        BY <1>2, <2>1, <4>2, <4>3, CopyIs
      <4>5. c = [rc |-> c.rc, to |-> c.to, tree |-> c.tree]
        BY <4>4 DEF CopyDone
      <4>6. d.rc = c.rc /\ d.tree = DestroyKids(c.tree, cur)
        BY <4>5
      <4> QED
        BY <4>4, <4>6 DEF CopyDone
    <3> QED
      BY <3>1, <3>2
  <2> HIDE DEF c, d
  <2>3. /\ abstract \cup disabled \subseteq DOMAIN tree.node /\ ins \in Seq(Nat) /\ resolved \in BOOLEAN
        /\ \A i \in DOMAIN ins : ins[i] = 0 \/ (ins[i] \in DOMAIN tree.node
                                                /\ tree.node[ins[i]].kind = "in")
        /\ item \in Nat \ {0}
    BY DEF TypeInv
  <2>4. disabled' = disabled /\ pass # CALL1
    BY <1>2, <1>5 DEF HandlerCopies, TIF, CALL1
  <2>5. CASE c.rc = "ok"
    <3>1. tree' = DestroyKids(c.tree, cur) /\ at' = "down" /\ status' = "walk"
      BY <1>2, <1>5, <2>2, <2>5 DEF HandlerCopies
    <3>2. Kept(tree, c.tree) /\ tree.live \subseteq c.tree.live
      BY <1>2, <2>2, GrownKept
    <3>3. /\ TreeOK(tree') /\ tree'.node = c.tree.node /\ cur \in tree'.live
          /\ tree'.live = c.tree.live \ Below(c.tree, cur)
      BY <1>2, <2>2, <3>1, <3>2, Destroyed
    <3>4. Kept(tree, tree')
      BY <3>2, <3>3 DEF Kept
    <3>5. ASSUME NEW n \in tree.live \ tree'.live PROVE cur \in Above(tree.node, n)
      <4>1. cur \in Above(c.tree.node, n)
        BY <3>2, <3>3, <3>5 DEF Below
      <4>2. n \in DOMAIN tree.node
        BY <1>2, <3>5, TreeHere
      <4> QED
        BY <1>2, <3>2, <4>1, <4>2, KeptAbove
    <3> QED
      BY <1>1, <1>2, <2>3, <2>4, <3>1, <3>3, <3>4, <3>5 DEF Stays, context
  <2>6. CASE c.rc # "ok"
    <3>1. tree' = tree /\ at' = at /\ status' \in {"err", "undefined", "diverges"}
      BY <1>5, <2>2, <2>6 DEF HandlerCopies
    <3>2. /\ Kept(tree, tree') /\ cur \in tree'.live
          /\ \A n : n \in tree.live \ tree'.live => FALSE
          /\ \A n : n \in tree'.live \ tree.live => FALSE
      BY <3>1, TreeUnchanged
    <3> QED
      BY <1>1, <1>2, <2>3, <2>4, <3>1, <3>2 DEF Stays, context
  <2> QED
    BY <2>5, <2>6
<1> QED
  BY <1>1, <1>4, <1>5

(* A block is copied to one of its heirs.                                  *)
LEMMA HeirStays ==
  ASSUME TypeInv, CopyToHeir
  PROVE  Stays
<1> DEFINE heir == Heirs(Me.datum)[item]
           c == CopyAst(tree, cur, heir)
           rc == IF heir \in tree.live THEN c.rc ELSE "undefined"
<1>1. /\ status = "walk" /\ at = "heirs"
      /\ UNCHANGED <<abstract, disabled, pass, cur, context, ins, resolved>>
      /\ \/ at' = "down" /\ UNCHANGED <<tree, status, item>>
         \/ /\ IF rc = "ok" THEN tree' = c.tree /\ UNCHANGED status
               ELSE status' = rc /\ UNCHANGED tree
            /\ item' = item + 1
            /\ UNCHANGED at
  BY DEF CopyToHeir
<1>2. /\ abstract \cup disabled \subseteq DOMAIN tree.node /\ ins \in Seq(Nat) /\ resolved \in BOOLEAN
      /\ \A i \in DOMAIN ins : ins[i] = 0 \/ (ins[i] \in DOMAIN tree.node
                                              /\ tree.node[ins[i]].kind = "in")
      /\ item \in Nat \ {0} /\ TreeOK(tree) /\ cur \in tree.live /\ pass = BLKIN_COPY
  BY <1>1 DEF TypeInv
<1>3. pass # CALL1
  BY <1>2 DEF BLKIN_COPY, CALL1
<1>4. rc \in {"ok", "err", "undefined", "diverges"}
      /\ (rc = "ok" => Kept(tree, c.tree) /\ tree.live \subseteq c.tree.live)
  <2> HIDE DEF heir
  <2>1. heir \in tree.live => CopyDone(c, tree, heir)
    BY <1>2, CopyIs
  <2> HIDE DEF c
  <2>2. heir \in tree.live => /\ c.rc \in {"ok", "err", "undefined", "diverges"}
                              /\ Kept(tree, c.tree) /\ tree.live \subseteq c.tree.live
    BY <1>2, <2>1, GrownKept DEF CopyDone
  <2> QED
    BY <2>2
<1> HIDE DEF c, rc
<1>5. CASE tree' = tree
  <2>1. /\ Kept(tree, tree') /\ cur \in tree'.live
        /\ \A n : n \in tree.live \ tree'.live => FALSE
    BY <1>5, TreeUnchanged
  <2>2. status' \in {"walk", "err", "undefined", "diverges"} /\ item' \in Nat \ {0}
        /\ (at' = at \/ at' = "down")
    BY <1>1, <1>2, <1>4
  <2> QED
    BY <1>1, <1>2, <1>3, <2>1, <2>2 DEF Stays, context
<1>6. CASE rc = "ok" /\ tree' = c.tree /\ UNCHANGED <<status, at>> /\ item' = item + 1
  BY <1>1, <1>2, <1>3, <1>4, <1>6 DEF Stays, context
<1> QED
  BY <1>1, <1>5, <1>6

(* The body of an in statement moves.                                      *)
LEMMA InStays ==
  ASSUME TypeInv, ResolveIn
  PROVE  Stays
<1> DEFINE n == ins[item]
           r == ResolveName(tree, n, "blocks")
           dest == NODE(tree, r.datum)
           c == CopyAst(tree, n, dest)
<1>1. /\ status = "ins" /\ item <= Len(ins) /\ item' = item + 1
      /\ UNCHANGED <<abstract, disabled, pass, cur, at, optstack, callstack, boolif, macro>>
  BY DEF ResolveIn, context
<1>2. /\ abstract \cup disabled \subseteq DOMAIN tree.node /\ ins \in Seq(Nat) /\ resolved \in BOOLEAN
      /\ \A i \in DOMAIN ins : ins[i] = 0 \/ (ins[i] \in DOMAIN tree.node
                                              /\ tree.node[ins[i]].kind = "in")
      /\ item \in Nat \ {0} /\ TreeOK(tree) /\ cur \in tree.live /\ pass = PassIn
      /\ cur = Root /\ at = "over"
  BY <1>1 DEF TypeInv
<1>3. pass # CALL1 /\ item' \in Nat \ {0} /\ item \in DOMAIN ins
  BY <1>1, <1>2 DEF PassIn, CALL1
<1>4. \/ /\ status' \in {"ins", "undefined"} /\ tree' = tree /\ UNCHANGED <<ins, resolved>>
      \/ /\ n \in tree.live /\ n # 0 /\ r.rc \notin {"enoent", "err", "undefined"}
         /\ \/ c.rc # "ok" /\ status' = c.rc /\ UNCHANGED <<tree, ins, resolved>>
            \/ /\ c.rc = "ok" /\ tree' = DestroyKids(c.tree, n) /\ status' = status
               /\ ins' = [ins EXCEPT ![item] = 0] /\ resolved' = TRUE
  BY <1>1, TreeHere DEF ResolveIn
<1>5. CASE status' \in {"ins", "undefined"} /\ tree' = tree /\ UNCHANGED <<ins, resolved>>
  <2>1. /\ Kept(tree, tree') /\ cur \in tree'.live
        /\ \A m : m \in tree.live \ tree'.live => FALSE
    BY <1>5, TreeUnchanged
  <2> QED
    BY <1>1, <1>2, <1>3, <1>5, <2>1 DEF Stays
<1>6. CASE /\ n \in tree.live /\ n # 0 /\ r.rc \notin {"enoent", "err", "undefined"}
           /\ \/ c.rc # "ok" /\ status' = c.rc /\ UNCHANGED <<tree, ins, resolved>>
              \/ /\ c.rc = "ok" /\ tree' = DestroyKids(c.tree, n) /\ status' = status
                 /\ ins' = [ins EXCEPT ![item] = 0] /\ resolved' = TRUE
  <2>1. n \in DOMAIN tree.node /\ tree.node[n].kind \in UsesName
    BY <1>2, <1>3, <1>6 DEF UsesName
  <2> HIDE DEF n
  <2>2. r.rc \in Rc /\ (r.rc = "ok" => NodesOf(tree, r.datum) # {})
    BY <1>2, <2>1, ResolveNameIs
  <2> HIDE DEF r
  <2>3. r.rc = "ok" /\ dest \in tree.live
    BY <1>2, <1>6, <2>2, NodeOf DEF Rc
  <2>4. CopyDone(c, tree, dest)
    BY <1>2, <1>6, <2>3, CopyIs
  <2> HIDE DEF c
  <2>5. c.rc \in {"ok", "err", "undefined", "diverges"} /\ TreeOK(c.tree) /\ Kept(tree, c.tree)
        /\ tree.live \subseteq c.tree.live
    BY <1>2, <2>4, GrownKept DEF CopyDone
  <2>6. CASE c.rc # "ok" /\ status' = c.rc /\ UNCHANGED <<tree, ins, resolved>>
    <3>1. /\ Kept(tree, tree') /\ cur \in tree'.live
          /\ \A m : m \in tree.live \ tree'.live => FALSE
      BY <2>6, TreeUnchanged
    <3> QED
      BY <1>1, <1>2, <1>3, <2>5, <2>6, <3>1 DEF Stays
  <2>7. CASE /\ c.rc = "ok" /\ tree' = DestroyKids(c.tree, n) /\ status' = status
             /\ ins' = [ins EXCEPT ![item] = 0] /\ resolved' = TRUE
    <3>1. n \in c.tree.live
      BY <1>6, <2>5
    <3>2. TreeOK(tree') /\ tree'.node = c.tree.node
      BY <2>5, <2>7, <3>1, Destroyed
    <3>3. Kept(tree, tree')
      BY <2>5, <3>2 DEF Kept
    <3>4. Root \in tree'.live
      BY <3>2, TreeHere
    <3>5. ins' \in Seq(Nat) /\ DOMAIN ins' = DOMAIN ins
          /\ \A i \in DOMAIN ins : ins'[i] = 0 \/ ins'[i] = ins[i]
      <4>1. /\ [ins EXCEPT ![item] = 0] \in Seq(Nat)
            /\ \A i \in DOMAIN ins : [ins EXCEPT ![item] = 0][i] = IF i = item THEN 0 ELSE ins[i]
            /\ DOMAIN [ins EXCEPT ![item] = 0] = DOMAIN ins
        BY <1>2, <1>3
      <4> QED
        BY <2>7, <4>1
    <3> QED
      BY <1>1, <1>2, <1>3, <2>7, <3>3, <3>4, <3>5 DEF Stays
  <2> QED
    BY <1>6, <2>6, <2>7
<1> QED
  BY <1>4, <1>5, <1>6

(* What is known of the nodes around one stays.                            *)
LEMMA AroundStays ==
  ASSUME TypeInv, Kept(tree, tree')
  PROVE  /\ DOMAIN tree.node \subseteq DOMAIN tree'.node
         /\ \A n \in DOMAIN tree.node :
              /\ Above(tree'.node, n) = Above(tree.node, n)
              /\ Above(tree.node, n) \subseteq DOMAIN tree.node
              /\ PathTo(n)' = PathTo(n) /\ PathTo(n) \subseteq DOMAIN tree.node
              /\ \A kind : AboveKind(n, kind)' = AboveKind(n, kind)
              /\ MayStand(n)' <=> MayStand(n)
              /\ abstract' = abstract => (Reached(n)' <=> Reached(n))
<1>1. TreeOK(tree) /\ Forest(tree.node)
  BY TreeHere DEF TypeInv
<1>2. DOMAIN tree.node \subseteq DOMAIN tree'.node
  BY <1>1, KeptAbove
<1>3. \A k \in DOMAIN tree.node : /\ tree'.node[k].kind = tree.node[k].kind
                                  /\ tree'.node[k].datum = tree.node[k].datum
  BY DEF Kept
<1>4. ASSUME NEW n \in DOMAIN tree.node
      PROVE  /\ Above(tree'.node, n) = Above(tree.node, n)
             /\ Above(tree.node, n) \subseteq DOMAIN tree.node
             /\ PathTo(n)' = PathTo(n) /\ PathTo(n) \subseteq DOMAIN tree.node
             /\ \A kind : AboveKind(n, kind)' = AboveKind(n, kind)
             /\ MayStand(n)' <=> MayStand(n)
             /\ abstract' = abstract => (Reached(n)' <=> Reached(n))
  <2>1. Above(tree'.node, n) = Above(tree.node, n)
    BY <1>1, KeptAbove
  <2>2. Above(tree.node, n) \subseteq DOMAIN tree.node
    <3>1. Above(tree.node, n) \subseteq 1..(n - 1)
      BY <1>1, AboveBounds
    <3> QED
      BY <1>1, <3>1 DEF Forest
  <2>3. PathTo(n)' = PathTo(n) /\ PathTo(n) \subseteq DOMAIN tree.node
    BY <2>1, <2>2 DEF PathTo, Path
  <2>4. \A kind : AboveKind(n, kind)' = AboveKind(n, kind)
    BY <1>3, <2>1, <2>2 DEF AboveKind
  <2>5. MayStand(n)' <=> MayStand(n)
    BY <1>3, <2>4 DEF MayStand
  <2>6. abstract' = abstract => (Reached(n)' <=> Reached(n))
    BY <1>3, <2>1, <2>2 DEF Reached
  <2> QED
    BY <2>1, <2>2, <2>3, <2>4, <2>5, <2>6
<1> QED
  BY <1>2, <1>4

(* Types after such a step.                                                *)
LEMMA StaysTypes ==
  ASSUME TypeInv, Stays
  PROVE  TypeInv'
<1>1. DOMAIN tree.node \subseteq DOMAIN tree'.node
  BY AroundStays DEF Stays
<1>2. /\ TreeOK(tree') /\ cur' \in tree'.live /\ pass' \in TIF..CALL1
      /\ abstract' \cup disabled' \subseteq DOMAIN tree'.node
      /\ status' \in {"walk", "ins", "ok", "err", "undefined", "diverges"}
      /\ item' \in Nat \ {0} /\ ins' \in Seq(Nat) /\ resolved' \in BOOLEAN
  BY <1>1 DEF TypeInv, Stays, Kept
<1>3. \A i \in DOMAIN ins' : ins'[i] = 0 \/ (ins'[i] \in DOMAIN tree'.node
                                             /\ tree'.node[ins'[i]].kind = "in")
  BY <1>1 DEF Stays, Kept
<1>4. /\ at' \in {"visit", "down", "heirs", "over"} /\ (at' = "visit" => cur' # Root)
      /\ at' = "heirs" => pass' = BLKIN_COPY
      /\ status' = "ins" => pass' = PassIn /\ cur' = Root /\ at' = "over"
  BY DEF TypeInv, Stays
<1> QED
  BY <1>2, <1>3, <1>4 DEF TypeInv

(* The checks look at what is around the node.                             *)
LEMMA AllowedStands ==
  ASSUME TypeInv, ContextInv, ~Forbidden
  PROVE  MayStand(cur)
<1>1. /\ AboveKind(cur, "booleanif") # {} => boolif # 0
      /\ Len(optstack) = Cardinality(AboveKind(cur, "optional"))
      /\ optstack \in Seq(DOMAIN tree.node)
  BY DEF ContextInv, IsStack
<1>2. AboveKind(cur, "optional") # {} => optstack # <<>>
  <2>1. ASSUME optstack = <<>>, AboveKind(cur, "optional") # {} PROVE FALSE
    <3>1. Cardinality(AboveKind(cur, "optional")) = 0
      BY <1>1, <2>1
    <3>2. IsFiniteSet(AboveKind(cur, "optional"))
      <4>1. cur \in DOMAIN tree.node /\ Forest(tree.node) /\ cur \in Nat
        BY TreeHere DEF TypeInv
      <4>2. AboveKind(cur, "optional") \subseteq 1..(cur - 1)
        BY <4>1, AboveBounds DEF AboveKind
      <4>3. IsFiniteSet(1..(cur - 1))
        BY <4>1, FS_Interval
      <4> QED
        BY <4>2, <4>3, FS_Subset
    <3> QED
      BY <2>1, <3>1, <3>2, FS_EmptySet
  <2> QED
    BY <2>1
<1> QED
  BY <1>1, <1>2 DEF Forbidden, Me, MayStand

(* What the walk has passed stays passed.                                  *)
LEMMA PassedStays ==
  ASSUME TypeInv, Kept(tree, tree'), cur' = cur
  PROVE  \A n \in DOMAIN tree.node : Passed(n)' <=> Passed(n)
<1>1. cur \in DOMAIN tree.node
  BY TreeHere DEF TypeInv
<1> SUFFICES ASSUME NEW n \in DOMAIN tree.node PROVE Passed(n)' <=> Passed(n)
  OBVIOUS
<1>2. PathTo(n)' = PathTo(n) /\ PathTo(n) \subseteq DOMAIN tree.node
  BY AroundStays
<1>3. PathTo(cur)' = PathTo(cur) /\ PathTo(cur) \subseteq DOMAIN tree.node
  <2>1. Above(tree'.node, cur) = Above(tree.node, cur) /\ Above(tree.node, cur) \subseteq DOMAIN tree.node
    BY <1>1, AroundStays
  <2> QED
    BY <1>1, <2>1 DEF PathTo, Path
<1>4. \A k \in DOMAIN tree.node : tree'.node[k].parent = tree.node[k].parent
  BY DEF Kept
<1> QED
  BY <1>2, <1>3, <1>4 DEF Passed

(* The context of the walk after such a step.                              *)
LEMMA StaysContext ==
  ASSUME TypeInv, ContextInv, Stays
  PROVE  ContextInv'
<1>1. cur \in DOMAIN tree.node /\ cur' = cur /\ Kept(tree, tree')
      /\ DOMAIN tree.node \subseteq DOMAIN tree'.node /\ TreeOK(tree) /\ Forest(tree.node)
  BY AroundStays, TreeHere DEF TypeInv, Stays
<1>2. Above(tree'.node, cur') = Above(tree.node, cur) /\ Above(tree.node, cur) \subseteq DOMAIN tree.node
  BY <1>1, AroundStays
<1>3. \A k \in DOMAIN tree.node : /\ tree'.node[k].kind = tree.node[k].kind
                                  /\ tree'.node[k].datum = tree.node[k].datum
  BY <1>1 DEF Kept
<1>4. \A kind : AboveKind(cur, kind)' = AboveKind(cur, kind) /\ AboveKind(cur, kind) \subseteq DOMAIN tree.node
  BY <1>2, <1>3 DEF AboveKind
<1>5. /\ optstack' \in Seq(DOMAIN tree'.node)
      /\ IsStack(optstack', AboveKind(cur, "optional")', Data')
  <2>1. optstack \in Seq(DOMAIN tree.node) /\ IsStack(optstack, AboveKind(cur, "optional"), Data)
        /\ optstack' = optstack
    BY DEF ContextInv, Stays
  <2>2. \A n \in DOMAIN tree.node : Data'[n] = Data[n]
    BY <1>1, <1>3 DEF Data
  <2>3. optstack \in Seq(DOMAIN tree'.node)
    BY <1>1, <2>1
  <2>4. IsStack(optstack, AboveKind(cur, "optional"), Data')
    <3> DEFINE S == AboveKind(cur, "optional")
    <3>1. S \subseteq DOMAIN tree.node
      BY <1>4
    <3> HIDE DEF S
    <3> QED
      BY <2>1, <2>2, <3>1 DEF IsStack, S
  <2> QED
    BY <1>4, <2>1, <2>3, <2>4
<1>6. /\ callstack' \in Seq(AboveKind(cur, "call")')
      /\ \A i, j \in 1..Len(callstack') : i < j => callstack'[i] > callstack'[j]
      /\ IsStack(callstack', AboveKind(cur, "call")', [n \in DOMAIN tree'.node |-> n])
  <2>1. /\ callstack \in Seq(AboveKind(cur, "call")) /\ callstack' = callstack
        /\ \A i, j \in 1..Len(callstack) : i < j => callstack[i] > callstack[j]
        /\ IsStack(callstack, AboveKind(cur, "call"), [n \in DOMAIN tree.node |-> n])
    BY DEF ContextInv, Stays
  <2>2. IsStack(callstack, AboveKind(cur, "call"), [n \in DOMAIN tree'.node |-> n])
    <3> DEFINE S == AboveKind(cur, "call")
    <3>1. S \subseteq DOMAIN tree.node
      BY <1>4
    <3> HIDE DEF S
    <3> QED
      BY <1>1, <2>1, <3>1 DEF IsStack, S
  <2>3. AboveKind(cur, "call")' = AboveKind(cur, "call")
    BY <1>4
  <2> HIDE DEF AboveKind
  <2> QED
    BY <2>1, <2>2, <2>3
<1>7. /\ boolif' \in {0} \cup AboveKind(cur, "booleanif")'
      /\ AboveKind(cur, "booleanif")' # {} => boolif' # 0
      /\ macro' \in {0} \cup AboveKind(cur, "macro")'
  BY <1>4 DEF ContextInv, Stays
<1>8. AboveKind(cur, "macro")' # {} => macro' # 0 \/ LeftInner'
  <2> SUFFICES ASSUME AboveKind(cur, "macro") # {}, macro = 0 PROVE LeftInner'
    BY <1>4 DEF Stays
  <2>1. PICK k \in tree.live : /\ tree.node[k].kind = "macro" /\ AboveKind(k, "macro") # {}
                               /\ AboveKind(k, "optional") = {} /\ Left(k)
    BY DEF ContextInv, LeftInner
  <2>2. k \in DOMAIN tree.node
    BY <1>1, TreeHere
  <2>3. k \in tree'.live
    <3> SUFFICES ASSUME k \notin tree'.live PROVE FALSE
      OBVIOUS
    <3>1. cur = Root \/ (at = "visit" /\ cur \in Above(tree.node, k))
      BY DEF Stays
    <3>2. cur # Root
      <4>1. cur = Root => Above(tree.node, cur) = {}
        BY <1>1, AboveIs DEF Root
      <4> QED
        BY <4>1 DEF AboveKind
    <3>3. PICK a \in PathTo(k), b \in PathTo(cur) : tree.node[a].parent = tree.node[b].parent /\ a < b
      BY <2>1, <3>1, <3>2 DEF Left, Passed
    <3>4. b \in PathTo(k)
      BY <1>1, <2>2, <3>1, <3>2, <3>3, AboveBounds DEF PathTo, Path
    <3>5. a = b
      BY <1>1, <2>2, <3>3, <3>4, PathChild DEF PathTo
    <3>6. a \in Nat
      BY <1>1, <2>2, <3>3, AroundStays, TreeHere
    <3> QED
      BY <3>3, <3>5, <3>6
  <2>4. /\ tree'.node[k].kind = "macro" /\ AboveKind(k, "macro")' # {}
        /\ AboveKind(k, "optional")' = {}
    BY <1>1, <1>3, <2>1, <2>2, AroundStays
  <2>5. Left(k)'
    <3>1. Passed(k)' <=> Passed(k)
      BY <1>1, <2>2, PassedStays
    <3>2. at = "over" => at' = "over"
      BY DEF Stays
    <3>3. PathTo(k)' = PathTo(k)
      BY <1>1, <2>2, AroundStays
    <3> QED
      BY <1>1, <2>1, <3>1, <3>2, <3>3 DEF Left
  <2> QED
    BY <2>3, <2>4, <2>5 DEF LeftInner
<1>9. \A n \in Above(tree'.node, cur') \cup (IF at' = "visit" THEN {} ELSE {cur'}) : MayStand(n)'
  <2>1. \A n \in Above(tree.node, cur) \cup (IF at = "visit" THEN {} ELSE {cur}) : MayStand(n)
    BY DEF ContextInv
  <2>2. at' # "visit" => MayStand(cur)
    <3>1. at' # "visit" => at # "visit" \/ ~Forbidden
      BY DEF Stays
    <3> QED
      BY <2>1, <3>1, AllowedStands
  <2>3. \A n \in Above(tree'.node, cur') \cup (IF at' = "visit" THEN {} ELSE {cur'}) :
          n \in DOMAIN tree.node /\ MayStand(n)
    BY <1>1, <1>2, <2>1, <2>2
  <2> QED
    BY <1>1, <2>3, AroundStays
<1> QED
  BY <1>5, <1>6, <1>7, <1>8, <1>9 DEF ContextInv

(* What was seen may stand where it is, after such a step too.             *)
LEMMA StaysNesting ==
  ASSUME TypeInv, ContextInv, NestingInv, Stays
  PROVE  NestingInv'
<1>1. cur \in DOMAIN tree.node /\ cur \in tree.live /\ cur' = cur /\ Kept(tree, tree')
      /\ TreeOK(tree) /\ TreeOK(tree') /\ pass' = pass /\ status' # "ok"
  BY TreeHere DEF TypeInv, Stays, Kept
<1> SUFFICES ASSUME pass = CALL1, NEW n \in tree'.live, Reached(n)', Seen(n)' PROVE MayStand(n)'
  BY <1>1 DEF NestingInv
<1>2. abstract' = abstract
  BY DEF Stays
<1>3. Above(tree'.node, cur) = Above(tree.node, cur) /\ Above(tree.node, cur) \subseteq DOMAIN tree.node
  BY <1>1, AroundStays
<1>4. CASE n \in tree.live
  <2>1. n \in DOMAIN tree.node
    BY <1>1, <1>4, TreeHere
  <2>2. (MayStand(n)' <=> MayStand(n)) /\ Reached(n) /\ PathTo(n)' = PathTo(n)
    BY <1>1, <1>2, <2>1, AroundStays
  <2>3. Seen(n) => MayStand(n)
    BY <1>4, <2>2 DEF NestingInv
  <2>4. CASE Passed(n)'
    BY <1>1, <2>1, <2>2, <2>3, <2>4, PassedStays DEF Seen, Left
  <2>5. CASE at' = "over" /\ cur \in PathTo(n)
    <3>1. CASE at = "over"
      BY <3>1, <2>2, <2>3, <2>5 DEF Seen, Left
    <3>2. CASE at # "over"
      <4>1. ~Forbidden /\ Skipped
        BY <2>5, <3>2 DEF Stays
      <4>2. cur \notin Above(tree.node, n)
        BY <4>1, <2>2 DEF Skipped, Me, Reached
      <4>3. n = cur
        BY <4>2, <2>5 DEF PathTo, Path
      <4> QED
        BY <4>1, <4>3, <2>2, AllowedStands
    <3> QED
      BY <3>1, <3>2
  <2>6. CASE n \in Above(tree.node, cur)
    BY <2>2, <2>3, <2>6 DEF Seen
  <2>7. CASE n = cur /\ at' # "visit"
    <3>1. at # "visit" \/ ~Forbidden
      BY <2>7 DEF Stays
    <3>2. CASE at # "visit"
      BY <2>2, <2>3, <2>7, <3>2 DEF Seen
    <3>3. CASE ~Forbidden
      BY <2>2, <2>7, <3>3, AllowedStands
    <3> QED
      BY <3>1, <3>2, <3>3
  <2>8. \/ Passed(n)' \/ (at' = "over" /\ cur \in PathTo(n))
        \/ n \in Above(tree.node, cur) \/ (n = cur /\ at' # "visit")
    BY <1>1, <1>3, <2>2 DEF Seen, Left
  <2> QED
    BY <2>4, <2>5, <2>6, <2>7, <2>8
<1>5. CASE n \notin tree.live
  <2>1. n \notin DOMAIN tree.node /\ cur \in Above(tree'.node, n) /\ at' = "down"
    BY <1>5 DEF Stays
  <2>2. n \in DOMAIN tree'.node /\ Forest(tree'.node)
    BY <1>1, TreeHere
  <2>3. n # cur /\ n \notin Above(tree'.node, cur)
    BY <1>1, <1>3, <2>1
  <2>4. Passed(n)'
    BY <1>1, <2>1, <2>3 DEF Seen, Left
  <2>5. PICK a \in Path(tree'.node, n), b \in Path(tree'.node, cur) :
          tree'.node[a].parent = tree'.node[b].parent /\ a < b
    BY <1>1, <2>4 DEF Passed, PathTo
  <2>6. b \in Path(tree'.node, n)
    BY <2>1, <2>2, <2>5, AboveBounds DEF Path
  <2>7. a = b
    BY <2>2, <2>5, <2>6, PathChild
  <2>8. a \in Nat
    BY <2>2, <2>5, <1>1, AboveBounds, TreeHere DEF Path
  <2> QED
    BY <2>5, <2>7, <2>8
<1> QED
  BY <1>4, <1>5
-----------------------------------------------------------------------------
(* Steps of the walk *)

(* A child and what is around it.                                          *)
LEMMA KidIs ==
  ASSUME TypeInv, NEW u \in tree.live, NEW k \in Kids(tree, u)
  PROVE  /\ u \in DOMAIN tree.node /\ u \in Nat \ {0}
         /\ k \in tree.live /\ k \in DOMAIN tree.node /\ k \in Nat /\ k > u /\ k # Root
         /\ Above(tree.node, k) = {u} \cup Above(tree.node, u)
         /\ Above(tree.node, u) \subseteq 1..(u - 1)
         /\ PathTo(k) = {k} \cup PathTo(u)
         /\ \A kind : /\ AboveKind(u, kind) \in SUBSET (1..(u - 1))
                      /\ AboveKind(u, kind) \subseteq DOMAIN tree.node
                      /\ AboveKind(k, kind) = IF tree.node[u].kind = kind THEN AboveKind(u, kind) \cup {u}
                                              ELSE AboveKind(u, kind)
<1>1. TreeOK(tree) /\ Forest(tree.node)
  BY TreeHere DEF TypeInv
<1>2. u \in DOMAIN tree.node /\ u \in Nat \ {0} /\ k \in tree.live /\ k \in DOMAIN tree.node /\ k \in Nat
      /\ tree.node[k].parent = u
  BY <1>1, TreeHere DEF Kids
<1>3. k # Root
  BY <1>1, <1>2, TreeHere
<1>4. u \in 1..(k - 1)
  BY <1>1, <1>2, <1>3, TreeHere
<1>5. Above(tree.node, k) = {u} \cup Above(tree.node, u)
  BY <1>1, <1>2, <1>3, AboveIs DEF Root
<1>6. Above(tree.node, u) \subseteq 1..(u - 1)
  BY <1>1, <1>2, AboveBounds
<1>7. PathTo(k) = {k} \cup PathTo(u)
  BY <1>5 DEF PathTo, Path
<1>8. Above(tree.node, u) \subseteq DOMAIN tree.node
  BY <1>1, <1>2, <1>6 DEF Forest
<1>9. \A kind : /\ AboveKind(u, kind) \in SUBSET (1..(u - 1))
                /\ AboveKind(u, kind) \subseteq DOMAIN tree.node
                /\ AboveKind(k, kind) = IF tree.node[u].kind = kind THEN AboveKind(u, kind) \cup {u}
                                        ELSE AboveKind(u, kind)
  BY <1>5, <1>6, <1>8 DEF AboveKind
<1> QED
  BY <1>2, <1>3, <1>4, <1>5, <1>6, <1>7, <1>9

(* A sequence of some values is one of more.                               *)
LEMMA SeqWider ==
  ASSUME NEW X, NEW S \in SUBSET X, NEW s \in Seq(S)
  PROVE  s \in Seq(X)
<1>1. Len(s) \in Nat /\ s = [i \in 1..Len(s) |-> s[i]] /\ \A i \in 1..Len(s) : s[i] \in X
  OBVIOUS
<1>2. s \in [1..Len(s) -> X]
  BY <1>1
<1> QED
  BY <1>1, <1>2

(* A call is pushed onto a stack of calls, and popped.                     *)
LEMMA CallsUp ==
  ASSUME NEW c \in Nat \ {0}, NEW S \in SUBSET (1..(c - 1)), NEW s
  PROVE  /\ (/\ s \in Seq(S)
             /\ \A i, j \in 1..Len(s) : i < j => s[i] > s[j])
            => (/\ <<c>> \o s \in Seq(S \cup {c})
                /\ \A i, j \in 1..Len(<<c>> \o s) : i < j => (<<c>> \o s)[i] > (<<c>> \o s)[j])
         /\ (/\ s \in Seq(S \cup {c}) /\ s # <<>> /\ s[1] = c
             /\ \A i, j \in 1..Len(s) : i < j => s[i] > s[j])
            => (/\ Tail(s) \in Seq(S)
                /\ \A i, j \in 1..Len(Tail(s)) : i < j => Tail(s)[i] > Tail(s)[j])
<1>1. ASSUME s \in Seq(S), \A i, j \in 1..Len(s) : i < j => s[i] > s[j]
      PROVE  /\ <<c>> \o s \in Seq(S \cup {c})
             /\ \A i, j \in 1..Len(<<c>> \o s) : i < j => (<<c>> \o s)[i] > (<<c>> \o s)[j]
  <2> DEFINE t == <<c>> \o s
  <2>1. s \in Seq(S \cup {c})
    BY <1>1
  <2>2. /\ t \in Seq(S \cup {c}) /\ Len(t) = Len(s) + 1 /\ Len(s) \in Nat /\ t[1] = c
        /\ \A i \in 1..Len(s) : t[i + 1] = s[i] /\ s[i] \in S
    BY <1>1, <2>1
  <2> HIDE DEF t
  <2>3. \A i \in 2..Len(t) : i - 1 \in 1..Len(s) /\ t[i] = s[i - 1] /\ t[i] \in S
    <3> SUFFICES ASSUME NEW i \in 2..Len(t)
                 PROVE  i - 1 \in 1..Len(s) /\ t[i] = s[i - 1] /\ t[i] \in S
      OBVIOUS
    <3>1. i - 1 \in 1..Len(s) /\ (i - 1) + 1 = i
      BY <2>2
    <3>2. t[(i - 1) + 1] = s[i - 1] /\ s[i - 1] \in S
      BY <2>2, <3>1
    <3> QED
      BY <3>1, <3>2
  <2>4. ASSUME NEW i \in 1..Len(t), NEW j \in 1..Len(t), i < j PROVE t[i] > t[j]
    <3>1. j \in 2..Len(t) /\ (i = 1 \/ i \in 2..Len(t))
      BY <2>2, <2>4
    <3>2. CASE i = 1
      <4>1. t[j] \in 1..(c - 1)
        BY <2>3, <3>1
      <4> QED
        BY <4>1, <3>2, <2>2
    <3>3. CASE i \in 2..Len(t)
      <4>1. i - 1 < j - 1 /\ i - 1 \in 1..Len(s) /\ j - 1 \in 1..Len(s)
        BY <2>2, <2>3, <2>4, <3>1, <3>3
      <4> QED
        BY <4>1, <1>1, <2>3, <3>1, <3>3
    <3> QED
      BY <3>1, <3>2, <3>3
  <2> QED
    BY <2>2, <2>4 DEF t
<1>2. ASSUME s \in Seq(S \cup {c}), s # <<>>, s[1] = c, \A i, j \in 1..Len(s) : i < j => s[i] > s[j]
      PROVE  /\ Tail(s) \in Seq(S)
             /\ \A i, j \in 1..Len(Tail(s)) : i < j => Tail(s)[i] > Tail(s)[j]
  <2> DEFINE t == Tail(s)
  <2>1. /\ t \in Seq(S \cup {c}) /\ Len(t) = Len(s) - 1 /\ Len(s) \in Nat /\ Len(t) \in Nat
        /\ \A i \in 1..Len(t) : t[i] = s[i + 1] /\ s[i + 1] \in S \cup {c}
    BY <1>2
  <2> HIDE DEF t
  <2>2. \A i \in 1..Len(t) : t[i] = s[i + 1] /\ i + 1 \in 1..Len(s) /\ 1 \in 1..Len(s) /\ 1 < i + 1
    BY <2>1
  <2>3. \A i \in 1..Len(t) : t[i] \in S
    <3> SUFFICES ASSUME NEW i \in 1..Len(t) PROVE t[i] \in S
      OBVIOUS
    <3>1. s[1] > s[i + 1]
      BY <1>2, <2>2
    <3>2. t[i] # c
      BY <3>1, <1>2, <2>2
    <3> QED
      BY <3>2, <2>1, <2>2
  <2>4. t \in Seq(S)
    <3>1. t \in [1..Len(t) -> S]
      <4>1. t = [i \in 1..Len(t) |-> t[i]]
        BY <2>1
      <4> QED
        BY <4>1, <2>3
    <3> QED
      BY <3>1, <2>1
  <2>5. \A i, j \in 1..Len(t) : i < j => t[i] > t[j]
    <3> SUFFICES ASSUME NEW i \in 1..Len(t), NEW j \in 1..Len(t), i < j PROVE t[i] > t[j]
      OBVIOUS
    <3>1. s[i + 1] > s[j + 1]
      BY <1>2, <2>2
    <3> QED
      BY <3>1, <2>2
  <2> QED
    BY <2>4, <2>5 DEF t
<1> QED
  BY <1>1, <1>2

(* The macro that was left inside of another is still there.               *)
LEMMA LeftInnerMoves ==
  ASSUME TypeInv, LeftInner, Kept(tree, tree'),
         \A n \in tree.live : Left(n) => Left(n)',
         \A n \in tree.live : AboveKind(n, "optional") = {} => n \in tree'.live
  PROVE  LeftInner'
<1>1. PICK k \in tree.live : /\ tree.node[k].kind = "macro" /\ AboveKind(k, "macro") # {}
                             /\ AboveKind(k, "optional") = {} /\ Left(k)
  BY DEF LeftInner
<1>2. k \in DOMAIN tree.node
  BY TreeHere DEF TypeInv
<1>3. /\ AboveKind(k, "macro")' # {} /\ AboveKind(k, "optional")' = {}
      /\ tree'.node[k].kind = "macro"
  BY <1>1, <1>2, AroundStays DEF Kept
<1> QED
  BY <1>1, <1>3 DEF LeftInner

(* The walk stays in the tree that there is.                               *)
LEMMA WalkTypes ==
  ASSUME TypeInv, tree' = tree, cur' \in tree.live,
         UNCHANGED <<abstract, disabled, item, ins, resolved>>,
         status' \in {"walk", "ok", "err"}, pass' \in TIF..CALL1,
         at' \in {"visit", "down", "over"}, at' = "visit" => cur' # Root
  PROVE  TypeInv'
BY DEF TypeInv

(* Down to the first child, or over the node if there is none.             *)
LEMMA DownKeeps ==
  ASSUME ExpandInv, GoDown
  PROVE  ExpandInv'
<1>1. TypeInv /\ ContextInv /\ NestingInv /\ TreeOK(tree) /\ Forest(tree.node)
      /\ cur \in tree.live /\ cur \in DOMAIN tree.node
  BY TreeHere DEF ExpandInv, TypeInv
<1>2. /\ status = "walk" /\ at = "down" /\ tree' = tree
      /\ UNCHANGED <<abstract, disabled, pass, item, ins, resolved>>
  BY DEF GoDown
<1>3. Kept(tree, tree')
  BY <1>1, <1>2, TreeUnchanged
<1>4. pass' \in TIF..CALL1
  BY <1>1, <1>2 DEF TypeInv
<1>5. CASE Kids(tree, cur) = {}
  <2>1. at' = "over" /\ UNCHANGED <<status, cur, optstack, callstack, boolif, macro>>
    BY <1>5 DEF GoDown, context
  <2>2. TypeInv'
    BY <1>1, <1>2, <1>4, <2>1, WalkTypes
  <2>3. \A n : Passed(n)' <=> Passed(n)
    BY <1>2, <2>1 DEF Passed, PathTo
  <2>4. ContextInv'
    <3>1. LeftInner => LeftInner'
      <4>1. \A n \in tree.live : Left(n) => Left(n)'
        BY <1>2, <2>3 DEF Left
      <4> QED
        BY <1>1, <1>2, <1>3, <4>1, LeftInnerMoves
    <3>2. \A kind : AboveKind(cur, kind)' = AboveKind(cur, kind)
      BY <1>2, <2>1 DEF AboveKind
    <3>3. \A n : MayStand(n)' <=> MayStand(n)
      BY <1>2 DEF MayStand, AboveKind
    <3>4. Data' = Data
      BY <1>2 DEF Data
    <3>5. \A n \in Above(tree'.node, cur') \cup (IF at' = "visit" THEN {} ELSE {cur'}) : MayStand(n)'
      BY <1>1, <1>2, <2>1, <3>3 DEF ContextInv
    <3>6. /\ optstack' \in Seq(DOMAIN tree'.node)
          /\ IsStack(optstack', AboveKind(cur, "optional")', Data')
          /\ callstack' \in Seq(AboveKind(cur, "call")')
          /\ \A i, j \in 1..Len(callstack') : i < j => callstack'[i] > callstack'[j]
          /\ IsStack(callstack', AboveKind(cur, "call")', [n \in DOMAIN tree'.node |-> n])
          /\ boolif' \in {0} \cup AboveKind(cur, "booleanif")'
          /\ AboveKind(cur, "booleanif")' # {} => boolif' # 0
          /\ macro' \in {0} \cup AboveKind(cur, "macro")'
          /\ AboveKind(cur, "macro")' # {} => macro' # 0 \/ LeftInner'
      BY <1>1, <1>2, <2>1, <3>1, <3>2, <3>4 DEF ContextInv
    <3> QED
      BY <3>5, <3>6 DEF ContextInv
  <2>5. NestingInv'
    <3> SUFFICES ASSUME pass = CALL1, NEW n \in tree.live, Reached(n), Seen(n)' PROVE MayStand(n)
      BY <1>1, <1>2, <2>1 DEF NestingInv, Reached, MayStand, AboveKind
    <3>1. CASE Seen(n)
      BY <1>1, <3>1 DEF NestingInv
    <3>2. CASE ~Seen(n)
      <4>1. cur \in PathTo(n)
        BY <1>2, <2>1, <2>3, <3>2 DEF Seen, Left, PathTo
      <4>2. n # cur
        BY <1>2, <3>2 DEF Seen
      <4>3. n \in DOMAIN tree.node /\ cur \in Above(tree.node, n)
        BY <1>1, <4>1, <4>2, TreeHere DEF PathTo, Path
      <4>4. PICK k \in Path(tree.node, n) : k # 1 /\ tree.node[k].parent = cur
        BY <1>1, <4>3, PathChild
      <4>5. k \in tree.live
        BY <1>1, <4>4, AboveLive DEF Path
      <4> QED
        BY <1>5, <4>4, <4>5 DEF Kids
    <3> QED
      BY <3>1, <3>2
  <2> QED
    BY <2>2, <2>4, <2>5 DEF ExpandInv
<1>6. CASE Kids(tree, cur) # {} /\ Recursive
  <2>1. status' = "err" /\ UNCHANGED <<at, cur, optstack, callstack, boolif, macro>>
    BY <1>6 DEF GoDown, context
  <2>2. /\ cur \in tree'.live
        /\ \A n : n \in tree.live \ tree'.live => FALSE
        /\ \A n : n \in tree'.live \ tree.live => FALSE
    BY <1>1, <1>2
  <2>3. Stays
    BY <1>1, <1>2, <1>3, <2>1, <2>2 DEF Stays, TypeInv
  <2> QED
    BY <1>1, <2>3, StaysTypes, StaysContext, StaysNesting DEF ExpandInv
<1>7. CASE Kids(tree, cur) # {} /\ ~Recursive
  <2> DEFINE k == Min(Kids(tree, cur))
  <2>1. k \in Kids(tree, cur) /\ \A j \in Kids(tree, cur) : k <= j
    <3>1. Kids(tree, cur) \in SUBSET Nat
      BY <1>1, TreeHere DEF Kids
    <3> QED
      BY <1>7, <3>1, MinIn
  <2>2. /\ cur' = k /\ at' = "visit" /\ status' = "walk"
        /\ optstack' = IF Me.kind = "optional" THEN <<Me.datum>> \o optstack ELSE optstack
        /\ callstack' = IF Me.kind = "call" THEN <<cur>> \o callstack ELSE callstack
        /\ boolif' = IF Me.kind = "booleanif" THEN cur ELSE boolif
        /\ macro' = IF Me.kind = "macro" THEN cur ELSE macro
    BY <1>2, <1>7 DEF GoDown
  <2> HIDE DEF k
  <2>3. /\ cur \in Nat \ {0}
        /\ k \in tree.live /\ k \in DOMAIN tree.node /\ k \in Nat /\ k > cur /\ k # Root
        /\ Above(tree.node, k) = {cur} \cup Above(tree.node, cur)
        /\ PathTo(k) = {k} \cup PathTo(cur)
        /\ \A kind : /\ AboveKind(cur, kind) \in SUBSET (1..(cur - 1))
                     /\ AboveKind(cur, kind) \subseteq DOMAIN tree.node
                     /\ AboveKind(k, kind) = IF tree.node[cur].kind = kind
                                             THEN AboveKind(cur, kind) \cup {cur}
                                             ELSE AboveKind(cur, kind)
    BY <1>1, <2>1, KidIs
  <2>4. TypeInv'
    BY <1>1, <1>2, <1>4, <2>2, <2>3, WalkTypes
  <2>5. \A kind : AboveKind(cur, kind)' = AboveKind(k, kind)
    BY <1>2, <2>2 DEF AboveKind
  <2>6. /\ optstack' \in Seq(DOMAIN tree'.node)
        /\ IsStack(optstack', AboveKind(cur, "optional")', Data')
    <3> DEFINE S == AboveKind(cur, "optional")
               X == DOMAIN tree.node
    <3>1. optstack \in Seq(X) /\ IsStack(optstack, S, Data) /\ Data' = Data /\ tree' = tree
      BY <1>1, <1>2 DEF ContextInv, Data
    <3>2. Data[cur] = Me.datum /\ Data[cur] \in X
      BY <1>1 DEF Data, Me, TreeOK
    <3>3. S \in SUBSET (1..(cur - 1)) /\ cur \in Nat \ {0}
      BY <2>3
    <3>4. AboveKind(k, "optional") = IF Me.kind = "optional" THEN S \cup {cur} ELSE S
      BY <2>3 DEF Me
    <3> HIDE DEF S, X
    <3>5. <<Data[cur]>> \o optstack \in Seq(X) /\ IsStack(<<Data[cur]>> \o optstack, S \cup {cur}, Data)
      BY <3>1, <3>2, <3>3, StackPush
    <3>6. optstack' \in Seq(X) /\ IsStack(optstack', AboveKind(k, "optional"), Data)
      BY <2>2, <3>1, <3>2, <3>4, <3>5
    <3> QED
      BY <2>5, <3>1, <3>6 DEF X
  <2>7. /\ callstack' \in Seq(AboveKind(cur, "call")')
        /\ \A i, j \in 1..Len(callstack') : i < j => callstack'[i] > callstack'[j]
        /\ IsStack(callstack', AboveKind(cur, "call")', [n \in DOMAIN tree'.node |-> n])
    <3> DEFINE S == AboveKind(cur, "call")
               V == [n \in DOMAIN tree.node |-> n]
               X == DOMAIN tree.node
    <3>1. /\ callstack \in Seq(S) /\ IsStack(callstack, S, V) /\ V[cur] = cur
          /\ \A i, j \in 1..Len(callstack) : i < j => callstack[i] > callstack[j]
      BY <1>1 DEF ContextInv
    <3>2. S \in SUBSET (1..(cur - 1)) /\ cur \in Nat \ {0} /\ cur \in X /\ S \subseteq X
      BY <1>1, <2>3
    <3>3. AboveKind(k, "call") = IF Me.kind = "call" THEN S \cup {cur} ELSE S
      BY <2>3 DEF Me
    <3>4. [n \in DOMAIN tree'.node |-> n] = V
      BY <1>2
    <3> HIDE DEF S, V, X
    <3>5. callstack \in Seq(X)
      BY <3>1, <3>2, SeqWider
    <3>6. IsStack(<<cur>> \o callstack, S \cup {cur}, V)
      BY <3>1, <3>2, <3>5, StackPush
    <3>7. /\ <<cur>> \o callstack \in Seq(S \cup {cur})
          /\ \A i, j \in 1..Len(<<cur>> \o callstack) :
               i < j => (<<cur>> \o callstack)[i] > (<<cur>> \o callstack)[j]
      BY <3>1, <3>2, CallsUp
    <3>8. /\ callstack' \in Seq(AboveKind(k, "call")) /\ IsStack(callstack', AboveKind(k, "call"), V)
          /\ \A i, j \in 1..Len(callstack') : i < j => callstack'[i] > callstack'[j]
      <4>1. CASE Me.kind = "call"
        BY <2>2, <3>3, <3>6, <3>7, <4>1
      <4>2. CASE Me.kind # "call"
        BY <2>2, <3>1, <3>3, <4>2
      <4> QED
        BY <4>1, <4>2
    <3> QED
      BY <2>5, <3>4, <3>8
  <2>8. /\ boolif' \in {0} \cup AboveKind(cur, "booleanif")'
        /\ AboveKind(cur, "booleanif")' # {} => boolif' # 0
    <3>1. boolif \in {0} \cup AboveKind(cur, "booleanif")
          /\ (AboveKind(cur, "booleanif") # {} => boolif # 0)
      BY <1>1 DEF ContextInv
    <3>2. AboveKind(k, "booleanif") = IF Me.kind = "booleanif" THEN AboveKind(cur, "booleanif") \cup {cur}
                                      ELSE AboveKind(cur, "booleanif")
      BY <2>3 DEF Me
    <3> QED
      BY <2>2, <2>3, <2>5, <3>1, <3>2
  <2>9. /\ macro' \in {0} \cup AboveKind(cur, "macro")'
        /\ AboveKind(cur, "macro")' # {} => macro' # 0 \/ LeftInner'
    <3>1. macro \in {0} \cup AboveKind(cur, "macro")
          /\ (AboveKind(cur, "macro") # {} => macro # 0 \/ LeftInner)
      BY <1>1 DEF ContextInv
    <3>2. AboveKind(k, "macro") = IF Me.kind = "macro" THEN AboveKind(cur, "macro") \cup {cur}
                                  ELSE AboveKind(cur, "macro")
      BY <2>3 DEF Me
    <3>3. LeftInner => LeftInner'
      <4>1. \A n \in tree.live : Left(n) => Left(n)'
        BY <1>2, <2>2, <2>3 DEF Left, Passed, PathTo
      <4> QED
        BY <1>1, <1>2, <1>3, <4>1, LeftInnerMoves
    <3> QED
      BY <2>2, <2>3, <2>5, <3>1, <3>2, <3>3
  <2>10. \A n \in Above(tree'.node, cur') \cup (IF at' = "visit" THEN {} ELSE {cur'}) : MayStand(n)'
    <3>1. \A n \in Above(tree.node, k) : MayStand(n)
      BY <1>1, <1>2, <2>3 DEF ContextInv
    <3>2. \A n : MayStand(n)' <=> MayStand(n)
      BY <1>2 DEF MayStand, AboveKind
    <3> QED
      BY <1>2, <2>2, <3>1, <3>2
  <2>11. ContextInv'
    BY <2>6, <2>7, <2>8, <2>9, <2>10 DEF ContextInv
  <2>12. NestingInv'
    <3> SUFFICES ASSUME pass = CALL1, NEW n \in tree.live, Reached(n), Seen(n)' PROVE MayStand(n)
      BY <1>1, <1>2, <2>2 DEF NestingInv, Reached, MayStand, AboveKind
    <3>1. CASE Passed(n)'
      <4>1. PICK a \in PathTo(n), b \in PathTo(k) : tree.node[a].parent = tree.node[b].parent /\ a < b
        BY <1>2, <2>2, <3>1 DEF Passed, PathTo
      <4>2. b # k
        <5> SUFFICES ASSUME b = k PROVE FALSE
          OBVIOUS
        <5>1. a \in tree.live
          BY <1>1, AboveLive DEF PathTo, Path
        <5>2. a \in Kids(tree, cur)
          BY <2>1, <4>1, <5>1 DEF Kids
        <5> QED
          BY <2>1, <2>3, <4>1, <5>1, <5>2, <1>1, TreeHere
      <4>3. Passed(n)
        BY <2>3, <4>1, <4>2 DEF Passed
      <4> QED
        BY <1>1, <4>3 DEF NestingInv, Seen, Left
    <3>2. CASE ~Passed(n)'
      <4>1. n \in Above(tree.node, k)
        BY <1>2, <2>2, <3>2 DEF Seen, Left
      <4> QED
        BY <1>1, <1>2, <2>3, <4>1 DEF ContextInv
    <3> QED
      BY <3>1, <3>2
  <2> QED
    BY <2>4, <2>11, <2>12 DEF ExpandInv
<1> QED
  BY <1>5, <1>6, <1>7

(* Over to the next sibling.                                               *)
LEMMA OverKeeps ==
  ASSUME ExpandInv, GoOver
  PROVE  ExpandInv'
<1> DEFINE u == Me.parent
           k == Min(Later)
<1>1. TypeInv /\ ContextInv /\ NestingInv /\ TreeOK(tree) /\ Forest(tree.node)
      /\ cur \in tree.live /\ cur \in DOMAIN tree.node
  BY TreeHere DEF ExpandInv, TypeInv
<1>2. /\ status = "walk" /\ at = "over" /\ cur # Root /\ Later # {} /\ tree' = tree
      /\ UNCHANGED <<abstract, disabled, status, pass, item, ins, resolved,
                     optstack, callstack, boolif, macro>>
      /\ cur' = k /\ at' = "visit"
  BY DEF GoOver, context
<1>3. Kept(tree, tree') /\ pass' \in TIF..CALL1
  BY <1>1, <1>2, TreeUnchanged DEF TypeInv
<1>4. u \in tree.live /\ cur \in Kids(tree, u)
  BY <1>1, <1>2, TreeHere DEF Me, Kids
<1>5. k \in Kids(tree, u) /\ k > cur /\ \A j \in Kids(tree, u) : j > cur => k <= j
  <2>1. Later \in SUBSET Nat
    BY <1>1, TreeHere DEF Later, Kids
  <2>2. k \in Later /\ \A j \in Later : k <= j
    BY <1>2, <2>1, MinIn
  <2> QED
    BY <2>2 DEF Later
<1> HIDE DEF u, k
<1>6. /\ k \in tree.live /\ k # Root /\ k \in Nat /\ cur \in Nat
      /\ Above(tree.node, k) = Above(tree.node, cur)
      /\ PathTo(k) = {k} \cup PathTo(u) /\ PathTo(cur) = {cur} \cup PathTo(u)
      /\ tree.node[k].parent = u /\ tree.node[cur].parent = u
      /\ \A kind : AboveKind(k, kind) = AboveKind(cur, kind)
  <2>1. /\ k \in tree.live /\ k # Root /\ k \in Nat
        /\ Above(tree.node, k) = {u} \cup Above(tree.node, u) /\ PathTo(k) = {k} \cup PathTo(u)
    BY <1>1, <1>4, <1>5, KidIs
  <2>2. /\ cur \in Nat /\ Above(tree.node, cur) = {u} \cup Above(tree.node, u)
        /\ PathTo(cur) = {cur} \cup PathTo(u)
    BY <1>1, <1>4, KidIs
  <2>3. tree.node[k].parent = u /\ tree.node[cur].parent = u
    BY <1>4, <1>5 DEF Kids
  <2> QED
    BY <2>1, <2>2, <2>3 DEF AboveKind
<1>7. TypeInv'
  BY <1>1, <1>2, <1>3, <1>6, WalkTypes DEF TypeInv
<1>8. ASSUME NEW n \in tree.live PROVE Left(n) <=> Left(n)'
  <2>1. n \in DOMAIN tree.node /\ PathTo(n)' = PathTo(n) /\ PathTo(n) \subseteq DOMAIN tree.node
        /\ DOMAIN tree.node \subseteq Nat
    BY <1>1, <1>3, AroundStays, TreeHere
  <2>2. Left(n)' <=> \E a \in PathTo(n), b \in PathTo(k) :
                       tree.node[a].parent = tree.node[b].parent /\ a < b
    BY <1>2, <2>1 DEF Left, Passed, PathTo
  <2>3. ASSUME Left(n) PROVE Left(n)'
    <3>1. CASE cur \in PathTo(n)
      BY <1>5, <1>6, <2>2, <3>1
    <3>2. CASE cur \notin PathTo(n)
      <4>1. PICK a \in PathTo(n), b \in PathTo(cur) : tree.node[a].parent = tree.node[b].parent /\ a < b
        BY <2>3, <3>2 DEF Left, Passed
      <4>2. CASE b = cur
        <5>1. a < k /\ tree.node[a].parent = tree.node[k].parent
          BY <1>5, <1>6, <2>1, <4>1, <4>2
        <5> QED
          BY <1>6, <2>2, <5>1
      <4>3. CASE b # cur
        BY <1>6, <2>2, <4>1, <4>3
      <4> QED
        BY <4>2, <4>3
    <3> QED
      BY <3>1, <3>2
  <2>4. ASSUME Left(n)' PROVE Left(n)
    <3>1. PICK a \in PathTo(n), b \in PathTo(k) : tree.node[a].parent = tree.node[b].parent /\ a < b
      BY <2>2, <2>4
    <3>2. CASE b = k
      <4>1. a \in tree.live
        BY <1>1, AboveLive DEF PathTo, Path
      <4>2. a \in Kids(tree, u) /\ a \in Nat
        BY <1>6, <2>1, <3>1, <3>2, <4>1 DEF Kids
      <4>3. a <= cur
        BY <1>5, <1>6, <3>1, <3>2, <4>2
      <4>4. CASE a = cur
        BY <1>2, <4>4 DEF Left
      <4>5. CASE a < cur
        BY <1>6, <3>1, <3>2, <4>5 DEF Left, Passed
      <4> QED
        BY <1>6, <4>2, <4>3, <4>4, <4>5
    <3>3. CASE b # k
      BY <1>6, <3>1, <3>3 DEF Left, Passed
    <3> QED
      BY <3>2, <3>3
  <2> QED
    BY <2>3, <2>4
<1>9. \A kind : AboveKind(cur, kind)' = AboveKind(cur, kind)
  BY <1>2, <1>6 DEF AboveKind
<1>10. \A n : MayStand(n)' <=> MayStand(n)
  BY <1>2 DEF MayStand, AboveKind
<1>11. ContextInv'
  <2>1. LeftInner => LeftInner'
    BY <1>1, <1>2, <1>3, <1>8, LeftInnerMoves
  <2>2. Data' = Data
    BY <1>2 DEF Data
  <2>3. \A n \in Above(tree'.node, cur') \cup (IF at' = "visit" THEN {} ELSE {cur'}) : MayStand(n)'
    BY <1>1, <1>2, <1>6, <1>10 DEF ContextInv
  <2>4. /\ optstack' \in Seq(DOMAIN tree'.node)
        /\ IsStack(optstack', AboveKind(cur, "optional")', Data')
        /\ callstack' \in Seq(AboveKind(cur, "call")')
        /\ \A i, j \in 1..Len(callstack') : i < j => callstack'[i] > callstack'[j]
        /\ IsStack(callstack', AboveKind(cur, "call")', [n \in DOMAIN tree'.node |-> n])
        /\ boolif' \in {0} \cup AboveKind(cur, "booleanif")'
        /\ AboveKind(cur, "booleanif")' # {} => boolif' # 0
        /\ macro' \in {0} \cup AboveKind(cur, "macro")'
        /\ AboveKind(cur, "macro")' # {} => macro' # 0 \/ LeftInner'
    BY <1>1, <1>2, <1>9, <2>1, <2>2 DEF ContextInv
  <2> QED
    BY <2>3, <2>4 DEF ContextInv
<1>12. NestingInv'
  <2> SUFFICES ASSUME pass = CALL1, NEW n \in tree.live, Reached(n), Seen(n)' PROVE Seen(n)
    BY <1>1, <1>2, <1>10 DEF NestingInv, Reached
  <2>1. Left(n)' \/ n \in Above(tree.node, k)
    BY <1>2 DEF Seen
  <2> QED
    BY <1>6, <1>8, <2>1 DEF Seen
<1> QED
  BY <1>7, <1>11, <1>12 DEF ExpandInv

(* Up to the parent, whose children go if it is a disabled optional.       *)
LEMMA UpKeeps ==
  ASSUME ExpandInv, GoUp
  PROVE  ExpandInv'
<1> SUFFICES ASSUME NEW u, u = Me.parent PROVE ExpandInv'
  OBVIOUS
<1> DEFINE gone == Up.kind = "optional" /\ Up.datum \in disabled
<1>1. TypeInv /\ ContextInv /\ NestingInv /\ TreeOK(tree) /\ Forest(tree.node)
      /\ cur \in tree.live /\ cur \in DOMAIN tree.node
  BY TreeHere DEF ExpandInv, TypeInv
<1>2. /\ status = "walk" /\ at = "over" /\ cur # Root /\ Later = {}
      /\ tree' = IF gone THEN DestroyKids(tree, u) ELSE tree
      /\ cur' = u
      /\ optstack' = IF Up.kind = "optional" THEN Tail(optstack) ELSE optstack
      /\ callstack' = IF Up.kind = "call" THEN Tail(callstack) ELSE callstack
      /\ boolif' = IF Up.kind = "booleanif" THEN 0 ELSE boolif
      /\ macro' = IF Up.kind = "macro" THEN 0 ELSE macro
      /\ UNCHANGED <<abstract, disabled, status, pass, at, item, ins, resolved>>
  BY DEF GoUp, MacroLeft
<1>3. u \in tree.live /\ cur \in Kids(tree, u) /\ Up = tree.node[u]
  BY <1>1, <1>2, TreeHere DEF Me, Kids, Up
<1>4. /\ TreeOK(tree') /\ tree'.node = tree.node /\ tree'.live \subseteq tree.live /\ u \in tree'.live
      /\ \A n \in tree.live \ tree'.live : Up.kind = "optional" /\ u \in Above(tree.node, n)
  <2>1. CASE gone
    <3>1. /\ TreeOK(tree') /\ tree'.node = tree.node /\ u \in tree'.live
          /\ tree'.live = tree.live \ Below(tree, u)
      BY <1>1, <1>2, <1>3, <2>1, Destroyed
    <3> QED
      BY <2>1, <3>1 DEF Below
  <2>2. CASE ~gone
    BY <1>1, <1>2, <1>3, <2>2
  <2> QED
    BY <2>1, <2>2
<1> HIDE DEF gone
<1>5. Kept(tree, tree')
  BY <1>1, <1>4, TreeHere DEF Kept
<1>6. /\ u \in DOMAIN tree.node /\ u \in Nat \ {0} /\ cur \in Nat /\ cur > u
      /\ Above(tree.node, cur) = {u} \cup Above(tree.node, u)
      /\ PathTo(cur) = {cur} \cup PathTo(u) /\ tree.node[cur].parent = u
      /\ \A kind : /\ AboveKind(u, kind) \in SUBSET (1..(u - 1))
                   /\ AboveKind(u, kind) \subseteq DOMAIN tree.node
                   /\ AboveKind(cur, kind) = IF Up.kind = kind THEN AboveKind(u, kind) \cup {u}
                                             ELSE AboveKind(u, kind)
  BY <1>1, <1>3, KidIs DEF Kids
<1>7. TypeInv'
  BY <1>1, <1>2, <1>4 DEF TypeInv
<1>8. ASSUME NEW n \in tree.live PROVE Left(n)' => Left(n) \/ n = u
  <2> SUFFICES ASSUME Left(n)', n # u PROVE Left(n)
    OBVIOUS
  <2>1. n \in DOMAIN tree.node /\ PathTo(n)' = PathTo(n) /\ PathTo(n) \subseteq tree.live
        /\ PathTo(u)' = PathTo(u)
    <3>1. n \in DOMAIN tree.node
      BY <1>1, TreeHere
    <3>2. \A m : PathTo(m)' = PathTo(m)
      BY <1>4 DEF PathTo
    <3>3. PathTo(n) \subseteq tree.live
      BY <1>1, AboveLive DEF PathTo, Path
    <3> QED
      BY <3>1, <3>2, <3>3
  <2>2. CASE \E a \in PathTo(n), b \in PathTo(u) : tree.node[a].parent = tree.node[b].parent /\ a < b
    BY <1>6, <2>2 DEF Left, Passed
  <2>3. CASE u \in PathTo(n)
    <3>1. u \in Above(tree.node, n)
      BY <2>3 DEF PathTo, Path
    <3>2. PICK a \in PathTo(n) : a # 1 /\ tree.node[a].parent = u
      BY <1>1, <2>1, <3>1, PathChild DEF PathTo
    <3>3. a \in Kids(tree, u) /\ a \in Nat
      BY <1>1, <2>1, <3>2, TreeHere DEF Kids
    <3>4. ~ (a > cur)
      <4>1. Later = {j \in Kids(tree, u) : j > cur}
        BY <1>3 DEF Later
      <4> QED
        BY <1>2, <3>3, <4>1
    <3>5. CASE a = cur
      BY <1>2, <3>5 DEF Left
    <3>6. CASE a < cur
      BY <1>6, <3>2, <3>6 DEF Left, Passed
    <3> QED
      BY <1>6, <3>3, <3>4, <3>5, <3>6
  <2>4. \/ \E a \in PathTo(n), b \in PathTo(u) : tree.node[a].parent = tree.node[b].parent /\ a < b
        \/ u \in PathTo(n)
    BY <1>2, <1>4, <2>1 DEF Left, Passed, PathTo
  <2> QED
    BY <2>2, <2>3, <2>4
<1>9. ASSUME NEW n \in tree.live, Left(n) PROVE Left(n)'
  <2>1. n \in DOMAIN tree.node /\ PathTo(n)' = PathTo(n)
    BY <1>1, <1>4, TreeHere DEF PathTo
  <2>2. ASSUME u \in PathTo(n) PROVE Left(n)'
    BY <1>2, <2>1, <2>2 DEF Left
  <2>3. CASE cur \in PathTo(n)
    <3>1. u \in PathTo(n)
      BY <1>1, <1>6, <2>1, <2>3, AboveBounds DEF PathTo, Path
    <3> QED
      BY <2>2, <3>1
  <2>4. CASE cur \notin PathTo(n)
    <3>1. PICK a \in PathTo(n), b \in PathTo(cur) : tree.node[a].parent = tree.node[b].parent /\ a < b
      BY <1>9, <2>4 DEF Left, Passed
    <3>2. CASE b = cur
      <4>1. a \in tree.live /\ tree.node[a].parent = u
        BY <1>1, <1>6, <3>1, <3>2, AboveLive DEF PathTo, Path
      <4>2. a # Root
        BY <1>1, <1>6, <4>1, TreeHere
      <4>3. u \in Above(tree.node, a)
        <5>1. Above(tree.node, a) = Path(tree.node, u)
          BY <1>1, <4>1, <4>2, AboveLive
        <5> QED
          BY <5>1 DEF Path
      <4>4. u \in PathTo(n)
        BY <1>1, <2>1, <3>1, <4>3, AboveBounds DEF PathTo, Path
      <4> QED
        BY <2>2, <4>4
    <3>3. CASE b # cur
      <4>1. b \in PathTo(u)
        BY <1>6, <3>1, <3>3
      <4> QED
        BY <1>2, <1>4, <2>1, <3>1, <4>1 DEF Left, Passed, PathTo
    <3> QED
      BY <3>2, <3>3
  <2> QED
    BY <2>3, <2>4
<1>10. MayStand(u)
  BY <1>1, <1>6 DEF ContextInv
<1>11. \A n : MayStand(n)' <=> MayStand(n)
  BY <1>4 DEF MayStand, AboveKind
<1>12. \A kind : AboveKind(cur, kind)' = AboveKind(u, kind)
  BY <1>2, <1>4 DEF AboveKind
<1>13. /\ optstack' \in Seq(DOMAIN tree'.node)
       /\ IsStack(optstack', AboveKind(cur, "optional")', Data')
  <2> DEFINE S == AboveKind(u, "optional")
             X == DOMAIN tree.node
  <2>1. optstack \in Seq(X) /\ IsStack(optstack, AboveKind(cur, "optional"), Data) /\ Data' = Data
    BY <1>1, <1>4 DEF ContextInv, Data
  <2>2. /\ S \in SUBSET (1..(u - 1)) /\ u \in Nat \ {0}
        /\ AboveKind(cur, "optional") = IF Up.kind = "optional" THEN S \cup {u} ELSE S
        /\ AboveKind(cur, "optional")' = S
    BY <1>6, <1>12
  <2> HIDE DEF S, X
  <2>3. CASE Up.kind = "optional"
    <3>1. IsStack(optstack, S \cup {u}, Data)
      BY <2>1, <2>2, <2>3
    <3>2. Tail(optstack) \in Seq(X) /\ IsStack(Tail(optstack), S, Data)
      BY <2>1, <2>2, <3>1, StackPop
    <3> QED
      BY <1>2, <1>4, <2>1, <2>2, <2>3, <3>2 DEF X
  <2>4. CASE Up.kind # "optional"
    BY <1>2, <1>4, <2>1, <2>2, <2>4 DEF X
  <2> QED
    BY <2>3, <2>4
<1>14. /\ callstack' \in Seq(AboveKind(cur, "call")')
       /\ \A i, j \in 1..Len(callstack') : i < j => callstack'[i] > callstack'[j]
       /\ IsStack(callstack', AboveKind(cur, "call")', [n \in DOMAIN tree'.node |-> n])
  <2> DEFINE S == AboveKind(u, "call")
             V == [n \in DOMAIN tree.node |-> n]
  <2>1. /\ callstack \in Seq(AboveKind(cur, "call")) /\ IsStack(callstack, AboveKind(cur, "call"), V)
        /\ \A i, j \in 1..Len(callstack) : i < j => callstack[i] > callstack[j]
        /\ V[u] = u
    BY <1>1, <1>6 DEF ContextInv
  <2>2. /\ S \in SUBSET (1..(u - 1)) /\ u \in Nat \ {0}
        /\ AboveKind(cur, "call") = IF Up.kind = "call" THEN S \cup {u} ELSE S
        /\ AboveKind(cur, "call")' = S
    BY <1>6, <1>12
  <2>3. [n \in DOMAIN tree'.node |-> n] = V
    BY <1>4
  <2> HIDE DEF S, V
  <2>4. CASE Up.kind = "call"
    <3>1. callstack \in Seq(S \cup {u}) /\ IsStack(callstack, S \cup {u}, V)
      BY <2>1, <2>2, <2>4
    <3>2. callstack # <<>> /\ callstack[1] = u /\ IsStack(Tail(callstack), S, V)
      <4> DEFINE Y == S \cup {u}
      <4>1. callstack \in Seq(Y) /\ IsStack(callstack, S \cup {u}, V)
        BY <3>1
      <4> HIDE DEF Y
      <4>2. callstack # <<>> /\ callstack[1] = V[u] /\ IsStack(Tail(callstack), S, V)
        <5>1. S \in SUBSET (1..(u - 1)) /\ u \in Nat \ {0}
          BY <2>2
        <5>2. callstack # <<>> /\ IsStack(Tail(callstack), S, V)
          BY <4>1, <5>1, StackPop
        <5>3. callstack[Depth(u, S \cup {u})] = V[u]
          BY <4>1, Zenon DEF IsStack
        <5>4. Depth(u, S \cup {u}) = 1
          BY <5>1, DepthUp
        <5> QED
          BY <5>2, <5>3, <5>4
      <4> QED
        BY <2>1, <4>2
    <3>3. /\ Tail(callstack) \in Seq(S)
          /\ \A i, j \in 1..Len(Tail(callstack)) : i < j => Tail(callstack)[i] > Tail(callstack)[j]
      BY <2>1, <2>2, <3>1, <3>2, CallsUp
    <3> QED
      BY <1>2, <2>2, <2>3, <2>4, <3>2, <3>3
  <2>5. CASE Up.kind # "call"
    BY <1>2, <2>1, <2>2, <2>3, <2>5
  <2> QED
    BY <2>4, <2>5
<1>15. /\ boolif' \in {0} \cup AboveKind(cur, "booleanif")'
       /\ AboveKind(cur, "booleanif")' # {} => boolif' # 0
  <2>1. boolif \in {0} \cup AboveKind(cur, "booleanif")
        /\ (AboveKind(cur, "booleanif") # {} => boolif # 0)
    BY <1>1 DEF ContextInv
  <2>2. AboveKind(cur, "booleanif") = IF Up.kind = "booleanif" THEN AboveKind(u, "booleanif") \cup {u}
                                      ELSE AboveKind(u, "booleanif")
    BY <1>6
  <2>3. Up.kind = "booleanif" => AboveKind(u, "booleanif") = {}
    BY <1>3, <1>10 DEF MayStand
  <2> QED
    BY <1>2, <1>12, <2>1, <2>2, <2>3
<1>16. /\ macro' \in {0} \cup AboveKind(cur, "macro")'
       /\ AboveKind(cur, "macro")' # {} => macro' # 0 \/ LeftInner'
  <2>1. macro \in {0} \cup AboveKind(cur, "macro")
        /\ (AboveKind(cur, "macro") # {} => macro # 0 \/ LeftInner)
    BY <1>1 DEF ContextInv
  <2>2. AboveKind(cur, "macro") = IF Up.kind = "macro" THEN AboveKind(u, "macro") \cup {u}
                                  ELSE AboveKind(u, "macro")
    BY <1>6
  <2>3. LeftInner => LeftInner'
    <3>1. \A n \in tree.live : AboveKind(n, "optional") = {} => n \in tree'.live
      BY <1>3, <1>4 DEF AboveKind
    <3> QED
      BY <1>1, <1>5, <1>9, <3>1, LeftInnerMoves
  <2>4. Up.kind = "macro" /\ AboveKind(u, "macro") # {} => LeftInner'
    <3> SUFFICES ASSUME Up.kind = "macro", AboveKind(u, "macro") # {} PROVE LeftInner'
      OBVIOUS
    <3>1. AboveKind(u, "optional") = {}
      BY <1>3, <1>10 DEF MayStand
    <3>2. AboveKind(u, "macro")' # {} /\ AboveKind(u, "optional")' = {} /\ tree'.node[u].kind = "macro"
      <4>1. \A kind : AboveKind(u, kind)' = AboveKind(u, kind)
        BY <1>4 DEF AboveKind
      <4>2. tree'.node[u].kind = "macro"
        BY <1>3, <1>4
      <4> QED
        BY <3>1, <4>1, <4>2
    <3>3. at' = "over" /\ cur' = u
      BY <1>2
    <3> QED
      BY <1>2, <1>4, <3>1, <3>2, <3>3 DEF LeftInner, Left, PathTo, Path, AboveKind
  <2> QED
    BY <1>2, <1>12, <2>1, <2>2, <2>3, <2>4
<1>17. \A n \in Above(tree'.node, cur') \cup (IF at' = "visit" THEN {} ELSE {cur'}) : MayStand(n)'
  BY <1>1, <1>2, <1>4, <1>6, <1>11 DEF ContextInv
<1>18. ContextInv'
  BY <1>13, <1>14, <1>15, <1>16, <1>17 DEF ContextInv
<1>19. NestingInv'
  <2> SUFFICES ASSUME pass = CALL1, NEW n \in tree.live, Reached(n), Seen(n)' PROVE MayStand(n)
    BY <1>1, <1>2, <1>4, <1>11 DEF NestingInv, Reached, TypeInv
  <2>1. Left(n)' \/ n \in Above(tree.node, u) \/ n = u
    BY <1>2, <1>4 DEF Seen
  <2>2. Seen(n) \/ n = u
    BY <1>6, <1>8, <2>1 DEF Seen
  <2> QED
    BY <1>1, <1>10, <2>2 DEF NestingInv
<1> QED
  BY <1>7, <1>18, <1>19 DEF ExpandInv
-----------------------------------------------------------------------------
(* The ends of passes and rounds *)

(* Steps that change nothing that the walk knows.                          *)
LEMMA SameWalk ==
  ASSUME ContextInv, NestingInv, status' = status \/ status' # "ok",
         UNCHANGED <<tree, abstract, pass, cur, at, optstack, callstack, boolif, macro>>
  PROVE  ContextInv' /\ NestingInv'
<1>1. \A n, kind : AboveKind(n, kind)' = AboveKind(n, kind)
  BY DEF AboveKind
<1>2. \A n : /\ MayStand(n)' <=> MayStand(n)
             /\ Left(n)' <=> Left(n)
             /\ Reached(n)' <=> Reached(n)
             /\ Seen(n)' <=> Seen(n)
  <2>1. \A n : MayStand(n)' <=> MayStand(n)
    BY DEF MayStand, AboveKind
  <2>2. \A n : Left(n)' <=> Left(n)
    BY DEF Left, Passed, PathTo
  <2>3. \A n : Reached(n)' <=> Reached(n)
    BY DEF Reached
  <2>4. \A n : Seen(n)' <=> Seen(n)
    BY <2>2 DEF Seen
  <2> QED
    BY <2>1, <2>2, <2>3, <2>4
<1>3. ContextInv'
  <2>1. LeftInner => LeftInner'
    BY <1>1, <1>2 DEF LeftInner
  <2>2. /\ AboveKind(cur, "optional")' = AboveKind(cur, "optional")
        /\ AboveKind(cur, "call")' = AboveKind(cur, "call")
        /\ AboveKind(cur, "booleanif")' = AboveKind(cur, "booleanif")
        /\ AboveKind(cur, "macro")' = AboveKind(cur, "macro")
        /\ Data' = Data
    BY DEF AboveKind, Data
  <2> QED
    BY <1>2, <2>1, <2>2 DEF ContextInv
<1>4. NestingInv'
  BY <1>2, <1>1 DEF NestingInv, NestingAllowed
<1> QED
  BY <1>3, <1>4

(* Nothing is around the root.                                             *)
LEMMA AtRoot ==
  ASSUME TypeInv, ContextInv, cur = Root
  PROVE  /\ TreeOK(tree) /\ Root \in tree.live
         /\ Above(tree.node, Root) = {} /\ PathTo(Root) = {Root}
         /\ \A kind : AboveKind(Root, kind) = {}
         /\ MayStand(Root) /\ boolif = 0 /\ macro = 0
<1>1. TreeOK(tree) /\ Root \in tree.live
  BY TreeHere DEF TypeInv
<1>2. Above(tree.node, Root) = {}
  BY <1>1, AboveLive
<1>3. PathTo(Root) = {Root}
  BY <1>2 DEF PathTo, Path
<1>4. \A kind : AboveKind(Root, kind) = {}
  BY <1>2 DEF AboveKind
<1> QED
  BY <1>1, <1>2, <1>3, <1>4 DEF MayStand, ContextInv

(* The walk is started anew for the next pass.                             *)
LEMMA NextKeeps ==
  ASSUME ExpandInv, cur = Root, at = "over", NextPass, ins' \in {ins, <<>>},
         UNCHANGED <<tree, abstract, disabled, cur, item, resolved>>
  PROVE  ExpandInv'
<1>1. TypeInv /\ ContextInv /\ NestingInv /\ TreeOK(tree)
  BY DEF ExpandInv, TypeInv
<1>2. /\ status' = IF pass = CALL1 THEN "ok" ELSE "walk"
      /\ pass' = IF pass = CALL1 THEN pass ELSE pass + 1
      /\ at' = "down" /\ optstack' = <<>> /\ callstack' = <<>>
      /\ boolif' = boolif /\ macro' = macro
  BY DEF NextPass
<1>3. TypeInv'
  <2>1. pass' \in TIF..CALL1
    BY <1>1, <1>2 DEF TypeInv, TIF, CALL1
  <2>2. /\ ins' \in Seq(Nat)
        /\ \A i \in DOMAIN ins' : ins'[i] = 0 \/ (ins'[i] \in DOMAIN tree.node
                                                  /\ tree.node[ins'[i]].kind = "in")
    <3>1. CASE ins' = ins
      <4>1. /\ ins \in Seq(Nat)
            /\ \A i \in DOMAIN ins : ins[i] = 0 \/ (ins[i] \in DOMAIN tree.node
                                                    /\ tree.node[ins[i]].kind = "in")
        BY <1>1 DEF TypeInv
      <4> QED
        BY <3>1, <4>1
    <3>2. CASE ins' = <<>>
      <4>1. <<>> \in Seq(Nat) /\ DOMAIN <<>> = {}
        OBVIOUS
      <4> QED
        BY <3>2, <4>1
    <3> QED
      BY <3>1, <3>2
  <2>3. status' \in {"ok", "walk"}
    BY <1>2
  <2> QED
    BY <1>1, <1>2, <2>1, <2>2, <2>3 DEF TypeInv
<1>4. /\ Root \in tree.live /\ Above(tree.node, Root) = {} /\ PathTo(Root) = {Root}
      /\ \A kind : AboveKind(Root, kind) = {}
      /\ MayStand(Root) /\ boolif = 0 /\ macro = 0
  BY <1>1, AtRoot
<1>5. cur' = Root /\ \A kind : AboveKind(cur, kind)' = {}
  BY <1>4 DEF AboveKind
<1>6. \A n : MayStand(n)' <=> MayStand(n)
  BY DEF MayStand, AboveKind
<1>7. ContextInv'
  <2>1. \A val : IsStack(<<>>, {}, val)
    <3>1. Cardinality({}) = 0 /\ Len(<<>>) = 0
      BY FS_EmptySet
    <3> QED
      BY <3>1 DEF IsStack
  <2>2. /\ AboveKind(cur, "optional")' = {} /\ AboveKind(cur, "call")' = {}
        /\ AboveKind(cur, "booleanif")' = {} /\ AboveKind(cur, "macro")' = {}
    BY <1>5
  <2>3. \A n \in Above(tree'.node, cur') \cup (IF at' = "visit" THEN {} ELSE {cur'}) : MayStand(n)'
    BY <1>4, <1>5, <1>6
  <2>4. /\ optstack' \in Seq(DOMAIN tree'.node) /\ callstack' \in Seq({})
        /\ \A i, j \in 1..Len(callstack') : i < j => callstack'[i] > callstack'[j]
    BY <1>2
  <2>5. /\ IsStack(optstack', {}, Data')
        /\ IsStack(callstack', {}, [n \in DOMAIN tree'.node |-> n])
    BY <1>2, <2>1
  <2> QED
    BY <1>2, <1>4, <2>2, <2>3, <2>4, <2>5 DEF ContextInv
<1>8. NestingInv'
  <2>1. CASE pass = CALL1
    <3>1. \A n \in tree.live : Reached(n) => MayStand(n)
      <4> SUFFICES ASSUME NEW n \in tree.live, Reached(n) PROVE MayStand(n)
        OBVIOUS
      <4>1. Root \in PathTo(n)
        BY <1>1, AboveLive DEF PathTo, Path
      <4>2. Seen(n)
        BY <4>1 DEF Seen, Left
      <4> QED
        BY <1>1, <2>1, <4>2 DEF NestingInv
    <3>2. \A n \in tree.live : Reached(n)' => MayStand(n)'
      BY <3>1, <1>6 DEF Reached
    <3>3. NestingAllowed'
      BY <3>2 DEF NestingAllowed, MayStand
    <3> QED
      BY <3>2, <3>3 DEF NestingInv
  <2>2. CASE pass # CALL1
    <3>1. ASSUME NEW n \in tree.live, Seen(n)' PROVE MayStand(n)'
      <4>1. ~ Passed(n)'
        <5> SUFFICES ASSUME Passed(n)' PROVE FALSE
          OBVIOUS
        <5>1. PICK a \in PathTo(n)', b \in PathTo(cur)' : tree'.node[a].parent = tree'.node[b].parent /\ a < b
          BY DEF Passed
        <5>2. b = Root
          BY <1>4, <5>1 DEF PathTo
        <5>3. a \in Path(tree.node, n)
          BY <5>1 DEF PathTo
        <5>4. a \in Nat \ {0}
          <6>1. Above(tree.node, n) \subseteq tree.live /\ tree.live \subseteq 1..Len(tree.node)
                /\ Len(tree.node) \in Nat
            BY <1>1, AboveLive, TreeHere
          <6> QED
            BY <5>3, <6>1 DEF Path
        <5> QED
          BY <5>1, <5>2, <5>4 DEF Root
      <4>2. n = Root
        BY <1>2, <1>4, <3>1, <4>1 DEF Seen, Left
      <4> QED
        BY <1>4, <1>6, <4>2
    <3>2. status' # "ok"
      BY <1>2, <2>2
    <3> QED
      BY <3>1, <3>2 DEF NestingInv
  <2> QED
    BY <2>1, <2>2
<1> QED
  BY <1>3, <1>7, <1>8 DEF ExpandInv

(* A round begins, or was the last one.                                    *)
LEMMA ListTypes ==
  ASSUME TypeInv, pass = PassIn, cur = Root, at = "over",
         status' \in {"ins", "err"}, item' = 1, resolved' = FALSE,
         UNCHANGED <<tree, abstract, disabled, pass, cur, at, ins>>
  PROVE  TypeInv'
<1>1. /\ status' \in {"walk", "ins", "ok", "err", "undefined", "diverges"}
      /\ item' \in Nat \ {0} /\ resolved' \in BOOLEAN
  <2>1. status' \in {"walk", "ins", "ok", "err", "undefined", "diverges"} /\ item' \in Nat \ {0}
    OBVIOUS
  <2>2. resolved' \in BOOLEAN
    BY Zenon
  <2> QED
    BY <2>1, <2>2
<1>2. /\ TreeOK(tree') /\ abstract' \cup disabled' \subseteq DOMAIN tree'.node
      /\ pass' \in TIF..CALL1 /\ cur' \in tree'.live
      /\ at' \in {"visit", "down", "heirs", "over"}
      /\ at' = "visit" => cur' # Root
      /\ at' = "heirs" => pass' = BLKIN_COPY
      /\ status' = "ins" => pass' = PassIn /\ cur' = Root /\ at' = "over"
  BY DEF TypeInv
<1>3. /\ ins' \in Seq(Nat)
      /\ \A i \in DOMAIN ins' : ins'[i] = 0 \/ (ins'[i] \in DOMAIN tree'.node
                                                /\ tree'.node[ins'[i]].kind = "in")
  BY DEF TypeInv
<1> QED
  BY <1>1, <1>2, <1>3 DEF TypeInv

(* The end of a pass.                                                      *)
LEMMA PassKeeps ==
  ASSUME ExpandInv, EndPass
  PROVE  ExpandInv'
<1>1. /\ TypeInv /\ ContextInv /\ NestingInv
      /\ status = "walk" /\ at = "over" /\ cur = Root
      /\ UNCHANGED <<tree, abstract, disabled, cur, ins>>
  BY DEF ExpandInv, EndPass
<1>2. CASE pass = PassIn
  <2>1. /\ status' = "ins" /\ item' = 1 /\ resolved' = FALSE /\ pass' = pass /\ at' = at
        /\ UNCHANGED <<optstack, callstack, boolif, macro>>
    BY <1>2 DEF EndPass, context
  <2>2. TypeInv'
    <3>1. status' \in {"ins", "err"} /\ item' = 1 /\ resolved' = FALSE
      BY <2>1
    <3> QED
      BY <1>1, <1>2, <2>1, <3>1, ListTypes
  <2>3. ContextInv' /\ NestingInv'
    BY <1>1, <2>1, SameWalk
  <2> QED
    BY <2>2, <2>3 DEF ExpandInv
<1>3. CASE pass # PassIn
  <2>1. NextPass /\ UNCHANGED <<item, resolved>>
    BY <1>3 DEF EndPass
  <2>2. ins' \in {ins, <<>>}
    BY <1>1
  <2> QED
    BY <1>1, <2>1, <2>2, NextKeeps
<1> QED
  BY <1>2, <1>3

(* The end of a round of cil_resolve_in_list.                              *)
LEMMA RoundKeeps ==
  ASSUME ExpandInv, EndRound
  PROVE  ExpandInv'
<1>1. /\ TypeInv /\ ContextInv /\ NestingInv
      /\ status = "ins" /\ UNCHANGED <<tree, abstract, disabled, cur>>
  BY DEF ExpandInv, EndRound
<1>2. pass = PassIn /\ at = "over" /\ cur = Root
  BY <1>1 DEF TypeInv
<1>3. CASE ToSet(ins) \subseteq {0}
  <2>1. NextPass /\ ins' = <<>> /\ UNCHANGED <<item, resolved>>
    BY <1>3 DEF EndRound
  <2>2. ins' \in {ins, <<>>}
    BY <2>1
  <2> QED
    BY <1>1, <1>2, <2>1, <2>2, NextKeeps
<1>4. CASE ~ (ToSet(ins) \subseteq {0})
  <2>1. /\ status' = AfterRound /\ item' = 1 /\ resolved' = FALSE
        /\ UNCHANGED <<pass, at, ins, optstack, callstack, boolif, macro>>
    BY <1>4 DEF EndRound, context
  <2>2. status' \in {"ins", "err"}
    BY <2>1 DEF AfterRound
  <2>3. TypeInv'
    BY <1>1, <1>2, <2>1, <2>2, ListTypes
  <2>4. ContextInv' /\ NestingInv'
    <3>1. status' # "ok"
      BY <2>2
    <3> QED
      BY <1>1, <2>1, <3>1, SameWalk
  <2> QED
    BY <2>3, <2>4 DEF ExpandInv
<1> QED
  BY <1>3, <1>4
-----------------------------------------------------------------------------
(* The beginning *)

NodeAt(s, datum, ns) ==
  [kind |-> s.kind, parent |-> s.parent, name |-> s.name,
   ref |-> s.ref, params |-> s.params, val |-> s.val,
   datum |-> datum, src |-> datum, to |-> 0, copied |-> FALSE, ns |-> ns]

(* The node that is made of a statement.                                   *)
LEMMA NodeIs ==
  ASSUME NEW s \in Statement, NEW datum \in Nat, NEW ns \in Nat
  PROVE  /\ NodeAt(s, datum, ns) \in Node
         /\ NodeAt(s, datum, ns).kind = s.kind /\ NodeAt(s, datum, ns).parent = s.parent
         /\ NodeAt(s, datum, ns).ref = s.ref /\ NodeAt(s, datum, ns).datum = datum
         /\ NodeAt(s, datum, ns).to = 0 /\ NodeAt(s, datum, ns).ns = ns
<1> DEFINE e == NodeAt(s, datum, ns)
<1>1. /\ s.kind \in Kind /\ s.parent \in Nat /\ s.name \in Name \cup {NoName}
      /\ s.ref \in Seq(Name \cup {"."}) /\ s.params \in Seq(Name) /\ s.val \in BOOLEAN
  BY DEF Statement
<1>2. e \in Node
  <2>1. FALSE \in BOOLEAN /\ 0 \in Nat
    OBVIOUS
  <2> QED
    BY <1>1, <2>1, Zenon DEF Node, NodeAt
<1>3. /\ e.kind = s.kind /\ e.parent = s.parent /\ e.ref = s.ref
      /\ e.datum = datum /\ e.to = 0 /\ e.ns = ns
  BY DEF NodeAt
<1> QED
  BY <1>2, <1>3

(* The tree that cil_build_ast leaves.                                     *)
LEMMA BuiltOK ==
  ASSUME NEW p, IsPolicy(p)
  PROVE  TreeOK(Built(p))
<1> DEFINE N == Len(p)
           t == Built(p)
           scope == Scopes(p)
           node == [n \in DOMAIN p |-> [kind |-> p[n].kind, parent |-> p[n].parent, datum |-> n]]
<1>1. /\ p \in Seq(Statement) /\ N \in Nat \ {0} /\ DOMAIN p = 1..N
      /\ p[1].kind = "root" /\ p[1].parent = 0
      /\ \A n \in 2..N : p[n].kind # "root" /\ p[n].parent \in 1..(n - 1)
                         /\ (p[n].kind \in UsesName => p[n].ref # <<>>)
  <2>1. p \in Seq(Statement) /\ p # <<>>
    BY DEF IsPolicy
  <2>2. /\ p[1].kind = "root" /\ p[1].parent = 0
        /\ \A n \in 2..N : p[n].kind # "root" /\ p[n].parent \in 1..(n - 1)
                           /\ (p[n].kind \in UsesName => p[n].ref # <<>>)
    BY DEF IsPolicy
  <2> QED
    BY <2>1, <2>2
<1>2. Scoped(node)
  <2>1. /\ Len(node) = N /\ DOMAIN node = 1..N
        /\ \A n \in 1..N : /\ node[n].kind = p[n].kind /\ node[n].parent = p[n].parent
                           /\ node[n].datum = n
    BY <1>1
  <2> HIDE DEF node
  <2> QED
    BY <1>1, <2>1 DEF Scoped, Forest
<1>3. \A n \in 1..N : scope[n] \in 0..N
  <2> SUFFICES ASSUME NEW n \in 1..N PROVE scope[n] \in 0..N
    OBVIOUS
  <2>1. scope[n] = IF Sym(p[n].kind) = "none" THEN 0 ELSE Home(node, p[n].parent)
    BY <1>1 DEF Scopes
  <2>2. CASE n = 1
    <3>1. Sym(p[n].kind) = "none"
      BY <1>1, <2>2 DEF Sym
    <3> QED
      BY <2>1, <3>1, <1>1
  <2>3. CASE n # 1
    <3>1. DOMAIN node = 1..N /\ p[n].parent \in DOMAIN node
      BY <1>1, <2>3
    <3>2. Home(node, p[n].parent) \in 1..N
      <4> HIDE DEF node
      <4> QED
        BY <1>2, <3>1, HomeIs
    <3> HIDE DEF node, scope
    <3> QED
      BY <2>1, <3>2, <1>1
  <2> QED
    BY <2>2, <2>3
<1> HIDE DEF scope, node
<1>4. /\ t.live = 1..N /\ t.links = <<>> /\ DOMAIN t.node = 1..N
      /\ t = [node |-> t.node, live |-> t.live, links |-> t.links]
      /\ \A n \in 1..N : t.node[n] = NodeAt(p[n], n, scope[n])
  BY <1>1 DEF Built, scope, NodeAt
<1>5. t.node \in Seq(Node) /\ Len(t.node) = N
  <2>1. ASSUME NEW n \in 1..N PROVE t.node[n] \in Node
    <3>1. p[n] \in Statement
      BY <1>1
    <3>2. scope[n] \in Nat /\ n \in Nat
      BY <1>1, <1>3
    <3> QED
      BY <1>4, <3>1, <3>2, NodeIs
  <2>2. t.node = [n \in 1..N |-> t.node[n]]
    BY <1>1 DEF Built
  <2> HIDE DEF t
  <2>3. t.node \in [1..N -> Node]
    BY <2>1, <2>2
  <2> QED
    BY <1>1, <2>3
<1> HIDE DEF t
<1>6. \A n \in 1..N : /\ t.node[n].kind = p[n].kind /\ t.node[n].parent = p[n].parent
                      /\ t.node[n].ref = p[n].ref /\ t.node[n].datum = n
                      /\ t.node[n].to = 0 /\ t.node[n].ns = scope[n]
  <2> SUFFICES ASSUME NEW n \in 1..N
               PROVE  /\ t.node[n].kind = p[n].kind /\ t.node[n].parent = p[n].parent
                      /\ t.node[n].ref = p[n].ref /\ t.node[n].datum = n
                      /\ t.node[n].to = 0 /\ t.node[n].ns = scope[n]
    OBVIOUS
  <2>1. p[n] \in Statement /\ n \in Nat /\ scope[n] \in Nat
    BY <1>1, <1>3
  <2> QED
    BY <1>4, <2>1, NodeIs
<1>7. Forest(t.node)
  <2>1. /\ Len(t.node) = N /\ DOMAIN t.node = 1..N /\ t.node[1].parent = 0
        /\ \A n \in 2..N : t.node[n].parent \in 1..(n - 1)
    BY <1>1, <1>4, <1>5, <1>6
  <2> QED
    BY <1>1, <2>1 DEF Forest
<1>8. TreeShape(t)
  BY <1>1, <1>4, <1>5, <1>6, <1>7 DEF TreeShape, Root, Forest
<1>9. t \in [node : Seq(Node), live : SUBSET Nat, links : Seq(Nat)]
  <2>1. t.live \in SUBSET Nat /\ t.links \in Seq(Nat)
    BY <1>1, <1>4
  <2> QED
    BY <1>4, <1>5, <2>1
<1>10. \A n \in 1..N : /\ (t.node[n].kind = "root") = (n = Root)
                       /\ t.node[n].datum \in 1..N
                       /\ {t.node[n].to, t.node[n].ns} \subseteq 0..N
                       /\ t.node[n].kind \in UsesName => t.node[n].ref # <<>>
  <2> SUFFICES ASSUME NEW n \in 1..N
               PROVE  /\ (t.node[n].kind = "root") = (n = Root)
                      /\ t.node[n].datum \in 1..N
                      /\ {t.node[n].to, t.node[n].ns} \subseteq 0..N
                      /\ t.node[n].kind \in UsesName => t.node[n].ref # <<>>
    OBVIOUS
  <2>1. n = 1 \/ n \in 2..N
    BY <1>1
  <2>2. (p[n].kind = "root") = (n = 1)
    BY <1>1, <2>1
  <2>3. p[n].kind \in UsesName => p[n].ref # <<>>
    BY <1>1, <2>1 DEF UsesName
  <2>4. {0, scope[n]} \subseteq 0..N
    BY <1>1, <1>3
  <2> QED
    BY <1>6, <2>2, <2>3, <2>4 DEF Root
<1>11. ToSet(t.links) \subseteq DOMAIN t.node
  BY <1>4 DEF ToSet
<1>12. TreeOK(t)
  BY <1>4, <1>5, <1>8, <1>9, <1>10, <1>11 DEF TreeOK
<1> QED
  BY <1>12 DEF t

(* Nothing has been passed or is on a stack.                               *)
LEMMA InitKeeps ==
  ASSUME Init
  PROVE  ExpandInv
<1>1. TreeOK(tree)
  BY PolicyAssumption, BuiltOK DEF Init
<1>2. /\ abstract = {} /\ disabled = {} /\ status = "walk" /\ pass = TIF /\ cur = Root
      /\ at = "down" /\ item = 1 /\ optstack = <<>> /\ callstack = <<>> /\ boolif = 0 /\ macro = 0
      /\ ins = <<>> /\ resolved = FALSE
  BY DEF Init
<1>3. TypeInv
  <2>1. pass \in TIF..CALL1 /\ pass # CALL1 /\ item \in Nat \ {0}
    BY <1>2 DEF TIF, CALL1
  <2>2. ins \in Seq(Nat) /\ DOMAIN ins = {}
    BY <1>2
  <2>3. Root \in tree.live
    BY <1>1, TreeHere
  <2>4. resolved \in BOOLEAN
    BY <1>2, Zenon
  <2> QED
    BY <1>1, <1>2, <2>1, <2>2, <2>3, <2>4 DEF TypeInv
<1>4. Above(tree.node, Root) = {} /\ \A kind : AboveKind(Root, kind) = {}
  <2>1. Above(tree.node, Root) = {}
    BY <1>1, TreeHere, AboveLive
  <2> QED
    BY <2>1 DEF AboveKind
<1>5. MayStand(Root)
  BY <1>4 DEF MayStand
<1>6. ContextInv
  <2>1. \A val : IsStack(<<>>, {}, val)
    <3>1. Cardinality({}) = 0 /\ Len(<<>>) = 0
      BY FS_EmptySet
    <3> QED
      BY <3>1 DEF IsStack
  <2>2. /\ IsStack(optstack, AboveKind(cur, "optional"), Data)
        /\ IsStack(callstack, AboveKind(cur, "call"), [n \in DOMAIN tree.node |-> n])
    BY <1>2, <1>4, <2>1
  <2>3. /\ optstack \in Seq(DOMAIN tree.node) /\ callstack \in Seq(AboveKind(cur, "call"))
        /\ \A i, j \in 1..Len(callstack) : i < j => callstack[i] > callstack[j]
    BY <1>2
  <2> QED
    BY <1>2, <1>4, <1>5, <2>2, <2>3 DEF ContextInv
<1>7. NestingInv
  BY <1>2 DEF NestingInv, TIF, CALL1
<1> QED
  BY <1>3, <1>6, <1>7 DEF ExpandInv
-----------------------------------------------------------------------------
(* The theorems *)

(* Every step of the passes keeps the invariant.                           *)
LEMMA NextKeepsAll ==
  ASSUME ExpandInv, [Next]_vars
  PROVE  ExpandInv'
<1>1. TypeInv /\ ContextInv /\ NestingInv
  BY DEF ExpandInv
<1>2. ASSUME Stays PROVE ExpandInv'
  BY <1>1, <1>2, StaysTypes, StaysContext, StaysNesting DEF ExpandInv
<1>3. CASE RejectNesting \/ SkipSubtree \/ PlainNode \/ VisitBlock
  BY <1>1, <1>2, <1>3, PlainStays
<1>4. CASE GatherIn
  BY <1>1, <1>2, <1>4, GatherStays
<1>5. CASE LinkInherit
  BY <1>1, <1>2, <1>5, LinkStays
<1>6. CASE MarkAbstract
  BY <1>1, <1>2, <1>6, AbstractStays
<1>7. CASE ExpandCall
  BY <1>1, <1>2, <1>7, ExpandStays
<1>8. CASE ResolveTunif
  BY <1>1, <1>2, <1>8, TunifStays
<1>9. CASE CopyToHeir
  BY <1>1, <1>2, <1>9, HeirStays
<1>10. CASE ResolveIn
  BY <1>1, <1>2, <1>10, InStays
<1>11. CASE GoDown
  BY <1>11, DownKeeps
<1>12. CASE GoOver
  BY <1>12, OverKeeps
<1>13. CASE GoUp
  BY <1>13, UpKeeps
<1>14. CASE EndPass
  BY <1>14, PassKeeps
<1>15. CASE EndRound
  BY <1>15, RoundKeeps
<1>16. CASE UNCHANGED vars
  <2>1. UNCHANGED <<tree, abstract, disabled, status, pass, cur, at, item, optstack, callstack,
                    boolif, macro, ins, resolved>>
    BY <1>16 DEF vars, context
  <2>2. TypeInv'
    BY <1>1, <2>1 DEF TypeInv
  <2>3. ContextInv' /\ NestingInv'
    BY <1>1, <2>1, SameWalk
  <2> QED
    BY <2>2, <2>3 DEF ExpandInv
<1> QED
  BY <1>3, <1>4, <1>5, <1>6, <1>7, <1>8, <1>9, <1>10, <1>11, <1>12, <1>13, <1>14, <1>15, <1>16
     DEF Next, Done

(* The invariant holds in every state.                                     *)
LEMMA Always ==
  Spec => []ExpandInv
<1>1. Init => ExpandInv
  BY InitKeeps
<1>2. ExpandInv /\ [Next]_vars => ExpandInv'
  BY NextKeepsAll
<1> QED
  BY <1>1, <1>2, PTL DEF Spec

(* Types: the walk and its helpers only hold nodes of the tree, however it *)
(* is changed during the walk (cil_resolve_ast, cil_copy_ast).             *)
THEOREM TreeTypesTheorem ==
  Spec => []TypeOK
<1>1. ASSUME ExpandInv PROVE TypeOK
  <2>1. TypeInv /\ ContextInv /\ TreeOK(tree)
    BY <1>1 DEF ExpandInv, TypeInv
  <2>2. /\ tree.node \in Seq(Node)
        /\ tree.live \subseteq DOMAIN tree.node /\ Root \in tree.live
        /\ \A n \in tree.live \ {Root} : tree.node[n].parent \in tree.live
        /\ ToSet(tree.links) \subseteq DOMAIN tree.node
    BY <2>1, TreeHere DEF TreeOK
  <2>3. \A n \in DOMAIN tree.node : {tree.node[n].datum, tree.node[n].to, tree.node[n].ns}
                                      \subseteq 0..Len(tree.node)
    <3> SUFFICES ASSUME NEW n \in DOMAIN tree.node
                 PROVE  {tree.node[n].datum, tree.node[n].to, tree.node[n].ns} \subseteq 0..Len(tree.node)
      OBVIOUS
    <3>1. /\ tree.node[n].datum \in DOMAIN tree.node
          /\ {tree.node[n].to, tree.node[n].ns} \subseteq 0..Len(tree.node)
      BY <2>1 DEF TreeOK
    <3>2. DOMAIN tree.node = 1..Len(tree.node) /\ Len(tree.node) \in Nat
      BY <2>1, TreeHere
    <3> QED
      BY <3>1, <3>2
  <2>4. \A kind : AboveKind(cur, kind) \subseteq tree.live
    <3>1. cur \in tree.live
      BY <2>1 DEF TypeInv
    <3>2. Above(tree.node, cur) \subseteq tree.live
      BY <2>1, <3>1, AboveLive
    <3> QED
      BY <3>2 DEF AboveKind
  <2>5. optstack \in Seq(DOMAIN tree.node) /\ callstack \in Seq(tree.live)
    <3>1. callstack \in Seq(AboveKind(cur, "call")) /\ optstack \in Seq(DOMAIN tree.node)
      BY <2>1 DEF ContextInv
    <3>2. AboveKind(cur, "call") \in SUBSET tree.live
      BY <2>4
    <3> QED
      BY <3>1, <3>2, SeqWider
  <2>6. {boolif, macro} \subseteq {0} \cup tree.live
    BY <2>1, <2>4 DEF ContextInv
  <2>7. ToSet(ins) \subseteq {0} \cup DOMAIN tree.node
    BY <2>1 DEF TypeInv, ToSet
  <2>8. /\ abstract \cup disabled \subseteq DOMAIN tree.node
        /\ status \in {"walk", "ins", "ok", "err", "undefined", "diverges"}
        /\ pass \in TIF..CALL1
        /\ cur \in tree.live
        /\ at \in {"visit", "down", "heirs", "over"}
        /\ item \in Nat \ {0}
        /\ resolved \in BOOLEAN
    BY <2>1 DEF TypeInv
  <2> QED
    BY <2>2, <2>3, <2>5, <2>6, <2>7, <2>8 DEF TypeOK
<1> QED
  BY <1>1, Always, PTL

(* What the helpers of the walk know of the place it is at is true of it:  *)
(* the stacks of optionals and calls, and whether it is in a booleanif or, *)
(* unless a macro was copied into a macro, in a macro                      *)
(* (__cil_resolve_ast_first_child_helper, .._last_child_helper).           *)
THEOREM ContextTheorem ==
  Spec => []ContextExact
<1>1. ASSUME ExpandInv PROVE ContextExact
  <2> DEFINE optionals == AboveKind(cur, "optional")
             calls == AboveKind(cur, "call")
             macros == AboveKind(cur, "macro")
  <2>1. TypeInv /\ ContextInv /\ TreeOK(tree) /\ cur \in tree.live
    BY <1>1 DEF ExpandInv, TypeInv
  <2>2. optionals \subseteq DOMAIN tree.node /\ calls \subseteq DOMAIN tree.node
    <3>1. Above(tree.node, cur) \subseteq tree.live /\ tree.live \subseteq DOMAIN tree.node
      BY <2>1, AboveLive, TreeHere
    <3> QED
      BY <3>1 DEF AboveKind
  <2>3. /\ Len(optstack) = Cardinality(optionals)
        /\ \A n \in optionals : optstack[Depth(n, optionals)] = tree.node[n].datum
    <3>1. IsStack(optstack, optionals, Data)
      BY <2>1 DEF ContextInv
    <3>2. \A n \in optionals : Data[n] = tree.node[n].datum
      BY <2>2 DEF Data
    <3> HIDE DEF optionals
    <3> QED
      BY <3>1, <3>2 DEF IsStack
  <2>4. /\ Len(callstack) = Cardinality(calls)
        /\ \A n \in calls : callstack[Depth(n, calls)] = n
    <3> DEFINE V == [n \in DOMAIN tree.node |-> n]
    <3>1. IsStack(callstack, calls, V)
      BY <2>1 DEF ContextInv
    <3>2. \A n \in calls : V[n] = n
      BY <2>2
    <3> HIDE DEF calls, V
    <3> QED
      BY <3>1, <3>2 DEF IsStack
  <2>5. (boolif # 0) = (AboveKind(cur, "booleanif") # {})
    BY <2>1 DEF ContextInv
  <2>6. /\ macro \in {0} \cup macros
        /\ macro = 0 /\ macros # {} =>
             \E n \in tree.live : tree.node[n].kind = "macro" /\ AboveKind(n, "macro") # {}
    BY <2>1 DEF ContextInv, LeftInner
  <2> QED
    BY <2>3, <2>4, <2>5, <2>6 DEF ContextExact
<1> QED
  BY <1>1, Always, PTL

(* The tree that the later passes go through has no macro or tunable in an *)
(* optional and only what is allowed in booleanifs, whatever was copied or *)
(* moved where after the statement was looked at                           *)
(* (__cil_resolve_ast_node_helper).                                        *)
THEOREM NestingTheorem ==
  Spec => []NestingAllowed
<1>1. ExpandInv => NestingAllowed
  BY DEF ExpandInv, NestingInv, NestingAllowed
<1> QED
  BY <1>1, Always, PTL
=============================================================================
