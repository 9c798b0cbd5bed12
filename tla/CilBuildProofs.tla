--------------------------- MODULE CilBuildProofs ---------------------------
(***************************************************************************)
(* What the AST builder makes of a text, for every text: the four safety   *)
(* properties of CilBuild from one invariant of its walk.                  *)
(***************************************************************************)
EXTENDS CilBuild, NumberLemmas

Keyword == DOMAIN Sym \cup Container \cup Constraint \cup Rule
Main(n) == node[n].flavor # "perm"
StmtOf(n) == node[n].stmt
NodeType == [flavor : Keyword \cup {"root", "perm"}, stmt : Nat, parent : Nat]

BuildTypes ==
  /\ text \in Texts /\ preserve \in BOOLEAN /\ status \in {"walk", "ok", "err"}
  /\ cur \in 1..(Len(text) + 1)
  /\ node \in Seq(NodeType)
  /\ node # <<>> /\ node[1] = [flavor |-> "root", stmt |-> 0, parent |-> 0]
  /\ ast \in DOMAIN node /\ Main(ast)
  /\ \A n \in DOMAIN node \ {1} :
       /\ node[n].parent \in 1..(n - 1) /\ Main(node[n].parent)
       /\ node[n].stmt \in 1..(cur - 1)
  /\ status = "ok" => ast = 1 /\ cur = Len(text) + 1

(* Nodes stand in the order of their statements *)
Ordered == \A m, n \in DOMAIN node : m < n /\ Main(n) => StmtOf(m) < StmtOf(n)

(* What a statement has become *)
NodeOf(n, s) ==
  /\ Main(n) /\ node[n].stmt = s /\ node[n].flavor = Flavor(text[s].kw)
  /\ StmtOf(node[n].parent) = Within(s)
  /\ \A i \in DOMAIN text[s].perms : /\ n + i \in DOMAIN node
                                     /\ node[n + i] = [flavor |-> "perm", stmt |-> s, parent |-> n]
Made == \A s \in 1..(cur - 1) : \E n \in DOMAIN node \ {1} : NodeOf(n, s)

(* The nodes above a node are those of the statements around its statement *)
Chained ==
  \A m, n \in DOMAIN node :
    Main(n) => (m \in Upwards[n] <=> Main(m) /\ StmtOf(m) \in {0, StmtOf(n)} \cup Enclosing(StmtOf(n)))

(* Where the walk is: exactly the statements of the nodes above it are open *)
Open(s) == s \in {StmtOf(ast)} \cup Enclosing(StmtOf(ast))
Placed ==
  \A s \in 1..(cur - 1) : /\ text[s].last >= cur => Open(s)
                          /\ Open(s) => cur <= text[s].last + 1

(* What was passed was right, but for what nested tunableifs hide *)
Right ==
  \A s \in 1..(cur - 1) : ~ Wrong(s) /\ (~ preserve /\ "booleanif" \in Kinds(s) => text[s].kw \in InBooleanif)

EntryOf(d) == <<StmtOf(d.scope), d.sym, d.name, StmtOf(d.datum)>>
Declared(n) == <<Space(n), Sym[Flavor(text[n].kw)], text[n].name, n>>
Entries ==
  /\ \A d \in table : d.scope \in DOMAIN node /\ Main(d.scope) /\ d.datum \in DOMAIN node
  /\ \A d \in table : \E n \in 1..(cur - 1) : Declares(n) /\ EntryOf(d) = Declared(n)
  /\ \A n \in 1..(cur - 1) : Declares(n) => \E d \in table : EntryOf(d) = Declared(n)

(* What the walk knows of the containers it is in *)
IsIn(flavor, known) == known = 0 \/ (known \in Upwards[ast] /\ node[known].flavor = flavor)
Knows ==
  /\ IsIn("macro", macro) /\ IsIn("booleanif", boolif) /\ IsIn("tunableif", tunif) /\ IsIn("in", in)
  /\ \A m \in Upwards[ast] :
       ~ preserve /\ node[m].flavor = "booleanif" /\ (\E n \in DOMAIN node : node[n].parent = m)
         => boolif = m

BuildInv == /\ BuildTypes /\ Ordered /\ Made /\ Chained /\ Placed /\ Right /\ Entries /\ Knows
            /\ RefusedRightly
-----------------------------------------------------------------------------
(* The nodes above a node *)

IsForest(t) ==
  /\ Len(t) \in Nat /\ DOMAIN t = 1..Len(t)
  /\ \A n \in DOMAIN t \ {1} : t[n].parent \in 1..(n - 1)

(* The least set that holds n and the parent of each of its members *)
Closed(t, S) == \A k \in S \ {1} : t[k].parent \in S
Closure(t, n) == {m \in 1..n : \A S \in SUBSET (1..n) : n \in S /\ Closed(t, S) => m \in S}

(* What is above a node: itself, and what is above its parent               *)
LEMMA ClosureOf ==
  ASSUME NEW t, IsForest(t), NEW n \in DOMAIN t
  PROVE  Closure(t, n) = {n} \cup (IF n = 1 THEN {} ELSE Closure(t, t[n].parent))
<1>1. DOMAIN t \subseteq Nat \ {0} /\ \A k \in DOMAIN t \ {1} : t[k].parent \in 1..(k - 1)
  BY DEF IsForest
<1>2. n \in Closure(t, n)
  BY <1>1 DEF Closure
<1>3. CASE n = 1
  <2>1. \A m \in 1..1 : m = 1
    OBVIOUS
  <2> QED
    BY <1>2, <1>3, <2>1 DEF Closure
<1>4. CASE n # 1
  <2> DEFINE p == t[n].parent
  <2>1. /\ p \in Nat /\ p < n /\ 1 <= p /\ n \in Nat /\ 1..p \subseteq DOMAIN t
      /\ 1..p \subseteq 1..n /\ n \in 1..n
    BY <1>1, <1>4 DEF IsForest
  <2> HIDE DEF p
  <2>2. ASSUME NEW m \in Closure(t, p) PROVE m \in Closure(t, n)
    <3>1. m \in 1..p /\ m \in 1..n
      BY <2>1 DEF Closure
    <3>2. ASSUME NEW S \in SUBSET (1..n), n \in S, Closed(t, S) PROVE m \in S
      <4> DEFINE T == S \cap (1..p)
      <4>1. p \in S
        BY <1>4, <3>2 DEF Closed, p
      <4>2. T \in SUBSET (1..p) /\ p \in T
        BY <2>1, <4>1
      <4>3. ASSUME NEW k \in T \ {1} PROVE t[k].parent \in T
        <5>1. t[k].parent \in S /\ t[k].parent \in 1..(k - 1) /\ k \in 1..p
          BY <1>1, <2>1, <3>2 DEF Closed
        <5> QED
          BY <2>1, <5>1
      <4>4. Closed(t, T)
        BY <4>3 DEF Closed
      <4>5. m \in T
        <5> HIDE DEF T
        <5> QED
          BY <4>2, <4>4 DEF Closure
      <4> QED
        BY <4>5
    <3> QED
      BY <3>1, <3>2 DEF Closure
  <2>3. ASSUME NEW m \in Closure(t, n), m # n PROVE m \in Closure(t, p)
    <3>1. ASSUME NEW S \in SUBSET (1..p), p \in S, Closed(t, S) PROVE m \in S
      <4> DEFINE T == S \cup {n}
      <4>1. T \in SUBSET (1..n) /\ n \in T
        BY <2>1
      <4>2. Closed(t, T)
        BY <3>1 DEF Closed, p
      <4>3. m \in T
        <5> HIDE DEF T
        <5> QED
          BY <4>1, <4>2 DEF Closure
      <4> QED
        BY <2>3, <4>3
    <3>2. m \in 1..p
      <4>1. Closed(t, 1..p)
        <5> SUFFICES ASSUME NEW k \in (1..p) \ {1} PROVE t[k].parent \in 1..p
          BY DEF Closed
        <5>1. t[k].parent \in 1..(k - 1)
          BY <1>1, <2>1
        <5> QED
          BY <2>1, <5>1
      <4>2. p \in 1..p /\ 1..p \in SUBSET (1..p)
        BY <2>1
      <4> DEFINE S == 1..p
      <4>3. S \in SUBSET (1..p) /\ p \in S /\ Closed(t, S)
        BY <4>1, <4>2
      <4>4. m \in S
        BY <3>1, <4>3
      <4> QED
        BY <4>4
    <3> QED
      BY <3>1, <3>2 DEF Closure
  <2>4. Closure(t, n) = {n} \cup Closure(t, p)
    BY <1>2, <2>2, <2>3
  <2> QED
    BY <1>4, <2>4 DEF p
<1> QED
  BY <1>3, <1>4

(* Upwards is what it says of itself, and the least such thing. *)
LEMMA UpwardsIs ==
  ASSUME IsForest(node), NEW n \in DOMAIN node
  PROVE  Upwards[n] = Closure(node, n)
<1> DEFINE D == DOMAIN node
           g == [k \in D |-> Closure(node, k)]
<1>1. D \subseteq Nat \ {0} /\ \A k \in D \ {1} : node[k].parent \in D /\ node[k].parent < k
  BY DEF IsForest
<1>2. g = [k \in D |-> {k} \cup (IF k = 1 THEN {} ELSE g[node[k].parent])]
  <2> SUFFICES ASSUME NEW k \in D
               PROVE  Closure(node, k) = {k} \cup (IF k = 1 THEN {} ELSE g[node[k].parent])
    OBVIOUS
  <2>1. k # 1 => g[node[k].parent] = Closure(node, node[k].parent)
    BY <1>1
  <2> QED
    BY <2>1, ClosureOf
<1>3. Upwards = [k \in D |-> {k} \cup (IF k = 1 THEN {} ELSE Upwards[node[k].parent])]
  <2> HIDE DEF g
  <2> QED
    BY <1>2 DEF Upwards
<1> DEFINE bad == {k \in D : Upwards[k] # Closure(node, k)}
<1>4. SUFFICES ASSUME bad # {} PROVE FALSE
  OBVIOUS
<1>5. PICK b \in bad : \A k \in bad : b <= k
  <2>1. bad \in SUBSET Nat
    BY <1>1
  <2> HIDE DEF bad
  <2> QED
    BY <1>4, <2>1, MinIn
<1>6. b = 1 \/ Upwards[node[b].parent] = Closure(node, node[b].parent)
  <2> SUFFICES ASSUME b # 1 PROVE Upwards[node[b].parent] = Closure(node, node[b].parent)
    OBVIOUS
  <2>1. node[b].parent \in D /\ node[b].parent < b /\ b \in Nat /\ node[b].parent \in Nat
    BY <1>1
  <2> QED
    BY <1>5, <2>1
<1>7. Upwards[b] = {b} \cup (IF b = 1 THEN {} ELSE Upwards[node[b].parent])
  BY <1>3
<1>8. Upwards[b] = Closure(node, b)
  BY <1>6, <1>7, ClosureOf
<1> QED
  BY <1>8

(* The recursive function is the least closed set, in any forest            *)
LEMMA UpwardsLaw == IsForest(node) => \A n \in DOMAIN node : Upwards[n] = Closure(node, n)
BY UpwardsIs

(* And in the next state                                                    *)
LEMMA UpwardsLawNext == (IsForest(node) => \A n \in DOMAIN node : Upwards[n] = Closure(node, n))'
BY UpwardsLaw, PTL

(* The tree that is built is a forest whose root is node 1                  *)
LEMMA ForestHere ==
  ASSUME BuildTypes
  PROVE  IsForest(node) /\ 1 \in DOMAIN node /\ Main(1) /\ StmtOf(1) = 0
BY DEF BuildTypes, IsForest, Main, StmtOf

(* What is above a node by way of its parent                                *)
LEMMA UpwardsStep ==
  ASSUME IsForest(node), NEW n \in DOMAIN node
  PROVE  /\ Upwards[n] = {n} \cup (IF n = 1 THEN {} ELSE Upwards[node[n].parent])
         /\ Upwards[n] \subseteq 1..n
<1>1. n # 1 => node[n].parent \in DOMAIN node
  BY DEF IsForest
<1>2. n # 1 => Upwards[node[n].parent] = Closure(node, node[n].parent)
  BY <1>1, UpwardsIs
<1> QED
  BY <1>2, UpwardsIs, ClosureOf DEF Closure

(* The same for the tree that is built                                      *)
LEMMA UpwardsOf ==
  BuildTypes => /\ IsForest(node)
                /\ \A n \in DOMAIN node :
                     Upwards[n] = {n} \cup (IF n = 1 THEN {} ELSE Upwards[node[n].parent])
BY ForestHere, UpwardsStep

(* And for the tree of the next state                                       *)
LEMMA UpwardsOfNext ==
  (BuildTypes => /\ IsForest(node)
                 /\ \A n \in DOMAIN node :
                      Upwards[n] = {n} \cup (IF n = 1 THEN {} ELSE Upwards[node[n].parent]))'
BY UpwardsOf, PTL

(* What is above another node has a child. *)
LEMMA AboveHasChild ==
  ASSUME IsForest(node), NEW n \in DOMAIN node, NEW m \in Upwards[n], m # n
  PROVE  \E k \in DOMAIN node : node[k].parent = m
<1> DEFINE S == {k \in 1..n : k = n \/ \E j \in DOMAIN node : node[j].parent = k}
<1>1. n \in S /\ S \in SUBSET (1..n)
  BY DEF IsForest
<1>2. Closed(node, S)
  <2> SUFFICES ASSUME NEW k \in S \ {1} PROVE node[k].parent \in S
    BY DEF Closed
  <2>1. k \in DOMAIN node \ {1} /\ k \in 1..n /\ n \in Nat
    BY DEF IsForest
  <2>2. node[k].parent \in 1..(k - 1)
    BY <2>1 DEF IsForest
  <2>3. node[k].parent \in 1..n
    BY <2>1, <2>2
  <2> QED
    BY <2>1, <2>3
<1>3. m \in S
  <2> HIDE DEF S
  <2> QED
    BY <1>1, <1>2, UpwardsIs DEF Closure
<1> QED
  BY <1>3

(* New nodes change nothing above the old ones. *)
LEMMA UpwardsStay ==
  ASSUME IsForest(node), IsForest(node'), DOMAIN node \subseteq DOMAIN node',
         \A k \in DOMAIN node : node'[k].parent = node[k].parent
  PROVE  \A n \in DOMAIN node : Upwards'[n] = Upwards[n]
<1> SUFFICES ASSUME NEW n \in DOMAIN node PROVE Upwards'[n] = Upwards[n]
  OBVIOUS
<1>1. Upwards[n] = Closure(node, n)
  BY UpwardsIs
<1>2. Upwards'[n] = Closure(node', n)
  <2>1. n \in DOMAIN node'
    OBVIOUS
  <2> QED
    BY <2>1, UpwardsLawNext
<1>3. \A S \in SUBSET (1..n) : Closed(node', S) <=> Closed(node, S)
  <2>1. 1..n \subseteq DOMAIN node
    BY DEF IsForest
  <2> QED
    BY <2>1 DEF Closed
<1>4. Closure(node', n) = Closure(node, n)
  BY <1>3 DEF Closure
<1> QED
  BY <1>1, <1>2, <1>4
-----------------------------------------------------------------------------
(* The text *)

(* Lists of the text nest                                                   *)
LEMMA TextHere ==
  ASSUME BuildTypes
  PROVE  /\ IsText(text) /\ Len(text) \in Nat /\ DOMAIN text = 1..Len(text)
         /\ \A n \in DOMAIN text :
              /\ text[n] \in Statement /\ text[n].last \in Nat
              /\ n <= text[n].last /\ text[n].last <= Len(text)
              /\ \A m \in DOMAIN text : n <= m /\ m <= text[n].last => text[m].last <= text[n].last
<1>1. IsText(text)
  BY TextsAssumption DEF BuildTypes
<1>2. text \in Seq(Statement) /\ IsNested(text)
  BY <1>1 DEF IsText
<1>3. Len(text) \in Nat /\ DOMAIN text = 1..Len(text) /\ \A n \in DOMAIN text : text[n] \in Statement
  BY <1>2
<1>4. \A n \in DOMAIN text : text[n].last \in Nat
  BY <1>3 DEF Statement
<1>5. ASSUME NEW n \in DOMAIN text
      PROVE  /\ n <= text[n].last /\ text[n].last <= Len(text)
             /\ \A m \in DOMAIN text : n <= m /\ m <= text[n].last => text[m].last <= text[n].last
  <2>1. text[n].last \in n..Len(text) /\ \A m \in n..text[n].last : text[m].last <= text[n].last
    BY <1>2 DEF IsNested
  <2>2. \A m \in DOMAIN text : n <= m /\ m <= text[n].last => m \in n..text[n].last
    BY <1>3, <1>4
  <2> QED
    BY <1>3, <2>1, <2>2
<1> QED
  BY <1>1, <1>3, <1>4, <1>5

(* The statements around n are the innermost one and those around that. *)
LEMMA EnclosingWithin ==
  ASSUME BuildTypes, NEW n \in DOMAIN text
  PROVE  /\ Enclosing(n) \subseteq 1..(n - 1) /\ Enclosing(n) \subseteq DOMAIN text
         /\ Within(n) = 0 => Enclosing(n) = {}
         /\ Within(n) # 0 => /\ Within(n) \in Enclosing(n)
                             /\ Enclosing(n) = {Within(n)} \cup Enclosing(Within(n))
<1>1. n \in Nat /\ n <= Len(text) /\ Len(text) \in Nat /\ 1 <= n
  BY TextHere
<1>2. Enclosing(n) \subseteq 1..(n - 1) /\ Enclosing(n) \subseteq DOMAIN text
  BY <1>1, TextHere DEF Enclosing
<1>3. CASE Enclosing(n) = {}
  BY <1>2, <1>3 DEF Within
<1>4. CASE Enclosing(n) # {}
  <2>1. Within(n) \in Enclosing(n) /\ \A m \in Enclosing(n) : m <= Within(n)
    <3>1. Enclosing(n) \in SUBSET Nat /\ \A m \in Enclosing(n) : m <= n
      BY <1>1, <1>2
    <3> QED
      BY <1>1, <1>4, <3>1, MaxIn DEF Within
  <2> DEFINE w == Within(n)
  <2>2. w \in DOMAIN text /\ w \in 1..(n - 1) /\ n <= text[w].last /\ w \in Nat /\ w < n
    BY <1>1, <1>2, <2>1 DEF Enclosing
  <2>3. ASSUME NEW m \in Enclosing(n), m # w PROVE m \in Enclosing(w)
    <3>1. m \in 1..(n - 1) /\ n <= text[m].last /\ m <= w /\ m \in DOMAIN text /\ text[m].last \in Nat
      BY <1>2, <2>1, TextHere DEF Enclosing
    <3>2. m \in 1..(w - 1) /\ w <= text[m].last
      BY <1>1, <2>2, <2>3, <3>1
    <3> QED
      BY <3>2 DEF Enclosing
  <2>4. ASSUME NEW m \in Enclosing(w) PROVE m \in Enclosing(n)
    <3>1. m \in 1..(w - 1) /\ w <= text[m].last
      BY DEF Enclosing
    <3>2. m \in DOMAIN text /\ m <= w /\ m \in 1..(n - 1)
      BY <1>1, <2>2, <3>1, TextHere
    <3>3. text[w].last <= text[m].last /\ text[w].last \in Nat /\ text[m].last \in Nat
      BY <2>2, <3>1, <3>2, TextHere
    <3>4. n <= text[m].last
      BY <1>1, <2>2, <3>3
    <3> QED
      BY <3>2, <3>4 DEF Enclosing
  <2> QED
    BY <1>2, <2>1, <2>2, <2>3, <2>4
<1> QED
  BY <1>3, <1>4

(* Before a statement is looked at, the walk is below the node of the       *)
(* innermost statement around it.                                           *)
LEMMA AroundCur ==
  ASSUME BuildTypes, Placed, ~ Closing, cur \in DOMAIN text
  PROVE  /\ Within(cur) = StmtOf(ast)
         /\ Enclosing(cur) = ({StmtOf(ast)} \cup Enclosing(StmtOf(ast))) \ {0}
<1> DEFINE a == StmtOf(ast)
<1>1. cur \in Nat /\ 1 <= cur /\ a \in Nat /\ a < cur /\ (a = 0 <=> ast = 1) /\ (a # 0 => a \in DOMAIN text)
  <2>1. cur \in Nat /\ 1 <= cur /\ a \in Nat
    BY TextHere DEF BuildTypes, StmtOf
  <2>2. ast # 1 => a \in 1..(cur - 1)
    BY DEF BuildTypes, StmtOf
  <2>3. ast = 1 => a = 0
    BY ForestHere
  <2> QED
    BY <2>1, <2>2, <2>3, TextHere
<1>2. CASE a = 0
  <2>1. Enclosing(a) = {}
    BY <1>2 DEF Enclosing
  <2>2. \A s \in 1..(cur - 1) : ~ (text[s].last >= cur)
    BY <1>1, <1>2, <2>1 DEF Placed, Open
  <2>3. Enclosing(cur) = {}
    <3> SUFFICES ASSUME NEW s \in 1..(cur - 1), cur <= text[s].last PROVE FALSE
      BY DEF Enclosing
    <3>1. text[s].last \in Nat
      BY <1>1, TextHere
    <3> QED
      BY <1>1, <2>2, <3>1
  <2> QED
    BY <1>2, <2>1, <2>3 DEF Within
<1>3. CASE a # 0
  <2>1. cur <= text[a].last /\ text[a].last \in Nat
    BY <1>1, <1>3, TextHere DEF Closing, StmtOf
  <2>2. Enclosing(a) \subseteq 1..(a - 1)
    BY <1>1, <1>3, EnclosingWithin
  <2>3. ASSUME NEW s \in Enclosing(cur) PROVE s \in {a} \cup Enclosing(a)
    <3>1. s \in 1..(cur - 1) /\ cur <= text[s].last /\ text[s].last \in Nat
      BY <1>1, EnclosingWithin, TextHere DEF Enclosing
    <3> QED
      BY <1>1, <3>1 DEF Placed, Open
  <2>4. ASSUME NEW s \in {a} \cup Enclosing(a) PROVE s \in Enclosing(cur) /\ s <= a
    <3>1. s \in 1..(cur - 1) /\ s \in DOMAIN text /\ s <= a
      BY <1>1, <1>3, <2>2, TextHere
    <3>2. a <= text[s].last
      BY <1>1, <2>1, <1>3, TextHere DEF Enclosing
    <3>3. text[a].last <= text[s].last /\ text[s].last \in Nat
      BY <1>1, <1>3, <3>1, <3>2, TextHere
    <3>4. cur <= text[s].last
      BY <1>1, <2>1, <3>3
    <3> QED
      BY <3>1, <3>4 DEF Enclosing
  <2>5. 0 \notin {a} \cup Enclosing(a)
    BY <1>3, <2>2
  <2>6. Enclosing(cur) = {a} \cup Enclosing(a)
    BY <2>3, <2>4
  <2>7. Within(cur) # 0
    <3>1. Within(cur) = 0 => Enclosing(cur) = {}
      BY EnclosingWithin
    <3> QED
      BY <2>6, <3>1
  <2>8. Within(cur) \in Enclosing(cur)
    BY <2>7, EnclosingWithin
  <2>9. Within(cur) <= a
    BY <2>4, <2>6, <2>8
  <2>10. a <= Within(cur)
    <3>1. a = Within(cur) \/ a \in Enclosing(Within(cur))
      BY <2>6, <2>7, EnclosingWithin
    <3>2. a \in Enclosing(Within(cur)) => a \in 1..(Within(cur) - 1)
      BY DEF Enclosing
    <3> QED
      BY <1>1, <3>1, <3>2, <2>8, EnclosingWithin
  <2> QED
    BY <1>1, <2>5, <2>6, <2>8, <2>9, <2>10, EnclosingWithin
<1> QED
  BY <1>2, <1>3
-----------------------------------------------------------------------------
(* Keywords, flavors and nodes *)

DeclarationKind ==
  {"block", "macro", "optional", "class", "classmap", "common", "classpermission", "sid", "user",
   "role", "roleattribute", "type", "typeattribute", "typealias", "bool", "tunable", "sensitivity",
   "sensitivityalias", "category", "categoryalias", "categoryset", "level", "levelrange", "context",
   "policycap", "ipaddr"}

(* The keywords that declare something are those with a table               *)
LEMMA SymDomain == DOMAIN Sym = DeclarationKind
BY DEF Sym, DeclarationKind

(* The kinds of statements have no keyword in common but those that declare *)
(* what they contain, and a node has no other flavor.                       *)
LEMMA KeywordKinds ==
  /\ Rule \cap (DeclarationKind \cup Container \cup Constraint \cup ClassKind) = {}
  /\ Constraint \cap (DeclarationKind \cup Container) = {}
  /\ DeclarationKind \cap Container = {"block", "optional", "macro"}
  /\ ClassKind \subseteq DeclarationKind \ Container
  /\ "perm" \notin Keyword /\ "root" \notin Keyword
<1>1. Rule \cap (DeclarationKind \cup Container \cup Constraint \cup ClassKind) = {}
  BY DEF Rule, DeclarationKind, Container, Constraint, ClassKind, Condition, Conditional
<1>2. Constraint \cap (DeclarationKind \cup Container) = {}
  BY DEF Constraint, DeclarationKind, Container, Condition, Conditional
<1>3. DeclarationKind \cap Container = {"block", "optional", "macro"}
  BY DEF DeclarationKind, Container, Condition, Conditional
<1>4. ClassKind \subseteq DeclarationKind \ Container
  BY DEF ClassKind, DeclarationKind, Container, Condition, Conditional
<1>5. /\ "perm" \notin DeclarationKind \cup Container \cup Constraint
      /\ "root" \notin DeclarationKind \cup Container \cup Constraint
  BY DEF DeclarationKind, Container, Constraint, Condition, Conditional
<1>6. "perm" \notin Rule /\ "root" \notin Rule
  BY DEF Rule
<1> QED
  BY <1>1, <1>2, <1>3, <1>4, <1>5, <1>6, SymDomain DEF Keyword

(* The flavor of a node is its keyword, but for preserved tunables          *)
LEMMA FlavorOf ==
  ASSUME NEW kw
  PROVE  /\ kw \notin {"tunable", "tunableif"} => Flavor(kw) = kw
         /\ ~ preserve => Flavor(kw) = kw
         /\ kw = "tunable" => Flavor(kw) \in {"tunable", "bool"}
         /\ kw = "tunableif" => Flavor(kw) \in {"tunableif", "booleanif"}
         /\ kw \in Keyword => Flavor(kw) \in Keyword
<1>1. kw \notin {"tunable", "tunableif"} => Flavor(kw) = kw
  BY Zenon DEF Flavor
<1>2. ~ preserve => Flavor(kw) = kw
  BY Zenon DEF Flavor
<1>3. kw = "tunable" => Flavor(kw) \in {"tunable", "bool"}
  <2>1. "tunable" # "tunableif"
    OBVIOUS
  <2> QED
    BY <2>1, Zenon DEF Flavor
<1>4. kw = "tunableif" => Flavor(kw) \in {"tunableif", "booleanif"}
  <2>1. "tunable" # "tunableif"
    OBVIOUS
  <2> QED
    BY <2>1, Zenon DEF Flavor
<1>5. {"tunable", "bool", "tunableif", "booleanif"} \subseteq Keyword
  BY SymDomain DEF Keyword, DeclarationKind, Container, Conditional
<1>6. kw \in Keyword => Flavor(kw) \in Keyword
  <2>1. kw \in {"tunable", "tunableif"} => Flavor(kw) \in Keyword
    BY <1>3, <1>4, <1>5
  <2> QED
    BY <1>1, <2>1
<1> QED
  BY <1>1, <1>2, <1>3, <1>4, <1>6

(* Which flavors stand for which keywords. *)
LEMMA FlavorIs ==
  ASSUME NEW kw
  PROVE  /\ \A f \in {"block", "macro", "in"} \cup Condition : Flavor(kw) = f <=> kw = f
         /\ Flavor(kw) \in Conditional <=> kw \in Conditional
         /\ ~ preserve => (Flavor(kw) = "booleanif" <=> kw = "booleanif")
<1>1. CASE kw \notin {"tunable", "tunableif"}
  <2>1. Flavor(kw) = kw
    BY <1>1, FlavorOf
  <2> QED
    BY <2>1
<1>2. CASE kw = "tunable"
  BY <1>2, FlavorOf DEF Condition, Conditional
<1>3. CASE kw = "tunableif"
  <2>1. Flavor(kw) \in {"tunableif", "booleanif"} /\ (~ preserve => Flavor(kw) = kw)
    BY <1>3, FlavorOf
  <2> QED
    BY <1>3, <2>1 DEF Condition, Conditional
<1> QED
  BY <1>1, <1>2, <1>3

(* A statement has one node. *)
LEMMA OneNode ==
  ASSUME BuildTypes, Ordered, NEW m \in DOMAIN node, NEW n \in DOMAIN node, Main(m), Main(n),
         StmtOf(m) = StmtOf(n)
  PROVE  m = n
<1>1. m \in Nat /\ n \in Nat /\ StmtOf(m) \in Nat
  <2>1. m = 1 \/ StmtOf(m) \in 1..(cur - 1)
    BY DEF BuildTypes, StmtOf
  <2> QED
    BY <2>1, ForestHere DEF IsForest
<1>2. ~ (m < n) /\ ~ (n < m)
  BY <1>1 DEF Ordered
<1> QED
  BY <1>1, <1>2

(* The main node of a statement is a node made for it                       *)
LEMMA MainIs ==
  ASSUME BuildTypes, Ordered, Made, NEW m \in DOMAIN node \ {1}, Main(m)
  PROVE  NodeOf(m, StmtOf(m)) /\ StmtOf(m) \in 1..(cur - 1) /\ StmtOf(m) \in DOMAIN text
<1>1. StmtOf(m) \in 1..(cur - 1)
  BY DEF BuildTypes, StmtOf
<1>2. PICK n \in DOMAIN node \ {1} : NodeOf(n, StmtOf(m))
  BY <1>1 DEF Made
<1>3. n = m
  BY <1>2, OneNode DEF NodeOf, StmtOf
<1>4. StmtOf(m) \in DOMAIN text
  <2>1. cur \in 1..(Len(text) + 1)
    BY DEF BuildTypes
  <2> QED
    BY <1>1, <2>1, TextHere
<1> QED
  BY <1>1, <1>2, <1>3, <1>4

(* The nodes above the walk are those of the statements around the next one. *)
LEMMA StackIs ==
  ASSUME BuildTypes, Ordered, Made, Chained, Placed, ~ Closing, cur \in DOMAIN text
  PROVE  /\ \A m \in Upwards[ast] \ {1} : /\ m \in DOMAIN node /\ NodeOf(m, StmtOf(m))
                                           /\ StmtOf(m) \in Enclosing(cur)
         /\ \A s \in Enclosing(cur) : \E m \in Upwards[ast] \ {1} : NodeOf(m, s)
         /\ 1 \in Upwards[ast] /\ Upwards[ast] \subseteq DOMAIN node
<1>1. /\ IsForest(node) /\ 1 \in DOMAIN node /\ ast \in DOMAIN node /\ Main(ast) /\ Main(1) /\ StmtOf(1) = 0
  BY ForestHere DEF BuildTypes
<1>2. Upwards[ast] \subseteq DOMAIN node
  <2>1. Upwards[ast] \subseteq 1..ast
    BY <1>1, UpwardsStep
  <2> QED
    BY <1>1, <2>1 DEF IsForest
<1>3. \A m \in DOMAIN node : m \in Upwards[ast] <=> Main(m) /\ StmtOf(m) \in {0} \cup Enclosing(cur)
  <2>1. Enclosing(cur) = ({StmtOf(ast)} \cup Enclosing(StmtOf(ast))) \ {0}
    BY AroundCur
  <2> QED
    BY <1>1, <2>1 DEF Chained
<1>4. ASSUME NEW m \in Upwards[ast] \ {1}
      PROVE  m \in DOMAIN node /\ NodeOf(m, StmtOf(m)) /\ StmtOf(m) \in Enclosing(cur)
  <2>1. m \in DOMAIN node \ {1} /\ Main(m) /\ StmtOf(m) \in {0} \cup Enclosing(cur)
    BY <1>2, <1>3
  <2>2. NodeOf(m, StmtOf(m)) /\ StmtOf(m) \in 1..(cur - 1)
    BY <2>1, MainIs
  <2> QED
    BY <2>1, <2>2
<1>5. ASSUME NEW s \in Enclosing(cur) PROVE \E m \in Upwards[ast] \ {1} : NodeOf(m, s)
  <2>1. s \in 1..(cur - 1)
    BY DEF Enclosing
  <2>2. PICK m \in DOMAIN node \ {1} : NodeOf(m, s)
    BY <2>1 DEF Made
  <2> QED
    BY <1>3, <2>2 DEF NodeOf, StmtOf
<1> QED
  BY <1>1, <1>2, <1>3, <1>4, <1>5
-----------------------------------------------------------------------------
(* What the walk knows at a statement is what the text says of it *)

AtStatement == BuildInv /\ status = "walk" /\ ~ Closing /\ cur \in DOMAIN text

(* The tables the walk finds are those of the text. *)
LEMMA ScopeIs ==
  ASSUME AtStatement
  PROVE  Scope(ast) \in DOMAIN node /\ Main(Scope(ast)) /\ StmtOf(Scope(ast)) = Space(cur)
<1> DEFINE U == Upwards[ast]
           Q == {m \in U : \/ node[m].flavor \in {"root", "block", "macro", "in"}
                           \/ node[m].flavor \in Condition /\ node[node[m].parent].flavor = "tunableif"}
           here(m) == \/ text[m].kw \in {"block", "macro", "in"}
                      \/ text[m].kw \in Condition /\ Flavor(text[Within(m)].kw) = "tunableif"
           P == {0} \cup {m \in Enclosing(cur) : here(m)}
<1> USE DEF AtStatement, BuildInv
<1>1. /\ \A m \in U \ {1} : m \in DOMAIN node /\ NodeOf(m, StmtOf(m)) /\ StmtOf(m) \in Enclosing(cur)
      /\ \A s \in Enclosing(cur) : \E m \in U \ {1} : NodeOf(m, s)
      /\ 1 \in U /\ U \subseteq DOMAIN node
  BY StackIs
<1>2. /\ DOMAIN node = 1..Len(node) /\ Len(node) \in Nat /\ node[1].flavor = "root"
      /\ node[1].stmt = 0 /\ cur \in Nat
  BY ForestHere, TextHere DEF BuildTypes, IsForest
<1>3. ASSUME NEW m \in U \ {1} PROVE m \in Q <=> here(StmtOf(m))
  <2> DEFINE s == StmtOf(m)
             kw == text[s].kw
  <2>1. m \in DOMAIN node \ {1} /\ NodeOf(m, s) /\ node[m].flavor = Flavor(kw) /\ s \in Enclosing(cur)
    BY <1>1 DEF NodeOf
  <2>2. s \in DOMAIN text /\ s \in 1..(cur - 1) /\ ~ Wrong(s)
    BY <2>1, EnclosingWithin DEF Right
  <2>3. kw \in Keyword
    BY <2>2 DEF Wrong, Keyword
  <2>4. node[m].flavor # "root"
    BY <2>1, <2>3, FlavorOf, KeywordKinds
  <2>5. node[m].flavor \in {"block", "macro", "in"} <=> kw \in {"block", "macro", "in"}
    BY <2>1, FlavorIs
  <2>6. node[m].flavor \in Condition <=> kw \in Condition
    BY <2>1, FlavorIs DEF Condition
  <2>7. ASSUME kw \in Condition
        PROVE  node[node[m].parent].flavor = Flavor(text[Within(s)].kw)
    <3>1. Within(s) # 0
      BY <2>2, <2>7 DEF Wrong
    <3>2. node[m].parent \in DOMAIN node /\ Main(node[m].parent) /\ StmtOf(node[m].parent) = Within(s)
      BY <1>2, <2>1 DEF NodeOf, BuildTypes
    <3>3. node[m].parent # 1
      BY <1>2, <3>1, <3>2 DEF StmtOf
    <3> QED
      BY <3>2, <3>3, MainIs DEF NodeOf
  <2> QED
    BY <2>4, <2>5, <2>6, <2>7
<1>4. 1 \in Q /\ Q \in SUBSET Nat /\ \A m \in Q : m <= Len(node)
  BY <1>1, <1>2
<1>5. Scope(ast) \in Q /\ \A m \in Q : m <= Scope(ast)
  <2>1. Scope(ast) = Max(Q)
    BY DEF Scope
  <2> HIDE DEF Q
  <2> QED
    BY <1>2, <1>4, <2>1, MaxIn
<1> DEFINE sc == Scope(ast)
<1> HIDE DEF here
<1>6. sc \in DOMAIN node /\ Main(sc)
  BY <1>1, <1>2, <1>5 DEF NodeOf, Main
<1>7. StmtOf(sc) \in P
  <2>1. CASE sc = 1
    BY <1>2, <2>1 DEF StmtOf
  <2>2. CASE sc # 1
    BY <1>1, <1>3, <1>5, <2>2
  <2> QED
    BY <2>1, <2>2
<1>8. ASSUME NEW s \in P PROVE s <= StmtOf(sc)
  <2>0. P \subseteq Nat /\ StmtOf(sc) \in Nat
    BY <1>2, <1>7, EnclosingWithin
  <2>1. CASE s = 0
    BY <2>0, <2>1
  <2>2. CASE s # 0
    <3>1. s \in Enclosing(cur) /\ here(s)
      BY <2>2
    <3>2. PICK m \in U \ {1} : NodeOf(m, s)
      BY <1>1, <3>1
    <3>3. StmtOf(m) = s /\ m \in Q
      BY <1>3, <3>1, <3>2 DEF NodeOf, StmtOf
    <3>4. m <= sc /\ m \in DOMAIN node /\ m \in Nat /\ sc \in Nat
      BY <1>1, <1>2, <1>5, <1>6, <3>3
    <3>5. m = sc \/ StmtOf(m) < StmtOf(sc)
      BY <1>6, <3>4 DEF Ordered
    <3> QED
      BY <2>0, <3>3, <3>5
  <2> QED
    BY <2>1, <2>2
<1>9. Space(cur) = Max(P)
  BY DEF Space, here
<1>10. Max(P) \in P /\ \A s \in P : s <= Max(P)
  <2>1. P \in SUBSET Nat /\ P # {} /\ \A s \in P : s <= cur
    BY <1>2, EnclosingWithin
  <2> HIDE DEF P
  <2> QED
    BY <1>2, <2>1, MaxIn
<1>11. StmtOf(sc) = Max(P)
  <2>1. StmtOf(sc) \in Nat /\ Max(P) \in Nat
    BY <1>2, <1>7, <1>10, EnclosingWithin
  <2> QED
    BY <1>7, <1>8, <1>10, <2>1
<1> QED
  BY <1>6, <1>9, <1>11

(* The statement around the next one, as the walk and as the text has it. *)
LEMMA ParentIs ==
  ASSUME AtStatement
  PROVE  /\ StmtOf(ast) = Within(cur)
         /\ ast = 1 <=> Within(cur) = 0
         /\ ast # 1 => node[ast].flavor = Flavor(text[Within(cur)].kw) /\ Within(cur) \in DOMAIN text
         /\ \A f \in {"macro"} : node[ast].flavor = f <=> Within(cur) # 0 /\ text[Within(cur)].kw = f
         /\ node[ast].flavor \in Conditional <=> Within(cur) # 0 /\ text[Within(cur)].kw \in Conditional
<1> USE DEF AtStatement, BuildInv
<1>1. StmtOf(ast) = Within(cur)
  BY AroundCur
<1>2. ast = 1 => StmtOf(ast) = 0 /\ node[ast].flavor = "root"
  BY ForestHere DEF BuildTypes
<1>3. ast # 1 => NodeOf(ast, StmtOf(ast)) /\ StmtOf(ast) \in DOMAIN text
  <2>1. ast \in DOMAIN node /\ Main(ast)
    BY DEF BuildTypes
  <2> QED
    BY <2>1, MainIs
<1>4. StmtOf(ast) \in DOMAIN text => StmtOf(ast) # 0
  BY TextHere
<1>5. ast # 1 => node[ast].flavor = Flavor(text[Within(cur)].kw)
  BY <1>1, <1>3 DEF NodeOf
<1>6. ast # 1 => (node[ast].flavor = "macro" <=> text[Within(cur)].kw = "macro")
  BY <1>5, FlavorIs
<1>7. ast # 1 => (node[ast].flavor \in Conditional <=> text[Within(cur)].kw \in Conditional)
  BY <1>5, FlavorIs
<1>8. "root" \notin Conditional
  BY DEF Conditional
<1> QED
  BY <1>1, <1>2, <1>3, <1>4, <1>5, <1>6, <1>7, <1>8

(* cil_symtab_insert refuses a name declared before in the same scope       *)
LEMMA RedeclaredIs ==
  ASSUME AtStatement
  PROVE  (\E m \in 1..(cur - 1) : SameName(m, cur))
           <=> Declares(cur) /\ Redeclared(Sym[Flavor(Me.kw)], Me.name)
<1> USE DEF AtStatement, BuildInv
<1>1. Scope(ast) \in DOMAIN node /\ Main(Scope(ast)) /\ StmtOf(Scope(ast)) = Space(cur)
  BY ScopeIs
<1>2. ASSUME NEW m \in 1..(cur - 1), SameName(m, cur)
      PROVE  Declares(cur) /\ Redeclared(Sym[Flavor(Me.kw)], Me.name)
  <2>1. /\ Declares(m) /\ Declares(cur) /\ Space(m) = Space(cur)
        /\ Sym[Flavor(text[m].kw)] = Sym[Flavor(Me.kw)] /\ text[m].name = Me.name
    BY <1>2 DEF SameName, Me
  <2>2. PICK d \in table : EntryOf(d) = Declared(m)
    BY <2>1 DEF Entries
  <2>3. StmtOf(d.scope) = Space(m) /\ d.sym = Sym[Flavor(text[m].kw)] /\ d.name = text[m].name
    BY <2>2 DEF EntryOf, Declared
  <2>4. d.scope \in DOMAIN node /\ Main(d.scope)
    BY DEF Entries
  <2>5. d.scope = Scope(ast)
    BY <1>1, <2>1, <2>3, <2>4, OneNode
  <2> QED
    BY <2>1, <2>3, <2>5 DEF Redeclared
<1>3. ASSUME Declares(cur), Redeclared(Sym[Flavor(Me.kw)], Me.name)
      PROVE  \E m \in 1..(cur - 1) : SameName(m, cur)
  <2>1. PICK d \in table : /\ d.scope = Scope(ast) /\ d.sym = Sym[Flavor(Me.kw)]
                           /\ d.name = Me.name
    BY <1>3 DEF Redeclared
  <2>2. PICK m \in 1..(cur - 1) : Declares(m) /\ EntryOf(d) = Declared(m)
    BY DEF Entries
  <2>3. Space(m) = Space(cur) /\ Sym[Flavor(text[m].kw)] = Sym[Flavor(Me.kw)] /\ text[m].name = Me.name
    BY <1>1, <2>1, <2>2 DEF EntryOf, Declared
  <2> QED
    BY <1>3, <2>2, <2>3 DEF SameName, Me
<1> QED
  BY <1>2, <1>3

(* What the handlers find wrong with a statement. *)
Reason ==
  \/ ~ Me.ok
  \/ Me.kw \notin Keyword
  \/ Declares(cur) /\ Refused(Flavor(Me.kw), Me.name)
  \/ ~ IsInjective(Me.perms) \/ \E i \in DOMAIN Me.perms : Me.perms[i] \in BadNames
  \/ ~ IsInjective(Flavored(Me.params))
  \/ \E i \in DOMAIN Me.params : Me.params[i].kind \notin ParamKind \/ Me.params[i].name \in BadNames
  \/ Me.kw \in {"in"} \cup Condition /\ Me.last = cur
  \/ Me.kw \in Condition /\ node[ast].flavor \notin Conditional
  \/ /\ Me.kw \in Conditional
     /\ \/ Cardinality(Branches(cur)) \notin 1..2
        \/ \E m \in Branches(cur) : text[m].kw \notin Condition

(* The handlers refuse exactly what is wrong with the statement             *)
LEMMA ReasonIs ==
  ASSUME AtStatement
  PROVE  Reason <=> Wrong(cur)
<1>1. Declares(cur) /\ Refused(Flavor(Me.kw), Me.name)
        <=> \/ Declares(cur) /\ Me.name \in BadNames
            \/ \E m \in 1..(cur - 1) : SameName(m, cur)
            \/ /\ Declares(cur) /\ Within(cur) # 0 /\ text[Within(cur)].kw = "macro"
               /\ \E i \in DOMAIN text[Within(cur)].params :
                    text[Within(cur)].params[i] = [kind |-> Flavor(Me.kw), name |-> Me.name]
  <2>1. ShadowsParam(Flavor(Me.kw), Me.name)
          <=> /\ Within(cur) # 0 /\ text[Within(cur)].kw = "macro"
              /\ \E i \in DOMAIN text[Within(cur)].params :
                   text[Within(cur)].params[i] = [kind |-> Flavor(Me.kw), name |-> Me.name]
    BY ParentIs DEF ShadowsParam, StmtOf
  <2>2. Refused(Flavor(Me.kw), Me.name)
          <=> \/ Me.name \in BadNames \/ Redeclared(Sym[Flavor(Me.kw)], Me.name)
              \/ ShadowsParam(Flavor(Me.kw), Me.name)
    BY DEF Refused
  <2> QED
    BY <2>1, <2>2, RedeclaredIs, Zenon
<1>2. /\ ~ IsInjective(Me.perms) <=> \E i, j \in DOMAIN Me.perms : i # j /\ Me.perms[i] = Me.perms[j]
      /\ ~ IsInjective(Flavored(Me.params))
           <=> \E i, j \in DOMAIN Me.params :
                 /\ i # j /\ Me.params[i].name = Me.params[j].name
                 /\ SameKind(Me.params[i].kind, Me.params[j].kind)
  <2>1. DOMAIN Flavored(Me.params) = DOMAIN Me.params
    BY DEF Flavored
  <2>2. ASSUME NEW i \in DOMAIN Me.params, NEW j \in DOMAIN Me.params
        PROVE  Flavored(Me.params)[i] = Flavored(Me.params)[j]
                 <=> /\ Me.params[i].name = Me.params[j].name
                     /\ SameKind(Me.params[i].kind, Me.params[j].kind)
    BY DEF Flavored, SameKind
  <2> QED
    BY <2>1, <2>2 DEF IsInjective
<1>3. Me.kw \in Condition /\ node[ast].flavor \notin Conditional
        <=> Me.kw \in Condition /\ (Within(cur) = 0 \/ text[Within(cur)].kw \notin Conditional)
  BY ParentIs
<1>4. Me = text[cur]
  BY DEF Me
<1> QED
  BY <1>1, <1>2, <1>3, <1>4, Zenon DEF Reason, Wrong, Keyword

(* What the walk forbids may not stand there. *)
LEMMA ForbiddenIs ==
  ASSUME AtStatement, Forbidden
  PROVE  Misplaced(cur)
<1> USE DEF AtStatement, BuildInv
<1>1. ASSUME NEW f \in {"macro", "booleanif", "tunableif", "in"}, NEW x, x # 0, IsIn(f, x)
      PROVE  f \in Kinds(cur)
  <2>1. x \in Upwards[ast] /\ node[x].flavor = f
    BY <1>1 DEF IsIn
  <2>2. x # 1
    BY <2>1 DEF BuildTypes
  <2>3. NodeOf(x, StmtOf(x)) /\ StmtOf(x) \in Enclosing(cur)
    BY <2>1, <2>2, StackIs
  <2> QED
    BY <2>1, <2>3 DEF NodeOf, Kinds
<1>2. Me = text[cur]
  BY DEF Me
<1> QED
  BY <1>1, <1>2 DEF Forbidden, Misplaced, Knows

(* And what it does not forbid may be in the booleanifs around it. *)
LEMMA BooleanifHolds ==
  ASSUME AtStatement, ~ Forbidden, ~ preserve, "booleanif" \in Kinds(cur)
  PROVE  Me.kw \in InBooleanif
<1> USE DEF AtStatement, BuildInv
<1>1. PICK s \in Enclosing(cur) : Flavor(text[s].kw) = "booleanif"
  BY DEF Kinds
<1>2. PICK m \in Upwards[ast] \ {1} : NodeOf(m, s)
  BY <1>1, StackIs
<1>3. node[m].flavor = "booleanif" /\ StmtOf(m) = s
  BY <1>1, <1>2 DEF NodeOf, StmtOf
<1>4. CASE \E n \in DOMAIN node : node[n].parent = m
  <2>1. boolif = m
    BY <1>2, <1>3, <1>4 DEF Knows
  <2>2. m # 0
    BY <1>2, StackIs, ForestHere DEF IsForest
  <2> QED
    BY <2>1, <2>2 DEF Forbidden
<1>5. CASE ~ \E n \in DOMAIN node : node[n].parent = m
  <2>1. m = ast
    <3>1. ast \in DOMAIN node /\ IsForest(node)
      BY ForestHere DEF BuildTypes
    <3> QED
      BY <1>2, <1>5, <3>1, AboveHasChild
  <2>2. s = Within(cur)
    BY <1>3, <2>1, ParentIs
  <2>3. s \in DOMAIN text /\ s \in 1..(cur - 1) /\ cur <= text[s].last /\ text[s].last \in Nat /\ cur \in Nat
    BY <1>1, EnclosingWithin, TextHere DEF Enclosing
  <2>4. text[s].kw = "booleanif"
    BY <1>1, FlavorIs
  <2>5. \A x \in Branches(s) : text[x].kw \in Condition
    BY <2>3, <2>4 DEF Right, Wrong, Conditional
  <2>6. ASSUME NEW x \in (s + 1)..(cur - 1) PROVE text[x].last < cur
    <3>1. x \in Nat /\ s < x /\ x \in 1..(cur - 1) /\ x \in DOMAIN text /\ text[x].last \in Nat
      BY <2>3, TextHere
    <3>2. x \notin Enclosing(cur)
      <4>1. s # 0
        BY <2>3
      <4>2. Enclosing(cur) = {s} \cup Enclosing(s)
        BY <2>2, <4>1, EnclosingWithin
      <4>3. Enclosing(s) \subseteq 1..(s - 1)
        BY <2>3, EnclosingWithin
      <4> QED
        BY <2>3, <3>1, <4>2, <4>3
    <3> QED
      BY <2>3, <3>1, <3>2 DEF Enclosing
  <2>7. cur \in Branches(s)
    BY <2>3, <2>6 DEF Branches
  <2>8. Me.kw \in Condition
    BY <2>5, <2>7 DEF Me
  <2> QED
    BY <2>8 DEF InBooleanif
<1> QED
  BY <1>4, <1>5
-----------------------------------------------------------------------------
(* The steps of the walk *)

TooDeep == BoolTooDeep(Me.expr) \/ (Me.kw \in Constraint /\ ConstraintTooDeep(Me.expr))
Refuse == AtStatement /\ Fail /\ (Forbidden \/ Reason \/ TooDeep)
Make ==
  /\ AtStatement /\ ~ Forbidden /\ ~ Reason /\ AddNode(Flavor(Me.kw))
  /\ Declares(cur) => table' = table \cup Enter(Scope(ast), Sym[Flavor(Me.kw)], Me.name)
  /\ ~ Declares(cur) => table' = table

(* Every handler makes the node of its statement or refuses it for a reason. *)
LEMMA StepIs ==
  ASSUME BuildInv, [Next]_vars
  PROVE  Refuse \/ Make \/ LeaveList \/ Finish \/ UNCHANGED vars
<1>1. \A K : At(K) => status = "walk" /\ AtStatement /\ Me.kw \in K
  BY DEF At, AtStatement
<1>2. Me = text[cur] /\ (Declares(cur) <=> Me.kw \in DOMAIN Sym)
  BY DEF Me, Declares
<1>3. AtStatement => /\ Me.perms # <<>> => Me.kw \in ClassKind
                     /\ Me.params # <<>> => Me.kw = "macro"
  BY TextHere DEF AtStatement, BuildInv, IsText, Me
<1>4. IsInjective(<<>>) /\ IsInjective(Flavored(<<>>)) /\ \A i \in DOMAIN <<>> : FALSE
  <2>1. DOMAIN Flavored(<<>>) = {}
    BY DEF Flavored
  <2> QED
    BY <2>1 DEF IsInjective
<1>5. CASE RejectStatement
  BY <1>1, <1>5 DEF RejectStatement, Refuse, Reason, Keyword
<1>6. CASE GenDeclaration
  <2>1. /\ status = "walk" /\ AtStatement /\ ~ Forbidden
        /\ Me.kw \in DOMAIN Sym \ (ClassKind \cup {"macro"})
    BY <1>1, <1>6 DEF GenDeclaration, Generating
  <2>2. /\ Me.kw \in Keyword /\ Me.kw \notin {"in"} \cup Condition \cup Conditional
    <3>1. Me.kw \in Container => Me.kw \in {"block", "optional"}
      BY <2>1, KeywordKinds, SymDomain
    <3> QED
      BY <2>1, <3>1 DEF Keyword, Container, Condition, Conditional
  <2>3. CASE ~ Me.ok \/ Refused(Flavor(Me.kw), Me.name)
    BY <1>2, <1>6, <2>1, <2>3 DEF GenDeclaration, Refuse, Reason
  <2>4. CASE ~ (~ Me.ok \/ Refused(Flavor(Me.kw), Me.name))
    <3>1. ~ Reason
      BY <1>2, <1>3, <1>4, <2>1, <2>2, <2>4 DEF Reason
    <3> QED
      BY <1>2, <1>6, <2>1, <2>4, <3>1 DEF GenDeclaration, Make, Declare
  <2> QED
    BY <2>3, <2>4
<1>7. CASE GenClass
  <2>1. status = "walk" /\ AtStatement /\ ~ Forbidden /\ Me.kw \in ClassKind
    BY <1>1, <1>7 DEF GenClass, Generating
  <2>2. /\ Me.kw \in Keyword /\ Me.kw \notin {"in"} \cup Condition \cup Conditional /\ Me.kw \in DOMAIN Sym
        /\ Flavor(Me.kw) = Me.kw /\ Me.kw # "macro"
    BY <2>1, FlavorOf, SymDomain DEF Keyword, Condition, Conditional, ClassKind, DeclarationKind
  <2> DEFINE bad == \/ ~ Me.ok \/ Refused(Me.kw, Me.name)
                    \/ ~ IsInjective(Me.perms) \/ \E i \in DOMAIN Me.perms : Me.perms[i] \in BadNames
  <2>3. CASE bad
    BY <1>2, <1>7, <2>1, <2>2, <2>3 DEF GenClass, Refuse, Reason
  <2>4. CASE ~ bad
    <3>1. ~ Reason
      BY <1>2, <1>3, <1>4, <2>1, <2>2, <2>4 DEF Reason
    <3> QED
      BY <1>2, <1>7, <2>1, <2>2, <2>4, <3>1 DEF GenClass, Make, Declare
  <2> QED
    BY <2>3, <2>4
<1>8. CASE GenMacro
  <2>1. status = "walk" /\ AtStatement /\ ~ Forbidden /\ Me.kw = "macro"
    BY <1>1, <1>8 DEF GenMacro, Generating
  <2>2. /\ Me.kw \in Keyword /\ Me.kw \notin {"in"} \cup Condition \cup Conditional \cup ClassKind
        /\ Me.kw \in DOMAIN Sym /\ Flavor(Me.kw) = "macro"
    BY <2>1, FlavorOf, SymDomain DEF Keyword, Condition, Conditional, ClassKind, DeclarationKind
  <2> DEFINE bad == \/ ~ Me.ok \/ Refused("macro", Me.name)
                    \/ ~ IsInjective(Flavored(Me.params))
                    \/ \E i \in DOMAIN Me.params : \/ Me.params[i].kind \notin ParamKind
                                                   \/ Me.params[i].name \in BadNames
  <2>3. CASE bad
    BY <1>2, <1>8, <2>1, <2>2, <2>3 DEF GenMacro, Refuse, Reason
  <2>4. CASE ~ bad
    <3>1. ~ Reason
      BY <1>2, <1>3, <1>4, <2>1, <2>2, <2>4 DEF Reason
    <3> QED
      BY <1>2, <1>8, <2>1, <2>2, <2>4, <3>1 DEF GenMacro, Make, Declare
  <2> QED
    BY <2>3, <2>4
<1>9. CASE GenIn \/ GenConditional \/ GenCondblock
  <2>1. /\ status = "walk" /\ AtStatement /\ ~ Forbidden /\ Me.kw \in {"in"} \cup Conditional \cup Condition
    BY <1>1, <1>9 DEF GenIn, GenConditional, GenCondblock, Generating
  <2>2. Me.kw \in Container \ {"block", "optional", "macro"}
    BY <2>1 DEF Container, Condition, Conditional
  <2>3. /\ Me.kw \in Keyword /\ ~ Declares(cur) /\ Me.perms = <<>> /\ Me.params = <<>>
    BY <1>2, <1>3, <2>1, <2>2, KeywordKinds, SymDomain DEF Keyword
  <2>4. /\ Reason <=> \/ ~ Me.ok
                      \/ Me.kw \in {"in"} \cup Condition /\ Me.last = cur
                      \/ Me.kw \in Condition /\ node[ast].flavor \notin Conditional
                      \/ /\ Me.kw \in Conditional
                         /\ \/ Cardinality(Branches(cur)) \notin 1..2
                            \/ \E m \in Branches(cur) : text[m].kw \notin Condition
    BY <1>4, <2>3 DEF Reason
  <2>5. CASE GenIn
    <3>1. Me.kw = "in" /\ Me.kw \notin Condition \cup Conditional /\ Flavor(Me.kw) = "in"
      BY <1>1, <2>5, FlavorOf DEF GenIn, Generating, Condition, Conditional
    <3> QED
      BY <2>1, <2>3, <2>4, <2>5, <3>1 DEF GenIn, Refuse, Make, Keep
  <2>6. CASE GenConditional
    <3>1. Me.kw \in Conditional /\ Me.kw \notin Condition \cup {"in"}
      BY <1>1, <2>6 DEF GenConditional, Generating, Condition, Conditional
    <3> QED
      BY <2>1, <2>3, <2>4, <2>6, <3>1 DEF GenConditional, Refuse, TooDeep, Make, Keep
  <2>7. CASE GenCondblock
    <3>1. Me.kw \in Condition /\ Me.kw \notin Conditional /\ Flavor(Me.kw) = Me.kw
      BY <1>1, <2>7, FlavorOf DEF GenCondblock, Generating, Condition, Conditional
    <3> QED
      BY <2>1, <2>3, <2>4, <2>7, <3>1 DEF GenCondblock, Refuse, Make, Keep
  <2> QED
    BY <1>9, <2>5, <2>6, <2>7
<1>10. CASE GenConstraint \/ GenRule
  <2>1. status = "walk" /\ AtStatement /\ ~ Forbidden /\ Me.kw \in Constraint \cup Rule
    BY <1>1, <1>10 DEF GenConstraint, GenRule, Generating
  <2>2. Me.kw \notin DeclarationKind \cup Container \cup ClassKind
    BY <2>1, KeywordKinds
  <2>3. /\ Me.kw \in Keyword /\ ~ Declares(cur) /\ Me.perms = <<>> /\ Me.params = <<>>
        /\ Me.kw \notin {"in", "tunable", "tunableif"} \cup Condition \cup Conditional
    BY <1>2, <1>3, <2>1, <2>2, SymDomain DEF Keyword, Container, DeclarationKind, Conditional
  <2>4. Flavor(Me.kw) = Me.kw
    BY <2>3, FlavorOf
  <2>5. Reason <=> ~ Me.ok
    BY <1>4, <2>3 DEF Reason
  <2>6. GenConstraint => Me.kw \in Constraint
    BY <1>1 DEF GenConstraint, Generating
  <2> QED
    BY <1>10, <2>1, <2>3, <2>4, <2>5, <2>6 DEF GenConstraint, GenRule, Refuse, TooDeep, Make, Keep
<1>11. CASE LeaveList \/ Finish \/ Done \/ UNCHANGED vars
  BY <1>11 DEF Done
<1> QED
  BY <1>5, <1>6, <1>7, <1>8, <1>9, <1>10, <1>11 DEF Next
-----------------------------------------------------------------------------
(* The start *)

(* The invariant holds of the root alone                                    *)
LEMMA InitHolds == Init => BuildInv
<1> SUFFICES ASSUME Init PROVE BuildInv
  OBVIOUS
<1> USE DEF Init
<1>1. /\ DOMAIN node = {1} /\ node[1] = [flavor |-> "root", stmt |-> 0, parent |-> 0]
      /\ Main(1) /\ StmtOf(1) = 0
  BY DEF Main, StmtOf
<1>2. text \in Seq(Statement) /\ Len(text) \in Nat
  BY TextsAssumption DEF IsText
<1>3. 1..(cur - 1) = {}
  OBVIOUS
<1>4. BuildTypes
  <2>1. node \in Seq(NodeType) /\ node # <<>>
    BY DEF NodeType
  <2>2. cur \in 1..(Len(text) + 1)
    BY <1>2
  <2> QED
    BY <1>1, <2>1, <2>2 DEF BuildTypes
<1>5. Upwards[1] = {1}
  BY <1>1, <1>4, ForestHere, UpwardsStep
<1>6. Ordered
  BY <1>1 DEF Ordered
<1>7. Made /\ Right /\ Placed
  BY <1>3 DEF Made, Right, Placed
<1>8. Chained
  BY <1>1, <1>5 DEF Chained
<1>9. Entries
  BY <1>3 DEF Entries
<1>10. Knows
  <2>1. node[1].flavor # "booleanif"
    BY <1>1
  <2> QED
    BY <1>5, <2>1 DEF Knows, IsIn
<1> QED
  BY <1>4, <1>6, <1>7, <1>8, <1>9, <1>10 DEF BuildInv, RefusedRightly
-----------------------------------------------------------------------------
(* A statement becomes a node *)

New == Len(node) + 1
Added == Len(Me.perms)

(* What a statement that is accepted adds: its node and its permissions     *)
LEMMA MakeIs ==
  ASSUME BuildInv, Make
  PROVE  /\ Added \in Nat /\ DOMAIN Me.perms = 1..Added
         /\ New \in Nat /\ 1 < New /\ DOMAIN node = 1..(New - 1) /\ DOMAIN node' = 1..(New + Added)
         /\ node' \in Seq(NodeType) /\ node' # <<>>
         /\ \A n \in 1..(New - 1) : node'[n] = node[n]
         /\ node'[New] = [flavor |-> Flavor(Me.kw), stmt |-> cur, parent |-> ast]
         /\ \A i \in 1..Added : node'[New + i] = [flavor |-> "perm", stmt |-> cur, parent |-> New]
         /\ ast' = New /\ cur' = cur + 1 /\ cur \in DOMAIN text /\ cur \in Nat
         /\ text' = text /\ preserve' = preserve /\ status' = status
<1> DEFINE x == [flavor |-> Flavor(Me.kw), stmt |-> cur, parent |-> ast]
           p == [flavor |-> "perm", stmt |-> cur, parent |-> New]
           P == [i \in DOMAIN Me.perms |-> p]
           s == node \o <<x>>
<1>1. Me \in Statement /\ cur \in DOMAIN text /\ cur \in Nat
  BY TextHere DEF Make, AtStatement, Me, BuildInv
<1>2. Me.perms \in Seq(STRING)
  BY <1>1 DEF Statement
<1>3. Added \in Nat /\ DOMAIN Me.perms = 1..Added
  BY <1>2 DEF Added
<1>4. node \in Seq(NodeType) /\ ast \in DOMAIN node /\ New \in Nat /\ 1 < New /\ DOMAIN node = 1..(New - 1)
  BY DEF BuildInv, BuildTypes, New
<1>5. Flavor(Me.kw) \in Keyword
  BY FlavorOf DEF Make, Reason
<1>6. x \in NodeType /\ p \in NodeType
  <2>1. cur \in Nat /\ ast \in Nat /\ New \in Nat
    BY <1>1, <1>4
  <2> QED
    BY <1>5, <2>1 DEF NodeType
<1>7. node' = s \o P /\ ast' = New /\ cur' = cur + 1
      /\ text' = text /\ preserve' = preserve /\ status' = status
  BY DEF Make, AddNode, New
<1> HIDE DEF x, p
<1>8. P = [i \in 1..Added |-> p] /\ P \in Seq(NodeType) /\ Len(P) = Added /\ \A i \in 1..Added : P[i] = p
  BY <1>3, <1>6
<1>9. /\ s \in Seq(NodeType) /\ Len(s) = New /\ s[New] = x
      /\ \A n \in 1..(New - 1) : s[n] = node[n]
  BY <1>4, <1>6 DEF New
<1> HIDE DEF s, P
<1>10. /\ s \o P \in Seq(NodeType) /\ Len(s \o P) = Len(s) + Len(P)
       /\ \A n \in 1..Len(s) : (s \o P)[n] = s[n]
       /\ \A i \in 1..Len(P) : (s \o P)[Len(s) + i] = P[i]
  <2>1. s \in Seq(NodeType) /\ P \in Seq(NodeType)
    BY <1>8, <1>9
  <2>2. s \o P \in Seq(NodeType) /\ Len(s \o P) = Len(s) + Len(P)
    BY <2>1
  <2>3. \A n \in 1..Len(s) : (s \o P)[n] = s[n]
    BY <2>1
  <2>4. \A i \in 1..Len(P) : (s \o P)[Len(s) + i] = P[i]
    BY <2>1
  <2> QED
    BY <2>2, <2>3, <2>4
<1>11. /\ node' \in Seq(NodeType) /\ Len(node') = New + Added
       /\ \A n \in 1..New : node'[n] = s[n]
       /\ \A i \in 1..Added : node'[New + i] = P[i]
  BY <1>7, <1>8, <1>9, <1>10
<1>12. DOMAIN node' = 1..(New + Added) /\ node' # <<>>
  <2>1. DOMAIN node' = 1..Len(node')
    BY <1>11
  <2>2. New + Added # 0
    BY <1>3, <1>4
  <2> QED
    BY <1>11, <2>1, <2>2
<1>13. \A n \in 1..(New - 1) : node'[n] = node[n]
  BY <1>4, <1>9, <1>11
<1>14. node'[New] = x
  BY <1>4, <1>9, <1>11
<1>15. \A i \in 1..Added : node'[New + i] = p
  BY <1>8, <1>11
<1> QED
  BY <1>1, <1>3, <1>4, <1>7, <1>11, <1>12, <1>13, <1>14, <1>15 DEF x, p

(* The text does not change, nor what is read in it. *)
LEMMA SameText ==
  ASSUME text' = text, preserve' = preserve
  PROVE  \A n : /\ (Enclosing(n))' = Enclosing(n) /\ (Within(n))' = Within(n)
                /\ (Flavor(n))' = Flavor(n) /\ (Kinds(n))' = Kinds(n) /\ (Space(n))' = Space(n)
                /\ (Declares(n))' = Declares(n) /\ (Wrong(n))' = Wrong(n) /\ (Declared(n))' = Declared(n)
                /\ (Misplaced(n))' = Misplaced(n)
<1>1. \A n : (Flavor(n))' = Flavor(n)
  BY Zenon DEF Flavor
<1>2. \A n : (Enclosing(n))' = Enclosing(n)
  BY DEF Enclosing
<1>3. \A n : (Within(n))' = Within(n)
  BY <1>2 DEF Within
<1>4. \A n : (Kinds(n))' = Kinds(n)
  BY <1>1, <1>2 DEF Kinds
<1>5. \A n : (Space(n))' = Space(n)
  BY <1>1, <1>2, <1>3 DEF Space
<1>6. \A n : (Declares(n))' = Declares(n)
  BY DEF Declares
<1>7. \A n : (Declared(n))' = Declared(n)
  BY <1>1, <1>5 DEF Declared
<1>8. \A m, n : (SameName(m, n))' = SameName(m, n)
  BY <1>1, <1>5, <1>6, Zenon DEF SameName
<1>9. \A n : (Branches(n))' = Branches(n)
  BY DEF Branches
<1>10. \A n : (Wrong(n))' = Wrong(n)
  BY <1>1, <1>3, <1>6, <1>8, <1>9 DEF Wrong
<1>11. \A n : (Misplaced(n))' = Misplaced(n)
  BY <1>4, Zenon DEF Misplaced
<1> QED
  BY <1>1, <1>2, <1>3, <1>4, <1>5, <1>6, <1>7, <1>10, <1>11

(* The old nodes stay as they are. *)
LEMMA OldNodes ==
  ASSUME BuildInv, Make
  PROVE  /\ \A n \in DOMAIN node : /\ n \in DOMAIN node' /\ n \in Nat /\ n < New /\ node'[n] = node[n]
                                   /\ (StmtOf(n))' = StmtOf(n) /\ (Main(n))' = Main(n)
                                   /\ StmtOf(n) \in 0..(cur - 1) /\ (n # 1 => StmtOf(n) # 0)
                                   /\ (n # 1 => node[n].parent \in DOMAIN node /\ node[n].parent < n)
         /\ node'[New].stmt = cur /\ node'[New].flavor # "perm" /\ New \in DOMAIN node' /\ New # 1
         /\ \A n \in DOMAIN node' : \/ n \in DOMAIN node \/ n = New
                                    \/ /\ n \in Nat /\ New < n /\ (StmtOf(n))' = cur
                                       /\ ~ (Main(n))' /\ node'[n].parent = New
         /\ ast \in DOMAIN node /\ Main(ast) /\ 1 \in DOMAIN node /\ StmtOf(1) = 0
<1>1. ASSUME NEW n \in DOMAIN node
      PROVE  /\ n \in DOMAIN node' /\ n \in Nat /\ n < New /\ node'[n] = node[n]
             /\ StmtOf(n) \in 0..(cur - 1) /\ (n # 1 => StmtOf(n) # 0)
             /\ (n # 1 => node[n].parent \in DOMAIN node /\ node[n].parent < n)
  <2>1. n \in DOMAIN node' /\ n \in Nat /\ n < New /\ node'[n] = node[n]
    BY MakeIs
  <2>2. n # 1 => StmtOf(n) \in 1..(cur - 1)
    BY DEF BuildInv, BuildTypes, StmtOf
  <2>3. n = 1 => StmtOf(n) = 0
    BY ForestHere DEF BuildInv
  <2>4. n # 1 => node[n].parent \in 1..(n - 1)
    BY DEF BuildInv, BuildTypes
  <2>5. cur \in Nat /\ cur # 0 /\ DOMAIN node = 1..(New - 1) /\ New \in Nat
    BY MakeIs DEF BuildInv, BuildTypes
  <2> QED
    BY <2>1, <2>2, <2>3, <2>4, <2>5
<1>2. \A n \in DOMAIN node : (StmtOf(n))' = StmtOf(n) /\ (Main(n))' = Main(n)
  BY <1>1 DEF StmtOf, Main
<1>3. node'[New].stmt = cur /\ node'[New].flavor # "perm" /\ New \in DOMAIN node' /\ New # 1
  <2>1. Flavor(Me.kw) # "perm"
    BY FlavorOf, KeywordKinds DEF Make, Reason
  <2>2. node'[New] = [flavor |-> Flavor(Me.kw), stmt |-> cur, parent |-> ast]
    BY MakeIs
  <2> QED
    BY <2>1, <2>2, MakeIs
<1>4. ASSUME NEW n \in DOMAIN node', n \notin DOMAIN node, n # New
      PROVE  n \in Nat /\ New < n /\ (StmtOf(n))' = cur /\ ~ (Main(n))' /\ node'[n].parent = New
  <2>1. n \in Nat /\ New < n /\ n - New \in 1..Added /\ n = New + (n - New)
    BY <1>4, MakeIs
  <2>2. node'[n] = [flavor |-> "perm", stmt |-> cur, parent |-> New]
    BY <2>1, MakeIs
  <2> QED
    BY <2>1, <2>2 DEF Main, StmtOf
<1>5. ast \in DOMAIN node /\ Main(ast) /\ 1 \in DOMAIN node /\ StmtOf(1) = 0
  BY ForestHere DEF BuildInv, BuildTypes
<1> QED
  BY <1>1, <1>2, <1>3, <1>4, <1>5

(* A new node keeps types and order                                         *)
LEMMA MakeTypes ==
  ASSUME BuildInv, Make
  PROVE  BuildTypes' /\ Ordered'
<1>1. BuildTypes'
  <2>1. text' \in Texts /\ preserve' \in BOOLEAN /\ status' \in {"walk", "ok", "err"}
    BY MakeIs DEF BuildInv, BuildTypes
  <2>2. cur' \in 1..(Len(text') + 1)
    <3>1. cur \in 1..Len(text) /\ Len(text) \in Nat
      BY MakeIs, TextHere DEF BuildInv
    <3> QED
      BY <3>1, MakeIs
  <2>3. node'[1] = [flavor |-> "root", stmt |-> 0, parent |-> 0]
    BY OldNodes DEF BuildInv, BuildTypes
  <2>4. ast' \in DOMAIN node' /\ (Main(ast))'
    BY OldNodes, MakeIs DEF Main
  <2>5. ASSUME NEW n \in DOMAIN node' \ {1}
        PROVE  /\ node'[n].parent \in 1..(n - 1) /\ (Main(node[n].parent))'
               /\ node'[n].stmt \in 1..(cur' - 1)
    <3>0. cur \in Nat /\ 1 <= cur /\ cur' = cur + 1
      BY MakeIs, TextHere DEF BuildInv
    <3>1. CASE n \in DOMAIN node
      <4>1. node'[n] = node[n]
        BY <3>1, OldNodes
      <4>2. node[n].parent \in 1..(n - 1) /\ Main(node[n].parent) /\ node[n].stmt \in 1..(cur - 1)
        BY <3>1 DEF BuildInv, BuildTypes
      <4>3. node[n].parent \in DOMAIN node
        BY <3>1, OldNodes
      <4>4. node'[node[n].parent] = node[node[n].parent]
        BY <4>3, OldNodes
      <4> QED
        BY <3>0, <4>1, <4>2, <4>4 DEF Main
    <3>2. CASE n = New
      <4>1. node'[n].parent = ast /\ node'[n].stmt = cur /\ New \in Nat
        BY <3>2, MakeIs
      <4>2. ast \in Nat /\ ast < New /\ 1 <= ast /\ node'[ast] = node[ast] /\ node[ast].flavor # "perm"
        BY OldNodes, MakeIs DEF Main
      <4> QED
        BY <3>0, <3>2, <4>1, <4>2 DEF Main
    <3>3. CASE n \notin DOMAIN node /\ n # New
      <4>1. node'[n].parent = New /\ node'[n].stmt = cur /\ New < n /\ n \in Nat /\ New \in Nat /\ 1 < New
        BY <3>3, OldNodes, MakeIs DEF StmtOf
      <4>2. node'[New].flavor # "perm"
        BY OldNodes
      <4> QED
        BY <3>0, <4>1, <4>2 DEF Main
    <3> QED
      BY <3>1, <3>2, <3>3
  <2>6. status' = "walk"
    BY MakeIs DEF Make, AtStatement
  <2>7. node' \in Seq(NodeType) /\ node' # <<>>
    BY MakeIs
  <2> QED
    BY <2>1, <2>2, <2>3, <2>4, <2>5, <2>6, <2>7 DEF BuildTypes, Main
<1>2. Ordered'
  <2> SUFFICES ASSUME NEW m \in DOMAIN node', NEW n \in DOMAIN node', m < n, (Main(n))'
               PROVE  (StmtOf(m))' < (StmtOf(n))'
    BY DEF Ordered
  <2>1. n \in DOMAIN node \/ n = New
    BY OldNodes
  <2>2. m \in DOMAIN node
    <3>1. m \in Nat /\ n \in Nat /\ n <= New /\ New \in Nat /\ 1 <= m
      BY <2>1, OldNodes, MakeIs
    <3> QED
      BY <3>1, MakeIs
  <2>3. (StmtOf(m))' = StmtOf(m) /\ StmtOf(m) \in 0..(cur - 1)
    BY <2>2, OldNodes
  <2>4. CASE n \in DOMAIN node
    BY <2>2, <2>3, <2>4, OldNodes DEF BuildInv, Ordered
  <2>5. CASE n = New
    <3>1. (StmtOf(n))' = cur /\ cur \in Nat
      BY <2>5, OldNodes, MakeIs DEF StmtOf
    <3> QED
      BY <2>3, <3>1
  <2> QED
    BY <2>1, <2>4, <2>5
<1> QED
  BY <1>1, <1>2

(* A new node is the one of its statement                                   *)
LEMMA MakeMade ==
  ASSUME BuildInv, Make
  PROVE  Made'
<1>1. text' = text /\ cur' = cur + 1 /\ cur \in Nat /\ New \in DOMAIN node' \ {1}
      /\ \A n : (Flavor(n))' = Flavor(n) /\ (Within(n))' = Within(n)
  BY MakeIs, SameText, OldNodes
<1> SUFFICES ASSUME NEW s \in 1..cur PROVE \E n \in DOMAIN node' \ {1} : (NodeOf(n, s))'
  BY <1>1 DEF Made
<1>2. CASE s # cur
  <2>1. s \in 1..(cur - 1)
    BY <1>1, <1>2
  <2>2. PICK n \in DOMAIN node \ {1} : NodeOf(n, s)
    BY <2>1 DEF BuildInv, Made
  <2>3. node'[n] = node[n] /\ n \in DOMAIN node'
    BY OldNodes
  <2>4. node'[node[n].parent] = node[node[n].parent]
    BY OldNodes
  <2>5. \A i \in DOMAIN text[s].perms :
          n + i \in DOMAIN node' /\ node'[n + i] = [flavor |-> "perm", stmt |-> s, parent |-> n]
    BY <2>2, OldNodes DEF NodeOf
  <2>6. StmtOf(node[n].parent) = Within(s) /\ node[n].flavor = Flavor(text[s].kw)
        /\ Main(n) /\ node[n].stmt = s
    BY <2>2 DEF NodeOf
  <2>7. (NodeOf(n, s))'
    BY <1>1, <2>3, <2>4, <2>5, <2>6 DEF NodeOf, Main, StmtOf
  <2> QED
    BY <2>3, <2>7
<1>3. CASE s = cur
  <2>1. node'[New] = [flavor |-> Flavor(Me.kw), stmt |-> cur, parent |-> ast]
    BY MakeIs
  <2>2. node'[ast] = node[ast]
    BY OldNodes
  <2>3. StmtOf(ast) = Within(cur)
    BY ParentIs DEF Make
  <2>4. \A i \in DOMAIN Me.perms :
          New + i \in DOMAIN node' /\ node'[New + i] = [flavor |-> "perm", stmt |-> s, parent |-> New]
    <3>1. \A i \in 1..Added : New + i \in 1..(New + Added)
      BY MakeIs
    <3> QED
      BY <1>3, <3>1, MakeIs
  <2>5. Flavor(Me.kw) # "perm"
    BY <2>1, OldNodes
  <2> HIDE DEF New
  <2>6. ASSUME NEW n, n = New PROVE (NodeOf(n, s))'
    BY <1>1, <1>3, <2>1, <2>2, <2>3, <2>4, <2>5, <2>6 DEF NodeOf, Main, StmtOf, Me
  <2> QED
    BY <1>1, <2>6
<1> QED
  BY <1>2, <1>3

(* What is above a node after the step. *)
LEMMA MakeUpwards ==
  ASSUME BuildInv, Make
  PROVE  /\ \A n \in DOMAIN node : Upwards'[n] = Upwards[n] /\ Upwards[n] \subseteq DOMAIN node
         /\ Upwards'[New] = {New} \cup Upwards[ast]
<1>1. IsForest(node) /\ (IsForest(node))'
  BY UpwardsOf, UpwardsOfNext, MakeTypes DEF BuildInv
<1>2. DOMAIN node \subseteq DOMAIN node' /\ \A k \in DOMAIN node : node'[k].parent = node[k].parent
  BY OldNodes
<1>3. \A n \in DOMAIN node : Upwards'[n] = Upwards[n]
  BY <1>1, <1>2, UpwardsStay DEF IsForest
<1>4. \A n \in DOMAIN node : Upwards[n] \subseteq DOMAIN node
  <2> SUFFICES ASSUME NEW n \in DOMAIN node PROVE Upwards[n] \subseteq DOMAIN node
    OBVIOUS
  <2>1. Upwards[n] \subseteq 1..n
    BY <1>1, UpwardsStep
  <2> QED
    BY <1>1, <2>1 DEF IsForest
<1>5. Upwards'[New] = {New} \cup Upwards'[ast]
  <2>2. node'[New].parent = ast
    BY MakeIs
  <2>3. New \in DOMAIN node' /\ New # 1
    BY OldNodes
  <2>4. \A n \in DOMAIN node' : Upwards'[n] = {n} \cup (IF n = 1 THEN {} ELSE Upwards'[node'[n].parent])
    BY UpwardsOfNext, MakeTypes
  <2> QED
    BY <2>2, <2>3, <2>4
<1> QED
  BY <1>3, <1>4, <1>5, OldNodes

(* A new node is in the containers its statement is in                      *)
LEMMA MakeChained ==
  ASSUME BuildInv, Make
  PROVE  Chained' /\ Placed'
<1>1. /\ text' = text /\ cur' = cur + 1 /\ cur \in Nat /\ ast' = New /\ cur \in DOMAIN text
      /\ \A n : (Enclosing(n))' = Enclosing(n)
  BY MakeIs, SameText
<1>2. Enclosing(cur) = ({StmtOf(ast)} \cup Enclosing(StmtOf(ast))) \ {0} /\ Enclosing(cur) \subseteq 1..(cur - 1)
  BY <1>1, AroundCur, EnclosingWithin DEF Make, AtStatement, BuildInv
<1>3. Chained'
  <2> SUFFICES ASSUME NEW m \in DOMAIN node', NEW n \in DOMAIN node', (Main(n))'
               PROVE  m \in Upwards'[n]
                        <=> (Main(m))' /\ node'[m].stmt \in {0, node'[n].stmt} \cup Enclosing(node'[n].stmt)
    BY <1>1 DEF Chained, StmtOf
  <2>1. CASE n \in DOMAIN node
    <3>1. node'[n] = node[n] /\ StmtOf(n) \in 0..(cur - 1) /\ Main(n)
      BY <2>1, OldNodes
    <3>2. Upwards'[n] = Upwards[n] /\ Upwards[n] \subseteq DOMAIN node
      BY <2>1, MakeUpwards
    <3>3. CASE m \in DOMAIN node
      BY <2>1, <3>1, <3>2, <3>3, OldNodes DEF BuildInv, Chained, StmtOf
    <3>4. CASE m \notin DOMAIN node
      <4>1. node'[m].stmt = cur
        BY <3>4, OldNodes DEF StmtOf
      <4>2. cur \notin {0, StmtOf(n)} \cup Enclosing(StmtOf(n))
        <5>1. cur # 0 /\ cur # StmtOf(n)
          BY <1>1, <3>1, TextHere DEF BuildInv
        <5>2. Enclosing(StmtOf(n)) \subseteq 1..(StmtOf(n) - 1)
          BY DEF Enclosing
        <5> QED
          BY <1>1, <3>1, <5>1, <5>2
      <4> QED
        BY <3>1, <3>2, <3>4, <4>1, <4>2 DEF StmtOf
    <3> QED
      BY <3>3, <3>4
  <2>2. CASE n = New
    <3>1. node'[n].stmt = cur /\ Upwards'[n] = {New} \cup Upwards[ast] /\ Upwards[ast] \subseteq DOMAIN node
      BY <2>2, OldNodes, MakeUpwards
    <3>2. CASE m \in DOMAIN node
      <4>1. node'[m] = node[m] /\ StmtOf(m) \in 0..(cur - 1) /\ m # New
        BY <3>2, OldNodes
      <4>2. m \in Upwards'[n] <=> m \in Upwards[ast]
        BY <3>1, <4>1
      <4>3. m \in Upwards[ast] <=> Main(m) /\ StmtOf(m) \in {0, StmtOf(ast)} \cup Enclosing(StmtOf(ast))
        BY <3>2, OldNodes DEF BuildInv, Chained
      <4>4. {0, cur} \cup Enclosing(cur) = {cur} \cup ({0, StmtOf(ast)} \cup Enclosing(StmtOf(ast)))
        BY <1>2
      <4>5. StmtOf(m) # cur
        BY <1>1, <4>1
      <4> QED
        BY <3>1, <4>1, <4>2, <4>3, <4>4, <4>5 DEF Main, StmtOf
    <3>3. CASE m = New
      BY <2>2, <3>1, <3>3
    <3>4. CASE m \notin DOMAIN node /\ m # New
      BY <3>1, <3>4, OldNodes
    <3> QED
      BY <3>2, <3>3, <3>4
  <2> QED
    BY <2>1, <2>2, OldNodes
<1>4. Placed'
  <2>1. \A s : (Open(s))' <=> s \in {cur} \cup Enclosing(cur)
    <3>1. (StmtOf(ast))' = cur
      BY <1>1, OldNodes DEF StmtOf
    <3> QED
      BY <1>1, <3>1 DEF Open
  <2> SUFFICES ASSUME NEW s \in 1..cur
               PROVE  /\ text[s].last >= cur + 1 => s \in {cur} \cup Enclosing(cur)
                      /\ s \in {cur} \cup Enclosing(cur) => cur + 1 <= text[s].last + 1
    BY <1>1, <2>1 DEF Placed
  <2>2. s \in DOMAIN text /\ text[s].last \in Nat /\ s \in Nat /\ s <= text[s].last
    BY <1>1, TextHere DEF BuildInv
  <2>3. s = cur \/ s \in 1..(cur - 1)
    BY <1>1
  <2>4. text[s].last >= cur + 1 => s \in {cur} \cup Enclosing(cur)
    BY <1>1, <2>2, <2>3 DEF Enclosing
  <2>5. s \in {cur} \cup Enclosing(cur) => cur + 1 <= text[s].last + 1
    BY <1>1, <2>2, <2>3 DEF Enclosing
  <2> QED
    BY <2>4, <2>5
<1> QED
  BY <1>3, <1>4

(* What is accepted was right, and its name is entered in its scope         *)
LEMMA MakeRight ==
  ASSUME BuildInv, Make
  PROVE  Right' /\ Entries' /\ RefusedRightly'
<1>1. /\ text' = text /\ preserve' = preserve /\ cur' = cur + 1 /\ cur \in Nat /\ status' = "walk"
      /\ 1 <= cur
      /\ \A n : /\ (Wrong(n))' = Wrong(n) /\ (Kinds(n))' = Kinds(n)
                /\ (Declares(n))' = Declares(n) /\ (Declared(n))' = Declared(n)
  <2>1. /\ text' = text /\ preserve' = preserve /\ cur' = cur + 1 /\ cur \in Nat
        /\ status' = status /\ cur \in DOMAIN text
    BY MakeIs
  <2>2. status = "walk"
    BY DEF Make, AtStatement
  <2>3. 1 <= cur
    BY <2>1, TextHere DEF BuildInv
  <2> QED
    BY <2>1, <2>2, <2>3, SameText
<1>2. Right'
  <2>1. ~ Wrong(cur)
    BY ReasonIs DEF Make
  <2>2. ~ preserve /\ "booleanif" \in Kinds(cur) => text[cur].kw \in InBooleanif
    BY BooleanifHolds DEF Make, Me
  <2> SUFFICES ASSUME NEW s \in 1..cur
               PROVE  ~ Wrong(s) /\ (~ preserve /\ "booleanif" \in Kinds(s) => text[s].kw \in InBooleanif)
    BY <1>1 DEF Right
  <2>3. s = cur \/ s \in 1..(cur - 1)
    BY <1>1
  <2> QED
    BY <2>1, <2>2, <2>3 DEF BuildInv, Right
<1>3. Entries'
  <2>1. ASSUME NEW d \in table
        PROVE  /\ d.scope \in DOMAIN node' /\ (Main(d.scope))' /\ d.datum \in DOMAIN node'
               /\ (EntryOf(d))' = EntryOf(d)
    <3>1. d.scope \in DOMAIN node /\ Main(d.scope) /\ d.datum \in DOMAIN node
      BY DEF BuildInv, Entries
    <3>2. node'[d.scope] = node[d.scope] /\ node'[d.datum] = node[d.datum]
      BY <3>1, OldNodes
    <3> QED
      BY <3>1, <3>2, OldNodes DEF EntryOf, StmtOf, Main
  <2>2. \A n : n \in 1..(cur' - 1) <=> n \in 1..(cur - 1) \/ n = cur
    BY <1>1
  <2>3. CASE ~ Declares(cur)
    <3>1. table' = table
      BY <2>3 DEF Make
    <3> QED
      BY <1>1, <2>1, <2>2, <2>3, <3>1 DEF BuildInv, Entries
  <2>4. CASE Declares(cur)
    <3> DEFINE e == [scope |-> Scope(ast), sym |-> Sym[Flavor(Me.kw)], name |-> Me.name, datum |-> New]
    <3>1. table' = table \cup {e}
      BY <2>4 DEF Make, Enter, New
    <3>2. Scope(ast) \in DOMAIN node /\ Main(Scope(ast)) /\ StmtOf(Scope(ast)) = Space(cur)
      BY ScopeIs DEF Make
    <3>3. node'[Scope(ast)] = node[Scope(ast)] /\ Scope(ast) \in DOMAIN node'
      BY <3>2, OldNodes
    <3>4. node'[New].stmt = cur /\ New \in DOMAIN node'
      BY OldNodes
    <3>5. e.scope = Scope(ast) /\ e.sym = Sym[Flavor(Me.kw)] /\ e.name = Me.name /\ e.datum = New
      OBVIOUS
    <3> HIDE DEF e, New
    <3>6. ASSUME NEW d, d = e
          PROVE  /\ d.scope \in DOMAIN node' /\ (Main(d.scope))' /\ d.datum \in DOMAIN node'
                 /\ (EntryOf(d))' = Declared(cur)
      BY <3>2, <3>3, <3>4, <3>5, <3>6 DEF EntryOf, StmtOf, Main, Declared, Me
    <3>7. \A d \in table' : /\ d.scope \in DOMAIN node' /\ (Main(d.scope))' /\ d.datum \in DOMAIN node'
      BY <2>1, <3>1, <3>6
    <3>8. \A d \in table' : \E n \in 1..(cur' - 1) : (Declares(n))' /\ (EntryOf(d))' = (Declared(n))'
      BY <1>1, <2>1, <2>2, <2>4, <3>1, <3>6 DEF BuildInv, Entries
    <3>9. \A n \in 1..(cur' - 1) : (Declares(n))' => \E d \in table' : (EntryOf(d))' = (Declared(n))'
      BY <1>1, <2>1, <2>2, <2>4, <3>1, <3>6 DEF BuildInv, Entries
    <3> QED
      BY <3>7, <3>8, <3>9 DEF Entries
  <2> QED
    BY <2>3, <2>4
<1>4. RefusedRightly'
  BY <1>1 DEF RefusedRightly
<1> QED
  BY <1>2, <1>3, <1>4

(* Booleanifs do not stand in booleanifs. *)
LEMMA OneBooleanif ==
  ASSUME BuildInv, ~ preserve, NEW m \in Upwards[ast], node[m].flavor = "booleanif",
         node[ast].flavor = "booleanif"
  PROVE  m = ast
<1> USE DEF BuildInv
<1> SUFFICES ASSUME m # ast PROVE FALSE
  OBVIOUS
<1>1. ast \in DOMAIN node /\ Main(ast) /\ node[1].flavor = "root" /\ IsForest(node)
  BY ForestHere DEF BuildTypes
<1>2. m # 1 /\ ast # 1
  BY <1>1
<1>3. m \in DOMAIN node /\ NodeOf(m, StmtOf(m)) /\ NodeOf(ast, StmtOf(ast))
      /\ StmtOf(ast) \in 1..(cur - 1) /\ StmtOf(m) \in 1..(cur - 1)
  <2>1. m \in DOMAIN node
    <3>1. m \in 1..ast
      BY <1>1, UpwardsStep
    <3> QED
      BY <1>1, <3>1 DEF IsForest
  <2>2. Main(m)
    BY <1>1, <2>1 DEF Chained
  <2> QED
    BY <1>1, <1>2, <2>1, <2>2, MainIs
<1>4. StmtOf(m) \in Enclosing(StmtOf(ast))
  <2>1. StmtOf(m) \in {0, StmtOf(ast)} \cup Enclosing(StmtOf(ast)) /\ Main(m)
    BY <1>1, <1>3 DEF Chained
  <2>2. StmtOf(m) # StmtOf(ast)
    BY <1>1, <1>3, <2>1, OneNode
  <2> QED
    BY <1>3, <2>1, <2>2
<1>5. "booleanif" \in Kinds(StmtOf(ast))
  BY <1>3, <1>4 DEF NodeOf, Kinds
<1>6. text[StmtOf(ast)].kw \in InBooleanif
  BY <1>3, <1>5 DEF Right
<1>7. text[StmtOf(ast)].kw = "booleanif"
  BY <1>3, FlavorIs DEF NodeOf
<1> QED
  BY <1>6, <1>7 DEF InBooleanif, Condition

(* A container that is entered is known from its first child on             *)
LEMMA MakeKnows ==
  ASSUME BuildInv, Make
  PROVE  Knows'
<1>1. /\ macro' = Entered("macro", macro) /\ boolif' = Entered("booleanif", boolif)
      /\ tunif' = Entered("tunableif", tunif) /\ in' = Entered("in", in)
      /\ ast' = New /\ preserve' = preserve
  BY MakeIs DEF Make, AddNode
<1>2. Upwards'[New] = {New} \cup Upwards[ast] /\ Upwards[ast] \subseteq DOMAIN node /\ ast \in Upwards[ast]
      /\ ast \in DOMAIN node
  BY MakeUpwards, OldNodes, UpwardsOf DEF BuildInv
<1>3. \A x \in Upwards[ast] : node'[x] = node[x]
  BY <1>2, OldNodes
<1>4. ASSUME NEW f, NEW x, IsIn(f, x)
      PROVE  Entered(f, x) = 0 \/ (Entered(f, x) \in Upwards'[New] /\ node'[Entered(f, x)].flavor = f)
  <2>1. CASE Entered(f, x) = x
    BY <1>2, <1>3, <1>4, <2>1 DEF IsIn
  <2>2. CASE Entered(f, x) # x
    <3>1. Entered(f, x) = ast /\ node[ast].flavor = f
      BY <2>2 DEF Entered
    <3> QED
      BY <1>2, <1>3, <3>1
  <2> QED
    BY <2>1, <2>2
<1>5. ASSUME NEW m \in Upwards'[New], ~ preserve, node'[m].flavor = "booleanif",
             NEW c \in DOMAIN node', node'[c].parent = m
      PROVE  boolif' = m
  <2>1. CASE m = New
    <3>1. c \notin DOMAIN node
      <4> SUFFICES ASSUME c \in DOMAIN node PROVE FALSE
        OBVIOUS
      <4>1. node[c].parent = New /\ c < New /\ c \in Nat
        BY <1>5, <2>1, OldNodes
      <4>2. c = 1 \/ node[c].parent < c
        BY OldNodes
      <4>3. node[1].parent = 0 /\ New \in Nat /\ 1 < New
        BY MakeIs DEF BuildInv, BuildTypes
      <4> QED
        BY <4>1, <4>2, <4>3
    <3>2. c # New
      <4>1. node'[New].parent = ast /\ ast < New /\ ast \in Nat
        BY <1>2, MakeIs, OldNodes
      <4> QED
        BY <1>5, <2>1, <4>1
    <3>3. Added # 0
      <4>1. c \in 1..(New + Added) /\ c \notin 1..New /\ New \in Nat
        BY <3>1, <3>2, MakeIs
      <4> QED
        BY <4>1
    <3>4. Me.perms # <<>>
      BY <3>3, MakeIs DEF Added
    <3>5. Me.kw \in ClassKind
      BY <3>4, TextHere DEF Make, AtStatement, BuildInv, IsText, Me
    <3>6. Flavor(Me.kw) = Me.kw
      BY <3>5, FlavorOf DEF ClassKind
    <3>7. node'[New].flavor = Me.kw
      BY <3>6, MakeIs
    <3> QED
      BY <1>5, <2>1, <3>5, <3>7 DEF ClassKind
  <2>2. CASE m # New
    <3>1. m \in Upwards[ast] /\ node[m].flavor = "booleanif"
      BY <1>2, <1>3, <1>5, <2>2
    <3>2. CASE node[ast].flavor = "booleanif" /\ \A n \in DOMAIN node : node[n].parent # ast
      <4>1. boolif' = ast
        BY <1>1, <3>2 DEF Entered
      <4> QED
        BY <1>5, <3>1, <3>2, <4>1, OneBooleanif
    <3>3. CASE ~ (node[ast].flavor = "booleanif" /\ \A n \in DOMAIN node : node[n].parent # ast)
      <4>1. boolif' = boolif
        BY <1>1, <3>3 DEF Entered
      <4>2. \E n \in DOMAIN node : node[n].parent = m
        <5>1. CASE m = ast
          BY <3>1, <3>3, <5>1
        <5>2. CASE m # ast
          BY <1>2, <3>1, <5>2, AboveHasChild, ForestHere DEF BuildInv
        <5> QED
          BY <5>1, <5>2
      <4> QED
        BY <1>5, <3>1, <4>1, <4>2 DEF BuildInv, Knows
    <3> QED
      BY <3>2, <3>3
  <2> QED
    BY <2>1, <2>2
<1>6. /\ (IsIn("macro", macro))' /\ (IsIn("booleanif", boolif))'
      /\ (IsIn("tunableif", tunif))' /\ (IsIn("in", in))'
  BY <1>1, <1>4 DEF BuildInv, Knows, IsIn
<1> QED
  BY <1>1, <1>5, <1>6 DEF Knows
-----------------------------------------------------------------------------
(* A list ends, and the text *)

(* What a step keeps that makes no node. *)
LEMMA SameTree ==
  ASSUME BuildInv, text' = text, preserve' = preserve, cur' = cur, node' = node, table' = table
  PROVE  /\ Ordered' /\ Made' /\ Chained' /\ Right' /\ Entries' /\ Upwards' = Upwards
         /\ \A n : (Main(n))' = Main(n) /\ (StmtOf(n))' = StmtOf(n)
<1> USE DEF BuildInv
<1>1. \A n : (Main(n))' = Main(n) /\ (StmtOf(n))' = StmtOf(n)
  BY DEF Main, StmtOf
<1>2. \A n : /\ (Enclosing(n))' = Enclosing(n) /\ (Within(n))' = Within(n) /\ (Flavor(n))' = Flavor(n)
             /\ (Wrong(n))' = Wrong(n) /\ (Kinds(n))' = Kinds(n)
             /\ (Declares(n))' = Declares(n) /\ (Declared(n))' = Declared(n)
  BY SameText
<1>3. Upwards' = Upwards
  BY DEF Upwards
<1>4. Ordered' /\ Chained'
  BY <1>1, <1>2, <1>3 DEF Ordered, Chained
<1>5. \A n, s : (NodeOf(n, s))' <=> NodeOf(n, s)
  BY <1>1, <1>2 DEF NodeOf
<1>6. Made'
  BY <1>5 DEF Made
<1>7. Right'
  BY <1>2 DEF Right
<1>8. \A d : (EntryOf(d))' = EntryOf(d)
  BY <1>1 DEF EntryOf
<1>9. Entries'
  BY <1>1, <1>2, <1>8 DEF Entries
<1> QED
  BY <1>1, <1>3, <1>4, <1>6, <1>7, <1>9

(* The end of a list keeps the invariant                                    *)
LEMMA LeaveHolds ==
  ASSUME BuildInv, LeaveList
  PROVE  BuildInv'
<1> DEFINE a == StmtOf(ast)
           up == node[ast].parent
<1>1. /\ status = "walk" /\ ast # 1 /\ cur > text[a].last /\ ast' = up
      /\ macro' = Left("macro", macro) /\ boolif' = Left("booleanif", boolif)
      /\ tunif' = Left("tunableif", tunif) /\ in' = Left("in", in)
      /\ text' = text /\ preserve' = preserve /\ status' = status /\ cur' = cur /\ node' = node /\ table' = table
  BY DEF LeaveList, Closing, StmtOf
<1>2. /\ Ordered' /\ Made' /\ Chained' /\ Right' /\ Entries' /\ Upwards' = Upwards
      /\ \A n : (Main(n))' = Main(n) /\ (StmtOf(n))' = StmtOf(n)
  BY <1>1, SameTree
<1>3. /\ up \in DOMAIN node /\ Main(up) /\ up < ast /\ up \in Nat /\ ast \in Nat
      /\ Upwards[ast] = {ast} \cup Upwards[up] /\ Upwards[up] \subseteq 1..up
  <2>1. ast \in DOMAIN node \ {1} /\ DOMAIN node = 1..Len(node) /\ Len(node) \in Nat
    BY <1>1 DEF BuildInv, BuildTypes
  <2>2. up \in 1..(ast - 1) /\ Main(up)
    BY <2>1 DEF BuildInv, BuildTypes
  <2>3. up \in DOMAIN node
    BY <2>1, <2>2
  <2>4. Upwards[ast] = {ast} \cup Upwards[up] /\ Upwards[up] \subseteq 1..up
    BY <2>1, <2>3, UpwardsOf, UpwardsStep DEF BuildInv
  <2> QED
    BY <2>1, <2>2, <2>3, <2>4
<1>4. NodeOf(ast, a) /\ a \in 1..(cur - 1) /\ a \in DOMAIN text /\ StmtOf(up) = Within(a)
  <2>1. ast \in DOMAIN node \ {1} /\ Main(ast)
    BY <1>1 DEF BuildInv, BuildTypes
  <2>2. NodeOf(ast, a) /\ a \in 1..(cur - 1) /\ a \in DOMAIN text
    BY <2>1, MainIs DEF BuildInv
  <2> QED
    BY <2>2 DEF NodeOf
<1> HIDE DEF a, up
<1>5. BuildTypes'
  BY <1>1, <1>2, <1>3 DEF BuildInv, BuildTypes, Main
<1>6. Placed'
  <2>1. \A s : (Open(s))' <=> s \in {Within(a)} \cup Enclosing(Within(a))
    <3>1. (StmtOf(ast))' = StmtOf(up)
      BY <1>1 DEF StmtOf
    <3> QED
      BY <1>1, <1>4, <3>1, SameText DEF Open
  <2> SUFFICES ASSUME NEW s \in 1..(cur - 1)
               PROVE  /\ text[s].last >= cur => (Open(s))'
                      /\ (Open(s))' => cur <= text[s].last + 1
    BY <1>1 DEF Placed
  <2>2. Within(0) = 0 /\ Enclosing(0) = {}
    BY DEF Within, Enclosing
  <2>3. (Open(s))' <=> s \in Enclosing(a)
    <3>0. s # 0
      OBVIOUS
    <3>1. CASE Within(a) = 0
      BY <1>4, <2>1, <2>2, <3>0, <3>1, EnclosingWithin DEF BuildInv
    <3>2. CASE Within(a) # 0
      BY <1>4, <2>1, <3>2, EnclosingWithin DEF BuildInv
    <3> QED
      BY <3>1, <3>2
  <2>4. s \in Enclosing(a) => Open(s)
    BY DEF Open, a
  <2>5. Open(s) => s = a \/ s \in Enclosing(a)
    BY DEF Open, a
  <2>6. text[a].last \in Nat /\ cur \in Nat
    BY <1>4, TextHere DEF BuildInv, BuildTypes
  <2>7. text[s].last >= cur => s # a
    BY <1>1, <2>6
  <2> QED
    BY <2>3, <2>4, <2>5, <2>7 DEF BuildInv, Placed
<1>7. Knows'
  <2>1. ASSUME NEW f, NEW x, IsIn(f, x)
        PROVE  Left(f, x) = 0 \/ (Left(f, x) \in Upwards[up] /\ node[Left(f, x)].flavor = f)
    <3>1. CASE node[ast].flavor = f
      BY <3>1 DEF Left
    <3>2. CASE node[ast].flavor # f
      BY <1>3, <2>1, <3>2 DEF Left, IsIn
    <3> QED
      BY <3>1, <3>2
  <2>2. /\ (IsIn("macro", macro))' /\ (IsIn("booleanif", boolif))'
        /\ (IsIn("tunableif", tunif))' /\ (IsIn("in", in))'
    BY <1>1, <1>2, <2>1 DEF BuildInv, Knows, IsIn
  <2>3. ASSUME NEW m \in Upwards[up], ~ preserve, node[m].flavor = "booleanif",
               \E n \in DOMAIN node : node[n].parent = m
        PROVE  boolif' = m
    <3>1. m \in Upwards[ast] /\ m # ast
      BY <1>3
    <3>2. boolif = m
      BY <2>3, <3>1 DEF BuildInv, Knows
    <3>3. node[ast].flavor # "booleanif"
      BY <2>3, <3>1, OneBooleanif
    <3> QED
      BY <1>1, <3>2, <3>3 DEF Left
  <2> QED
    BY <1>1, <1>2, <2>2, <2>3 DEF Knows
<1> QED
  BY <1>1, <1>2, <1>5, <1>6, <1>7 DEF BuildInv, RefusedRightly

(* A step that only stops keeps the invariant                               *)
LEMMA StopHolds ==
  ASSUME BuildInv, RefusedRightly',
         status' \in {"walk", "ok", "err"}, status' = "ok" => ast = 1 /\ cur = Len(text) + 1,
         UNCHANGED <<text, preserve, cur, node, table, ast, context>>
  PROVE  BuildInv'
<1>1. /\ text' = text /\ preserve' = preserve /\ cur' = cur /\ node' = node /\ table' = table /\ ast' = ast
      /\ macro' = macro /\ boolif' = boolif /\ tunif' = tunif /\ in' = in
  BY DEF context
<1>2. /\ Ordered' /\ Made' /\ Chained' /\ Right' /\ Entries' /\ Upwards' = Upwards
      /\ \A n : (Main(n))' = Main(n) /\ (StmtOf(n))' = StmtOf(n)
  BY <1>1, SameTree
<1>3. BuildTypes'
  BY <1>1, <1>2 DEF BuildInv, BuildTypes, Main
<1>4. Placed'
  BY <1>1, <1>2, SameText DEF BuildInv, Placed, Open
<1>5. Knows'
  BY <1>1, <1>2 DEF BuildInv, Knows, IsIn
<1> QED
  BY <1>2, <1>3, <1>4, <1>5 DEF BuildInv

(* At the end of the text every list has been left                          *)
LEMMA FinishHolds ==
  ASSUME BuildInv, Finish
  PROVE  BuildInv'
<1>1. ast = 1 /\ cur > Len(text) /\ status' = "ok" /\ UNCHANGED <<text, preserve, cur, node, table, ast, context>>
  BY DEF Finish
<1>2. cur = Len(text) + 1
  <2>1. cur \in 1..(Len(text) + 1) /\ Len(text) \in Nat
    BY TextHere DEF BuildInv, BuildTypes
  <2> QED
    BY <1>1, <2>1
<1>3. RefusedRightly'
  BY <1>1 DEF RefusedRightly
<1> QED
  BY <1>1, <1>2, <1>3, StopHolds
-----------------------------------------------------------------------------
(* A statement is refused *)

(* A counter that loses one for what is closed counts at most what is open. *)
LEMMA CountedLess ==
  ASSUME NEW A, NEW B, NEW O, IsFiniteSet(B), IsFiniteSet(O), A \subseteq B \cup O
  PROVE  Cardinality(A) \in Nat /\ Cardinality(B) \in Nat /\ Cardinality(O) \in Nat
         /\ Cardinality(A) - Cardinality(B) <= Cardinality(O)
<1>1. IsFiniteSet(B \cup O) /\ Cardinality(B \cup O) = Cardinality(B) + Cardinality(O) - Cardinality(B \cap O)
  BY FS_Union
<1>2. IsFiniteSet(A) /\ Cardinality(A) <= Cardinality(B \cup O)
  BY <1>1, FS_Subset
<1>3. IsFiniteSet(B \cap O)
  BY FS_Intersection
<1>4. /\ Cardinality(A) \in Nat /\ Cardinality(B) \in Nat /\ Cardinality(O) \in Nat
      /\ Cardinality(B \cap O) \in Nat
  BY <1>2, <1>3, FS_CardinalityType
<1> QED
  BY <1>1, <1>2, <1>4

(* The depth that the limit is compared with is at most the nesting. *)
LEMMA DepthIs ==
  ASSUME NEW R, NEW e \in Seq(R), BoolTooDeep(e), \A n \in DOMAIN e : e[n].last \in Nat
  PROVE  Nesting(e) > COND_EXPR_MAXDEPTH
<1> DEFINE O(n) == {m \in 1..(n - 1) : e[m].last >= n}
           N == {0} \cup {Cardinality(O(n)) : n \in DOMAIN e}
<1>1. Len(e) \in Nat /\ DOMAIN e = 1..Len(e)
  OBVIOUS
<1>2. ASSUME NEW n \in DOMAIN e
      PROVE  IsFiniteSet(O(n)) /\ Cardinality(O(n)) \in Nat /\ Cardinality(O(n)) <= Len(e)
  <2>1. n \in Nat /\ n - 1 \in Nat /\ n - 1 <= Len(e)
    BY <1>1
  <2>2. IsFiniteSet(1..(n - 1)) /\ Cardinality(1..(n - 1)) = n - 1
    <3>1. \A b \in Int : IsFiniteSet(1..b) /\ Cardinality(1..b) = (IF 1 > b THEN 0 ELSE b - 1 + 1)
      BY FS_Interval
    <3>2. n - 1 \in Int /\ (IF 1 > n - 1 THEN 0 ELSE (n - 1) - 1 + 1) = n - 1
      BY <2>1
    <3> HIDE DEF O
    <3> QED
      BY <3>1, <3>2
  <2>3. O(n) \subseteq 1..(n - 1)
    OBVIOUS
  <2> HIDE DEF O
  <2>4. IsFiniteSet(O(n)) /\ Cardinality(O(n)) <= n - 1
    BY <2>2, <2>3, FS_Subset
  <2> QED
    BY <1>1, <2>1, <2>4, FS_CardinalityType
<1>3. PICK n \in DOMAIN e : ExprDepth(e, n) > COND_EXPR_MAXDEPTH
  BY DEF BoolTooDeep
<1> DEFINE A == {m \in 1..(n - 1) : e[m].op \in {"none", "all"}}
           B == {m \in 1..(n - 1) : e[m].op # "leaf" /\ e[m].last < n}
<1>4. ExprDepth(e, n) = Cardinality(A) - Cardinality(B)
  BY DEF ExprDepth
<1>5. A \subseteq B \cup O(n)
  <2> SUFFICES ASSUME NEW m \in A PROVE m \in B \cup O(n)
    OBVIOUS
  <2>1. m \in DOMAIN e /\ n \in Nat
    BY <1>1
  <2>2. e[m].last < n \/ e[m].last >= n
    BY <2>1
  <2>3. e[m].op # "leaf"
    OBVIOUS
  <2> QED
    BY <2>2, <2>3
<1>6. IsFiniteSet(B)
  <2>1. IsFiniteSet(1..(n - 1))
    BY <1>1, FS_Interval
  <2>2. B \subseteq 1..(n - 1)
    OBVIOUS
  <2> HIDE DEF B
  <2> QED
    BY <2>1, <2>2, FS_Subset
<1>7. Max(N) \in N /\ \A x \in N : x <= Max(N)
  <2>1. N \in SUBSET Nat /\ N # {} /\ \A x \in N : x <= Len(e)
    <3> HIDE DEF O
    <3> QED
      BY <1>1, <1>2
  <2> HIDE DEF N
  <2> QED
    BY <1>1, <2>1, MaxIn
<1>8. Nesting(e) = Max(N)
  BY DEF Nesting
<1>9. Cardinality(O(n)) <= Max(N) /\ Max(N) \in Nat
  <2>1. N \subseteq Nat /\ Cardinality(O(n)) \in N
    <3> HIDE DEF O
    <3> QED
      BY <1>2
  <2> HIDE DEF N, O
  <2> QED
    BY <1>7, <2>1
<1> HIDE DEF A, B, N, O
<1>10. Cardinality(A) \in Nat /\ Cardinality(B) \in Nat /\ Cardinality(A) - Cardinality(B) <= Cardinality(O(n))
  BY <1>2, <1>5, <1>6, CountedLess
<1> QED
  BY <1>2, <1>3, <1>4, <1>8, <1>9, <1>10, DepthsAssumption

(* No constraint is refused for its depth. *)
LEMMA NeverTooDeep ==
  ASSUME NEW R, NEW e \in Seq(R), \A m \in DOMAIN e : e[m].op = "leaf" => e[m].last = m
  PROVE  ~ ConstraintTooDeep(e)
<1> SUFFICES ASSUME NEW n \in DOMAIN e, ConstraintDepth(e, n) > CEXPR_MAXDEPTH PROVE FALSE
  BY DEF ConstraintTooDeep
<1> DEFINE A == {m \in 1..(n - 1) : e[m].op = "leaf"}
           B == {m \in 1..(n - 1) : e[m].last < n}
<1>1. A \subseteq B \cup {} /\ B \subseteq 1..(n - 1)
  OBVIOUS
<1>2. ConstraintDepth(e, n) = Cardinality(A) - Cardinality(B)
  BY DEF ConstraintDepth
<1> HIDE DEF A, B
<1>3. IsFiniteSet(B) /\ IsFiniteSet({}) /\ Cardinality({}) = 0
  <2>1. IsFiniteSet(1..(n - 1))
    <3>1. n - 1 \in Int
      OBVIOUS
    <3> QED
      BY <3>1, FS_Interval
  <2>2. IsFiniteSet(B)
    BY <1>1, <2>1, FS_Subset
  <2> QED
    BY <2>2, FS_EmptySet
<1>4. Cardinality(A) \in Nat /\ Cardinality(B) \in Nat /\ Cardinality(A) - Cardinality(B) <= 0
  <2> DEFINE O == {}
  <2>1. A \subseteq B \cup O /\ IsFiniteSet(O) /\ Cardinality(O) = 0
    BY <1>1, <1>3
  <2> HIDE DEF O
  <2> QED
    BY <1>3, <2>1, CountedLess
<1> QED
  BY <1>2, <1>4, DepthsAssumption

(* What is wrong with a statement depends on the text only                  *)
LEMMA SameBlame ==
  ASSUME text' = text, preserve' = preserve, cur' = cur
  PROVE  /\ (Wrong(cur))' = Wrong(cur) /\ (Misplaced(cur))' = Misplaced(cur)
         /\ (Nesting(text[cur].expr))' = Nesting(text[cur].expr)
<1>1. \A n : (Wrong(n))' = Wrong(n) /\ (Misplaced(n))' = Misplaced(n)
  BY SameText
<1>2. (Wrong(cur))' = Wrong(cur)
  BY <1>1
<1>3. (Misplaced(cur))' = Misplaced(cur)
  BY <1>1
<1> QED
  BY <1>2, <1>3 DEF Nesting

(* What is refused is refused rightly                                       *)
LEMMA RefuseHolds ==
  ASSUME BuildInv, Refuse
  PROVE  BuildInv'
<1>1. AtStatement /\ Fail /\ (Forbidden \/ Reason \/ TooDeep) /\ Me = text[cur] /\ cur \in DOMAIN text
  BY DEF Refuse, AtStatement, Me
<1>2. Forbidden => Misplaced(cur)
  BY <1>1, ForbiddenIs
<1>3. Reason => Wrong(cur)
  BY <1>1, ReasonIs
<1>4. TooDeep => Nesting(Me.expr) > COND_EXPR_MAXDEPTH
  <2>1. /\ Me.expr \in Seq([op : STRING, last : Nat])
        /\ \A m \in DOMAIN Me.expr : Me.expr[m].op = "leaf" => Me.expr[m].last = m
    BY <1>1, TextHere DEF BuildInv, IsText, Statement
  <2>2. \A n \in DOMAIN Me.expr : Me.expr[n].last \in Nat
    <3> DEFINE E == [op : STRING, last : Nat]
    <3>1. \A x \in E : x.last \in Nat
      OBVIOUS
    <3> HIDE DEF E
    <3>2. \A e \in Seq(E) : \A n \in DOMAIN e : e[n] \in E
      OBVIOUS
    <3>3. Me.expr \in Seq(E)
      BY <2>1 DEF E
    <3> QED
      BY <3>1, <3>2, <3>3
  <2>3. ~ ConstraintTooDeep(Me.expr)
    BY <2>1, NeverTooDeep
  <2>4. BoolTooDeep(Me.expr) => Nesting(Me.expr) > COND_EXPR_MAXDEPTH
    BY <2>1, <2>2, DepthIs
  <2> QED
    BY <2>3, <2>4 DEF TooDeep
<1>5. status' = "err" /\ UNCHANGED <<text, preserve, cur, node, table, ast, context>>
  BY <1>1 DEF Fail
<1>6. RefusedRightly'
  BY <1>1, <1>2, <1>3, <1>4, <1>5, SameBlame DEF RefusedRightly
<1> QED
  BY <1>5, <1>6, StopHolds
-----------------------------------------------------------------------------
(* The theorems *)

(* BuildInv is an invariant                                                 *)
LEMMA BuildInvariant == Spec => []BuildInv
<1>1. BuildInv /\ [Next]_vars => BuildInv'
  <2> SUFFICES ASSUME BuildInv, [Next]_vars PROVE BuildInv'
    OBVIOUS
  <2>1. CASE Refuse
    BY <2>1, RefuseHolds
  <2>2. CASE Make
    BY <2>2, MakeTypes, MakeMade, MakeChained, MakeRight, MakeKnows DEF BuildInv
  <2>3. CASE LeaveList
    BY <2>3, LeaveHolds
  <2>4. CASE Finish
    BY <2>4, FinishHolds
  <2>5. CASE UNCHANGED vars
    <3>1. status' = status /\ UNCHANGED <<text, preserve, cur, node, table, ast, context>>
      BY <2>5 DEF vars
    <3>2. RefusedRightly'
      BY <3>1, SameBlame DEF BuildInv, RefusedRightly
    <3> QED
      BY <3>1, <3>2, StopHolds DEF BuildInv, BuildTypes
  <2> QED
    BY <2>1, <2>2, <2>3, <2>4, <2>5, StepIs
<1> QED
  BY <1>1, InitHolds, PTL DEF Spec

(* A text is refused only for a reason that the text itself gives: the      *)
(* statement the walk of cil_build_ast stands at is wrong, may not stand    *)
(* there, or nests its lists deeper than the limit.                         *)
THEOREM RefusedTheorem == Spec => []RefusedRightly
BY BuildInvariant, PTL DEF BuildInv

(* No accepted text holds a statement that is wrong in itself, and without  *)
(* preserved tunables none holds in a booleanif what may not stand there.   *)
THEOREM AcceptedTheorem == Spec => []AcceptedRightly
<1>1. BuildInv => AcceptedRightly
  <2> SUFFICES ASSUME BuildInv, status = "ok", NEW n \in DOMAIN text
               PROVE  ~ Wrong(n) /\ (~ preserve /\ "booleanif" \in Kinds(n) => text[n].kw \in InBooleanif)
    BY DEF AcceptedRightly
  <2>1. cur = Len(text) + 1
    BY DEF BuildInv, BuildTypes
  <2>2. n \in 1..(cur - 1)
    BY <2>1, TextHere DEF BuildInv
  <2> QED
    BY <2>2 DEF BuildInv, Right
<1> QED
  BY <1>1, BuildInvariant, PTL

(* The symbol tables of an accepted text hold its declarations, each under  *)
(* its name in the tables of the scope it stands in, and nothing else.      *)
THEOREM TablesTheorem == Spec => []TablesExact
<1>1. BuildInv => TablesExact
  <2> SUFFICES ASSUME BuildInv, status = "ok"
               PROVE  {<<IF d.scope = 1 THEN 0 ELSE node[d.scope].stmt, d.sym, d.name,
                         node[d.datum].stmt>> : d \in table}
                        = {<<Space(n), Sym[Flavor(text[n].kw)], text[n].name, n>> :
                             n \in {m \in DOMAIN text : Declares(m)}}
    BY DEF TablesExact
  <2>1. cur - 1 = Len(text) /\ DOMAIN text = 1..Len(text)
    BY TextHere DEF BuildInv, BuildTypes
  <2>2. node[1].stmt = 0
    BY DEF BuildInv, BuildTypes
  <2>3. \A d \in table :
          EntryOf(d) = <<IF d.scope = 1 THEN 0 ELSE node[d.scope].stmt, d.sym, d.name, node[d.datum].stmt>>
    BY <2>2 DEF EntryOf, StmtOf
  <2>4. \A n : Declared(n) = <<Space(n), Sym[Flavor(text[n].kw)], text[n].name, n>>
    BY DEF Declared
  <2>5. \A d \in table : \E n \in DOMAIN text : Declares(n) /\ EntryOf(d) = Declared(n)
    BY <2>1 DEF BuildInv, Entries
  <2>6. \A n \in DOMAIN text : Declares(n) => \E d \in table : EntryOf(d) = Declared(n)
    BY <2>1 DEF BuildInv, Entries
  <2> QED
    BY <2>3, <2>4, <2>5, <2>6
<1> QED
  BY <1>1, BuildInvariant, PTL

(* The tree of an accepted text mirrors it: one node for every statement,   *)
(* below the node of the innermost statement around it and followed by the  *)
(* nodes of its permissions; the walk has come back to the root.            *)
THEOREM TreeTheorem == Spec => []TreeExact
<1>1. BuildInv => TreeExact
  <2> SUFFICES ASSUME BuildInv, status = "ok" PROVE TreeExact
    BY DEF TreeExact
  <2> DEFINE of == [s \in DOMAIN text |-> {n \in DOMAIN node : node[n].stmt = s /\ node[n].flavor # "perm"}]
  <2>1. cur - 1 = Len(text) /\ DOMAIN text = 1..Len(text) /\ ast = 1 /\ DOMAIN node \subseteq Nat
    BY TextHere DEF BuildInv, BuildTypes
  <2>2. ASSUME NEW n \in DOMAIN node, Main(n), StmtOf(n) \in DOMAIN text
        PROVE  of[StmtOf(n)] = {n}
    <3>1. \A m \in DOMAIN node : Main(m) /\ StmtOf(m) = StmtOf(n) => m = n
      BY <2>2, OneNode DEF BuildInv
    <3> QED
      BY <2>2, <3>1 DEF Main, StmtOf
  <2>3. ASSUME NEW s \in DOMAIN text
        PROVE  \E n \in of[s] :
                 /\ of[s] = {n} /\ node[n].flavor = Flavor(text[s].kw)
                 /\ node[n].parent = (IF Within(s) = 0 THEN 1 ELSE Max(of[Within(s)]))
                 /\ \A i \in DOMAIN text[s].perms : node[n + i] = [flavor |-> "perm", stmt |-> s, parent |-> n]
    <3>1. PICK n \in DOMAIN node \ {1} : NodeOf(n, s)
      BY <2>1 DEF BuildInv, Made
    <3> DEFINE p == node[n].parent
    <3>2. /\ Main(n) /\ StmtOf(n) = s /\ node[n].flavor = Flavor(text[s].kw) /\ StmtOf(p) = Within(s)
          /\ \A i \in DOMAIN text[s].perms : node[n + i] = [flavor |-> "perm", stmt |-> s, parent |-> n]
      BY <3>1 DEF NodeOf, StmtOf
    <3>3. of[s] = {n}
      BY <2>2, <3>2
    <3>4. p \in DOMAIN node /\ Main(p) /\ p \in Nat
      <4>1. p \in 1..(n - 1) /\ Main(p)
        BY DEF BuildInv, BuildTypes
      <4>2. p \in DOMAIN node
        BY <4>1, UpwardsOf DEF BuildInv, IsForest
      <4> QED
        BY <2>1, <4>1, <4>2
    <3> HIDE DEF of, p
    <3>5. CASE Within(s) = 0
      <4>1. p = 1
        <5>1. p # 1 => StmtOf(p) \in 1..(cur - 1)
          BY <3>4 DEF BuildInv, BuildTypes, StmtOf
        <5> QED
          BY <3>2, <3>5, <5>1
      <4> QED
        BY <3>2, <3>3, <3>5, <4>1 DEF p
    <3>6. CASE Within(s) # 0
      <4>1. Within(s) \in DOMAIN text
        BY <3>6, EnclosingWithin DEF BuildInv
      <4>2. of[Within(s)] = {p}
        BY <2>2, <3>2, <3>4, <4>1
      <4>3. Max({p}) = p
        <5> DEFINE S == {p}
        <5>1. S \in SUBSET Nat /\ S # {} /\ \A x \in S : x <= p
          BY <3>4
        <5>2. Max(S) \in S
          <6> HIDE DEF S
          <6> QED
            BY <3>4, <5>1, MaxIn
        <5> QED
          BY <5>2
      <4> QED
        BY <3>2, <3>3, <3>6, <4>2, <4>3 DEF p
    <3> QED
      BY <3>5, <3>6
  <2> QED
    BY <2>1, <2>3 DEF TreeExact
<1> QED
  BY <1>1, BuildInvariant, PTL
=============================================================================
