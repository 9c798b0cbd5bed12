--------------------------- MODULE CilVerifyProofs ---------------------------
(***************************************************************************)
(* What an accepted policy is, for every policy: the three safety          *)
(* properties of CilVerify from one invariant of its two walks.            *)
(***************************************************************************)
EXTENDS CilVerify, NumberLemmas

Settings == {"handleunknown", "mls"}
Going == status \in {"walk", "bounds", "ok"}

VerifyTypes ==
  /\ policy \in Policies
  /\ status \in {"walk", "bounds", "ok", "err", "undefined"}
  /\ pass \in {0, 1} /\ cur \in Nat \ {0}
  /\ avrules \in Nat /\ defaults \in Nat
  /\ setting \in [Settings -> Nat \cup {-1}]
  /\ status = "ok" => pass = 1 /\ cur \notin Node

(* The walk is inside nothing that it skips *)
Closes(n) == policy.nodes[n].kind \in SkippedKind \/ (pass = 0 /\ policy.nodes[n].kind = "booleanif")
Outside == Going => \A s \in Node : s < cur /\ Closes(s) => policy.nodes[s].last < cur

(* What the first and the second walk have come to *)
First == {n \in Node : Live(n) /\ n \notin InBooleanif /\ (pass = 1 \/ n < cur)}
Second == {n \in Node : Live(n) /\ pass = 1 /\ n < cur}

(* What is verified of a node when the first walk goes on *)
UserOk(u) ==
  LET r == policy.user[u].range
  IN  r # NULL /\ (~ policy.range[r].named => VerifyLevelrange(policy.range[r]) = "ok")
NoCircle(d) == \A x \in Above(d) : x \notin Above(x)
Checked(n) ==
  LET here == policy.nodes[n]
  IN  /\ here.kind = "user" => UserOk(here.d)
      /\ here.kind \in Bounded => NoCircle(here.d)
      /\ here.kind = "levelrange" => VerifyLevelrange(policy.range[here.d]) = "ok"
      /\ here.kind = "booleanif" =>
           \A m \in (n + 1)..here.last : policy.nodes[m].kind \in AllowedInBooleanif

(* And the second *)
CheckedLater(n) ==
  LET here == policy.nodes[n]
  IN  /\ here.kind \in Labelling =>
           \A i \in DOMAIN here.d :
             policy.context[here.d[i]].named \/ VerifyContext(policy.context[here.d[i]]) = "ok"
      /\ here.kind = "context" => VerifyContext(policy.context[here.d]) = "ok"

(* What the counters and settings say of the nodes that were counted *)
Of(k) == {n \in First : policy.nodes[n].kind = k}
Counted ==
  /\ avrules # 0 => Of("avrule") \cup Of("neverallow") # {}
  /\ defaults = 0 => Of("selinuxuserdefault") = {}
  /\ defaults <= 1 => \A m, n \in Of("selinuxuserdefault") : m = n
  /\ \A k \in Settings :
       /\ \A m, n \in Of(k) : m = n
       /\ \A n \in Of(k) : setting[k] = policy.nodes[n].d
       /\ Of(k) = {} => setting[k] = -1
  /\ status = "ok" => avrules # 0 /\ defaults <= 1

Verified ==
  Going => /\ \A n \in First : Checked(n)
           /\ \A n \in Second : CheckedLater(n)
           /\ Counted

(* The search for circular bounds: u1 and u2 are on the way up from what is *)
(* verified, u2 is above u1, and every circle on that way is above u2       *)
Search ==
  /\ u2 = NULL \/ status \in {"bounds", "err"}
  /\ status = "bounds" \/ (status = "err" /\ u2 # NULL) =>
       /\ pass = 0 /\ cur \in Node /\ Here.kind \in Bounded
       /\ Here.kind = "user" => policy.user[Here.d].range # NULL
       /\ u1 \in {Here.d} \cup Above(Here.d)
       /\ u2 # NULL => u2 \in Above(u1) /\ u2 \in Above(Here.d)
       /\ status = "bounds" => \A x \in Above(Here.d) : x \in Above(x) => u2 # NULL /\ x \in Above(u2)

VerifyInv == VerifyTypes /\ Outside /\ Verified /\ Search
-----------------------------------------------------------------------------
(* Bounds *)

(* What lies above d is its bound and what lies above that. *)
LEMMA AboveBound ==
  ASSUME IsPolicy(policy), NEW d \in DOMAIN policy.bounds
  PROVE  /\ Above(d) \subseteq DOMAIN policy.bounds
         /\ policy.bounds[d] = NULL => Above(d) = {}
         /\ policy.bounds[d] # NULL =>
              /\ policy.bounds[d] \in Above(d)
              /\ Above(d) = {policy.bounds[d]} \cup Above(policy.bounds[d])
<1> DEFINE D == DOMAIN policy.bounds
           b(x) == policy.bounds[x]
           Closed(x, S) == \A y \in S \cup {x} : b(y) \in S \cup {NULL}
<1>1. /\ \A x \in D : b(x) \in D \cup {NULL}
      /\ NULL \notin D /\ d \in D
  BY DEF IsPolicy
<1>2. \A x, e \in D : x \in Above(e) <=> \A S \in SUBSET D : Closed(e, S) => x \in S
  BY DEF Above
<1>3. \A e \in D : Above(e) \subseteq D
  BY DEF Above
<1> HIDE DEF D, b
<1>4. CASE b(d) = NULL
  <2> DEFINE T == {}
  <2>1. T \in SUBSET D /\ Closed(d, T)
    BY <1>4
  <2>2. \A x \in Above(d) : x \in T
    <3> HIDE DEF T
    <3> QED
      BY <1>1, <1>2, <1>3, <2>1
  <2> QED
    BY <1>1, <1>3, <1>4, <2>2 DEF D, b
<1>5. CASE b(d) # NULL
  <2>1. b(d) \in D
    BY <1>1, <1>5
  <2>2. b(d) \in Above(d)
    BY <1>1, <1>2, <1>5, <2>1
  <2>3. ASSUME NEW x \in Above(b(d)) PROVE x \in Above(d)
    <3>1. x \in D
      BY <1>3, <2>1, <2>3
    <3>2. ASSUME NEW S \in SUBSET D, Closed(d, S) PROVE x \in S
      <4>1. Closed(b(d), S)
        BY <1>5, <3>2
      <4> QED
        BY <1>2, <2>1, <2>3, <3>1, <4>1
    <3> QED
      BY <1>1, <1>2, <3>1, <3>2
  <2>4. ASSUME NEW x \in Above(d), x # b(d) PROVE x \in Above(b(d))
    <3>1. x \in D
      BY <1>1, <1>3
    <3>2. ASSUME NEW S \in SUBSET D, Closed(b(d), S) PROVE x \in S
      <4> DEFINE T == S \cup {b(d)}
      <4>1. T \in SUBSET D /\ Closed(d, T)
        BY <2>1, <3>2
      <4>2. x \in T
        <5> HIDE DEF T
        <5> QED
          BY <1>1, <1>2, <3>1, <4>1
      <4> QED
        BY <2>4, <4>2
    <3> QED
      BY <1>2, <2>1, <3>1, <3>2
  <2>5. Above(d) = {b(d)} \cup Above(b(d))
    BY <2>2, <2>3, <2>4
  <2> QED
    BY <1>3, <1>5, <2>2, <2>5 DEF D, b
<1> QED
  BY <1>4, <1>5 DEF b
-----------------------------------------------------------------------------
(* The walks *)

(* The policy is well formed                                                *)
LEMMA InitPolicy ==
  ASSUME policy \in Policies
  PROVE  IsPolicy(policy)
BY PoliciesAssumption

(* No step changes the policy, and what is said of the policy alone stays. *)
LEMMA PolicyStays ==
  ASSUME [Next]_vars
  PROVE  policy' = policy
BY DEF Next, Step, Terminal, vars, Skip, PassBy, EndWalk, VisitBounded, FollowBounds, EndBounds,
       CountAvrule, CountDefault, ReadSetting, VisitBooleanif, VisitLevelrange,
       VisitClassOrPolicycap, VisitLabelling, VisitContext, Finish

(* What is said of the nodes depends on the policy only                     *)
LEMMA SameNodes ==
  ASSUME policy' = policy
  PROVE  /\ Node' = Node
         /\ \A n : Live(n)' <=> Live(n)
         /\ InBooleanif' = InBooleanif
         /\ \A d : Above(d)' = Above(d)
<1>1. Node' = Node
  BY DEF Node
<1>2. \A n : Live(n)' <=> Live(n)
  BY <1>1 DEF Live
<1>3. LiveNodes({"booleanif"})' = LiveNodes({"booleanif"})
  BY <1>1, <1>2 DEF LiveNodes
<1>4. InBooleanif' = InBooleanif
  BY <1>3 DEF InBooleanif
<1>5. \A d : Above(d)' = Above(d)
  BY DEF Above
<1> QED
  BY <1>1, <1>2, <1>4, <1>5

(* And so does what the handlers find                                       *)
LEMMA SameChecks ==
  ASSUME policy' = policy
  PROVE  \A n : /\ Checked(n)' <=> Checked(n)
                /\ CheckedLater(n)' <=> CheckedLater(n)
<1>1. \A r : VerifyLevelrange(r)' = VerifyLevelrange(r)
  <2>1. \A r : VerifySensitivity(r)' <=> VerifySensitivity(r)
    BY DEF VerifySensitivity
  <2>2. \A s, c : VerifyAssociated(s, c)' = VerifyAssociated(s, c)
    BY Zenon DEF VerifyAssociated
  <2> QED
    BY <2>1, <2>2, Zenon DEF VerifyLevelrange
<1>2. \A u, c : RangeWithinUser(u, c)' <=> RangeWithinUser(u, c)
  <2> DEFINE Within(ord, u, c) ==
        LET lows == {i \in DOMAIN ord : ord[i] \in {u.lowSens, c.lowSens}}
            start == Min(lows)
            highs == {i \in DOMAIN ord : i >= start /\ ord[i] \in {u.highSens, c.highSens}}
        IN  \/ lows = {}
            \/ /\ ord[start] = u.lowSens
               /\ highs = {} \/ ord[Min(highs)] = c.highSens
  <2>1. \A u, c : RangeWithinUser(u, c) <=> Within(policy.order, u, c)
    BY DEF RangeWithinUser
  <2>2. \A u, c : RangeWithinUser(u, c)' <=> Within(policy'.order, u, c)
    BY DEF RangeWithinUser
  <2> HIDE DEF Within
  <2> QED
    BY <2>1, <2>2
<1>3. \A c : VerifyContext(c)' = VerifyContext(c)
  BY <1>1, <1>2, Zenon DEF VerifyContext
<1>4. \A u : UserOk(u)' <=> UserOk(u)
  BY <1>1, Zenon DEF UserOk
<1>5. \A d : NoCircle(d)' <=> NoCircle(d)
  BY SameNodes, Zenon DEF NoCircle
<1>6. \A n : Checked(n)' <=> Checked(n)
  BY <1>1, <1>4, <1>5, Zenon DEF Checked
<1>7. \A n : CheckedLater(n)' <=> CheckedLater(n)
  BY <1>3, Zenon DEF CheckedLater
<1> QED
  BY <1>6, <1>7

(* Where the walk stops to look is outside every macro, abstract block and, *)
(* in the first walk, booleanif.                                            *)
LEMMA HereLive ==
  ASSUME VerifyTypes, Outside, status \in {"walk", "bounds"}, cur \in Node, Here.kind \notin SkippedKind
  PROVE  /\ Live(cur)
         /\ pass = 0 => cur \notin InBooleanif
<1>1. /\ Node \subseteq Nat /\ \A n \in Node : policy.nodes[n].last \in Nat
      /\ \A s \in Node : s < cur /\ Closes(s) => policy.nodes[s].last < cur
  BY InitPolicy DEF VerifyTypes, IsPolicy, Node, Outside, Going
<1>2. Live(cur)
  <2> SUFFICES ASSUME NEW s \in Node, policy.nodes[s].kind \in SkippedKind, cur \in s..policy.nodes[s].last
               PROVE  FALSE
    BY DEF Live
  <2>1. s # cur
    BY DEF Here
  <2>2. s < cur /\ cur <= policy.nodes[s].last
    BY <1>1, <2>1
  <2> QED
    BY <1>1, <2>2 DEF Closes
<1>3. ASSUME pass = 0, cur \in InBooleanif PROVE FALSE
  <2>1. PICK s \in LiveNodes({"booleanif"}) : cur \in (s + 1)..policy.nodes[s].last
    BY <1>3 DEF InBooleanif
  <2>2. s \in Node /\ policy.nodes[s].kind = "booleanif"
    BY <2>1 DEF LiveNodes
  <2>3. s < cur /\ cur <= policy.nodes[s].last
    BY <1>1, <2>1, <2>2
  <2> QED
    BY <1>1, <1>3, <2>2, <2>3 DEF Closes
<1> QED
  BY <1>2, <1>3

(* A statement that the walk goes on behind is one more that it has come to. *)
LEMMA FirstMoves ==
  ASSUME VerifyTypes, Outside, status \in {"walk", "bounds"}, pass = 0, cur \in Node,
         Here.kind \notin SkippedKind, policy' = policy, pass' = pass, cur' = cur + 1
  PROVE  First' = First \cup {cur} /\ Second' = {}
<1>1. /\ Node \subseteq Nat /\ Node' = Node /\ InBooleanif' = InBooleanif
      /\ \A n : Live(n)' <=> Live(n)
  BY SameNodes, InitPolicy DEF VerifyTypes, IsPolicy, Node
<1>2. Live(cur) /\ cur \notin InBooleanif
  BY HereLive
<1>3. \A n \in Node : n < cur + 1 <=> n < cur \/ n = cur
  BY <1>1 DEF VerifyTypes
<1>4. \A n : n \in First' <=> n \in First \/ n = cur
  BY <1>1, <1>2, <1>3 DEF First
<1>5. Second' = {}
  BY DEF Second
<1> QED
  BY <1>4, <1>5

(* The second walk passes the node it stands at                             *)
LEMMA SecondMoves ==
  ASSUME VerifyTypes, Outside, status = "walk", pass = 1, cur \in Node,
         Here.kind \notin SkippedKind, policy' = policy, pass' = pass, cur' = cur + 1
  PROVE  First' = First /\ Second' = Second \cup {cur}
<1>1. /\ Node \subseteq Nat /\ Node' = Node /\ InBooleanif' = InBooleanif
      /\ \A n : Live(n)' <=> Live(n)
  BY SameNodes, InitPolicy DEF VerifyTypes, IsPolicy, Node
<1>2. Live(cur)
  BY HereLive
<1>3. \A n \in Node : n < cur + 1 <=> n < cur \/ n = cur
  BY <1>1 DEF VerifyTypes
<1> QED
  BY <1>1, <1>2, <1>3 DEF First, Second

(* Behind a macro or an abstract block the walk has come to nothing new. *)
LEMMA SkipMoves ==
  ASSUME VerifyTypes, Skip
  PROVE  First' = First /\ Second' = Second
<1>1. /\ Node \subseteq Nat /\ Node' = Node /\ InBooleanif' = InBooleanif
      /\ \A n : Live(n)' <=> Live(n)
  BY SameNodes, InitPolicy DEF VerifyTypes, IsPolicy, Node, Skip
<1>2. Here.last \in cur..Len(policy.nodes) /\ Len(policy.nodes) \in Nat /\ cur \in Nat
  BY InitPolicy DEF VerifyTypes, IsPolicy, Node, Skip, Here
<1>3. \A n \in Node : Live(n) => n \notin cur..Here.last
  BY DEF Live, Skip, Here
<1>4. \A n \in Node : Live(n) => (n < Here.last + 1 <=> n < cur)
  BY <1>1, <1>2, <1>3
<1> QED
  BY <1>1, <1>4 DEF First, Second, Skip

(* Behind a booleanif too: what is in it is not counted. *)
LEMMA BooleanifMoves ==
  ASSUME VerifyTypes, Outside, VisitBooleanif, status' = "walk"
  PROVE  First' = First \cup {cur} /\ Second' = {}
<1>1. /\ Node \subseteq Nat /\ Node' = Node /\ InBooleanif' = InBooleanif
      /\ \A n : Live(n)' <=> Live(n)
  BY SameNodes, InitPolicy DEF VerifyTypes, IsPolicy, Node, VisitBooleanif
<1>2. Here.last \in cur..Len(policy.nodes) /\ Len(policy.nodes) \in Nat /\ cur \in Nat
  BY InitPolicy DEF VerifyTypes, IsPolicy, Node, VisitBooleanif, At, Here
<1>3. /\ pass = 0 /\ pass' = 0 /\ cur \in Node /\ Here.kind = "booleanif" /\ status = "walk"
      /\ cur' = Here.last + 1
  BY DEF VisitBooleanif, At, Stop
<1>4. Live(cur) /\ cur \notin InBooleanif
  BY <1>3, HereLive DEF SkippedKind
<1>5. cur \in LiveNodes({"booleanif"})
  BY <1>3, <1>4 DEF LiveNodes, Here
<1>6. (cur + 1)..Here.last \subseteq InBooleanif
  BY <1>5 DEF InBooleanif, Here
<1>7. \A n \in Node : n \notin InBooleanif => (n < Here.last + 1 <=> n < cur \/ n = cur)
  BY <1>1, <1>2, <1>6
<1>8. \A n : n \in First' <=> n \in First \/ n = cur
  BY <1>1, <1>3, <1>4, <1>7 DEF First
<1>9. Second' = {}
  BY <1>3 DEF Second
<1> QED
  BY <1>8, <1>9

(* Nothing that is not there is left behind. *)
LEMMA OutsideStep ==
  ASSUME VerifyTypes, Outside, Search, [Next]_vars
  PROVE  Outside'
<1> SUFFICES ASSUME Going' PROVE \A s \in Node : (s < cur' /\ Closes(s)') => policy.nodes[s].last < cur'
  BY PolicyStays, SameNodes DEF Outside
<1>1. /\ Node \subseteq Nat \ {0} /\ cur \in Nat
      /\ \A n \in Node : /\ policy.nodes[n].last \in Nat /\ policy.nodes[n].last >= n
                         /\ \A m \in n..policy.nodes[n].last :
                              policy.nodes[m].last <= policy.nodes[n].last
  BY InitPolicy DEF VerifyTypes, IsPolicy, Node
<1>2. \A s \in Node : pass' = pass => (Closes(s)' <=> Closes(s))
  BY PolicyStays DEF Closes
<1>3. CASE pass' = pass /\ cur' = cur /\ Going
  BY <1>2, <1>3 DEF Outside
<1>4. CASE pass' = pass /\ cur' = cur + 1 /\ Going /\ ~ Closes(cur)
  <2> SUFFICES ASSUME NEW s \in Node, s < cur + 1, Closes(s)
               PROVE  policy.nodes[s].last < cur + 1
    BY <1>2, <1>4
  <2>1. s < cur
    BY <1>1, <1>4
  <2>2. policy.nodes[s].last < cur
    BY <1>4, <2>1 DEF Outside
  <2> QED
    BY <1>1, <2>2
<1>5. CASE pass' = pass /\ cur \in Node /\ cur' = Here.last + 1 /\ Going
  <2> SUFFICES ASSUME NEW s \in Node, s < Here.last + 1, Closes(s)
               PROVE  policy.nodes[s].last < Here.last + 1
    BY <1>2, <1>5
  <2>1. Here.last = policy.nodes[cur].last /\ Here.last \in Nat /\ Here.last >= cur
    BY <1>1, <1>5 DEF Here
  <2>2. CASE s < cur
    <3>1. policy.nodes[s].last < cur
      BY <1>5, <2>2 DEF Outside
    <3> QED
      BY <1>1, <2>1, <3>1
  <2>3. CASE s >= cur
    <3>1. s \in cur..policy.nodes[cur].last
      BY <1>1, <2>1, <2>3
    <3>2. policy.nodes[s].last <= policy.nodes[cur].last
      BY <1>1, <1>5, <3>1
    <3> QED
      BY <1>1, <2>1, <3>2
  <2> QED
    BY <1>1, <2>2, <2>3
<1>6. CASE cur' = 1
  BY <1>1, <1>6
<1>7. CASE Skip
  BY <1>5, <1>7 DEF Skip, Going
<1>8. CASE VisitBooleanif
  BY <1>5, <1>8 DEF VisitBooleanif, At, Going, Stop
<1>9. CASE EndWalk
  BY <1>6, <1>9 DEF EndWalk
<1>10. CASE FollowBounds \/ Finish \/ Terminal \/ UNCHANGED vars
  <2>1. Finish => cur' = cur /\ pass' = pass /\ Going
    BY DEF Finish, Stop, Going
  <2>2. FollowBounds => cur' = cur /\ pass' = pass /\ Going
    BY DEF FollowBounds, Stop, Going
  <2>3. (Terminal \/ UNCHANGED vars) => cur' = cur /\ pass' = pass /\ Going
    BY DEF Terminal, vars, Going
  <2> QED
    BY <1>3, <1>10, <2>1, <2>2, <2>3
<1>11. CASE PassBy
  <2>1. cur' = cur + 1 /\ pass' = pass /\ Going
    BY <1>11 DEF PassBy, GoOn, Going
  <2>2. ~ Closes(cur)
    BY <1>11 DEF PassBy, Closes, Handled, Here, VerifyTypes
  <2> QED
    BY <1>4, <2>1, <2>2
<1>12. CASE VisitBounded \/ EndBounds
  <2>1. /\ Going /\ pass' = pass /\ cur' \in {cur, cur + 1} /\ Here.kind \in Bounded
    BY <1>12 DEF VisitBounded, EndBounds, AfterBounds, At, Going, GoOn, Stop, Outcome, Search
  <2> QED
    BY <1>3, <1>4, <2>1 DEF Closes, Here, Bounded, SkippedKind
<1>13. CASE CountAvrule \/ CountDefault \/ ReadSetting \/ VisitLevelrange \/ VisitClassOrPolicycap
            \/ VisitLabelling \/ VisitContext
  <2>1. /\ Going /\ pass' = pass /\ cur' \in {cur, cur + 1}
        /\ Here.kind \notin SkippedKind \cup {"booleanif"}
    BY <1>13 DEF CountAvrule, CountDefault, ReadSetting, VisitLevelrange, VisitClassOrPolicycap,
         VisitLabelling, VisitContext, At, Going, GoOn, Stop, Outcome, SkippedKind, Labelling
  <2> QED
    BY <1>3, <1>4, <2>1 DEF Closes, Here
<1> QED
  BY <1>7, <1>8, <1>9, <1>10, <1>11, <1>12, <1>13 DEF Next, Step
-----------------------------------------------------------------------------
(* The checks *)

Result == {"ok", "err", "undefined"}

(* Several checks come out well when each of them does. *)
LEMMA AllOk ==
  ASSUME NEW rs, DOMAIN rs \subseteq Nat, \A i \in DOMAIN rs : rs[i] \in Result
  PROVE  /\ FirstFailure(rs) \in Result
         /\ FirstFailure(rs) = "ok" <=> \A i \in DOMAIN rs : rs[i] = "ok"
<1> DEFINE bad == {i \in DOMAIN rs : rs[i] # "ok"}
<1>1. FirstFailure(rs) = IF bad = {} THEN "ok" ELSE rs[Min(bad)]
  BY DEF FirstFailure
<1>2. bad # {} => Min(bad) \in bad
  <2>1. bad \in SUBSET Nat
    OBVIOUS
  <2> HIDE DEF bad
  <2> QED
    BY <2>1, MinIn
<1> QED
  BY <1>1, <1>2 DEF Result

(* __cil_verify_levelrange succeeds exactly when all its parts do           *)
LEMMA LevelrangeOk ==
  ASSUME NEW r
  PROVE  /\ VerifyLevelrange(r) \in Result
         /\ VerifyLevelrange(r) = "ok" <=>
              /\ VerifySensitivity(r)
              /\ VerifyCats(r.lowCats, r.highCats) = "ok"
              /\ VerifyAssociated(r.lowSens, r.lowCats) = "ok"
              /\ VerifyAssociated(r.highSens, r.highCats) = "ok"
<1> DEFINE rs == <<IF VerifySensitivity(r) THEN "ok" ELSE "err", VerifyCats(r.lowCats, r.highCats),
                   VerifyAssociated(r.lowSens, r.lowCats), VerifyAssociated(r.highSens, r.highCats)>>
<1>1. \A low, high : VerifyCats(low, high) \in Result
  BY Zenon DEF VerifyCats, Result
<1>2. \A sens, cats : VerifyAssociated(sens, cats) \in Result
  BY Zenon DEF VerifyAssociated, Result
<1>3. /\ DOMAIN rs = 1..4 /\ rs[1] = (IF VerifySensitivity(r) THEN "ok" ELSE "err")
      /\ rs[2] = VerifyCats(r.lowCats, r.highCats)
      /\ rs[3] = VerifyAssociated(r.lowSens, r.lowCats)
      /\ rs[4] = VerifyAssociated(r.highSens, r.highCats)
  OBVIOUS
<1>4. VerifyLevelrange(r) = FirstFailure(rs)
  BY DEF VerifyLevelrange
<1> HIDE DEF rs
<1>5. DOMAIN rs \subseteq Nat /\ \A i \in DOMAIN rs : rs[i] \in Result
  <2>1. rs[1] \in Result /\ rs[2] \in Result /\ rs[3] \in Result /\ rs[4] \in Result
    BY <1>1, <1>2, <1>3 DEF Result
  <2>2. \A i \in 1..4 : i = 1 \/ i = 2 \/ i = 3 \/ i = 4
    OBVIOUS
  <2> QED
    BY <1>3, <2>1, <2>2
<1>6. /\ FirstFailure(rs) \in Result
      /\ FirstFailure(rs) = "ok" <=> \A i \in DOMAIN rs : rs[i] = "ok"
  BY <1>5, AllOk
<1>7. (\A i \in DOMAIN rs : rs[i] = "ok") <=> rs[1] = "ok" /\ rs[2] = "ok" /\ rs[3] = "ok" /\ rs[4] = "ok"
  <2>1. \A i \in 1..4 : i = 1 \/ i = 2 \/ i = 3 \/ i = 4
    OBVIOUS
  <2> QED
    BY <1>3, <2>1
<1>8. rs[1] = "ok" <=> VerifySensitivity(r)
  BY <1>3
<1> QED
  BY <1>3, <1>4, <1>6, <1>7, <1>8

(* __cil_verify_context succeeds exactly when all its parts do              *)
LEMMA ContextOk ==
  ASSUME NEW c
  PROVE  LET user == policy.user[c.user]
             range == policy.range[c.range]
         IN  /\ VerifyContext(c) \in Result
             /\ VerifyContext(c) = "ok" <=>
                  /\ user.roles # NULL /\ c.role \in user.roles
                  /\ policy.types[c.role] # NULL /\ c.type \in policy.types[c.role]
                  /\ range.named \/ VerifyLevelrange(range) = "ok"
                  /\ RangeWithinUser(policy.range[user.range], range)
<1> DEFINE user == policy.user[c.user]
           range == policy.range[c.range]
           A1 == user.roles # NULL /\ c.role \in user.roles
           A2 == policy.types[c.role] # NULL /\ c.type \in policy.types[c.role]
           A3 == range.named
           A4 == RangeWithinUser(policy.range[user.range], range)
           lr == VerifyLevelrange(range)
           rs == <<IF A1 THEN "ok" ELSE "err", IF A2 THEN "ok" ELSE "err", IF A3 THEN "ok" ELSE lr,
                   IF A4 THEN "ok" ELSE "err">>
<1>1. lr \in Result
  BY LevelrangeOk
<1>2. VerifyContext(c) = FirstFailure(rs)
  BY DEF VerifyContext
<1>3. (VerifyContext(c) = "ok" <=> A1 /\ A2 /\ (A3 \/ lr = "ok") /\ A4) /\ VerifyContext(c) \in Result
  <2> HIDE DEF A1, A2, A3, A4, lr
  <2>1. /\ DOMAIN rs = 1..4 /\ rs[1] = (IF A1 THEN "ok" ELSE "err") /\ rs[2] = (IF A2 THEN "ok" ELSE "err")
        /\ rs[3] = (IF A3 THEN "ok" ELSE lr) /\ rs[4] = (IF A4 THEN "ok" ELSE "err")
    OBVIOUS
  <2> HIDE DEF rs
  <2>2. \A i \in 1..4 : i = 1 \/ i = 2 \/ i = 3 \/ i = 4
    OBVIOUS
  <2>3. rs[1] \in Result /\ rs[2] \in Result /\ rs[3] \in Result /\ rs[4] \in Result
    BY <1>1, <2>1 DEF Result
  <2>4. DOMAIN rs \subseteq Nat /\ \A i \in DOMAIN rs : rs[i] \in Result
    BY <2>1, <2>2, <2>3
  <2>5. /\ FirstFailure(rs) \in Result
        /\ FirstFailure(rs) = "ok" <=> \A i \in DOMAIN rs : rs[i] = "ok"
    BY <2>4, AllOk
  <2>6. (\A i \in DOMAIN rs : rs[i] = "ok") <=> rs[1] = "ok" /\ rs[2] = "ok" /\ rs[3] = "ok" /\ rs[4] = "ok"
    BY <2>1, <2>2
  <2>7. (rs[1] = "ok" <=> A1) /\ (rs[2] = "ok" <=> A2) /\ (rs[3] = "ok" <=> A3 \/ lr = "ok")
        /\ (rs[4] = "ok" <=> A4)
    BY <2>1
  <2> QED
    BY <1>2, <2>5, <2>6, <2>7
<1> QED
  BY <1>3, Zenon

(* The contexts of a labelling statement. *)
LEMMA LabelsOk ==
  ASSUME VerifyTypes, cur \in Node, Here.kind \in Labelling
  PROVE  LET rs == [i \in DOMAIN Here.d |->
                      IF policy.context[Here.d[i]].named THEN "ok"
                      ELSE VerifyContext(policy.context[Here.d[i]])]
         IN  /\ FirstFailure(rs) \in Result
             /\ FirstFailure(rs) = "ok" =>
                  \A i \in DOMAIN Here.d : \/ policy.context[Here.d[i]].named
                                           \/ VerifyContext(policy.context[Here.d[i]]) = "ok"
<1> DEFINE V(i) == VerifyContext(policy.context[Here.d[i]])
           N(i) == policy.context[Here.d[i]].named
           D == DOMAIN Here.d
           rs == [i \in D |-> IF N(i) THEN "ok" ELSE V(i)]
<1>1. D \subseteq Nat
  <2>1. Here.d \in Seq(DOMAIN policy.context)
    BY InitPolicy DEF VerifyTypes, IsPolicy, Node, Here
  <2> QED
    BY <2>1
<1>2. \A i : V(i) \in Result
  BY ContextOk
<1> HIDE DEF V, N, D
<1>3. DOMAIN rs \subseteq Nat /\ \A i \in DOMAIN rs : rs[i] \in Result
  BY <1>1, <1>2 DEF Result
<1> DEFINE ff == FirstFailure(rs)
<1>4. ff \in Result /\ (ff = "ok" <=> \A i \in DOMAIN rs : rs[i] = "ok")
  <2> HIDE DEF rs
  <2> QED
    BY <1>3, AllOk
<1>5. ff = "ok" => \A i \in D : N(i) \/ V(i) = "ok"
  <2> HIDE DEF ff
  <2> QED
    BY <1>4
<1> QED
  BY <1>4, <1>5 DEF V, N, D

(* Every step keeps the types. *)
LEMMA TypesStep ==
  ASSUME VerifyTypes, Search, [Next]_vars
  PROVE  VerifyTypes'
<1>1. policy' = policy /\ policy \in Policies /\ Node' = Node
  BY PolicyStays, SameNodes DEF VerifyTypes
<1>2. cur \in Node => Here.last + 1 \in Nat \ {0}
  BY InitPolicy DEF VerifyTypes, IsPolicy, Node, Here
<1>3. cur + 1 \in Nat \ {0}
  BY DEF VerifyTypes
<1>4. ASSUME status' \in {"walk", "bounds", "err", "undefined"}, cur' \in Nat \ {0}, UNCHANGED <<pass, found>>
      PROVE  VerifyTypes'
  BY <1>1, <1>4 DEF VerifyTypes, found
<1>5. CASE Skip \/ PassBy
  BY <1>2, <1>3, <1>4, <1>5 DEF Skip, PassBy, GoOn
<1>6. CASE EndWalk
  BY <1>1, <1>6 DEF EndWalk, VerifyTypes, found
<1>7. \A r : Outcome(r) /\ r \in Result => /\ status' \in {"walk", "bounds", "err", "undefined"}
                                           /\ cur' \in Nat \ {0}
  BY <1>3 DEF Outcome, GoOn, Stop, Result, VerifyTypes
<1>8. CASE VisitBounded
  BY <1>4, <1>8 DEF VisitBounded, Stop, VerifyTypes
<1>9. CASE FollowBounds
  BY <1>4, <1>9 DEF FollowBounds, Stop, VerifyTypes
<1>10. CASE EndBounds
  <2>1. status' \in {"walk", "bounds", "err", "undefined"} /\ cur' \in Nat \ {0}
    BY <1>3, <1>7, <1>10, LevelrangeOk DEF EndBounds, AfterBounds, GoOn
  <2> QED
    BY <1>4, <1>10, <2>1 DEF EndBounds
<1>11. CASE CountAvrule \/ CountDefault
  BY <1>1, <1>3, <1>11 DEF CountAvrule, CountDefault, GoOn, VerifyTypes
<1>12. CASE ReadSetting
  <2>1. Here.d \in Nat /\ Here.kind \in Settings
    BY <1>12, InitPolicy DEF ReadSetting, At, VerifyTypes, IsPolicy, Node, Here, Settings
  <2>2. setting' \in [Settings -> Nat \cup {-1}]
    BY <1>12, <2>1 DEF ReadSetting, VerifyTypes
  <2>3. status' \in {"walk", "err"} /\ cur' \in Nat \ {0} /\ pass' = pass /\ avrules' = avrules
        /\ defaults' = defaults
    BY <1>3, <1>12 DEF ReadSetting, GoOn, Stop, VerifyTypes
  <2> QED
    BY <1>1, <2>2, <2>3 DEF VerifyTypes
<1>13. CASE VisitBooleanif
  <2>1. status' \in {"walk", "bounds", "err", "undefined"} /\ cur' \in Nat \ {0}
    BY <1>2, <1>13 DEF VisitBooleanif, At, Stop, VerifyTypes
  <2> QED
    BY <1>4, <1>13, <2>1 DEF VisitBooleanif
<1>14. CASE VisitLevelrange
  BY <1>4, <1>7, <1>14, LevelrangeOk DEF VisitLevelrange
<1>15. CASE VisitClassOrPolicycap
  <2>1. status' \in {"walk", "bounds", "err", "undefined"} /\ cur' \in Nat \ {0}
    BY <1>3, <1>15 DEF VisitClassOrPolicycap, GoOn, Stop, VerifyTypes
  <2> QED
    BY <1>4, <1>15, <2>1 DEF VisitClassOrPolicycap
<1>16. CASE VisitLabelling
  <2>1. cur \in Node /\ Here.kind \in Labelling
    BY <1>16 DEF VisitLabelling, At
  <2> QED
    BY <1>4, <1>7, <1>16, <2>1, LabelsOk DEF VisitLabelling
<1>17. CASE VisitContext
  BY <1>4, <1>7, <1>17, ContextOk DEF VisitContext
<1>18. CASE Finish
  BY <1>1, <1>18 DEF Finish, Stop, VerifyTypes
<1>19. CASE Terminal \/ UNCHANGED vars
  BY <1>1, <1>19 DEF Terminal, vars, found, VerifyTypes
<1> QED
  BY <1>5, <1>6, <1>8, <1>9, <1>10, <1>11, <1>12, <1>13, <1>14, <1>15, <1>16, <1>17, <1>18, <1>19
  DEF Next, Step
-----------------------------------------------------------------------------
(* The search for circular bounds *)

(* Every step keeps what is known about the search for a circle             *)
LEMMA SearchStep ==
  ASSUME VerifyTypes, Search, [Next]_vars
  PROVE  Search'
<1>1. /\ policy' = policy /\ policy \in Policies /\ Node' = Node /\ \A d : Above(d)' = Above(d)
      /\ IsPolicy(policy)
  BY PolicyStays, SameNodes, InitPolicy DEF VerifyTypes
<1> DEFINE D == DOMAIN policy.bounds
<1>2. ASSUME NEW x \in D, NEW e \in D, x \in Above(e)
      PROVE  policy.bounds[x] # NULL => policy.bounds[x] \in Above(e) /\ policy.bounds[x] \in D
  <2> SUFFICES ASSUME policy.bounds[x] # NULL
               PROVE  policy.bounds[x] \in Above(e) /\ policy.bounds[x] \in D
    OBVIOUS
  <2>1. policy.bounds[x] \in D
    BY <1>1 DEF IsPolicy
  <2>2. ASSUME NEW S \in SUBSET D, \A y \in S \cup {e} : policy.bounds[y] \in S \cup {NULL}
        PROVE  policy.bounds[x] \in S
    <3>1. x \in S
      BY <1>2, <2>2 DEF Above
    <3> QED
      BY <2>2, <3>1
  <2> QED
    BY <2>1, <2>2 DEF Above
<1>3. \A e \in D : Above(e) \subseteq D
  BY <1>1, AboveBound
<1>4. \A e \in D : /\ policy.bounds[e] = NULL => Above(e) = {}
                   /\ policy.bounds[e] # NULL =>
                        /\ policy.bounds[e] \in Above(e)
                        /\ Above(e) = {policy.bounds[e]} \cup Above(policy.bounds[e])
  BY <1>1, AboveBound
<1>5. cur \in Node /\ Here.kind \in Bounded => Here.d \in D
  BY <1>1 DEF IsPolicy, Node, Here
<1>6. ASSUME status \notin {"bounds", "err"}, status' # "bounds", u2' = u2
      PROVE  Search'
  BY <1>6 DEF Search
<1>7. CASE VisitBounded
  <2>1. /\ status = "walk" /\ pass = 0 /\ pass' = 0 /\ cur \in Node /\ Here.kind \in Bounded /\ u2 = NULL
        /\ cur' = cur /\ Here' = Here /\ Here.d \in D
    BY <1>1, <1>5, <1>7 DEF VisitBounded, At, Stop, Here, Search
  <2>2. CASE status' = "err"
    BY <1>7, <2>1, <2>2 DEF VisitBounded, Stop, Search, search
  <2>3. CASE status' # "err"
    <3>1. /\ status' = "bounds" /\ u1' = Here.d /\ u2' = policy.bounds[Here.d]
          /\ Here.kind = "user" => policy.user[Here.d].range # NULL
      BY <1>7, <2>3 DEF VisitBounded, Stop
    <3>2. u2' # NULL => u2' \in Above(Here.d)
      BY <1>4, <2>1, <3>1
    <3>3. ASSUME NEW x \in Above(Here.d), x \in Above(x) PROVE u2' # NULL /\ x \in Above(u2')
      <4>1. policy.bounds[Here.d] # NULL
        BY <1>4, <2>1
      <4>2. x = u2' \/ x \in Above(u2')
        BY <1>4, <2>1, <3>1, <4>1
      <4> QED
        BY <3>1, <3>3, <4>1, <4>2
    <3> QED
      BY <1>1, <2>1, <3>1, <3>2, <3>3 DEF Search
  <2> QED
    BY <2>2, <2>3
<1>8. CASE FollowBounds
  <2>1. /\ status = "bounds" /\ u2 # NULL /\ pass' = pass /\ cur' = cur /\ Here' = Here
    BY <1>1, <1>8 DEF FollowBounds, Stop, Here
  <2>2. /\ pass = 0 /\ cur \in Node /\ Here.kind \in Bounded /\ Here.d \in D
        /\ Here.kind = "user" => policy.user[Here.d].range # NULL
        /\ u1 \in {Here.d} \cup Above(Here.d)
        /\ u2 \in Above(u1) /\ u2 \in Above(Here.d)
        /\ \A x \in Above(Here.d) : x \in Above(x) => x \in Above(u2)
    BY <1>5, <2>1 DEF Search
  <2>3. u1 \in D /\ u2 \in D
    BY <1>3, <2>2
  <2>4. CASE u1 = u2
    <3>1. status' = "err" /\ u1' = u1 /\ u2' = u2
      BY <1>8, <2>4 DEF FollowBounds, Stop, search
    <3> QED
      BY <1>1, <2>1, <2>2, <3>1 DEF Search
  <2>5. CASE u1 # u2
    <3>1. status' = "bounds" /\ u1' \in {u1, u2} /\ u2' = policy.bounds[u2]
      BY <1>8, <2>1, <2>5 DEF FollowBounds
    <3>2. u1' \in {Here.d} \cup Above(Here.d)
      BY <2>2, <3>1
    <3>3. u2' # NULL => u2' \in Above(u1') /\ u2' \in Above(Here.d)
      <4>1. u2' # NULL => u2' \in Above(u1) /\ u2' \in Above(Here.d)
        BY <1>2, <2>2, <2>3, <3>1
      <4>2. u2' # NULL => u2' \in Above(u2)
        BY <1>4, <2>3, <3>1
      <4> QED
        BY <3>1, <4>1, <4>2
    <3>4. ASSUME NEW x \in Above(Here.d), x \in Above(x) PROVE u2' # NULL /\ x \in Above(u2')
      <4>1. x \in Above(u2)
        BY <2>2, <3>4
      <4>2. policy.bounds[u2] # NULL
        BY <1>4, <2>3, <4>1
      <4>3. x = u2' \/ x \in Above(u2')
        BY <1>4, <2>3, <3>1, <4>1, <4>2
      <4> QED
        BY <3>1, <3>4, <4>2, <4>3
    <3> QED
      BY <1>1, <2>1, <2>2, <3>1, <3>2, <3>3, <3>4 DEF Search
  <2> QED
    BY <2>4, <2>5
<1>9. CASE EndBounds
  <2>1. status' # "bounds" /\ u2' = NULL
    BY <1>9, LevelrangeOk DEF EndBounds, AfterBounds, Outcome, GoOn, Stop, Result, search
  <2> QED
    BY <2>1 DEF Search
<1>10. CASE Terminal \/ UNCHANGED vars
  <2>1. UNCHANGED <<policy, status, pass, cur, u1, u2>> /\ Here' = Here
    BY <1>10 DEF Terminal, vars, search, Here
  <2> QED
    BY <1>1, <2>1 DEF Search
<1>11. CASE Skip \/ PassBy \/ EndWalk \/ CountAvrule \/ CountDefault \/ ReadSetting \/ VisitBooleanif
            \/ VisitClassOrPolicycap \/ Finish
  BY <1>6, <1>11 DEF Skip, PassBy, EndWalk, CountAvrule, CountDefault, ReadSetting, VisitBooleanif,
     VisitClassOrPolicycap, Finish, At, GoOn, Stop, search
<1>12. CASE VisitLevelrange \/ VisitLabelling \/ VisitContext
  <2>1. \A r : Outcome(r) /\ r \in Result => status' # "bounds"
    BY DEF Outcome, GoOn, Stop, Result
  <2>2. VisitLabelling => cur \in Node /\ Here.kind \in Labelling
    BY DEF VisitLabelling, At
  <2> QED
    BY <1>6, <1>12, <2>1, <2>2, LevelrangeOk, ContextOk, LabelsOk
    DEF VisitLevelrange, VisitLabelling, VisitContext, At, search
<1> QED
  BY <1>7, <1>8, <1>9, <1>10, <1>11, <1>12 DEF Next, Step
-----------------------------------------------------------------------------
(* What has been verified stays so and grows with every statement *)

CountedKind == {"avrule", "neverallow", "selinuxuserdefault"} \cup Settings

(* A step that passes nothing keeps what was verified                       *)
LEMMA VerifiedStays ==
  ASSUME Verified, Going, policy' = policy, First' = First, Second' = Second,
         UNCHANGED found, status' # "ok"
  PROVE  Verified'
<1>1. \A k : Of(k)' = Of(k)
  BY DEF Of
<1>2. Counted'
  BY <1>1 DEF Verified, Counted, found
<1> QED
  BY <1>2, SameChecks DEF Verified

(* A node that the first walk passes meets the conditions of its kind       *)
LEMMA FirstGrows ==
  ASSUME Verified, Going, policy' = policy, First' = First \cup {cur}, Second' = {},
         Checked(cur), Here.kind \notin CountedKind, UNCHANGED found, status' # "ok"
  PROVE  Verified'
<1>1. \A k \in CountedKind : Of(k)' = Of(k)
  BY DEF Of, Here
<1>2. Counted'
  <2>1. /\ Of("avrule")' = Of("avrule") /\ Of("neverallow")' = Of("neverallow")
        /\ Of("selinuxuserdefault")' = Of("selinuxuserdefault")
        /\ \A k \in Settings : Of(k)' = Of(k)
    BY <1>1 DEF CountedKind
  <2>2. Counted /\ UNCHANGED <<avrules, defaults, setting>>
    BY DEF Verified, found
  <2>3. ASSUME NEW k \in Settings
        PROVE  /\ \A m, n \in Of(k)' : m = n
               /\ \A n \in Of(k)' : setting'[k] = policy.nodes[n].d
               /\ Of(k)' = {} => setting'[k] = -1
    BY <2>1, <2>2 DEF Counted
  <2>4. /\ avrules' # 0 => Of("avrule")' \cup Of("neverallow")' # {}
        /\ defaults' = 0 => Of("selinuxuserdefault")' = {}
        /\ defaults' <= 1 => \A m, n \in Of("selinuxuserdefault")' : m = n
    BY <2>1, <2>2 DEF Counted
  <2> QED
    BY <2>3, <2>4 DEF Counted
<1>3. \A n \in First' : Checked(n)
  BY DEF Verified
<1> QED
  BY <1>2, <1>3, SameChecks DEF Verified

(* A node that the second walk passes does, too                             *)
LEMMA SecondGrows ==
  ASSUME Verified, Going, policy' = policy, First' = First, Second' = Second \cup {cur},
         CheckedLater(cur), UNCHANGED found, status' # "ok"
  PROVE  Verified'
<1>1. \A k : Of(k)' = Of(k)
  BY DEF Of
<1>2. Counted'
  BY <1>1 DEF Verified, Counted, found
<1>3. \A n \in Second' : CheckedLater(n)
  BY DEF Verified
<1> QED
  BY <1>2, <1>3, SameChecks DEF Verified

(* Every step keeps what was verified                                       *)
LEMMA VerifiedStep ==
  ASSUME VerifyInv, [Next]_vars, VerifyTypes', Search'
  PROVE  Verified'
<1> USE DEF VerifyInv
<1>1. /\ policy' = policy /\ policy \in Policies /\ Node' = Node /\ IsPolicy(policy)
      /\ InBooleanif' = InBooleanif /\ \A n : Live(n)' <=> Live(n)
  BY PolicyStays, SameNodes, InitPolicy DEF VerifyTypes
<1>2. CASE Skip
  <2>1. First' = First /\ Second' = Second
    BY <1>2, SkipMoves
  <2>2. Going /\ status' # "ok" /\ UNCHANGED found
    BY <1>2 DEF Skip, Going
  <2> QED
    BY <1>1, <2>1, <2>2, VerifiedStays
<1>3. CASE PassBy
  <2>1. /\ status = "walk" /\ status' = "walk" /\ UNCHANGED <<pass, found>> /\ cur' = cur + 1
        /\ cur \in Node /\ Here.kind \notin SkippedKind \cup Handled[pass + 1] /\ Going
    BY <1>3 DEF PassBy, GoOn, Going
  <2>2. CASE pass = 0
    <3>1. Here.kind \notin Handled[1]
      BY <2>1, <2>2
    <3>2. Checked(cur) /\ Here.kind \notin CountedKind
      BY <3>1 DEF Checked, Here, Handled, CountedKind, Settings, Bounded
    <3> QED
      BY <1>1, <2>1, <2>2, <3>2, FirstMoves, FirstGrows
  <2>3. CASE pass = 1
    <3>1. Here.kind \notin Handled[2]
      BY <2>1, <2>3
    <3>2. CheckedLater(cur)
      BY <3>1 DEF CheckedLater, Here, Handled, Labelling
    <3> QED
      BY <1>1, <2>1, <2>3, <3>2, SecondMoves, SecondGrows
  <2> QED
    BY <2>2, <2>3 DEF VerifyTypes
<1>4. CASE EndWalk
  <2>1. Going /\ status' # "ok" /\ UNCHANGED found /\ pass = 0 /\ pass' = 1 /\ cur' = 1 /\ cur \notin Node
    BY <1>4 DEF EndWalk, Going
  <2>2. \A n \in Node : n < cur /\ ~ (n < 1)
    BY <1>1, <2>1 DEF Node, IsPolicy, VerifyTypes
  <2>3. First' = First /\ Second' = Second
    BY <1>1, <2>1, <2>2 DEF First, Second
  <2> QED
    BY <1>1, <2>1, <2>3, VerifiedStays
<1>5. CASE VisitBounded \/ FollowBounds
  <2>1. UNCHANGED <<pass, found, cur>> /\ Going /\ status' # "ok"
    BY <1>5 DEF VisitBounded, FollowBounds, At, Stop, Going
  <2>2. First' = First /\ Second' = Second
    BY <1>1, <2>1 DEF First, Second
  <2> QED
    BY <1>1, <2>1, <2>2, VerifiedStays
<1>6. CASE EndBounds
  <2>1. /\ status = "bounds" /\ u2 = NULL /\ pass = 0 /\ cur \in Node /\ Here.kind \in Bounded
        /\ Here.kind = "user" => policy.user[Here.d].range # NULL
        /\ NoCircle(Here.d) /\ UNCHANGED <<pass, found>> /\ Going
    BY <1>6 DEF EndBounds, Search, Going, NoCircle
  <2>2. CASE status' = "walk"
    <3>1. cur' = cur + 1 /\ (Here.kind = "user" => UserOk(Here.d))
      BY <1>6, <2>1, <2>2, LevelrangeOk DEF EndBounds, AfterBounds, Outcome, Stop, GoOn, UserOk, Result
    <3>2. Checked(cur)
      BY <2>1, <3>1 DEF Checked, Here, Bounded
    <3>3. Here.kind \notin SkippedKind \cup CountedKind
      BY <2>1 DEF Bounded, SkippedKind, CountedKind, Settings
    <3> QED
      BY <1>1, <2>1, <2>2, <3>1, <3>2, <3>3, FirstMoves, FirstGrows
  <2>3. CASE status' # "walk"
    <3>1. ~ Going'
      BY <1>6, <2>3, LevelrangeOk DEF EndBounds, AfterBounds, Outcome, Stop, GoOn, Going, Result
    <3> QED
      BY <3>1 DEF Verified
  <2> QED
    BY <2>2, <2>3
<1>7. CASE CountAvrule \/ CountDefault \/ ReadSetting
  <2>1. /\ status = "walk" /\ pass = 0 /\ pass' = pass /\ cur \in Node /\ Going
        /\ Here.kind \in CountedKind
    BY <1>7 DEF CountAvrule, CountDefault, ReadSetting, At, Going, CountedKind, Settings
  <2>2. CASE status' # "walk"
    <3>1. ~ Going'
      BY <1>7, <2>2 DEF CountAvrule, CountDefault, ReadSetting, GoOn, Stop, Going
    <3> QED
      BY <3>1 DEF Verified
  <2>3. CASE status' = "walk"
    <3>1. cur' = cur + 1
      BY <1>7, <2>3 DEF CountAvrule, CountDefault, ReadSetting, GoOn, Stop
    <3>2. Checked(cur) /\ Here.kind \notin SkippedKind
      BY <2>1 DEF Checked, Here, Bounded, SkippedKind, CountedKind, Settings
    <3>3. First' = First \cup {cur} /\ Second' = {}
      BY <1>1, <2>1, <3>1, <3>2, FirstMoves
    <3>4. \A k : Of(k)' = IF Here.kind = k THEN Of(k) \cup {cur} ELSE Of(k)
      BY <1>1, <3>3 DEF Of, Here
    <3>5. Counted /\ avrules \in Nat /\ defaults \in Nat
      BY <2>1 DEF Verified, VerifyTypes
    <3>6. Counted'
      <4>1. CASE CountAvrule
        <5>1. /\ Here.kind \in {"avrule", "neverallow"} /\ avrules' = avrules + 1 /\ avrules' # 0
              /\ UNCHANGED <<defaults, setting>>
          BY <3>5, <4>1 DEF CountAvrule, At
        <5>2. cur \in Of("avrule")' \cup Of("neverallow")'
          BY <3>4, <5>1
        <5>3. \A k \in {"selinuxuserdefault"} \cup Settings : Of(k)' = Of(k)
          BY <3>4, <5>1 DEF Settings
        <5>4. /\ Of("selinuxuserdefault")' = Of("selinuxuserdefault")
              /\ \A k \in Settings : Of(k)' = Of(k)
          BY <5>3
        <5>5. ASSUME NEW k \in Settings
              PROVE  /\ \A m, n \in Of(k)' : m = n
                     /\ \A n \in Of(k)' : setting'[k] = policy.nodes[n].d
                     /\ Of(k)' = {} => setting'[k] = -1
          BY <3>5, <5>1, <5>4 DEF Counted
        <5>6. /\ defaults' = 0 => Of("selinuxuserdefault")' = {}
              /\ defaults' <= 1 => \A m, n \in Of("selinuxuserdefault")' : m = n
          BY <3>5, <5>1, <5>4 DEF Counted
        <5> QED
          BY <1>1, <2>3, <5>2, <5>5, <5>6 DEF Counted
      <4>2. CASE CountDefault
        <5>1. /\ Here.kind = "selinuxuserdefault" /\ defaults' = defaults + 1
              /\ UNCHANGED <<avrules, setting>>
          BY <4>2 DEF CountDefault, At
        <5>2. \A k \in {"avrule", "neverallow"} \cup Settings : Of(k)' = Of(k)
          BY <3>4, <5>1 DEF Settings
        <5>3. Of("selinuxuserdefault")' = Of("selinuxuserdefault") \cup {cur}
          BY <3>4, <5>1
        <5>4. defaults' # 0 /\ (defaults' <= 1 => defaults = 0)
          BY <3>5, <5>1
        <5>5. defaults' <= 1 => \A m, n \in Of("selinuxuserdefault")' : m = n
          BY <3>5, <5>3, <5>4 DEF Counted
        <5>6. \A k \in Settings : Of(k)' = Of(k)
          BY <5>2
        <5>7. ASSUME NEW k \in Settings
              PROVE  /\ \A m, n \in Of(k)' : m = n
                     /\ \A n \in Of(k)' : setting'[k] = policy.nodes[n].d
                     /\ Of(k)' = {} => setting'[k] = -1
          BY <3>5, <5>1, <5>6 DEF Counted
        <5>8. avrules' # 0 => Of("avrule")' \cup Of("neverallow")' # {}
          BY <3>5, <5>1, <5>2 DEF Counted
        <5> QED
          BY <1>1, <2>3, <5>4, <5>5, <5>7, <5>8 DEF Counted
      <4>3. CASE ReadSetting
        <5>1. /\ Here.kind \in Settings /\ setting[Here.kind] = -1
              /\ setting' = [setting EXCEPT ![Here.kind] = Here.d]
              /\ UNCHANGED <<avrules, defaults>>
          BY <2>3, <4>3 DEF ReadSetting, At, Stop, Settings
        <5>2. \A k \in {"avrule", "neverallow", "selinuxuserdefault"} : Of(k)' = Of(k)
          BY <3>4, <5>1 DEF Settings
        <5>3. Of(Here.kind) = {}
          <6>1. \A n \in Of(Here.kind) : policy.nodes[n].d = -1 /\ policy.nodes[n].kind \in Settings /\ n \in Node
            BY <3>5, <5>1 DEF Counted, Of, First
          <6>2. \A n \in Node : policy.nodes[n].kind \in Settings => policy.nodes[n].d \in Nat
            BY <1>1 DEF IsPolicy, Node, Settings
          <6> QED
            BY <6>1, <6>2
        <5>4. ASSUME NEW k \in Settings
              PROVE  /\ \A m, n \in Of(k)' : m = n
                     /\ \A n \in Of(k)' : setting'[k] = policy.nodes[n].d
                     /\ Of(k)' = {} => setting'[k] = -1
          <6>1. CASE k = Here.kind
            <7>1. Of(k)' = {cur}
              BY <3>4, <5>3, <6>1
            <7>2. setting'[k] = Here.d
              BY <5>1, <6>1 DEF VerifyTypes
            <7> QED
              BY <7>1, <7>2 DEF Here
          <6>2. CASE k # Here.kind
            <7>1. Of(k)' = Of(k) /\ setting'[k] = setting[k]
              BY <3>4, <5>1, <6>2 DEF VerifyTypes
            <7> QED
              BY <3>5, <7>1 DEF Counted
          <6> QED
            BY <6>1, <6>2
        <5>5. /\ avrules' # 0 => Of("avrule")' \cup Of("neverallow")' # {}
              /\ defaults' = 0 => Of("selinuxuserdefault")' = {}
              /\ defaults' <= 1 => \A m, n \in Of("selinuxuserdefault")' : m = n
          BY <3>5, <5>1, <5>2 DEF Counted
        <5> QED
          BY <1>1, <2>3, <5>4, <5>5 DEF Counted
      <4> QED
        BY <1>7, <4>1, <4>2, <4>3
    <3>7. \A n \in First' : Checked(n)
      BY <2>1, <3>2, <3>3 DEF Verified
    <3> QED
      BY <1>1, <3>3, <3>6, <3>7, SameChecks DEF Verified
  <2> QED
    BY <2>2, <2>3
<1>8. CASE VisitBooleanif
  <2>1. CASE status' = "walk"
    <3>1. Checked(cur) /\ Going /\ UNCHANGED found /\ Here.kind \notin CountedKind
      BY <1>8, <2>1 DEF VisitBooleanif, At, Stop, Checked, Here, Going, Bounded, CountedKind, Settings
    <3> QED
      BY <1>1, <1>8, <2>1, <3>1, BooleanifMoves, FirstGrows
  <2>2. CASE status' # "walk"
    <3>1. ~ Going'
      BY <1>8, <2>2 DEF VisitBooleanif, At, Stop, Going
    <3> QED
      BY <3>1 DEF Verified
  <2> QED
    BY <2>1, <2>2
<1>9. CASE VisitLevelrange \/ VisitClassOrPolicycap
  <2>1. /\ status = "walk" /\ pass = 0 /\ cur \in Node /\ UNCHANGED <<pass, found>> /\ Going
        /\ Here.kind \in {"levelrange", "class", "policycap"}
    BY <1>9 DEF VisitLevelrange, VisitClassOrPolicycap, At, Going
  <2>2. CASE status' = "walk"
    <3>1. /\ cur' = cur + 1
          /\ Here.kind = "levelrange" => VerifyLevelrange(policy.range[Here.d]) = "ok"
      BY <1>9, <2>2, LevelrangeOk
      DEF VisitLevelrange, VisitClassOrPolicycap, At, Outcome, GoOn, Stop, Result
    <3>2. Checked(cur) /\ Here.kind \notin SkippedKind \cup CountedKind
      BY <2>1, <3>1 DEF Checked, Here, Bounded, SkippedKind, CountedKind, Settings
    <3> QED
      BY <1>1, <2>1, <2>2, <3>1, <3>2, FirstMoves, FirstGrows
  <2>3. CASE status' # "walk"
    <3>1. ~ Going'
      BY <1>9, <2>3, LevelrangeOk DEF VisitLevelrange, VisitClassOrPolicycap, Outcome, Stop, GoOn, Going, Result
    <3> QED
      BY <3>1 DEF Verified
  <2> QED
    BY <2>2, <2>3
<1>10. CASE VisitLabelling \/ VisitContext
  <2>1. /\ status = "walk" /\ pass = 1 /\ cur \in Node /\ UNCHANGED <<pass, found>> /\ Going
        /\ Here.kind \in Labelling \cup {"context"}
    BY <1>10 DEF VisitLabelling, VisitContext, At, Going
  <2>2. VisitLabelling => Here.kind \in Labelling
    BY DEF VisitLabelling, At
  <2>3. CASE status' = "walk"
    <3>1. cur' = cur + 1 /\ CheckedLater(cur)
      <4>1. CASE VisitLabelling
        <5>1. Here.kind # "context"
          BY <2>2, <4>1 DEF Labelling
        <5> DEFINE ff == FirstFailure([i \in DOMAIN Here.d |->
                           IF policy.context[Here.d[i]].named THEN "ok"
                           ELSE VerifyContext(policy.context[Here.d[i]])])
        <5>2. /\ ff \in Result
              /\ ff = "ok" => \A i \in DOMAIN Here.d :
                                policy.context[Here.d[i]].named
                                \/ VerifyContext(policy.context[Here.d[i]]) = "ok"
          BY <2>1, <2>2, <4>1, LabelsOk
        <5>3. Outcome(ff)
          BY <4>1 DEF VisitLabelling
        <5> HIDE DEF ff
        <5>4. cur' = cur + 1 /\ ff = "ok"
          BY <2>3, <5>2, <5>3 DEF Outcome, GoOn, Stop, Result
        <5> QED
          BY <5>1, <5>2, <5>4 DEF CheckedLater, Here
      <4>2. CASE VisitContext
        <5>1. Here.kind \notin Labelling
          BY <4>2 DEF VisitContext, At, Labelling
        <5>2. VerifyContext(policy.context[Here.d]) \in Result
          BY ContextOk
        <5>3. cur' = cur + 1 /\ VerifyContext(policy.context[Here.d]) = "ok"
          BY <2>3, <4>2, <5>2 DEF VisitContext, Outcome, GoOn, Stop, Result
        <5> QED
          BY <5>1, <5>3 DEF CheckedLater, Here
      <4> QED
        BY <1>10, <4>1, <4>2
    <3>2. Here.kind \notin SkippedKind
      BY <2>1 DEF SkippedKind, Labelling
    <3> QED
      BY <1>1, <2>1, <2>3, <3>1, <3>2, SecondMoves, SecondGrows
  <2>4. CASE status' # "walk"
    <3>1. ~ Going'
      BY <1>10, <2>1, <2>2, <2>4, LabelsOk, ContextOk
      DEF VisitLabelling, VisitContext, Outcome, Stop, GoOn, Going, Result
    <3> QED
      BY <3>1 DEF Verified
  <2> QED
    BY <2>3, <2>4
<1>11. CASE Finish
  <2>1. /\ status = "walk" /\ pass = 1 /\ pass' = pass /\ cur' = cur /\ Going
        /\ UNCHANGED <<avrules, defaults, setting>>
        /\ status' = "ok" => avrules # 0 /\ defaults <= 1
    <3>1. status' = IF avrules = 0 \/ defaults > 1 THEN "err" ELSE "ok"
      BY <1>11 DEF Finish, Stop
    <3>2. avrules \in Nat /\ defaults \in Nat
      BY DEF VerifyTypes
    <3> QED
      BY <1>11, <3>1, <3>2 DEF Finish, Stop, Going
  <2>2. First' = First /\ Second' = Second
    BY <1>1, <2>1 DEF First, Second
  <2>3. \A k : Of(k)' = Of(k)
    BY <1>1, <2>2 DEF Of
  <2>4. Counted'
    BY <1>1, <2>1, <2>3 DEF Verified, Counted
  <2> QED
    BY <1>1, <2>1, <2>2, <2>4, SameChecks DEF Verified
<1>12. CASE Terminal \/ UNCHANGED vars
  <2>1. UNCHANGED <<status, pass, cur, found>>
    BY <1>12 DEF Terminal, vars
  <2>2. First' = First /\ Second' = Second /\ Going' = Going
    BY <1>1, <2>1 DEF First, Second, Going
  <2>3. \A k : Of(k)' = Of(k)
    BY <1>1, <2>2 DEF Of
  <2>4. Counted' <=> Counted
    BY <1>1, <2>1, <2>3 DEF Counted, found
  <2> QED
    BY <1>1, <2>2, <2>4, SameChecks DEF Verified
<1> QED
  BY <1>2, <1>3, <1>4, <1>5, <1>6, <1>7, <1>8, <1>9, <1>10, <1>11, <1>12 DEF Next, Step

(* Nothing was passed at first                                              *)
LEMMA VerifyInitInv ==
  ASSUME Init
  PROVE  VerifyInv
<1>1. IsPolicy(policy) /\ Node = 1..Len(policy.nodes) /\ Len(policy.nodes) \in Nat
  BY InitPolicy DEF Init, IsPolicy, Node
<1>2. VerifyTypes
  BY DEF Init, VerifyTypes, Settings
<1>3. \A n \in Node : ~ (n < cur)
  BY <1>1 DEF Init
<1>4. First = {} /\ Second = {}
  BY <1>3 DEF First, Second, Init
<1>5. Outside /\ Search
  BY <1>3 DEF Outside, Search, Init
<1>6. Verified
  BY <1>4 DEF Verified, Counted, Of, Init, Settings
<1> QED
  BY <1>2, <1>5, <1>6 DEF VerifyInv

(* The invariant of the two walks. *)
LEMMA VerifyInvariant == Spec => []VerifyInv
<1>1. Init => VerifyInv
  BY VerifyInitInv
<1>2. VerifyInv /\ [Next]_vars => VerifyInv'
  <2> SUFFICES ASSUME VerifyInv, [Next]_vars PROVE VerifyInv'
    OBVIOUS
  <2>1. VerifyTypes' /\ Search' /\ Outside'
    BY TypesStep, SearchStep, OutsideStep DEF VerifyInv
  <2>2. Verified'
    BY <2>1, VerifiedStep
  <2> QED
    BY <2>1, <2>2 DEF VerifyInv
<1> QED
  BY <1>1, <1>2, PTL DEF Spec
-----------------------------------------------------------------------------
(* What the invariant says of an accepted policy *)

(* Everything outside the skipped blocks is checked, and a booleanif holds  *)
(* nothing but what may be in it.                                           *)
LEMMA Accepted ==
  ASSUME VerifyInv, status = "ok"
  PROVE  /\ First = {n \in Node : Live(n)} \ InBooleanif
         /\ \A n \in Node : Live(n) => CheckedLater(n)
         /\ \A n \in First : Checked(n)
         /\ \A n \in InBooleanif : policy.nodes[n].kind \in AllowedInBooleanif
         /\ Counted
<1>1. /\ IsPolicy(policy) /\ Going /\ pass = 1 /\ cur \in Nat \ {0} /\ cur \notin Node
      /\ Len(policy.nodes) \in Nat
  BY InitPolicy DEF VerifyInv, VerifyTypes, IsPolicy, Going
<1>2. \A n \in Node : n < cur
  BY <1>1 DEF Node
<1>3. /\ First = {n \in Node : Live(n)} \ InBooleanif
      /\ Second = {n \in Node : Live(n)}
  BY <1>1, <1>2 DEF First, Second
<1>4. ASSUME NEW n \in InBooleanif PROVE policy.nodes[n].kind \in AllowedInBooleanif
  <2> DEFINE B == {m \in LiveNodes({"booleanif"}) : n \in (m + 1)..policy.nodes[m].last}
  <2>1. B # {} /\ B \in SUBSET Nat
    BY <1>1 DEF InBooleanif, LiveNodes, Node
  <2>2. Min(B) \in B /\ \A m \in B : Min(B) <= m
    <3> HIDE DEF B
    <3> QED
      BY <2>1, MinIn
  <2>3. PICK m \in B : \A k \in B : m <= k
    BY <2>2
  <2>4. m \in Node /\ Live(m) /\ policy.nodes[m].kind = "booleanif" /\ n \in (m + 1)..policy.nodes[m].last
    BY DEF LiveNodes
  <2>5. m \notin InBooleanif
    <3> SUFFICES ASSUME NEW k \in LiveNodes({"booleanif"}), m \in (k + 1)..policy.nodes[k].last
                 PROVE  FALSE
      BY DEF InBooleanif
    <3>1. /\ k \in Node /\ k \in Nat /\ m \in Nat /\ policy.nodes[k].last \in Nat
          /\ policy.nodes[m].last \in Nat /\ policy.nodes[m].last <= policy.nodes[k].last
      BY <1>1, <2>4 DEF LiveNodes, Node, IsPolicy
    <3>2. n \in (k + 1)..policy.nodes[k].last /\ k < m
      BY <2>4, <3>1
    <3>3. k \in B
      BY <3>2
    <3> QED
      BY <2>3, <3>1, <3>2, <3>3
  <2>6. Checked(m)
    BY <1>1, <1>3, <2>4, <2>5 DEF VerifyInv, Verified
  <2> QED
    BY <2>4, <2>6 DEF Checked
<1> QED
  BY <1>1, <1>3, <1>4 DEF VerifyInv, Verified

(* A range that was verified is in order and its sensitivities are known    *)
LEMMA RangeFits ==
  ASSUME IsPolicy(policy), NEW r, VerifyLevelrange(r) = "ok"
  PROVE  /\ RangeOk(r)
         /\ \A s \in {r.lowSens, r.highSens} :
              Position(s) \in DOMAIN policy.order /\ policy.order[Position(s)] = s
<1>1. /\ VerifySensitivity(r)
      /\ VerifyCats(r.lowCats, r.highCats) = "ok"
      /\ VerifyAssociated(r.lowSens, r.lowCats) = "ok"
      /\ VerifyAssociated(r.highSens, r.highCats) = "ok"
  BY LevelrangeOk
<1>2. PICK i, j \in DOMAIN policy.order :
        i <= j /\ policy.order[i] = r.lowSens /\ policy.order[j] = r.highSens
  BY <1>1 DEF VerifySensitivity
<1>3. \A k \in DOMAIN policy.order : Position(policy.order[k]) = k
  BY DEF IsPolicy, Position
<1>4. Position(r.lowSens) = i /\ Position(r.highSens) = j
  BY <1>2, <1>3
<1>5. r.lowCats # NULL => r.highCats # NULL /\ r.lowCats \subseteq r.highCats
  BY <1>1, Zenon DEF VerifyCats
<1>6. \A s, c : VerifyAssociated(s, c) = "ok" /\ c # NULL
                  => policy.senscats[s] # NULL /\ c \subseteq AllCats(policy.senscats[s])
  BY Zenon DEF VerifyAssociated
<1>7. RangeOk(r)
  <2>1. r.lowCats # NULL => policy.senscats[r.lowSens] # NULL
                            /\ r.lowCats \subseteq AllCats(policy.senscats[r.lowSens])
    BY <1>1, <1>6
  <2>2. r.highCats # NULL => policy.senscats[r.highSens] # NULL
                             /\ r.highCats \subseteq AllCats(policy.senscats[r.highSens])
    BY <1>1, <1>6
  <2> QED
    BY <1>2, <1>4, <1>5, <2>1, <2>2 DEF RangeOk
<1> QED
  BY <1>2, <1>4, <1>7

(* The walk along the sensitivities says what it should of two ranges that  *)
(* are in order themselves.                                                 *)
LEMMA Within ==
  ASSUME IsPolicy(policy), NEW ur, NEW cr, VerifyLevelrange(ur) = "ok", VerifyLevelrange(cr) = "ok",
         RangeWithinUser(ur, cr)
  PROVE  Position(ur.lowSens) <= Position(cr.lowSens) /\ Position(cr.highSens) <= Position(ur.highSens)
<1> DEFINE ord == policy.order
           lows == {i \in DOMAIN ord : ord[i] \in {ur.lowSens, cr.lowSens}}
           start == Min(lows)
           highs == {i \in DOMAIN ord : i >= start /\ ord[i] \in {ur.highSens, cr.highSens}}
           ul == Position(ur.lowSens)
           uh == Position(ur.highSens)
           cl == Position(cr.lowSens)
           ch == Position(cr.highSens)
<1>1. /\ ul \in DOMAIN ord /\ ord[ul] = ur.lowSens /\ uh \in DOMAIN ord /\ ord[uh] = ur.highSens
      /\ cl \in DOMAIN ord /\ ord[cl] = cr.lowSens /\ ch \in DOMAIN ord /\ ord[ch] = cr.highSens
      /\ ul <= uh /\ cl <= ch
  BY RangeFits DEF RangeOk
<1>2. DOMAIN ord \subseteq Nat /\ \A i, j \in DOMAIN ord : ord[i] = ord[j] => i = j
  BY DEF IsPolicy
<1>3. \/ lows = {}
      \/ ord[start] = ur.lowSens /\ (highs = {} \/ ord[Min(highs)] = cr.highSens)
  BY DEF RangeWithinUser
<1> HIDE DEF ul, uh, cl, ch, ord
<1>4. ul \in lows /\ cl \in lows /\ lows \in SUBSET Nat
  BY <1>1, <1>2
<1>5. start \in lows /\ \A i \in lows : start <= i
  <2> HIDE DEF lows
  <2> QED
    BY <1>4, MinIn
<1>6. ord[start] = ur.lowSens /\ (highs = {} \/ ord[Min(highs)] = cr.highSens)
  BY <1>3, <1>4
<1>7. start = ul
  BY <1>1, <1>2, <1>5, <1>6
<1>8. ul <= cl
  BY <1>4, <1>5, <1>7
<1>9. uh \in highs /\ ch \in highs /\ highs \in SUBSET Nat
  <2>1. ul \in Nat /\ uh \in Nat /\ cl \in Nat /\ ch \in Nat
    BY <1>1, <1>2
  <2>2. uh >= start /\ ch >= start
    BY <1>1, <1>7, <1>8, <2>1
  <2> QED
    BY <1>1, <1>2, <2>2
<1>10. Min(highs) \in highs /\ \A i \in highs : Min(highs) <= i
  <2> HIDE DEF highs
  <2> QED
    BY <1>9, MinIn
<1>11. Min(highs) = ch
  BY <1>1, <1>2, <1>6, <1>9, <1>10
<1> QED
  BY <1>8, <1>9, <1>10, <1>11 DEF ul, uh, cl, ch

(* A statement that may not be in a booleanif is verified. *)
LEMMA LiveChecked ==
  ASSUME VerifyInv, status = "ok", NEW kinds, kinds \cap AllowedInBooleanif = {},
         NEW n \in LiveNodes(kinds)
  PROVE  n \in First /\ Checked(n)
<1>1. n \in Node /\ Live(n) /\ policy.nodes[n].kind \in kinds
  BY DEF LiveNodes
<1>2. n \notin InBooleanif
  BY <1>1, Accepted
<1> QED
  BY <1>1, <1>2, Accepted

(* cil_post_verify reports circular bounds exactly if there are some: the   *)
(* search that lets u1 catch up with u2 after 2, 4, 8 ... steps finds every *)
(* circle above what it starts from and nothing else.                       *)
THEOREM BoundsTheorem == Spec => []BoundsExact
<1>1. VerifyInv => BoundsExact
  <2> SUFFICES ASSUME VerifyInv PROVE BoundsExact
    OBVIOUS
  <2>1. ASSUME status = "err", u2 # NULL, u1 = u2
        PROVE  \E x \in Above(Here.d) : x \in Above(x)
    BY <2>1 DEF VerifyInv, Search
  <2>2. ASSUME status = "ok", NEW n \in LiveNodes(Bounded)
        PROVE  \A x \in Above(policy.nodes[n].d) : x \notin Above(x)
    <3>1. Bounded \cap AllowedInBooleanif = {}
      BY DEF Bounded, AllowedInBooleanif
    <3>2. Checked(n) /\ policy.nodes[n].kind \in Bounded
      BY <2>2, <3>1, LiveChecked DEF LiveNodes
    <3> QED
      BY <3>2 DEF Checked, NoCircle
  <2> QED
    BY <2>1, <2>2 DEF BoundsExact
<1> QED
  BY <1>1, VerifyInvariant, PTL

(* What the caller has set is in the database from the start, what the      *)
(* statements set gets there when verification ends                         *)
Effective(k) ==
  IF policy.given[k] # -1 THEN policy.given[k] ELSE IF setting[k] = -1 THEN 0 ELSE setting[k]
DbInv ==
  /\ policy.given \in [Settings -> Nat \cup {-1}]
  /\ status \in {"walk", "bounds"} => db = policy.given
  /\ status = "ok" => db = [k \in Settings |-> Effective(k)]

(* Nothing but the end of verification writes to the database               *)
LEMMA DbStep ==
  ASSUME DbInv, [Next]_vars
  PROVE  DbInv'
<1>1. policy' = policy
  BY PolicyStays
<1>2. \A r : Outcome(r) => status' # "ok"
  BY DEF Outcome, GoOn, Stop
<1>3. ASSUME status \in {"walk", "bounds"}, db' = db, status' # "ok"
      PROVE  DbInv'
  BY <1>1, <1>3 DEF DbInv
<1>4. CASE Skip \/ PassBy \/ EndWalk \/ VisitBounded \/ FollowBounds \/ CountAvrule \/ CountDefault
           \/ ReadSetting \/ VisitBooleanif \/ VisitClassOrPolicycap
  BY <1>3, <1>4 DEF Skip, PassBy, EndWalk, VisitBounded, FollowBounds, CountAvrule, CountDefault,
     ReadSetting, VisitBooleanif, VisitClassOrPolicycap, At, GoOn, Stop, found
<1>5. CASE EndBounds \/ VisitLevelrange \/ VisitLabelling \/ VisitContext
  <2>1. status' # "ok"
    BY <1>2, <1>5 DEF EndBounds, AfterBounds, GoOn, VisitLevelrange, VisitLabelling, VisitContext
  <2> QED
    BY <1>3, <1>5, <2>1 DEF EndBounds, VisitLevelrange, VisitLabelling, VisitContext, At, found
<1>6. CASE Finish
  <2>1. db = policy.given /\ DOMAIN db = Settings /\ setting' = setting
    BY <1>6 DEF Finish, DbInv
  <2>2. db' = [k \in Settings |-> Effective(k)]
    BY <1>6, <2>1 DEF Finish, Effective
  <2>3. \A k : Effective(k)' = Effective(k)
    BY <1>1, <2>1 DEF Effective
  <2>4. status' \in {"err", "ok"}
    BY <1>6 DEF Finish, Stop
  <2> QED
    BY <1>1, <2>2, <2>3, <2>4 DEF DbInv
<1>7. CASE Terminal \/ UNCHANGED vars
  BY <1>7 DEF Terminal, vars, found, DbInv, Effective
<1> QED
  BY <1>4, <1>5, <1>6, <1>7 DEF Next, Step

(* The database has the caller's settings, then the policy's                *)
LEMMA DbInvariant == Spec => []DbInv
<1>1. Init => DbInv
  BY InitPolicy DEF Init, DbInv, IsPolicy, Settings
<1> QED
  BY <1>1, DbStep, PTL DEF Spec

(* What the first walk counted and looked for in the booleanifs is so in    *)
(* every accepted policy, and its settings are those of the caller, then    *)
(* those of its statements, then the defaults.                              *)
THEOREM StatementsTheorem == Spec => []StatementsValid
<1>1. VerifyInv /\ DbInv => StatementsValid
  <2> SUFFICES ASSUME VerifyInv, DbInv, status = "ok" PROVE StatementsValid
    BY DEF StatementsValid
  <2>1. \A k : Of(k) = LiveNodes({k}) \ InBooleanif
    BY Accepted DEF Of, LiveNodes
  <2>2. LiveNodes({"avrule", "neverallow"}) \ InBooleanif # {}
    <3>1. Of("avrule") \cup Of("neverallow") # {}
      BY Accepted DEF Counted
    <3> QED
      BY <2>1, <3>1 DEF LiveNodes
  <2>3. ASSUME NEW k \in {"selinuxuserdefault", "mls", "handleunknown"}
        PROVE  Cardinality(LiveNodes({k}) \ InBooleanif) <= 1
    <3>1. \A m, n \in Of(k) : m = n
      BY Accepted DEF Counted, Settings
    <3>2. CASE Of(k) = {}
      BY <2>1, <3>2, FS_EmptySet
    <3>3. CASE Of(k) # {}
      <4>1. PICK n \in Of(k) : Of(k) = {n}
        BY <3>1, <3>3
      <4>2. Cardinality({n}) = 1
        BY FS_Singleton
      <4> QED
        BY <2>1, <4>1, <4>2
    <3> QED
      BY <3>2, <3>3
  <2>4. ASSUME NEW k \in {"mls", "handleunknown"}
        PROVE  IF policy.given[k] # -1 THEN db[k] = policy.given[k]
               ELSE /\ \A n \in LiveNodes({k}) : db[k] = policy.nodes[n].d
                    /\ LiveNodes({k}) = {} => db[k] = 0
    <3>1. {k} \cap AllowedInBooleanif = {} /\ k \in Settings
      BY DEF AllowedInBooleanif, Settings
    <3>2. \A n \in LiveNodes({k}) : n \in Of(k) /\ policy.nodes[n].d # -1
      <4>1. \A n \in LiveNodes({k}) : n \in Of(k)
        BY <3>1, LiveChecked DEF Of, LiveNodes
      <4>2. IsPolicy(policy)
        BY InitPolicy DEF VerifyInv, VerifyTypes
      <4>3. \A n \in LiveNodes({k}) : policy.nodes[n].d \in Nat
        BY <3>1, <4>2 DEF IsPolicy, LiveNodes, Node, Settings
      <4> QED
        BY <4>1, <4>3
    <3>3. /\ \A n \in Of(k) : setting[k] = policy.nodes[n].d
          /\ Of(k) = {} => setting[k] = -1
      BY <3>1, Accepted DEF Counted
    <3>4. LiveNodes({k}) = {} => Of(k) = {}
      BY <2>1
    <3>5. db[k] = Effective(k)
      BY <3>1 DEF DbInv
    <3> QED
      BY <3>2, <3>3, <3>4, <3>5 DEF Effective
  <2>5. \A n \in InBooleanif : policy.nodes[n].kind \in AllowedInBooleanif
    BY Accepted
  <2> QED
    BY <2>2, <2>3, <2>4, <2>5 DEF StatementsValid
<1> QED
  BY <1>1, VerifyInvariant, DbInvariant, PTL

(* Every context that a labelling statement of an accepted policy uses is   *)
(* one __cil_verify_context would pass, wherever its parts are declared.    *)
THEOREM ContextsTheorem == Spec => []ContextsValid
<1>1. VerifyInv => ContextsValid
  <2> SUFFICES ASSUME VerifyInv, status = "ok",
                      NEW n \in LiveNodes(Labelling), NEW i \in DOMAIN policy.nodes[n].d,
                      Reached(policy.nodes[n].d[i])
               PROVE  LET c == policy.context[policy.nodes[n].d[i]]
                          user == policy.user[c.user]
                          ur == policy.range[user.range]
                          cr == policy.range[c.range]
                      IN  /\ c.role \in user.roles /\ c.type \in policy.types[c.role]
                          /\ RangeOk(ur) /\ RangeOk(cr)
                          /\ Position(ur.lowSens) <= Position(cr.lowSens)
                          /\ Position(cr.highSens) <= Position(ur.highSens)
    BY Zenon DEF ContextsValid
  <2> DEFINE d == policy.nodes[n].d[i]
             c == policy.context[d]
             user == policy.user[c.user]
             ur == policy.range[user.range]
             cr == policy.range[c.range]
  <2>1. IsPolicy(policy)
    BY InitPolicy DEF VerifyInv, VerifyTypes
  <2>2. ASSUME NEW kind \in {"user", "context", "levelrange"}, NEW x, DeclaredLive(kind, x)
        PROVE  \E m \in Node : /\ policy.nodes[m].kind = kind /\ policy.nodes[m].d = x
                               /\ Checked(m) /\ CheckedLater(m)
    <3>1. PICK m \in LiveNodes({kind}) : policy.nodes[m].d = x
      BY <2>2 DEF DeclaredLive
    <3>2. {kind} \cap AllowedInBooleanif = {}
      BY DEF AllowedInBooleanif
    <3>3. Checked(m) /\ m \in Node /\ Live(m) /\ policy.nodes[m].kind = kind
      BY <3>2, LiveChecked DEF LiveNodes
    <3>4. CheckedLater(m)
      BY <3>3, Accepted
    <3> QED
      BY <3>1, <3>3, <3>4
  <2>3. /\ DeclaredLive("user", c.user)
        /\ c.named => DeclaredLive("context", d)
        /\ \A r \in {c.range, user.range} : policy.range[r].named => DeclaredLive("levelrange", r)
    BY Zenon DEF Reached
  <2>4. VerifyContext(c) = "ok"
    <3>1. CheckedLater(n) /\ policy.nodes[n].kind \in Labelling
      BY Accepted DEF LiveNodes
    <3>2. c.named \/ VerifyContext(c) = "ok"
      BY <3>1 DEF CheckedLater
    <3>3. ASSUME c.named PROVE VerifyContext(c) = "ok"
      <4>1. PICK m \in Node : policy.nodes[m].kind = "context" /\ policy.nodes[m].d = d /\ CheckedLater(m)
        <5>1. "context" \in {"user", "context", "levelrange"} /\ DeclaredLive("context", d)
          BY <2>3, <3>3
        <5> HIDE DEF d, c, user, ur, cr
        <5> QED
          BY <2>2, <5>1
      <4> QED
        BY <4>1 DEF CheckedLater
    <3> QED
      BY <3>2, <3>3
  <2>5. /\ user.roles # NULL /\ c.role \in user.roles
        /\ policy.types[c.role] # NULL /\ c.type \in policy.types[c.role]
        /\ cr.named \/ VerifyLevelrange(cr) = "ok"
        /\ RangeWithinUser(ur, cr)
    BY <2>4, ContextOk
  <2>6. \A r \in {c.range, user.range} : policy.range[r].named => VerifyLevelrange(policy.range[r]) = "ok"
    <3> SUFFICES ASSUME NEW r \in {c.range, user.range}, policy.range[r].named
                 PROVE  VerifyLevelrange(policy.range[r]) = "ok"
      OBVIOUS
    <3>1. DeclaredLive("levelrange", r)
      BY <2>3, Zenon
    <3>2. DeclaredLive("levelrange", r) =>
            \E m \in Node : /\ policy.nodes[m].kind = "levelrange" /\ policy.nodes[m].d = r
                           /\ Checked(m) /\ CheckedLater(m)
      <4>1. "levelrange" \in {"user", "context", "levelrange"}
        OBVIOUS
      <4> HIDE DEF d, c, user, ur, cr
      <4> QED
        BY <2>2, <4>1
    <3>3. PICK m \in Node : policy.nodes[m].kind = "levelrange" /\ policy.nodes[m].d = r /\ Checked(m)
      BY <3>1, <3>2, Zenon
    <3> QED
      BY <3>3 DEF Checked
  <2>7. VerifyLevelrange(ur) = "ok"
    <3>1. UserOk(c.user)
      BY <2>2, <2>3 DEF Checked
    <3> QED
      BY <2>6, <3>1 DEF UserOk
  <2>8. VerifyLevelrange(cr) = "ok"
    BY <2>5, <2>6
  <2> HIDE DEF d, c, user, ur, cr
  <2>9. /\ c.role \in user.roles /\ c.type \in policy.types[c.role]
        /\ RangeOk(ur) /\ RangeOk(cr)
        /\ Position(ur.lowSens) <= Position(cr.lowSens)
        /\ Position(cr.highSens) <= Position(ur.highSens)
    BY <2>1, <2>5, <2>7, <2>8, RangeFits, Within
  <2> QED
    BY <2>9, Zenon DEF d, c, user, ur, cr
<1> QED
  BY <1>1, VerifyInvariant, PTL
=============================================================================
