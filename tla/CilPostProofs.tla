--------------------------- MODULE CilPostProofs ---------------------------
(***************************************************************************)
(* Theorems about post processing, for every policy: the walk that counts  *)
(* types, roles and labelling statements and the one that fills the arrays *)
(* agree.                                                                  *)
(***************************************************************************)
EXTENDS CilPost, FiniteSetTheorems, TLAPS

Skipping == {"macro", "abstractblock"}
Status == {"walk", "ok", "err", "undefined", "diverges"}

PostTypes ==
  /\ policy \in Policies
  /\ status \in Status
  /\ pass \in LOOP..SORT /\ cur \in Nat \ {0}
  /\ status = "ok" => pass = SORT
  /\ num \in [Numbered -> Nat] /\ count \in [Con -> Nat]
  /\ DOMAIN value = DOMAIN policy.flavor /\ DOMAIN valTo = Numbered
  /\ DOMAIN array = Con /\ \A k \in Con : array[k] \in Seq({policy.nodes[n].d : n \in Node})

(* The walk is inside nothing that it skips *)
Outside ==
  pass < SORT /\ status = "walk" =>
    \A s \in Node : s < cur /\ policy.nodes[s].kind \in Skipping => policy.nodes[s].last < cur

(* The nodes that pass p has dealt with *)
Passed(p, kinds) == {n \in LiveNodes(kinds) : pass > p \/ (pass = p /\ n < cur)}
DataOf(nodes) == {policy.nodes[n].d : n \in nodes}

(* The types or roles that have a number *)
First(n) == policy.head[policy.nodes[n].d] = n
Counted(f) == DataOf({n \in Passed(COUNT, {f}) : First(n)})

(* They have the numbers up to num, each one of its own *)
Numbers ==
  \A f \in Numbered : /\ {value[d] : d \in Counted(f)} = 0..(num[f] - 1)
                      /\ \A d, e \in Counted(f) : value[d] = value[e] => d = e

(* And val_to_type and val_to_role lead back from the numbers *)
Indexed(f) == DataOf(Passed(ARRAY, {f}))
Back ==
  status # "undefined" =>
    \A f \in Numbered :
      /\ valTo[f] = <<>> \/ (pass >= ARRAY /\ DOMAIN valTo[f] = 0..(num[f] - 1))
      /\ \A d \in Indexed(f) : value[d] \in DOMAIN valTo[f] /\ valTo[f][value[d]] = d

(* As many labelling statements are in the arrays as were counted *)
Room ==
  \A k \in Con :
    /\ count[k] = Cardinality(Passed(COUNT, {k}))
    /\ status # "undefined" => /\ Len(array[k]) = Cardinality(Passed(ARRAY, {k}))
                               /\ ToSet(array[k]) = DataOf(Passed(ARRAY, {k}))

PostInv == PostTypes /\ Outside /\ Numbers /\ Back /\ Room
-----------------------------------------------------------------------------
(* The walks *)

PassesDiffer == /\ LOOP # COUNT /\ LOOP # ARRAY /\ LOOP # ATTR /\ LOOP # ROLETYPE /\ LOOP # PERMS
                /\ COUNT # ARRAY /\ COUNT # ATTR /\ COUNT # ROLETYPE /\ COUNT # PERMS
                /\ ARRAY # ATTR /\ ARRAY # ROLETYPE /\ ARRAY # PERMS /\ ATTR # ROLETYPE
                /\ ATTR # PERMS /\ ROLETYPE # PERMS
                /\ CATS \notin {LOOP, COUNT, ARRAY, ATTR, ROLETYPE, PERMS}

(* What each walk does something for; no walk does for what all skip.      *)
LEMMA HandledIs ==
  /\ Handled[COUNT] = Numbered \cup Con
  /\ Handled[ARRAY] = Numbered \cup Con \cup {"selinuxuser", "selinuxuserdefault"}
  /\ \A p \in LOOP..CATS : Handled[p] \cap Skipping = {}
<1>1. PassesDiffer
  BY DEF PassesDiffer, LOOP, COUNT, ARRAY, ATTR, ROLETYPE, PERMS, CATS
<1>2. /\ LOOP..CATS = {LOOP, COUNT, ARRAY, ATTR, ROLETYPE, PERMS, CATS}
      /\ LOOP \in LOOP..CATS /\ COUNT \in LOOP..CATS /\ ARRAY \in LOOP..CATS /\ ATTR \in LOOP..CATS
      /\ ROLETYPE \in LOOP..CATS /\ PERMS \in LOOP..CATS /\ CATS \in LOOP..CATS
  BY DEF LOOP, COUNT, ARRAY, ATTR, ROLETYPE, PERMS, CATS
<1>3. Handled[LOOP] = {"mapclass", "classpermission"}
  BY <1>1, <1>2, Zenon DEF Handled, PassesDiffer
<1>4. Handled[COUNT] = Numbered \cup Con
  BY <1>1, <1>2, Zenon DEF Handled, PassesDiffer
<1>5. Handled[ARRAY] = Numbered \cup Con \cup {"selinuxuser", "selinuxuserdefault"}
  BY <1>1, <1>2, Zenon DEF Handled, PassesDiffer
<1>6. Handled[ATTR] = {"typeattribute", "roleattribute"}
  BY <1>1, <1>2, Zenon DEF Handled, PassesDiffer
<1>7. Handled[ROLETYPE] = {"roletype"}
  BY <1>1, <1>2, Zenon DEF Handled, PassesDiffer
<1>8. Handled[PERMS] = {"mapclass", "classpermission", "avrule", "constrain"}
  BY <1>1, <1>2, Zenon DEF Handled, PassesDiffer
<1>9. Handled[CATS] = CatsKind
  BY <1>1, <1>2, Zenon DEF Handled, PassesDiffer
<1> QED
  BY <1>2, <1>3, <1>4, <1>5, <1>6, <1>7, <1>8, <1>9
     DEF Numbered, Con, RangeCon, CatsKind, Skipping

Numbering == <<value, num, valTo, count, array>>

(* What a step can do to the place of the walk and the numbers *)
Stay ==
  /\ UNCHANGED <<policy, pass, cur, Numbering>>
  /\ status' = status \/ (status = "walk" /\ status' \in {"err", "undefined", "diverges"})
Pass ==
  /\ status = "walk" /\ pass < SORT /\ cur \in Node /\ Here.kind \notin Skipping
  /\ pass \in {COUNT, ARRAY} => Here.kind \notin Numbered \cup Con
  /\ cur' = cur + 1 /\ UNCHANGED <<policy, status, pass, Numbering>>
Counting == CountDatum \/ CountCon
Indexing == IndexDatum \/ IndexCon

(* Following a list of class permissions leaves the walk where it is.      *)
LEMMA FollowStays == FollowList => Stay
<1> SUFFICES ASSUME FollowList PROVE Stay
  OBVIOUS
<1>1. UNCHANGED <<policy, numbering>>
  BY DEF FollowList
<1>2. \/ UNCHANGED <<status, pass, cur>>
      \/ Stop("diverges")
  BY Zenon DEF FollowList, Push
<1>3. status = "walk"
  BY DEF FollowList, AtItem, Evaluating
<1> QED
  BY <1>1, <1>2, <1>3 DEF Stop, Stay, numbering, Numbering

(* Every step is one of these, as far as numbers and arrays are concerned   *)
LEMMA StepIs ==
  ASSUME PostTypes, [Next]_vars
  PROVE  Stay \/ Pass \/ Skip \/ EndWalk \/ Counting \/ Indexing \/ Sort \/ Finish
<1>1. CASE PassBy
  <2>1. pass \in LOOP..CATS
    BY <1>1 DEF PassBy, PostTypes, LOOP, CATS, SORT
  <2> QED
    BY <1>1, <2>1, HandledIs DEF PassBy, Idle, GoOn, Pass, Skipping, numbering, Numbering
<1>2. CASE IndexSeuser
  BY <1>2 DEF IndexSeuser, At, Idle, GoOn, Pass, Skipping, Numbering, Numbered, Con, RangeCon, COUNT, ARRAY, SORT
<1>3. CASE VisitAttribute \/ VisitClassperms \/ VisitCats
  <2>1. pass \in {LOOP, ATTR, PERMS, CATS} /\ cur' = cur + 1 /\ status = "walk"
        /\ UNCHANGED <<policy, status, pass, Numbering>> /\ cur \in Node /\ pass < SORT
    BY <1>3 DEF VisitAttribute, VisitClassperms, VisitCats, At, Idle, Evaluate, numbering, Numbering,
         LOOP, ATTR, PERMS, CATS, SORT
  <2>2. pass \in LOOP..CATS /\ pass \notin {COUNT, ARRAY}
    BY <2>1 DEF LOOP, ATTR, PERMS, CATS, COUNT, ARRAY
  <2>3. Here.kind \in Handled[pass] \/ Here.kind \in CatsKind
    BY <1>3 DEF VisitAttribute, VisitClassperms, VisitCats, At
  <2>4. Here.kind \notin Skipping
    BY <2>2, <2>3, HandledIs DEF CatsKind, Skipping, Con, RangeCon
  <2> QED
    BY <2>1, <2>2, <2>4 DEF Pass
<1>4. CASE AssignRoleTypes
  <2>1. status = "walk" /\ pass = ROLETYPE /\ cur \in Node /\ Here.kind = "roletype"
        /\ UNCHANGED <<policy, numbering>> /\ (Stop("undefined") \/ GoOn)
    BY <1>4, Zenon DEF AssignRoleTypes, At, Idle
  <2> QED
    BY <2>1 DEF Stop, GoOn, Stay, Pass, Skipping, numbering, Numbering, ROLETYPE, COUNT, ARRAY, SORT
<1>5. CASE Start \/ FollowNull \/ FailLoop \/ Terminal \/ UNCHANGED vars
  BY <1>5 DEF Start, FollowNull, FailLoop, Terminal, vars, walk, Stop, Stay, numbering, Numbering
<1>6. CASE AllocateAttribute \/ DescendIntoAttribute \/ AddAttributeExpr \/ FinishAttribute
  BY <1>6 DEF AllocateAttribute, DescendIntoAttribute, AddAttributeExpr, FinishAttribute, Evaluating,
       Push, Pop, Stop, Advance, walk, Stay, numbering, Numbering
<1>7. CASE UnfilledList \/ LeaveList \/ CheckClass \/ EvaluateClassperms
  BY <1>7 DEF UnfilledList, LeaveList, CheckClass, EvaluateClassperms, AtItem, Evaluating,
       Return, Stop, Advance, Stay, numbering, Numbering
<1>8. CASE SkipCats \/ DescendIntoCatset
  BY <1>8 DEF SkipCats, DescendIntoCatset, Evaluating, Push, Pop, Stop, Stay, numbering, Numbering
<1>9. CASE EvaluateCats
  <2>1. status = "walk" /\ UNCHANGED <<policy, numbering>>
    BY <1>9 DEF EvaluateCats, Evaluating
  <2>2. Stop("err") \/ Stop("undefined") \/ Pop
    BY <1>9, Zenon DEF EvaluateCats
  <2> QED
    BY <2>1, <2>2 DEF Stop, Pop, Stay, numbering, Numbering
<1> QED
  BY <1>1, <1>2, <1>3, <1>4, <1>5, <1>6, <1>7, <1>8, <1>9, FollowStays
     DEF Next, Step, Counting, Indexing

(* The policy is well formed                                                *)
LEMMA PolicyHere == policy \in Policies => IsPolicy(policy)
BY PoliciesAssumption

(* What only depends on the policy does not change                          *)
LEMMA SameNodes ==
  ASSUME policy' = policy
  PROVE  /\ Node' = Node
         /\ \A kinds : LiveNodes(kinds)' = LiveNodes(kinds)
         /\ \A nodes : DataOf(nodes)' = DataOf(nodes)
         /\ \A n : First(n)' <=> First(n)
BY Zenon DEF Node, LiveNodes, Live, DataOf, First

(* Extents nest.                                                           *)
LEMMA Extents ==
  ASSUME PostTypes
  PROVE  /\ Node \subseteq Nat \ {0} /\ Node = 1..Len(policy.nodes) /\ Len(policy.nodes) \in Nat
         /\ \A n \in Node : /\ policy.nodes[n].last \in n..Len(policy.nodes)
                            /\ \A m \in n..policy.nodes[n].last :
                                 policy.nodes[m].last <= policy.nodes[n].last
BY PolicyHere DEF PostTypes, IsPolicy, Node

(* The walk never stands inside a macro or an abstract block                *)
LEMMA OutsideStep ==
  ASSUME PostTypes, Outside, [Next]_vars
  PROVE  Outside'
<1> SUFFICES ASSUME (pass < SORT)', (status = "walk")', policy' = policy
             PROVE  \A s \in Node : s < cur' /\ policy.nodes[s].kind \in Skipping => policy.nodes[s].last < cur'
  <2>1. policy' = policy
    BY StepIs DEF Stay, Pass, Skip, EndWalk, Counting, Indexing, CountDatum, CountCon, IndexDatum,
         IndexCon, Sort, Finish
  <2> QED
    BY <2>1, SameNodes DEF Outside
<1>1. CASE Stay
  BY <1>1 DEF Stay, Outside
<1>2. CASE pass < SORT /\ status = "walk" /\ cur \in Node /\ Here.kind \notin Skipping /\ cur' = cur + 1
  BY <1>2, Extents DEF Outside, Here
<1>3. CASE Skip
  <2>1. /\ pass < SORT /\ status = "walk" /\ cur \in Node /\ cur' = policy.nodes[cur].last + 1
    BY <1>3 DEF Skip, Idle, Here
  <2> SUFFICES ASSUME NEW s \in Node, s < cur', policy.nodes[s].kind \in Skipping
               PROVE  policy.nodes[s].last < cur'
    OBVIOUS
  <2>2. policy.nodes[cur].last \in Nat /\ policy.nodes[s].last \in Nat /\ cur <= policy.nodes[cur].last
    BY <2>1, Extents
  <2>3. CASE s < cur
    <3>1. policy.nodes[s].last < cur
      BY <2>1, <2>3 DEF Outside
    <3> QED
      BY <2>1, <2>2, <3>1, Extents
  <2>4. CASE ~ (s < cur)
    <3>1. s \in cur..policy.nodes[cur].last
      BY <2>1, <2>2, <2>4, Extents
    <3>2. policy.nodes[s].last <= policy.nodes[cur].last
      BY <2>1, <3>1, Extents
    <3> QED
      BY <2>1, <2>2, <3>2
  <2> QED
    BY <2>3, <2>4
<1>4. CASE EndWalk
  BY <1>4, Extents DEF EndWalk
<1>5. CASE Counting \/ Indexing
  <2>1. pass \in {COUNT, ARRAY} /\ status = "walk" /\ cur \in Node /\ Here.kind \in Numbered \cup Con
    BY <1>5 DEF Counting, Indexing, CountDatum, CountCon, IndexDatum, IndexCon, At, Idle
  <2>2. cur' = cur + 1
    BY <1>5 DEF Counting, Indexing, CountDatum, CountCon, IndexDatum, IndexCon, GoOn, Stop
  <2>3. Here.kind \notin Skipping
    BY <2>1 DEF Skipping, Numbered, Con, RangeCon
  <2>4. pass < SORT
    BY <2>1 DEF COUNT, ARRAY, SORT
  <2> QED
    BY <1>2, <2>1, <2>2, <2>3, <2>4
<1>6. CASE Sort \/ Finish
  <2>1. pass' = SORT
    BY <1>6, Zenon DEF Sort, Finish, GoOn, Stop
  <2> QED
    BY <2>1 DEF SORT
<1> QED
  BY <1>1, <1>2, <1>3, <1>4, <1>5, <1>6, StepIs DEF Pass
-----------------------------------------------------------------------------
(* What the walks have dealt with *)

(* A node that no walk skips is live when the walk comes to it.            *)
LEMMA HereLive ==
  ASSUME PostTypes, Outside, status = "walk", pass < SORT, cur \in Node, Here.kind \notin Skipping
  PROVE  Live(cur)
<1> SUFFICES ASSUME NEW s \in 1..Len(policy.nodes), policy.nodes[s].kind \in Skipping,
                    cur \in s..policy.nodes[s].last
             PROVE  FALSE
  BY DEF Live, InTemplate, Skipping
<1>1. s \in Node /\ policy.nodes[s].last \in Nat /\ s <= cur /\ cur <= policy.nodes[s].last
  BY Extents
<1>2. s # cur
  BY DEF Here
<1> QED
  BY <1>1, <1>2, Extents DEF Outside

(* What was passed is finite                                                *)
LEMMA PassedFinite ==
  ASSUME PostTypes, NEW p, NEW kinds
  PROVE  /\ IsFiniteSet(Passed(p, kinds)) /\ Cardinality(Passed(p, kinds)) \in Nat
         /\ Passed(p, kinds) \subseteq Node
<1>1. IsFiniteSet(Node) /\ Passed(p, kinds) \subseteq Node
  BY Extents, FS_Interval DEF Passed, LiveNodes
<1> QED
  BY <1>1, FS_Subset, FS_CardinalityType

(* A step that stays at its node passes nothing                             *)
LEMMA PassedSame ==
  ASSUME UNCHANGED <<policy, pass, cur>>, NEW p, NEW kinds
  PROVE  Passed(p, kinds)' = Passed(p, kinds)
BY SameNodes DEF Passed

(* A walk that goes on has dealt with one node more.                       *)
LEMMA PassedMore ==
  ASSUME PostTypes, Outside, status = "walk", pass < SORT, cur \in Node, Here.kind \notin Skipping,
         UNCHANGED <<policy, pass>>, cur' = cur + 1, NEW p \in {COUNT, ARRAY}, NEW kinds
  PROVE  /\ pass = p /\ Here.kind \in kinds =>
               Passed(p, kinds)' = Passed(p, kinds) \cup {cur} /\ cur \notin Passed(p, kinds)
         /\ pass # p \/ Here.kind \notin kinds => Passed(p, kinds)' = Passed(p, kinds)
<1>1. Live(cur) /\ LiveNodes(kinds)' = LiveNodes(kinds)
  BY HereLive, SameNodes
<1>2. \A n \in LiveNodes(kinds) : n \in Nat /\ policy.nodes[n].kind \in kinds
  BY Extents DEF LiveNodes
<1>3. cur \in Nat /\ pass \in Nat /\ p \in Nat
  BY DEF PostTypes, LOOP, SORT, COUNT, ARRAY
<1>4. Passed(p, kinds)' = {n \in LiveNodes(kinds) : pass > p \/ (pass = p /\ n < cur + 1)}
  BY <1>1 DEF Passed
<1>5. Here.kind \in kinds => cur \in LiveNodes(kinds)
  BY <1>1 DEF LiveNodes, Here
<1>6. Here.kind \notin kinds => cur \notin LiveNodes(kinds)
  BY DEF LiveNodes, Here
<1>7. ASSUME pass = p
      PROVE  /\ Passed(p, kinds) = {n \in LiveNodes(kinds) : n < cur}
             /\ Passed(p, kinds)' = {n \in LiveNodes(kinds) : n < cur + 1}
  BY <1>3, <1>4, <1>7 DEF Passed
<1>8. \A n \in LiveNodes(kinds) : n < cur + 1 <=> n < cur \/ n = cur
  BY <1>2, <1>3
<1>9. CASE pass = p /\ Here.kind \in kinds
  BY <1>3, <1>5, <1>7, <1>8, <1>9
<1>10. CASE pass = p /\ Here.kind \notin kinds
  BY <1>3, <1>6, <1>7, <1>8, <1>10
<1>11. CASE pass # p
  BY <1>4, <1>11 DEF Passed
<1> QED
  BY <1>9, <1>10, <1>11

(* Skipping a template and starting the next walk deal with nothing.       *)
LEMMA PassedSkip ==
  ASSUME PostTypes, Skip, NEW p \in {COUNT, ARRAY}, NEW kinds
  PROVE  Passed(p, kinds)' = Passed(p, kinds)
<1>1. /\ cur \in Node /\ policy.nodes[cur].kind \in Skipping /\ cur' = policy.nodes[cur].last + 1
      /\ UNCHANGED <<policy, pass>>
  BY DEF Skip, Here, Skipping
<1>2. /\ cur \in Nat /\ policy.nodes[cur].last \in Nat /\ cur <= policy.nodes[cur].last
  BY <1>1, Extents
<1>3. ASSUME NEW n \in LiveNodes(kinds) PROVE n < cur' <=> n < cur
  <2>1. n \in Nat /\ ~ (n \in cur..policy.nodes[cur].last)
    BY <1>1, Extents DEF LiveNodes, Live, InTemplate, Skipping, Node
  <2> QED
    BY <1>1, <1>2, <2>1
<1> QED
  BY <1>1, <1>3, SameNodes DEF Passed

(* At the end of a walk all its nodes were passed                           *)
LEMMA PassedEnd ==
  ASSUME PostTypes, EndWalk, NEW p \in {COUNT, ARRAY}, NEW kinds
  PROVE  Passed(p, kinds)' = Passed(p, kinds)
<1>1. cur \notin Node /\ pass' = pass + 1 /\ cur' = 1 /\ policy' = policy
  BY DEF EndWalk
<1>2. pass \in Nat /\ p \in Nat /\ cur \in Nat \ {0}
  BY DEF PostTypes, LOOP, SORT, COUNT, ARRAY
<1>3. \A n \in LiveNodes(kinds) : n \in Nat \ {0} /\ n < cur
  BY <1>1, <1>2, Extents DEF LiveNodes
<1>4. \A n \in LiveNodes(kinds) :
        (pass + 1 > p \/ (pass + 1 = p /\ n < 1)) <=> (pass > p \/ (pass = p /\ n < cur))
  BY <1>2, <1>3
<1> QED
  BY <1>1, <1>4, SameNodes DEF Passed
-----------------------------------------------------------------------------
(* Types *)

(* The types are kept by every step                                         *)
LEMMA TypesStep ==
  ASSUME PostTypes, [Next]_vars
  PROVE  PostTypes'
<1>1. policy' = policy /\ DataOf(Node)' = DataOf(Node) /\ policy \in Policies
  <2>1. policy' = policy
    BY StepIs DEF Stay, Pass, Skip, EndWalk, Counting, Indexing, CountDatum, CountCon, IndexDatum,
         IndexCon, Sort, Finish
  <2> QED
    BY <2>1, SameNodes DEF PostTypes
<1> DEFINE D == {policy.nodes[n].d : n \in Node}
<1>2. D' = D
  BY <1>1, SameNodes
<1>3. /\ status \in Status /\ pass \in 1..8 /\ cur \in Nat \ {0} /\ (status = "ok" => pass = 8)
      /\ num \in [Numbered -> Nat] /\ count \in [Con -> Nat]
      /\ DOMAIN value = DOMAIN policy.flavor /\ DOMAIN valTo = Numbered
      /\ DOMAIN array = Con /\ \A k \in Con : array[k] \in Seq(D)
  BY DEF PostTypes, LOOP, SORT
<1> SUFFICES /\ status' \in Status /\ pass' \in 1..8 /\ cur' \in Nat \ {0} /\ (status' = "ok" => pass' = 8)
             /\ num' \in [Numbered -> Nat] /\ count' \in [Con -> Nat]
             /\ DOMAIN value' = DOMAIN value /\ DOMAIN valTo' = Numbered
             /\ DOMAIN array' = Con /\ \A k \in Con : array'[k] \in Seq(D)
  BY <1>1, <1>2, <1>3 DEF PostTypes, LOOP, SORT
<1>4. cur \in Node => Here.d \in D /\ Here = policy.nodes[cur] /\ policy.nodes[cur].last + 1 \in Nat \ {0}
  BY Extents DEF Here
<1> HIDE DEF D
<1>5. CASE Stay
  BY <1>3, <1>5, Zenon DEF Stay, Numbering, Status
<1>6. CASE Pass
  BY <1>3, <1>6 DEF Pass, Numbering
<1>7. CASE Skip
  BY <1>3, <1>4, <1>7 DEF Skip, numbering
<1>8. CASE EndWalk
  BY <1>3, <1>8 DEF EndWalk, Idle, numbering, SORT
<1>9. CASE CountDatum
  <2>1. Here.kind \in Numbered /\ num[Here.kind] \in Nat
    BY <1>3, <1>9 DEF CountDatum, At
  <2>2. num' \in [Numbered -> Nat] /\ DOMAIN value' = DOMAIN value
    BY <1>3, <1>9, <2>1 DEF CountDatum
  <2>3. UNCHANGED <<status, pass, valTo, count, array>> /\ cur' = cur + 1
    BY <1>9 DEF CountDatum, GoOn
  <2> QED
    BY <1>3, <2>2, <2>3
<1>10. CASE CountCon
  BY <1>3, <1>10 DEF CountCon, At, GoOn
<1>11. CASE IndexDatum
  <2>1. UNCHANGED <<value, num, count, array>> /\ pass' = pass /\ DOMAIN valTo' = DOMAIN valTo
    BY <1>11, Zenon DEF IndexDatum, GoOn, Stop
  <2>2. status' \in {"walk", "undefined"} /\ cur' \in {cur, cur + 1}
    BY <1>11 DEF IndexDatum, At, Idle, GoOn, Stop
  <2> QED
    BY <1>3, <2>1, <2>2 DEF Status
<1>12. CASE IndexCon
  <2>1. UNCHANGED <<value, num, valTo, count>> /\ pass' = pass /\ DOMAIN array' = DOMAIN array
    BY <1>12 DEF IndexCon, GoOn, Stop
  <2>2. status' \in {"walk", "undefined"} /\ cur' \in {cur, cur + 1}
    BY <1>12 DEF IndexCon, At, Idle, GoOn, Stop
  <2>3. cur \in Node /\ Here.kind \in Con
    BY <1>12 DEF IndexCon, At
  <2>4. array' = array \/ array' = [array EXCEPT ![Here.kind] = Append(@, Here.d)]
    BY <1>12 DEF IndexCon
  <2>5. \A k \in Con : array'[k] \in Seq(D)
    <3> SUFFICES ASSUME NEW k \in Con PROVE array'[k] \in Seq(D)
      OBVIOUS
    <3>1. array[k] \in Seq(D) /\ Append(array[k], Here.d) \in Seq(D)
      BY <1>3, <1>4, <2>3
    <3>2. array'[k] = array[k] \/ array'[k] = Append(array[k], Here.d)
      BY <1>3, <2>3, <2>4
    <3> QED
      BY <3>1, <3>2
  <2> QED
    BY <1>3, <2>1, <2>2, <2>5 DEF Status
<1>13. CASE Sort
  <2>1. UNCHANGED <<value, num, valTo, count, status, pass>> /\ cur' = cur + 1
    BY <1>13, Zenon DEF Sort, GoOn
  <2> DEFINE k == ConKinds[cur]
  <2>2. PICK s \in [DOMAIN array[k] -> DOMAIN array[k]] :
          array' = [array EXCEPT ![k] = [i \in DOMAIN s |-> @[s[i]]]]
    BY <1>13, Zenon DEF Sort
  <2> HIDE DEF k
  <2>3. ASSUME k \in Con PROVE [i \in DOMAIN s |-> array[k][s[i]]] \in Seq(D)
    BY <1>3, <2>3
  <2>4. \A j \in Con : array'[j] \in Seq(D)
    BY <1>3, <2>2, <2>3
  <2> QED
    BY <1>3, <2>1, <2>2, <2>4
<1>14. CASE Finish
  BY <1>3, <1>14 DEF Finish, Idle, Stop, numbering, Status, SORT
<1> QED
  BY <1>5, <1>6, <1>7, <1>8, <1>9, <1>10, <1>11, <1>12, <1>13, <1>14, StepIs DEF Counting, Indexing
-----------------------------------------------------------------------------
(* Steps that leave the numbers alone *)

(* Every step but the counting, the indexing and the sorting ones.         *)
Quiet == /\ UNCHANGED <<policy, Numbering>> /\ (pass >= ARRAY => pass' >= ARRAY)
         /\ status' = "undefined" \/ status # "undefined" \/ UNCHANGED status
         /\ \A p \in {COUNT, ARRAY} : \A k \in Numbered \cup Con : Passed(p, {k})' = Passed(p, {k})

(* The steps that neither count nor index are quiet                         *)
LEMMA QuietStep ==
  ASSUME PostTypes, Outside, Stay \/ Pass \/ Skip \/ EndWalk \/ Finish
  PROVE  Quiet
<1>1. CASE Stay
  BY <1>1, PassedSame DEF Stay, Quiet
<1>2. CASE Pass
  <2>1. ASSUME NEW p \in {COUNT, ARRAY}, NEW k \in Numbered \cup Con
        PROVE  Passed(p, {k})' = Passed(p, {k})
    <3>1. pass # p \/ Here.kind # k
      BY <1>2 DEF Pass
    <3> QED
      BY <1>2, <3>1, PassedMore DEF Pass
  <2> QED
    BY <1>2, <2>1 DEF Pass, Quiet
<1>3. CASE Skip
  BY <1>3, PassedSkip DEF Skip, Idle, Quiet, numbering, Numbering
<1>4. CASE EndWalk
  <2>1. pass' >= ARRAY \/ ~ (pass >= ARRAY)
    BY <1>4 DEF EndWalk, PostTypes, LOOP, SORT, ARRAY
  <2> QED
    BY <1>4, <2>1, PassedEnd DEF EndWalk, Idle, Quiet, numbering, Numbering
<1>5. CASE Finish
  <2>1. UNCHANGED <<policy, pass, cur, numbering>> /\ status = "walk"
    BY <1>5, Zenon DEF Finish, Stop, Idle
  <2> QED
    BY <2>1, PassedSame DEF Quiet, numbering, Numbering
<1> QED
  BY <1>1, <1>2, <1>3, <1>4, <1>5

(* A quiet step keeps everything that is said about numbers and arrays      *)
LEMMA QuietNumbers ==
  ASSUME Quiet, Numbers, Back, Room
  PROVE  Numbers' /\ Back' /\ Room'
<1>1. /\ value' = value /\ num' = num /\ valTo' = valTo /\ count' = count /\ array' = array
      /\ status' # "undefined" => status # "undefined"
      /\ pass >= ARRAY => pass' >= ARRAY
  BY DEF Quiet, Numbering
<1>2. \A f \in Numbered : Counted(f)' = Counted(f) /\ Indexed(f)' = Indexed(f)
  <2> SUFFICES ASSUME NEW f \in Numbered PROVE Counted(f)' = Counted(f) /\ Indexed(f)' = Indexed(f)
    OBVIOUS
  <2>1. Passed(COUNT, {f})' = Passed(COUNT, {f}) /\ Passed(ARRAY, {f})' = Passed(ARRAY, {f})
    BY DEF Quiet
  <2>2. /\ \A n : First(n)' <=> First(n)
        /\ \A nodes : DataOf(nodes)' = DataOf(nodes)
    BY SameNodes DEF Quiet
  <2>3. {n \in Passed(COUNT, {f})' : First(n)'} = {n \in Passed(COUNT, {f}) : First(n)}
    BY <2>1, <2>2
  <2>4. Counted(f)' = Counted(f)
    BY <2>2, <2>3, Zenon DEF Counted
  <2>5. Indexed(f)' = Indexed(f)
    BY <2>1, <2>2, Zenon DEF Indexed
  <2> QED
    BY <2>4, <2>5
<1>3. Numbers'
  BY <1>1, <1>2 DEF Numbers
<1>4. Back'
  BY <1>1, <1>2 DEF Back
<1>5. Room'
  <2>1. \A k \in Con : /\ Passed(COUNT, {k})' = Passed(COUNT, {k}) /\ Passed(ARRAY, {k})' = Passed(ARRAY, {k})
                       /\ DataOf(Passed(ARRAY, {k}))' = DataOf(Passed(ARRAY, {k}))
    BY SameNodes DEF Quiet, DataOf
  <2> QED
    BY <1>1, <2>1 DEF Room
<1> QED
  BY <1>3, <1>4, <1>5
-----------------------------------------------------------------------------
(* Counting *)

(* The first node of a live type or role is live, too, and declares it.     *)
LEMMA HeadIs ==
  ASSUME PostTypes, NEW f \in Numbered, NEW n \in LiveNodes({f})
  PROVE  LET d == policy.nodes[n].d
             h == policy.head[d]
         IN  /\ d \in DOMAIN value
             /\ h \in LiveNodes({f}) /\ policy.nodes[h].d = d /\ First(h)
<1>1. n \in Node /\ policy.nodes[n].kind = f /\ Live(n) /\ Node = 1..Len(policy.nodes)
  BY DEF LiveNodes, Node
<1>2. policy.nodes[n].kind \in Numbered
  BY <1>1
<1> DEFINE d == policy.nodes[n].d
           h == policy.head[d]
<1>3. IsPolicy(policy)
  BY PolicyHere DEF PostTypes
<1>4. /\ d \in DOMAIN policy.flavor /\ h \in Node
      /\ policy.nodes[h].kind = f /\ policy.nodes[h].d = d
      /\ InTemplate(policy.nodes, h) <=> InTemplate(policy.nodes, n)
  BY <1>1, <1>2, <1>3 DEF IsPolicy
<1> QED
  BY <1>1, <1>4 DEF LiveNodes, Live, First, PostTypes

(* A datum that is counted is so by its first node.                        *)
LEMMA CountedIs ==
  ASSUME PostTypes, NEW f \in Numbered, NEW d
  PROVE  d \in Counted(f) <=>
           \E n \in Passed(COUNT, {f}) : policy.nodes[n].d = d /\ policy.head[d] = n
BY DEF Counted, DataOf, First

(* A number for a datum that has none yet.                                 *)
LEMMA NumberedNext ==
  ASSUME Numbers, NEW f \in Numbered, NEW d \in DOMAIN value, \A g \in Numbered : d \notin Counted(g),
         num \in [Numbered -> Nat],
         value' = [value EXCEPT ![d] = num[f]], num' = [num EXCEPT ![f] = @ + 1],
         \A g \in Numbered : Counted(g)' = IF g = f THEN Counted(g) \cup {d} ELSE Counted(g)
  PROVE  Numbers'
<1> SUFFICES ASSUME NEW g \in Numbered
             PROVE  /\ {value'[x] : x \in Counted(g)'} = 0..(num'[g] - 1)
                    /\ \A x, y \in Counted(g)' : value'[x] = value'[y] => x = y
  BY DEF Numbers
<1>1. /\ {value[x] : x \in Counted(g)} = 0..(num[g] - 1)
      /\ \A x, y \in Counted(g) : value[x] = value[y] => x = y
      /\ num[g] \in Nat
  BY DEF Numbers
<1>2. \A x \in Counted(g) : value'[x] = value[x]
  OBVIOUS
<1>3. CASE g # f
  <2>1. Counted(g)' = Counted(g) /\ num'[g] = num[g]
    BY <1>3
  <2> QED
    BY <1>1, <1>2, <2>1
<1>4. CASE g = f
  <2>1. Counted(g)' = Counted(g) \cup {d} /\ num'[g] = num[g] + 1 /\ value'[d] = num[g]
    BY <1>4
  <2>2. \A x \in Counted(g) : value[x] \in 0..(num[g] - 1) /\ value[x] # num[g]
    BY <1>1
  <2>3. 0..(num[g] + 1 - 1) = 0..(num[g] - 1) \cup {num[g]}
    BY <1>1
  <2>4. {value'[x] : x \in Counted(g)'} = {value[x] : x \in Counted(g)} \cup {num[g]}
    BY <1>2, <2>1
  <2>5. \A x, y \in Counted(g)' : value'[x] = value'[y] => x = y
    BY <1>1, <1>2, <2>1, <2>2
  <2> QED
    BY <1>1, <2>1, <2>3, <2>4, <2>5
<1> QED
  BY <1>3, <1>4

(* A type or role gets the next number at its first node                    *)
LEMMA CountDatumStep ==
  ASSUME PostInv, CountDatum
  PROVE  Numbers' /\ Back' /\ Room'
<1> DEFINE f == Here.kind
           d == Here.d
<1>1. /\ pass = COUNT /\ status = "walk" /\ cur \in Node /\ f \in Numbered /\ cur' = cur + 1
      /\ UNCHANGED <<policy, status, pass, valTo, count, array>>
      /\ f \notin Skipping /\ f \notin Con
      /\ f = policy.nodes[cur].kind /\ d = policy.nodes[cur].d
  BY DEF CountDatum, At, Idle, GoOn, Here, Skipping, Numbered, Con, RangeCon
<1>2. /\ value' = IF policy.head[d] = cur THEN [value EXCEPT ![d] = num[f]] ELSE value
      /\ num' = IF policy.head[d] = cur THEN [num EXCEPT ![f] = @ + 1] ELSE num
  BY DEF CountDatum
<1>3. PostTypes /\ Outside /\ Numbers /\ Back /\ Room /\ pass < SORT
  BY <1>1 DEF PostInv, COUNT, SORT
<1>4. cur \in LiveNodes({f}) /\ d \in DOMAIN value
  <2>1. Live(cur)
    BY <1>1, <1>3, HereLive
  <2>2. cur \in LiveNodes({f})
    BY <1>1, <2>1 DEF LiveNodes
  <2> QED
    BY <1>1, <1>3, <2>2, HeadIs
<1> HIDE DEF f, d
<1>5. ASSUME NEW k \in Numbered \cup Con
      PROVE  /\ Passed(ARRAY, {k})' = Passed(ARRAY, {k})
             /\ k # f => Passed(COUNT, {k})' = Passed(COUNT, {k})
             /\ k = f => /\ Passed(COUNT, {k})' = Passed(COUNT, {k}) \cup {cur}
                         /\ cur \notin Passed(COUNT, {k})
  <2>1. COUNT # ARRAY
    BY DEF COUNT, ARRAY
  <2> QED
    BY <1>1, <1>3, <2>1, PassedMore DEF f
<1>6. \A g \in Numbered : Indexed(g)' = Indexed(g)
  BY <1>1, <1>5 DEF Indexed, DataOf
<1>7. Room'
  <2>1. \A k \in Con : /\ Passed(COUNT, {k})' = Passed(COUNT, {k}) /\ Passed(ARRAY, {k})' = Passed(ARRAY, {k})
                       /\ DataOf(Passed(ARRAY, {k}))' = DataOf(Passed(ARRAY, {k}))
    BY <1>1, <1>5 DEF DataOf
  <2> QED
    BY <1>1, <1>3, <2>1 DEF Room
<1>8. \A g \in Numbered : Indexed(g) = {} /\ valTo[g] = <<>>
  <2>1. ~ (pass > ARRAY) /\ pass # ARRAY /\ ~ (pass >= ARRAY)
    BY <1>1 DEF COUNT, ARRAY
  <2> QED
    BY <1>1, <1>3, <2>1 DEF Indexed, DataOf, Passed, Back
<1>9. Back'
  BY <1>1, <1>6, <1>8 DEF Back
<1>10. ASSUME NEW g \in Numbered PROVE d \in Counted(g) => g = f
  <2> SUFFICES ASSUME d \in Counted(g) PROVE g = f
    OBVIOUS
  <2>1. PICK n \in Passed(COUNT, {g}) : policy.nodes[n].d = d
    BY DEF Counted, DataOf
  <2>2. n \in LiveNodes({g})
    BY <2>1 DEF Passed
  <2>3. policy.nodes[policy.head[d]].kind = g
    BY <1>3, <2>1, <2>2, HeadIs DEF LiveNodes
  <2>4. policy.nodes[policy.head[d]].kind = f
    BY <1>1, <1>3, <1>4, HeadIs DEF LiveNodes
  <2> QED
    BY <2>3, <2>4
<1>11. Numbers'
  <2>1. \A g \in Numbered : /\ g # f => Counted(g)' = Counted(g)
                            /\ g = f => Counted(g)' = IF policy.head[d] = cur THEN Counted(g) \cup {d} ELSE Counted(g)
    <3> SUFFICES ASSUME NEW g \in Numbered
                 PROVE  /\ g # f => Counted(g)' = Counted(g)
                        /\ g = f => Counted(g)' = IF policy.head[d] = cur THEN Counted(g) \cup {d} ELSE Counted(g)
      OBVIOUS
    <3>1. Counted(g)' = DataOf({n \in Passed(COUNT, {g})' : First(n)})
      BY <1>1, SameNodes DEF Counted, DataOf, First
    <3>2. First(cur) <=> policy.head[d] = cur
      BY <1>1 DEF First
    <3>3. CASE g # f
      BY <1>5, <3>1, <3>3 DEF Counted
    <3>4. CASE g = f
      <4> DEFINE P == Passed(COUNT, {g})
      <4>1. Passed(COUNT, {g})' = P \cup {cur}
        BY <1>5, <3>4
      <4>2. Counted(g) = {policy.nodes[n].d : n \in {m \in P : First(m)}}
        BY DEF Counted, DataOf
      <4>3. Counted(g)' = {policy.nodes[n].d : n \in {m \in P \cup {cur} : First(m)}}
        BY <3>1, <4>1 DEF DataOf
      <4> HIDE DEF P
      <4>4. CASE First(cur)
        <5>1. {m \in P \cup {cur} : First(m)} = {m \in P : First(m)} \cup {cur}
          BY <4>4
        <5>2. Counted(g)' = Counted(g) \cup {d}
          BY <1>1, <4>2, <4>3, <5>1
        <5> QED
          BY <3>2, <3>4, <4>4, <5>2
      <4>5. CASE ~ First(cur)
        <5>1. {m \in P \cup {cur} : First(m)} = {m \in P : First(m)}
          BY <4>5
        <5> QED
          BY <3>2, <3>4, <4>2, <4>3, <4>5, <5>1
      <4> QED
        BY <4>4, <4>5
    <3> QED
      BY <3>3, <3>4
  <2>2. CASE policy.head[d] # cur
    BY <1>2, <1>3, <2>1, <2>2 DEF Numbers
  <2>3. CASE policy.head[d] = cur
    <3>1. d \notin Counted(f)
      <4> SUFFICES ASSUME NEW n \in Passed(COUNT, {f}), policy.nodes[n].d = d, policy.head[d] = n PROVE FALSE
        BY <1>1, <1>3, CountedIs
      <4> QED
        BY <1>1, <1>5, <2>3
    <3>2. \A g \in Numbered : d \notin Counted(g)
      BY <1>10, <3>1
    <3>3. \A g \in Numbered : Counted(g)' = IF g = f THEN Counted(g) \cup {d} ELSE Counted(g)
      BY <2>1, <2>3
    <3> QED
      BY <1>1, <1>2, <1>3, <1>4, <2>3, <3>2, <3>3, NumberedNext DEF PostTypes
  <2> QED
    BY <2>2, <2>3
<1> QED
  BY <1>7, <1>9, <1>11

(* One more in a set of nodes.                                             *)
LEMMA OneMore ==
  ASSUME PostTypes, NEW p, NEW kinds, NEW x, x \notin Passed(p, kinds)
  PROVE  Cardinality(Passed(p, kinds) \cup {x}) = Cardinality(Passed(p, kinds)) + 1
BY PassedFinite, FS_AddElement

(* A labelling statement is counted                                         *)
LEMMA CountConStep ==
  ASSUME PostInv, CountCon
  PROVE  Numbers' /\ Back' /\ Room'
<1> DEFINE f == Here.kind
<1>1. /\ pass = COUNT /\ status = "walk" /\ cur \in Node /\ f \in Con /\ cur' = cur + 1
      /\ UNCHANGED <<policy, status, pass, value, num, valTo, array>>
      /\ f \notin Skipping /\ f \notin Numbered
      /\ count' = [count EXCEPT ![f] = @ + 1]
  BY DEF CountCon, At, Idle, GoOn, Skipping, Numbered, Con, RangeCon
<1>2. PostTypes /\ Outside /\ Numbers /\ Back /\ Room /\ pass < SORT
  BY <1>1 DEF PostInv, COUNT, SORT
<1> HIDE DEF f
<1>3. ASSUME NEW k \in Numbered \cup Con
      PROVE  /\ Passed(ARRAY, {k})' = Passed(ARRAY, {k})
             /\ k # f => Passed(COUNT, {k})' = Passed(COUNT, {k})
             /\ k = f => /\ Passed(COUNT, {k})' = Passed(COUNT, {k}) \cup {cur}
                         /\ cur \notin Passed(COUNT, {k})
  <2>1. COUNT # ARRAY
    BY DEF COUNT, ARRAY
  <2> QED
    BY <1>1, <1>2, <2>1, PassedMore DEF f
<1>4. \A g \in Numbered : Indexed(g)' = Indexed(g) /\ Counted(g)' = Counted(g)
  <2>1. \A g \in Numbered : Passed(COUNT, {g})' = Passed(COUNT, {g}) /\ Passed(ARRAY, {g})' = Passed(ARRAY, {g})
    BY <1>1, <1>3
  <2> QED
    BY <1>1, <2>1 DEF Indexed, Counted, DataOf, First
<1>5. Numbers' /\ Back'
  BY <1>1, <1>2, <1>4 DEF Numbers, Back
<1>6. Room'
  <2>1. \A k \in Con : count'[k] = Cardinality(Passed(COUNT, {k})')
    <3> SUFFICES ASSUME NEW k \in Con PROVE count'[k] = Cardinality(Passed(COUNT, {k})')
      OBVIOUS
    <3>1. count[k] = Cardinality(Passed(COUNT, {k})) /\ count \in [Con -> Nat]
      BY <1>2 DEF Room, PostTypes
    <3>2. CASE k = f
      <4>1. Passed(COUNT, {k})' = Passed(COUNT, {k}) \cup {cur} /\ cur \notin Passed(COUNT, {k})
        BY <1>3, <3>2
      <4>2. Cardinality(Passed(COUNT, {k})') = Cardinality(Passed(COUNT, {k})) + 1
        BY <1>2, <4>1, OneMore
      <4> QED
        BY <1>1, <3>1, <3>2, <4>2
    <3>3. CASE k # f
      <4>1. Passed(COUNT, {k})' = Passed(COUNT, {k})
        BY <1>3, <3>3
      <4> QED
        BY <1>1, <3>1, <3>3, <4>1
    <3> QED
      BY <3>2, <3>3
  <2>2. \A k \in Con : /\ Passed(ARRAY, {k})' = Passed(ARRAY, {k})
                       /\ DataOf(Passed(ARRAY, {k}))' = DataOf(Passed(ARRAY, {k}))
    BY <1>1, <1>3 DEF DataOf
  <2> QED
    BY <1>1, <1>2, <2>1, <2>2 DEF Room
<1> QED
  BY <1>5, <1>6
-----------------------------------------------------------------------------
(* Filling the arrays *)

(* After the first walk, all types and roles outside templates are counted. *)
LEMMA AllCounted ==
  ASSUME PostTypes, pass > COUNT, NEW f \in Numbered
  PROVE  Counted(f) = LiveData(f)
<1>1. Passed(COUNT, {f}) = LiveNodes({f})
  BY DEF Passed
<1>2. ASSUME NEW d \in LiveData(f) PROVE d \in Counted(f)
  <2>1. PICK n \in LiveNodes({f}) : policy.nodes[n].d = d
    BY DEF LiveData
  <2>2. policy.head[d] \in LiveNodes({f}) /\ policy.nodes[policy.head[d]].d = d
    BY <2>1, HeadIs
  <2> QED
    BY <1>1, <2>2, CountedIs
<1>3. Counted(f) \subseteq LiveData(f)
  BY <1>1 DEF Counted, DataOf, LiveData
<1> QED
  BY <1>2, <1>3

(* A type or role is entered under its number                               *)
LEMMA IndexDatumStep ==
  ASSUME PostInv, IndexDatum
  PROVE  Numbers' /\ Back' /\ Room'
<1> DEFINE f == Here.kind
           d == Here.d
           v == value[d]
           old == IF valTo[f] = <<>> THEN [w \in 0..(num[f] - 1) |-> NULL] ELSE valTo[f]
<1>1. /\ pass = ARRAY /\ status = "walk" /\ cur \in Node /\ f \in Numbered
      /\ UNCHANGED <<policy, pass, value, num, count, array>>
      /\ f \notin Skipping /\ f \notin Con
      /\ f = policy.nodes[cur].kind /\ d = policy.nodes[cur].d
  <2>1. /\ pass = ARRAY /\ status = "walk" /\ cur \in Node /\ f \in Numbered
        /\ UNCHANGED <<policy, value, num, count, array>>
    BY DEF IndexDatum, At, Idle
  <2>2. pass' = pass
    BY Zenon DEF IndexDatum, GoOn, Stop
  <2> QED
    BY <2>1, <2>2 DEF Here, Skipping, Numbered, Con, RangeCon
<1>2. \/ status' = status /\ cur' = cur + 1 /\ valTo' = [valTo EXCEPT ![f] = [old EXCEPT ![v] = d]]
      \/ status' = "undefined" /\ cur' = cur /\ valTo' = valTo
  BY Zenon DEF IndexDatum, GoOn, Stop
<1>3. PostTypes /\ Outside /\ Numbers /\ Back /\ Room /\ pass < SORT /\ pass > COUNT /\ pass >= ARRAY
  BY <1>1 DEF PostInv, COUNT, ARRAY, SORT
<1>4. cur \in LiveNodes({f}) /\ d \in LiveData(f)
  <2>1. Live(cur)
    BY <1>1, <1>3, HereLive
  <2>2. cur \in LiveNodes({f})
    BY <1>1, <2>1 DEF LiveNodes
  <2> QED
    BY <1>1, <2>2 DEF LiveData
<1>5. /\ DOMAIN valTo = Numbered /\ num[f] \in Nat
      /\ \A g \in Numbered : Counted(g) = LiveData(g)
      /\ \A g \in Numbered : valTo[g] = <<>> \/ DOMAIN valTo[g] = 0..(num[g] - 1)
      /\ \A g \in Numbered : \A x \in Indexed(g) : value[x] \in DOMAIN valTo[g] /\ valTo[g][value[x]] = x
  BY <1>1, <1>3, AllCounted DEF Back, PostTypes
<1> HIDE DEF f, d
<1>6. CASE status' = "undefined" /\ cur' = cur
  <2>1. \A p \in {COUNT, ARRAY} : \A k \in Numbered \cup Con : Passed(p, {k})' = Passed(p, {k})
    BY <1>1, <1>6, PassedSame
  <2>2. \A g \in Numbered : Counted(g)' = Counted(g)
    BY <1>1, <2>1 DEF Counted, DataOf, First
  <2> QED
    BY <1>1, <1>3, <1>6, <2>1, <2>2 DEF Numbers, Back, Room
<1>7. CASE status' = status /\ cur' = cur + 1 /\ valTo' = [valTo EXCEPT ![f] = [old EXCEPT ![v] = d]]
  <2>1. ASSUME NEW k \in Numbered \cup Con
        PROVE  /\ Passed(COUNT, {k})' = Passed(COUNT, {k})
               /\ k # f => Passed(ARRAY, {k})' = Passed(ARRAY, {k})
               /\ k = f => Passed(ARRAY, {k})' = Passed(ARRAY, {k}) \cup {cur}
    <3>1. COUNT # ARRAY
      BY DEF COUNT, ARRAY
    <3> QED
      BY <1>1, <1>3, <1>7, <3>1, PassedMore DEF f
  <2>2. \A g \in Numbered : /\ Counted(g)' = Counted(g)
                            /\ g # f => Indexed(g)' = Indexed(g)
                            /\ g = f => Indexed(g)' = Indexed(g) \cup {d}
    <3> SUFFICES ASSUME NEW g \in Numbered
                 PROVE  /\ Counted(g)' = Counted(g)
                        /\ g # f => Indexed(g)' = Indexed(g)
                        /\ g = f => Indexed(g)' = Indexed(g) \cup {d}
      OBVIOUS
    <3>1. Indexed(g)' = DataOf(Passed(ARRAY, {g})')
      BY <1>1 DEF Indexed, DataOf
    <3>2. Counted(g)' = Counted(g)
      BY <1>1, <2>1 DEF Counted, DataOf, First
    <3>3. g # f => Indexed(g)' = Indexed(g)
      BY <2>1, <3>1 DEF Indexed
    <3>4. CASE g = f
      <4>1. Passed(ARRAY, {g})' = Passed(ARRAY, {g}) \cup {cur}
        BY <2>1, <3>4
      <4>2. DataOf(Passed(ARRAY, {g}) \cup {cur}) = DataOf(Passed(ARRAY, {g})) \cup {d}
        BY <1>1 DEF DataOf
      <4> QED
        BY <3>1, <3>2, <3>4, <4>1, <4>2 DEF Indexed
    <3> QED
      BY <3>2, <3>3, <3>4
  <2>3. Numbers'
    BY <1>1, <1>3, <2>2 DEF Numbers
  <2>4. Room'
    <3>1. \A k \in Con : /\ Passed(COUNT, {k})' = Passed(COUNT, {k}) /\ Passed(ARRAY, {k})' = Passed(ARRAY, {k})
                         /\ DataOf(Passed(ARRAY, {k}))' = DataOf(Passed(ARRAY, {k}))
      BY <1>1, <2>1 DEF DataOf
    <3> QED
      BY <1>1, <1>3, <1>7, <3>1 DEF Room
  <2>5. DOMAIN old = 0..(num[f] - 1) /\ v \in 0..(num[f] - 1)
    <3>1. DOMAIN old = 0..(num[f] - 1)
      BY <1>1, <1>5
    <3>2. v \in {value[x] : x \in Counted(f)}
      BY <1>1, <1>4, <1>5
    <3> QED
      BY <1>1, <1>3, <3>1, <3>2 DEF Numbers
  <2>6. \A x \in Indexed(f) : value[x] \in DOMAIN old /\ old[value[x]] = x
    <3>1. CASE valTo[f] = <<>>
      BY <1>1, <1>5, <3>1
    <3>2. CASE valTo[f] # <<>>
      BY <1>1, <1>5, <3>2
    <3> QED
      BY <3>1, <3>2
  <2>7. Indexed(f) \subseteq LiveData(f)
    BY DEF Indexed, DataOf, Passed, LiveData
  <2>8. \A x \in Indexed(f) : x # d => value[x] # v
    BY <1>1, <1>3, <1>4, <1>5, <2>7 DEF Numbers
  <2> HIDE DEF old, v
  <2>9. valTo'[f] = [old EXCEPT ![v] = d] /\ \A g \in Numbered \ {f} : valTo'[g] = valTo[g]
    BY <1>1, <1>5, <1>7
  <2>10. \A g \in Numbered : /\ valTo'[g] = <<>> \/ DOMAIN valTo'[g] = 0..(num[g] - 1)
                             /\ \A x \in Indexed(g)' : /\ value[x] \in DOMAIN valTo'[g]
                                                       /\ valTo'[g][value[x]] = x
    <3> SUFFICES ASSUME NEW g \in Numbered
                 PROVE  /\ valTo'[g] = <<>> \/ DOMAIN valTo'[g] = 0..(num[g] - 1)
                        /\ \A x \in Indexed(g)' : value[x] \in DOMAIN valTo'[g] /\ valTo'[g][value[x]] = x
      OBVIOUS
    <3>1. CASE g # f
      BY <1>5, <2>2, <2>9, <3>1
    <3>2. CASE g = f
      <4>1. DOMAIN valTo'[f] = DOMAIN old /\ valTo'[f][v] = d
        BY <2>5, <2>9
      <4>2. \A x \in Indexed(f) : x # d => valTo'[f][value[x]] = x
        BY <2>6, <2>8, <2>9
      <4>3. value[d] = v
        BY DEF v
      <4> QED
        BY <2>2, <2>5, <2>6, <3>2, <4>1, <4>2, <4>3
    <3> QED
      BY <3>1, <3>2
  <2>11. Back'
    BY <1>1, <1>3, <2>10 DEF Back
  <2> QED
    BY <2>3, <2>4, <2>11
<1> QED
  BY <1>2, <1>6, <1>7

(* What is in a sequence after appending                                    *)
LEMMA Appended ==
  ASSUME NEW D, NEW t \in Seq(D), NEW d \in D
  PROVE  ToSet(Append(t, d)) = ToSet(t) \cup {d}
<1> DEFINE u == Append(t, d)
<1>1. Len(t) \in Nat /\ DOMAIN t = 1..Len(t) /\ DOMAIN u = 1..(Len(t) + 1)
  OBVIOUS
<1>2. u[Len(t) + 1] = d /\ \A i \in 1..Len(t) : u[i] = t[i]
  OBVIOUS
<1> HIDE DEF u
<1>3. 1..(Len(t) + 1) = 1..Len(t) \cup {Len(t) + 1}
  BY <1>1
<1>4. {u[i] : i \in DOMAIN u} = {t[i] : i \in DOMAIN t} \cup {d}
  BY <1>1, <1>2, <1>3
<1> QED
  BY <1>4 DEF ToSet, u

(* A labelling statement goes into the next place of its array              *)
LEMMA IndexConStep ==
  ASSUME PostInv, IndexCon
  PROVE  Numbers' /\ Back' /\ Room'
<1> DEFINE f == Here.kind
           d == Here.d
<1>1. /\ pass = ARRAY /\ status = "walk" /\ cur \in Node /\ f \in Con
      /\ UNCHANGED <<policy, pass, value, num, valTo, count>>
      /\ f \notin Skipping /\ f \notin Numbered
      /\ f = policy.nodes[cur].kind /\ d = policy.nodes[cur].d
  <2>1. /\ pass = ARRAY /\ status = "walk" /\ cur \in Node /\ f \in Con
        /\ UNCHANGED <<policy, value, num, valTo, count>>
    BY DEF IndexCon, At, Idle
  <2>2. pass' = pass
    BY Zenon DEF IndexCon, GoOn, Stop
  <2> QED
    BY <2>1, <2>2 DEF Here, Skipping, Numbered, Con, RangeCon
<1>2. \/ status' = status /\ cur' = cur + 1 /\ array' = [array EXCEPT ![f] = Append(@, d)]
      \/ status' = "undefined" /\ cur' = cur /\ array' = array
  BY Zenon DEF IndexCon, GoOn, Stop
<1>3. PostTypes /\ Outside /\ Numbers /\ Back /\ Room /\ pass < SORT
  BY <1>1 DEF PostInv, ARRAY, SORT
<1> HIDE DEF f, d
<1>4. CASE status' = "undefined" /\ cur' = cur
  <2>1. \A p \in {COUNT, ARRAY} : \A k \in Numbered \cup Con : Passed(p, {k})' = Passed(p, {k})
    BY <1>1, <1>4, PassedSame
  <2>2. \A g \in Numbered : Counted(g)' = Counted(g)
    BY <1>1, <2>1 DEF Counted, DataOf, First
  <2> QED
    BY <1>1, <1>3, <1>4, <2>1, <2>2 DEF Numbers, Back, Room
<1>5. CASE status' = status /\ cur' = cur + 1 /\ array' = [array EXCEPT ![f] = Append(@, d)]
  <2>1. ASSUME NEW k \in Numbered \cup Con
        PROVE  /\ Passed(COUNT, {k})' = Passed(COUNT, {k})
               /\ k # f => Passed(ARRAY, {k})' = Passed(ARRAY, {k})
               /\ k = f => /\ Passed(ARRAY, {k})' = Passed(ARRAY, {k}) \cup {cur}
                           /\ cur \notin Passed(ARRAY, {k})
    <3>1. COUNT # ARRAY
      BY DEF COUNT, ARRAY
    <3> QED
      BY <1>1, <1>3, <1>5, <3>1, PassedMore DEF f
  <2>2. \A g \in Numbered : Counted(g)' = Counted(g) /\ Indexed(g)' = Indexed(g)
    <3>1. \A g \in Numbered : Passed(COUNT, {g})' = Passed(COUNT, {g}) /\ Passed(ARRAY, {g})' = Passed(ARRAY, {g})
      BY <1>1, <2>1
    <3> QED
      BY <1>1, <3>1 DEF Counted, Indexed, DataOf, First
  <2>3. Numbers' /\ Back'
    BY <1>1, <1>3, <1>5, <2>2 DEF Numbers, Back
  <2>4. ASSUME NEW k \in Con
        PROVE  /\ Len(array'[k]) = Cardinality(Passed(ARRAY, {k})')
               /\ ToSet(array'[k]) = DataOf(Passed(ARRAY, {k})')
    <3> DEFINE D == {policy.nodes[n].d : n \in Node}
    <3>1. /\ Len(array[k]) = Cardinality(Passed(ARRAY, {k})) /\ ToSet(array[k]) = DataOf(Passed(ARRAY, {k}))
          /\ DOMAIN array = Con /\ array[k] \in Seq(D) /\ d \in D
      BY <1>1, <1>3 DEF Room, PostTypes
    <3> HIDE DEF D
    <3>2. CASE k # f
      <4>1. Passed(ARRAY, {k})' = Passed(ARRAY, {k})
        BY <2>1, <3>2
      <4> QED
        BY <1>5, <3>1, <3>2, <4>1
    <3>3. CASE k = f
      <4>1. Passed(ARRAY, {k})' = Passed(ARRAY, {k}) \cup {cur} /\ cur \notin Passed(ARRAY, {k})
        BY <2>1, <3>3
      <4>2. Cardinality(Passed(ARRAY, {k})') = Cardinality(Passed(ARRAY, {k})) + 1
        BY <1>3, <4>1, OneMore
      <4>3. array'[k] = Append(array[k], d)
        BY <1>5, <3>1, <3>3
      <4>4. ToSet(Append(array[k], d)) = ToSet(array[k]) \cup {d}
        BY <3>1, Appended
      <4>5. DataOf(Passed(ARRAY, {k}) \cup {cur}) = DataOf(Passed(ARRAY, {k})) \cup {d}
        BY <1>1 DEF DataOf
      <4>6. Len(Append(array[k], d)) = Len(array[k]) + 1
        BY <3>1
      <4> QED
        BY <3>1, <4>1, <4>2, <4>3, <4>4, <4>5, <4>6
    <3> QED
      BY <3>2, <3>3
  <2>5. Room'
    <3>1. \A k \in Con : /\ Passed(COUNT, {k})' = Passed(COUNT, {k})
                         /\ DataOf(Passed(ARRAY, {k}))' = DataOf(Passed(ARRAY, {k})')
      BY <1>1, <2>1 DEF DataOf
    <3> QED
      BY <1>1, <1>3, <2>4, <3>1 DEF Room
  <2> QED
    BY <2>3, <2>5
<1> QED
  BY <1>2, <1>4, <1>5

(* Sorting changes the order of an array and nothing else.                 *)
LEMMA Rearranged ==
  ASSUME NEW D, NEW t \in Seq(D), NEW s \in [DOMAIN t -> DOMAIN t], IsInjective(s)
  PROVE  LET u == [i \in DOMAIN s |-> t[s[i]]]
         IN  Len(u) = Len(t) /\ ToSet(u) = ToSet(t)
<1> DEFINE u == [i \in DOMAIN s |-> t[s[i]]]
<1>1. DOMAIN t = 1..Len(t) /\ Len(t) \in Nat /\ DOMAIN s = DOMAIN t
  OBVIOUS
<1>2. s \in Injection(DOMAIN t, DOMAIN t)
  BY DEF Injection, IsInjective
<1>3. IsFiniteSet(DOMAIN t)
  BY <1>1, FS_Interval
<1>4. s \in Surjection(DOMAIN t, DOMAIN t)
  BY <1>2, <1>3, FS_Injection
<1>5. \A j \in DOMAIN t : \E i \in DOMAIN t : s[i] = j
  BY <1>4 DEF Surjection
<1>6. Len(u) = Len(t)
  <2>1. DOMAIN u = 1..Len(t) /\ u \in Seq(D)
    BY <1>1
  <2> QED
    BY <1>1, <2>1
<1>7. ToSet(u) = ToSet(t)
  BY <1>1, <1>5 DEF ToSet
<1> QED
  BY <1>6, <1>7

(* Sorting only changes the order in which an array holds its statements    *)
LEMMA SortStep ==
  ASSUME PostInv, Sort
  PROVE  Numbers' /\ Back' /\ Room'
<1> DEFINE k == ConKinds[cur]
<1>1. UNCHANGED <<policy, value, num, valTo, count, status, pass>> /\ pass = SORT
  BY Zenon DEF Sort, GoOn
<1>2. PICK s \in [DOMAIN array[k] -> DOMAIN array[k]] :
        IsInjective(s) /\ array' = [array EXCEPT ![k] = [i \in DOMAIN s |-> @[s[i]]]]
  BY Zenon DEF Sort
<1> HIDE DEF k
<1>3. PostTypes /\ Numbers /\ Back /\ Room
  BY DEF PostInv
<1>4. pass > COUNT /\ pass > ARRAY
  BY <1>1 DEF COUNT, ARRAY, SORT
<1>5. \A p \in {COUNT, ARRAY} : \A c \in Numbered \cup Con : Passed(p, {c})' = Passed(p, {c})
  BY <1>1, <1>4, SameNodes DEF Passed
<1>6. \A g \in Numbered : Counted(g)' = Counted(g) /\ Indexed(g)' = Indexed(g)
  BY <1>1, <1>5 DEF Counted, Indexed, DataOf, First
<1>7. Numbers' /\ Back'
  BY <1>1, <1>3, <1>6 DEF Numbers, Back
<1>8. ASSUME NEW c \in Con PROVE Len(array'[c]) = Len(array[c]) /\ ToSet(array'[c]) = ToSet(array[c])
  <2>1. DOMAIN array = Con /\ array[c] \in Seq({policy.nodes[n].d : n \in Node})
    BY <1>3 DEF PostTypes
  <2>2. CASE c = k
    <3>1. array'[c] = [i \in DOMAIN s |-> array[c][s[i]]]
      BY <1>2, <2>1, <2>2
    <3> QED
      BY <1>2, <2>1, <2>2, <3>1, Rearranged
  <2>3. CASE c # k
    BY <1>2, <2>1, <2>3
  <2> QED
    BY <2>2, <2>3
<1>9. \A c \in Con : DataOf(Passed(ARRAY, {c}))' = DataOf(Passed(ARRAY, {c}))
  BY <1>1, <1>5 DEF DataOf
<1>10. Room'
  BY <1>1, <1>3, <1>5, <1>8, <1>9 DEF Room
<1> QED
  BY <1>7, <1>10
-----------------------------------------------------------------------------
(* The theorem *)

(* Nothing is counted at first                                              *)
LEMMA InitHolds == Init => PostInv
<1> SUFFICES ASSUME Init PROVE PostInv
  OBVIOUS
<1>1. /\ policy \in Policies /\ status = "walk" /\ pass = 1 /\ cur = 1
      /\ num = [f \in Numbered |-> 0] /\ valTo = [f \in Numbered |-> <<>>]
      /\ count = [k \in Con |-> 0] /\ array = [k \in Con |-> <<>>]
      /\ DOMAIN value = DOMAIN policy.flavor
  BY DEF Init, LOOP
<1>2. PostTypes
  BY <1>1 DEF PostTypes, Status, LOOP, SORT
<1>3. Outside
  BY <1>1, <1>2, Extents DEF Outside
<1>4. \A p \in {COUNT, ARRAY} : \A kinds : Passed(p, kinds) = {}
  BY <1>1 DEF Passed, COUNT, ARRAY
<1>5. \A f \in Numbered : Counted(f) = {} /\ Indexed(f) = {}
  BY <1>4 DEF Counted, Indexed, DataOf
<1>6. Numbers /\ Back
  BY <1>1, <1>5 DEF Numbers, Back
<1>7. \A k \in Con : Len(array[k]) = 0 /\ ToSet(array[k]) = {} /\ count[k] = 0
  BY <1>1 DEF ToSet
<1>8. Room
  BY <1>4, <1>7, FS_EmptySet DEF Room, DataOf
<1> QED
  BY <1>2, <1>3, <1>6, <1>8 DEF PostInv

(* PostInv is an invariant                                                  *)
LEMMA PostInvariant == Spec => []PostInv
<1>1. PostInv /\ [Next]_vars => PostInv'
  <2> SUFFICES ASSUME PostInv, [Next]_vars PROVE PostInv'
    OBVIOUS
  <2>1. PostTypes /\ Outside /\ Numbers /\ Back /\ Room
    BY DEF PostInv
  <2>2. PostTypes' /\ Outside'
    BY <2>1, TypesStep, OutsideStep
  <2>3. Numbers' /\ Back' /\ Room'
    <3>1. CASE Stay \/ Pass \/ Skip \/ EndWalk \/ Finish
      BY <2>1, <3>1, QuietStep, QuietNumbers
    <3>2. CASE Counting \/ Indexing \/ Sort
      BY <3>2, CountDatumStep, CountConStep, IndexDatumStep, IndexConStep, SortStep DEF Counting, Indexing
    <3> QED
      BY <2>1, <3>1, <3>2, StepIs
  <2> QED
    BY <2>2, <2>3 DEF PostInv
<1> QED
  BY <1>1, InitHolds, PTL DEF Spec

(* As many data as numbers, if each has one of its own.                    *)
LEMMA NumberOf ==
  ASSUME NEW S, NEW g, NEW n \in Nat, {g[d] : d \in S} = 0..(n - 1),
         \A d, e \in S : g[d] = g[e] => d = e
  PROVE  Cardinality(S) = n
<1> DEFINE h == [i \in 0..(n - 1) |-> CHOOSE d \in S : g[d] = i]
<1>1. \A i \in 0..(n - 1) : h[i] \in S /\ g[h[i]] = i
  OBVIOUS
<1>2. \A d \in S : g[d] \in 0..(n - 1) /\ h[g[d]] = d
  BY <1>1
<1> HIDE DEF h
<1>3. DOMAIN h = 0..(n - 1) /\ h \in [0..(n - 1) -> S]
  BY <1>1 DEF h
<1>4. h \in Bijection(0..(n - 1), S)
  <2>1. IsInjective(h)
    BY <1>1, <1>3 DEF IsInjective
  <2>2. \A d \in S : \E i \in 0..(n - 1) : h[i] = d
    BY <1>2
  <2> QED
    BY <1>3, <2>1, <2>2 DEF Bijection, Injection, Surjection
<1>5. IsFiniteSet(0..(n - 1)) /\ Cardinality(0..(n - 1)) = n
  BY FS_Interval
<1> QED
  BY <1>4, <1>5, FS_Bijection DEF ExistsBijection

(* cil_post_db_count_helper and cil_post_db_array_helper: for every policy, *)
(* types and roles are numbered without gaps, val_to_type and val_to_role  *)
(* are the inverse, and the arrays of labelling statements are as long as  *)
(* was counted and hold every statement.                                   *)
THEOREM ValuesTheorem == Spec => []ValuesExact
<1>1. PostInv => ValuesExact
  <2> SUFFICES ASSUME PostInv, pass > ARRAY, status # "undefined"
               PROVE  /\ \A f \in Numbered : /\ {value[d] : d \in LiveData(f)} = 0..(num[f] - 1)
                                             /\ Cardinality(LiveData(f)) = num[f]
                                             /\ \A d \in LiveData(f) : valTo[f][value[d]] = d
                      /\ \A k \in Con : /\ Len(array[k]) = count[k]
                                        /\ ToSet(array[k]) = {policy.nodes[n].d : n \in LiveNodes({k})}
    BY DEF ValuesExact
  <2>1. PostTypes /\ Numbers /\ Back /\ Room /\ pass > COUNT
    BY DEF PostInv, PostTypes, LOOP, SORT, COUNT, ARRAY
  <2>2. \A k : Passed(COUNT, {k}) = LiveNodes({k}) /\ Passed(ARRAY, {k}) = LiveNodes({k})
    BY <2>1 DEF Passed
  <2>3. \A f \in Numbered : Counted(f) = LiveData(f) /\ Indexed(f) = LiveData(f)
    BY <2>1, <2>2, AllCounted DEF Indexed, DataOf, LiveData
  <2>4. \A f \in Numbered : Cardinality(LiveData(f)) = num[f]
    <3> SUFFICES ASSUME NEW f \in Numbered PROVE Cardinality(LiveData(f)) = num[f]
      OBVIOUS
    <3>1. /\ {value[d] : d \in LiveData(f)} = 0..(num[f] - 1)
          /\ \A d, e \in LiveData(f) : value[d] = value[e] => d = e
          /\ num[f] \in Nat
      BY <2>1, <2>3 DEF Numbers, PostTypes
    <3> QED
      BY <3>1, NumberOf
  <2>5. ASSUME NEW k \in Con
        PROVE  Len(array[k]) = count[k] /\ ToSet(array[k]) = {policy.nodes[n].d : n \in LiveNodes({k})}
    BY <2>1, <2>2 DEF Room, DataOf
  <2>6. ASSUME NEW f \in Numbered
        PROVE  /\ {value[d] : d \in LiveData(f)} = 0..(num[f] - 1)
               /\ \A d \in LiveData(f) : valTo[f][value[d]] = d
    BY <2>1, <2>3 DEF Numbers, Back
  <2> QED
    BY <2>4, <2>5, <2>6
<1> QED
  BY <1>1, PostInvariant, PTL
=============================================================================
