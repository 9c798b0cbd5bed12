--------------------------- MODULE CilBinaryProofs ---------------------------
(***************************************************************************)
(* Theorems about the writer of the policydb, for every policy: what the   *)
(* three walks write about roles, users, levels and bounds is, in names,   *)
(* what the statements of the tree say.                                    *)
(***************************************************************************)
EXTENDS CilBinary, TLAPS

Data == {policy.nodes[n].d : n \in {m \in DOMAIN policy.nodes : policy.nodes[m].op \in Declares}}
        \cup {"object_r"}
Tables == {"types", "roles", "users", "bools", "classes", "cats", "levels"}
Filled == {"types", "roles", "users", "bools"}  \* the tables that the first walk fills

BinaryTypes ==
  /\ policy \in Policies
  /\ pass \in 1..4 /\ cur \in Nat \ {0}
  /\ status = "ok" => pass = 4
  /\ DOMAIN sym = Tables /\ \A tab \in Filled : sym[tab] \in Seq(Data)
  /\ \A a \in alias : a.tab \in {"types", "cats", "levels"} /\ a.name \in AliasNames(policy)
  /\ DOMAIN rbac = {"types", "roles", "bounds", "permissive", "allow", "polcap"}
  /\ DOMAIN levels = {"defined", "user"}

(* The walk is inside nothing that it does not enter *)
Outer(n) == Skipped(n) \/ n.op = "booleanif"
Outside ==
  status = "walk" /\ pass <= 3 =>
    \A s \in DOMAIN policy.nodes :
      s < cur /\ Outer(policy.nodes[s]) => policy.nodes[s].last < cur

(* The nodes of some kinds that walk p has dealt with: the first one of    *)
(* each datum                                                              *)
First(m) == policy.nodes[m].op \in Declares => policy.head[policy.nodes[m].d] = m
Firsts(ops) == {m \in Live : policy.nodes[m].op \in ops /\ First(m)}
Passed(p, ops) == {m \in Firsts(ops) : pass > p \/ (pass = p /\ m < cur)}
Done(p, ops) == {policy.nodes[m] : m \in Passed(p, ops)}

(* object_r has the number 1, and no other role has                        *)
ObjectFirst ==
  /\ 1 \in DOMAIN sym["roles"]
  /\ \A i \in DOMAIN sym["roles"] : sym["roles"][i] = "object_r" <=> i = 1

(* What the first walk has passed has a number *)
HasNumber ==
  /\ \A m \in Passed(1, {"role"}) : policy.nodes[m].d \in ToSet(sym["roles"])
  /\ \A m \in Passed(1, {"user"}) : policy.nodes[m].d \in ToSet(sym["users"])

(* What was written, in names, and what the statements passed say          *)
TypePairs == {<<sym["roles"][x[1]], sym["types"][x[2]]>> : x \in rbac["types"]}
TypesOf(n) == {<<n.d, policy.valTo["type"][i + 1]>> : i \in policy.types[n.d]}

RolePairs == {<<sym["users"][x[1]], sym["roles"][x[2]]>> : x \in rbac["roles"]}
RolesOf(n) == {<<n.user, r>> : r \in Members("role", n.role) \ {"object_r"}}

AllowPairs == {<<sym["roles"][x[1]], sym["roles"][x[2]]>> : x \in rbac["allow"]}
AllowsOf(n) == Members("role", n.src) \X Members("role", n.tgt)

BoundPairs == {<<sym[x.tab][x.child], sym[x.tab][x.parent]>> : x \in rbac["bounds"]}
BoundsIn(ns) == {<<n.d, n.bounds>> : n \in {m \in ns : m.bounds # NULL}}

UserLevels == {[user |-> sym["users"][x.user], level |-> LevelNames(x.level),
                range |-> RangeNames(x.range)] : x \in levels["user"]}
UserOf(n) == [user |-> n.d, level |-> CilLevel(n.level), range |-> CilRange(n.range)]

DefinedLevels == {LevelNames(l) : l \in levels["defined"]}
SensOf(n) == CilLevel([sens |-> n.d, cats |-> policy.sensCats[n.d]])

BoundOps == {"type", "role", "user"}
TypesSoFar  == TypePairs = UNION {TypesOf(n) : n \in Done(2, {"role"})}
RolesSoFar  == RolesNumbered => RolePairs = UNION {RolesOf(n) : n \in Done(2, {"userrole"})}
AllowSoFar  == RolesNumbered => AllowPairs = UNION {AllowsOf(n) : n \in Done(3, {"roleallow"})}
BoundsSoFar == BoundPairs = BoundsIn(Done(2, BoundOps))
UsersSoFar  == policy.mls => UserLevels = {UserOf(n) : n \in Done(2, {"user"})}
LevelsSoFar == policy.mls => DefinedLevels = {SensOf(n) : n \in Done(1, {"sens"})}

Written1 == TypesSoFar /\ RolesSoFar /\ AllowSoFar
Written2 == BoundsSoFar /\ UsersSoFar /\ LevelsSoFar
PeopleInv == BinaryTypes /\ Outside /\ ObjectFirst /\ HasNumber /\ Written1 /\ Written2
-----------------------------------------------------------------------------
(* The walks *)

PeopleSame ==
  /\ UNCHANGED <<policy, sym, levels>>
  /\ DOMAIN rbac' = DOMAIN rbac
  /\ \A f \in {"types", "roles", "bounds", "allow"} : rbac'[f] = rbac[f]
NewAliases ==
  \A a \in alias' : \/ a \in alias
                    \/ a.tab \in {"types", "cats", "levels"} /\ a.name \in AliasNames(policy)

(* What a walk has to write of people *)
Owed(p) == CASE p = 1 -> {"role", "user"} \cup (IF policy.mls THEN {"sens"} ELSE {})
             [] p = 2 -> {"type", "role", "user", "userrole"}
             [] p = 3 -> {"roleallow"}

Stay ==
  /\ PeopleSame /\ UNCHANGED <<pass, alias>>
  /\ cur' = cur \/ (pass = 4 /\ cur' \in Nat \ {0})
  /\ status' = "ok" => pass = 4
  /\ status' = "walk" => status = "walk"
InWalk ==
  /\ status = "walk" /\ pass <= 3 /\ cur <= Len(policy.nodes) /\ status' = "walk"
  /\ UNCHANGED <<policy, pass>>
Visited == InWalk /\ cur' = cur + 1 /\ ~ Outer(Node)
GoOn ==
  /\ Visited /\ PeopleSame /\ NewAliases
  /\ First(cur) => Node.op \notin Owed(pass)
SkipOver ==
  /\ InWalk /\ PeopleSame /\ alias' = alias
  /\ Outer(Node) /\ cur' = Node.last + 1
NextWalk ==
  /\ status = "walk" /\ pass <= 3 /\ cur > Len(policy.nodes) /\ status' = "walk"
  /\ pass' = pass + 1 /\ cur' = 1 /\ PeopleSame /\ alias' = alias

(* The steps that write of people *)
Writes == DeclareDatum \/ DefineLevel \/ WriteType \/ WriteRole \/ WriteUser \/ WriteUserrole
          \/ WriteRoleallow

LEMMA PolicyHere == policy \in Policies => IsPolicy(policy)
BY PoliciesAssumption

(* A failure changes nothing that was written.                             *)
LEMMA FailStays ==
  ASSUME BinaryTypes, NEW reason, Fail(reason)
  PROVE  Stay
BY DEF Fail, Stay, PeopleSame, names, people, BinaryTypes

LEMMA FailUninitialisedStays ==
  ASSUME BinaryTypes, FailUninitialised
  PROVE  Stay
BY DEF FailUninitialised, Stay, PeopleSame, names, people, BinaryTypes

LEMMA SameIs ==
  ASSUME UNCHANGED <<policy, names, people>>
  PROVE  PeopleSame /\ alias' = alias
BY DEF names, people, PeopleSame

(* Passing by                                                              *)
LEMMA PassByIs == ASSUME BinaryTypes, PassBy PROVE GoOn \/ SkipOver
<1>1. InWalk /\ UNCHANGED <<names, people>> /\ PeopleSame /\ alias' = alias
  BY SameIs DEF PassBy, Walking, InWalk
<1>2. CASE Outer(Node)
  <2>1. cur' = Node.last + 1
    BY <1>2 DEF PassBy, Outer
  <2> QED
    BY <1>1, <1>2, <2>1 DEF SkipOver
<1>3. CASE ~ Outer(Node)
  <2>1. cur' = cur + 1
    BY <1>3 DEF PassBy, Outer
  <2>2. First(cur) => Node.op \notin Owed(pass)
    <3> SUFFICES ASSUME First(cur), Node.op \in Owed(pass) PROVE FALSE
      OBVIOUS
    <3>1. pass \in {1, 2, 3}
      BY <1>1 DEF InWalk, BinaryTypes
    <3>2. Node.op \in Written(pass) /\ Node.op # "avrule" /\ (Node.op \in MlsOnly => policy.mls)
      BY <3>1 DEF Owed, Written, MlsOnly
    <3>3. IsFirst(Node)
      BY DEF First, IsFirst, Node
    <3> QED
      BY <1>3, <3>2, <3>3 DEF PassBy, IsWritten, Outer
  <2>3. NewAliases
    BY <1>1 DEF NewAliases
  <2> QED
    BY <1>1, <1>3, <2>1, <2>2, <2>3 DEF GoOn, Visited
<1> QED
  BY <1>2, <1>3

(* Where a node is written, the walk is at it.                             *)
LEMMA AtIs ==
  ASSUME NEW p \in 1..3, NEW ops, At(p, ops), Advance
  PROVE  /\ InWalk /\ cur' = cur + 1 /\ pass = p /\ Node.op \in ops /\ ~ Skipped(Node)
         /\ First(cur) /\ (Node.op \in MlsOnly => policy.mls)
<1>1. IsFirst(Node) /\ ~ Skipped(Node) /\ pass = p /\ Node.op \in ops
  BY DEF At, IsWritten
<1>2. First(cur)
  BY <1>1 DEF IsFirst, First, Node
<1> QED
  BY <1>1, <1>2 DEF At, IsWritten, Walking, Advance, InWalk

(* A step that writes nothing of people *)
LEMMA WroteElse ==
  ASSUME BinaryTypes, NEW p \in 1..3, NEW ops, At(p, ops), Advance,
         ops \cap {"type", "role", "user", "userrole", "roleallow", "sens", "booleanif"} = {},
         PeopleSame, NewAliases
  PROVE  GoOn
<1>1. InWalk /\ cur' = cur + 1 /\ pass = p /\ Node.op \in ops /\ ~ Skipped(Node)
  BY AtIs
<1>2. ~ Outer(Node)
  BY <1>1 DEF Outer
<1>3. Node.op \notin Owed(pass)
  BY <1>1 DEF Owed
<1> QED
  BY <1>1, <1>2, <1>3 DEF GoOn, Visited

(* A rule goes to the tables of rules, and the walk or the booleanif goes on. *)
LEMMA RuleIs ==
  ASSUME BinaryTypes, NEW n, NEW c, TypeRule(n, c) \/ AvRule(n, c), status = "walk"
  PROVE  \/ Stay
         \/ PeopleSame /\ alias' = alias /\ Proceed
<1>1. CASE TypeRule(n, c)
  <2>1. \/ Fail("missing") \/ Fail("conflict")
        \/ Proceed /\ UNCHANGED <<names, people>>
    BY <1>1, Zenon DEF TypeRule
  <2>2. Proceed => UNCHANGED policy
    BY DEF Proceed, Advance
  <2> QED
    BY <2>1, <2>2, FailStays, SameIs
<1>2. CASE AvRule(n, c)
  <2>1. \/ Fail("missing") \/ Fail("neverallow")
        \/ Proceed /\ UNCHANGED <<names, people>>
    BY <1>2, Zenon DEF AvRule
  <2>2. Proceed => UNCHANGED policy
    BY DEF Proceed, Advance
  <2> QED
    BY <2>1, <2>2, FailStays, SameIs
<1> QED
  BY <1>1, <1>2

LEMMA CondIs == ASSUME BinaryTypes, CondRule PROVE Stay
<1>1. status = "walk" /\ todo # <<>>
  BY DEF CondRule
<1>2. \/ \E n, c : TypeRule(n, c) \/ AvRule(n, c)
      \/ Proceed /\ UNCHANGED <<names, people>>
      \/ Fail("invalid")
  BY Zenon DEF CondRule
<1>3. Proceed => /\ UNCHANGED <<policy, status, pass, cur>>
  BY <1>1 DEF Proceed
<1>4. \/ Stay
      \/ PeopleSame /\ alias' = alias /\ Proceed
  BY <1>1, <1>2, <1>3, RuleIs, SameIs, FailStays
<1> QED
  BY <1>1, <1>3, <1>4 DEF Stay

LEMMA RuleGoesOn ==
  ASSUME BinaryTypes, WriteTypeRule \/ WriteAvrule
  PROVE  Stay \/ GoOn
<1>1. PICK p \in 1..3, ops \in {{"typerule", "nametypetransition"}, {"avrule"}} :
        At(p, ops) /\ (TypeRule(Node, NULL) \/ AvRule(Node, NULL))
  BY DEF WriteTypeRule, WriteAvrule
<1>2. status = "walk" /\ todo = <<>>
  BY <1>1 DEF At, Walking
<1>3. Stay \/ (PeopleSame /\ alias' = alias /\ Advance)
  BY <1>1, <1>2, RuleIs DEF Proceed
<1>4. ASSUME alias' = alias PROVE NewAliases
  BY <1>4 DEF NewAliases
<1> QED
  BY <1>1, <1>3, <1>4, WroteElse

(* The other statements *)
LEMMA ElseIs ==
  ASSUME BinaryTypes,
         WriteTransition \/ WriteNeverallow \/ WriteConstrain \/ WriteDefault
           \/ SetPolicycap \/ WritePermissive \/ WriteAttribute
  PROVE  Stay \/ GoOn
<1>1. PICK p \in 1..3,
           ops \in {{"nametypetransition", "roletransition", "rangetransition"}, {"avrule"},
                    {"constrain", "mlsconstrain", "validatetrans", "mlsvalidatetrans"},
                    {"default"}, {"policycap"}, {"typepermissive"}, {"typeattribute"}} :
        /\ At(p, ops)
        /\ \/ Fail("missing") \/ Fail("conflict")
           \/ Advance /\ sym' = sym /\ alias' = alias /\ levels' = levels /\ rbac' = rbac
           \/ /\ Advance /\ sym' = sym /\ alias' = alias /\ levels' = levels
              /\ \E v : \E f \in {"permissive", "polcap"} : rbac' = [rbac EXCEPT ![f] = v]
  <2>1. CASE WriteTransition
    <3>1. \/ Fail("missing") \/ Fail("conflict")
          \/ Advance /\ UNCHANGED <<names, people>>
      BY <2>1, Zenon DEF WriteTransition
    <3> QED
      BY <2>1, <3>1 DEF WriteTransition, names, people
  <2>2. CASE WriteNeverallow
    BY <2>2 DEF WriteNeverallow, names, people
  <2>3. CASE WriteConstrain
    <3>1. Fail("missing") \/ (Advance /\ UNCHANGED <<names, people>>)
      BY <2>3, Zenon DEF WriteConstrain
    <3> QED
      BY <2>3, <3>1 DEF WriteConstrain, names, people
  <2>4. CASE WriteDefault
    <3>1. \/ Fail("missing") \/ Fail("conflict")
          \/ Advance /\ UNCHANGED <<names, people>>
      BY <2>4, Zenon DEF WriteDefault
    <3> QED
      BY <2>4, <3>1 DEF WriteDefault, names, people
  <2>5. CASE SetPolicycap
    BY <2>5 DEF SetPolicycap, names
  <2>6. CASE WritePermissive
    BY <2>6 DEF WritePermissive, names
  <2>7. CASE WriteAttribute
    <3>1. Fail("missing") \/ (Advance /\ UNCHANGED <<sym, alias, people>>)
      BY <2>7, Zenon DEF WriteAttribute
    <3> QED
      BY <2>7, <3>1 DEF WriteAttribute, people
  <2> QED
    BY <2>1, <2>2, <2>3, <2>4, <2>5, <2>6, <2>7
<1>2. Advance /\ sym' = sym /\ levels' = levels /\ rbac' = rbac => PeopleSame
  BY DEF Advance, PeopleSame
<1>3. ASSUME NEW f \in {"permissive", "polcap"}, NEW v, rbac' = [rbac EXCEPT ![f] = v],
             Advance, sym' = sym, levels' = levels
      PROVE  PeopleSame
  BY <1>3 DEF Advance, PeopleSame
<1>4. ASSUME alias' = alias PROVE NewAliases
  BY <1>4 DEF NewAliases
<1> QED
  BY <1>1, <1>2, <1>3, <1>4, WroteElse, FailStays

LEMMA AliasIs == ASSUME BinaryTypes, DeclareAlias PROVE Stay \/ GoOn
<1>1. PICK p \in 1..3, ops \in {{"catalias"}, {"typealias", "sensalias"}} : At(p, ops)
  BY DEF DeclareAlias
<1>2. CASE Fail("missing")
  BY <1>2, FailStays
<1>3. CASE ~ Fail("missing")
  <2>1. /\ alias' = alias \cup {[tab |-> Table(Node.op), name |-> Node.d,
                                 value |-> Value(Table(Node.op), Node.actual)]}
        /\ Advance /\ UNCHANGED <<sym, people>>
    BY <1>3, Zenon DEF DeclareAlias
  <2>2. InWalk /\ Node.op \in ops
    BY <1>1, <2>1, AtIs
  <2>3. Table(Node.op) \in {"types", "cats", "levels"}
    BY <2>2, <1>1 DEF Table
  <2>4. Node.d \in AliasNames(policy)
    <3>1. cur \in 1..Len(policy.nodes)
      BY <2>2, PolicyHere DEF InWalk, BinaryTypes, IsPolicy
    <3> QED
      BY <2>2, <1>1, <3>1 DEF AliasNames, Node
  <2>5. NewAliases
    BY <2>1, <2>3, <2>4 DEF NewAliases
  <2>6. PeopleSame
    BY <2>1 DEF Advance, PeopleSame, people
  <2> QED
    BY <1>1, <2>1, <2>5, <2>6, WroteElse
<1> QED
  BY <1>2, <1>3

LEMMA EnterIs == ASSUME BinaryTypes, EnterBooleanif PROVE Stay \/ SkipOver
<1>1. CASE Fail("missing")
  BY <1>1, FailStays
<1>2. CASE ~ Fail("missing")
  <2>1. /\ cur' = Node.last + 1 /\ UNCHANGED <<policy, status, pass, names, people>>
    BY <1>2, Zenon DEF EnterBooleanif
  <2>2. InWalk /\ Outer(Node)
    BY <2>1 DEF EnterBooleanif, At, Walking, InWalk, Outer
  <2> QED
    BY <2>1, <2>2, SameIs DEF SkipOver
<1> QED
  BY <1>1, <1>2

LEMMA AfterIs == ASSUME BinaryTypes, WriteContexts \/ Finish \/ Stopped \/ UNCHANGED vars PROVE Stay
<1>1. CASE WriteContexts
  <2>1. Fail("missing") \/ (Advance /\ UNCHANGED <<names, people>>)
    BY <1>1, Zenon DEF WriteContexts
  <2>2. pass = 4 /\ status = "walk"
    BY <1>1 DEF WriteContexts
  <2> QED
    BY <2>1, <2>2, FailStays, SameIs DEF Advance, Stay, BinaryTypes
<1>2. CASE Finish
  BY <1>2 DEF Finish, Stay, PeopleSame, people
<1>3. CASE Stopped \/ UNCHANGED vars
  <2>1. UNCHANGED vars
    BY <1>3 DEF Stopped
  <2>2. UNCHANGED <<policy, status, pass, cur, names, people>>
    BY <2>1 DEF vars, walk
  <2> QED
    BY <2>2, SameIs DEF Stay, BinaryTypes
<1> QED
  BY <1>1, <1>2, <1>3

(* Every step is one of these, as far as people are concerned              *)
LEMMA StepIs ==
  ASSUME BinaryTypes, [Next]_vars
  PROVE  Stay \/ GoOn \/ SkipOver \/ NextWalk \/ Writes
<1>1. EndPass => NextWalk
  BY SameIs DEF EndPass, NextWalk
<1> QED
  BY <1>1, PassByIs, CondIs, RuleGoesOn, ElseIs, AliasIs, EnterIs, AfterIs DEF Next, Writes

(* Extents nest.                                                           *)
LEMMA Extents ==
  ASSUME BinaryTypes
  PROVE  /\ Len(policy.nodes) \in Nat /\ DOMAIN policy.nodes = 1..Len(policy.nodes)
         /\ \A n \in DOMAIN policy.nodes :
              /\ policy.nodes[n].last \in n..Len(policy.nodes)
              /\ \A m \in n..policy.nodes[n].last :
                   /\ policy.nodes[m].last <= policy.nodes[n].last
                   /\ policy.nodes[n].op = "booleanif" => policy.nodes[m].op \notin PeopleOps
BY PolicyHere DEF BinaryTypes, IsPolicy, Nested

(* What only depends on the policy does not change                          *)
LEMMA SameNodes ==
  ASSUME policy' = policy
  PROVE  /\ Live' = Live /\ \A ops : Firsts(ops)' = Firsts(ops)
         /\ \A m : First(m)' <=> First(m)
         /\ RolesNumbered' <=> RolesNumbered
<1>1. Live' = Live
  BY DEF Live
<1>2. \A m : First(m)' <=> First(m)
  BY Zenon DEF First
<1>3. \A ops : Firsts(ops)' = Firsts(ops)
  BY <1>1, <1>2 DEF Firsts
<1>4. \A ops : LiveOf(ops)' = LiveOf(ops)
  BY <1>1 DEF LiveOf
<1>5. RolesNumbered' <=> RolesNumbered
  BY <1>4, Zenon DEF RolesNumbered, LeadsBack
<1> QED
  BY <1>1, <1>2, <1>3, <1>5

(* The walk never stands inside something it does not enter                 *)
LEMMA OutsideStep ==
  ASSUME BinaryTypes, Outside, Stay \/ Visited \/ SkipOver \/ NextWalk
  PROVE  Outside'
<1>1. CASE Stay
  <2> SUFFICES ASSUME status' = "walk", pass' <= 3 PROVE Outside'
    BY DEF Outside
  <2>1. UNCHANGED <<policy, cur, pass>> /\ status = "walk" /\ pass <= 3
    BY <1>1 DEF Stay, PeopleSame
  <2> QED
    BY <2>1 DEF Outside
<1>2. CASE Visited
  <2> SUFFICES ASSUME NEW s \in DOMAIN policy.nodes, s < cur', Outer(policy.nodes[s])
               PROVE  policy.nodes[s].last < cur'
    BY <1>2 DEF Outside, Visited, InWalk
  <2>1. cur' = cur + 1 /\ status = "walk" /\ pass <= 3 /\ ~ Outer(policy.nodes[cur])
    BY <1>2 DEF Visited, InWalk, Node
  <2>2. s \in Nat /\ cur \in Nat /\ policy.nodes[s].last \in Nat
    BY Extents DEF BinaryTypes
  <2>3. s # cur
    BY <2>1
  <2>4. s < cur
    BY <2>1, <2>2, <2>3
  <2>5. policy.nodes[s].last < cur
    BY <2>1, <2>4 DEF Outside
  <2> QED
    BY <2>1, <2>2, <2>5
<1>3. CASE SkipOver
  <2> SUFFICES ASSUME NEW s \in DOMAIN policy.nodes, s < cur', Outer(policy.nodes[s])
               PROVE  policy.nodes[s].last < cur'
    BY <1>3 DEF Outside, SkipOver, InWalk
  <2>1. /\ cur' = policy.nodes[cur].last + 1 /\ status = "walk" /\ pass <= 3
        /\ cur \in DOMAIN policy.nodes
    BY <1>3, Extents DEF SkipOver, InWalk, Node, BinaryTypes
  <2>2. s \in Nat /\ cur \in Nat /\ policy.nodes[s].last \in Nat /\ policy.nodes[cur].last \in Nat
        /\ cur <= policy.nodes[cur].last
    BY <2>1, Extents
  <2>3. CASE s < cur
    <3>1. policy.nodes[s].last < cur
      BY <2>1, <2>3 DEF Outside
    <3> QED
      BY <2>1, <2>2, <3>1
  <2>4. CASE ~ (s < cur)
    <3>1. s \in cur..policy.nodes[cur].last
      BY <2>1, <2>2, <2>4
    <3>2. policy.nodes[s].last <= policy.nodes[cur].last
      BY <2>1, <3>1, Extents
    <3> QED
      BY <2>1, <2>2, <3>2
  <2> QED
    BY <2>3, <2>4
<1>4. CASE NextWalk
  <2>1. cur' = 1 /\ policy' = policy
    BY <1>4 DEF NextWalk, PeopleSame
  <2> QED
    BY <2>1, Extents DEF Outside
<1> QED
  BY <1>1, <1>2, <1>3, <1>4
-----------------------------------------------------------------------------
(* What the walks have dealt with *)

(* A node that the walk enters is live.                                    *)
LEMMA HereLive ==
  ASSUME BinaryTypes, Outside, Visited
  PROVE  cur \in Live /\ cur \in DOMAIN policy.nodes
<1>1. cur \in DOMAIN policy.nodes /\ cur \in Nat
  BY Extents DEF Visited, InWalk, BinaryTypes
<1>2. ASSUME NEW s \in 1..cur, Skipped(policy.nodes[s]), cur <= policy.nodes[s].last
      PROVE  FALSE
  <2>1. s # cur
    BY <1>2 DEF Visited, Outer, Node
  <2>2. s \in DOMAIN policy.nodes /\ s < cur
    BY <1>1, <2>1, Extents
  <2>3. policy.nodes[s].last < cur
    BY <1>2, <2>2 DEF Outside, Visited, InWalk, Outer
  <2> QED
    BY <1>1, <1>2, <2>2, <2>3, Extents
<1> QED
  BY <1>1, <1>2 DEF Live, InTemplate

LEMMA PassedAre ==
  ASSUME BinaryTypes, NEW p, NEW ops
  PROVE  /\ Firsts(ops) \subseteq DOMAIN policy.nodes /\ Passed(p, ops) \subseteq Firsts(ops)
         /\ \A m \in Firsts(ops) : m \in Nat \ {0} /\ m <= Len(policy.nodes)
BY Extents DEF Firsts, Passed, Live

(* A walk that goes on has dealt with one node more.                       *)
LEMMA PassedMore ==
  ASSUME BinaryTypes, Outside, Visited, NEW p \in 1..3, NEW ops
  PROVE  /\ pass = p /\ Node.op \in ops /\ First(cur) =>
              Passed(p, ops)' = Passed(p, ops) \cup {cur}
         /\ ~ (pass = p /\ Node.op \in ops /\ First(cur)) => Passed(p, ops)' = Passed(p, ops)
<1>1. /\ cur' = cur + 1 /\ pass' = pass /\ policy' = policy /\ cur \in Nat /\ pass \in Nat
  BY DEF Visited, InWalk, BinaryTypes
<1>2. Firsts(ops)' = Firsts(ops) /\ cur \in Live
  BY <1>1, SameNodes, HereLive
<1>3. Passed(p, ops)' = {m \in Firsts(ops) : pass > p \/ (pass = p /\ m < cur + 1)}
  BY <1>1, <1>2 DEF Passed
<1>4. ASSUME NEW m \in Firsts(ops) PROVE m \in Nat /\ (m < cur + 1 <=> m < cur \/ m = cur)
  <2>1. m \in Nat
    BY PassedAre
  <2> QED
    BY <1>1, <2>1
<1>5. cur \in Firsts(ops) <=> Node.op \in ops /\ First(cur)
  BY <1>2 DEF Firsts, Node
<1>6. CASE pass = p
  <2>1. /\ Passed(p, ops)' = {m \in Firsts(ops) : m < cur \/ m = cur}
        /\ Passed(p, ops) = {m \in Firsts(ops) : m < cur}
    BY <1>1, <1>3, <1>4, <1>6 DEF Passed
  <2> QED
    BY <1>5, <1>6, <2>1
<1>7. CASE pass # p
  <2>1. Passed(p, ops)' = Passed(p, ops)
    BY <1>3, <1>7 DEF Passed
  <2> QED
    BY <1>7, <2>1
<1> QED
  BY <1>6, <1>7

(* The other steps deal with nothing.                                      *)
LEMMA PassedSame ==
  ASSUME BinaryTypes, Stay \/ SkipOver \/ NextWalk, NEW p \in 1..3, NEW ops \in SUBSET PeopleOps
  PROVE  Passed(p, ops)' = Passed(p, ops)
<1>1. policy' = policy /\ Firsts(ops)' = Firsts(ops)
  BY SameNodes DEF Stay, SkipOver, NextWalk, PeopleSame
<1>2. cur \in Nat /\ pass \in Nat /\ Len(policy.nodes) \in Nat
  BY Extents DEF BinaryTypes
<1>3. CASE Stay
  <2>1. pass' = pass /\ (cur' = cur \/ pass > p)
    BY <1>3, <1>2 DEF Stay
  <2> QED
    BY <1>1, <1>2, <2>1 DEF Passed
<1>4. CASE SkipOver
  <2>1. /\ pass' = pass /\ cur' = policy.nodes[cur].last + 1 /\ cur \in DOMAIN policy.nodes
        /\ Outer(policy.nodes[cur])
    BY <1>4, Extents DEF SkipOver, InWalk, Node, BinaryTypes
  <2>2. policy.nodes[cur].last \in Nat /\ cur <= policy.nodes[cur].last
    BY <2>1, <1>2, Extents
  <2>3. ASSUME NEW m \in Firsts(ops) PROVE m \in Nat /\ (m < cur' <=> m < cur)
    <3>1. m \in Nat \ {0} /\ m <= Len(policy.nodes)
      BY PassedAre
    <3>2. ~ (m \in cur..policy.nodes[cur].last)
      <4> SUFFICES ASSUME m \in cur..policy.nodes[cur].last PROVE FALSE
        OBVIOUS
      <4>1. policy.nodes[m].op \in PeopleOps /\ m \in Live
        BY DEF Firsts
      <4>2. policy.nodes[cur].op # "booleanif"
        BY <2>1, <4>1, Extents
      <4>3. Skipped(policy.nodes[cur])
        BY <2>1, <4>2 DEF Outer
      <4>4. cur \in 1..m /\ m <= policy.nodes[cur].last
        BY <2>1, <2>2, <3>1, Extents
      <4> QED
        BY <4>1, <4>3, <4>4 DEF Live, InTemplate
    <3> QED
      BY <1>2, <2>1, <2>2, <3>1, <3>2
  <2> QED
    BY <1>1, <2>1, <2>3 DEF Passed
<1>5. CASE NextWalk
  <2>1. pass' = pass + 1 /\ cur' = 1 /\ cur > Len(policy.nodes)
    BY <1>5 DEF NextWalk
  <2>2. ASSUME NEW m \in Firsts(ops)
        PROVE  pass' > p \/ (pass' = p /\ m < cur') <=> pass > p \/ (pass = p /\ m < cur)
    <3>1. m \in Nat \ {0} /\ m <= Len(policy.nodes)
      BY PassedAre
    <3> QED
      BY <1>2, <2>1, <3>1
  <2> QED
    BY <1>1, <2>2 DEF Passed
<1> QED
  BY <1>3, <1>4, <1>5

(* What a step deals with that is not at a node to write                   *)
LEMMA DoneKept ==
  ASSUME BinaryTypes, Outside, Visited \/ Stay \/ SkipOver \/ NextWalk,
         NEW p \in 1..3, NEW ops \in SUBSET PeopleOps,
         Visited => ~ (pass = p /\ Node.op \in ops /\ First(cur))
  PROVE  Passed(p, ops)' = Passed(p, ops) /\ Done(p, ops)' = Done(p, ops)
<1>1. Passed(p, ops)' = Passed(p, ops)
  BY PassedMore, PassedSame
<1>2. policy' = policy
  BY DEF Visited, InWalk, Stay, SkipOver, NextWalk, PeopleSame
<1> QED
  BY <1>1, <1>2 DEF Done

LEMMA DoneMore ==
  ASSUME BinaryTypes, Outside, Visited, NEW p \in 1..3, NEW ops,
         pass = p, Node.op \in ops, First(cur)
  PROVE  Done(p, ops)' = Done(p, ops) \cup {Node}
<1>1. Passed(p, ops)' = Passed(p, ops) \cup {cur} /\ policy' = policy
  BY PassedMore DEF Visited, InWalk
<1> QED
  BY <1>1 DEF Done, Node

(* Before a walk starts it has dealt with nothing.                         *)
LEMMA NothingYet ==
  ASSUME BinaryTypes, NEW p \in 1..3, NEW ops, pass < p
  PROVE  Passed(p, ops) = {} /\ Done(p, ops) = {}
<1>1. pass \in Nat
  BY DEF BinaryTypes
<1> QED
  BY <1>1 DEF Passed, Done
-----------------------------------------------------------------------------
(* Numbers and names *)

(* What is found under a name that is no alias has that name.              *)
LEMMA ValueIs ==
  ASSUME BinaryTypes, NEW tab, NEW d, Known(tab, d),
         tab \notin {"types", "cats", "levels"} \/ d \notin AliasNames(policy)
  PROVE  Value(tab, d) \in DOMAIN sym[tab] /\ sym[tab][Value(tab, d)] = d
<1>1. d \in ToSet(sym[tab])
  BY DEF Known, BinaryTypes
<1>2. \E i \in DOMAIN sym[tab] : sym[tab][i] = d
  BY <1>1 DEF ToSet
<1> QED
  BY <1>1, <1>2 DEF Value

LEMMA LevelIs ==
  ASSUME BinaryTypes, NEW l, KnownLevel(l),
         ({l.sens} \cup CatsOf(policy, l.cats)) \cap AliasNames(policy) = {}
  PROVE  LevelNames(MlsLevel(l)) = CilLevel(l)
<1>1. sym["levels"][Value("levels", l.sens)] = l.sens
  BY ValueIs DEF KnownLevel
<1>2. \A c \in Cats(l.cats) : sym["cats"][Value("cats", c)] = c
  BY ValueIs DEF KnownLevel, KnownCats, Cats
<1>3. {sym["cats"][i] : i \in CatBits(l.cats)} = Cats(l.cats)
  BY <1>2 DEF CatBits
<1> QED
  BY <1>1, <1>3 DEF LevelNames, MlsLevel, CilLevel

LEMMA RangeIs ==
  ASSUME BinaryTypes, NEW r, KnownRange(r),
         ({r.low.sens} \cup CatsOf(policy, r.low.cats)) \cap AliasNames(policy) = {},
         ({r.high.sens} \cup CatsOf(policy, r.high.cats)) \cap AliasNames(policy) = {}
  PROVE  RangeNames(MlsRange(r)) = CilRange(r)
<1>1. /\ LevelNames(MlsLevel(r.low)) = CilLevel(r.low)
      /\ LevelNames(MlsLevel(r.high)) = CilLevel(r.high)
  BY LevelIs DEF KnownRange
<1> QED
  BY <1>1 DEF RangeNames, MlsRange, CilRange

(* The number 1 is object_r's and nobody else's.                           *)
LEMMA OneIs ==
  ASSUME BinaryTypes, ObjectFirst, NEW r, Known("roles", r)
  PROVE  Value("roles", r) = 1 <=> r = "object_r"
BY ValueIs DEF ObjectFirst

(* What is bounded is written with its parent.                             *)
LEMMA BoundIs ==
  ASSUME BinaryTypes, NEW tab, NEW n, KnownBounds(tab, n),
         tab = "types" => {n.d, n.bounds} \cap AliasNames(policy) = {},
         tab \notin {"cats", "levels"}
  PROVE  {<<sym[x.tab][x.child], sym[x.tab][x.parent]>> : x \in Bounded(tab, n)} = BoundsIn({n})
<1>1. CASE n.bounds = NULL
  BY <1>1 DEF Bounded, BoundsIn
<1>2. CASE n.bounds # NULL
  <2>1. /\ sym[tab][Value(tab, n.d)] = n.d
        /\ sym[tab][Value(tab, n.bounds)] = n.bounds
    BY <1>2, ValueIs DEF KnownBounds
  <2>2. Bounded(tab, n) = {[tab |-> tab, child |-> Value(tab, n.d), parent |-> Value(tab, n.bounds)]}
    BY <1>2 DEF Bounded
  <2>3. BoundsIn({n}) = {<<n.d, n.bounds>>}
    BY <1>2 DEF BoundsIn
  <2> QED
    BY <2>1, <2>2, <2>3
<1> QED
  BY <1>1, <1>2
-----------------------------------------------------------------------------
(* Steps that write nothing of people *)

(* A part of the books that a step does not touch stays right.             *)
LEMMA KeepParts ==
  ASSUME policy' = policy, sym' = sym
  PROVE  /\ TypesSoFar /\ rbac'["types"] = rbac["types"]
              /\ Done(2, {"role"})' = Done(2, {"role"}) => TypesSoFar'
         /\ RolesSoFar /\ rbac'["roles"] = rbac["roles"]
              /\ Done(2, {"userrole"})' = Done(2, {"userrole"}) => RolesSoFar'
         /\ AllowSoFar /\ rbac'["allow"] = rbac["allow"]
              /\ Done(3, {"roleallow"})' = Done(3, {"roleallow"}) => AllowSoFar'
         /\ BoundsSoFar /\ rbac'["bounds"] = rbac["bounds"]
              /\ Done(2, BoundOps)' = Done(2, BoundOps) => BoundsSoFar'
         /\ UsersSoFar /\ levels'["user"] = levels["user"]
              /\ Done(2, {"user"})' = Done(2, {"user"}) => UsersSoFar'
         /\ LevelsSoFar /\ levels'["defined"] = levels["defined"]
              /\ (policy.mls => Done(1, {"sens"})' = Done(1, {"sens"})) => LevelsSoFar'
<1>1. RolesNumbered' <=> RolesNumbered
  BY SameNodes
<1>2. ASSUME TypesSoFar, rbac'["types"] = rbac["types"], Done(2, {"role"})' = Done(2, {"role"})
      PROVE  TypesSoFar'
  BY <1>2 DEF TypesSoFar, TypePairs, TypesOf
<1>3. ASSUME RolesSoFar, rbac'["roles"] = rbac["roles"], Done(2, {"userrole"})' = Done(2, {"userrole"})
      PROVE  RolesSoFar'
  <2>1. RolePairs' = RolePairs
    BY <1>3 DEF RolePairs
  <2>2. \A n : RolesOf(n)' = RolesOf(n)
    BY DEF RolesOf, Members, Expand, ExpandBits
  <2> QED
    BY <1>1, <1>3, <2>1, <2>2 DEF RolesSoFar
<1>4. ASSUME AllowSoFar, rbac'["allow"] = rbac["allow"], Done(3, {"roleallow"})' = Done(3, {"roleallow"})
      PROVE  AllowSoFar'
  <2>1. AllowPairs' = AllowPairs
    BY <1>4 DEF AllowPairs
  <2>2. \A n : AllowsOf(n)' = AllowsOf(n)
    BY DEF AllowsOf, Members, Expand, ExpandBits
  <2> QED
    BY <1>1, <1>4, <2>1, <2>2 DEF AllowSoFar
<1>5. ASSUME BoundsSoFar, rbac'["bounds"] = rbac["bounds"], Done(2, BoundOps)' = Done(2, BoundOps)
      PROVE  BoundsSoFar'
  BY <1>5 DEF BoundsSoFar, BoundPairs, BoundsIn
<1>6. ASSUME UsersSoFar, levels'["user"] = levels["user"], Done(2, {"user"})' = Done(2, {"user"})
      PROVE  UsersSoFar'
  <2>1. UserLevels' = UserLevels
    BY <1>6 DEF UserLevels, RangeNames, LevelNames
  <2>2. \A n : UserOf(n)' = UserOf(n)
    BY DEF UserOf, CilRange, CilLevel, Cats
  <2> QED
    BY <1>6, <2>1, <2>2 DEF UsersSoFar
<1>7. ASSUME LevelsSoFar, levels'["defined"] = levels["defined"],
             policy.mls => Done(1, {"sens"})' = Done(1, {"sens"})
      PROVE  LevelsSoFar'
  <2>1. DefinedLevels' = DefinedLevels
    BY <1>7 DEF DefinedLevels, LevelNames
  <2>2. \A n : SensOf(n)' = SensOf(n)
    BY DEF SensOf, CilLevel, Cats
  <2> QED
    BY <1>7, <2>1, <2>2 DEF LevelsSoFar
<1> QED
  BY <1>2, <1>3, <1>4, <1>5, <1>6, <1>7

LEMMA KeepNumbers ==
  ASSUME policy' = policy, sym' = sym, ObjectFirst, HasNumber,
         Passed(1, {"role"})' = Passed(1, {"role"}), Passed(1, {"user"})' = Passed(1, {"user"})
  PROVE  ObjectFirst' /\ HasNumber'
<1>1. ObjectFirst'
  BY DEF ObjectFirst
<1>2. HasNumber'
  BY DEF HasNumber
<1> QED
  BY <1>1, <1>2

LEMMA QuietTypes ==
  ASSUME BinaryTypes, Stay \/ GoOn \/ SkipOver \/ NextWalk
  PROVE  BinaryTypes'
<1>1. PeopleSame
  BY DEF Stay, GoOn, SkipOver, NextWalk
<1>2. pass' \in 1..4 /\ cur' \in Nat \ {0} /\ (status' = "ok" => pass' = 4)
  <2>1. CASE Stay
    BY <2>1 DEF Stay, BinaryTypes
  <2>2. CASE GoOn
    BY <2>2 DEF GoOn, Visited, InWalk, BinaryTypes
  <2>3. CASE SkipOver
    <3>1. cur \in DOMAIN policy.nodes /\ status' = "walk" /\ pass' = pass /\ cur' = policy.nodes[cur].last + 1
      BY <2>3, Extents DEF SkipOver, InWalk, Node, BinaryTypes
    <3>2. policy.nodes[cur].last \in cur..Len(policy.nodes) /\ Len(policy.nodes) \in Nat
      BY <3>1, Extents
    <3> QED
      BY <3>1, <3>2 DEF BinaryTypes
  <2>4. CASE NextWalk
    BY <2>4 DEF NextWalk, BinaryTypes
  <2> QED
    BY <2>1, <2>2, <2>3, <2>4
<1>3. \A a \in alias' : a.tab \in {"types", "cats", "levels"} /\ a.name \in AliasNames(policy)
  BY DEF Stay, GoOn, SkipOver, NextWalk, NewAliases, BinaryTypes
<1>4. Data' = Data /\ AliasNames(policy)' = AliasNames(policy)
  BY <1>1 DEF PeopleSame, Data
<1> QED
  BY <1>1, <1>2, <1>3, <1>4 DEF BinaryTypes, PeopleSame

LEMMA QuietStep ==
  ASSUME PeopleInv, Stay \/ GoOn \/ SkipOver \/ NextWalk
  PROVE  PeopleInv'
<1>1. BinaryTypes /\ Outside /\ BinaryTypes' /\ PeopleSame
  BY QuietTypes DEF PeopleInv, Stay, GoOn, SkipOver, NextWalk
<1>2. Outside'
  BY <1>1, OutsideStep DEF GoOn
<1>3. ASSUME NEW p \in 1..3, NEW ops \in SUBSET Owed(p)
      PROVE  Passed(p, ops)' = Passed(p, ops) /\ Done(p, ops)' = Done(p, ops)
  <2>1. ops \in SUBSET PeopleOps
    BY DEF Owed, PeopleOps
  <2>2. GoOn => ~ (pass = p /\ Node.op \in ops /\ First(cur))
    BY DEF GoOn
  <2>3. CASE GoOn
    BY <1>1, <2>1, <2>2, <2>3, DoneKept DEF GoOn
  <2>4. CASE ~ GoOn
    <3>1. Stay \/ SkipOver \/ NextWalk
      BY <2>4
    <3> QED
      BY <1>1, <2>1, <3>1, DoneKept, PassedSame DEF Done, PeopleSame
  <2> QED
    BY <2>3, <2>4
<1>4. /\ Passed(1, {"role"})' = Passed(1, {"role"}) /\ Passed(1, {"user"})' = Passed(1, {"user"})
      /\ Done(2, {"role"})' = Done(2, {"role"}) /\ Done(2, {"userrole"})' = Done(2, {"userrole"})
      /\ Done(3, {"roleallow"})' = Done(3, {"roleallow"}) /\ Done(2, BoundOps)' = Done(2, BoundOps)
      /\ Done(2, {"user"})' = Done(2, {"user"})
      /\ policy.mls => Done(1, {"sens"})' = Done(1, {"sens"})
  BY <1>3 DEF Owed, BoundOps
<1>5. /\ policy' = policy /\ sym' = sym /\ levels' = levels
      /\ \A f \in {"types", "roles", "bounds", "allow"} : rbac'[f] = rbac[f]
  BY <1>1 DEF PeopleSame
<1>6. ObjectFirst' /\ HasNumber'
  BY <1>4, <1>5, KeepNumbers DEF PeopleInv
<1>7. Written1' /\ Written2'
  BY <1>4, <1>5, KeepParts DEF PeopleInv, Written1, Written2
<1> QED
  BY <1>1, <1>2, <1>6, <1>7 DEF PeopleInv
-----------------------------------------------------------------------------
(* The steps that write of people *)

(* A step that writes at a node has only these consequences.               *)
LEMMA WriteIs ==
  ASSUME BinaryTypes, Outside, NEW p \in 1..3, NEW op \in PeopleOps, NEW ops,
         At(p, ops), Node.op = op, Advance
  PROVE  /\ Visited /\ Outside' /\ pass = p /\ policy' = policy /\ First(cur)
         /\ cur \in Live /\ cur \in 1..Len(policy.nodes) /\ Node = policy.nodes[cur]
         /\ pass' \in 1..4 /\ cur' \in Nat \ {0} /\ status' # "ok"
         /\ Data' = Data /\ AliasNames(policy)' = AliasNames(policy)
<1>1. InWalk /\ cur' = cur + 1 /\ pass = p /\ ~ Skipped(Node) /\ First(cur)
  BY AtIs
<1>2. Visited
  BY <1>1 DEF Visited, Outer, PeopleOps
<1>3. Outside' /\ cur \in Live /\ cur \in 1..Len(policy.nodes)
  BY <1>2, OutsideStep, HereLive, Extents
<1> QED
  BY <1>1, <1>2, <1>3 DEF InWalk, BinaryTypes, Node, Data

(* In the first walk there is nothing yet that the later ones write.       *)
LEMMA FirstWalk ==
  ASSUME BinaryTypes, Outside, Written1, BoundsSoFar, UsersSoFar, Visited, pass = 1,
         policy' = policy, rbac' = rbac, levels'["user"] = levels["user"]
  PROVE  Written1' /\ BoundsSoFar' /\ UsersSoFar'
<1>1. \A p \in {2, 3} : \A ops : Passed(p, ops) = {} /\ Done(p, ops) = {}
  BY NothingYet
<1>2. \A p \in {2, 3} : \A ops : Passed(p, ops)' = {}
  BY <1>1, PassedMore
<1>3. \A p \in {2, 3} : \A ops : Done(p, ops)' = {}
  BY <1>2 DEF Done
<1>4. RolesNumbered' <=> RolesNumbered
  BY SameNodes
<1>5. TypesSoFar'
  <2>1. TypePairs = {}
    <3>1. Done(2, {"role"}) = {}
      BY <1>1
    <3> QED
      BY <3>1 DEF Written1, TypesSoFar
  <2>2. TypePairs' = {}
    BY <2>1 DEF TypePairs
  <2> QED
    BY <1>3, <2>2 DEF TypesSoFar
<1>6. RolesSoFar'
  <2>1. RolesNumbered => RolePairs = {}
    <3>1. Done(2, {"userrole"}) = {}
      BY <1>1
    <3> QED
      BY <3>1 DEF Written1, RolesSoFar
  <2>2. RolesNumbered => RolePairs' = {}
    BY <2>1 DEF RolePairs
  <2> QED
    BY <1>3, <1>4, <2>2 DEF RolesSoFar
<1>7. AllowSoFar'
  <2>1. RolesNumbered => AllowPairs = {}
    <3>1. Done(3, {"roleallow"}) = {}
      BY <1>1
    <3> QED
      BY <3>1 DEF Written1, AllowSoFar
  <2>2. RolesNumbered => AllowPairs' = {}
    BY <2>1 DEF AllowPairs
  <2> QED
    BY <1>3, <1>4, <2>2 DEF AllowSoFar
<1>8. BoundsSoFar'
  <2>1. rbac["bounds"] = {}
    BY <1>1 DEF BoundsSoFar, BoundPairs, BoundsIn
  <2> QED
    BY <1>3, <2>1 DEF BoundsSoFar, BoundPairs, BoundsIn
<1>9. UsersSoFar'
  <2>1. policy.mls => levels["user"] = {}
    BY <1>1 DEF UsersSoFar, UserLevels
  <2> QED
    BY <1>3, <2>1 DEF UsersSoFar, UserLevels
<1> QED
  BY <1>5, <1>6, <1>7, <1>8, <1>9 DEF Written1

LEMMA DeclareStep == ASSUME PeopleInv, DeclareDatum PROVE PeopleInv'
<1>0. BinaryTypes /\ Outside /\ ObjectFirst /\ HasNumber /\ Written1 /\ Written2
  BY DEF PeopleInv
<1>1. PICK ops \in {{"role", "type", "typeattribute", "user", "bool"}} : At(1, ops) /\ Node.op \in ops /\ Advance
  BY AtIs DEF DeclareDatum
<1>2. /\ rbac' = rbac /\ levels' = levels /\ alias' = alias /\ policy' = policy
      /\ sym' = IF Omitted(Node) THEN sym
                ELSE [sym EXCEPT ![Table(Node.op)] = Append(@, Node.d)]
  BY DEF DeclareDatum, people, Advance
<1>3. InWalk /\ cur' = cur + 1 /\ pass = 1 /\ ~ Skipped(Node) /\ First(cur)
  BY <1>1, AtIs
<1>4. Visited
  BY <1>1, <1>3 DEF Visited, Outer
<1>5. Outside' /\ cur \in Live /\ cur \in 1..Len(policy.nodes) /\ Node.op \in Declares
  BY <1>0, <1>1, <1>4, OutsideStep, HereLive, Extents DEF Declares
<1>6. Table(Node.op) \in Filled /\ Node.d \in Data
  <2>1. Node.d \in Data
    BY <1>0, <1>5, Extents DEF Data, Node
  <2> QED
    BY <1>1, <2>1 DEF Table, Filled
<1>7. /\ DOMAIN sym' = Tables
      /\ \A tab \in Filled : /\ sym'[tab] \in Seq(Data) /\ ToSet(sym[tab]) \subseteq ToSet(sym'[tab])
      /\ sym'["levels"] = sym["levels"] /\ sym'["cats"] = sym["cats"]
      /\ ~ Omitted(Node) => Node.d \in ToSet(sym'[Table(Node.op)])
  <2>1. CASE Omitted(Node)
    BY <1>0, <1>2, <2>1 DEF BinaryTypes
  <2>2. CASE ~ Omitted(Node)
    <3>1. ASSUME NEW tab \in Filled
          PROVE  sym'[tab] = IF tab = Table(Node.op) THEN Append(sym[tab], Node.d) ELSE sym[tab]
      BY <1>0, <1>2, <2>2 DEF BinaryTypes, Tables, Filled
    <3>2. ASSUME NEW s \in Seq(Data)
          PROVE  /\ Append(s, Node.d) \in Seq(Data) /\ ToSet(s) \subseteq ToSet(Append(s, Node.d))
                 /\ Node.d \in ToSet(Append(s, Node.d))
      <4>1. /\ DOMAIN Append(s, Node.d) = 1..(Len(s) + 1) /\ DOMAIN s = 1..Len(s)
            /\ \A i \in DOMAIN s : Append(s, Node.d)[i] = s[i]
            /\ Append(s, Node.d)[Len(s) + 1] = Node.d /\ Len(s) \in Nat
        BY <1>6
      <4> QED
        BY <1>6, <4>1 DEF ToSet
    <3>3. ASSUME NEW tab \in Filled
          PROVE  /\ sym'[tab] \in Seq(Data) /\ ToSet(sym[tab]) \subseteq ToSet(sym'[tab])
                 /\ tab = Table(Node.op) => Node.d \in ToSet(sym'[tab])
      <4>1. sym[tab] \in Seq(Data)
        BY <1>0 DEF BinaryTypes
      <4>2. CASE tab = Table(Node.op)
        <5>1. sym'[tab] = Append(sym[tab], Node.d)
          BY <3>1, <4>2
        <5> QED
          BY <3>2, <4>1, <5>1
      <4>3. CASE tab # Table(Node.op)
        <5>1. sym'[tab] = sym[tab]
          BY <3>1, <4>3
        <5> QED
          BY <4>1, <4>3, <5>1
      <4> QED
        BY <4>2, <4>3
    <3>4. Node.d \in ToSet(sym'[Table(Node.op)])
      BY <1>6, <3>3
    <3>5. /\ DOMAIN sym' = Tables
          /\ sym'["levels"] = sym["levels"] /\ sym'["cats"] = sym["cats"]
      BY <1>0, <1>2, <1>6, <2>2 DEF BinaryTypes, Tables, Filled
    <3> QED
      BY <3>3, <3>4, <3>5
  <2> QED
    BY <2>1, <2>2
<1>8. ObjectFirst'
  <2>1. CASE sym'["roles"] = sym["roles"]
    BY <1>0, <2>1 DEF ObjectFirst
  <2>2. CASE sym'["roles"] # sym["roles"]
    <3>1. sym'["roles"] = Append(sym["roles"], Node.d) /\ Node.d # "object_r"
      BY <1>0, <1>1, <1>2, <2>2 DEF BinaryTypes, Tables, Table, Omitted
    <3>2. sym["roles"] \in Seq(Data)
      BY <1>0 DEF BinaryTypes, Filled
    <3>3. /\ DOMAIN sym'["roles"] = 1..(Len(sym["roles"]) + 1) /\ DOMAIN sym["roles"] = 1..Len(sym["roles"])
          /\ \A i \in DOMAIN sym["roles"] : sym'["roles"][i] = sym["roles"][i]
          /\ sym'["roles"][Len(sym["roles"]) + 1] = Node.d /\ Len(sym["roles"]) \in Nat
      BY <3>1, <3>2
    <3> QED
      BY <1>0, <3>1, <3>3 DEF ObjectFirst
  <2> QED
    BY <2>1, <2>2
<1>9. HasNumber'
  <2>1. /\ Passed(1, {"role"})' \subseteq Passed(1, {"role"}) \cup {cur}
        /\ Passed(1, {"user"})' \subseteq Passed(1, {"user"}) \cup {cur}
        /\ cur \in Passed(1, {"role"})' => cur \in Passed(1, {"role"}) \/ Node.op = "role"
        /\ cur \in Passed(1, {"user"})' => cur \in Passed(1, {"user"}) \/ Node.op = "user"
    BY <1>0, <1>4, PassedMore
  <2>2. /\ Node.op = "role" => Node.d \in ToSet(sym'["roles"])
        /\ Node.op = "user" => Node.d \in ToSet(sym'["users"])
    <3>1. "object_r" \in ToSet(sym'["roles"])
      BY <1>8 DEF ObjectFirst, ToSet
    <3> QED
      BY <1>7, <3>1 DEF Omitted, Table
  <2> QED
    BY <1>0, <1>2, <1>7, <2>1, <2>2 DEF HasNumber, Filled, Node
<1>10. Written1' /\ BoundsSoFar' /\ UsersSoFar'
  BY <1>0, <1>2, <1>3, <1>4, FirstWalk DEF Written2
<1>11. LevelsSoFar'
  <2>1. Done(1, {"sens"})' = Done(1, {"sens"})
    BY <1>0, <1>1, <1>4, DoneKept DEF PeopleOps
  <2>2. DefinedLevels' = DefinedLevels
    <3>1. \A l : LevelNames(l)' = LevelNames(l)
      BY <1>7 DEF LevelNames
    <3> QED
      BY <1>2, <3>1 DEF DefinedLevels
  <2>3. \A n : SensOf(n)' = SensOf(n)
    BY <1>2 DEF SensOf, CilLevel, Cats
  <2> QED
    BY <1>0, <1>2, <2>1, <2>2, <2>3 DEF Written2, LevelsSoFar
<1>12. BinaryTypes'
  <2>1. Data' = Data /\ AliasNames(policy)' = AliasNames(policy)
    BY <1>2 DEF Data
  <2> QED
    BY <1>0, <1>2, <1>3, <1>7, <2>1 DEF BinaryTypes, InWalk
<1> QED
  BY <1>5, <1>8, <1>9, <1>10, <1>11, <1>12 DEF PeopleInv, Written2

(* What all of the steps have in common that leave the names as they are.  *)
LEMMA WriteKeeps ==
  ASSUME PeopleInv, NEW p \in 1..3, NEW op \in PeopleOps, At(p, {op}), Advance,
         sym' = sym, alias' = alias, DOMAIN rbac' = DOMAIN rbac, DOMAIN levels' = DOMAIN levels,
         p = 1 => op = "sens"
  PROVE  /\ BinaryTypes' /\ Outside' /\ ObjectFirst' /\ HasNumber'
         /\ policy' = policy /\ pass = p /\ First(cur) /\ cur \in Live
         /\ cur \in 1..Len(policy.nodes) /\ Node = policy.nodes[cur] /\ Node.op = op
         /\ \A q \in 1..3, ops \in SUBSET PeopleOps :
              Done(q, ops)' = IF q = p /\ op \in ops THEN Done(q, ops) \cup {Node} ELSE Done(q, ops)
<1>1. BinaryTypes /\ Outside /\ ObjectFirst /\ HasNumber
  BY DEF PeopleInv
<1>2. Node.op = op
  BY AtIs
<1>3. /\ Visited /\ Outside' /\ pass = p /\ policy' = policy /\ First(cur)
      /\ cur \in Live /\ cur \in 1..Len(policy.nodes) /\ Node = policy.nodes[cur]
      /\ pass' \in 1..4 /\ cur' \in Nat \ {0} /\ status' # "ok"
      /\ Data' = Data /\ AliasNames(policy)' = AliasNames(policy)
  BY <1>1, <1>2, WriteIs
<1>4. BinaryTypes'
  BY <1>1, <1>3 DEF BinaryTypes
<1>5. Passed(1, {"role"})' = Passed(1, {"role"}) /\ Passed(1, {"user"})' = Passed(1, {"user"})
  BY <1>1, <1>2, <1>3, DoneKept DEF PeopleOps
<1>6. ObjectFirst' /\ HasNumber'
  BY <1>1, <1>3, <1>5, KeepNumbers
<1>7. ASSUME NEW q \in 1..3, NEW ops \in SUBSET PeopleOps
      PROVE  Done(q, ops)' = IF q = p /\ op \in ops THEN Done(q, ops) \cup {Node} ELSE Done(q, ops)
  BY <1>1, <1>2, <1>3, DoneKept, DoneMore
<1> QED
  BY <1>2, <1>3, <1>4, <1>6, <1>7

LEMMA BoundsMore ==
  ASSUME BoundsSoFar, policy' = policy, sym' = sym, NEW tab, NEW n,
         rbac'["bounds"] = rbac["bounds"] \cup Bounded(tab, n),
         {<<sym[x.tab][x.child], sym[x.tab][x.parent]>> : x \in Bounded(tab, n)} = BoundsIn({n}),
         Done(2, BoundOps)' = Done(2, BoundOps) \cup {n}
  PROVE  BoundsSoFar'
<1>1. BoundPairs' = BoundPairs \cup BoundsIn({n})
  BY DEF BoundPairs
<1>2. BoundsIn(Done(2, BoundOps) \cup {n}) = BoundsIn(Done(2, BoundOps)) \cup BoundsIn({n})
  BY DEF BoundsIn
<1>3. \A ns : BoundsIn(ns)' = BoundsIn(ns)
  BY DEF BoundsIn
<1> QED
  BY <1>1, <1>2, <1>3 DEF BoundsSoFar

(* The names that a statement is written with are no aliases.              *)
LEMMA Plain ==
  ASSUME BinaryTypes, NEW n \in 1..Len(policy.nodes)
  PROVE  LET here == policy.nodes[n] IN
         /\ here.op = "type" => {here.d, here.bounds} \cap AliasNames(policy) = {}
         /\ here.op = "role" =>
              {policy.valTo["type"][i + 1] : i \in policy.types[here.d]} \cap AliasNames(policy) = {}
         /\ here.op = "user" =>
              /\ ({here.level.sens} \cup CatsOf(policy, here.level.cats)) \cap AliasNames(policy) = {}
              /\ ({here.range.low.sens} \cup CatsOf(policy, here.range.low.cats)) \cap AliasNames(policy) = {}
              /\ ({here.range.high.sens} \cup CatsOf(policy, here.range.high.cats)) \cap AliasNames(policy) = {}
         /\ here.op = "sens" =>
              ({here.d} \cup CatsOf(policy, policy.sensCats[here.d])) \cap AliasNames(policy) = {}
<1>1. NoAlias(policy)
  BY PolicyHere DEF BinaryTypes, IsPolicy
<1> QED
  BY <1>1 DEF NoAlias

LEMMA TypeStep == ASSUME PeopleInv, WriteType PROVE PeopleInv'
<1>1. CASE Fail("missing")
  BY <1>1, FailStays, QuietStep DEF PeopleInv
<1>2. CASE ~ Fail("missing")
  <2>1. /\ At(2, {"type"}) /\ Advance /\ KnownBounds("types", Node)
        /\ rbac' = [rbac EXCEPT !.bounds = @ \cup Bounded("types", Node)]
        /\ levels' = levels /\ sym' = sym /\ alias' = alias
    BY <1>2 DEF WriteType, names
  <2>2. /\ rbac'["bounds"] = rbac["bounds"] \cup Bounded("types", Node)
        /\ DOMAIN rbac' = DOMAIN rbac
        /\ \A f \in {"types", "roles", "allow"} : rbac'[f] = rbac[f]
    BY <2>1 DEF PeopleInv, BinaryTypes
  <2>3. /\ BinaryTypes' /\ Outside' /\ ObjectFirst' /\ HasNumber'
        /\ policy' = policy /\ cur \in 1..Len(policy.nodes) /\ Node = policy.nodes[cur]
        /\ Node.op = "type"
        /\ \A q \in 1..3, ops \in SUBSET PeopleOps :
             Done(q, ops)' = IF q = 2 /\ "type" \in ops THEN Done(q, ops) \cup {Node} ELSE Done(q, ops)
    BY <2>1, <2>2, WriteKeeps DEF PeopleOps
  <2>4. /\ Done(2, {"role"})' = Done(2, {"role"}) /\ Done(2, {"userrole"})' = Done(2, {"userrole"})
        /\ Done(3, {"roleallow"})' = Done(3, {"roleallow"}) /\ Done(2, {"user"})' = Done(2, {"user"})
        /\ Done(1, {"sens"})' = Done(1, {"sens"})
        /\ Done(2, BoundOps)' = Done(2, BoundOps) \cup {Node}
    BY <2>3 DEF PeopleOps, BoundOps
  <2>5. BoundsSoFar'
    <3>1. {<<sym[x.tab][x.child], sym[x.tab][x.parent]>> : x \in Bounded("types", Node)} = BoundsIn({Node})
      BY <2>1, <2>3, Plain, BoundIs DEF PeopleInv
    <3> QED
      BY <2>1, <2>2, <2>3, <2>4, <3>1, BoundsMore DEF PeopleInv, Written2
  <2>6. Written1' /\ UsersSoFar' /\ LevelsSoFar'
    BY <2>1, <2>2, <2>3, <2>4, KeepParts DEF PeopleInv, Written1, Written2
  <2> QED
    BY <2>3, <2>5, <2>6 DEF PeopleInv, Written2
<1> QED
  BY <1>1, <1>2

LEMMA RoleStep == ASSUME PeopleInv, WriteRole PROVE PeopleInv'
<1>1. CASE Fail("missing")
  BY <1>1, FailStays, QuietStep DEF PeopleInv
<1>2. CASE ~ Fail("missing")
  <2> DEFINE ts == RoleTypes(Node.d)
  <2>1. /\ At(2, {"role"}) /\ Advance /\ KnownBounds("roles", Node) /\ \A t \in ts : Known("types", t)
        /\ rbac' = [rbac EXCEPT
               !.bounds = @ \cup Bounded("roles", Node),
               !.types = @ \cup {<<Value("roles", Node.d), Value("types", t)>> : t \in ts}]
        /\ levels' = levels /\ sym' = sym /\ alias' = alias
    BY <1>2 DEF WriteRole, names
  <2>2. /\ rbac'["bounds"] = rbac["bounds"] \cup Bounded("roles", Node)
        /\ rbac'["types"] = rbac["types"] \cup {<<Value("roles", Node.d), Value("types", t)>> : t \in ts}
        /\ DOMAIN rbac' = DOMAIN rbac
        /\ \A f \in {"roles", "allow"} : rbac'[f] = rbac[f]
    BY <2>1 DEF PeopleInv, BinaryTypes
  <2>3. /\ BinaryTypes' /\ Outside' /\ ObjectFirst' /\ HasNumber'
        /\ policy' = policy /\ cur \in 1..Len(policy.nodes) /\ Node = policy.nodes[cur]
        /\ Node.op = "role" /\ pass = 2 /\ cur \in Live /\ First(cur)
        /\ \A q \in 1..3, ops \in SUBSET PeopleOps :
             Done(q, ops)' = IF q = 2 /\ "role" \in ops THEN Done(q, ops) \cup {Node} ELSE Done(q, ops)
    BY <2>1, <2>2, WriteKeeps DEF PeopleOps
  <2>4. /\ Done(2, {"role"})' = Done(2, {"role"}) \cup {Node}
        /\ Done(2, {"userrole"})' = Done(2, {"userrole"})
        /\ Done(3, {"roleallow"})' = Done(3, {"roleallow"}) /\ Done(2, {"user"})' = Done(2, {"user"})
        /\ Done(1, {"sens"})' = Done(1, {"sens"})
        /\ Done(2, BoundOps)' = Done(2, BoundOps) \cup {Node}
    BY <2>3 DEF PeopleOps, BoundOps
  <2>5. BoundsSoFar'
    <3>1. {<<sym[x.tab][x.child], sym[x.tab][x.parent]>> : x \in Bounded("roles", Node)} = BoundsIn({Node})
      BY <2>1, <2>3, BoundIs DEF PeopleInv
    <3> QED
      BY <2>1, <2>2, <2>3, <2>4, <3>1, BoundsMore DEF PeopleInv, Written2
  <2>6. TypesSoFar'
    <3>1. sym["roles"][Value("roles", Node.d)] = Node.d
      <4>1. cur \in Passed(1, {"role"})
        BY <2>3 DEF Passed, Firsts
      <4>2. Known("roles", Node.d)
        BY <2>3, <4>1 DEF PeopleInv, HasNumber, Known
      <4> QED
        BY <4>2, ValueIs DEF PeopleInv
    <3>2. \A t \in ts : sym["types"][Value("types", t)] = t
      <4>1. ts \cap AliasNames(policy) = {}
        BY <2>3, Plain DEF PeopleInv, RoleTypes
      <4> QED
        BY <2>1, <4>1, ValueIs DEF PeopleInv
    <3>3. TypePairs' = TypePairs \cup {<<Node.d, t>> : t \in ts}
      <4> DEFINE new == {<<Value("roles", Node.d), Value("types", t)>> : t \in ts}
      <4>1. TypePairs' = TypePairs \cup {<<sym["roles"][x[1]], sym["types"][x[2]]>> : x \in new}
        BY <2>1, <2>2 DEF TypePairs
      <4>2. \A x \in new : \E t \in ts : x[1] = Value("roles", Node.d) /\ x[2] = Value("types", t)
        OBVIOUS
      <4>3. ASSUME NEW t \in ts
            PROVE  \E x \in new : x[1] = Value("roles", Node.d) /\ x[2] = Value("types", t)
        <5>1. <<Value("roles", Node.d), Value("types", t)>> \in new
          OBVIOUS
        <5> QED
          BY <5>1
      <4> HIDE DEF new
      <4>4. \A x \in new : \E t \in ts : sym["roles"][x[1]] = Node.d /\ sym["types"][x[2]] = t
        BY <3>1, <3>2, <4>2
      <4>5. \A t \in ts : \E x \in new : sym["roles"][x[1]] = Node.d /\ sym["types"][x[2]] = t
        BY <3>1, <3>2, <4>3
      <4> HIDE DEF ts
      <4>6. {<<sym["roles"][x[1]], sym["types"][x[2]]>> : x \in new} = {<<Node.d, t>> : t \in ts}
        BY <4>4, <4>5
      <4> QED
        BY <4>1, <4>6
    <3>4. TypesOf(Node) = {<<Node.d, t>> : t \in ts}
      BY DEF TypesOf, RoleTypes
    <3>5. \A n : TypesOf(n)' = TypesOf(n)
      BY <2>3 DEF TypesOf
    <3>6. UNION {TypesOf(n) : n \in Done(2, {"role"}) \cup {Node}} =
            (UNION {TypesOf(n) : n \in Done(2, {"role"})}) \cup TypesOf(Node)
      OBVIOUS
    <3> QED
      BY <2>4, <3>3, <3>4, <3>5, <3>6 DEF TypesSoFar, PeopleInv, Written1
  <2>7. RolesSoFar' /\ AllowSoFar' /\ UsersSoFar' /\ LevelsSoFar'
    BY <2>1, <2>2, <2>3, <2>4, KeepParts DEF PeopleInv, Written1, Written2
  <2> QED
    BY <2>3, <2>5, <2>6, <2>7 DEF PeopleInv, Written1, Written2
<1> QED
  BY <1>1, <1>2

LEMMA UserStep == ASSUME PeopleInv, WriteUser PROVE PeopleInv'
<1>1. CASE Fail("missing")
  BY <1>1, FailStays, QuietStep DEF PeopleInv
<1>2. CASE ~ Fail("missing")
  <2> DEFINE u == [user |-> Value("users", Node.d), level |-> MlsLevel(Node.level),
                   range |-> MlsRange(Node.range)]
  <2>1. /\ At(2, {"user"}) /\ Advance /\ KnownBounds("users", Node)
        /\ policy.mls => KnownLevel(Node.level) /\ KnownRange(Node.range)
        /\ rbac' = [rbac EXCEPT !.bounds = @ \cup Bounded("users", Node)]
        /\ levels' = IF ~policy.mls THEN levels ELSE [levels EXCEPT !.user = @ \cup {u}]
        /\ sym' = sym /\ alias' = alias
    BY <1>2 DEF WriteUser, names
  <2>2. /\ rbac'["bounds"] = rbac["bounds"] \cup Bounded("users", Node)
        /\ DOMAIN rbac' = DOMAIN rbac
        /\ \A f \in {"types", "roles", "allow"} : rbac'[f] = rbac[f]
    BY <2>1 DEF PeopleInv, BinaryTypes
  <2>3. /\ levels'["defined"] = levels["defined"] /\ DOMAIN levels' = DOMAIN levels
        /\ policy.mls => levels'["user"] = levels["user"] \cup {u}
    BY <2>1 DEF PeopleInv, BinaryTypes
  <2>4. /\ BinaryTypes' /\ Outside' /\ ObjectFirst' /\ HasNumber'
        /\ policy' = policy /\ cur \in 1..Len(policy.nodes) /\ Node = policy.nodes[cur]
        /\ Node.op = "user" /\ pass = 2 /\ cur \in Live /\ First(cur)
        /\ \A q \in 1..3, ops \in SUBSET PeopleOps :
             Done(q, ops)' = IF q = 2 /\ "user" \in ops THEN Done(q, ops) \cup {Node} ELSE Done(q, ops)
    BY <2>1, <2>2, <2>3, WriteKeeps DEF PeopleOps
  <2>5. /\ Done(2, {"role"})' = Done(2, {"role"}) /\ Done(2, {"userrole"})' = Done(2, {"userrole"})
        /\ Done(3, {"roleallow"})' = Done(3, {"roleallow"})
        /\ Done(2, {"user"})' = Done(2, {"user"}) \cup {Node}
        /\ Done(1, {"sens"})' = Done(1, {"sens"})
        /\ Done(2, BoundOps)' = Done(2, BoundOps) \cup {Node}
    BY <2>4 DEF PeopleOps, BoundOps
  <2>6. BoundsSoFar'
    <3>1. {<<sym[x.tab][x.child], sym[x.tab][x.parent]>> : x \in Bounded("users", Node)} = BoundsIn({Node})
      BY <2>1, BoundIs DEF PeopleInv
    <3>2. /\ policy' = policy /\ sym' = sym
          /\ rbac'["bounds"] = rbac["bounds"] \cup Bounded("users", Node)
          /\ Done(2, BoundOps)' = Done(2, BoundOps) \cup {Node} /\ BoundsSoFar
      BY <2>1, <2>2, <2>4, <2>5 DEF PeopleInv, Written2
    <3> QED
      BY <3>1, <3>2, BoundsMore
  <2>7. UsersSoFar'
    <3> SUFFICES ASSUME policy.mls
                 PROVE  UserLevels' = {UserOf(n)' : n \in Done(2, {"user"})'}
      BY <2>4 DEF UsersSoFar
    <3>1. sym["users"][Value("users", Node.d)] = Node.d
      <4>1. cur \in Passed(1, {"user"})
        BY <2>4 DEF Passed, Firsts
      <4>2. Known("users", Node.d)
        BY <2>4, <4>1 DEF PeopleInv, HasNumber, Known
      <4> QED
        BY <4>2, ValueIs DEF PeopleInv
    <3>2. LevelNames(MlsLevel(Node.level)) = CilLevel(Node.level)
      BY <2>1, <2>4, Plain, LevelIs DEF PeopleInv
    <3>3. RangeNames(MlsRange(Node.range)) = CilRange(Node.range)
      BY <2>1, <2>4, Plain, RangeIs DEF PeopleInv
    <3>4. \A l : LevelNames(l)' = LevelNames(l) /\ RangeNames(l)' = RangeNames(l)
      BY <2>1 DEF LevelNames, RangeNames
    <3>5. UserLevels' = UserLevels \cup {[user |-> sym["users"][u.user], level |-> LevelNames(u.level),
                                           range |-> RangeNames(u.range)]}
      BY <2>1, <2>3, <3>4 DEF UserLevels
    <3>6. \A n : UserOf(n)' = UserOf(n)
      BY <2>4 DEF UserOf, CilRange, CilLevel, Cats
    <3>7. UserLevels' = UserLevels \cup {UserOf(Node)}
      BY <3>1, <3>2, <3>3, <3>5 DEF UserOf
    <3> QED
      BY <2>5, <3>6, <3>7 DEF UsersSoFar, PeopleInv, Written2
  <2>8. Written1' /\ LevelsSoFar'
    BY <2>1, <2>2, <2>3, <2>4, <2>5, KeepParts DEF PeopleInv, Written1, Written2
  <2> QED
    BY <2>4, <2>6, <2>7, <2>8 DEF PeopleInv, Written2
<1> QED
  BY <1>1, <1>2

LEMMA LevelStep == ASSUME PeopleInv, DefineLevel PROVE PeopleInv'
<1>1. CASE Fail("missing")
  BY <1>1, FailStays, QuietStep DEF PeopleInv
<1>2. CASE ~ Fail("missing")
  <2> DEFINE l == [sens |-> Node.d, cats |-> policy.sensCats[Node.d]]
  <2>1. /\ At(1, {"sens"}) /\ Advance /\ KnownLevel(l)
        /\ levels' = [levels EXCEPT !.defined = @ \cup {MlsLevel(l)}]
        /\ rbac' = rbac /\ sym' = sym /\ alias' = alias
    BY <1>2 DEF DefineLevel, names, KnownLevel, MlsLevel
  <2>2. /\ levels'["defined"] = levels["defined"] \cup {MlsLevel(l)}
        /\ DOMAIN levels' = DOMAIN levels /\ levels'["user"] = levels["user"]
    BY <2>1 DEF PeopleInv, BinaryTypes
  <2>3. /\ BinaryTypes' /\ Outside' /\ ObjectFirst' /\ HasNumber'
        /\ policy' = policy /\ cur \in 1..Len(policy.nodes) /\ Node = policy.nodes[cur]
        /\ Node.op = "sens"
        /\ \A q \in 1..3, ops \in SUBSET PeopleOps :
             Done(q, ops)' = IF q = 1 /\ "sens" \in ops THEN Done(q, ops) \cup {Node} ELSE Done(q, ops)
    BY <2>1, <2>2, WriteKeeps DEF PeopleOps
  <2>4. /\ Done(2, {"role"})' = Done(2, {"role"}) /\ Done(2, {"userrole"})' = Done(2, {"userrole"})
        /\ Done(3, {"roleallow"})' = Done(3, {"roleallow"}) /\ Done(2, {"user"})' = Done(2, {"user"})
        /\ Done(1, {"sens"})' = Done(1, {"sens"}) \cup {Node}
        /\ Done(2, BoundOps)' = Done(2, BoundOps)
    BY <2>3 DEF PeopleOps, BoundOps
  <2>5. LevelsSoFar'
    <3> SUFFICES ASSUME policy.mls
                 PROVE  DefinedLevels' = {SensOf(n)' : n \in Done(1, {"sens"})'}
      BY <2>3 DEF LevelsSoFar
    <3>1. LevelNames(MlsLevel(l)) = SensOf(Node)
      <4>1. ({l.sens} \cup CatsOf(policy, l.cats)) \cap AliasNames(policy) = {}
        BY <2>3, Plain DEF PeopleInv
      <4> QED
        BY <2>1, <4>1, LevelIs DEF PeopleInv, SensOf
    <3>2. \A x : LevelNames(x)' = LevelNames(x)
      BY <2>1 DEF LevelNames
    <3>3. DefinedLevels' = DefinedLevels \cup {SensOf(Node)}
      BY <2>2, <3>1, <3>2 DEF DefinedLevels
    <3>4. \A n : SensOf(n)' = SensOf(n)
      BY <2>3 DEF SensOf, CilLevel, Cats
    <3> QED
      BY <2>4, <3>3, <3>4 DEF LevelsSoFar, PeopleInv, Written2
  <2>6. Written1' /\ BoundsSoFar' /\ UsersSoFar'
    BY <2>1, <2>2, <2>3, <2>4, KeepParts DEF PeopleInv, Written1, Written2
  <2> QED
    BY <2>3, <2>5, <2>6 DEF PeopleInv, Written2
<1> QED
  BY <1>1, <1>2

(* A role that is numbered, or an attribute's members, are what Members    *)
(* says.                                                                   *)
LEMMA MembersAre ==
  ASSUME NEW d, LeadsBack(d)
  PROVE  Expand("role", d) = Members("role", d)
<1>1. CASE policy.flavor[d] = "role"
  <2>1. ExpandBits(d) = {policy.value[d]}
    BY <1>1 DEF ExpandBits
  <2> QED
    BY <1>1, <2>1 DEF Expand, Members, LeadsBack
<1>2. CASE policy.flavor[d] # "role"
  BY <1>2 DEF Members
<1> QED
  BY <1>1, <1>2

LEMMA UserroleStep == ASSUME PeopleInv, WriteUserrole PROVE PeopleInv'
<1>1. CASE Fail("missing")
  BY <1>1, FailStays, QuietStep DEF PeopleInv
<1>2. CASE FailUninitialised
  BY <1>2, FailUninitialisedStays, QuietStep DEF PeopleInv
<1>3. CASE ~ Fail("missing") /\ ~ FailUninitialised
  <2> DEFINE rs  == Expand("role", Node.role)
             new == {<<Value("users", Node.user), Value("roles", r)>> :
                       r \in {x \in rs : Value("roles", x) # 1}}
  <2>1. /\ At(2, {"userrole"}) /\ Advance /\ Known("users", Node.user) /\ \A r \in rs : Known("roles", r)
        /\ rbac' = [rbac EXCEPT !.roles = @ \cup new]
        /\ levels' = levels /\ sym' = sym /\ alias' = alias
    BY <1>3 DEF WriteUserrole, names
  <2>2. /\ rbac'["roles"] = rbac["roles"] \cup new
        /\ DOMAIN rbac' = DOMAIN rbac
        /\ \A f \in {"types", "bounds", "allow"} : rbac'[f] = rbac[f]
    BY <2>1 DEF PeopleInv, BinaryTypes
  <2>3. /\ BinaryTypes' /\ Outside' /\ ObjectFirst' /\ HasNumber'
        /\ policy' = policy /\ cur \in Live /\ Node = policy.nodes[cur] /\ Node.op = "userrole"
        /\ \A q \in 1..3, ops \in SUBSET PeopleOps :
             Done(q, ops)' = IF q = 2 /\ "userrole" \in ops THEN Done(q, ops) \cup {Node} ELSE Done(q, ops)
    BY <2>1, <2>2, WriteKeeps DEF PeopleOps
  <2>4. /\ Done(2, {"role"})' = Done(2, {"role"})
        /\ Done(2, {"userrole"})' = Done(2, {"userrole"}) \cup {Node}
        /\ Done(3, {"roleallow"})' = Done(3, {"roleallow"}) /\ Done(2, {"user"})' = Done(2, {"user"})
        /\ Done(1, {"sens"})' = Done(1, {"sens"})
        /\ Done(2, BoundOps)' = Done(2, BoundOps)
    BY <2>3 DEF PeopleOps, BoundOps
  <2>5. RolesSoFar'
    <3> SUFFICES ASSUME RolesNumbered
                 PROVE  RolePairs' = UNION {RolesOf(n)' : n \in Done(2, {"userrole"})'}
      BY <2>3, SameNodes DEF RolesSoFar
    <3>1. sym["users"][Value("users", Node.user)] = Node.user
      BY <2>1, ValueIs DEF PeopleInv
    <3>2. \A r \in rs : /\ sym["roles"][Value("roles", r)] = r
                        /\ Value("roles", r) # 1 <=> r # "object_r"
      BY <2>1, ValueIs, OneIs DEF PeopleInv
    <3>3. rs = Members("role", Node.role)
      <4>1. Node \in LiveOf({"userrole"})
        BY <2>3 DEF LiveOf
      <4> QED
        BY <4>1, MembersAre DEF RolesNumbered
    <3>4. {<<sym["users"][x[1]], sym["roles"][x[2]]>> : x \in new} = RolesOf(Node)
      <4> HIDE DEF rs
      <4>1. \A x \in new : \E r \in rs : /\ x[1] = Value("users", Node.user) /\ x[2] = Value("roles", r)
                                        /\ Value("roles", r) # 1
        OBVIOUS
      <4>2. ASSUME NEW r \in rs, Value("roles", r) # 1
            PROVE  \E x \in new : x[1] = Value("users", Node.user) /\ x[2] = Value("roles", r)
        <5>1. <<Value("users", Node.user), Value("roles", r)>> \in new
          BY <4>2
        <5> QED
          BY <5>1
      <4> HIDE DEF new
      <4>3. \A x \in new : \E r \in rs \ {"object_r"} :
              sym["users"][x[1]] = Node.user /\ sym["roles"][x[2]] = r
        BY <3>1, <3>2, <4>1
      <4>4. \A r \in rs \ {"object_r"} : \E x \in new :
              sym["users"][x[1]] = Node.user /\ sym["roles"][x[2]] = r
        BY <3>1, <3>2, <4>2
      <4>5. {<<sym["users"][x[1]], sym["roles"][x[2]]>> : x \in new} =
              {<<Node.user, r>> : r \in rs \ {"object_r"}}
        BY <4>3, <4>4
      <4> QED
        BY <3>3, <4>5 DEF RolesOf
    <3>5. RolePairs' = RolePairs \cup RolesOf(Node)
      <4> HIDE DEF new
      <4>1. RolePairs' = RolePairs \cup {<<sym["users"][x[1]], sym["roles"][x[2]]>> : x \in new}
        BY <2>1, <2>2 DEF RolePairs
      <4> QED
        BY <3>4, <4>1
    <3>6. \A n : RolesOf(n)' = RolesOf(n)
      BY <2>3 DEF RolesOf, Members, Expand, ExpandBits
    <3>7. UNION {RolesOf(n) : n \in Done(2, {"userrole"}) \cup {Node}} =
            (UNION {RolesOf(n) : n \in Done(2, {"userrole"})}) \cup RolesOf(Node)
      OBVIOUS
    <3> QED
      BY <2>4, <3>5, <3>6, <3>7 DEF RolesSoFar, PeopleInv, Written1
  <2>6. TypesSoFar' /\ AllowSoFar' /\ Written2'
    BY <2>1, <2>2, <2>3, <2>4, KeepParts DEF PeopleInv, Written1, Written2
  <2> QED
    BY <2>3, <2>5, <2>6 DEF PeopleInv, Written1
<1> QED
  BY <1>1, <1>2, <1>3

LEMMA RoleallowStep == ASSUME PeopleInv, WriteRoleallow PROVE PeopleInv'
<1>1. CASE Fail("missing")
  BY <1>1, FailStays, QuietStep DEF PeopleInv
<1>2. CASE ~ Fail("missing")
  <2> DEFINE ss  == Expand("role", Node.src)
             ds  == Expand("role", Node.tgt)
             new == {<<Value("roles", s), Value("roles", t)>> : s \in ss, t \in ds}
  <2>1. /\ At(3, {"roleallow"}) /\ Advance /\ \A r \in ss \cup ds : Known("roles", r)
        /\ rbac' = [rbac EXCEPT !.allow = @ \cup new]
        /\ levels' = levels /\ sym' = sym /\ alias' = alias
    BY <1>2 DEF WriteRoleallow, names
  <2>2. /\ rbac'["allow"] = rbac["allow"] \cup new
        /\ DOMAIN rbac' = DOMAIN rbac
        /\ \A f \in {"types", "bounds", "roles"} : rbac'[f] = rbac[f]
    BY <2>1 DEF PeopleInv, BinaryTypes
  <2>3. /\ BinaryTypes' /\ Outside' /\ ObjectFirst' /\ HasNumber'
        /\ policy' = policy /\ cur \in Live /\ Node = policy.nodes[cur] /\ Node.op = "roleallow"
        /\ \A q \in 1..3, ops \in SUBSET PeopleOps :
             Done(q, ops)' = IF q = 3 /\ "roleallow" \in ops THEN Done(q, ops) \cup {Node} ELSE Done(q, ops)
    BY <2>1, <2>2, WriteKeeps DEF PeopleOps
  <2>4. /\ Done(2, {"role"})' = Done(2, {"role"}) /\ Done(2, {"userrole"})' = Done(2, {"userrole"})
        /\ Done(3, {"roleallow"})' = Done(3, {"roleallow"}) \cup {Node}
        /\ Done(2, {"user"})' = Done(2, {"user"}) /\ Done(1, {"sens"})' = Done(1, {"sens"})
        /\ Done(2, BoundOps)' = Done(2, BoundOps)
    BY <2>3 DEF PeopleOps, BoundOps
  <2>5. AllowSoFar'
    <3> SUFFICES ASSUME RolesNumbered
                 PROVE  AllowPairs' = UNION {AllowsOf(n)' : n \in Done(3, {"roleallow"})'}
      BY <2>3, SameNodes DEF AllowSoFar
    <3>1. \A r \in ss \cup ds : sym["roles"][Value("roles", r)] = r
      BY <2>1, ValueIs DEF PeopleInv
    <3>2. ss = Members("role", Node.src) /\ ds = Members("role", Node.tgt)
      <4>1. Node \in LiveOf({"roleallow"})
        BY <2>3 DEF LiveOf
      <4> QED
        BY <4>1, MembersAre DEF RolesNumbered
    <3>3. {<<sym["roles"][x[1]], sym["roles"][x[2]]>> : x \in new} = AllowsOf(Node)
      <4> HIDE DEF ss, ds
      <4>1. \A x \in new : \E s \in ss, t \in ds : x[1] = Value("roles", s) /\ x[2] = Value("roles", t)
        OBVIOUS
      <4>2. ASSUME NEW s \in ss, NEW t \in ds
            PROVE  \E x \in new : x[1] = Value("roles", s) /\ x[2] = Value("roles", t)
        <5>1. <<Value("roles", s), Value("roles", t)>> \in new
          OBVIOUS
        <5> HIDE DEF new
        <5> QED
          BY <5>1
      <4> HIDE DEF new
      <4>3. \A x \in new : \E s \in ss, t \in ds : sym["roles"][x[1]] = s /\ sym["roles"][x[2]] = t
        BY <3>1, <4>1
      <4>4. \A s \in ss, t \in ds : \E x \in new : sym["roles"][x[1]] = s /\ sym["roles"][x[2]] = t
        BY <3>1, <4>2
      <4>5. {<<sym["roles"][x[1]], sym["roles"][x[2]]>> : x \in new} = ss \X ds
        <5>1. {<<sym["roles"][x[1]], sym["roles"][x[2]]>> : x \in new} \subseteq ss \X ds
          BY <4>3
        <5>2. ASSUME NEW p \in ss \X ds
              PROVE  p \in {<<sym["roles"][x[1]], sym["roles"][x[2]]>> : x \in new}
          <6>1. PICK x \in new : sym["roles"][x[1]] = p[1] /\ sym["roles"][x[2]] = p[2]
            BY <4>4
          <6>2. p = <<p[1], p[2]>>
            OBVIOUS
          <6> QED
            BY <6>1, <6>2
        <5> QED
          BY <5>1, <5>2
      <4> QED
        BY <3>2, <4>5 DEF AllowsOf
    <3>4. AllowPairs' = AllowPairs \cup AllowsOf(Node)
      <4> HIDE DEF new
      <4>1. AllowPairs' = AllowPairs \cup {<<sym["roles"][x[1]], sym["roles"][x[2]]>> : x \in new}
        BY <2>1, <2>2 DEF AllowPairs
      <4> QED
        BY <3>3, <4>1
    <3>5. \A n : AllowsOf(n)' = AllowsOf(n)
      BY <2>3 DEF AllowsOf, Members, Expand, ExpandBits
    <3>6. UNION {AllowsOf(n) : n \in Done(3, {"roleallow"}) \cup {Node}} =
            (UNION {AllowsOf(n) : n \in Done(3, {"roleallow"})}) \cup AllowsOf(Node)
      OBVIOUS
    <3> QED
      BY <2>4, <3>4, <3>5, <3>6 DEF AllowSoFar, PeopleInv, Written1
  <2>6. TypesSoFar' /\ RolesSoFar' /\ Written2'
    BY <2>1, <2>2, <2>3, <2>4, KeepParts DEF PeopleInv, Written1, Written2
  <2> QED
    BY <2>3, <2>5, <2>6 DEF PeopleInv, Written1
<1> QED
  BY <1>1, <1>2
-----------------------------------------------------------------------------
LEMMA PeopleInit == Init => PeopleInv
<1> SUFFICES ASSUME Init PROVE PeopleInv
  OBVIOUS
<1>1. /\ policy \in Policies /\ pass = 1 /\ cur = 1 /\ status = "walk" /\ alias = {}
      /\ sym["types"] = <<>> /\ sym["roles"] = <<"object_r">> /\ sym["users"] = <<>> /\ sym["bools"] = <<>>
      /\ DOMAIN sym = Tables
      /\ \A f \in {"types", "roles", "allow", "bounds"} : rbac[f] = {}
      /\ DOMAIN rbac = {"types", "roles", "bounds", "permissive", "allow", "polcap"}
      /\ levels["user"] = {} /\ levels["defined"] = {} /\ DOMAIN levels = {"defined", "user"}
  BY DEF Init, Tables
<1>2. BinaryTypes
  <2>1. \A tab \in Filled : sym[tab] \in Seq(Data)
    <3>1. "object_r" \in Data
      BY DEF Data
    <3>2. <<"object_r">> \in Seq(Data) /\ <<>> \in Seq(Data)
      BY <3>1
    <3> QED
      BY <1>1, <3>2 DEF Filled
  <2> QED
    BY <1>1, <2>1 DEF BinaryTypes
<1>3. Outside
  BY <1>1, Extents, <1>2 DEF Outside
<1>4. \A p \in 1..3 : \A ops : Passed(p, ops) = {} /\ Done(p, ops) = {}
  <2>1. \A ops : Passed(1, ops) = {}
    BY <1>1, <1>2, PassedAre DEF Passed
  <2>2. \A p \in {2, 3} : \A ops : Passed(p, ops) = {}
    BY <1>1, <1>2, NothingYet
  <2>3. \A p \in 1..3 : \A ops : Passed(p, ops) = {}
    BY <2>1, <2>2
  <2> QED
    BY <2>3 DEF Done
<1>5. ObjectFirst /\ HasNumber
  BY <1>1, <1>4 DEF ObjectFirst, HasNumber
<1>6. Written1
  BY <1>1, <1>4 DEF Written1, TypesSoFar, TypePairs, RolesSoFar, RolePairs, AllowSoFar, AllowPairs
<1>7. Written2
  BY <1>1, <1>4 DEF Written2, BoundsSoFar, BoundPairs, BoundsIn, UsersSoFar, UserLevels,
                    LevelsSoFar, DefinedLevels
<1> QED
  BY <1>2, <1>3, <1>5, <1>6, <1>7 DEF PeopleInv

LEMMA PeopleStep == ASSUME PeopleInv, [Next]_vars PROVE PeopleInv'
<1>1. Stay \/ GoOn \/ SkipOver \/ NextWalk \/ Writes
  BY StepIs DEF PeopleInv
<1> QED
  BY <1>1, QuietStep, DeclareStep, LevelStep, TypeStep, RoleStep, UserStep, UserroleStep,
     RoleallowStep DEF Writes

THEOREM PeopleInvariant == Spec => []PeopleInv
BY PeopleInit, PeopleStep, PTL DEF Spec
-----------------------------------------------------------------------------
(* After the walks, what was dealt with is what the policy says            *)

(* The first node of a live datum is live and says the same.               *)
LEMMA FirstIs ==
  ASSUME BinaryTypes, NEW ops, NEW m \in Live, policy.nodes[m].op \in ops,
         policy.nodes[m].op \in Declares
  PROVE  LET here  == policy.nodes[m]
             head  == policy.head[here.d]
             first == policy.nodes[head]
         IN  /\ head \in Firsts(ops) /\ first.op = here.op /\ first.d = here.d
             /\ here.op \in {"type", "role", "user"} => first.bounds = here.bounds
             /\ here.op = "user" => first.level = here.level /\ first.range = here.range
<1> DEFINE here  == policy.nodes[m]
           head  == policy.head[here.d]
           first == policy.nodes[head]
<1>1. m \in 1..Len(policy.nodes) /\ ~ InTemplate(policy.nodes, m)
  BY Extents DEF Live
<1>2. SharedData(policy)
  BY PolicyHere DEF BinaryTypes, IsPolicy
<1>3. /\ head \in 1..Len(policy.nodes) /\ first.op = here.op /\ first.d = here.d
      /\ ~ InTemplate(policy.nodes, head)
      /\ here.op \in {"type", "role", "user"} => first.bounds = here.bounds
      /\ here.op = "user" => first.level = here.level /\ first.range = here.range
  BY <1>1, <1>2 DEF SharedData
<1>4. head \in Live /\ First(head)
  BY <1>3, Extents DEF Live, First
<1> QED
  BY <1>3, <1>4 DEF Firsts

(* What the walks dealt with stands for all that is live.                  *)
LEMMA AllDone ==
  ASSUME BinaryTypes, pass = 4, NEW p \in 1..3, NEW ops
  PROVE  /\ Done(p, ops) \subseteq LiveOf(ops)
         /\ \A n \in LiveOf(ops) : n.op \notin Declares => n \in Done(p, ops)
         /\ \A n \in LiveOf(ops) : n.op \in Declares =>
              \E f \in Done(p, ops) :
                /\ f.op = n.op /\ f.d = n.d
                /\ n.op \in {"type", "role", "user"} => f.bounds = n.bounds
                /\ n.op = "user" => f.level = n.level /\ f.range = n.range
<1>1. Passed(p, ops) = Firsts(ops)
  BY DEF Passed
<1>2. Done(p, ops) = {policy.nodes[m] : m \in Firsts(ops)}
  BY <1>1 DEF Done
<1>3. Done(p, ops) \subseteq LiveOf(ops)
  BY <1>2 DEF Firsts, LiveOf
<1>4. ASSUME NEW n \in LiveOf(ops), n.op \notin Declares
      PROVE  n \in Done(p, ops)
  <2>1. PICK m \in Live : policy.nodes[m].op \in ops /\ n = policy.nodes[m]
    BY DEF LiveOf
  <2>2. m \in Firsts(ops)
    BY <1>4, <2>1 DEF Firsts, First
  <2> QED
    BY <1>2, <2>1, <2>2
<1>5. ASSUME NEW n \in LiveOf(ops), n.op \in Declares
      PROVE  \E f \in Done(p, ops) :
               /\ f.op = n.op /\ f.d = n.d
               /\ n.op \in {"type", "role", "user"} => f.bounds = n.bounds
               /\ n.op = "user" => f.level = n.level /\ f.range = n.range
  <2>1. PICK m \in Live : policy.nodes[m].op \in ops /\ n = policy.nodes[m]
    BY DEF LiveOf
  <2> DEFINE head == policy.head[n.d]
  <2>2. /\ head \in Firsts(ops) /\ policy.nodes[head].op = n.op /\ policy.nodes[head].d = n.d
        /\ n.op \in {"type", "role", "user"} => policy.nodes[head].bounds = n.bounds
        /\ n.op = "user" =>
             policy.nodes[head].level = n.level /\ policy.nodes[head].range = n.range
    <3>1. policy.nodes[m].op \in Declares
      BY <1>5, <2>1
    <3>2. LET f == policy.nodes[policy.head[policy.nodes[m].d]]
          IN  /\ policy.head[policy.nodes[m].d] \in Firsts(ops)
              /\ f.op = policy.nodes[m].op /\ f.d = policy.nodes[m].d
              /\ policy.nodes[m].op \in {"type", "role", "user"} => f.bounds = policy.nodes[m].bounds
              /\ policy.nodes[m].op = "user" =>
                   f.level = policy.nodes[m].level /\ f.range = policy.nodes[m].range
      BY <2>1, <3>1, FirstIs
    <3> QED
      BY <2>1, <3>2
  <2>3. policy.nodes[head] \in Done(p, ops)
    BY <1>2, <2>2
  <2> QED
    BY <2>2, <2>3
<1> QED
  BY <1>3, <1>4, <1>5

LEMMA PeopleExact == ASSUME PeopleInv PROVE RolesAndUsersExact
<1> SUFFICES ASSUME status = "ok", RolesNumbered
             PROVE  /\ TypePairs = UNION {TypesOf(n) : n \in LiveOf({"role"})}
                    /\ RolePairs = UNION {RolesOf(n) : n \in LiveOf({"userrole"})}
                    /\ AllowPairs = UNION {AllowsOf(n) : n \in LiveOf({"roleallow"})}
                    /\ BoundPairs = BoundsIn(LiveOf({"type", "role", "user"}))
                    /\ policy.mls => UserLevels = {UserOf(n) : n \in LiveOf({"user"})}
                    /\ policy.mls => DefinedLevels = {SensOf(n) : n \in LiveOf({"sens"})}
  BY Zenon DEF RolesAndUsersExact, TypePairs, TypesOf, RolePairs, RolesOf, AllowPairs, AllowsOf,
               BoundPairs, BoundsIn, UserLevels, UserOf, DefinedLevels, SensOf
<1>1. BinaryTypes /\ pass = 4
  BY DEF PeopleInv, BinaryTypes
<1>2. TypePairs = UNION {TypesOf(n) : n \in LiveOf({"role"})}
  <2>1. /\ Done(2, {"role"}) \subseteq LiveOf({"role"})
        /\ \A n \in LiveOf({"role"}) : \E f \in Done(2, {"role"}) : f.d = n.d
    BY <1>1, AllDone DEF LiveOf, Declares
  <2>2. \A n, f : f.d = n.d => TypesOf(f) = TypesOf(n)
    BY DEF TypesOf
  <2>3. TypePairs = UNION {TypesOf(n) : n \in Done(2, {"role"})}
    BY DEF PeopleInv, Written1, TypesSoFar
  <2> QED
    BY <2>1, <2>2, <2>3
<1>3. RolePairs = UNION {RolesOf(n) : n \in LiveOf({"userrole"})}
  <2>1. Done(2, {"userrole"}) = LiveOf({"userrole"})
    BY <1>1, AllDone DEF LiveOf, Declares
  <2> QED
    BY <2>1 DEF PeopleInv, Written1, RolesSoFar
<1>4. AllowPairs = UNION {AllowsOf(n) : n \in LiveOf({"roleallow"})}
  <2>1. Done(3, {"roleallow"}) = LiveOf({"roleallow"})
    BY <1>1, AllDone DEF LiveOf, Declares
  <2> QED
    BY <2>1 DEF PeopleInv, Written1, AllowSoFar
<1>5. BoundPairs = BoundsIn(LiveOf({"type", "role", "user"}))
  <2>1. /\ Done(2, BoundOps) \subseteq LiveOf(BoundOps)
        /\ \A n \in LiveOf(BoundOps) : \E f \in Done(2, BoundOps) : f.d = n.d /\ f.bounds = n.bounds
    BY <1>1, AllDone DEF LiveOf, Declares, BoundOps
  <2>2. BoundPairs = BoundsIn(Done(2, BoundOps))
    BY DEF PeopleInv, Written2, BoundsSoFar
  <2>3. BoundsIn(Done(2, BoundOps)) = BoundsIn(LiveOf(BoundOps))
    BY <2>1 DEF BoundsIn
  <2> QED
    BY <2>2, <2>3 DEF BoundOps
<1>6. ASSUME policy.mls PROVE UserLevels = {UserOf(n) : n \in LiveOf({"user"})}
  <2>1. /\ Done(2, {"user"}) \subseteq LiveOf({"user"})
        /\ \A n \in LiveOf({"user"}) :
             \E f \in Done(2, {"user"}) : f.d = n.d /\ f.level = n.level /\ f.range = n.range
    BY <1>1, AllDone DEF LiveOf, Declares
  <2>2. \A n, f : f.d = n.d /\ f.level = n.level /\ f.range = n.range => UserOf(f) = UserOf(n)
    BY DEF UserOf
  <2>3. UserLevels = {UserOf(n) : n \in Done(2, {"user"})}
    BY <1>6 DEF PeopleInv, Written2, UsersSoFar
  <2> QED
    BY <2>1, <2>2, <2>3
<1>7. ASSUME policy.mls PROVE DefinedLevels = {SensOf(n) : n \in LiveOf({"sens"})}
  <2>1. /\ Done(1, {"sens"}) \subseteq LiveOf({"sens"})
        /\ \A n \in LiveOf({"sens"}) : \E f \in Done(1, {"sens"}) : f.d = n.d
    BY <1>1, AllDone DEF LiveOf, Declares
  <2>2. \A n, f : f.d = n.d => SensOf(f) = SensOf(n)
    BY DEF SensOf
  <2>3. DefinedLevels = {SensOf(n) : n \in Done(1, {"sens"})}
    BY <1>7 DEF PeopleInv, Written2, LevelsSoFar
  <2> QED
    BY <2>1, <2>2, <2>3
<1> QED
  BY <1>2, <1>3, <1>4, <1>5, <1>6, <1>7

(***************************************************************************)
(* What a policydb says of roles, users, levels and bounds is, in names,   *)
(* what the live statements of the tree say, if the roles they name are    *)
(* numbered: no statement is left out by the three walks, none is written  *)
(* from a template, and every number leads to the name it was written for  *)
(* (cil_roletype_to_policydb, cil_userrole_to_policydb,                    *)
(* cil_roleallow_to_policydb, cil_userlevel_userrange_to_policydb,         *)
(* cil_sepol_level_define, the bounds).                                    *)
(***************************************************************************)
THEOREM PeopleTheorem == Spec => []RolesAndUsersExact
BY PeopleInvariant, PeopleExact, PTL
=============================================================================
