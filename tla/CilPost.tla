------------------------------ MODULE CilPost ------------------------------
(***************************************************************************)
(* cil_post_process up to the verification of the database: the check for  *)
(* loops of class permissions, the numbering of types and roles, the       *)
(* arrays of labelling statements and their sorting, and the evaluation of *)
(* attribute, role, permission and category expressions                    *)
(* (src/src/cil_post.c, end of src/src/cil_verify.c).                      *)
(*                                                                         *)
(* A policy is the resolved tree, a sequence of nodes in document order    *)
(* with the nodes below n at n+1 .. last, and the heap behind it:          *)
(*   head    the first node of a datum's list of nodes                     *)
(*   expr    expressions: an operator and operands, each a datum or an     *)
(*           expression (e # 0)                                            *)
(*   attr    the expression list of an attribute                           *)
(*   cats    the expression of a struct cil_cats; catset says which of     *)
(*           them belongs to a category set                                *)
(*   list    lists of class permissions, named by what owns them (a set, a *)
(*           permission of a class map, a rule): an item is a class with a *)
(*           permission expression (cp # NULL) or leads to another list,   *)
(*           one item for each permission of a class map; NULL if no       *)
(*           statement has filled it                                       *)
(*   cp      the class and the permission expression of an item            *)
(*   con     what the labelling statements are sorted by                   *)
(* Recursive functions of the code keep a stack of what they are about.    *)
(***************************************************************************)
EXTENDS Integers, Sequences, SequencesExt, FiniteSets

CONSTANTS NULL,
          Policies,   \* the resolved trees
          Word        \* sizes of ranges are unsigned int

ASSUME WordIsEven == Word \in Nat /\ Word > 0 /\ Word % 2 = 0

VARIABLES policy,
          status,     \* "walk" | "ok" | "err" | "undefined" | "diverges"
          pass,       \* the walk of cil_post_process that is under way
          cur,        \* the node it comes to next
          todo,       \* what the node just visited still has to evaluate
          stack,      \* the recursion: frames [of, at], innermost first
          failed,     \* class_map_args.rc of the map class being checked
          value,      \* type->value, role->value
          num,        \* db->num_types, db->num_roles
          valTo,      \* db->val_to_type, db->val_to_role
          count,      \* sort->count, by kind of labelling statement
          array,      \* sort->array up to sort->index
          seusers,    \* db->selinuxusers
          bits,       \* attr->types, attr->roles: NULL or a set of values
          roleTypes,  \* role->types: NULL or a set of values
          perms,      \* cp->perms: NULL while an expression, or the permissions
          catList     \* cats->datum_expr once evaluated: NULL before

walk == <<status, pass, cur, todo, stack, failed>>
numbering == <<value, num, valTo, count, array, seusers>>
results == <<bits, roleTypes, perms, catList>>
vars == <<policy, walk, numbering, results>>

LOOP     == 1
COUNT    == 2
ARRAY    == 3
ATTR     == 4
ROLETYPE == 5
PERMS    == 6
CATS     == 7
SORT     == 8

Numbered == {"type", "role"}
RangeCon == {"portcon", "iomemcon", "ioportcon"}
Con == RangeCon \cup {"netifcon", "genfscon", "nodecon", "fsuse", "filecon",
                      "pirqcon", "pcidevicecon"}
Attribute == DOMAIN policy.attr
Attributes(f) == {a \in Attribute : policy.flavor[a] = f \o "attribute"}
Data(f) == {d \in DOMAIN policy.flavor : policy.flavor[d] = f}
Node == 1..Len(policy.nodes)

(* What resolution leaves behind: the nodes below a node end with it, the   *)
(* first node of a type or role declares it too, and as the nodes of a     *)
(* datum have one scope, either all of them are in a template or none is   *)
InTemplate(nodes, n) ==
  \E s \in 1..Len(nodes) : /\ nodes[s].kind \in {"macro", "abstractblock"}
                           /\ n \in s..nodes[s].last
IsPolicy(p) ==
  /\ Len(p.nodes) \in Nat
  /\ \A n \in 1..Len(p.nodes) :
       LET here == p.nodes[n]
           first == p.head[here.d]
       IN  /\ here.last \in n..Len(p.nodes)
           /\ \A m \in n..here.last : p.nodes[m].last <= here.last
           /\ here.kind \in Numbered =>
                /\ here.d \in DOMAIN p.flavor
                /\ first \in 1..Len(p.nodes)
                /\ p.nodes[first].kind = here.kind /\ p.nodes[first].d = here.d
                /\ InTemplate(p.nodes, first) <=> InTemplate(p.nodes, n)

ASSUME PoliciesAssumption == \A p \in Policies : IsPolicy(p)

Init ==
  /\ policy \in Policies
  /\ status = "walk" /\ pass = LOOP /\ cur = 1
  /\ todo = <<>> /\ stack = <<>> /\ failed = FALSE
  /\ value = [d \in DOMAIN policy.flavor |->
                IF d \in ToSet(policy.catorder)
                THEN (CHOOSE i \in DOMAIN policy.catorder : policy.catorder[i] = d) - 1 ELSE 0]
  /\ num = [f \in Numbered |-> 0]
  /\ valTo = [f \in Numbered |-> <<>>]
  /\ count = [k \in Con |-> 0] /\ array = [k \in Con |-> <<>>]
  /\ seusers = <<>>
  /\ bits = [a \in Attribute |-> NULL]
  /\ roleTypes = [r \in Data("role") |-> NULL]
  /\ perms = [c \in DOMAIN policy.cp |-> NULL]
  /\ catList = [c \in DOMAIN policy.cats |-> NULL]
-----------------------------------------------------------------------------
(* The walks.  Every one of them skips macros and abstract blocks.         *)

Idle == status = "walk" /\ todo = <<>> /\ stack = <<>> /\ ~ failed
Here == policy.nodes[cur]
At(p, kinds) == Idle /\ pass = p /\ cur \in Node /\ Here.kind \in kinds

Stop(outcome) == status' = outcome /\ UNCHANGED <<pass, cur, todo, stack, failed>>
GoOn == cur' = cur + 1 /\ UNCHANGED <<status, pass, todo, stack, failed>>
Evaluate(these) ==
  /\ cur' = cur + 1 /\ todo' = these
  /\ UNCHANGED <<status, pass, stack, failed>>

Skip ==
  /\ Idle /\ pass < SORT /\ cur \in Node /\ Here.kind \in {"macro", "abstractblock"}
  /\ cur' = Here.last + 1
  /\ UNCHANGED <<policy, status, pass, todo, stack, failed, numbering, results>>

(* The kinds of node a walk does something for *)
CatsKind == Con \cup {"catset", "senscat", "level", "levelrange", "user", "selinuxuser",
             "selinuxuserdefault", "rangetransition", "context", "sidcontext"}
Handled ==
  [p \in LOOP..CATS |->
     CASE p = LOOP -> {"mapclass", "classpermission"}
       [] p = COUNT -> Numbered \cup Con
       [] p = ARRAY -> Numbered \cup Con \cup {"selinuxuser", "selinuxuserdefault"}
       [] p = ATTR -> {"typeattribute", "roleattribute"}
       [] p = ROLETYPE -> {"roletype"}
       [] p = PERMS -> {"mapclass", "classpermission", "avrule", "constrain"}
       [] OTHER -> CatsKind]

PassBy ==
  /\ Idle /\ pass < SORT /\ cur \in Node
  /\ Here.kind \notin Handled[pass] \cup {"macro", "abstractblock"}
  /\ GoOn
  /\ UNCHANGED <<policy, numbering, results>>

EndWalk ==
  /\ Idle /\ pass < SORT /\ cur \notin Node
  /\ pass' = pass + 1 /\ cur' = 1
  /\ UNCHANGED <<policy, status, todo, stack, failed, numbering, results>>

(* A statement starts the evaluation of what it refers to *)
Start ==
  /\ status = "walk" /\ stack = <<>> /\ todo # <<>> /\ Head(todo) # NULL
  /\ stack' = <<[of |-> Head(todo), at |-> 1]>>
  /\ todo' = Tail(todo)
  /\ UNCHANGED <<policy, status, pass, cur, failed, numbering, results>>

(* A user without a userlevel or userrange statement leads to no level *)
FollowNull ==
  /\ status = "walk" /\ stack = <<>> /\ todo # <<>> /\ Head(todo) = NULL
  /\ Stop("undefined")
  /\ UNCHANGED <<policy, numbering, results>>

Top == Head(stack)
OnStack(x) == \E i \in DOMAIN stack : stack[i].of = x
Push(x) ==
  /\ stack' = <<[of |-> x, at |-> 1]>> \o stack
  /\ UNCHANGED <<status, pass, cur, todo, failed>>
Return ==
  /\ stack' = IF Len(stack) = 1 THEN <<>>
              ELSE <<[stack[2] EXCEPT !.at = @ + 1]>> \o SubSeq(stack, 3, Len(stack))
  /\ UNCHANGED <<status, pass, cur, todo, failed>>
Advance ==
  /\ stack' = <<[Top EXCEPT !.at = @ + 1]>> \o Tail(stack)
  /\ UNCHANGED <<status, pass, cur, todo, failed>>
-----------------------------------------------------------------------------
(* __cil_post_db_count_helper and __cil_post_db_array_helper *)

CountDatum_EveryNode ==
  /\ At(COUNT, Numbered)
  /\ LET f == Here.kind  IN
       /\ value' = [value EXCEPT ![Here.d] = num[f]]
       /\ num' = [num EXCEPT ![f] = @ + 1]
  /\ GoOn
  /\ UNCHANGED <<policy, valTo, count, array, seusers, results>>

(* Several nodes can share a datum: only the head of its list counts *)
CountDatum ==
  /\ At(COUNT, Numbered)
  /\ LET f == Here.kind
         first == policy.head[Here.d] = cur
     IN  /\ value' = IF first THEN [value EXCEPT ![Here.d] = num[f]] ELSE value
         /\ num' = IF first THEN [num EXCEPT ![f] = @ + 1] ELSE num
  /\ GoOn
  /\ UNCHANGED <<policy, valTo, count, array, seusers, results>>

CountCon ==
  /\ At(COUNT, Con)
  /\ count' = [count EXCEPT ![Here.kind] = @ + 1]
  /\ GoOn
  /\ UNCHANGED <<policy, value, num, valTo, array, seusers, results>>

(* An entry that no node has written is not initialized *)
IndexDatum ==
  /\ At(ARRAY, Numbered)
  /\ LET f == Here.kind
         old == IF valTo[f] = <<>> THEN [v \in 0..(num[f] - 1) |-> NULL] ELSE valTo[f]
     IN  IF value[Here.d] < num[f]
         THEN /\ valTo' = [valTo EXCEPT ![f] = [old EXCEPT ![value[Here.d]] = Here.d]]
              /\ GoOn
         ELSE Stop("undefined") /\ UNCHANGED valTo
  /\ UNCHANGED <<policy, value, num, count, array, seusers, results>>

IndexCon ==
  /\ At(ARRAY, Con)
  /\ IF Len(array[Here.kind]) < count[Here.kind]
     THEN array' = [array EXCEPT ![Here.kind] = Append(@, Here.d)] /\ GoOn
     ELSE Stop("undefined") /\ UNCHANGED array
  /\ UNCHANGED <<policy, value, num, valTo, count, seusers, results>>

(* A default mapping goes behind all the others *)
IndexSeuser ==
  /\ At(ARRAY, {"selinuxuser", "selinuxuserdefault"})
  /\ seusers' = IF Here.kind = "selinuxuser" THEN <<cur>> \o seusers
                ELSE Append(seusers, cur)
  /\ GoOn
  /\ UNCHANGED <<policy, value, num, valTo, count, array, results>>
-----------------------------------------------------------------------------
(* Expressions *)

CatRange_Open(lo, hi) == value[lo]..(value[hi] - 1)

(* __cil_expr_range_to_bitmap_helper: nothing if the ends are reversed *)
CatRange(lo, hi) == value[lo]..value[hi]

(* __cil_expr_to_bitmap: `of' is the bitmap of a datum *)
ExprBits(e, max, of) ==
  LET F[x \in DOMAIN policy.expr] ==
        LET n == policy.expr[x]
            Operand(i) == IF n.args[i].e # 0 THEN F[n.args[i].e] ELSE of[n.args[i].d]
        IN  CASE n.op = "list" -> UNION {Operand(i) : i \in DOMAIN n.args}
              [] n.op = "or" -> Operand(1) \cup Operand(2)
              [] n.op = "and" -> Operand(1) \cap Operand(2)
              [] n.op = "xor" -> (Operand(1) \ Operand(2)) \cup (Operand(2) \ Operand(1))
              [] n.op = "not" -> (0..(max - 1)) \ Operand(1)
              [] n.op = "all" -> 0..(max - 1)
              [] n.op = "range" -> CatRange(n.args[1].d, n.args[2].d)
  IN  F[e]

(* The nodes of an expression, itself included *)
Parts(e) ==
  LET F[x \in DOMAIN policy.expr] ==
        {x} \cup UNION {F[policy.expr[x].args[i].e] :
                          i \in {j \in DOMAIN policy.expr[x].args : policy.expr[x].args[j].e # 0}}
  IN  F[e]
(* Its data, in the order in which the code comes to them *)
Operands(e) ==
  LET F[x \in DOMAIN policy.expr] ==
        FlattenSeq([i \in DOMAIN policy.expr[x].args |->
                      IF policy.expr[x].args[i].e # 0 THEN F[policy.expr[x].args[i].e]
                      ELSE <<policy.expr[x].args[i].d>>])
  IN  F[e]
UsesRange(e) == \E x \in Parts(e) : policy.expr[x].op = "range"
-----------------------------------------------------------------------------
(* __cil_post_db_attr_helper *)

Evaluating(p) == status = "walk" /\ pass = p /\ stack # <<>>
Pop == stack' = Tail(stack) /\ UNCHANGED <<status, pass, cur, todo, failed>>

VisitAttribute ==
  /\ At(ATTR, Handled[ATTR])
  /\ Evaluate(IF bits[Here.d] = NULL THEN <<Here.d>> ELSE <<>>)
  /\ UNCHANGED <<policy, numbering, results>>

(* The expression of the attribute on top of the stack that comes next, and *)
(* the attributes in it that have no bitmap yet                             *)
AttrDone == Top.at > Len(policy.attr[Top.of])
AttrExpr == policy.attr[Top.of][Top.at]
PendingAttrs == SelectSeq(Operands(AttrExpr), LAMBDA d : d \in Attribute /\ bits[d] = NULL)
DatumBits == [d \in DOMAIN policy.flavor |-> IF d \in Attribute THEN bits[d] ELSE {value[d]}]

(* attr->types is allocated, empty, before its expressions are evaluated *)
AllocateAttribute ==
  /\ Evaluating(ATTR) /\ bits[Top.of] = NULL
  /\ bits' = [bits EXCEPT ![Top.of] = {}]
  /\ UNCHANGED <<policy, walk, numbering, roleTypes, perms, catList>>

DescendIntoAttribute_Skips ==
  /\ Evaluating(ATTR) /\ bits[Top.of] # NULL /\ ~ AttrDone /\ PendingAttrs # <<>>
  /\ bits' = [bits EXCEPT ![PendingAttrs[1]] = {}]
  /\ UNCHANGED <<policy, walk, numbering, roleTypes, perms, catList>>

DescendIntoAttribute ==
  /\ Evaluating(ATTR) /\ bits[Top.of] # NULL /\ ~ AttrDone /\ PendingAttrs # <<>>
  /\ Push(PendingAttrs[1])
  /\ UNCHANGED <<policy, numbering, results>>

(* An attribute that is still on the stack counts with what it has so far *)
AddAttributeExpr ==
  /\ Evaluating(ATTR) /\ bits[Top.of] # NULL /\ ~ AttrDone /\ PendingAttrs = <<>>
  /\ IF UsesRange(AttrExpr)
     THEN Stop("err") /\ UNCHANGED bits
     ELSE LET f == IF policy.flavor[Top.of] = "typeattribute" THEN "type" ELSE "role"
          IN  /\ bits' = [bits EXCEPT ![Top.of] = @ \cup ExprBits(AttrExpr, num[f], DatumBits)]
              /\ Advance
  /\ UNCHANGED <<policy, numbering, roleTypes, perms, catList>>

FinishAttribute ==
  /\ Evaluating(ATTR) /\ bits[Top.of] # NULL /\ AttrDone
  /\ Pop
  /\ UNCHANGED <<policy, numbering, results>>
-----------------------------------------------------------------------------
(* __cil_post_db_roletype_helper and __cil_role_assign_types *)

NewRoleTypes_Replaced(old, types) == types

(* The bitmap of a role is allocated when its first types come *)
NewRoleTypes(old, types) == IF old = NULL THEN types ELSE old \cup types

AssignRoleTypes ==
  /\ At(ROLETYPE, {"roletype"})
  /\ LET r == Here.refs[1]
         t == Here.refs[2]
         roles == IF r \in Attribute THEN {valTo["role"][v] : v \in bits[r]} ELSE {r}
         types == IF t \in Attribute THEN bits[t] ELSE {value[t]}
     IN  IF \/ \E d \in {r, t} : d \in Attribute /\ bits[d] = NULL
            \/ r \in Attribute /\ ~ (bits[r] \subseteq DOMAIN valTo["role"])
         THEN Stop("undefined") /\ UNCHANGED roleTypes
         ELSE /\ roleTypes' = [x \in DOMAIN roleTypes |->
                                 IF x \notin roles THEN roleTypes[x]
                                 ELSE NewRoleTypes(roleTypes[x], types)]
              /\ GoOn
  /\ UNCHANGED <<policy, numbering, bits, perms, catList>>
-----------------------------------------------------------------------------
(* Class permissions: cil_verify_no_classperms_loop and                    *)
(* __cil_post_db_classperms_helper                                         *)

VisitClassperms ==
  /\ pass \in {LOOP, PERMS} /\ At(pass, Handled[pass])
  /\ Evaluate(Here.refs)
  /\ UNCHANGED <<policy, numbering, results>>

List == policy.list[Top.of]
AtItem(p) == Evaluating(p) /\ List # NULL /\ Top.at <= Len(List)
Item == List[Top.at]

(* The list of a set or map permission that no statement has filled *)
UnfilledList ==
  /\ \E p \in {LOOP, PERMS} : Evaluating(p)
  /\ List = NULL
  /\ Stop("undefined")
  /\ UNCHANGED <<policy, numbering, results>>

LeaveList ==
  /\ \E p \in {LOOP, PERMS} : Evaluating(p)
  /\ List # NULL /\ Top.at > Len(List)
  /\ Return
  /\ UNCHANGED <<policy, numbering, results>>

(* __cil_verify_classperms returns at the first class of a list *)
CheckClass ==
  /\ AtItem(LOOP) /\ Item.cp # NULL
  /\ Return
  /\ UNCHANGED <<policy, numbering, results>>

(* A list that comes back to the one the check began with is an error, one *)
(* that comes back to another is followed for ever                         *)
FollowList ==
  /\ \E p \in {LOOP, PERMS} : AtItem(p)
  /\ Item.cp = NULL
  /\ CASE pass = LOOP /\ Item.to = stack[Len(stack)].of ->
            failed' = TRUE /\ stack' = <<>> /\ UNCHANGED <<status, pass, cur, todo>>
       [] OnStack(Item.to) /\ ~ (pass = LOOP /\ Item.to = stack[Len(stack)].of) ->
            Stop("diverges")
       [] OTHER -> Push(Item.to)
  /\ UNCHANGED <<policy, numbering, results>>

(* The permissions of a map class are all checked before the error is seen *)
FailLoop ==
  /\ status = "walk" /\ todo = <<>> /\ stack = <<>> /\ failed
  /\ Stop("err")
  /\ UNCHANGED <<policy, numbering, results>>

(* cil_verify_is_list *)
IsList(e) == policy.expr[e].op = "list" /\ \A i \in DOMAIN policy.expr[e].args : policy.expr[e].args[i].e = 0

PermTable_ClassOnly(class) == policy.permsOf[class]

(* The permissions that __perm_bits_to_list is called for *)
PermTable(class) ==
  policy.permsOf[class] \cup
  (IF policy.common[class] = NULL THEN {} ELSE policy.permsOf[policy.common[class]])

(* __evaluate_classperms.  A class's permissions are numbered after those  *)
(* of its common, and num_perms counts both                                *)
PermsOf(c) ==
  LET class == policy.cp[c].class
      e == policy.cp[c].e
      of == [p \in DOMAIN policy.permValue |-> {policy.permValue[p]}]
  IN  IF IsList(e) THEN ToSet(Operands(e))
      ELSE {p \in PermTable(class) : policy.permValue[p] \in ExprBits(e, policy.numPerms[class], of)}

EvaluateClassperms ==
  /\ AtItem(PERMS) /\ Item.cp # NULL
  /\ IF UsesRange(policy.cp[Item.cp].e)
     THEN Stop("err") /\ UNCHANGED perms
     ELSE perms' = [perms EXCEPT ![Item.cp] = PermsOf(Item.cp)] /\ Advance
  /\ UNCHANGED <<policy, numbering, bits, roleTypes, catList>>
-----------------------------------------------------------------------------
(* __cil_post_db_cat_helper and __evaluate_cat_expression *)

IsCatset(d) == d \in DOMAIN policy.catset
IsCatList(c) == /\ IsList(policy.cats[c])
                /\ \A d \in ToSet(Operands(policy.cats[c])) : ~ IsCatset(d)

VisitCats ==
  /\ At(CATS, CatsKind)
  /\ Evaluate(Here.refs)
  /\ UNCHANGED <<policy, numbering, results>>

(* cats->evaluated, or a plain list, which stays as it is *)
Settled(c) == catList[c] # NULL \/ IsCatList(c)
CatsOf(c) == IF catList[c] # NULL THEN catList[c] ELSE Operands(policy.cats[c])

(* What the evaluation of an expression comes to, in order: its data, and   *)
(* each range as a whole                                                    *)
CatSteps(e) ==
  LET F[x \in DOMAIN policy.expr] ==
        IF policy.expr[x].op = "range" THEN <<[d |-> NULL, e |-> x]>>
        ELSE FlattenSeq([i \in DOMAIN policy.expr[x].args |->
                           LET a == policy.expr[x].args[i] IN IF a.e # 0 THEN F[a.e] ELSE <<a>>])
  IN  F[e]
CatsetInRange(e) == \E i \in 1..2 : IsCatset(policy.expr[e].args[i].d)

(* What holds the evaluation up: a range of sets, a set that has to be      *)
(* evaluated first, and one that was evaluated to nothing, whose NULL list  *)
(* the loop over it follows                                                 *)
HeldUpBy ==
  SelectSeq(CatSteps(policy.cats[Top.of]),
            LAMBDA s : IF s.e # 0 THEN CatsetInRange(s.e)
                       ELSE /\ IsCatset(s.d)
                            /\ ~ Settled(policy.catset[s.d]) \/ catList[policy.catset[s.d]] = <<>>)
MustDescend ==
  /\ HeldUpBy # <<>> /\ HeldUpBy[1].e = 0
  /\ ~ Settled(policy.catset[HeldUpBy[1].d])

SkipCats ==
  /\ Evaluating(CATS) /\ Settled(Top.of)
  /\ Pop
  /\ UNCHANGED <<policy, numbering, results>>

DescendIntoCatset ==
  /\ Evaluating(CATS) /\ ~ Settled(Top.of) /\ MustDescend
  /\ LET c == policy.catset[HeldUpBy[1].d]
     IN  IF OnStack(c) THEN Stop("diverges") ELSE Push(c)
  /\ UNCHANGED <<policy, numbering, results>>

CatBits == [d \in DOMAIN policy.flavor |->
              IF IsCatset(d) THEN {value[x] : x \in ToSet(CatsOf(policy.catset[d]))} ELSE {value[d]}]

(* The bits become a list in the order of catorder again *)
EvaluateCats ==
  /\ Evaluating(CATS) /\ ~ Settled(Top.of) /\ ~ MustDescend
  /\ IF HeldUpBy # <<>>
     THEN Stop(IF HeldUpBy[1].e # 0 THEN "err" ELSE "undefined") /\ UNCHANGED catList
     ELSE LET b == ExprBits(policy.cats[Top.of], Len(policy.catorder), CatBits)
          IN  /\ catList' = [catList EXCEPT ![Top.of] =
                               SelectSeq(policy.catorder, LAMBDA d : value[d] \in b)]
              /\ Pop
  /\ UNCHANGED <<policy, numbering, bits, roleTypes, perms>>
-----------------------------------------------------------------------------
(* The sorting of labelling statements *)

(* Lexicographic comparison: negative, zero or positive *)
Compare(s, t) ==
  LET differ == {i \in DOMAIN s : s[i] # t[i]}
  IN  IF differ = {} THEN 0 ELSE LET i == Min(differ) IN s[i] - t[i]

Signed(x) == IF x % Word < Word \div 2 THEN x % Word ELSE (x % Word) - Word

RangeCompare_LowFirst(a, b) == IF a.low # b.low THEN a.low - b.low ELSE Signed((a.high - a.low) - (b.high - b.low))

(* The difference of two unsigned sizes, taken as an int *)
RangeCompare(a, b) ==
  LET diff == Signed((a.high - a.low) - (b.high - b.low))
  IN  IF diff # 0 THEN diff ELSE a.low - b.low

(* cil_post_fc_fill_data; a path is made of "c", plain characters, "m",    *)
(* characters of a regular expression, and "\", which takes the next along *)
FillData(path) ==
  FoldLeft(LAMBDA s, c : IF s.escaped THEN [s EXCEPT !.escaped = FALSE]
                         ELSE IF c = "m" THEN [s EXCEPT !.meta = 1, !.len = @ + 1]
                         ELSE [meta |-> s.meta, len |-> s.len + 1, escaped |-> c = "\\",
                               stem |-> s.stem + 1 - s.meta],
           [meta |-> 0, stem |-> 0, len |-> 0, escaped |-> FALSE], path)

FileKey(con) == LET d == FillData(con.path) IN <<-d.meta, d.stem, d.len, con.type>>

(* genfscon (fs, path), netifcon (interface), nodecon (IPv6, minus mask,   *)
(* address), pirqcon, pcidevicecon (number), fsuse (type, fs) by their key *)
ConCompare(k, a, b) ==
  CASE k \in RangeCon -> RangeCompare(a, b)
    [] k = "filecon" -> Compare(FileKey(a), FileKey(b))
    [] OTHER -> Compare(a.key, b.key)

ConKinds == <<"netifcon", "genfscon", "portcon", "nodecon", "fsuse", "filecon",
              "pirqcon", "iomemcon", "ioportcon", "pcidevicecon">>

(* qsort may leave what compares equal in any order, and everything if the  *)
(* comparison goes round in a circle, as that of ranges may                 *)
Sort ==
  /\ Idle /\ pass = SORT /\ cur \in DOMAIN ConKinds
  /\ LET k == ConKinds[cur]
         con(i) == policy.con[array[k][i]]
         orders == {f \in [DOMAIN array[k] -> DOMAIN array[k]] : IsInjective(f)}
         Sorted(s) == \A i, j \in DOMAIN s : i < j => ConCompare(k, con(s[i]), con(s[j])) <= 0
     IN  \E s \in orders :
           /\ (\E t \in orders : Sorted(t)) => Sorted(s)
           /\ array' = [array EXCEPT ![k] = [i \in DOMAIN s |-> @[s[i]]]]
  /\ GoOn
  /\ UNCHANGED <<policy, value, num, valTo, count, seusers, results>>

Finish ==
  /\ Idle /\ pass = SORT /\ cur \notin DOMAIN ConKinds
  /\ Stop("ok")
  /\ UNCHANGED <<policy, numbering, results>>

Terminal == status # "walk" /\ UNCHANGED vars

Step ==
  \/ Skip \/ PassBy \/ EndWalk \/ Start \/ FollowNull
  \/ CountDatum \/ CountCon \/ IndexDatum \/ IndexCon \/ IndexSeuser
  \/ VisitAttribute \/ AllocateAttribute \/ DescendIntoAttribute
  \/ AddAttributeExpr \/ FinishAttribute \/ AssignRoleTypes
  \/ VisitClassperms \/ UnfilledList \/ LeaveList \/ CheckClass \/ FollowList
  \/ FailLoop \/ EvaluateClassperms
  \/ VisitCats \/ SkipCats \/ DescendIntoCatset \/ EvaluateCats
  \/ Sort \/ Finish
Next == Step \/ Terminal

Spec == Init /\ [][Next]_vars /\ WF_vars(Step)
-----------------------------------------------------------------------------
(* Properties *)

Live(n) == ~ InTemplate(policy.nodes, n)
LiveNodes(kinds) == {n \in Node : Live(n) /\ policy.nodes[n].kind \in kinds}
LiveData(f) == {policy.nodes[n].d : n \in LiveNodes({f})}

(* cil_post_db_count_helper and cil_post_db_array_helper agree: once both  *)
(* have run, the types and roles that are not in a macro or abstract block *)
(* are numbered 0 .. num-1 without gaps, val_to_type and val_to_role are   *)
(* the inverse, and every array of labelling statements has exactly the    *)
(* room that was counted                                                   *)
ValuesExact ==
  pass > ARRAY /\ status # "undefined" =>
    /\ \A f \in Numbered :
         /\ {value[d] : d \in LiveData(f)} = 0..(num[f] - 1)
         /\ Cardinality(LiveData(f)) = num[f]
         /\ \A d \in LiveData(f) : valTo[f][value[d]] = d
    /\ \A k \in Con : /\ Len(array[k]) = count[k]
                      /\ ToSet(array[k]) = {policy.nodes[n].d : n \in LiveNodes({k})}

(* An expression selects datum x, where `in' says whether an operand does *)
Selects(e, x, in) ==
  LET F[y \in DOMAIN policy.expr] ==
        LET n == policy.expr[y]
            Sel(i) == IF n.args[i].e # 0 THEN F[n.args[i].e] ELSE in[n.args[i].d]
        IN  CASE n.op = "list" -> \E i \in DOMAIN n.args : Sel(i)
              [] n.op = "or" -> Sel(1) \/ Sel(2)
              [] n.op = "and" -> Sel(1) /\ Sel(2)
              [] n.op = "xor" -> Sel(1) # Sel(2)
              [] n.op = "not" -> ~ Sel(1)
              [] n.op = "all" -> TRUE
              [] n.op = "range" ->
                   \E i, j, k \in DOMAIN policy.catorder :
                     /\ i <= j /\ j <= k /\ policy.catorder[j] = x
                     /\ policy.catorder[i] = n.args[1].d /\ policy.catorder[k] = n.args[2].d
  IN  F[e]

AttrUses(a) == UNION {ToSet(Operands(policy.attr[a][i])) \cap Attribute : i \in DOMAIN policy.attr[a]}
(* Whether x is in attribute a, with references followed k deep *)
InAttribute(x, k) ==
  LET F[j \in 0..k] ==
        [d \in DOMAIN policy.flavor |->
           IF d \notin Attribute THEN d = x
           ELSE j > 0 /\ \E i \in DOMAIN policy.attr[d] : Selects(policy.attr[d][i], x, F[j - 1])]
  IN  F[k]
Depth == Cardinality(Attribute)
Rank(a) == LET F[k \in 0..Depth] == IF k = 0 THEN {a} ELSE F[k - 1] \cup UNION {AttrUses(b) : b \in F[k - 1]}
           IN  UNION {AttrUses(b) : b \in F[Depth]} \cup AttrUses(a)
Acyclic == \A a \in Attribute : a \notin Rank(a)

(* __evaluate_type_expression: whatever the order in which attributes are   *)
(* declared and refer to each other, the bitmap of each holds the values of *)
(* exactly the types (or roles) its expressions select by name              *)
AttributesExact ==
  pass > ATTR /\ status # "undefined" /\ Acyclic =>
    \A f \in Numbered : \A a \in LiveData(f \o "attribute") :
      bits[a] = {value[x] : x \in {y \in LiveData(f) : InAttribute(y, Depth)[a]}}

(* __cil_role_assign_types: a role's types are those of every roletype      *)
(* statement that names it or an attribute it is in, and no others          *)
RolesExact ==
  pass > ROLETYPE /\ status # "undefined" /\ Acyclic =>
    \A r \in LiveData("role") :
      (IF roleTypes[r] = NULL THEN {} ELSE roleTypes[r]) =
        {value[t] : t \in {x \in LiveData("type") :
            \E n \in LiveNodes({"roletype"}) :
              /\ InAttribute(r, Depth)[policy.nodes[n].refs[1]]
              /\ InAttribute(x, Depth)[policy.nodes[n].refs[2]]}}

(* __evaluate_classperms: the permissions of every rule, set and map entry  *)
(* that the walk reaches are those of the class and its common that the     *)
(* expression selects by name                                               *)
PermsExact ==
  pass > PERMS /\ status # "undefined" =>
    \A n \in LiveNodes(Handled[PERMS]) : \A o \in ToSet(policy.nodes[n].refs) :
      \A i \in DOMAIN policy.list[o] :
        LET c == policy.list[o][i].cp
            class == policy.cp[c].class
            common == policy.common[class]
        IN  c # NULL =>
              perms[c] = {p \in policy.permsOf[class] \cup
                                (IF common = NULL THEN {} ELSE policy.permsOf[common]) :
                            Selects(policy.cp[c].e, p, [q \in DOMAIN policy.permValue |-> q = p])}

(* The categories of a set by name, sets in it followed k deep *)
InCatset(x, k) ==
  LET F[j \in 0..k] ==
        [d \in DOMAIN policy.flavor |->
           IF ~ IsCatset(d) THEN d = x
           ELSE j > 0 /\ Selects(policy.cats[policy.catset[d]], x, F[j - 1])]
  IN  F[k]

(* __evaluate_cat_expression: what is evaluated selects the same categories *)
(* as the expression did, in the order of catorder, however category sets   *)
(* lean on each other                                                       *)
CatsExact ==
  status = "ok" =>
    \A n \in LiveNodes(CatsKind) : \A c \in ToSet(policy.nodes[n].refs) :
      /\ Settled(c)
      /\ \A x \in ToSet(policy.catorder) :
           x \in ToSet(CatsOf(c)) <=>
             Selects(policy.cats[c], x, InCatset(x, Cardinality(DOMAIN policy.catset)))
      /\ catList[c] # NULL => catList[c] = SelectSeq(policy.catorder, LAMBDA d : d \in ToSet(catList[c]))

Before(k, c, d) == \E i, j \in DOMAIN array[k] : i < j /\ array[k][i] = c /\ array[k][j] = d

Inside(a, b) == b.low <= a.low /\ a.high <= b.high /\ <<a.low, a.high>> # <<b.low, b.high>>
(* Of two ranges, the one inside the other comes first *)
InnerFirst(k) ==
  \A c, d \in ToSet(array[k]) : Inside(policy.con[c], policy.con[d]) => Before(k, c, d)
(* The sizes of all ranges of kind k are less than half a word apart *)
SizesNear(k) ==
  \A c, d \in ToSet(array[k]) :
    LET a == policy.con[c]  b == policy.con[d]
    IN  (a.high - a.low) - (b.high - b.low) < Word \div 2

(* What cil_post_db sorts for: of two ranges of ports, memory or I/O ports,  *)
(* the one inside the other comes first, as long as no two sizes are half a *)
(* word apart; of two netmasks of one family the longer one comes first; of *)
(* two file contexts the one with the longer fixed stem comes last, and the *)
(* defaults come after all other mappings of users                          *)
SpecificFirst ==
  status = "ok" =>
    /\ \A k \in RangeCon : SizesNear(k) => InnerFirst(k)
    /\ \A c, d \in ToSet(array["nodecon"]) :
         LET a == policy.con[c].key  b == policy.con[d].key
         IN  a[1] = b[1] /\ a[2] < b[2] => Before("nodecon", c, d)
    /\ \A c, d \in ToSet(array["filecon"]) :
         LET a == FillData(policy.con[c].path)  b == FillData(policy.con[d].path)
         IN  a.meta >= b.meta /\ a.stem < b.stem => Before("filecon", c, d)
    /\ \A i, j \in DOMAIN seusers :
         policy.nodes[seusers[i]].kind = "selinuxuserdefault" /\ i < j
           => policy.nodes[seusers[j]].kind = "selinuxuserdefault"

(* The same of ranges without exception: for sizes half a word apart the    *)
(* difference of the comparisons of ports and memory has the wrong sign     *)
RangesInnerFirst == status = "ok" => \A k \in RangeCon : InnerFirst(k)

(* cil_verify_no_classperms_loop: "Failed to verify no loops in class       *)
(* permissions" is the end of every policy with such a loop                 *)
NoClasspermsLoop == status = "diverges" => pass = CATS

(* __cil_verify_user reports "User %s does not have a default level": a     *)
(* policy with such a user ends with an error                               *)
UserReported == status # "undefined"
=============================================================================
