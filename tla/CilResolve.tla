----------------------------- MODULE CilResolve -----------------------------
(***************************************************************************)
(* The resolution passes CALL2 to MISC3 of cil_resolve_ast, the disabling  *)
(* of optionals and the re-resolution it forces                            *)
(* (src/src/cil_resolve_ast.c, src/src/cil_reset_ast.c).                   *)
(*                                                                         *)
(* The tree.  `ast' is the tree as the passes up to CALL1 leave it: a      *)
(* sequence of nodes in document order, the order of cil_tree_walk.  The   *)
(* nodes below n are n+1 .. ast[n].last.  A node has a kind, the datum it  *)
(* declares and the names it refers to.  A datum is a member of some       *)
(* symtab (a type, a class, a user ...).  A name in a statement is the     *)
(* sequence of the data it could mean, innermost scope first, which is     *)
(* the order in which cil_resolve_name looks into the enclosing blocks; a  *)
(* name that is a macro parameter is the argument of a call node instead.  *)
(* The first name of a statement that changes a datum is the changed one.  *)
(***************************************************************************)
EXTENDS OrderedLists

CONSTANTS Datum,      \* everything a statement can declare
          NoDatum,    \* the NULL pointer
          Flavor,     \* the flavor of a datum
          NumPerms,   \* the permissions a class or common declares itself
          Ast,        \* the trees to resolve
          Word        \* perm->value is an unsigned int: a number modulo Word

ASSUME WordAssumption == Word \in Nat \ {0}

ASSUME DatumAssumption == /\ IsFiniteSet(Datum)
                          /\ NoDatum \notin Datum
                          /\ NumPerms \in [Datum -> 0..(Word - 1)]

NameRef  == [call : Nat, arg : Nat, scopes : Seq(Datum)]
TreeNode == [kind : STRING, decl : Datum \cup {NoDatum}, last : Nat,
             names : Seq(NameRef)]

(* Subtrees are nested, an optional declares a datum, an alias is declared *)
(* without names, the copy of a macro's body is below the call that its    *)
(* parameters are the arguments of, and a common is not a macro parameter  *)
IsTree(a) ==
  /\ a \in Seq(TreeNode)
  /\ \A n \in DOMAIN a :
       /\ a[n].last \in n..Len(a)
       /\ \A m \in (n + 1)..a[n].last : a[m].last <= a[n].last
       /\ a[n].kind = "optional" => a[n].decl \in Datum
       /\ a[n].kind \in {"aliasactual", "classcommon"} => Len(a[n].names) = 2
       /\ a[n].kind = "classcommon" => a[n].names[2].call = 0
       /\ a[n].kind = "alias" => a[n].names = <<>>
       /\ \A i \in DOMAIN a[n].names : LET c == a[n].names[i].call IN
            /\ c \in 0..(n - 1)
            /\ c # 0 => /\ a[c].kind = "call" /\ n <= a[c].last
                        /\ a[n].names[i].arg \in DOMAIN a[c].names

ASSUME AstAssumption == \A a \in Ast : IsTree(a)

VARIABLES ast,        \* the tree
          alive,      \* the nodes that have not been destroyed
          disabled,   \* the optionals (data) with enabled == CIL_FALSE
          status,     \* "walk" | "orders" | "endpass" | "ok" | "err" | "undefined"
          pass,       \* extra_args.pass
          cur,        \* the node the walk comes to next
          optstack,   \* extra_args.optstack, innermost optional first
          changed,    \* *extra_args.changed
          res,        \* what the names of a statement were resolved to
          link,       \* what statements have attached to a datum, by field
          actual,     \* alias->actual
          used,       \* the attributes with used == CIL_TRUE
          lists,      \* extra_args.{sid,class,cat,sensitivity}order_lists
          order,      \* db->{sid,class,cat,sensitivity}order
          ordered,    \* the data with ordered == CIL_TRUE
          value,      \* the value of the first permission of a class or common
          nperms      \* class->num_perms

tree  == <<ast, alive, disabled>>
walk  == <<status, pass, cur, optstack, changed>>
orders == <<lists, order, ordered>>
perms == <<value, nperms>>
data  == <<res, link, actual, used, orders, perms>>
vars  == <<tree, walk, data>>
-----------------------------------------------------------------------------
(* enum cil_pass *)
CALL1  == 7
CALL2  == 8
ALIAS1 == 9
ALIAS2 == 10
MISC1  == 11
MLS    == 12
MISC2  == 13
MISC3  == 14

OrderFlavor == {"sid", "class", "cat", "sens"}
OrderKind == [sid |-> "sidorder", class |-> "classorder",
              cat |-> "catorder", sens |-> "sensitivityorder"]

(* Kinds of nodes whose subtree the walk skips in these passes *)
SkippedKind == {"macro", "abstractblock"}
(* Kinds of nodes that nothing is done for in these passes *)
PlainKind == {"block", "optional", "condblock", "decl"} \cup SkippedKind

(* The pass in which __cil_resolve_ast_node resolves a kind of statement *)
PassOf(kind) ==
  CASE kind = "call" -> CALL2
    [] kind = "aliasactual" -> ALIAS1
    [] kind = "alias" -> ALIAS2
    [] kind \in {"sidorder", "classorder", "catorder", "sensitivityorder",
                 "booleanif"} -> MISC1
    [] kind = "catset" -> MLS
    [] kind \in {"senscat", "classcommon"} -> MISC2
    [] OTHER -> MISC3

(* The fields of data that statements write.  Each but "classperms" is     *)
(* cleared by cil_reset_ast.                                               *)
Field == {"bounds", "common", "context", "expr", "roles", "level", "range",
          "cats", "classperms"}

Node == 1..Len(ast)
Below(n) == (n + 1)..ast[n].last
Optional == {n \in Node : ast[n].kind = "optional"}
(* o is an optional around n *)
Around(n) == {o \in Optional : n \in Below(o)}
IsInnermost(o, n) == o \in Around(n) /\ \A p \in Around(n) : p <= o
(* The walk comes to n, and n is a statement that some pass resolves *)
Resolved(n) == /\ ast[n].kind \notin PlainKind
               /\ \A s \in Node : n \in Below(s) => ast[s].kind \notin SkippedKind
(* n is in a macro or an abstract block, which are only copied from *)
Template(n) == \E s \in Node : n \in Below(s) /\ ast[s].kind \in SkippedKind
-----------------------------------------------------------------------------
(* Name resolution *)

(* cil_symtab_get_datum finds d: a node that declares it is in the tree *)
DeclaredIn(d, nodes) == \E n \in nodes : ast[n].decl = d
Declared(d) == DeclaredIn(d, alive)

(* cil_resolve_name does not return SEPOL_ENOENT *)
FoundIn(name, nodes) ==
  name.call # 0 \/ \E i \in DOMAIN name.scopes : DeclaredIn(name.scopes[i], nodes)
AllFoundIn(n, nodes) ==
  \A i \in DOMAIN ast[n].names : FoundIn(ast[n].names[i], nodes)
AllFound(n) == AllFoundIn(n, alive)

(* "If this datum is an alias, then return the actual node" *)
Deref(d) == IF d # NoDatum /\ Flavor[d] = "alias" /\ actual[d] # NoDatum
            THEN actual[d] ELSE d

(* __cil_resolve_name_with_parents: the first scope that declares the name,*)
(* or the argument of the call that the macro parameter stands for         *)
Lookup(name) ==
  LET at == {i \in DOMAIN name.scopes : Declared(name.scopes[i])}
  IN  Deref(IF name.call # 0
            THEN IF name.arg \in DOMAIN res[name.call]
                 THEN res[name.call][name.arg] ELSE NoDatum
            ELSE name.scopes[Min(at)])

Names(n) == [i \in DOMAIN ast[n].names |-> Lookup(ast[n].names[i])]
-----------------------------------------------------------------------------
NoLinks == [d \in Datum |-> [f \in Field |-> <<>>]]
NoLists == [f \in OrderFlavor |-> <<>>]
NoOrder == [ok |-> FALSE, list |-> <<>>]

Init ==
  /\ ast \in Ast
  /\ alive = Node
  /\ disabled = {}
  /\ status = "walk" /\ pass = CALL2 /\ cur = 1
  /\ optstack = <<>> /\ changed = FALSE
  /\ res = [n \in Node |-> <<>>]
  /\ link = NoLinks
  /\ actual = [d \in Datum |-> NoDatum]
  /\ used = {}
  /\ lists = NoLists /\ order = [f \in OrderFlavor |-> NoOrder]
  /\ ordered = {}
  /\ value = [d \in Datum |-> 0]
  /\ nperms = NumPerms
-----------------------------------------------------------------------------
(* The walk *)

OptionalEnded_OneEarly == optstack # <<>> /\ cur >= ast[Head(optstack)].last

(* The last child of the innermost open optional has been dealt with *)
OptionalEnded == optstack # <<>> /\ cur > ast[Head(optstack)].last

(* cil_tree_walk_core is about to process node cur *)
AtNode == status = "walk" /\ ~ OptionalEnded /\ cur \in alive

(* A destroyed node is in no child list: the walk passes over it *)
PassOver ==
  /\ status = "walk" /\ ~ OptionalEnded
  /\ cur \in Node \ alive
  /\ cur' = cur + 1
  /\ UNCHANGED <<tree, status, pass, optstack, changed, data>>

Advance_PushEmpty ==
  /\ cur' = cur + 1
  /\ optstack' = IF ast[cur].kind = "optional" THEN <<cur>> \o optstack ELSE optstack
  /\ UNCHANGED <<status, pass, changed>>

(* After process_node the walk goes on to the first child, for which       *)
(* __cil_resolve_ast_first_child_helper pushes an optional, or to the next *)
(* node.                                                                   *)
Advance ==
  /\ cur' = cur + 1
  /\ optstack' = IF ast[cur].kind = "optional" /\ Below(cur) \cap alive # {}
                 THEN <<cur>> \o optstack ELSE optstack
  /\ UNCHANGED <<status, pass, changed>>

(* process_node returns something other than SEPOL_OK: compilation fails *)
Stop(outcome) ==
  /\ status' = outcome
  /\ UNCHANGED <<pass, cur, optstack, changed, data>>

(* Macros and abstract blocks are skipped (CIL_TREE_SKIP_HEAD) *)
SkipSubtree ==
  /\ AtNode /\ ast[cur].kind \in SkippedKind
  /\ cur' = ast[cur].last + 1
  /\ UNCHANGED <<tree, status, pass, optstack, changed, data>>

(* A node that this pass does nothing for *)
PassBy ==
  /\ AtNode /\ ast[cur].kind \notin SkippedKind
  /\ ast[cur].kind \in PlainKind \/ PassOf(ast[cur].kind) # pass
  /\ Advance
  /\ UNCHANGED <<tree, data>>

(* This pass resolves node cur, a statement of kind k *)
AtStatement(k) == AtNode /\ ast[cur].kind = k /\ pass = PassOf(k)

DisableOptional_Outermost ==
  /\ AtStatement(ast[cur].kind) /\ ast[cur].kind \notin PlainKind
  /\ ~ AllFound(cur)
  /\ optstack # <<>>
  /\ disabled' = disabled \cup {ast[optstack[Len(optstack)]].decl}
  /\ Advance
  /\ UNCHANGED <<ast, alive, data>>

(* A name is missing (SEPOL_ENOENT) inside an optional: it is disabled *)
DisableOptional ==
  /\ AtStatement(ast[cur].kind) /\ ast[cur].kind \notin PlainKind
  /\ ~ AllFound(cur)
  /\ optstack # <<>>
  /\ disabled' = disabled \cup {ast[Head(optstack)].decl}
  /\ Advance
  /\ UNCHANGED <<ast, alive, data>>

(* A name is missing outside every optional *)
FailMissing ==
  /\ AtStatement(ast[cur].kind) /\ ast[cur].kind \notin PlainKind
  /\ ~ AllFound(cur)
  /\ optstack = <<>>
  /\ Stop("err")
  /\ UNCHANGED tree

LeaveOptional_NoRestart ==
  /\ status = "walk" /\ OptionalEnded
  /\ LET o == Head(optstack)
     IN  alive' = IF ast[o].decl \in disabled THEN alive \ Below(o) ELSE alive
  /\ optstack' = Tail(optstack)
  /\ UNCHANGED <<ast, disabled, status, pass, cur, changed, data>>

(* __cil_resolve_ast_last_child_helper at the end of an optional *)
LeaveOptional ==
  /\ status = "walk" /\ OptionalEnded
  /\ LET o == Head(optstack)
     IN  IF ast[o].decl \in disabled
         THEN alive' = alive \ Below(o) /\ changed' = TRUE
         ELSE UNCHANGED <<alive, changed>>
  /\ optstack' = Tail(optstack)
  /\ UNCHANGED <<ast, disabled, status, pass, cur, data>>
-----------------------------------------------------------------------------
(* What the handlers of __cil_resolve_ast_node have in common *)

Own == Names(cur)
Target == Own[1]
Others == {Own[i] : i \in 2..Len(Own)}
Attributes == {d \in ToSet(Own) \ {NoDatum} : Flavor[d] = "attribute"}

(* All names of node cur, a statement of kind k, are found in its pass *)
Handle(k) == AtStatement(k) /\ AllFound(cur) /\ UNCHANGED tree

(* The statement keeps what it resolved to itself *)
KeepNames == res' = [res EXCEPT ![cur] = Own] /\ Advance

(* A field that may be set once; a second statement is an error *)
BindOnce(d, f) ==
  IF link[d][f] # <<>> THEN Stop("err")
  ELSE /\ link' = [link EXCEPT ![d][f] = <<cur>>]
       /\ KeepNames
       /\ UNCHANGED <<actual, used, orders, perms>>

(* A field that the last statement wins *)
Overwrite(d, f) ==
  /\ link' = [link EXCEPT ![d][f] = <<cur>>]
  /\ KeepNames
  /\ UNCHANGED <<actual, used, orders, perms>>

(* A field that is a list *)
Attach(d, f) ==
  /\ link' = [link EXCEPT ![d][f] = Append(@, cur)]
  /\ KeepNames
  /\ UNCHANGED <<actual, used, orders, perms>>

(* A rule: cil_type_used marks the attributes it names, when it is valid *)
KeepRule(valid, marks) ==
  IF ~ valid THEN Stop("err")
  ELSE /\ used' = used \cup marks
       /\ KeepNames
       /\ UNCHANGED <<link, actual, orders, perms>>
-----------------------------------------------------------------------------
(* The handlers *)

(* cil_resolve_call2: the arguments of a macro call *)
ResolveCall2 == Handle("call") /\ KeepRule(TRUE, {})

(* cil_resolve_aliasactual.  cil_resolve_name follows an alias that is     *)
(* bound already, so what is taken for the alias may be a type, whose      *)
(* bounds lie where an alias has its actual.                               *)
ResolveAliasActual ==
  /\ Handle("aliasactual")
  /\ CASE Flavor[Target] = "alias" ->
            IF actual[Target] # NoDatum THEN Stop("err")
            ELSE /\ actual' = [actual EXCEPT ![Target] = Own[2]]
                 /\ KeepNames
                 /\ UNCHANGED <<link, used, orders, perms>>
       [] Flavor[Target] = "type" -> BindOnce(Target, "bounds")
       [] OTHER -> Stop("undefined")

(* cil_resolve_alias_to_actual: follows the chain of aliases from d to a   *)
(* type; an unbound alias on the way is a NULL pointer that is followed.   *)
ResolveAliasToActual ==
  LET d == ast[cur].decl
      next(a) == IF a = NoDatum THEN NoDatum ELSE actual[a]
      hop[k \in Nat] == IF k = 0 THEN d ELSE next(hop[k - 1])
      steps == 1..Cardinality(Datum)
      types == {actual[a] : a \in Datum} \cap {t \in Datum : Flavor[t] = "type"}
      ends  == {k \in steps : hop[k] \in types}
  IN  /\ Handle("alias")
      /\ IF actual[d] = NoDatum THEN Stop("err")
         ELSE IF ends # {}
           THEN /\ actual' = [actual EXCEPT ![d] = hop[Min(ends)]]
                /\ KeepNames
                /\ UNCHANGED <<link, used, orders, perms>>
         ELSE IF \E k \in steps : hop[k] = NoDatum THEN Stop("undefined")
         ELSE Stop("err")

(* cil_resolve_sidorder, _classorder, _catorder, _sensitivityorder *)
ResolveOrder(f) ==
  /\ Handle(OrderKind[f])
  /\ IF f = "cat" /\ \E d \in ToSet(Own) : Flavor[d] # "cat" THEN Stop("err")
     ELSE /\ lists' = [lists EXCEPT ![f] = Append(@, Own)]
          /\ KeepNames
          /\ UNCHANGED <<link, actual, used, order, ordered, perms>>

(* cil_resolve_boolif *)
ResolveBoolif == Handle("booleanif") /\ KeepRule(TRUE, {})

(* cil_resolve_catset: a category set may not contain itself *)
ResolveCatset ==
  Handle("catset") /\ KeepRule(ast[cur].decl \notin ToSet(Own), {})

(* cil_resolve_senscat *)
ResolveSenscat == Handle("senscat") /\ Attach(Target, "cats")

(* cil_resolve_classcommon: the permissions of the class come after those  *)
(* of the common                                                           *)
ResolveClasscommon ==
  /\ Handle("classcommon")
  /\ IF link[Target]["common"] # <<>> THEN Stop("err")
     ELSE /\ link' = [link EXCEPT ![Target]["common"] = <<cur>>]
          /\ value' = [value EXCEPT ![Target] = (@ + nperms[Own[2]]) % Word]
          /\ nperms' = [nperms EXCEPT ![Target] = (@ + nperms[Own[2]]) % Word]
          /\ KeepNames
          /\ UNCHANGED <<actual, used, orders>>

(* cil_resolve_typeattributeset, cil_resolve_roleattributeset *)
ResolveAttributeSet(k, flavor) ==
  /\ Handle(k)
  /\ IF Flavor[Target] # flavor \/ Target \in Others THEN Stop("err")
     ELSE Attach(Target, "expr")

(* cil_resolve_bounds: the child is the target, the parent the other name *)
ResolveBounds ==
  /\ Handle("bounds")
  /\ IF Attributes # {} THEN Stop("err") ELSE BindOnce(Target, "bounds")

(* cil_resolve_classpermissionset and cil_resolve_classmapping *)
ResolveClasspermissionset == Handle("classpermissionset") /\ Attach(Target, "classperms")
ResolveClassmapping == Handle("classmapping") /\ Attach(Target, "classperms")

(* cil_resolve_userrole, cil_resolve_userlevel, cil_resolve_userrange *)
ResolveUserrole  == Handle("userrole") /\ Attach(Target, "roles")
ResolveUserlevel == Handle("userlevel") /\ Overwrite(Target, "level")
ResolveUserrange == Handle("userrange") /\ Overwrite(Target, "range")

(* cil_resolve_sidcontext *)
ResolveSidcontext ==
  /\ Handle("sidcontext")
  /\ IF Attributes # {} THEN Stop("err") ELSE BindOnce(Target, "context")

(* cil_resolve_avrule; a neverallow does not mark attributes as used *)
ResolveAvrule(k) ==
  Handle(k) /\ KeepRule(TRUE, IF k = "neverallow" THEN {} ELSE Attributes)

(* cil_resolve_type_rule and cil_resolve_nametypetransition: the last name *)
(* is the result and has to be a type                                      *)
ResolveTypeRule(k) ==
  Handle(k) /\ KeepRule(Flavor[Own[Len(Own)]] = "type", Attributes)

(* cil_resolve_typepermissive *)
ResolveTypepermissive ==
  Handle("typepermissive") /\ KeepRule(Flavor[Target] = "type", {})

(* cil_resolve_rangetransition *)
ResolveRangetransition == Handle("rangetransition") /\ KeepRule(TRUE, Attributes)

(* cil_resolve_roletype, cil_resolve_roletransition, cil_resolve_roleallow: *)
(* the result of a roletransition, its last name, has to be a role          *)
ResolveRoleRule(k) ==
  Handle(k) /\ KeepRule(k = "roletransition" => Flavor[Own[Len(Own)]] = "role",
                        Attributes)

(* cil_resolve_constrain, cil_resolve_validatetrans *)
ResolveConstrain(k) == Handle(k) /\ KeepRule(TRUE, Attributes)

(* cil_resolve_userprefix, cil_resolve_selinuxuser *)
ResolveUserRule(k) == Handle(k) /\ KeepRule(TRUE, {})

(* cil_resolve_level, cil_resolve_levelrange *)
ResolveLevel(k) == Handle(k) /\ KeepRule(TRUE, {})

(* cil_resolve_context: the type of a context is not an attribute *)
ResolveContext == Handle("context") /\ KeepRule(Attributes = {}, {})

(* cil_resolve_filecon, _portcon and _genfscon, whose contexts may be      *)
(* anonymous; cil_resolve_nodecon also compares the address families       *)
ResolveLabel(k) == Handle(k) /\ KeepRule(Attributes = {}, {})
ResolveNodecon ==
  Handle("nodecon") /\ KeepRule(/\ Attributes = {}
                                /\ Flavor[Own[1]] = Flavor[Own[2]], {})

(* cil_resolve_netifcon, _pirqcon, _iomemcon, _ioportcon, _pcidevicecon    *)
(* and _fsuse                                                              *)
ResolveDeviceLabel(k) == Handle(k) /\ KeepRule(Attributes = {}, {})

(* cil_resolve_default, cil_resolve_defaultrange *)
ResolveDefault(k) == Handle(k) /\ KeepRule(TRUE, {})

ResolveStatement ==
  \/ ResolveCall2 \/ ResolveAliasActual \/ ResolveAliasToActual
  \/ \E f \in OrderFlavor : ResolveOrder(f)
  \/ ResolveBoolif \/ ResolveCatset \/ ResolveSenscat \/ ResolveClasscommon
  \/ ResolveAttributeSet("typeattributeset", "attribute")
  \/ ResolveAttributeSet("roleattributeset", "roleattribute")
  \/ ResolveBounds \/ ResolveClasspermissionset \/ ResolveClassmapping
  \/ ResolveUserrole \/ ResolveUserlevel \/ ResolveUserrange
  \/ ResolveSidcontext \/ ResolveTypepermissive \/ ResolveRangetransition
  \/ ResolveContext \/ ResolveNodecon
  \/ \E k \in {"avrule", "neverallow"} : ResolveAvrule(k)
  \/ \E k \in {"type_rule", "nametypetransition"} : ResolveTypeRule(k)
  \/ \E k \in {"roletype", "roletransition", "roleallow"} : ResolveRoleRule(k)
  \/ \E k \in {"constrain", "validatetrans"} : ResolveConstrain(k)
  \/ \E k \in {"userprefix", "selinuxuser"} : ResolveUserRule(k)
  \/ \E k \in {"level", "levelrange"} : ResolveLevel(k)
  \/ \E k \in {"filecon", "portcon", "genfscon"} : ResolveLabel(k)
  \/ \E k \in {"netifcon", "pirqcon", "iomemcon", "ioportcon", "pcidevicecon",
               "fsuse"} : ResolveDeviceLabel(k)
  \/ \E k \in {"default", "defaultrange"} : ResolveDefault(k)
-----------------------------------------------------------------------------
(* The end of a pass *)

EndWalk ==
  /\ status = "walk" /\ optstack = <<>> /\ cur > Len(ast)
  /\ status' = IF pass = MISC1 THEN "orders" ELSE "endpass"
  /\ UNCHANGED <<tree, pass, cur, optstack, changed, data>>

(* __cil_verify_ordered, on the whole tree *)
AllOrdered(f, items) ==
  \A n \in alive : LET d == ast[n].decl
                   IN  d # NoDatum /\ Flavor[d] = f => d \in items

(* The four calls of __cil_ordered_lists_merge_all after pass MISC1,       *)
(* cil_set_cat_values, which follows its argument even if it is NULL, and  *)
(* the four calls of __cil_verify_ordered.  The lists may hold data that   *)
(* an optional destroyed in this very pass took along.                     *)
MergeOrders ==
  LET merged == [f \in OrderFlavor |-> MergeAll(lists[f])]
      items  == UNION {ToSet(merged[f].list) : f \in OrderFlavor}
      freed  == \E f \in OrderFlavor : \E k \in DOMAIN lists[f] :
                   \E d \in ToSet(lists[f][k]) : ~ Declared(d)
  IN  /\ status = "orders"
      /\ order' = merged
      /\ ordered' = ordered \cup items
      /\ lists' = [f \in OrderFlavor |-> IF merged[f].ok THEN <<>> ELSE lists[f]]
      /\ status' = IF freed \/ ~ merged["cat"].ok THEN "undefined"
                   ELSE IF \A f \in OrderFlavor : AllOrdered(f, ordered \cup items)
                     THEN "endpass" ELSE "err"
      /\ UNCHANGED <<tree, pass, cur, optstack, changed, res, link, actual,
                     used, perms>>

(* cil_reset_ast follows pointers from what is left of the tree: from a    *)
(* class to its common, from a statement with class permissions to the     *)
(* named set it uses, from such a set to the statements that fill it.      *)
ClassPermsKind == {"avrule", "neverallow", "constrain", "classmapping", "classpermissionset"}
ResetFollowsFreed ==
  \/ \E d \in Datum : /\ Declared(d) /\ Flavor[d] = "class"
                       /\ link[d]["common"] # <<>>
                       /\ ~ Declared(res[link[d]["common"][1]][2])
  \/ \E n \in alive : /\ ast[n].kind \in ClassPermsKind
                       /\ \E i \in 2..Len(res[n]) :
                            /\ Flavor[res[n][i]] = "classpermission"
                            /\ ~ Declared(res[n][i])
  \/ \E d \in Datum : /\ Declared(d)
                       /\ ~ ToSet(link[d]["classperms"]) \subseteq alive

(* The classes whose common is d *)
ClassesOf(d) == {c \in Datum : /\ Declared(c) /\ Flavor[c] = "class"
                               /\ link[c]["common"] # <<>>
                               /\ res[link[c]["common"][1]][2] = d}

ResetPermValues_Signed(v, n, k) == v - k * n

(* __class_reset_perm_values, called k times: n is subtracted *)
ResetPermValues(v, n, k) == (v + k * (Word - (n % Word))) % Word

(* cil_reset_class: the permission values of the common go down, the       *)
(* number of permissions of the class goes back                            *)
ResetClasses ==
  /\ value' = [d \in Datum |->
                 ResetPermValues(value[d], nperms[d], Cardinality(ClassesOf(d)))]
  /\ nperms' = [d \in Datum |->
                  IF Declared(d) /\ Flavor[d] = "class" /\ link[d]["common"] # <<>>
                  THEN ResetPermValues(nperms[d], nperms[res[link[d]["common"][1]][2]], 1)
                  ELSE nperms[d]]

ResetData_KeepLinks ==
  /\ actual' = [d \in Datum |-> NoDatum]
  /\ used' = {}
  /\ ordered' = {}
  /\ link' = [d \in Datum |-> [f \in Field |->
                 IF f \in {"classperms", "roles"} THEN link[d][f] ELSE <<>>]]
  /\ ResetClasses

(* cil_reset_alias, _user, _role, _roleattr, _type, _typeattr, _sens, _cat *)
(* and _sid.  cil_reset_classpermission and cil_reset_perm leave the list  *)
(* of class permissions as it is.                                          *)
ResetData ==
  /\ link' = [d \in Datum |-> [f \in Field |->
                 IF f = "classperms" THEN link[d][f] ELSE <<>>]]
  /\ actual' = [d \in Datum |-> NoDatum]
  /\ used' = {}
  /\ ordered' = {}
  /\ ResetClasses

Restart_FromAlias1 ==
  /\ status = "endpass" /\ changed /\ pass > CALL1
  /\ IF pass >= MISC1
     THEN lists' = NoLists /\ order' = [f \in OrderFlavor |-> NoOrder]
     ELSE UNCHANGED <<lists, order>>
  /\ ResetData
  /\ status' = "walk" /\ pass' = ALIAS1 /\ cur' = 1
  /\ changed' = FALSE /\ optstack' = <<>>
  /\ UNCHANGED <<tree, res>>

Restart_SamePass ==
  /\ status = "endpass" /\ changed /\ pass > CALL1
  /\ ResetData
  /\ status' = "walk" /\ cur' = 1 /\ changed' = FALSE /\ optstack' = <<>>
  /\ UNCHANGED <<tree, pass, lists, order, res>>

(* "Need to re-resolve because an optional was disabled": back to the pass *)
(* after CALL1                                                             *)
Restart ==
  /\ status = "endpass" /\ changed /\ pass > CALL1
  /\ IF ResetFollowsFreed
     THEN Stop("undefined")
     ELSE /\ IF pass >= MISC1
             THEN lists' = NoLists /\ order' = [f \in OrderFlavor |-> NoOrder]
             ELSE UNCHANGED <<lists, order>>
          /\ ResetData
          /\ status' = "walk" /\ pass' = CALL1 + 1 /\ cur' = 1
          /\ changed' = FALSE /\ optstack' = <<>>
          /\ UNCHANGED res
  /\ UNCHANGED tree

NextPass ==
  /\ status = "endpass" /\ ~ changed /\ pass < MISC3
  /\ status' = "walk" /\ pass' = pass + 1 /\ cur' = 1 /\ optstack' = <<>>
  /\ UNCHANGED <<tree, changed, data>>

(* __cil_verify_initsids, which follows db->sidorder even if it is NULL *)
Finish ==
  LET sids == order["sid"]
  IN  /\ status = "endpass" /\ ~ changed /\ pass = MISC3
      /\ status' = IF ~ sids.ok THEN "undefined"
                   ELSE IF sids.list = <<>> THEN "err"
                   ELSE IF \E d \in ToSet(sids.list) : link[d]["context"] = <<>>
                     THEN "err" ELSE "ok"
      /\ UNCHANGED <<tree, pass, cur, optstack, changed, data>>

Terminal == {"ok", "err", "undefined"}

Done == status \in Terminal /\ UNCHANGED vars

Next == \/ PassOver \/ SkipSubtree \/ PassBy
        \/ DisableOptional \/ FailMissing \/ ResolveStatement \/ LeaveOptional
        \/ EndWalk \/ MergeOrders \/ Restart \/ NextPass \/ Finish
        \/ Done

(* cil_resolve_ast is one sequential computation: it takes its next step *)
Spec == Init /\ [][Next]_vars /\ WF_vars(Next)
-----------------------------------------------------------------------------
(* Properties *)

Status == {"walk", "orders", "endpass"} \cup Terminal

(* The type invariant: every variable of cil_resolve_ast holds a value of  *)
(* its type (OrdersExact says what the orders hold).                       *)
TypeOK ==
  /\ alive \subseteq Node
  /\ disabled \subseteq Datum
  /\ status \in Status
  /\ pass \in CALL2..MISC3
  /\ cur \in 1..(Len(ast) + 1)
  /\ optstack \in Seq(Optional)
  /\ changed \in BOOLEAN
  /\ res \in [Node -> Seq(Datum \cup {NoDatum})]
  /\ link \in [Datum -> [Field -> Seq(Node)]]
  /\ actual \in [Datum -> Datum \cup {NoDatum}]
  /\ used \subseteq Datum
  /\ value \in [Datum -> 0..(Word - 1)]
  /\ nperms \in [Datum -> 0..(Word - 1)]

(* When the walk is at a node, the stack of optionals holds exactly the    *)
(* optionals around that node, innermost first, so a missing name disables *)
(* the innermost optional around its statement and no other.               *)
OptstackExact ==
  AtNode => /\ ToSet(optstack) = Around(cur)
            /\ \A i, j \in DOMAIN optstack : i < j => optstack[j] < optstack[i]

(* The nodes of the tree if just the optionals in S are enabled *)
AliveUnder(S) == {n \in Node : \A o \in Around(n) : ast[o].decl \in S}

(* The optionals in S can be enabled together: every statement in them     *)
(* finds its names in the tree that is then left                           *)
SelfSupporting(S) ==
  LET kept == AliveUnder(S)
  IN  \A o \in Optional : ast[o].decl \in S =>
        \A n \in Below(o) : IsInnermost(o, n) /\ Resolved(n) => AllFoundIn(n, kept)

OptionalData == {ast[o].decl : o \in Optional}

(* No optional is disabled that could stay: whatever the order of passes,  *)
(* statements and restarts, a set of optionals that support each other is  *)
(* never destroyed (disabling in __cil_resolve_ast_node_helper).           *)
NotDisabledNeedlessly ==
  \A S \in SUBSET OptionalData : AliveUnder(S) \subseteq alive \/ ~ SelfSupporting(S)

(* Optionals that share their datum are inside the same optionals *)
TwinsAlike ==
  \A o, p \in Optional : ast[o].decl = ast[p].decl =>
    /\ {ast[q].decl : q \in Around(o)} = {ast[q].decl : q \in Around(p)}
    /\ Template(o) <=> Template(p)

(* In an accepted policy an optional is there as a whole or not at all,    *)
(* and those that are there are the largest set that is self-supporting    *)
(* ("All CIL statements in the optional block must be satisfied").  If a   *)
(* twin of an optional is inside another optional, that one may take it    *)
(* along before or after it has disabled both, as the passes have it.      *)
OptionalsExact ==
  status = "ok" /\ TwinsAlike =>
    alive = AliveUnder(UNION {S \in SUBSET OptionalData : SelfSupporting(S)})

(* In an accepted policy every statement that is left finds all its names  *)
(* in the tree that is left, also those resolved in passes long before the *)
(* last optional was disabled.                                             *)
AllResolved ==
  status = "ok" => \A n \in alive : Resolved(n) => AllFound(n)

(* In an accepted policy every statement holds what its names mean in the  *)
(* final tree: nothing refers to a datum that went with an optional, and a *)
(* name that such a datum had shadowed means the outer datum again.        *)
(* (Arguments of calls are resolved before aliases are followed.)          *)
RefsCurrent ==
  status = "ok" =>
    \A n \in alive : Resolved(n) /\ ast[n].kind \notin {"aliasactual", "call"} =>
       /\ AllFound(n) /\ res[n] = Names(n)
       /\ \A i \in DOMAIN res[n] : res[n][i] \in Datum /\ Declared(res[n][i])

FieldOf(k) ==
  CASE k \in {"typeattributeset", "roleattributeset"} -> "expr"
    [] k = "senscat" -> "cats"
    [] k = "classcommon" -> "common"
    [] k = "bounds" -> "bounds"
    [] k = "sidcontext" -> "context"
    [] k = "userrole" -> "roles"
    [] k = "userlevel" -> "level"
    [] k = "userrange" -> "range"
    [] k \in {"classpermissionset", "classmapping"} -> "classperms"
    [] OTHER -> "none"

(* n writes field f of datum d: also the bounds of a type that is taken    *)
(* for the alias of an aliasactual                                         *)
Writes(n, d, f) ==
  /\ \/ FieldOf(ast[n].kind) = f
     \/ ast[n].kind = "aliasactual" /\ f = "bounds" /\ Flavor[d] = "type"
  /\ res[n][1] = d

(* s has the statements of W in document order; for a field that is one    *)
(* value, only the last of them counts                                     *)
Listing(s, W) ==
  /\ ToSet(s) = W
  /\ \A i, j \in DOMAIN s : i < j => s[i] < s[j]
LastOf(s, W) ==
  \/ W = {} /\ s = <<>>
  \/ \E m \in W : s = <<m>> /\ \A n \in W : n <= m

(* Field f of d is what the statements of the final tree say               *)
Carries(d, f) ==
  LET W == {n \in alive : Resolved(n) /\ Writes(n, d, f)}
  IN  IF f \in {"level", "range"} THEN LastOf(link[d][f], W) ELSE Listing(link[d][f], W)

UsingKind == {"avrule", "type_rule", "nametypetransition", "rangetransition",
              "roletype", "roletransition", "roleallow", "constrain", "validatetrans"}

(* In an accepted policy the data carry exactly what the statements of the *)
(* final tree say, each once and in document order, however many rounds    *)
(* of resolution there were: cil_reset_ast undoes a round completely.      *)
LinksExact ==
  status = "ok" =>
    /\ \A d \in Datum, f \in Field \ {"classperms"} : Declared(d) => Carries(d, f)
    /\ used = {d \in Datum : Flavor[d] = "attribute" /\ \E n \in alive :
                 Resolved(n) /\ ast[n].kind \in UsingKind /\ d \in ToSet(res[n])}

(* In an accepted policy the four orders are the merge of the order        *)
(* statements of the final tree, and every sid, class, category and        *)
(* sensitivity that is left is ordered (__cil_ordered_lists_reset before a *)
(* new round).  No flag of an earlier round is left when lists are merged. *)
OrdersExact ==
  /\ status = "orders" => ordered = {}
  /\ status = "ok" =>
    \A f \in OrderFlavor :
      LET stmts == {n \in alive : Resolved(n) /\ ast[n].kind = OrderKind[f]}
          seq   == SetToSortSeq(stmts, <)
      IN  /\ order[f] = MergeAll([i \in DOMAIN seq |-> res[seq[i]]])
          /\ AllOrdered(f, ToSet(order[f].list))

(* The permission values of an accepted policy: those of a class follow    *)
(* those of its common, those of a common start at 0 ("during a re-resolve,*)
(* we need to reset the common", cil_reset_class).                         *)
PermValuesExact ==
  status = "ok" =>
    \A d \in Datum : Declared(d) =>
      value[d] = IF Flavor[d] = "class" /\ link[d]["common"] # <<>>
                 THEN NumPerms[res[link[d]["common"][1]][2]] ELSE 0

(* A class permission set or map permission of an accepted policy holds    *)
(* what the statements of the final tree put into it, each once.           *)
ClasspermsExact ==
  status = "ok" =>
    \A d \in Datum : Declared(d) => Carries(d, "classperms")

(* "Alias cannot bind more than one value": two statements that bind the   *)
(* same alias are never accepted (cil_resolve_aliasactual).                *)
AliasBindsOnce ==
  status = "ok" =>
    \A m, n \in alive : /\ ast[m].kind = "aliasactual" /\ ast[n].kind = "aliasactual"
                        /\ ast[m].names[1] = ast[n].names[1]
                        => m = n

(* An accepted policy has all four orders: "Unable to merge ordered list"  *)
(* is an error (cil_resolve_ast after pass MISC1).                         *)
OrdersFormed == status = "ok" => \A f \in OrderFlavor : order[f].ok

(* Re-resolution makes progress: it is only asked for by a step that       *)
(* destroys at least one node (__cil_resolve_ast_last_child_helper).       *)
ChangeDestroys == [][changed' /\ ~ changed => alive' # alive]_vars
=============================================================================
