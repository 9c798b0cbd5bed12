----------------------------- MODULE CilBinary -----------------------------
(***************************************************************************)
(* cil_binary_create: the compiled database is written into a policydb of  *)
(* libsepol (src/src/cil_binary.c).  Three walks over the tree: the first  *)
(* declares names, the second writes what only needs names (transitions,   *)
(* neverallows, constraints, MLS), the third the rules that neverallows    *)
(* are checked against, conditional ones included.  Labelling statements   *)
(* follow from the sorted arrays.                                          *)
(*                                                                         *)
(* A policy is the tree after post processing, a sequence of nodes in      *)
(* document order with the nodes below n at n+1 .. last, and:              *)
(*   flavor, value, valTo, bits   CIL's own numbering of types and roles,  *)
(*           and the evaluated bitmaps of attributes                       *)
(*   list    class permission lists: items [class, perms] or [list]        *)
(*   map     the permission lists of a class map                           *)
(*   expr    boolean and constraint expressions, an operator and operands  *)
(* Names of the code are data; a number in the policydb is the place of a  *)
(* name in its symbol table, so that a mix-up of the two numberings shows. *)
(***************************************************************************)
EXTENDS Integers, Sequences, SequencesExt, FiniteSets

CONSTANTS NULL,
          Policies,       \* post-processed trees
          PERMS_PER_CLASS \* bits of an access vector

ASSUME PermsPerClass == PERMS_PER_CLASS \in Nat \ {0}

(***************************************************************************)
(* What the phases before leave.  Only the first node of a datum is        *)
(* written; abstract blocks and macros are not entered.                    *)
(***************************************************************************)
Declares == {"type", "typeattribute", "role", "user", "bool", "policycap", "catalias",
             "sens", "typealias", "sensalias"}
Skipped(n) == n.op = "macro" \/ (n.op = "block" /\ n.abstract)
InTemplate(nodes, n) == \E s \in 1..n : Skipped(nodes[s]) /\ n <= nodes[s].last

(* The tree: lists nest, a booleanif holds no declarations and nothing     *)
(* about users and roles.                                                  *)
PeopleOps == {"type", "role", "user", "userrole", "roleallow", "sens"}
Nested(p) ==
  \A n \in 1..Len(p.nodes) :
    /\ p.nodes[n].last \in n..Len(p.nodes)
    /\ \A m \in n..p.nodes[n].last : p.nodes[m].last <= p.nodes[n].last
    /\ p.nodes[n].op = "booleanif" =>
         \A m \in n..p.nodes[n].last : p.nodes[m].op \notin PeopleOps

(* The nodes of a datum are in one scope and what is known of the datum is *)
(* known at each of them.                                                  *)
SharedData(p) ==
  \A n \in 1..Len(p.nodes) :
    LET here  == p.nodes[n]
        head  == p.head[here.d]
        first == p.nodes[head] IN
    here.op \in Declares =>
      /\ head \in 1..Len(p.nodes) /\ first.op = here.op /\ first.d = here.d
      /\ InTemplate(p.nodes, head) <=> InTemplate(p.nodes, n)
      /\ here.op \in {"type", "role", "user"} => first.bounds = here.bounds
      /\ here.op = "user" => first.level = here.level /\ first.range = here.range

(* Resolution has followed aliases.                                        *)
AliasNames(p) == {p.nodes[n].d : n \in {m \in 1..Len(p.nodes) :
                                          p.nodes[m].op \in {"typealias", "sensalias", "catalias"}}}
CatsOf(p, cs) == UNION {IF c \in DOMAIN p.catset THEN p.catset[c] ELSE {c} : c \in cs}
NoAlias(p) ==
  LET Plain(ds) == ds \cap AliasNames(p) = {}
      PlainLevel(l) == Plain({l.sens} \cup CatsOf(p, l.cats)) IN
  \A n \in 1..Len(p.nodes) :
    LET here == p.nodes[n] IN
    /\ here.op = "type" => Plain({here.d, here.bounds})
    /\ here.op = "role" => Plain({p.valTo["type"][i + 1] : i \in p.types[here.d]})
    /\ here.op = "user" => /\ PlainLevel(here.level)
                           /\ PlainLevel(here.range.low) /\ PlainLevel(here.range.high)
    /\ here.op = "sens" => PlainLevel([sens |-> here.d, cats |-> p.sensCats[here.d]])

IsPolicy(p) == /\ Len(p.nodes) \in Nat /\ DOMAIN p.nodes = 1..Len(p.nodes)
               /\ Nested(p) /\ SharedData(p) /\ NoAlias(p)

ASSUME PoliciesAssumption == \A p \in Policies : IsPolicy(p)

VARIABLES policy,
          status,       \* "walk" | "ok" | "err" | "undefined"
          why,          \* what made it "err": "missing" | "conflict" | "neverallow" | "invalid"
          pass,         \* 1..3 the walks, 4 what follows them
          cur,          \* the node the walk comes to next
          todo,         \* the nodes of a booleanif still to write, with their branch
          sym,          \* p_types .. p_levels: the names in the order of their values
          alias,        \* alias data: [tab, name, value]
          typeAttr,     \* type_attr_map: {<<type value, attribute value>>}
          rbac,         \* role->types, user->roles, bounds, permissive_map, role_allow
          levels,       \* MLS: defined levels, user levels and ranges
          te,           \* te_avtab: key -> data
          newest,       \* te_cond_avtab, type rules: key -> result inserted last
          cond,         \* cond_list, oldest first: [expr, true, false]
          enabled,      \* conditional rules whose AVTAB_ENABLED is set
          nevers,       \* neverallows, newest first
          trans,        \* filename_trans, role_tr, range_tr: key -> result
          constraints,  \* class -> its constraints and validatetrans
          defaults,     \* class -> default_user .. default_range
          ocon          \* ocontexts and genfs

walk == <<status, why, pass, cur, todo>>
names == <<sym, alias, typeAttr>>
people == <<rbac, levels>>
rules == <<te, newest, cond, enabled, nevers>>
classes == <<constraints, defaults>>
vars == <<policy, walk, names, people, rules, trans, classes, ocon>>

Node == policy.nodes[cur]
Empty == [x \in {} |-> NULL]
Upd(f, k, v) == [x \in DOMAIN f \cup {k} |-> IF x = k THEN v ELSE f[x]]

(***************************************************************************)
(* __cil_policydb_init: classes, and with MLS categories and               *)
(* sensitivities, take their values from the order lists.  object_r is     *)
(* role 1 of every policydb.                                               *)
(***************************************************************************)
Init ==
  /\ policy \in Policies
  /\ status = "walk" /\ why = NULL /\ pass = 1 /\ cur = 1 /\ todo = <<>>
  /\ sym = [types |-> <<>>, roles |-> <<"object_r">>, users |-> <<>>, bools |-> <<>>,
            classes |-> policy.classorder,
            cats |-> IF policy.mls THEN policy.catorder ELSE <<>>,
            levels |-> IF policy.mls THEN policy.sensorder ELSE <<>>]
  /\ alias = {} /\ typeAttr = {}
  /\ rbac = [types |-> {}, roles |-> {}, bounds |-> {}, permissive |-> {},
             allow |-> {}, polcap |-> {}]
  /\ levels = [defined |-> {}, user |-> {}]
  /\ te = Empty /\ newest = Empty /\ cond = <<>> /\ enabled = {} /\ nevers = <<>>
  /\ trans = [name |-> Empty, role |-> Empty, range |-> Empty]
  /\ constraints = [c \in ToSet(policy.classorder) |-> [constrain |-> {}, validate |-> {}]]
  /\ defaults = Empty
  /\ ocon = Empty

(* __cil_get_sepol_*_datum: a hash table search by qualified name.         *)
Known(tab, d) == d \in ToSet(sym[tab]) \/ \E a \in alias : a.tab = tab /\ a.name = d
Value(tab, d) == IF d \in ToSet(sym[tab])
                   THEN CHOOSE i \in DOMAIN sym[tab] : sym[tab][i] = d
                   ELSE (CHOOSE a \in alias : a.tab = tab /\ a.name = d).value

(* __cil_expand_type, __cil_expand_role: CIL values of what a name stands  *)
(* for, and the data they are the values of.                               *)
ExpandBits(d) ==
  IF policy.flavor[d] \in {"typeattribute", "roleattribute"}
    THEN policy.bits[d]
    ELSE {policy.value[d]}
Expand(kind, d) == {policy.valTo[kind][i + 1] : i \in ExpandBits(d)}

(* __cil_avrule_expand and its kin: the classes with permissions behind a  *)
(* list, through sets and class maps.                                      *)
Items[l \in DOMAIN policy.list] ==
  UNION {IF "list" \in DOMAIN it THEN Items[it.list] ELSE {it} : it \in ToSet(policy.list[l])}

(* cil_expand_class: a class, or all the classes of a class map.           *)
ExpandClass(c) ==
  IF policy.flavor[c] = "class"
    THEN {c}
    ELSE {it.class : it \in UNION {Items[l] : l \in policy.map[c]}}

(* __cil_perms_to_datum: permissions of the common come first, the class's *)
(* own ones after them.                                                    *)
CommonPerms(c) == IF policy.common[c] = NULL THEN <<>> ELSE policy.perms[policy.common[c]]
PermBit(c, p) ==
  IF p \in ToSet(policy.perms[c])
    THEN Len(CommonPerms(c)) + CHOOSE i \in DOMAIN policy.perms[c] : policy.perms[c][i] = p
    ELSE CHOOSE i \in DOMAIN CommonPerms(c) : CommonPerms(c)[i] = p
PermData(c, ps) == {PermBit(c, p) : p \in ps}

--------------------------------------------------------------------------
(* The walks.                                                              *)
IsFirst(n) == n.op \in Declares => policy.head[n.d] = cur

Walking == status = "walk" /\ pass <= 3 /\ todo = <<>> /\ cur <= Len(policy.nodes)
Advance == cur' = cur + 1 /\ UNCHANGED <<policy, status, why, pass, todo>>
Fail(reason) ==
  /\ status' = "err" /\ why' = reason
  /\ UNCHANGED <<policy, pass, cur, todo, names, people, rules, trans, classes, ocon>>

(* A failure whose cleanup destroys a bitmap that was never initialised:   *)
(* whatever is on the stack there is taken for a list to free.             *)
FailUninitialised ==
  /\ status' \in {"err", "undefined"} /\ why' = "missing"
  /\ UNCHANGED <<policy, pass, cur, todo, names, people, rules, trans, classes, ocon>>

Written(p) ==
  CASE p = 1 -> {"role", "type", "typeattribute", "policycap", "user", "bool", "catalias", "sens"}
    [] p = 2 -> {"type", "typealias", "typepermissive", "typeattribute", "sensalias", "role",
                 "user", "userrole", "typerule", "avrule", "roletransition",
                 "nametypetransition", "constrain", "mlsconstrain", "validatetrans",
                 "mlsvalidatetrans", "rangetransition", "default"}
    [] p = 3 -> {"booleanif", "avrule", "roleallow"}
MlsOnly == {"catalias", "sens", "sensalias", "mlsconstrain", "mlsvalidatetrans", "rangetransition"}

IsWritten(n) ==
  /\ n.op \in Written(pass) /\ IsFirst(n) /\ ~Skipped(n)
  /\ n.op \in MlsOnly => policy.mls
  /\ n.op = "avrule" => (n.kind = "neverallow") = (pass = 2)
At(p, ops) == Walking /\ pass = p /\ Node.op \in ops /\ IsWritten(Node)

(* __cil_binary_create_helper: what this pass does not write.              *)
PassBy ==
  /\ Walking /\ ~IsWritten(Node)
  /\ cur' = IF Skipped(Node) \/ Node.op = "booleanif" THEN Node.last + 1 ELSE cur + 1
  /\ UNCHANGED <<policy, status, why, pass, todo, names, people, rules, trans, classes, ocon>>

EndPass ==
  /\ status = "walk" /\ pass <= 3 /\ todo = <<>> /\ cur > Len(policy.nodes)
  /\ pass' = pass + 1 /\ cur' = 1
  /\ UNCHANGED <<policy, status, why, todo, names, people, rules, trans, classes, ocon>>

--------------------------------------------------------------------------
(* Pass 1: names and their values.                                         *)
Table(op) == CASE op \in {"type", "typeattribute", "typealias"} -> "types"
               [] op = "role" -> "roles"
               [] op = "user" -> "users"
               [] op = "bool" -> "bools"
               [] op = "catalias" -> "cats"
               [] op \in {"sens", "sensalias"} -> "levels"

(* Attributes no rule uses, and object_r, are not written.                 *)
Omitted(n) == \/ n.op = "typeattribute" /\ n.d \notin policy.used
              \/ n.op = "role" /\ n.d = "object_r"

(* cil_role_to_policydb, cil_type_to_policydb, cil_typeattribute_to_       *)
(* policydb, cil_user_to_policydb, cil_bool_to_policydb.                   *)
DeclareDatum ==
  /\ At(1, {"role", "type", "typeattribute", "user", "bool"})
  /\ sym' = IF Omitted(Node) THEN sym
            ELSE [sym EXCEPT ![Table(Node.op)] = Append(@, Node.d)]
  /\ Advance
  /\ UNCHANGED <<alias, typeAttr, people, rules, trans, classes, ocon>>

(* cil_typealias_to_policydb (pass 2), cil_catalias_to_policydb (pass 1),  *)
(* cil_sensalias_to_policydb (pass 2): an alias has the value of what it   *)
(* stands for, a sensitivity alias a copy of its level.                    *)
DeclareAlias ==
  /\ At(1, {"catalias"}) \/ At(2, {"typealias", "sensalias"})
  /\ LET tab == Table(Node.op) IN
     IF ~Known(tab, Node.actual) THEN Fail("missing")
     ELSE /\ alias' = alias \cup {[tab |-> tab, name |-> Node.d, value |-> Value(tab, Node.actual)]}
          /\ Advance
          /\ UNCHANGED <<sym, typeAttr, people, rules, trans, classes, ocon>>

(* __cil_cats_to_mls_level: a category set stands for its categories.      *)
Cats(cs) == CatsOf(policy, cs)
CatBits(cs) == {Value("cats", c) : c \in Cats(cs)}
KnownCats(cs) == \A c \in Cats(cs) : Known("cats", c)

(* cil_sepol_level_define: a sensitivity with all its categories.          *)
DefineLevel ==
  /\ At(1, {"sens"})
  /\ IF ~Known("levels", Node.d) \/ ~KnownCats(policy.sensCats[Node.d]) THEN Fail("missing")
     ELSE /\ levels' = [levels EXCEPT !.defined =
                          @ \cup {[sens |-> Value("levels", Node.d),
                                   cats |-> CatBits(policy.sensCats[Node.d])]}]
          /\ Advance
          /\ UNCHANGED <<names, rbac, rules, trans, classes, ocon>>

(* cil_policycap_to_policydb: sepol_polcap_getnum knows some names.        *)
SetPolicycap ==
  /\ At(1, {"policycap"})
  /\ IF Node.d \notin policy.polcaps THEN Fail("missing")
     ELSE /\ rbac' = [rbac EXCEPT !.polcap = @ \cup {Node.d}]
          /\ Advance
          /\ UNCHANGED <<names, levels, rules, trans, classes, ocon>>

--------------------------------------------------------------------------
(* Pass 2: what data are.                                                  *)
(* cil_level_to_mls_level, __cil_levelrange_to_mls_range.                  *)
KnownLevel(l) == Known("levels", l.sens) /\ KnownCats(l.cats)
KnownRange(r) == KnownLevel(r.low) /\ KnownLevel(r.high)
MlsLevel(l) == [sens |-> Value("levels", l.sens), cats |-> CatBits(l.cats)]
MlsRange(r) == [low |-> MlsLevel(r.low), high |-> MlsLevel(r.high)]

Bounded(tab, n) ==
  IF n.bounds = NULL THEN {}
  ELSE {[tab |-> tab, child |-> Value(tab, n.d), parent |-> Value(tab, n.bounds)]}
KnownBounds(tab, n) == n.bounds = NULL \/ (Known(tab, n.d) /\ Known(tab, n.bounds))

(* cil_type_bounds_to_policydb.                                            *)
WriteType ==
  /\ At(2, {"type"})
  /\ IF ~KnownBounds("types", Node) THEN Fail("missing")
     ELSE /\ rbac' = [rbac EXCEPT !.bounds = @ \cup Bounded("types", Node)]
          /\ Advance
          /\ UNCHANGED <<names, levels, rules, trans, classes, ocon>>

(* cil_typepermissive_to_policydb.                                         *)
WritePermissive ==
  /\ At(2, {"typepermissive"})
  /\ IF ~Known("types", Node.type) THEN Fail("missing")
     ELSE /\ rbac' = [rbac EXCEPT !.permissive = @ \cup {Value("types", Node.type)}]
          /\ Advance
          /\ UNCHANGED <<names, levels, rules, trans, classes, ocon>>

(* __cil_typeattr_bitmap_init.                                             *)
Reflexive == {<<i, i>> : i \in 1..Len(sym.types)}

(* cil_typeattribute_to_bitmap: the map is made at the first attribute.    *)
WriteAttribute ==
  /\ At(2, {"typeattribute"})
  /\ LET ts == Expand("type", Node.d) IN
     CASE Node.d \notin policy.used -> Advance /\ UNCHANGED typeAttr
       [] Node.d \in policy.used /\ \E t \in ts : ~Known("types", t) -> Fail("missing")
       [] OTHER -> /\ typeAttr' = typeAttr \cup Reflexive
                        \cup {<<Value("types", t), Value("types", Node.d)>> : t \in ts}
                   /\ Advance
  /\ UNCHANGED <<sym, alias, people, rules, trans, classes, ocon>>

(* cil_roletype_to_policydb: the types of a role by CIL's numbers.         *)
RoleTypes_Sepol(r) == {sym.types[i + 1] : i \in policy.types[r]}
RoleTypes(r) == {policy.valTo["type"][i + 1] : i \in policy.types[r]}

(* cil_role_bounds_to_policydb, cil_roletype_to_policydb.                  *)
WriteRole ==
  /\ At(2, {"role"})
  /\ LET ts == RoleTypes(Node.d) IN
     IF ~KnownBounds("roles", Node) \/ (\E t \in ts : ~Known("types", t)) THEN Fail("missing")
     ELSE /\ rbac' = [rbac EXCEPT
               !.bounds = @ \cup Bounded("roles", Node),
               !.types = @ \cup {<<Value("roles", Node.d), Value("types", t)>> : t \in ts}]
          /\ Advance
          /\ UNCHANGED <<names, levels, rules, trans, classes, ocon>>

(* cil_user_bounds_to_policydb, cil_userlevel_userrange_to_policydb.       *)
WriteUser ==
  /\ At(2, {"user"})
  /\ IF \/ ~KnownBounds("users", Node)
        \/ policy.mls /\ ~(KnownLevel(Node.level) /\ KnownRange(Node.range))
     THEN Fail("missing")
     ELSE /\ rbac' = [rbac EXCEPT !.bounds = @ \cup Bounded("users", Node)]
          /\ levels' = IF ~policy.mls THEN levels
                       ELSE [levels EXCEPT !.user = @ \cup
                              {[user |-> Value("users", Node.d), level |-> MlsLevel(Node.level),
                                range |-> MlsRange(Node.range)]}]
          /\ Advance
          /\ UNCHANGED <<names, rules, trans, classes, ocon>>

(* cil_userrole_to_policydb: object_r belongs to every user already.       *)
WriteUserrole ==
  /\ At(2, {"userrole"})
  /\ LET rs == Expand("role", Node.role) IN
     CASE ~Known("users", Node.user) -> FailUninitialised
       [] Known("users", Node.user) /\ (\E r \in rs : ~Known("roles", r)) -> Fail("missing")
       [] OTHER ->
          /\ rbac' = [rbac EXCEPT !.roles = @ \cup
               {<<Value("users", Node.user), Value("roles", r)>> :
                  r \in {x \in rs : Value("roles", x) # 1}}]
          /\ Advance
          /\ UNCHANGED <<names, levels, rules, trans, classes, ocon>>

(* cil_roleallow_to_policydb (pass 3).                                     *)
WriteRoleallow ==
  /\ At(3, {"roleallow"})
  /\ LET ss == Expand("role", Node.src)
         ds == Expand("role", Node.tgt) IN
     IF \E r \in ss \cup ds : ~Known("roles", r) THEN Fail("missing")
     ELSE /\ rbac' = [rbac EXCEPT !.allow =
               @ \cup {<<Value("roles", s), Value("roles", t)>> : s \in ss, t \in ds}]
          /\ Advance
          /\ UNCHANGED <<names, levels, rules, trans, classes, ocon>>

--------------------------------------------------------------------------
(* Pass 2: transitions.  A rule stands for one key for each source type,   *)
(* target type and class; a table holds one result for a key.              *)
SrcKind(n) == IF n.op = "roletransition" THEN "role" ELSE "type"
Keys(n) ==
  {[name |-> IF n.op = "nametypetransition" THEN n.name ELSE NULL,
    src |-> Value(SrcKind(n) \o "s", s), tgt |-> Value("types", t), class |-> Value("classes", c)] :
     s \in Expand(SrcKind(n), n.src), t \in Expand("type", n.tgt), c \in ExpandClass(n.class)}
KnownKeys(n) ==
  /\ \A s \in Expand(SrcKind(n), n.src) : Known(SrcKind(n) \o "s", s)
  /\ \A t \in Expand("type", n.tgt) : Known("types", t)
  /\ \A c \in ExpandClass(n.class) : Known("classes", c)

TransTable(op) == CASE op = "nametypetransition" -> "name"
                    [] op = "roletransition" -> "role"
                    [] op = "rangetransition" -> "range"
KnownResult(n) == CASE n.op = "roletransition" -> Known("roles", n.result)
                    [] n.op = "rangetransition" -> KnownRange(n.range)
                    [] OTHER -> Known("types", n.result)
Result(n) == CASE n.op = "roletransition" -> Value("roles", n.result)
               [] n.op = "rangetransition" -> MlsRange(n.range)
               [] OTHER -> Value("types", n.result)

Conflicts_Ignored(table, keys, res) == FALSE
Conflicts(table, keys, res) == \E k \in keys : k \in DOMAIN table /\ table[k] # res
AddKeys(table, keys, res) ==
  [k \in DOMAIN table \cup keys |-> IF k \in DOMAIN table THEN table[k] ELSE res]

(* The part of __cil_typetransition_to_avtab for a file name,              *)
(* cil_roletrans_to_policydb, cil_rangetransition_to_policydb.             *)
WriteTransition ==
  /\ At(2, {"nametypetransition", "roletransition", "rangetransition"})
  /\ Node.op = "nametypetransition" => Node.name # "*"
  /\ LET tab == TransTable(Node.op) IN
     CASE ~KnownKeys(Node) \/ ~KnownResult(Node) -> Fail("missing")
       [] KnownKeys(Node) /\ KnownResult(Node) /\ Conflicts(trans[tab], Keys(Node), Result(Node))
            -> Fail("conflict")
       [] OTHER -> /\ trans' = [trans EXCEPT ![tab] = AddKeys(@, Keys(Node), Result(Node))]
                   /\ Advance
                   /\ UNCHANGED <<names, people, rules, classes, ocon>>

--------------------------------------------------------------------------
(* Type rules and access vector rules.  c is NULL, or the conditional node *)
(* and the list of it the rule goes to.                                    *)
Proceed ==
  IF todo = <<>> THEN Advance
  ELSE todo' = Tail(todo) /\ UNCHANGED <<policy, status, why, pass, cur>>
OtherBranch(b) == IF b = "true" THEN "false" ELSE "true"
InList(rs, k) == \E r \in rs : r.key = k

RuleKeys(n) ==
  LET kind == IF n.op = "typerule" THEN n.kind ELSE "transition" IN
  {[kind |-> kind, src |-> k.src, tgt |-> k.tgt, class |-> k.class] : k \in Keys(n)}

(* __cil_insert_type_rule, conditional case: a key that the other list of  *)
(* the node holds is added without a look at this list.                    *)
CondConflict(c, k, res) ==
  /\ k \in DOMAIN newest /\ newest[k] # res
  /\ ~InList(cond[c.node][OtherBranch(c.branch)], k)
CondDuplicate(c, k) ==
  /\ k \in DOMAIN newest
  /\ ~InList(cond[c.node][OtherBranch(c.branch)], k)
  /\ InList(cond[c.node][c.branch], k)

(* __cil_type_rule_to_avtab with __cil_insert_type_rule.                   *)
TypeRule(n, c) ==
  LET res == Value("types", n.result)
      new == RuleKeys(n) \ DOMAIN te
      added == {k \in new : ~CondDuplicate(c, k)}
  IN
  CASE ~KnownKeys(n) \/ ~Known("types", n.result) -> Fail("missing")
    [] /\ KnownKeys(n) /\ Known("types", n.result)
       /\ \/ Conflicts(te, RuleKeys(n), res)
          \/ c # NULL /\ \E k \in new : CondConflict(c, k, res) -> Fail("conflict")
    [] OTHER ->
       /\ IF c = NULL
            THEN te' = AddKeys(te, new, res) /\ UNCHANGED <<newest, cond>>
            ELSE /\ cond' = [cond EXCEPT ![c.node][c.branch] =
                               @ \cup {[key |-> k, data |-> res] : k \in added}]
                 /\ newest' = [k \in DOMAIN newest \cup added |->
                                 IF k \in added THEN res ELSE newest[k]]
                 /\ UNCHANGED te
       /\ Proceed
       /\ UNCHANGED <<enabled, nevers, names, people, trans, classes, ocon>>

(* cil_type_rule_to_policydb, and a nametypetransition for every name.     *)
WriteTypeRule ==
  /\ At(2, {"typerule", "nametypetransition"})
  /\ Node.op = "nametypetransition" => Node.name = "*"
  /\ TypeRule(Node, NULL)

(* __cil_avrule_to_avtab: self expands the source.                         *)
Pairs(n) == IF n.tgt = "self" THEN {<<t, t>> : t \in Expand("type", n.src)}
                              ELSE {<<n.src, n.tgt>>}
Rights(n) == {r \in {[class |-> it.class, data |-> PermData(it.class, it.perms)] :
                       it \in Items[n.list]} : r.data # {}}
KnownClasses(n) == Pairs(n) # {} => \A it \in Items[n.list] : Known("classes", it.class)

(* __cil_is_type_match: CIL's own bitmaps and values.                      *)
IsTypeMatch_NoPair(d, e) ==
  d = e \/ ({policy.flavor[d], policy.flavor[e]} = {"type", "typeattribute"}
            /\ ExpandBits(d) \cap ExpandBits(e) # {})
IsTypeMatch(d, e) ==
  LET IsAttr(x) == policy.flavor[x] = "typeattribute" IN
  \/ d = e
  \/ (IsAttr(d) \/ IsAttr(e)) /\ ExpandBits(d) \cap ExpandBits(e) # {}

(* __cil_check_neverallows.                                                *)
Forbidden(pair, right) ==
  \E rs \in ToSet(nevers) : \E v \in rs :
    /\ v.class = Value("classes", right.class) /\ v.data \cap right.data # {}
    /\ IsTypeMatch(pair[1], v.src) /\ IsTypeMatch(pair[2], v.tgt)

(* __cil_neverallow_handle: a new list of rules at the head.               *)
NeverallowRules(n) ==
  IF policy.disable_neverallow THEN {}
  ELSE {[src |-> p[1], tgt |-> p[2], class |-> Value("classes", r.class), data |-> r.data] :
          p \in Pairs(n), r \in Rights(n)}
WriteNeverallow ==
  /\ At(2, {"avrule"})
  /\ IF ~policy.disable_neverallow /\ ~KnownClasses(Node) THEN Fail("missing")
     ELSE /\ nevers' = <<NeverallowRules(Node)>> \o nevers
          /\ Advance
          /\ UNCHANGED <<te, newest, cond, enabled, names, people, trans, classes, ocon>>

(* dontaudit is kept as the permissions that are audited.                  *)
Stored(kind, data) == IF kind = "dontaudit" THEN (1..PERMS_PER_CLASS) \ data ELSE data
Entries(n) ==
  {[key |-> [kind |-> n.kind, src |-> Value("types", p[1]), tgt |-> Value("types", p[2]),
             class |-> Value("classes", r.class)],
    data |-> Stored(n.kind, r.data)] : p \in Pairs(n), r \in Rights(n)}

(* __cil_insert_avrule, unconditional case: entries of one key are joined. *)
Joined(kind, ds) == IF kind = "dontaudit" THEN {x \in UNION ds : \A d \in ds : x \in d} ELSE UNION ds
InsertAvrules(table, es) ==
  [k \in DOMAIN table \cup {e.key : e \in es} |->
     LET new == {e.data : e \in {x \in es : x.key = k}}
         old == IF k \in DOMAIN table THEN {table[k]} ELSE {}
     IN  IF new = {} THEN table[k] ELSE Joined(k.kind, old \cup new)]

(* __cil_avrule_to_avtab with __cil_avrule_expand_helper.  Types are       *)
(* looked up for permissions that there are only.                          *)
AvRule(n, c) ==
  LET ps == Pairs(n)
      rs == Rights(n)
      known == /\ KnownClasses(n)
               /\ rs # {} => \A p \in ps : Known("types", p[1]) /\ Known("types", p[2])
  IN
  CASE n.kind = "dontaudit" /\ policy.disable_dontaudit ->
         Proceed /\ UNCHANGED <<rules, names, people, trans, classes, ocon>>
    [] n.kind = "allow" /\ KnownClasses(n) /\ (\E p \in ps, r \in rs : Forbidden(p, r)) ->
         Fail("neverallow")
    [] OTHER ->
         IF ~known THEN Fail("missing")
         ELSE /\ IF c = NULL
                   THEN te' = InsertAvrules(te, Entries(n)) /\ UNCHANGED cond
                   ELSE cond' = [cond EXCEPT ![c.node][c.branch] = @ \cup Entries(n)] /\ UNCHANGED te
              /\ Proceed
              /\ UNCHANGED <<newest, enabled, nevers, names, people, trans, classes, ocon>>

WriteAvrule == At(3, {"avrule"}) /\ AvRule(Node, NULL)

--------------------------------------------------------------------------
(* Pass 3: booleanif.  __cil_cond_expr_to_sepol_expr: operands before      *)
(* their operator; a list without an operator is a disjunction.            *)
Op(o) == [op |-> o, bool |-> 0]
Postfix[e \in DOMAIN policy.expr] ==
  LET x == policy.expr[e]
      Operand(i) == LET a == x.args[i] IN
                    IF a.e # NULL THEN Postfix[a.e]
                                  ELSE <<[op |-> "bool", bool |-> Value("bools", a.d)]>>
  IN CASE x.op = "list" ->
            FlattenSeq([i \in DOMAIN x.args |->
                          IF i = 1 THEN Operand(i) ELSE Operand(i) \o <<Op("or")>>])
       [] x.op = "not" -> Operand(1) \o <<Op("not")>>
       [] OTHER -> Operand(1) \o Operand(2) \o <<Op(x.op)>>

KnownBools[e \in DOMAIN policy.expr] ==
  \A a \in ToSet(policy.expr[e].args) :
    IF a.e # NULL THEN KnownBools[a.e] ELSE Known("bools", a.d)

(* libsepol: cond_evaluate_expr, a stack of truth values.                  *)
BoolOp(op, x, y) == CASE op = "or" -> x \/ y
                      [] op = "and" -> x /\ y
                      [] op \in {"xor", "neq"} -> x # y
                      [] op = "eq" -> x = y
cond_evaluate_expr(expr, b) ==
  LET Push(st, x) ==
        CASE x.op = "bool" -> <<b[x.bool]>> \o st
          [] x.op = "not" -> <<~Head(st)>> \o Tail(st)
          [] OTHER -> <<BoolOp(x.op, st[2], st[1])>> \o SubSeq(st, 3, Len(st))
  IN Head(FoldLeft(Push, <<>>, expr))

(* libsepol: cond_normalize_expr drops a last negation and exchanges the   *)
(* lists; cond_node_find takes expressions of few booleans as equal that   *)
(* have the same booleans and the same truth table.                        *)
Negated(expr) == Last(expr).op = "not"
Normal(expr) == IF Negated(expr) THEN Front(expr) ELSE expr
BoolsOf(expr) == {expr[i].bool : i \in {j \in DOMAIN expr : expr[j].op = "bool"}}
CondEqual(e, f) ==
  /\ BoolsOf(e) = BoolsOf(f)
  /\ \A b \in [BoolsOf(e) -> BOOLEAN] : cond_evaluate_expr(e, b) = cond_evaluate_expr(f, b)
Found(expr) == {i \in DOMAIN cond : CondEqual(cond[i].expr, expr)}

(* The nodes below the condblock of a branch.                              *)
BranchNodes(b) ==
  LET cb == {m \in cur + 1 .. Node.last :
               policy.nodes[m].op = "condblock" /\ policy.nodes[m].branch = b}
  IN IF cb = {} THEN <<>>
     ELSE LET m == CHOOSE x \in cb : \A y \in cb : y <= x
          IN [i \in 1 .. policy.nodes[m].last - m |-> m + i]

(* cil_booleanif_to_policydb.                                              *)
Swapped_Forgotten(expr) == FALSE
Swapped(expr) == Negated(expr)
EnterBooleanif ==
  /\ At(3, {"booleanif"})
  /\ LET expr == Postfix[Node.expr]
         found == Found(Normal(expr))
         at == IF found = {} THEN Len(cond) + 1 ELSE CHOOSE i \in found : TRUE
         Into(b) == LET from == BranchNodes(IF Swapped(expr) THEN OtherBranch(b) ELSE b) IN
                    [i \in DOMAIN from |-> [at |-> from[i], node |-> at, branch |-> b]]
     IN IF ~KnownBools[Node.expr] THEN Fail("missing")
        ELSE /\ cond' = IF found # {} THEN cond
                        ELSE Append(cond, [expr |-> Normal(expr), true |-> {}, false |-> {}])
             /\ todo' = Into("true") \o Into("false")
             /\ cur' = Node.last + 1
             /\ UNCHANGED <<policy, status, why, pass, te, newest, enabled, nevers, names, people,
                            trans, classes, ocon>>

(* __cil_cond_to_policydb_helper.                                          *)
CondRule ==
  /\ status = "walk" /\ todo # <<>>
  /\ LET c == Head(todo)
         n == policy.nodes[c.at] IN
     CASE n.op = "typerule" \/ (n.op = "nametypetransition" /\ n.name = "*") -> TypeRule(n, c)
       [] n.op = "avrule" -> AvRule(n, c)
       [] n.op \in {"call", "tunableif"} ->
            Proceed /\ UNCHANGED <<rules, names, people, trans, classes, ocon>>
       [] OTHER -> Fail("invalid")

--------------------------------------------------------------------------
(* Pass 2: constraints.                                                    *)
(* __cil_constrain_expr_datum_to_sepol_expr: names become values; a type   *)
(* attribute is recorded under its own name as well.                       *)
NamesKind(l) == CASE l \in {"t1", "t2", "t3"} -> "types"
                  [] l \in {"r1", "r2", "r3"} -> "roles"
                  [] l \in {"u1", "u2", "u3"} -> "users"
NamesOf(l, ds) ==
  CASE NamesKind(l) = "types" -> UNION {Expand("type", d) : d \in ds}
    [] NamesKind(l) = "roles" -> UNION {Expand("role", d) : d \in ds}
    [] NamesKind(l) = "users" -> ds
KnownNames(l, ds) ==
  /\ NamesKind(l) = "types" => \A d \in ds : Known("types", d)
  /\ \A d \in NamesOf(l, ds) : Known(NamesKind(l), d)

(* __cil_constrain_expr_leaf_to_sepol_expr.                                *)
LevelAttr_Low(l, r) ==
  CASE l = "l1" -> IF r = "l2" THEN <<"l1", "l2">> ELSE <<"l1", "h1">>
    [] l = "l2" -> <<"l2", "h2">>
    [] l = "h1" -> IF r = "l2" THEN <<"h1", "l2">> ELSE <<"h1", "h2">>
LevelAttr(l, r) ==
  CASE l = "l1" -> IF r = "l2" THEN <<"l1", "l2">> ELSE IF r = "h1" THEN <<"l1", "h1">> ELSE <<"l1", "h2">>
    [] l = "l2" -> <<"l2", "h2">>
    [] l = "h1" -> IF r = "l2" THEN <<"h1", "l2">> ELSE <<"h1", "h2">>
Leaf(x) ==
  IF x.l \in {"l1", "l2", "h1"}
    THEN [op |-> x.op, type |-> "level", attr |-> LevelAttr(x.l, x.r), names |-> {}]
    ELSE [op |-> x.op, type |-> IF x.names = NULL THEN "attr" ELSE "names", attr |-> <<x.l, x.r>>,
          names |-> IF x.names = NULL THEN {}
                    ELSE {Value(NamesKind(x.l), d) : d \in NamesOf(x.l, x.names)}]
Joins == {"not", "and", "or"}
KnownExpr[e \in DOMAIN policy.expr] ==
  LET x == policy.expr[e] IN
  IF x.op \in Joins THEN \A i \in DOMAIN x.args : KnownExpr[x.args[i].e]
  ELSE x.names = NULL \/ KnownNames(x.l, x.names)

(* __cil_constrain_expr_to_sepol_expr_helper.                              *)
ConsPostfix[e \in DOMAIN policy.expr] ==
  LET x == policy.expr[e]
      Operand(i) == ConsPostfix[x.args[i].e]
      OpNode == [op |-> x.op, type |-> "join", attr |-> <<>>, names |-> {}] IN
  CASE x.op = "not" -> Operand(1) \o <<OpNode>>
    [] x.op \in {"and", "or"} -> Operand(1) \o Operand(2) \o <<OpNode>>
    [] OTHER -> <<Leaf(x)>>

(* cil_constrain_to_policydb, cil_validatetrans_to_policydb.               *)
Constrained(n) ==
  IF n.op \in {"constrain", "mlsconstrain"}
    THEN {[class |-> it.class, perms |-> PermData(it.class, it.perms)] : it \in Items[n.list]}
    ELSE {[class |-> c, perms |-> {}] : c \in ExpandClass(n.class)}
WriteConstrain ==
  /\ At(2, {"constrain", "mlsconstrain", "validatetrans", "mlsvalidatetrans"})
  /\ LET cs == Constrained(Node)
         part == IF Node.op \in {"constrain", "mlsconstrain"} THEN "constrain" ELSE "validate"
         new(c) == {[perms |-> x.perms, expr |-> ConsPostfix[Node.expr]] :
                      x \in {y \in cs : y.class = c}}
     IN IF (\E x \in cs : ~Known("classes", x.class)) \/ ~KnownExpr[Node.expr] THEN Fail("missing")
        ELSE /\ constraints' = [c \in DOMAIN constraints |->
                                 [constraints[c] EXCEPT ![part] = @ \cup new(c)]]
             /\ Advance
             /\ UNCHANGED <<names, people, rules, trans, defaults, ocon>>

(* cil_default_to_policydb, cil_defaultrange_to_policydb.                  *)
WriteDefault ==
  /\ At(2, {"default"})
  /\ LET keys == {<<c, Node.which>> : c \in UNION {ExpandClass(x) : x \in Node.classes}} IN
     CASE \E k \in keys : ~Known("classes", k[1]) -> Fail("missing")
       [] (\A k \in keys : Known("classes", k[1])) /\ Conflicts(defaults, keys, Node.object)
            -> Fail("conflict")
       [] OTHER -> /\ defaults' = AddKeys(defaults, keys, Node.object)
                   /\ Advance
                   /\ UNCHANGED <<names, people, rules, trans, constraints, ocon>>

--------------------------------------------------------------------------
(* After the walks: cil_sidorder_to_policydb and __cil_contexts_to_        *)
(* policydb, one kind of labelling statement after the other.              *)
KnownContext(x) == /\ Known("users", x.user) /\ Known("roles", x.role) /\ Known("types", x.type)
                   /\ policy.mls => KnownRange(x.range)
SepolContext(x) ==
  [user |-> Value("users", x.user), role |-> Value("roles", x.role), type |-> Value("types", x.type),
   range |-> IF policy.mls THEN MlsRange(x.range) ELSE NULL]

ConKinds == <<"sid", "portcon", "netifcon", "nodecon", "fsuse", "genfscon">>
            \o (IF policy.xen THEN <<"pirqcon", "iomemcon", "ioportcon", "pcidevicecon">> ELSE <<>>)
Ocontexts(cs) == [i \in DOMAIN cs |-> [match |-> cs[i].match, contexts |->
                    [j \in DOMAIN cs[i].contexts |-> SepolContext(cs[i].contexts[j])]]]

(* cil_genfscon_to_policydb: a statement joins the last file system of the *)
(* list if that has its name.                                              *)
Genfs_Each(cs) == [i \in DOMAIN cs |-> [fstype |-> cs[i].fs, list |-> <<Ocontexts(cs)[i]>>]]
Genfs(cs) ==
  LET Add(fs, i) ==
        LET new == Ocontexts(cs)[i] IN
        IF fs # <<>> /\ Last(fs).fstype = cs[i].fs
          THEN [fs EXCEPT ![Len(fs)].list = Append(@, new)]
          ELSE Append(fs, [fstype |-> cs[i].fs, list |-> <<new>>])
  IN FoldLeft(Add, <<>>, [i \in DOMAIN cs |-> i])

WriteContexts ==
  /\ status = "walk" /\ pass = 4 /\ cur <= Len(ConKinds)
  /\ LET kind == ConKinds[cur]
         cs == policy.con[kind]
         Family(f) == SelectSeq(cs, LAMBDA x : x.family = f) IN
     IF \E i \in DOMAIN cs : \E j \in DOMAIN cs[i].contexts : ~KnownContext(cs[i].contexts[j])
     THEN Fail("missing")
     ELSE /\ ocon' = CASE kind = "nodecon" ->
                            Upd(Upd(ocon, "node", Ocontexts(Family("v4"))), "node6", Ocontexts(Family("v6")))
                       [] kind = "genfscon" -> Upd(ocon, "genfs", Genfs(cs))
                       [] OTHER -> Upd(ocon, kind, Ocontexts(cs))
          /\ Advance
          /\ UNCHANGED <<names, people, rules, trans, classes>>

(* __cil_typeattr_bitmap_init if no attribute did it, and                  *)
(* __cil_set_conditional_state_and_flags.                                  *)
InitialBools == [i \in DOMAIN sym.bools |-> policy.boolValue[sym.bools[i]]]
EnabledRules(b) ==
  UNION {IF cond_evaluate_expr(cond[i].expr, b) THEN cond[i].true ELSE cond[i].false : i \in DOMAIN cond}
Finish ==
  /\ status = "walk" /\ pass = 4 /\ cur > Len(ConKinds)
  /\ typeAttr' = IF typeAttr = {} THEN Reflexive ELSE typeAttr
  /\ enabled' = EnabledRules(InitialBools)
  /\ status' = "ok"
  /\ UNCHANGED <<policy, why, pass, cur, todo, sym, alias, people, te, newest, cond, nevers, trans,
                 classes, ocon>>

Stopped == status # "walk" /\ UNCHANGED vars

Next ==
  \/ PassBy \/ EndPass
  \/ DeclareDatum \/ DeclareAlias \/ DefineLevel \/ SetPolicycap
  \/ WriteType \/ WritePermissive \/ WriteAttribute \/ WriteRole \/ WriteUser \/ WriteUserrole
  \/ WriteRoleallow \/ WriteTransition \/ WriteTypeRule \/ WriteNeverallow \/ WriteConstrain
  \/ WriteDefault \/ WriteAvrule \/ EnterBooleanif \/ CondRule \/ WriteContexts \/ Finish
  \/ Stopped

Spec == Init /\ [][Next]_vars

--------------------------------------------------------------------------
(* What the statements of the tree mean, in names.                         *)
Live == {m \in DOMAIN policy.nodes : ~ InTemplate(policy.nodes, m)}
LiveOf(ops) == {policy.nodes[m] : m \in {x \in Live : policy.nodes[x].op \in ops}}
Assignments == [ToSet(sym.bools) -> BOOLEAN]
Truth(expr, b) ==
  LET T[e \in DOMAIN policy.expr] ==
        LET x == policy.expr[e]
            V(i) == LET a == x.args[i] IN IF a.e # NULL THEN T[a.e] ELSE b[a.d] IN
        CASE x.op = "list" -> \E i \in DOMAIN x.args : V(i)
          [] x.op = "not" -> ~V(1)
          [] OTHER -> BoolOp(x.op, V(1), V(2))
  IN T[expr]
Encloses(s, m) == s < m /\ m <= policy.nodes[s].last
Active(m, b) ==
  \A s \in 1..m : (policy.nodes[s].op = "booleanif" /\ Encloses(s, m)) =>
    \A cb \in s..m : (policy.nodes[cb].op = "condblock" /\ Encloses(cb, m)) =>
      Truth(policy.nodes[s].expr, b) = (policy.nodes[cb].branch = "true")
ActiveOf(ops, b) ==
  {policy.nodes[m] : m \in {x \in Live : policy.nodes[x].op \in ops /\ Active(x, b)}}

Members(kind, d) == IF policy.flavor[d] = kind THEN {d} ELSE Expand(kind, d)
Access(n) ==
  UNION {{<<s, t, it.class, p>> :
            s \in Members("type", n.src), p \in it.perms,
            t \in IF n.tgt = "self" THEN Members("type", n.src) ELSE Members("type", n.tgt)} :
           it \in Items[n.list]}
AccessOf(n) == IF n.tgt = "self" THEN {a \in Access(n) : a[1] = a[2]} ELSE Access(n)
Disabled(kind) == kind = "dontaudit" /\ policy.disable_dontaudit
CilAccess(kind, b) ==
  IF Disabled(kind) THEN {}
  ELSE UNION {AccessOf(n) : n \in {x \in ActiveOf({"avrule"}, b) : x.kind = kind}}

(* What the policydb says: attributes through type_attr_map, permissions   *)
(* through the class's table.                                              *)
PermNames(c) == CommonPerms(c) \o policy.perms[c]
TypesBehind(v) == {sym.types[x[1]] : x \in {y \in typeAttr : y[2] = v /\ policy.flavor[sym.types[y[1]]] = "type"}}
AsEntries(table) == {[key |-> k, data |-> table[k]] : k \in DOMAIN table}
SepolAccess(kind, es) ==
  UNION {LET c == sym.classes[e.key.class]
             ps == IF kind = "dontaudit" THEN (1..PERMS_PER_CLASS) \ e.data ELSE e.data IN
         {<<s, t, c, PermNames(c)[i]>> :
            s \in TypesBehind(e.key.src), t \in TypesBehind(e.key.tgt), i \in ps} :
         e \in {x \in es : x.key.kind = kind}}
ByValue(b) == [i \in DOMAIN sym.bools |-> b[sym.bools[i]]]

(***************************************************************************)
(* A finished policydb grants, audits and silences exactly what the rules  *)
(* of the tree say, whatever the booleans are set to: numbering, attribute *)
(* maps, permission bits, complements, postfix expressions, merged and     *)
(* exchanged conditional lists all agree (cil_avrule_to_policydb,          *)
(* cil_booleanif_to_policydb).  The rules enabled at first are those of    *)
(* the booleans' initial values.                                           *)
(***************************************************************************)
AccessExact ==
  status = "ok" =>
    \A kind \in {"allow", "auditallow", "dontaudit"} :
      /\ \A b \in Assignments :
           SepolAccess(kind, AsEntries(te) \cup EnabledRules(ByValue(b))) = CilAccess(kind, b)
      /\ SepolAccess(kind, AsEntries(te) \cup enabled) = CilAccess(kind, policy.boolValue)

(***************************************************************************)
(* A policy is accepted only if no setting of the booleans grants what a   *)
(* neverallow forbids, wherever the two stand in the text; it is refused   *)
(* for a neverallow only if some rule names what that forbids (passes 2    *)
(* and 3, __cil_check_neverallows).                                        *)
(***************************************************************************)
Touch(d, e) == d = e \/ Members("type", d) \cap Members("type", e) # {}
NeverallowsHold ==
  LET nv == {n \in LiveOf({"avrule"}) : n.kind = "neverallow"}
      al == {n \in LiveOf({"avrule"}) : n.kind = "allow"} IN
  /\ status = "ok" /\ ~policy.disable_neverallow =>
       \A b \in Assignments, v \in nv : AccessOf(v) \cap CilAccess("allow", b) = {}
  /\ why = "neverallow" =>
       \E n \in al, v \in nv : \E p \in Pairs(n), q \in Pairs(v) :
         /\ Touch(p[1], q[1]) /\ Touch(p[2], q[2])
         /\ \E i \in Items[n.list], j \in Items[v.list] :
              i.class = j.class /\ i.perms \cap j.perms # {}

(* Transitions of one kind, in names, with the results of the policydb.    *)
TransOps == {"typerule", "nametypetransition", "roletransition", "rangetransition"}
TransOp(n) == IF n.op = "nametypetransition" /\ n.name = "*" THEN "typerule" ELSE n.op
TransName(n) == CASE n.op = "typerule" -> n.kind
                  [] n.op = "nametypetransition" -> IF n.name = "*" THEN "transition" ELSE n.name
                  [] OTHER -> NULL
CilTrans(op, ns) ==
  UNION {{[name |-> TransName(n), src |-> s, tgt |-> t, class |-> c, result |-> Result(n)] :
            s \in Members(SrcKind(n), n.src), t \in Members("type", n.tgt),
            c \in ExpandClass(n.class)} : n \in {x \in ns : TransOp(x) = op}}
SepolEntries(op, b) ==
  CASE op = "typerule" -> {e \in AsEntries(te) \cup EnabledRules(b) :
                             e.key.kind \in {"transition", "change", "member"}}
    [] OTHER -> AsEntries(trans[TransTable(op)])
SepolTrans(op, b) ==
  {[name |-> IF op = "typerule" THEN e.key.kind ELSE e.key.name,
    src |-> IF op = "roletransition" THEN sym.roles[e.key.src] ELSE sym.types[e.key.src],
    tgt |-> sym.types[e.key.tgt], class |-> sym.classes[e.key.class], result |-> e.data] :
     e \in SepolEntries(op, b)}
Disagree(rs) ==
  \E x, y \in rs : [x EXCEPT !.result = NULL] = [y EXCEPT !.result = NULL] /\ x.result # y.result
WrittenOps == IF policy.mls THEN TransOps ELSE TransOps \ {"rangetransition"}

(* The keys of type rules with two results under a setting of the          *)
(* booleans, and those that one condition has rules for in both branches.  *)
TwoResults(b) ==
  {x.key : x \in {e \in SepolEntries("typerule", b) :
                    \E y \in SepolEntries("typerule", b) : y.key = e.key /\ y.data # e.data}}
BothBranches == {k \in DOMAIN newest : \E i \in DOMAIN cond : InList(cond[i].true, k) /\ InList(cond[i].false, k)}

(***************************************************************************)
(* A finished policydb holds exactly the transitions of the tree, for      *)
(* every setting of the booleans.  No setting enables two results for one  *)
(* key of a type rule, whether the rules are unconditional, in one         *)
(* booleanif or in several - except for a key that one condition has rules *)
(* for in both branches: there a further rule is added without a look at   *)
(* the list it goes to (cil_binary.c:1060), so for these keys nothing is   *)
(* claimed here and TypeRulesAgree is violated.  A conflict is reported    *)
(* only for two rules that do disagree (__cil_insert_type_rule,            *)
(* cil_roletrans_to_policydb, cil_rangetransition_to_policydb).            *)
(***************************************************************************)
TransitionsExact ==
  /\ status = "ok" =>
       \A b \in Assignments :
         /\ \A op \in TransOps : SepolTrans(op, ByValue(b)) = CilTrans(op, ActiveOf(WrittenOps, b))
         /\ TwoResults(ByValue(b)) \subseteq BothBranches
  /\ why = "conflict" =>
       \/ \E op \in TransOps : Disagree(CilTrans(op, LiveOf(WrittenOps)))
       \/ \E m, n \in LiveOf({"default"}) : m.which = n.which /\ m.object # n.object

(***************************************************************************)
(* "Don't add duplicate type rule and warn if they conflict"               *)
(* (src/src/cil_binary.c:1032): no setting of the booleans enables two     *)
(* type rules for one key with different results.                          *)
(***************************************************************************)
TypeRulesAgree ==
  status = "ok" => \A b \in Assignments : ~Disagree(SepolTrans("typerule", ByValue(b)))

(* Contexts a constraint is asked about, in names; levels are numbers.     *)
Sides == {"u1", "r1", "t1", "u2", "r2", "t2", "u3", "r3", "t3"}
Levels == {"l1", "h1", "l2", "h2"}
Holds(op, x, y) == CASE op = "eq" -> x = y
                     [] op = "neq" -> x # y
                     [] op = "dom" -> x >= y
                     [] op = "domby" -> x <= y
                     [] op = "incomp" -> FALSE
CilHolds(expr, who, lvl) ==
  LET T[e \in DOMAIN policy.expr] ==
        LET x == policy.expr[e] IN
        CASE x.op = "not" -> ~T[x.args[1].e]
          [] x.op \in {"and", "or"} -> BoolOp(x.op, T[x.args[1].e], T[x.args[2].e])
          [] x.op \notin Joins /\ x.l \in Levels -> Holds(x.op, lvl[x.l], lvl[x.r])
          [] x.op \notin Joins /\ x.l \in Sides /\ x.names = NULL -> Holds(x.op, who[x.l], who[x.r])
          [] OTHER -> (x.op = "eq") =
                      (who[x.l] \in UNION {IF NamesKind(x.l) = "users" THEN {d}
                                           ELSE Members(IF NamesKind(x.l) = "types" THEN "type" ELSE "role", d) :
                                             d \in x.names})
  IN T[expr]
(* libsepol: constraint_expr_eval, a stack of truth values.                *)
SepolHolds(expr, who, lvl) ==
  LET Push(st, x) ==
        CASE x.type = "join" /\ x.op = "not" -> <<~Head(st)>> \o Tail(st)
          [] x.type = "join" /\ x.op # "not" ->
               <<BoolOp(x.op, st[2], st[1])>> \o SubSeq(st, 3, Len(st))
          [] x.type = "level" -> <<Holds(x.op, lvl[x.attr[1]], lvl[x.attr[2]])>> \o st
          [] x.type = "attr" -> <<Holds(x.op, who[x.attr[1]], who[x.attr[2]])>> \o st
          [] x.type = "names" -> <<(x.op = "eq") = (Value(NamesKind(x.attr[1]), who[x.attr[1]]) \in x.names)>> \o st
  IN Head(FoldLeft(Push, <<>>, expr))

Parties == {[u1 |-> u1, u2 |-> u2, u3 |-> u1, r1 |-> r1, r2 |-> r2, r3 |-> r2,
             t1 |-> t1, t2 |-> t2, t3 |-> t3] :
              u1, u2 \in ToSet(sym.users), r1, r2 \in ToSet(sym.roles),
              t1, t2, t3 \in {t \in ToSet(sym.types) : policy.flavor[t] = "type"}}
WrittenCons == IF policy.mls THEN {"mlsconstrain", "mlsvalidatetrans"} ELSE {}

(***************************************************************************)
(* Every class is constrained exactly as the constrain, validatetrans and  *)
(* MLS statements of the tree say, for every permission and every pair of  *)
(* contexts (__cil_constrain_expr_to_sepol_expr).                          *)
(***************************************************************************)
ConstraintsExact ==
  status = "ok" /\ LiveOf({"constrain", "mlsconstrain", "validatetrans", "mlsvalidatetrans"}) # {} =>
    \A c \in ToSet(policy.classorder), who \in Parties, lvl \in [Levels -> 0..1] :
      /\ \A i \in DOMAIN PermNames(c) :
           (\A x \in constraints[c].constrain : i \in x.perms => SepolHolds(x.expr, who, lvl)) =
           (\A n \in LiveOf({"constrain"} \cup (WrittenCons \cap {"mlsconstrain"})) :
              (\E it \in Items[n.list] : it.class = c /\ PermNames(c)[i] \in it.perms)
                => CilHolds(n.expr, who, lvl))
      /\ (\A x \in constraints[c].validate : SepolHolds(x.expr, who, lvl)) =
         (\A n \in LiveOf({"validatetrans"} \cup (WrittenCons \cap {"mlsvalidatetrans"})) :
            c \in ExpandClass(n.class) => CilHolds(n.expr, who, lvl))

(* Users, roles, types and contexts of the policydb, in names.             *)
LevelNames(l) == [sens |-> sym.levels[l.sens], cats |-> {sym.cats[i] : i \in l.cats}]
RangeNames(r) == [low |-> LevelNames(r.low), high |-> LevelNames(r.high)]
CilLevel(l) == [sens |-> l.sens, cats |-> Cats(l.cats)]
CilRange(r) == [low |-> CilLevel(r.low), high |-> CilLevel(r.high)]
ContextNames(x) == [user |-> sym.users[x.user], role |-> sym.roles[x.role], type |-> sym.types[x.type],
                    range |-> IF policy.mls THEN RangeNames(x.range) ELSE NULL]
CilContext(x) == [user |-> x.user, role |-> x.role, type |-> x.type,
                  range |-> IF policy.mls THEN CilRange(x.range) ELSE NULL]
OconNames(os) == [i \in DOMAIN os |-> [match |-> os[i].match,
                   contexts |-> [j \in DOMAIN os[i].contexts |-> ContextNames(os[i].contexts[j])]]]
CilOcon(cs) == [i \in DOMAIN cs |-> [match |-> cs[i].match,
                 contexts |-> [j \in DOMAIN cs[i].contexts |-> CilContext(cs[i].contexts[j])]]]

(* Roles that statements name are numbered.  Those that only stand in an   *)
(* abstract block are not and keep the value 0, which is another role's.   *)
LeadsBack(r) == policy.flavor[r] = "role" => policy.valTo["role"][policy.value[r] + 1] = r
RolesNumbered ==
  /\ \A n \in LiveOf({"userrole"}) : LeadsBack(n.role)
  /\ \A n \in LiveOf({"roleallow"}) : LeadsBack(n.src) /\ LeadsBack(n.tgt)

(***************************************************************************)
(* Roles get their types, users their roles (object_r is nobody's in       *)
(* particular) and their levels and ranges, and bounded names their        *)
(* parents, although CIL and libsepol number types and roles differently   *)
(* (cil_roletype_to_policydb, cil_userrole_to_policydb,                    *)
(* cil_userlevel_userrange_to_policydb).                                   *)
(***************************************************************************)
RolesAndUsersExact ==
  status = "ok" /\ RolesNumbered =>
    /\ {<<sym.roles[x[1]], sym.types[x[2]]>> : x \in rbac.types} =
         UNION {{<<n.d, policy.valTo["type"][i + 1]>> : i \in policy.types[n.d]} : n \in LiveOf({"role"})}
    /\ {<<sym.users[x[1]], sym.roles[x[2]]>> : x \in rbac.roles} =
         UNION {{<<n.user, r>> : r \in Members("role", n.role) \ {"object_r"}} : n \in LiveOf({"userrole"})}
    /\ {<<sym.roles[x[1]], sym.roles[x[2]]>> : x \in rbac.allow} =
         UNION {Members("role", n.src) \X Members("role", n.tgt) : n \in LiveOf({"roleallow"})}
    /\ {<<sym[x.tab][x.child], sym[x.tab][x.parent]>> : x \in rbac.bounds} =
         {<<n.d, n.bounds>> : n \in {m \in LiveOf({"type", "role", "user"}) : m.bounds # NULL}}
    /\ policy.mls =>
         {[user |-> sym.users[x.user], level |-> LevelNames(x.level), range |-> RangeNames(x.range)] :
            x \in levels.user} =
         {[user |-> n.d, level |-> CilLevel(n.level), range |-> CilRange(n.range)] : n \in LiveOf({"user"})}
    /\ policy.mls =>
         {LevelNames(l) : l \in levels.defined} =
         {CilLevel([sens |-> n.d, cats |-> policy.sensCats[n.d]]) : n \in LiveOf({"sens"})}

(***************************************************************************)
(* No statement is written for another role than the one it names:         *)
(* "Failed to find role %s in sepol hashtab" is reported of a role that    *)
(* was not written (__cil_expand_role, __cil_get_sepol_role_datum).        *)
(***************************************************************************)
UnwrittenReported == status = "ok" => RolesNumbered

(***************************************************************************)
(* The labelling statements stand in the policydb in the order they were   *)
(* sorted in, addresses of the two families apart, and each file system    *)
(* once with all of its paths (__cil_contexts_to_policydb,                 *)
(* cil_genfscon_to_policydb); Xen's are written for Xen only.              *)
(***************************************************************************)
LabelsExact ==
  status = "ok" =>
    /\ \A k \in ToSet(ConKinds) \ {"nodecon", "genfscon"} : OconNames(ocon[k]) = CilOcon(policy.con[k])
    /\ DOMAIN ocon \ {"node", "node6", "genfs"} = ToSet(ConKinds) \ {"nodecon", "genfscon"}
    /\ \A f \in {"v4", "v6"} :
         OconNames(ocon[IF f = "v4" THEN "node" ELSE "node6"]) =
         CilOcon(SelectSeq(policy.con["nodecon"], LAMBDA x : x.family = f))
    /\ \A i, j \in DOMAIN ocon.genfs : ocon.genfs[i].fstype = ocon.genfs[j].fstype => i = j
    /\ \A i \in DOMAIN ocon.genfs :
         OconNames(ocon.genfs[i].list) =
         CilOcon(SelectSeq(policy.con["genfscon"], LAMBDA x : x.fs = ocon.genfs[i].fstype))
    /\ {x.fs : x \in ToSet(policy.con["genfscon"])} = {x.fstype : x \in ToSet(ocon.genfs)}
====
