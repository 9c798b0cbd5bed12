------------------------------ MODULE CilBuild ------------------------------
(***************************************************************************)
(* The AST builder (src/src/cil_build_ast.c): one walk over the parse tree *)
(* that turns every statement into a node of the AST, enters declarations  *)
(* into symbol tables and refuses statements where they may not stand.     *)
(*                                                                         *)
(* A text is the sequence of its statements (lists that start with a       *)
(* keyword) in document order; the statements inside statement n are those *)
(* from n+1 to text[n].last.  Of the other arguments it keeps a name, the  *)
(* permissions of a class, the parameters of a macro, the expression of a  *)
(* condition or constraint, and whether the arguments have the form that   *)
(* the statement asks for (`ok').                                          *)
(***************************************************************************)
EXTENDS Integers, Sequences, FiniteSets, FiniteSetsExt, Functions

CONSTANTS NoName,              \* a statement that declares nothing
          BadNames,            \* names that __cil_verify_name refuses
          COND_EXPR_MAXDEPTH,  \* the evaluation stack of the kernel's boolean
          CEXPR_MAXDEPTH,      \* and constraint expressions (sepol/policydb)
          Texts                \* the texts to build

VARIABLES text,      \* the statements of db->parse
          preserve,  \* db->preserve_tunables
          status,    \* "walk" | "ok" | "err"
          cur,       \* the next statement of the text
          node,      \* the nodes of the AST; node 1 is the root
          table,     \* the entries of the symbol tables
          ast,       \* args->ast, the node that new nodes are put below
          macro, boolif, tunif, in   \* args->macro ..., 0 if NULL

context == <<macro, boolif, tunif, in>>
vars == <<text, preserve, status, cur, node, table, ast, context>>

Statement == [kw : STRING, name : STRING \cup {NoName}, perms : Seq(STRING),
              params : Seq([kind : STRING, name : STRING]),
              expr : Seq([op : STRING, last : Nat]), ok : BOOLEAN, last : Nat]
-----------------------------------------------------------------------------
(* The keywords, by what their cil_gen functions do *)

(* The symbol table a declaration goes into *)
Sym ==
  [block |-> "blocks", macro |-> "blocks", optional |-> "blocks",
   class |-> "classes", classmap |-> "classes", common |-> "commons",
   classpermission |-> "classpermsets", sid |-> "sids", user |-> "users",
   role |-> "roles", roleattribute |-> "roles", type |-> "types",
   typeattribute |-> "types", typealias |-> "types", bool |-> "bools",
   tunable |-> "tunables", sensitivity |-> "sens", sensitivityalias |-> "sens",
   category |-> "cats", categoryalias |-> "cats", categoryset |-> "cats",
   level |-> "levels", levelrange |-> "levelranges", context |-> "contexts",
   policycap |-> "policycaps", ipaddr |-> "ipaddrs"]

ClassKind == {"class", "classmap", "common"}
Condition == {"true", "false"}
Conditional == {"booleanif", "tunableif"}
Constraint == {"constrain", "mlsconstrain", "validatetrans", "mlsvalidatetrans"}
Container == {"block", "optional", "macro", "in"} \cup Condition \cup Conditional

(* Statements that declare nothing and whose arguments are only kept *)
Rule ==
  {"blockinherit", "blockabstract", "classorder", "classmapping",
   "classpermissionset", "classcommon", "sidcontext", "sidorder", "userlevel",
   "userrange", "userbounds", "userprefix", "selinuxuser", "selinuxuserdefault",
   "typeattributeset", "typealiasactual", "typebounds", "typepermissive",
   "rangetransition", "userrole", "roletype", "roletransition", "roleallow",
   "roleattributeset", "rolebounds", "allow", "auditallow", "dontaudit",
   "neverallow", "typetransition", "typechange", "typemember",
   "sensitivityaliasactual", "categoryaliasactual", "categoryorder",
   "sensitivityorder", "sensitivitycategory", "filecon", "portcon", "nodecon",
   "genfscon", "netifcon", "pirqcon", "iomemcon", "ioportcon", "pcidevicecon",
   "fsuse", "call", "defaultuser", "defaultrole", "defaulttype", "defaultrange",
   "handleunknown", "mls"}

ParamKind ==
  {"type", "role", "user", "sensitivity", "category", "categoryset", "level",
   "levelrange", "class", "ipaddr", "classmap", "classpermission", "bool",
   "string", "name"}

(* What a booleanif may hold, at any depth *)
InBooleanif == Condition \cup {"auditallow", "allow", "dontaudit", "tunableif",
                               "typetransition", "typechange", "call"}
-----------------------------------------------------------------------------
(* Expressions: the lists and leaves in document order, with the number of *)
(* the last one inside.  A list without operator has op "none".            *)

Inside(e, m, n) == m < n /\ n <= e[m].last

(* *depth when __cil_fill_expr_helper is called for list n: lists without  *)
(* operator add one while they are open, and every list that has been      *)
(* closed took one away.                                                   *)
ExprDepth(e, n) ==
  Cardinality({m \in 1..(n - 1) : e[m].op \in {"none", "all"}})
    - Cardinality({m \in 1..(n - 1) : e[m].op # "leaf" /\ e[m].last < n})

(* *depth at the start of __cil_fill_constraint_expr: a leaf is a list     *)
(* with eq, neq, dom, domby or incomp                                      *)
ConstraintDepth(e, n) ==
  Cardinality({m \in 1..(n - 1) : e[m].op = "leaf"})
    - Cardinality({m \in 1..(n - 1) : e[m].last < n})

BoolTooDeep(e) ==
  \E n \in DOMAIN e : e[n].op # "leaf" /\ ExprDepth(e, n) > COND_EXPR_MAXDEPTH
ConstraintTooDeep(e) ==
  \E n \in DOMAIN e : ConstraintDepth(e, n) > CEXPR_MAXDEPTH
-----------------------------------------------------------------------------
(* The parser's lists are nested, in a text and in an expression; only the  *)
(* statements that have them are read with permissions or parameters        *)
IsNested(t) == \A n \in DOMAIN t : /\ t[n].last \in n..Len(t)
                                  /\ \A m \in n..t[n].last : t[m].last <= t[n].last
IsText(t) ==
  /\ t \in Seq(Statement) /\ IsNested(t)
  /\ \A n \in DOMAIN t :
       /\ t[n].perms # <<>> => t[n].kw \in ClassKind
       /\ t[n].params # <<>> => t[n].kw = "macro"
       /\ IsNested(t[n].expr)
       /\ \A m \in DOMAIN t[n].expr : t[n].expr[m].op = "leaf" => t[n].expr[m].last = m

ASSUME TextsAssumption == \A t \in Texts : IsText(t)
ASSUME DepthsAssumption == COND_EXPR_MAXDEPTH \in Nat /\ CEXPR_MAXDEPTH \in Nat

Init ==
  /\ text \in Texts /\ preserve \in BOOLEAN
  /\ status = "walk" /\ cur = 1 /\ ast = 1
  /\ node = <<[flavor |-> "root", stmt |-> 0, parent |-> 0]>>
  /\ table = {}
  /\ macro = 0 /\ boolif = 0 /\ tunif = 0 /\ in = 0

(* A node and the nodes above it *)
Upwards ==
  LET up[n \in DOMAIN node] == {n} \cup (IF n = 1 THEN {} ELSE up[node[n].parent])
  IN  up

Scope_NoTunableif(n) ==
  Max({m \in Upwards[n] : node[m].flavor \in {"root", "block", "macro", "in"}})

(* The node whose symbol tables a declaration below n belongs to *)
Scope(n) ==
  Max({m \in Upwards[n] :
         \/ node[m].flavor \in {"root", "block", "macro", "in"}
         \/ node[m].flavor \in Condition /\ node[node[m].parent].flavor = "tunableif"})

Me == text[cur]

(* All statements inside the current node have been turned into nodes *)
Closing == ast # 1 /\ cur > text[node[ast].stmt].last

(* Tunables and tunableifs become bools and booleanifs on request *)
Flavor(kw) == CASE preserve /\ kw = "tunable" -> "bool"
                [] preserve /\ kw = "tunableif" -> "booleanif"
                [] OTHER -> kw

(* The checks of the walk before anything is generated *)
Forbidden ==
  \/ macro # 0 /\ Me.kw \in {"macro", "tunable", "in"}
  \/ boolif # 0 /\ Me.kw \notin InBooleanif
  \/ tunif # 0 /\ Me.kw = "tunable"
  \/ in # 0 /\ Me.kw = "in"

At(K) == status = "walk" /\ ~ Closing /\ cur \in DOMAIN text /\ Me.kw \in K
Generating(K) == At(K) /\ ~ Forbidden

Fail == /\ status' = "err"
        /\ UNCHANGED <<text, preserve, cur, node, table, ast, context>>

(* cil_gen_node refuses a declaration of this flavor and name *)
Redeclared(sym, name) ==
  \E d \in table : d.scope = Scope(ast) /\ d.sym = sym /\ d.name = name
ShadowsParam(flavor, name) ==
  /\ node[ast].flavor = "macro"
  /\ \E i \in DOMAIN text[node[ast].stmt].params :
       text[node[ast].stmt].params[i] = [kind |-> flavor, name |-> name]
Refused(flavor, name) ==
  name \in BadNames \/ Redeclared(Sym[flavor], name) \/ ShadowsParam(flavor, name)

(* The container a node is put below is known to the walk when it gets its *)
(* first child.                                                            *)
Entered_Second(flavor, known) ==
  IF node[ast].flavor = flavor /\ \E n \in DOMAIN node : node[n].parent = ast
  THEN ast ELSE known
Entered(flavor, known) ==
  IF node[ast].flavor = flavor /\ \A n \in DOMAIN node : node[n].parent # ast
  THEN ast ELSE known

AddNode_PermsBeside(flavor) ==
  /\ node' = node \o <<[flavor |-> flavor, stmt |-> cur, parent |-> ast]>>
                  \o [i \in DOMAIN Me.perms |->
                        [flavor |-> "perm", stmt |-> cur, parent |-> ast]]
  /\ ast' = Len(node) + 1 /\ cur' = cur + 1
  /\ macro' = Entered("macro", macro) /\ boolif' = Entered("booleanif", boolif)
  /\ tunif' = Entered("tunableif", tunif) /\ in' = Entered("in", in)
  /\ UNCHANGED <<text, preserve, status>>

(* A node for the current statement, with nodes for its permissions *)
AddNode(flavor) ==
  LET new == Len(node) + 1
  IN  /\ node' = node \o <<[flavor |-> flavor, stmt |-> cur, parent |-> ast]>>
                      \o [i \in DOMAIN Me.perms |->
                            [flavor |-> "perm", stmt |-> cur, parent |-> new]]
      /\ ast' = new /\ cur' = cur + 1
      /\ macro' = Entered("macro", macro) /\ boolif' = Entered("booleanif", boolif)
      /\ tunif' = Entered("tunableif", tunif) /\ in' = Entered("in", in)
      /\ UNCHANGED <<text, preserve, status>>

Enter(scope, sym, name) ==
  {[scope |-> scope, sym |-> sym, name |-> name, datum |-> Len(node) + 1]}

Declare(flavor) ==
  /\ AddNode(flavor)
  /\ table' = table \cup Enter(Scope(ast), Sym[flavor], Me.name)

Keep(flavor) == AddNode(flavor) /\ UNCHANGED table
-----------------------------------------------------------------------------
(* The statements *)

(* A statement that may not stand here, or is none *)
RejectStatement ==
  /\ At({text[n].kw : n \in DOMAIN text})
  /\ Forbidden \/ Me.kw \notin DOMAIN Sym \cup Container \cup Constraint \cup Rule
  /\ Fail

(* block, optional, and the declarations without anything inside *)
GenDeclaration ==
  LET flavor == Flavor(Me.kw)
  IN  /\ Generating(DOMAIN Sym \ (ClassKind \cup {"macro"}))
      /\ IF ~ Me.ok \/ Refused(flavor, Me.name) THEN Fail ELSE Declare(flavor)

(* Permissions are numbered from 0 in a table of the class *)
GenClass ==
  /\ Generating(ClassKind)
  /\ IF \/ ~ Me.ok \/ Refused(Me.kw, Me.name)
        \/ ~ IsInjective(Me.perms) \/ \E i \in DOMAIN Me.perms : Me.perms[i] \in BadNames
     THEN Fail ELSE Declare(Me.kw)

(* Parameters of the kinds string and name are both CIL_NAME               *)
Flavored(params) ==
  [i \in DOMAIN params |->
     <<IF params[i].kind \in {"string", "name"} THEN "name" ELSE params[i].kind, params[i].name>>]

GenMacro ==
  /\ Generating({"macro"})
  /\ IF \/ ~ Me.ok \/ Refused("macro", Me.name)
        \/ ~ IsInjective(Flavored(Me.params))
        \/ \E i \in DOMAIN Me.params : \/ Me.params[i].kind \notin ParamKind
                                       \/ Me.params[i].name \in BadNames
     THEN Fail ELSE Declare("macro")

GenIn ==
  /\ Generating({"in"})
  /\ IF ~ Me.ok \/ Me.last = cur THEN Fail ELSE Keep("in")

(* One or two lists, each a condition *)
Branches(n) == {m \in n + 1..text[n].last :
                  \A s \in n + 1..m - 1 : text[s].last < m}
GenConditional ==
  /\ Generating(Conditional)
  /\ IF \/ ~ Me.ok
        \/ Cardinality(Branches(cur)) \notin 1..2
        \/ \E m \in Branches(cur) : text[m].kw \notin Condition
        \/ Flavor(Me.kw) = "booleanif" /\ BoolTooDeep(Me.expr)
     THEN Fail ELSE Keep(Flavor(Me.kw))

GenCondblock ==
  /\ Generating(Condition)
  /\ IF ~ Me.ok \/ Me.last = cur \/ node[ast].flavor \notin Conditional
     THEN Fail ELSE Keep(Me.kw)

GenConstraint ==
  /\ Generating(Constraint)
  /\ IF ~ Me.ok \/ ConstraintTooDeep(Me.expr) THEN Fail ELSE Keep(Me.kw)

GenRule ==
  /\ Generating(Rule)
  /\ IF ~ Me.ok THEN Fail ELSE Keep(Me.kw)

Left_Never(flavor, known) == known
(* A container ends: whatever is known of its kind is forgotten *)
Left(flavor, known) == IF node[ast].flavor = flavor THEN 0 ELSE known
LeaveList ==
  /\ status = "walk" /\ Closing
  /\ ast' = node[ast].parent
  /\ macro' = Left("macro", macro) /\ boolif' = Left("booleanif", boolif)
  /\ tunif' = Left("tunableif", tunif) /\ in' = Left("in", in)
  /\ UNCHANGED <<text, preserve, status, cur, node, table>>

Finish ==
  /\ status = "walk" /\ ast = 1 /\ cur > Len(text)
  /\ status' = "ok"
  /\ UNCHANGED <<text, preserve, cur, node, table, ast, context>>

Done == status # "walk" /\ UNCHANGED vars

Next == \/ RejectStatement \/ GenDeclaration \/ GenClass \/ GenMacro \/ GenIn
        \/ GenConditional \/ GenCondblock \/ GenConstraint \/ GenRule
        \/ LeaveList \/ Finish \/ Done

Spec == Init /\ [][Next]_vars /\ WF_vars(Next)
-----------------------------------------------------------------------------
(* The text, read without a walk *)

Enclosing(n) == {m \in 1..(n - 1) : n <= text[m].last}
Kinds(n) == {Flavor(text[m].kw) : m \in Enclosing(n)}
Within(n) == IF Enclosing(n) = {} THEN 0 ELSE Max(Enclosing(n))

(* The statement whose tables the declaration n belongs to, 0 for the root *)
Space(n) ==
  Max({0} \cup {m \in Enclosing(n) :
         \/ text[m].kw \in {"block", "macro", "in"}
         \/ text[m].kw \in Condition /\ Flavor(text[Within(m)].kw) = "tunableif"})

Declares(n) == text[n].kw \in DOMAIN Sym
SameName(m, n) ==
  /\ Declares(m) /\ Declares(n) /\ Space(m) = Space(n)
  /\ Sym[Flavor(text[m].kw)] = Sym[Flavor(text[n].kw)] /\ text[m].name = text[n].name

(* The stack that evaluating an expression takes: at a leaf, one value for *)
(* it and one for each list around it of which an operand is done.         *)
Slots(e) ==
  Max({0} \cup {1 + Cardinality({m \in 2..n : e[m].last >= n /\ e[m - 1].last < m}) :
                  n \in {k \in DOMAIN e : e[k].op = "leaf"}})
(* The lists around a leaf *)
Nesting(e) ==
  Max({0} \cup {Cardinality({m \in 1..(n - 1) : e[m].last >= n}) : n \in DOMAIN e})

(* A string parameter is a name *)
SameKind(k, l) == k = l \/ {k, l} = {"string", "name"}

(* What is wrong with statement n *)
Wrong(n) ==
  LET s == text[n] IN
  \/ ~ s.ok
  \/ s.kw \notin DOMAIN Sym \cup Container \cup Constraint \cup Rule
  \/ Declares(n) /\ s.name \in BadNames
  \/ \E m \in 1..(n - 1) : SameName(m, n)
  \/ /\ Declares(n) /\ Within(n) # 0 /\ text[Within(n)].kw = "macro"
     /\ \E i \in DOMAIN text[Within(n)].params :
          text[Within(n)].params[i] = [kind |-> Flavor(s.kw), name |-> s.name]
  \/ \E i, j \in DOMAIN s.perms : i # j /\ s.perms[i] = s.perms[j]
  \/ \E i \in DOMAIN s.perms : s.perms[i] \in BadNames
  \/ \E i, j \in DOMAIN s.params :
       /\ i # j /\ s.params[i].name = s.params[j].name
       /\ SameKind(s.params[i].kind, s.params[j].kind)
  \/ \E i \in DOMAIN s.params : s.params[i].kind \notin ParamKind \/ s.params[i].name \in BadNames
  \/ s.kw \in {"in"} \cup Condition /\ s.last = n
  \/ s.kw \in Condition /\ (Within(n) = 0 \/ text[Within(n)].kw \notin Conditional)
  \/ /\ s.kw \in Conditional
     /\ \/ Cardinality(Branches(n)) \notin 1..2
        \/ \E m \in Branches(n) : text[m].kw \notin Condition

(* Statement n may not stand where it does *)
Misplaced(n) ==
  \/ "macro" \in Kinds(n) /\ text[n].kw \in {"macro", "tunable", "in"}
  \/ "booleanif" \in Kinds(n) /\ text[n].kw \notin InBooleanif
  \/ "tunableif" \in Kinds(n) /\ text[n].kw = "tunable"
  \/ "in" \in Kinds(n) /\ text[n].kw = "in"
-----------------------------------------------------------------------------
(* Properties *)

(* The AST mirrors the text: every statement has one node, below the node  *)
(* of the statement around it, followed by the nodes of its permissions,   *)
(* and the walk is back at the root (__cil_build_ast_node_helper and       *)
(* __cil_build_ast_last_child_helper, which keep args->ast by turns).      *)
TreeExact ==
  LET of == [s \in DOMAIN text |-> {n \in DOMAIN node : node[n].stmt = s /\ node[n].flavor # "perm"}]
  IN  status = "ok" =>
        /\ ast = 1
        /\ \A s \in DOMAIN text :
             \E n \in of[s] :
               /\ of[s] = {n} /\ node[n].flavor = Flavor(text[s].kw)
               /\ node[n].parent = (IF Within(s) = 0 THEN 1 ELSE Max(of[Within(s)]))
               /\ \A i \in DOMAIN text[s].perms :
                    node[n + i] = [flavor |-> "perm", stmt |-> s, parent |-> n]

(* In an accepted text every declaration can be found, under its name and  *)
(* in the tables of the nearest block, macro, in, branch of a tunableif or *)
(* the root around it, and nothing else can (cil_gen_node,                 *)
(* cil_get_symtab).  What is found there is the node of the statement.     *)
TablesExact ==
  LET entry(d) == <<IF d.scope = 1 THEN 0 ELSE node[d.scope].stmt, d.sym, d.name,
                    node[d.datum].stmt>>
  IN  status = "ok" =>
        {entry(d) : d \in table}
          = {<<Space(n), Sym[Flavor(text[n].kw)], text[n].name, n>> :
               n \in {m \in DOMAIN text : Declares(m)}}

(* A text is refused only with a reason: the statement the walk stands at  *)
(* is wrong in itself, may not stand where it does, or nests its lists     *)
(* deeper than the limit.  No check is left over from a container that has *)
(* ended (the resets of the last child helper).                            *)
RefusedRightly ==
  status = "err" =>
    Wrong(cur) \/ Misplaced(cur) \/ Nesting(text[cur].expr) > COND_EXPR_MAXDEPTH

(* What is wrong in itself is never accepted, and of what may not stand    *)
(* where it does, a booleanif of the source holds nothing that it may not: *)
(* its conditions are always in its list before anything below them.       *)
AcceptedRightly ==
  status = "ok" => \A n \in DOMAIN text :
    /\ ~ Wrong(n)
    /\ ~ preserve /\ "booleanif" \in Kinds(n) => text[n].kw \in InBooleanif

(* "Macros cannot be defined within macro statement" and the other         *)
(* messages of __cil_build_ast_node_helper on where statements stand.      *)
NestingRefused == status = "ok" => \A n \in DOMAIN text : ~ Misplaced(n)

(* "Max depth of %d exceeded for boolean expression", and for constraint   *)
(* expressions: what is accepted can be evaluated in the kernel's stack.   *)
DepthRefused ==
  status = "ok" => \A n \in DOMAIN text :
    /\ Flavor(text[n].kw) = "booleanif" => Slots(text[n].expr) <= COND_EXPR_MAXDEPTH
    /\ text[n].kw \in Constraint => Slots(text[n].expr) <= CEXPR_MAXDEPTH
=============================================================================
