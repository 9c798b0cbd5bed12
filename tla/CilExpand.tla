------------------------------ MODULE CilExpand ------------------------------
(***************************************************************************)
(* The passes TIF to CALL1 of cil_resolve_ast, which change the tree:      *)
(* tunableif, in, blockinherit, blockabstract and call                     *)
(* (src/src/cil_resolve_ast.c), with the copying of subtrees               *)
(* (src/src/cil_copy_ast.c) and the look-up of names in symbol tables.     *)
(*                                                                         *)
(* The tree.  Nodes are numbered in the order in which they are created.   *)
(* A node is always added behind its siblings, so the children of a node,  *)
(* from first to last, are in the order of their numbers.  The data of a   *)
(* node is named by the node that created it: `datum'.  A datum that is    *)
(* declared has the scope whose symtab holds it in `ns'; it is found there *)
(* as long as one of its nodes is in the tree.                             *)
(***************************************************************************)
EXTENDS Integers, Sequences, FiniteSets, SequencesExt, FiniteSetsExt

CONSTANTS Name,       \* the names that statements declare and use
          NoName,     \* of a statement that declares nothing
          Policy      \* the trees that cil_build_ast may leave

Kind == {"root", "block", "blockabstract", "blockinherit", "in", "macro", "call",
         "tunable", "tunableif", "cond", "booleanif", "optional",
         "type", "class", "rule"}

(* The symtab for a kind of declaration; "none" for other statements *)
Sym(kind) ==
  CASE kind \in {"block", "macro", "optional"} -> "blocks"
    [] kind = "tunable" -> "tunables"
    [] kind = "type"    -> "types"
    [] kind = "class"   -> "classes"
    [] OTHER            -> "none"

(* A statement.  `ref' is the name it uses, part by part, where "." at the *)
(* front is the leading dot; `params' are the parameters of a macro or the *)
(* arguments of a call; `val' is the value of a tunable or the branch that *)
(* a cond is.                                                              *)
Statement == [kind : Kind, parent : Nat, name : Name \cup {NoName},
              ref : Seq(Name \cup {"."}), params : Seq(Name), val : BOOLEAN]

(* cil_get_symtab: the scope that a declaration below node p goes to *)
Home(node, p) ==
  LET home[n \in DOMAIN node] ==
        LET up == node[n].parent
        IN CASE node[n].kind \in {"root", "block", "macro", "in"} -> node[n].datum
             [] node[n].kind = "cond" /\ node[up].kind = "tunableif" -> n
             [] OTHER -> home[up]
  IN home[p]

Above(p, n) ==
  LET above[m \in 0..Len(p)] ==
        IF m = 0 THEN {} ELSE {p[m].parent} \cup above[p[m].parent]
  IN above[n] \ {0}

(* The scope of each declaration of a policy, 0 for other statements *)
Scopes(p) ==
  LET node == [n \in DOMAIN p |->
                 [kind |-> p[n].kind, parent |-> p[n].parent, datum |-> n]]
  IN [n \in DOMAIN p |-> IF Sym(p[n].kind) = "none" THEN 0 ELSE Home(node, p[n].parent)]

(* The statements that these passes look up a name for *)
UsesName == {"blockabstract", "blockinherit", "in", "call", "tunableif"}

(* What cil_build_ast accepts *)
IsPolicy(p) ==
  /\ p \in Seq(Statement) /\ p # <<>>
  /\ p[1].kind = "root" /\ p[1].parent = 0
  /\ \A n \in 2..Len(p) :
       LET around == {p[m].kind : m \in Above(p, n)} IN
       /\ p[n].kind # "root" /\ p[n].parent \in 1..(n - 1)
       /\ (p[n].name = NoName) = (Sym(p[n].kind) = "none")
       /\ p[n].kind \in UsesName => p[n].ref # <<>>
       /\ (p[n].kind = "cond") = (p[p[n].parent].kind \in {"tunableif", "booleanif"})
       /\ p[n].kind = "cond" => \A m \in 2..Len(p) :
            m # n /\ p[m].parent = p[n].parent => p[m].val # p[n].val
       /\ "macro" \in around => p[n].kind \notin {"macro", "tunable", "in"}
       /\ "booleanif" \in around => p[n].kind \in {"cond", "tunableif", "rule", "call"}
       /\ "tunableif" \in around => p[n].kind # "tunable"
       /\ "in" \in around => p[n].kind # "in"
  /\ LET scope == Scopes(p)
     IN \A n, m \in 2..Len(p) :
          scope[n] # 0 /\ m # n => <<scope[n], Sym(p[n].kind), p[n].name>>
                                   # <<scope[m], Sym(p[m].kind), p[m].name>>

ASSUME PolicyAssumption == \A p \in Policy : IsPolicy(p)

VARIABLES policy,     \* the tree that cil_build_ast left
          tree,       \* the nodes, which of them are in the tree, and the
                      \* blockinherits in the order they join a bi_nodes list
          abstract,   \* the blocks (data) with is_abstract == CIL_TRUE
          disabled,   \* the optionals (data) with enabled == CIL_FALSE
          status,     \* "walk" | "ins" | "ok" | "err" | "undefined" | "diverges"
          pass,       \* extra_args.pass
          cur, at,    \* the node the walk is at: to "visit", to go "down" into,
                      \* to copy for its "heirs", or to go "over" from
          item,       \* the position in the list that is being gone through
          optstack,   \* extra_args.optstack, innermost optional first
          callstack,  \* extra_args.callstack, innermost call first
          boolif,     \* extra_args.boolif, 0 if NULL
          macro,      \* extra_args.macro, 0 if NULL
          ins,        \* extra_args.in_list: nodes, 0 for one that is done
          resolved    \* whether this round of cil_resolve_in_list resolved one

context == <<optstack, callstack, boolif, macro>>
vars == <<policy, tree, abstract, disabled, status, pass, cur, at, item,
          context, ins, resolved>>
-----------------------------------------------------------------------------
(* enum cil_pass *)
TIF        == 1
PassIn     == 2
BLKIN_LINK == 3
BLKIN_COPY == 4
BLKABS     == 5
MACRO      == 6
CALL1      == 7

Root == 1

Kids(t, n) == {m \in t.live : t.node[m].parent = n}

(* The nodes of the subtree of n in the order of cil_tree_walk *)
Preorder(t, n) ==
  LET order[m \in DOMAIN t.node] ==
        LET kids == Kids(t, m)
        IN <<m>> \o FlattenSeq([k \in DOMAIN t.node |-> IF k \in kids THEN order[k] ELSE <<>>])
  IN order[n]
Below(t, n) == {m \in t.live : n \in Above(t.node, m)}

DestroyKids_Shallow(t, n) == [t EXCEPT !.live = @ \ Kids(t, n)]

(* cil_tree_children_destroy *)
DestroyKids(t, n) == [t EXCEPT !.live = @ \ Below(t, n)]

(* NODE(datum): the first node of the datum.  Its nodes are listed in the  *)
(* order of their creation.                                                *)
NodesOf(t, d) == {n \in t.live : t.node[n].datum = d}
NODE(t, d) == Min(NodesOf(t, d))

(* cil_symtab_get_datum, 0 for SEPOL_ENOENT *)
Get(t, scope, sym, name) ==
  LET found == {n \in t.live : /\ t.node[n].ns = scope
                               /\ t.node[n].name = name
                               /\ Sym(t.node[n].kind) = sym}
  IN IF found = {} THEN 0 ELSE t.node[Min(found)].datum
-----------------------------------------------------------------------------
(* Name resolution *)

(* __cil_resolve_name_with_parents, 0 when it finds nothing.  Arguments of *)
(* a call are never blocks, macros, optionals or tunables.  A search that  *)
(* has to go on in a block of which no node is left gives that block.      *)
WithParents(t, from, sym, name) ==
  LET search[n \in DOMAIN t.node] ==
        LET here == Get(t, t.node[n].datum, sym, name)
            up   == t.node[n].parent
            to   == t.node[n].to
        IN CASE t.node[n].kind = "root" -> 0
             [] t.node[n].kind \in {"block", "macro"} /\ here # 0 -> here
             [] t.node[n].kind = "blockinherit" ->
                  LET outer == search[up]
                  IN IF outer # 0 THEN outer
                     ELSE IF NodesOf(t, to) = {} THEN to ELSE search[NODE(t, to)]
             [] t.node[n].kind = "call" ->
                  LET outer == search[t.node[NODE(t, to)].parent]
                  IN IF outer # 0 THEN outer ELSE search[up]
             [] OTHER -> search[up]
  IN search[from]

(* __cil_resolve_name_helper *)
FromNode(t, from, sym, name) ==
  LET found == WithParents(t, from, sym, name)
  IN IF found # 0 THEN found ELSE Get(t, Root, sym, name)

(* One part of a name with dots, which is the last one or a container *)
NextPart(t, n, sym, parts, r, i) ==
  LET d == Get(t, r.scope, IF i = Len(parts) THEN sym ELSE "blocks", parts[i])
      kind == t.node[NODE(t, d)].kind
  IN IF r.rc # "ok" THEN r
     ELSE IF d = 0 THEN [r EXCEPT !.rc = "enoent"]
     ELSE IF i = Len(parts) THEN [r EXCEPT !.datum = d]
     ELSE IF kind # "block" /\ t.node[n].kind # "in" THEN [r EXCEPT !.rc = "err"]
     ELSE [r EXCEPT !.scope = IF kind = "optional" THEN t.node[NODE(t, d)].ns ELSE d]

(* What a search that gives datum d comes to, if a name has to be found in *)
(* `scope' next: undefined if it went through a node that is freed         *)
Found(t, d, scope) ==
  [rc |-> IF d = 0 THEN "enoent" ELSE IF NodesOf(t, d) = {} THEN "undefined" ELSE "ok",
   scope |-> scope, datum |-> d]

(* cil_resolve_name for the name that node n uses *)
ResolveName(t, n, sym) ==
  LET ref   == t.node[n].ref
      parts == IF ref[1] = "." THEN Tail(ref) ELSE ref
      search(s) == FromNode(t, t.node[n].parent, s, ref[1])
      first == search("blocks")
      start == IF ref[1] = "." THEN [rc |-> "ok", scope |-> Root, datum |-> 0]
               ELSE Found(t, first, t.node[NODE(t, first)].ns)
      after[i \in 0..Len(parts)] ==
        IF i = 0 THEN start ELSE NextPart(t, n, sym, parts, after[i - 1], i)
  IN IF Len(ref) = 1 THEN Found(t, search(sym), 0) ELSE after[Len(parts)]
-----------------------------------------------------------------------------
(* Copying *)

(* Declarations that an existing one of the same name may be used for; of  *)
(* the others a second one is "cannot be redefined"                        *)
SharedKind == {"block", "optional", "macro", "type"}

(* "shadows a macro parameter" *)
ShadowsParam(t, s, p) ==
  LET space[n \in DOMAIN t.node] ==
        IF t.node[n].kind \in {"macro", "block", "root"} THEN n
        ELSE space[t.node[n].parent]
  IN s.kind = "type" /\ s.name \in ToSet(t.node[space[p]].params)

(* What becomes of copying statement s to node p, if `old' is declared     *)
(* under its name.  A blockinherit that is not linked has no block whose   *)
(* list it could join, and a datum of another kind is taken for one of     *)
(* this kind: both are undefined.                                          *)
CopyRc(t, s, p, old) ==
  LET unlinked == s.kind = "blockinherit" /\ NodesOf(t, s.to) = {}
      refused  == s.kind = "in" \/ (old # 0 /\ s.kind \notin SharedKind)
      mistaken == old # 0 /\ t.node[NODE(t, old)].kind # s.kind
      differs  == old # 0 /\ s.kind = "macro" /\ t.node[NODE(t, old)].params # s.params
  IN IF refused THEN "err"
     ELSE IF unlinked \/ mistaken THEN "undefined"
     ELSE IF differs \/ ShadowsParam(t, s, p) THEN "err"
     ELSE "ok"

CopyOf_Forgets(s, p, home, datum) ==
  [s EXCEPT !.parent = p, !.ns = home, !.datum = datum, !.copied = FALSE]

(* The new node for a copy of s, which keeps what it is linked to and that *)
(* a call has been expanded (cil_copy_blockinherit, cil_copy_call)         *)
CopyOf(s, p, home, datum) == [s EXCEPT !.parent = p, !.ns = home, !.datum = datum]

(* __cil_copy_node_helper for node n.  c.to maps the nodes that have been  *)
(* passed to their copies.                                                 *)
CopyNode(c, n) ==
  LET t    == c.tree
      s    == t.node[n]
      p    == c.to[s.parent]
      home == IF Sym(s.kind) = "none" THEN 0 ELSE Home(t.node, p)
      old  == IF home = 0 THEN 0 ELSE Get(t, home, Sym(s.kind), s.name)
      new  == Len(t.node) + 1
      rc   == CopyRc(t, s, p, old)
      copy == CopyOf(s, p, home, IF old = 0 THEN new ELSE old)
  IN IF c.rc # "ok" THEN c
     ELSE IF rc # "ok" THEN [c EXCEPT !.rc = rc]
     ELSE [rc   |-> "ok",
           to   |-> [m \in DOMAIN c.to \cup {n} |-> IF m = n THEN new ELSE c.to[m]],
           tree |-> [node  |-> Append(t.node, copy),
                     live  |-> t.live \cup {new},
                     links |-> IF s.kind = "blockinherit" THEN Append(t.links, new)
                               ELSE t.links]]

(* cil_copy_ast: the children of orig become children of dest.  The walk   *)
(* that reaches dest itself follows its own copies for ever.               *)
CopyAst(t, orig, dest) ==
  LET order == Tail(Preorder(t, orig))
      loops == dest \in ToSet(order)
      todo  == IF loops THEN SubSeq(order, 1, Min({i \in DOMAIN order : order[i] = dest}) - 1)
               ELSE order
      copied[i \in 0..Len(todo)] ==
        IF i = 0 THEN [rc |-> "ok", to |-> [m \in {orig} |-> dest], tree |-> t]
        ELSE CopyNode(copied[i - 1], todo[i])
      c     == copied[Len(todo)]
  IN IF loops /\ c.rc = "ok" THEN [c EXCEPT !.rc = "diverges"] ELSE c
-----------------------------------------------------------------------------
(* The tree of a policy.  `src' is the statement a node comes from, `to'   *)
(* the block of a blockinherit or the macro of a call, 0 if NULL.          *)
Built(p) ==
  LET scope == Scopes(p)
  IN [node  |-> [n \in DOMAIN p |->
                   [kind |-> p[n].kind, parent |-> p[n].parent, name |-> p[n].name,
                    ref |-> p[n].ref, params |-> p[n].params, val |-> p[n].val,
                    datum |-> n, src |-> n, to |-> 0, copied |-> FALSE, ns |-> scope[n]]],
      live  |-> DOMAIN p,
      links |-> <<>>]

Init ==
  /\ policy \in Policy
  /\ tree = Built(policy)
  /\ abstract = {} /\ disabled = {}
  /\ status = "walk" /\ pass = TIF /\ cur = Root /\ at = "down" /\ item = 1
  /\ optstack = <<>> /\ callstack = <<>> /\ boolif = 0 /\ macro = 0
  /\ ins = <<>> /\ resolved = FALSE

Me == tree.node[cur]
Visiting == status = "walk" /\ at = "visit"

Forbidden_AllInBooleanif ==
  optstack # <<>> /\ Me.kind \in {"tunable", "macro"}

(* The first checks of __cil_resolve_ast_node_helper *)
Forbidden ==
  \/ optstack # <<>> /\ Me.kind \in {"tunable", "macro"}
  \/ boolif # 0 /\ Me.kind \notin {"cond", "rule", "call", "tunableif"}
Skipped ==
  \/ Me.kind = "macro" /\ pass \notin {TIF, MACRO}
  \/ Me.kind = "block" /\ Me.datum \in abstract /\ pass > BLKABS

RejectNesting ==
  /\ Visiting /\ Forbidden
  /\ status' = "err"
  /\ UNCHANGED <<policy, tree, abstract, disabled, pass, cur, at, item, context,
                 ins, resolved>>

SkipSubtree ==
  /\ Visiting /\ ~Forbidden /\ Skipped
  /\ at' = "over"
  /\ UNCHANGED <<policy, tree, abstract, disabled, status, pass, cur, item, context,
                 ins, resolved>>

(* The statement that __cil_resolve_ast_node has to deal with in this pass *)
Handled ==
  CASE pass = TIF -> Me.kind = "tunableif"
    [] pass = PassIn -> Me.kind = "in"
    [] pass = BLKIN_LINK -> Me.kind = "blockinherit"
    [] pass = BLKIN_COPY -> Me.kind = "block"
    [] pass = BLKABS -> Me.kind = "blockabstract"
    [] pass = MACRO -> Me.kind = "call" /\ macro # 0
    [] pass = CALL1 -> Me.kind = "call"
Handling(p) == Visiting /\ ~Forbidden /\ ~Skipped /\ pass = p /\ Handled

PlainNode ==
  /\ Visiting /\ ~Forbidden /\ ~Skipped /\ ~Handled
  /\ at' = "down"
  /\ UNCHANGED <<policy, tree, abstract, disabled, status, pass, cur, item, context,
                 ins, resolved>>

(* A handler returned rc: the innermost optional is disabled if a name was *)
(* not found, and any other error ends the compilation                     *)
HandlerFails(rc) ==
  /\ rc # "ok"
  /\ IF rc = "enoent" /\ optstack # <<>>
     THEN disabled' = disabled \cup {Head(optstack)} /\ at' = "down" /\ UNCHANGED status
     ELSE status' = (IF rc = "enoent" THEN "err" ELSE rc) /\ UNCHANGED <<disabled, at>>
  /\ UNCHANGED tree

(* A handler ends with the result c of a copy *)
HandlerCopies(c) ==
  /\ IF c.rc = "ok" THEN tree' = c.tree /\ at' = "down" /\ UNCHANGED status
     ELSE status' = c.rc /\ UNCHANGED <<tree, at>>
  /\ UNCHANGED disabled

Branch_First(value) == {n \in Kids(tree, cur) : n = cur + 1}

(* The branch of a tunableif for a value of its condition, if it has one *)
Branch(value) == {n \in Kids(tree, cur) : tree.node[n].val = value}

(* cil_resolve_tunif: the branch selected moves to the end of the parent *)
ResolveTunif ==
  /\ Handling(TIF)
  /\ LET r == ResolveName(tree, cur, "tunables")
         value == tree.node[NODE(tree, r.datum)].val
         none == [rc |-> "ok", tree |-> tree]
         c == IF Branch(value) = {} THEN none
              ELSE CopyAst(tree, Max(Branch(value)), Me.parent)
     IN \/ HandlerFails(r.rc)
        \/ r.rc = "ok" /\ HandlerCopies([c EXCEPT !.tree = DestroyKids(@, cur)])
  /\ UNCHANGED <<policy, abstract, pass, cur, item, context, ins, resolved>>

GatherIn ==
  /\ Handling(PassIn)
  /\ ins' = <<cur>> \o ins
  /\ at' = "down"
  /\ UNCHANGED <<policy, tree, abstract, disabled, status, pass, cur, item, context, resolved>>

(* cil_resolve_blockinherit_link *)
LinkInherit ==
  /\ Handling(BLKIN_LINK)
  /\ LET r == ResolveName(tree, cur, "blocks")
         rc == IF r.rc = "ok" /\ tree.node[NODE(tree, r.datum)].kind # "block"
               THEN "err" ELSE r.rc
     IN \/ HandlerFails(rc)
        \/ /\ rc = "ok"
           /\ tree' = [tree EXCEPT !.node[cur].to = r.datum, !.links = Append(@, cur)]
           /\ at' = "down"
           /\ UNCHANGED <<disabled, status>>
  /\ UNCHANGED <<policy, abstract, pass, cur, item, context, ins, resolved>>

(* block->bi_nodes *)
Heirs(d) == SelectSeq(tree.links, LAMBDA n : tree.node[n].to = d)

IsOriginal_Any == TRUE

(* "Make sure this is the original block and not a merged block" *)
IsOriginal == cur = NODE(tree, Me.datum)

(* cil_resolve_blockinherit_copy: the original block is copied to each     *)
(* member of a list that may grow meanwhile                                *)
VisitBlock ==
  /\ Handling(BLKIN_COPY)
  /\ at' = IF IsOriginal THEN "heirs" ELSE "down"
  /\ item' = 1
  /\ UNCHANGED <<policy, tree, abstract, disabled, status, pass, cur, context, ins, resolved>>

CopyToHeir ==
  /\ status = "walk" /\ at = "heirs"
  /\ IF item > Len(Heirs(Me.datum))
     THEN at' = "down" /\ UNCHANGED <<tree, status, item>>
     ELSE LET heir == Heirs(Me.datum)[item]
              c == CopyAst(tree, cur, heir)
              rc == IF heir \in tree.live THEN c.rc ELSE "undefined"
          IN /\ IF rc = "ok" THEN tree' = c.tree /\ UNCHANGED status
                ELSE status' = rc /\ UNCHANGED tree
             /\ item' = item + 1
             /\ UNCHANGED at
  /\ UNCHANGED <<policy, abstract, disabled, pass, cur, context, ins, resolved>>

(* cil_resolve_blockabstract *)
MarkAbstract ==
  /\ Handling(BLKABS)
  /\ LET r == ResolveName(tree, cur, "blocks")
         isBlock == tree.node[NODE(tree, r.datum)].kind = "block"
     IN \/ HandlerFails(r.rc) /\ UNCHANGED abstract
        \/ /\ r.rc = "ok"
           /\ abstract' = IF isBlock THEN abstract \cup {r.datum} ELSE abstract
           /\ at' = "down"
           /\ UNCHANGED <<tree, disabled, status>>
  /\ UNCHANGED <<policy, pass, cur, item, context, ins, resolved>>

(* cil_resolve_call1, in the pass MACRO for the calls inside of macros *)
ExpandCall ==
  /\ Handling(MACRO) \/ Handling(CALL1)
  /\ LET r == ResolveName(tree, cur, "blocks")
         m == NODE(tree, r.datum)
         rc == IF r.rc = "ok" /\ (\/ tree.node[m].kind # "macro"
                                  \/ Len(tree.node[m].params) # Len(Me.params))
               THEN "err" ELSE r.rc
         t == [tree EXCEPT !.node[cur] = [@ EXCEPT !.to = r.datum, !.copied = TRUE]]
     IN \/ HandlerFails(rc)
        \/ rc = "ok" /\ HandlerCopies(IF Me.copied THEN [rc |-> "ok", tree |-> t]
                                      ELSE CopyAst(t, m, cur))
  /\ UNCHANGED <<policy, abstract, pass, cur, item, context, ins, resolved>>
-----------------------------------------------------------------------------
(* cil_tree_walk and the helpers for the first and the last child *)

(* "Recursive macro call found": the check leaves out the innermost call *)
Recursive ==
  /\ Me.kind = "call" /\ callstack # <<>>
  /\ \E i \in 2..Len(callstack) : tree.node[callstack[i]].to = Me.to

GoDown ==
  /\ status = "walk" /\ at = "down"
  /\ IF Kids(tree, cur) = {}
     THEN at' = "over" /\ UNCHANGED <<status, cur, context>>
     ELSE IF Recursive
     THEN status' = "err" /\ UNCHANGED <<at, cur, context>>
     ELSE /\ cur' = Min(Kids(tree, cur))
          /\ at' = "visit"
          /\ optstack' = IF Me.kind = "optional" THEN <<Me.datum>> \o optstack ELSE optstack
          /\ callstack' = IF Me.kind = "call" THEN <<cur>> \o callstack ELSE callstack
          /\ boolif' = IF Me.kind = "booleanif" THEN cur ELSE boolif
          /\ macro' = IF Me.kind = "macro" THEN cur ELSE macro
          /\ UNCHANGED status
  /\ UNCHANGED <<policy, tree, abstract, disabled, pass, item, ins, resolved>>

Later == {n \in Kids(tree, Me.parent) : n > cur}
Up == tree.node[Me.parent]

GoOver ==
  /\ status = "walk" /\ at = "over" /\ cur # Root /\ Later # {}
  /\ cur' = Min(Later)
  /\ at' = "visit"
  /\ UNCHANGED <<policy, tree, abstract, disabled, status, pass, item, context,
                 ins, resolved>>

MacroLeft_Kept == macro

(* args->macro after the last child *)
MacroLeft == IF Up.kind = "macro" THEN 0 ELSE macro

GoUp ==
  /\ status = "walk" /\ at = "over" /\ cur # Root /\ Later = {}
  /\ tree' = IF Up.kind = "optional" /\ Up.datum \in disabled
             THEN DestroyKids(tree, Me.parent) ELSE tree
  /\ cur' = Me.parent
  /\ optstack' = IF Up.kind = "optional" THEN Tail(optstack) ELSE optstack
  /\ callstack' = IF Up.kind = "call" THEN Tail(callstack) ELSE callstack
  /\ boolif' = IF Up.kind = "booleanif" THEN 0 ELSE boolif
  /\ macro' = MacroLeft
  /\ UNCHANGED <<policy, abstract, disabled, status, pass, at, item, ins, resolved>>

NextPass ==
  /\ status' = IF pass = CALL1 THEN "ok" ELSE "walk"
  /\ pass' = IF pass = CALL1 THEN pass ELSE pass + 1
  /\ at' = "down"
  /\ optstack' = <<>> /\ callstack' = <<>>
  /\ UNCHANGED <<boolif, macro>>

EndPass ==
  /\ status = "walk" /\ at = "over" /\ cur = Root
  /\ IF pass = PassIn
     THEN status' = "ins" /\ item' = 1 /\ resolved' = FALSE /\ UNCHANGED <<pass, at, context>>
     ELSE NextPass /\ UNCHANGED <<item, resolved>>
  /\ UNCHANGED <<policy, tree, abstract, disabled, cur, ins>>

(* cil_resolve_in_list, one member of the list.  cil_resolve_in moves the  *)
(* body to the node of the block, macro or optional that is named.  The    *)
(* list may hold a node that was destroyed with its optional.              *)
ResolveIn ==
  /\ status = "ins" /\ item <= Len(ins)
  /\ LET n == ins[item]
         r == ResolveName(tree, n, "blocks")
         c == CopyAst(tree, n, NODE(tree, r.datum))
     IN IF n \notin {0} \cup tree.live
        THEN status' = "undefined" /\ UNCHANGED <<tree, ins, resolved>>
        ELSE IF n = 0 \/ r.rc \in {"enoent", "err"}
        THEN UNCHANGED <<tree, status, ins, resolved>>
        ELSE IF r.rc = "undefined"
        THEN status' = "undefined" /\ UNCHANGED <<tree, ins, resolved>>
        ELSE IF c.rc # "ok"
        THEN status' = c.rc /\ UNCHANGED <<tree, ins, resolved>>
        ELSE /\ tree' = DestroyKids(c.tree, n)
             /\ ins' = [ins EXCEPT ![item] = 0]
             /\ resolved' = TRUE
             /\ UNCHANGED status
  /\ item' = item + 1
  /\ UNCHANGED <<policy, abstract, disabled, pass, cur, at, context>>

AfterRound_TryAgain == "ins"

(* A round that resolved nothing is the last one *)
AfterRound == IF resolved THEN "ins" ELSE "err"

(* The end of a round of cil_resolve_in_list *)
EndRound ==
  /\ status = "ins" /\ item > Len(ins)
  /\ IF ToSet(ins) \subseteq {0}
     THEN NextPass /\ ins' = <<>> /\ UNCHANGED <<item, resolved>>
     ELSE /\ status' = AfterRound
          /\ item' = 1 /\ resolved' = FALSE
          /\ UNCHANGED <<pass, at, ins, context>>
  /\ UNCHANGED <<policy, tree, abstract, disabled, cur>>

Ended == status \notin {"walk", "ins"}
Done == Ended /\ UNCHANGED vars

Next == \/ RejectNesting \/ SkipSubtree \/ PlainNode
        \/ ResolveTunif \/ GatherIn \/ LinkInherit \/ VisitBlock \/ CopyToHeir
        \/ MarkAbstract \/ ExpandCall
        \/ GoDown \/ GoOver \/ GoUp \/ EndPass \/ ResolveIn \/ EndRound
        \/ Done

(* One sequential computation that is not suspended: it takes steps until  *)
(* it has ended.  This is WF_vars(Next), as a step is possible in every    *)
(* state before (which the check for deadlock shows).                      *)
Fairness == []<><<Next>>_vars \/ []<>Ended

Spec == Init /\ [][Next]_vars /\ Fairness
-----------------------------------------------------------------------------
(* Properties *)

Node == [kind : Kind, parent : Nat, name : Name \cup {NoName},
         ref : Seq(Name \cup {"."}), params : Seq(Name), val : BOOLEAN,
         datum : Nat, src : Nat, to : Nat, copied : BOOLEAN, ns : Nat]

(* Types: every node in the tree hangs below one that is in the tree, data *)
(* and links are named by nodes, and the walk is at a node of the tree     *)
TypeOK ==
  /\ tree.node \in Seq(Node)
  /\ tree.live \subseteq DOMAIN tree.node /\ Root \in tree.live
  /\ \A n \in tree.live \ {Root} : tree.node[n].parent \in tree.live
  /\ \A n \in DOMAIN tree.node : {tree.node[n].datum, tree.node[n].to, tree.node[n].ns}
                                    \subseteq 0..Len(tree.node)
  /\ ToSet(tree.links) \subseteq DOMAIN tree.node
  /\ abstract \cup disabled \subseteq DOMAIN tree.node
  /\ status \in {"walk", "ins", "ok", "err", "undefined", "diverges"}
  /\ pass \in TIF..CALL1
  /\ cur \in tree.live
  /\ at \in {"visit", "down", "heirs", "over"}
  /\ item \in Nat \ {0}
  /\ optstack \in Seq(DOMAIN tree.node) /\ callstack \in Seq(tree.live)
  /\ {boolif, macro} \subseteq {0} \cup tree.live
  /\ ToSet(ins) \subseteq {0} \cup DOMAIN tree.node
  /\ resolved \in BOOLEAN

Start(p) == status = "walk" /\ pass = p /\ cur = Root /\ at = "down"
AboveKind(n, kind) == {m \in Above(tree.node, n) : tree.node[m].kind = kind}
(* The position of n in a stack of the nodes S, innermost first *)
Depth(n, S) == Cardinality({m \in S : m >= n})

(* What the helpers know of the place the walk is at is what is true of    *)
(* it: the optionals and calls around the node, whether it is in a         *)
(* booleanif and, unless a macro was copied into a macro, whether it is in *)
(* a macro, also when the tree is changed during the walk                  *)
(* (__cil_resolve_ast_first_child_helper, .._last_child_helper).           *)
ContextExact ==
  Visiting =>
    LET optionals == AboveKind(cur, "optional")
        calls     == AboveKind(cur, "call")
        macros    == AboveKind(cur, "macro")
    IN /\ Len(optstack) = Cardinality(optionals)
       /\ \A n \in optionals : optstack[Depth(n, optionals)] = tree.node[n].datum
       /\ Len(callstack) = Cardinality(calls)
       /\ \A n \in calls : callstack[Depth(n, calls)] = n
       /\ (boolif # 0) = (AboveKind(cur, "booleanif") # {})
       /\ macro \in {0} \cup macros
       /\ macro = 0 /\ macros # {} =>
            \E n \in tree.live : tree.node[n].kind = "macro" /\ AboveKind(n, "macro") # {}

(* The same of macros without exception: args->macro tells whether the     *)
(* statement is in one (__cil_resolve_ast_last_child_helper)               *)
MacroKnown == Visiting => ((macro # 0) = (AboveKind(cur, "macro") # {}))

(* The condition of the tunableif around cond c, decided in the tree that  *)
(* was built, selects c                                                    *)
IsSelected(c) ==
  LET r == ResolveName(Built(policy), policy[c].parent, "tunables")
  IN policy[r.datum].val = policy[c].val
IsBranch(n) == policy[n].kind = "cond" /\ policy[policy[n].parent].kind = "tunableif"
Chosen(n) == \A c \in Above(policy, n) : IsBranch(c) => IsSelected(c)
(* The node around n that is no tunableif and no branch of one *)
Owner(n) == Max({m \in Above(policy, n) : ~IsBranch(m) /\ policy[m].kind # "tunableif"})
NodesFrom(n) == {m \in tree.live : tree.node[m].src = n}

(* When tunableif and in are done, each statement is in the tree once if   *)
(* every branch around it was selected and not at all if not, below the    *)
(* node it was written below, or below the one its in statement names      *)
(* (cil_resolve_tunif, cil_resolve_in_list).                               *)
MovedOnce ==
  Start(BLKIN_LINK) /\ disabled = {} =>
    \A n \in {m \in 2..Len(policy) : ~IsBranch(m)} :
      IF ~Chosen(n) THEN NodesFrom(n) = {}
      ELSE \E m \in tree.live :
             /\ NodesFrom(n) = {m}
             /\ LET up == CHOOSE u \in NodesFrom(Owner(n)) : TRUE
                IN tree.node[m].parent =
                     IF tree.node[up].kind # "in" THEN up
                     ELSE NODE(tree, ResolveName(tree, up, "blocks").datum)

(* What is below n, without the bodies of calls and inherited blocks in it *)
Body(n) ==
  LET depth(m) == Cardinality(Above(tree.node, m)) - Cardinality(Above(tree.node, n))
      inner(m) == \E k \in Above(tree.node, m) \cap Below(tree, n) :
                    tree.node[k].kind \in {"call", "blockinherit"}
      own == SelectSeq(Tail(Preorder(tree, n)), LAMBDA m : ~inner(m))
  IN [i \in DOMAIN own |-> <<tree.node[own[i]].src, depth(own[i])>>]

(* When all blocks have been copied, every blockinherit that was linked    *)
(* holds the body of its block, whole and once, in whatever order the      *)
(* blocks come and whichever of them inherit, contain or are merged into   *)
(* each other (cil_resolve_blockinherit_copy).                             *)
InheritedExact ==
  Start(BLKABS) =>
    \A n \in {m \in tree.live : tree.node[m].kind = "blockinherit"} :
      LET d == tree.node[n].to
      IN NodesOf(tree, d) # {} => Body(n) = Body(NODE(tree, d))

(* A node that the later passes reach: in no macro or abstract block *)
Reached(n) ==
  \A m \in Above(tree.node, n) :
    tree.node[m].kind # "macro" /\ tree.node[m].datum \notin abstract

(* After these passes every call holds the body of its macro, whole and    *)
(* once, also if it came with the body of another macro or block, where it *)
(* may have been expanded before it was copied (cil_resolve_call1).        *)
CallsExact ==
  status = "ok" /\ disabled = {} =>
    \A n \in {m \in tree.live : tree.node[m].kind = "call" /\ Reached(m)} :
      Body(n) = Body(NODE(tree, tree.node[n].to))

(* Whatever was moved or copied where, the tree that the later passes go   *)
(* through has no macro or tunable in an optional and only what is allowed *)
(* in booleanifs (__cil_resolve_ast_node_helper).                          *)
NestingAllowed ==
  status = "ok" =>
    \A n \in {m \in tree.live : Reached(m)} :
      /\ AboveKind(n, "optional") # {} => tree.node[n].kind \notin {"macro", "tunable"}
      /\ AboveKind(n, "booleanif") # {}
           => tree.node[n].kind \in {"cond", "rule", "call", "tunableif"}

(* The names of the containers that statement n is in or is inserted into, *)
(* and the names that the statements of a kind in container x use          *)
Containers(n) ==
  UNION {IF policy[m].kind = "in" THEN ToSet(policy[m].ref) ELSE {policy[m].name} :
           m \in Above(policy, n)}
Uses(kind, x) ==
  {Last(policy[n].ref) : n \in {m \in DOMAIN policy : policy[m].kind = kind /\ x \in Containers(m)}}

(* Containers in a circle: what is in each inherits or calls the next one  *)
Circle(kind) ==
  \E S \in SUBSET {policy[n].name : n \in DOMAIN policy} :
    S # {} /\ \A x \in S : Uses(kind, x) \cap S # {}
Circular == Circle("blockinherit") \/ Circle("call")

(* The passes end: the rounds of cil_resolve_in_list stop, the list of     *)
(* blockinherits stops growing and every copy comes to its end, unless     *)
(* blocks inherit or macros call each other in a circle, by their names.   *)
(* In a circle cil_copy_ast may copy for ever, which nothing prevents.     *)
Terminates == <>(Ended /\ (status = "diverges" => Circular))

(* README: "Recursive limits are not handled".  Without that restriction   *)
(* it is false: a copy into what is copied does not end (cil_copy_ast).    *)
CopiesEnd == status # "diverges"

(* docs/cil_call_macro_statements.xml: "when resolving macros the callers  *)
(* namespace is not checked": a call inside of a macro is bound to the     *)
(* same macro wherever its macro is called                                 *)
CallersNamespaceUnchecked ==
  status = "ok" =>
    \A n \in {m \in tree.live : tree.node[m].kind = "call" /\ Reached(m)} :
      LET src == tree.node[n].src
          r == ResolveName(Built(policy), src, "blocks")
      IN "macro" \in {policy[m].kind : m \in Above(policy, src)}
           => tree.node[NODE(tree, tree.node[n].to)].src = r.datum

(* docs/cil_container_statements.xml on in: "Allows the insertion of CIL   *)
(* statements into a named container": moving the body is well defined     *)
InsertionDefined == status # "undefined"

(* cil_resolve_ast: "things done in the preceeding passes aren't allowed   *)
(* in optionals, and thus can't be disabled": a statement that one of      *)
(* these passes has linked to a block or a macro is not destroyed by them  *)
EarlyWorkKept ==
  [][\A n \in tree.live : tree.node[n].to # 0 => n \in tree'.live]_vars
=============================================================================
