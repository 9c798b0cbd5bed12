-------------------------- MODULE CilResolveProofs --------------------------
(***************************************************************************)
(* Theorems about CilResolve, for every tree.                              *)
(*                                                                         *)
(* First the walk and the optionals it disables: what is on the stack of   *)
(* optionals, that re-resolution makes progress, that no optional is       *)
(* disabled needlessly, and that every statement of an accepted policy has *)
(* found its names.                                                        *)
(*                                                                         *)
(* Then the data: the types that the handlers of __cil_resolve_ast_node    *)
(* and cil_reset_ast keep, and what the statements leave in the data.  In  *)
(* an accepted policy every name means what it means in the final tree,    *)
(* and the fields of the data carry what the statements of the final tree  *)
(* say, however many rounds of resolution there were.                      *)
(***************************************************************************)
EXTENDS CilImplements, NumberLemmas

(* A statement is resolved, with what it does to the data left out *)
Handled ==
  /\ AtNode /\ ast[cur].kind \notin PlainKind /\ pass = PassOf(ast[cur].kind)
  /\ AllFound(cur)
  /\ UNCHANGED tree
  /\ \/ Advance
     \/ status' \in {"err", "undefined"} /\ UNCHANGED <<pass, cur, optstack, changed>>

(* Every handler of __cil_resolve_ast_node either lets the walk go on or   *)
(* stops the compilation, and leaves the tree alone.                       *)
LEMMA HandlerShape == ResolveStatement => Handled
<1>1. ASSUME NEW k, Handle(k), k \notin PlainKind, Advance
      PROVE  Handled
  BY <1>1 DEF Handle, AtStatement, Handled
<1>2. ASSUME NEW k, Handle(k), k \notin PlainKind,
             NEW out \in {"err", "undefined"}, Stop(out)
      PROVE  Handled
  BY <1>2 DEF Handle, AtStatement, Handled, Stop
<1>3. ASSUME NEW k, Handle(k), k \notin PlainKind,
             NEW valid, NEW marks, KeepRule(valid, marks)
      PROVE  Handled
  BY <1>1, <1>2, <1>3 DEF KeepRule, KeepNames
<1>4. ASSUME NEW k, Handle(k), k \notin PlainKind, NEW d, NEW f,
             BindOnce(d, f) \/ Overwrite(d, f) \/ Attach(d, f)
      PROVE  Handled
  BY <1>1, <1>2, <1>4 DEF BindOnce, Overwrite, Attach, KeepNames
<1>5. ResolveAliasActual => Handled
  <2>1. ResolveAliasActual =>
          /\ Handle("aliasactual")
          /\ \/ Stop("err") \/ KeepNames
             \/ BindOnce(Target, "bounds") \/ Stop("undefined")
    BY Zenon DEF ResolveAliasActual
  <2> QED
    BY <1>1, <1>2, <1>4, <2>1 DEF KeepNames, PlainKind, SkippedKind
<1>6. ResolveAliasToActual => Handled
  BY <1>1, <1>2 DEF ResolveAliasToActual, KeepNames, PlainKind, SkippedKind
<1>7. ASSUME NEW f \in OrderFlavor, ResolveOrder(f) PROVE Handled
  BY <1>1, <1>2, <1>7
  DEF ResolveOrder, KeepNames, OrderFlavor, OrderKind, PlainKind, SkippedKind
<1>8. ResolveClasscommon => Handled
  BY <1>1, <1>2 DEF ResolveClasscommon, KeepNames, PlainKind, SkippedKind
<1>9. ASSUME NEW k \in {"typeattributeset", "roleattributeset"}, NEW flavor,
             ResolveAttributeSet(k, flavor)
      PROVE  Handled
  BY <1>2, <1>4, <1>9 DEF ResolveAttributeSet, PlainKind, SkippedKind
<1>10. ResolveBounds \/ ResolveSidcontext => Handled
  BY <1>2, <1>4 DEF ResolveBounds, ResolveSidcontext, PlainKind, SkippedKind
<1>11. \/ ResolveSenscat \/ ResolveClasspermissionset \/ ResolveClassmapping
       \/ ResolveUserrole \/ ResolveUserlevel \/ ResolveUserrange
       => Handled
  BY <1>4 DEF ResolveSenscat, ResolveClasspermissionset, ResolveClassmapping,
              ResolveUserrole, ResolveUserlevel, ResolveUserrange,
              PlainKind, SkippedKind
<1>12. \/ ResolveCall2 \/ ResolveBoolif \/ ResolveCatset \/ ResolveTypepermissive
       \/ ResolveRangetransition \/ ResolveContext \/ ResolveNodecon
       => Handled
  BY <1>3 DEF ResolveCall2, ResolveBoolif, ResolveCatset, ResolveTypepermissive,
              ResolveRangetransition, ResolveContext, ResolveNodecon,
              PlainKind, SkippedKind
<1>13. ASSUME NEW k \in {"avrule", "neverallow", "type_rule", "nametypetransition",
                         "roletype", "roletransition", "roleallow", "constrain",
                         "validatetrans", "userprefix", "selinuxuser", "level",
                         "levelrange", "filecon", "portcon", "genfscon",
                         "netifcon", "pirqcon", "iomemcon", "ioportcon",
                         "pcidevicecon", "fsuse", "default", "defaultrange"},
              \/ ResolveAvrule(k) \/ ResolveTypeRule(k) \/ ResolveRoleRule(k)
              \/ ResolveConstrain(k) \/ ResolveUserRule(k) \/ ResolveLevel(k)
              \/ ResolveLabel(k) \/ ResolveDeviceLabel(k) \/ ResolveDefault(k)
       PROVE  Handled
  BY <1>3, <1>13 DEF ResolveAvrule, ResolveTypeRule, ResolveRoleRule,
       ResolveConstrain, ResolveUserRule, ResolveLevel, ResolveLabel,
       ResolveDeviceLabel, ResolveDefault, PlainKind, SkippedKind
<1> QED
  BY <1>5, <1>6, <1>7, <1>8, <1>9, <1>10, <1>11, <1>12, <1>13 DEF ResolveStatement
-----------------------------------------------------------------------------
(* Facts about trees and about the stack *)

Nested ==
  /\ Len(ast) \in Nat
  /\ \A n \in Node : /\ ast[n].last \in n..Len(ast)
                      /\ \A m \in Below(n) : ast[m].last <= ast[n].last
  /\ \A o \in Optional : ast[o].decl \in Datum

(* The subtrees of a tree of the program are nested. *)
LEMMA TreeNested == ASSUME ast \in Ast PROVE Nested
BY AstAssumption DEF IsTree, Nested, Node, Below, Optional

(* Pushing an optional puts it before the others. *)
LEMMA Push ==
  ASSUME NEW S, NEW s \in Seq(S), NEW x \in S
  PROVE  /\ <<x>> \o s \in Seq(S)
         /\ DOMAIN (<<x>> \o s) = 1..(Len(s) + 1)
         /\ 1 \in DOMAIN (<<x>> \o s) /\ (<<x>> \o s)[1] = x
         /\ \A i \in DOMAIN s :
               i + 1 \in DOMAIN (<<x>> \o s) /\ (<<x>> \o s)[i + 1] = s[i]
         /\ \A i \in 2..(Len(s) + 1) : (<<x>> \o s)[i] = s[i - 1] /\ i - 1 \in DOMAIN s
OBVIOUS

(* Popping an optional leaves the others. *)
LEMMA Pop ==
  ASSUME NEW S, NEW s \in Seq(S), s # <<>>
  PROVE  /\ Tail(s) \in Seq(S) /\ Head(s) \in S
         /\ 1 \in DOMAIN s /\ Head(s) = s[1]
         /\ DOMAIN Tail(s) = 1..(Len(s) - 1)
         /\ \A i \in DOMAIN Tail(s) : i + 1 \in DOMAIN s /\ Tail(s)[i] = s[i + 1]
         /\ \A i \in DOMAIN s : i # 1 => i - 1 \in DOMAIN Tail(s) /\ Tail(s)[i - 1] = s[i]
OBVIOUS

(* Subtrees are nested: what is below a node below o is below o. *)
LEMMA BelowTransitive ==
  ASSUME Nested, NEW o \in Node, NEW m \in Node, m \in Below(o), NEW n \in Below(m)
  PROVE  n \in Below(o)
BY DEF Nested, Node, Below

(* Of two optionals that are open at c, the inner one is below the other. *)
LEMMA BelowOuter ==
  ASSUME Nested, NEW o \in Node, NEW p \in Node, NEW c \in Nat,
         p < o, o < c, c <= ast[p].last + 1
  PROVE  o \in Below(p) /\ p \notin Below(o) /\ o \notin Below(o)
BY DEF Nested, Node, Below
-----------------------------------------------------------------------------
(* The invariant of the walk *)

WalkTypes ==
  /\ ast \in Ast
  /\ alive \subseteq Node
  /\ disabled \subseteq Datum
  /\ status \in Status
  /\ pass \in CALL2..MISC3
  /\ cur \in 1..(Len(ast) + 1)
  /\ optstack \in Seq(Optional)

(* What is around a node of the tree is in the tree *)
AliveClosed == \A s \in Node : \A m \in Below(s) \cap alive : s \in alive

(* An optional on the stack is open and has something left in it *)
StackOpen ==
  \A i \in DOMAIN optstack :
     /\ optstack[i] \in alive /\ Below(optstack[i]) \cap alive # {}
     /\ optstack[i] < cur /\ cur <= ast[optstack[i]].last + 1

(* Innermost optional first *)
StackSorted ==
  \A i, j \in DOMAIN optstack : i < j => optstack[j] < optstack[i]

(* An optional with something left to visit is on the stack *)
StackComplete ==
  \A o \in Optional : \A m \in Below(o) \cap alive :
     o < cur /\ cur <= m => \E i \in DOMAIN optstack : optstack[i] = o

(* The walk never comes to what is below a skipped node *)
SkipComplete ==
  \A s \in Node : \A m \in Below(s) \cap alive :
     s < cur /\ cur <= m => ast[s].kind \notin SkippedKind

(* A pass ends with an empty stack at the end of the tree *)
PassEnded == status \in {"orders", "endpass"} => optstack = <<>> /\ cur = Len(ast) + 1

WalkInv == /\ WalkTypes /\ AliveClosed /\ StackOpen /\ StackSorted
           /\ StackComplete /\ SkipComplete /\ PassEnded

(* At the start nothing is destroyed and nothing is on the stack. *)
LEMMA WalkInit == Init => WalkInv
<1> SUFFICES ASSUME Init PROVE WalkInv
  OBVIOUS
<1>1. Nested
  BY TreeNested DEF Init
<1>2. WalkTypes
  BY <1>1 DEF Init, WalkTypes, Status, Nested, CALL2, MISC3
<1>3. AliveClosed /\ StackOpen /\ StackSorted /\ PassEnded
  BY DEF Init, AliveClosed, StackOpen, StackSorted, PassEnded
<1>4. StackComplete /\ SkipComplete
  BY DEF Init, StackComplete, SkipComplete, Optional, Node
<1> QED
  BY <1>2, <1>3, <1>4 DEF WalkInv

(* Until the innermost optional has ended, the walk is inside all the      *)
(* optionals of the stack.                                                 *)
LEMMA StackAround ==
  ASSUME WalkInv, ~ OptionalEnded, cur \in Node
  PROVE  \A i \in DOMAIN optstack : optstack[i] \in Node /\ cur \in Below(optstack[i])
<1> USE DEF WalkInv
<1>1. Nested
  BY TreeNested DEF WalkTypes
<1>2. SUFFICES ASSUME NEW i \in DOMAIN optstack
               PROVE  optstack[i] \in Node /\ cur \in Below(optstack[i])
  OBVIOUS
<1>3. optstack # <<>> /\ 1 \in DOMAIN optstack /\ Head(optstack) = optstack[1]
  BY Pop DEF WalkTypes
<1>4. optstack[1] \in Node /\ optstack[i] \in Node
  BY <1>3 DEF WalkTypes, Optional
<1>5. cur \in Below(optstack[1])
  BY <1>1, <1>3, <1>4 DEF StackOpen, OptionalEnded, Nested, Node, Below
<1>6. CASE i = 1
  BY <1>4, <1>5, <1>6
<1>7. CASE i # 1
  <2>1. optstack[i] < optstack[1]
    BY <1>3, <1>7 DEF StackSorted, WalkTypes
  <2>2. optstack[1] \in Below(optstack[i])
    BY <1>1, <1>3, <1>4, <2>1 DEF StackOpen, Below, Nested, Node
  <2> QED
    BY <1>1, <1>4, <1>5, <2>2, BelowTransitive
<1> QED
  BY <1>6, <1>7

(* The walk goes on from a node to the next: an optional that has anything *)
(* left in it is pushed.                                                   *)
LEMMA AdvanceInv ==
  ASSUME WalkInv, AtNode, Advance, ast[cur].kind \notin SkippedKind,
         UNCHANGED <<ast, alive>>, disabled' \subseteq Datum
  PROVE  WalkInv'
<1> USE DEF WalkInv
<1>1. Nested /\ cur \in Node /\ cur \in alive /\ cur \in Nat
  BY TreeNested DEF WalkTypes, AtNode, Nested, Node
<1>2. Node' = Node /\ Optional' = Optional /\ \A n \in Node : Below(n)' = Below(n)
  BY DEF Node, Optional, Below
<1>3. /\ cur' = cur + 1 /\ status' = status /\ pass' = pass /\ status = "walk"
      /\ UNCHANGED <<ast, alive>>
  BY DEF Advance, AtNode
<1>4. \A i \in DOMAIN optstack : cur <= ast[optstack[i]].last /\ optstack[i] \in Node
  BY <1>1, StackAround DEF AtNode, Below, Nested, Node
<1>5. /\ StackComplete /\ SkipComplete /\ AliveClosed
      /\ (AliveClosed /\ PassEnded)'
  BY <1>2, <1>3 DEF AliveClosed, PassEnded
<1>6. SkipComplete'
  BY <1>1, <1>2, <1>3 DEF SkipComplete, Below, Nested, Node
<1>7. CASE ast[cur].kind = "optional" /\ Below(cur) \cap alive # {}
  <2>1. cur \in Optional /\ optstack' = <<cur>> \o optstack
    BY <1>1, <1>7 DEF Advance, Optional
  <2>2. /\ optstack' \in Seq(Optional) /\ DOMAIN optstack' = 1..(Len(optstack) + 1)
        /\ 1 \in DOMAIN optstack' /\ optstack'[1] = cur
        /\ \A i \in DOMAIN optstack :
              i + 1 \in DOMAIN optstack' /\ optstack'[i + 1] = optstack[i]
        /\ \A i \in 2..(Len(optstack) + 1) :
              optstack'[i] = optstack[i - 1] /\ i - 1 \in DOMAIN optstack
    BY <2>1, Push DEF WalkTypes
  <2>3. WalkTypes'
    BY <1>1, <1>2, <1>3, <2>2 DEF WalkTypes, Node
  <2>4. StackOpen'
    <3>1. SUFFICES ASSUME NEW i \in DOMAIN optstack'
                   PROVE  LET o == optstack'[i]
                          IN  /\ o \in alive /\ Below(o) \cap alive # {}
                              /\ o < cur + 1 /\ cur + 1 <= ast[o].last + 1
      BY <1>3 DEF StackOpen, Below
    <3>2. CASE i = 1
      BY <1>1, <1>7, <2>2, <3>2 DEF Nested, Node
    <3>3. CASE i # 1
      <4>1. i - 1 \in DOMAIN optstack /\ optstack'[i] = optstack[i - 1]
        BY <2>2, <3>3 DEF WalkTypes
      <4> QED
        BY <1>1, <1>4, <4>1 DEF StackOpen, Nested, Node
    <3> QED
      BY <3>2, <3>3
  <2>5. StackSorted'
    <3>1. SUFFICES ASSUME NEW i \in DOMAIN optstack', NEW j \in DOMAIN optstack', i < j
                   PROVE  optstack'[j] < optstack'[i]
      BY DEF StackSorted
    <3>2. j \in 2..(Len(optstack) + 1) /\ j - 1 \in DOMAIN optstack
      BY <2>2, <3>1 DEF WalkTypes
    <3>3. CASE i = 1
      BY <2>2, <3>2, <3>3 DEF StackOpen
    <3>4. CASE i # 1
      <4>1. i \in 2..(Len(optstack) + 1) /\ i - 1 \in DOMAIN optstack /\ i - 1 < j - 1
        BY <2>2, <3>1, <3>4 DEF WalkTypes
      <4> QED
        BY <2>2, <3>2, <4>1 DEF StackSorted
    <3> QED
      BY <3>3, <3>4
  <2>6. StackComplete'
    <3>1. SUFFICES ASSUME NEW o \in Optional, NEW m \in Below(o) \cap alive,
                          o < cur + 1, cur + 1 <= m
                   PROVE  \E i \in DOMAIN optstack' : optstack'[i] = o
      BY <1>2, <1>3 DEF StackComplete, Optional
    <3>2. CASE o = cur
      BY <2>2, <3>2
    <3>3. CASE o # cur
      <4>1. o < cur /\ cur <= m
        BY <1>1, <3>1, <3>3 DEF Optional, Node, Below, Nested
      <4>2. PICK i \in DOMAIN optstack : optstack[i] = o
        BY <4>1 DEF StackComplete
      <4> QED
        BY <2>2, <4>2
    <3> QED
      BY <3>2, <3>3
  <2> QED
    BY <1>5, <1>6, <2>3, <2>4, <2>5, <2>6
<1>8. CASE ~ (ast[cur].kind = "optional" /\ Below(cur) \cap alive # {})
  <2>1. optstack' = optstack
    BY <1>8 DEF Advance
  <2>2. WalkTypes' /\ StackSorted'
    BY <1>1, <1>2, <1>3, <2>1 DEF WalkTypes, StackSorted, Node
  <2>3. StackOpen'
    BY <1>1, <1>2, <1>3, <1>4, <2>1 DEF StackOpen, Nested, Node, WalkTypes
  <2>4. StackComplete'
    <3>1. SUFFICES ASSUME NEW o \in Optional, NEW m \in Below(o) \cap alive,
                          o < cur + 1, cur + 1 <= m
                   PROVE  \E i \in DOMAIN optstack : optstack[i] = o
      BY <1>2, <1>3, <2>1 DEF StackComplete, Optional
    <3>2. o # cur
      BY <1>8 DEF Optional
    <3>3. o < cur /\ cur <= m
      BY <1>1, <3>1, <3>2 DEF Optional, Node, Below, Nested
    <3> QED
      BY <3>3 DEF StackComplete
  <2> QED
    BY <1>5, <1>6, <2>2, <2>3, <2>4
<1> QED
  BY <1>7, <1>8

(* The walk passes over nodes that hold nothing to visit later. *)
LEMMA JumpInv ==
  ASSUME WalkInv, status = "walk", ~ OptionalEnded, cur \in Node,
         NEW c \in (cur + 1)..(ast[cur].last + 1), cur' = c,
         \A o \in Node : \A m \in Below(o) \cap alive : ~ (cur <= o /\ o < c /\ c <= m),
         UNCHANGED <<tree, status, pass, optstack>>
  PROVE  WalkInv'
<1> USE DEF WalkInv
<1>1. Nested /\ cur \in Nat /\ c \in Nat /\ cur < c
  BY TreeNested DEF WalkTypes, Nested, Node
<1>2. ast' = ast /\ alive' = alive /\ disabled' = disabled
  BY DEF tree
<1>3. Node' = Node /\ Optional' = Optional /\ \A n \in Node : Below(n)' = Below(n)
  BY <1>2 DEF Node, Optional, Below
<1>4. WalkTypes'
  BY <1>1, <1>2, <1>3 DEF WalkTypes, Nested, Node
<1>5. StackOpen'
  <2>1. SUFFICES ASSUME NEW i \in DOMAIN optstack
                 PROVE  optstack[i] < c /\ c <= ast[optstack[i]].last + 1
    BY <1>2 DEF StackOpen, Below
  <2>2. optstack[i] \in Node /\ cur \in Below(optstack[i])
    BY StackAround
  <2> QED
    BY <1>1, <2>2 DEF Nested, Node, Below
<1>6. StackComplete'
  <2>1. SUFFICES ASSUME NEW o \in Optional, NEW m \in Below(o) \cap alive, o < c, c <= m
                 PROVE  \E i \in DOMAIN optstack : optstack[i] = o
    BY <1>2, <1>3 DEF StackComplete, Optional
  <2>2. o < cur /\ cur <= m
    BY <1>1, <2>1 DEF Optional, Node, Below, Nested
  <2> QED
    BY <2>2 DEF StackComplete
<1>7. SkipComplete'
  <2>1. SUFFICES ASSUME NEW s \in Node, NEW m \in Below(s) \cap alive, s < c, c <= m
                 PROVE  ast[s].kind \notin SkippedKind
    BY <1>2, <1>3 DEF SkipComplete
  <2>2. s < cur /\ cur <= m
    BY <1>1, <2>1 DEF Node, Below, Nested
  <2> QED
    BY <2>2 DEF SkipComplete
<1>8. (AliveClosed /\ StackSorted /\ PassEnded)'
  BY <1>2, <1>3 DEF AliveClosed, StackSorted, PassEnded
<1> QED
  BY <1>4, <1>5, <1>6, <1>7, <1>8

(* The end of an optional: what is below it may be destroyed. *)
LEMMA LeaveInv ==
  ASSUME WalkInv, LeaveOptional
  PROVE  WalkInv'
<1> DEFINE o == Head(optstack)
<1> USE DEF WalkInv
<1>1. Nested
  BY TreeNested DEF WalkTypes
<1>2. /\ UNCHANGED <<ast, disabled, status, pass, cur>>
      /\ status = "walk" /\ optstack # <<>> /\ cur > ast[o].last
      /\ optstack' = Tail(optstack)
      /\ alive' = alive \ Below(o) \/ alive' = alive
  BY DEF LeaveOptional, OptionalEnded
<1>3. /\ Tail(optstack) \in Seq(Optional) /\ o \in Node /\ o = optstack[1]
      /\ 1 \in DOMAIN optstack
      /\ \A i \in DOMAIN Tail(optstack) :
            i + 1 \in DOMAIN optstack /\ Tail(optstack)[i] = optstack[i + 1]
      /\ \A i \in DOMAIN optstack : i # 1 =>
            i - 1 \in DOMAIN Tail(optstack) /\ Tail(optstack)[i - 1] = optstack[i]
  BY <1>2, Pop DEF WalkTypes, Optional
<1>4. Node' = Node /\ Optional' = Optional /\ \A n \in Node : Below(n)' = Below(n)
  BY <1>2 DEF Node, Optional, Below
<1>5. WalkTypes' /\ PassEnded'
  BY <1>2, <1>3, <1>4 DEF WalkTypes, PassEnded
<1>6. AliveClosed'
  <2>1. SUFFICES ASSUME NEW s \in Node, NEW m \in Below(s), m \in alive'
                 PROVE  s \in alive'
    BY <1>4 DEF AliveClosed
  <2>2. s \in alive
    BY <1>2, <2>1 DEF AliveClosed
  <2>3. s \in Below(o) => m \in Below(o)
    BY <1>1, <1>3, <2>1, BelowTransitive
  <2> QED
    BY <1>2, <2>1, <2>2, <2>3
<1>7. StackOpen'
  <2>1. SUFFICES ASSUME NEW i \in DOMAIN Tail(optstack)
                 PROVE  LET p == Tail(optstack)[i]
                        IN  /\ p \in alive' /\ Below(p) \cap alive' # {}
                            /\ p < cur /\ cur <= ast[p].last + 1
    BY <1>2 DEF StackOpen, Below
  <2> DEFINE p == Tail(optstack)[i]
  <2>2. /\ i + 1 \in DOMAIN optstack /\ p = optstack[i + 1] /\ p \in Node
        /\ 1 < i + 1
    BY <1>3 DEF WalkTypes, Optional
  <2>3. p \in alive /\ p < cur /\ cur <= ast[p].last + 1 /\ o \in alive
    BY <1>3, <2>2 DEF StackOpen
  <2>4. p < o
    BY <1>3, <2>2 DEF StackSorted
  <2>5. o \in Below(p) /\ p \notin Below(o) /\ o \notin Below(o)
    <3>1. o < cur /\ cur \in Nat
      BY <1>3, <1>1 DEF StackOpen, WalkTypes, Nested
    <3> QED
      BY <1>1, <1>3, <2>2, <2>3, <2>4, <3>1, BelowOuter
  <2> QED
    BY <1>2, <2>3, <2>5
<1>8. StackSorted'
  BY <1>2, <1>3 DEF StackSorted
<1>9. StackComplete'
  <2>1. SUFFICES ASSUME NEW p \in Optional, NEW m \in Below(p), m \in alive',
                        p < cur, cur <= m
                 PROVE  \E i \in DOMAIN Tail(optstack) : Tail(optstack)[i] = p
    BY <1>2, <1>4 DEF StackComplete, Optional
  <2>2. m \in alive
    BY <1>2, <2>1
  <2>3. PICK i \in DOMAIN optstack : optstack[i] = p
    BY <2>1, <2>2 DEF StackComplete
  <2>4. p # o
    BY <1>1, <1>2, <1>3, <2>1 DEF Nested, Node, Below, WalkTypes
  <2> QED
    BY <1>3, <2>3, <2>4
<1>10. SkipComplete'
  BY <1>2, <1>4 DEF SkipComplete
<1> QED
  BY <1>5, <1>6, <1>7, <1>8, <1>9, <1>10

(* A step that moves nothing. *)
LEMMA StatusInv ==
  ASSUME WalkInv, UNCHANGED <<tree, pass, cur, optstack>>, status' \in Status,
         status' \in {"orders", "endpass"} => optstack = <<>> /\ cur = Len(ast) + 1
  PROVE  WalkInv'
BY DEF tree, WalkInv, WalkTypes, AliveClosed, StackOpen, StackSorted,
       StackComplete, SkipComplete, PassEnded, Node, Below, Optional

(* The walk of a new pass starts with an empty stack at the first node.    *)
LEMMA StartInv ==
  ASSUME WalkInv, UNCHANGED tree, pass' \in CALL2..MISC3, status' = "walk",
         cur' = 1, optstack' = <<>>
  PROVE  WalkInv'
<1> USE DEF WalkInv
<1>1. Nested /\ UNCHANGED <<ast, alive, disabled>>
  BY TreeNested DEF WalkTypes, tree
<1>2. Node' = Node /\ Optional' = Optional /\ \A n \in Node : Below(n)' = Below(n)
  BY <1>1 DEF Node, Optional, Below
<1>3. WalkTypes' /\ AliveClosed' /\ PassEnded'
  BY <1>1, <1>2 DEF WalkTypes, AliveClosed, PassEnded, Nested, Status
<1>4. StackOpen' /\ StackSorted'
  BY DEF StackOpen, StackSorted
<1>5. StackComplete' /\ SkipComplete'
  BY <1>1, <1>2 DEF StackComplete, SkipComplete, Optional, Node, Nested
<1> QED
  BY <1>3, <1>4, <1>5

(* Every step keeps the invariant of the walk. *)
LEMMA WalkStep == WalkInv /\ [Next]_vars => WalkInv'
<1> SUFFICES ASSUME WalkInv, [Next]_vars PROVE WalkInv'
  OBVIOUS
<1>1. Nested /\ WalkTypes /\ AliveClosed /\ PassEnded
  BY TreeNested DEF WalkInv, WalkTypes
<1>2. CASE PassOver
  <2>1. /\ cur \in Node \ alive /\ cur' = cur + 1 /\ status = "walk" /\ ~ OptionalEnded
        /\ UNCHANGED <<tree, status, pass, optstack>>
    BY <1>2 DEF PassOver
  <2>2. cur + 1 \in (cur + 1)..(ast[cur].last + 1)
    BY <1>1, <2>1 DEF Nested, Node
  <2>3. \A o \in Node : \A m \in Below(o) \cap alive :
          ~ (cur <= o /\ o < cur + 1 /\ cur + 1 <= m)
    BY <1>1, <2>1 DEF AliveClosed, Node, Nested
  <2> QED
    BY <2>1, <2>2, <2>3, JumpInv
<1>3. CASE SkipSubtree
  <2>1. /\ cur \in Node /\ cur' = ast[cur].last + 1 /\ status = "walk" /\ ~ OptionalEnded
        /\ UNCHANGED <<tree, status, pass, optstack>>
    BY <1>1, <1>3 DEF SkipSubtree, AtNode, WalkTypes
  <2>2. ast[cur].last + 1 \in (cur + 1)..(ast[cur].last + 1)
    BY <1>1, <2>1 DEF Nested, Node
  <2>3. \A o \in Node : \A m \in Below(o) \cap alive :
          ~ (cur <= o /\ o < ast[cur].last + 1 /\ ast[cur].last + 1 <= m)
    BY <1>1, <2>1 DEF Nested, Node, Below
  <2> QED
    BY <2>1, <2>2, <2>3, JumpInv
<1>4. CASE PassBy
  BY <1>1, <1>4, AdvanceInv DEF PassBy, tree, WalkTypes
<1>5. CASE DisableOptional
  <2>1. ast[Head(optstack)].decl \in Datum
    BY <1>1, <1>5, Pop DEF DisableOptional, WalkTypes, Nested
  <2>2. AtNode /\ Advance /\ UNCHANGED <<ast, alive>> /\ ast[cur].kind \notin SkippedKind
    BY <1>5 DEF DisableOptional, AtStatement, PlainKind
  <2>3. disabled' \subseteq Datum
    BY <1>1, <1>5, <2>1 DEF DisableOptional, WalkTypes
  <2> QED
    BY <2>2, <2>3, AdvanceInv
<1>6. CASE FailMissing
  BY <1>6, StatusInv DEF FailMissing, Stop, Status, Terminal
<1>7. CASE ResolveStatement
  <2>1. Handled
    BY <1>7, HandlerShape
  <2>2. CASE Advance
    <3>1. AtNode /\ UNCHANGED <<ast, alive, disabled>> /\ ast[cur].kind \notin SkippedKind
      BY <2>1 DEF Handled, PlainKind, tree
    <3> QED
      BY <1>1, <2>2, <3>1, AdvanceInv DEF WalkTypes
  <2>3. CASE status' \in {"err", "undefined"} /\ UNCHANGED <<pass, cur, optstack, changed>>
    BY <2>1, <2>3, StatusInv DEF Handled, Status, Terminal
  <2> QED
    BY <2>1, <2>2, <2>3 DEF Handled
<1>8. CASE LeaveOptional
  BY <1>8, LeaveInv
<1>9. CASE EndWalk
  <2>1. optstack = <<>> /\ cur = Len(ast) + 1
    BY <1>1, <1>9 DEF EndWalk, WalkTypes, Nested
  <2> QED
    BY <1>9, <2>1, StatusInv DEF EndWalk, Status
<1>10. CASE MergeOrders
  <2>1. status' \in {"undefined", "endpass", "err"} /\ status = "orders"
        /\ UNCHANGED <<tree, pass, cur, optstack>>
    BY <1>10 DEF MergeOrders
  <2> QED
    BY <1>1, <2>1, StatusInv DEF PassEnded, Status, Terminal
<1>11. CASE Restart
  <2>1. CASE Stop("undefined")
    BY <1>11, <2>1, StatusInv DEF Restart, Stop, Status, Terminal
  <2>2. CASE status' = "walk" /\ pass' = CALL1 + 1 /\ cur' = 1 /\ optstack' = <<>>
    BY <1>11, <2>2, StartInv DEF Restart, CALL1, CALL2, MISC3
  <2> QED
    BY <1>11, <2>1, <2>2 DEF Restart
<1>12. CASE NextPass
  <2>1. pass + 1 \in CALL2..MISC3
    BY <1>1, <1>12 DEF NextPass, WalkTypes, CALL2, MISC3
  <2> QED
    BY <1>12, <2>1, StartInv DEF NextPass
<1>13. CASE Finish
  <2>1. status' \in {"undefined", "err", "ok"} /\ UNCHANGED <<tree, pass, cur, optstack>>
    BY <1>13 DEF Finish
  <2> QED
    BY <2>1, StatusInv DEF Status, Terminal
<1>14. CASE UNCHANGED vars
  BY <1>1, <1>14, StatusInv DEF vars, walk, PassEnded, WalkTypes
<1> QED
  BY <1>2, <1>3, <1>4, <1>5, <1>6, <1>7, <1>8, <1>9, <1>10, <1>11, <1>12, <1>13,
     <1>14 DEF Next, Done

(* The invariant of the walk holds throughout. *)
LEMMA WalkInvariant == Spec => []WalkInv
BY WalkInit, WalkStep, PTL DEF Spec
-----------------------------------------------------------------------------
(* The stack at a node is the optionals around it, innermost first. *)
LEMMA StackIsAround == WalkInv => OptstackExact
<1> SUFFICES ASSUME WalkInv, AtNode
             PROVE  /\ ToSet(optstack) = Around(cur)
                    /\ \A i, j \in DOMAIN optstack : i < j => optstack[j] < optstack[i]
  BY DEF OptstackExact
<1> USE DEF WalkInv
<1>1. Nested /\ cur \in Node /\ cur \in alive
  BY TreeNested DEF WalkTypes, AtNode
<1>2. \A i \in DOMAIN optstack : optstack[i] \in Around(cur)
  BY <1>1, StackAround DEF AtNode, Around, WalkTypes
<1>3. ASSUME NEW o \in Around(cur) PROVE o \in ToSet(optstack)
  <2>1. o \in Optional /\ o < cur /\ cur \in Below(o) \cap alive /\ cur <= cur
    BY <1>1, <1>3 DEF Around, Optional, Below, Node, Nested
  <2> QED
    BY <2>1 DEF StackComplete, ToSet
<1> QED
  BY <1>2, <1>3 DEF ToSet, StackSorted

(* The optional stack of __cil_resolve_ast_first_child_helper and          *)
(* __cil_resolve_ast_last_child_helper is exact at every node of every     *)
(* tree, in every round of resolution.                                     *)
THEOREM OptstackTheorem == Spec => []OptstackExact
BY WalkInvariant, StackIsAround, PTL

(* *changed is set by __cil_resolve_ast_last_child_helper only when it     *)
(* destroys at least one node, so there are at most as many re-resolutions *)
(* as the tree has nodes.                                                  *)
THEOREM ChangeTheorem == Spec => ChangeDestroys
<1>1. ASSUME WalkInv, [Next]_vars
      PROVE  [changed' /\ ~ changed => alive' # alive]_vars
  <2>1. SUFFICES ASSUME Next, changed', ~ changed PROVE alive' # alive
    BY <1>1
  <2>2. CASE LeaveOptional
    <3>1. alive' = alive \ Below(Head(optstack)) /\ optstack # <<>>
      BY <2>1, <2>2 DEF LeaveOptional, OptionalEnded
    <3>2. Below(Head(optstack)) \cap alive # {}
      BY <1>1, <3>1, Pop DEF WalkInv, WalkTypes, StackOpen
    <3> QED
      BY <3>1, <3>2
  <2>3. CASE ResolveStatement
    <3>1. Handled
      BY <2>3, HandlerShape
    <3> QED
      BY <2>1, <3>1 DEF Handled, Advance
  <2>4. CASE Restart
    BY <2>1, <2>4 DEF Restart
  <2>5. CASE \/ PassOver \/ SkipSubtree \/ PassBy \/ DisableOptional \/ FailMissing
             \/ EndWalk \/ MergeOrders \/ NextPass \/ Finish \/ Done
    <3>1. changed' = changed
      BY <2>5 DEF PassOver, SkipSubtree, PassBy, DisableOptional, FailMissing, Stop,
                  Advance, EndWalk, MergeOrders, NextPass, Finish, Done, vars, walk
    <3> QED
      BY <2>1, <3>1
  <2> QED
    BY <2>1, <2>2, <2>3, <2>4, <2>5 DEF Next
<1> QED
  BY <1>1, WalkInvariant, PTL DEF Spec, ChangeDestroys
-----------------------------------------------------------------------------
(* No optional is disabled that could stay *)

(* The data of a self-supporting set are neither destroyed nor about to be *)
Spared ==
  \A S \in SUBSET OptionalData :
     SelfSupporting(S) => AliveUnder(S) \subseteq alive /\ S \cap disabled = {}

(* A name found among some nodes is found among more of them. *)
LEMMA FoundInMore ==
  ASSUME NEW n, NEW few, NEW more, few \subseteq more, AllFoundIn(n, few)
  PROVE  AllFoundIn(n, more)
BY DEF AllFoundIn, FoundIn, DeclaredIn

(* The head of the stack is the innermost optional around the node. *)
LEMMA HeadIsInnermost ==
  ASSUME WalkInv, AtNode, optstack # <<>>
  PROVE  IsInnermost(Head(optstack), cur) /\ Head(optstack) \in Optional
<1>1. OptstackExact
  BY StackIsAround
<1>2. /\ Head(optstack) \in Optional /\ 1 \in DOMAIN optstack
      /\ Head(optstack) = optstack[1] /\ Len(optstack) \in Nat
      /\ DOMAIN optstack = 1..Len(optstack)
      /\ \A i \in DOMAIN optstack : optstack[i] \in Int
  BY Pop DEF WalkInv, WalkTypes, Optional, Node
<1>3. Head(optstack) \in Around(cur)
  BY <1>1, <1>2 DEF OptstackExact, ToSet
<1>4. ASSUME NEW p \in Around(cur) PROVE p <= Head(optstack)
  <2>1. PICK i \in DOMAIN optstack : p = optstack[i]
    BY <1>1 DEF OptstackExact, ToSet
  <2>2. i = 1 \/ 1 < i
    BY <1>2
  <2> QED
    BY <1>1, <1>2, <2>1, <2>2 DEF OptstackExact
<1> QED
  BY <1>2, <1>3, <1>4 DEF IsInnermost

(* The walk never comes to a statement in a macro or an abstract block. *)
LEMMA AtResolved ==
  ASSUME WalkInv, AtNode, ast[cur].kind \notin PlainKind
  PROVE  Resolved(cur)
<1>1. Nested /\ cur \in Node /\ cur \in alive
  BY TreeNested DEF WalkInv, WalkTypes, AtNode
<1>2. ASSUME NEW s \in Node, cur \in Below(s) PROVE ast[s].kind \notin SkippedKind
  BY <1>1, <1>2 DEF WalkInv, SkipComplete, Below, Node, Nested
<1> QED
  BY <1>2 DEF Resolved

(* Every step spares the self-supporting sets. *)
LEMMA SparedStep == WalkInv /\ Spared /\ [Next]_vars => Spared'
<1> SUFFICES ASSUME WalkInv, Spared, [Next]_vars,
                    NEW S \in SUBSET OptionalData', SelfSupporting(S)'
             PROVE  AliveUnder(S)' \subseteq alive' /\ S \cap disabled' = {}
  BY DEF Spared
<1>1. Nested /\ WalkTypes
  BY TreeNested DEF WalkInv, WalkTypes
<1>2. ast' = ast
  <2>1. CASE ResolveStatement
    BY <2>1, HandlerShape DEF Handled, tree
  <2>2. CASE ~ ResolveStatement
    BY <2>2 DEF Next, PassOver, SkipSubtree, PassBy, DisableOptional, FailMissing,
         LeaveOptional, EndWalk, MergeOrders, Restart, NextPass, Finish, Done, vars, tree
  <2> QED
    BY <2>1, <2>2
<1>3. /\ OptionalData' = OptionalData /\ SelfSupporting(S) /\ AliveUnder(S)' = AliveUnder(S)
  <2>1. Node' = Node /\ Optional' = Optional /\ \A n : Below(n)' = Below(n)
    BY <1>2 DEF Node, Optional, Below
  <2>2. \A n : Around(n)' = Around(n)
    BY <2>1 DEF Around
  <2>3. OptionalData' = OptionalData /\ AliveUnder(S)' = AliveUnder(S)
    BY <1>2, <2>1, <2>2 DEF OptionalData, AliveUnder
  <2>4. \A n : Resolved(n)' <=> Resolved(n)
    BY <1>2, <2>1 DEF Resolved
  <2>5. \A o, n : IsInnermost(o, n)' <=> IsInnermost(o, n)
    BY <2>2 DEF IsInnermost
  <2>6. \A n : AllFoundIn(n, AliveUnder(S))' <=> AllFoundIn(n, AliveUnder(S))
    BY <1>2, <2>3 DEF AllFoundIn, FoundIn, DeclaredIn
  <2> QED
    BY <1>2, <2>1, <2>3, <2>4, <2>5, <2>6 DEF SelfSupporting
<1>4. AliveUnder(S) \subseteq alive /\ S \cap disabled = {}
  BY <1>3 DEF Spared
<1>5. CASE UNCHANGED tree
  BY <1>3, <1>4, <1>5 DEF tree
<1>6. CASE DisableOptional
  <2> DEFINE o == Head(optstack)
  <2>1. /\ AtNode /\ ast[cur].kind \notin PlainKind /\ ~ AllFound(cur) /\ optstack # <<>>
        /\ disabled' = disabled \cup {ast[o].decl} /\ alive' = alive
    BY <1>6 DEF DisableOptional, AtStatement
  <2>2. IsInnermost(o, cur) /\ o \in Optional /\ Resolved(cur) /\ cur \in Below(o)
    BY <2>1, HeadIsInnermost, AtResolved DEF IsInnermost, Around
  <2>3. ASSUME ast[o].decl \in S PROVE FALSE
    <3>1. AllFoundIn(cur, AliveUnder(S))
      BY <1>3, <2>2, <2>3 DEF SelfSupporting
    <3> QED
      BY <1>4, <2>1, <3>1, FoundInMore DEF AllFound
  <2> QED
    BY <1>3, <1>4, <2>1, <2>3
<1>7. CASE LeaveOptional
  <2> DEFINE o == Head(optstack)
  <2>1. /\ disabled' = disabled /\ optstack # <<>>
        /\ \/ alive' = alive
           \/ alive' = alive \ Below(o) /\ ast[o].decl \in disabled
    BY <1>7 DEF LeaveOptional, OptionalEnded
  <2>2. o \in Optional
    BY <1>1, <2>1, Pop DEF WalkTypes
  <2>3. ASSUME NEW n \in AliveUnder(S), n \in Below(o), ast[o].decl \in disabled PROVE FALSE
    BY <1>4, <2>2, <2>3 DEF AliveUnder, Around
  <2> QED
    BY <1>3, <1>4, <2>1, <2>3
<1>8. CASE ~ DisableOptional /\ ~ LeaveOptional
  <2>1. CASE ResolveStatement
    BY <1>5, <2>1, HandlerShape DEF Handled
  <2>2. CASE ~ ResolveStatement
    BY <1>5, <1>8, <2>2 DEF Next, PassOver, SkipSubtree, PassBy, FailMissing,
         EndWalk, MergeOrders, Restart, NextPass, Finish, Done, vars
  <2> QED
    BY <2>1, <2>2
<1> QED
  BY <1>6, <1>7, <1>8

(* The data of a self-supporting set are spared throughout.                *)
LEMMA SparedInvariant == Spec => []Spared
<1>1. Init => Spared
  BY DEF Init, Spared, AliveUnder
<1> QED
  BY <1>1, SparedStep, WalkInvariant, PTL DEF Spec

(* Whatever the tree, __cil_resolve_ast_node_helper never disables an      *)
(* optional that belongs to a set of optionals which support each other.   *)
THEOREM SparedTheorem == Spec => []NotDisabledNeedlessly
<1>1. Spared => NotDisabledNeedlessly
  BY DEF Spared, NotDisabledNeedlessly
<1> QED
  BY <1>1, SparedInvariant, PTL
-----------------------------------------------------------------------------
(* Every statement of an accepted policy has found its names *)

(* This round has come to the pass and the place where n is resolved *)
Visited(n) == \/ PassOf(ast[n].kind) < pass
              \/ PassOf(ast[n].kind) = pass /\ n < cur

(* n is in an open optional that will be destroyed *)
Doomed(n) == \E i \in DOMAIN optstack :
                n \in Below(optstack[i]) /\ ast[optstack[i]].decl \in disabled

(* As long as nothing was destroyed in this round, what has been visited   *)
(* finds its names, or is about to be destroyed                            *)
FoundSoFar ==
  ~ changed /\ status \in {"walk", "orders", "endpass"} =>
    \A n \in alive : Resolved(n) /\ Visited(n) => AllFound(n) \/ Doomed(n)

FoundInv == FoundSoFar /\ AllResolved

(* Every statement is resolved in one of the passes CALL2 to MISC3. *)
LEMMA PassOfType == \A k : PassOf(k) \in CALL2..MISC3
BY DEF PassOf, CALL2, ALIAS1, ALIAS2, MISC1, MLS, MISC2, MISC3

(* What the tree says about a node does not change with the walk. *)
LEMMA SameTree ==
  ASSUME ast' = ast, alive' = alive
  PROVE  /\ \A n : Below(n)' = Below(n)
         /\ \A n : Resolved(n)' <=> Resolved(n)
         /\ \A n : AllFound(n)' <=> AllFound(n)
<1>1. Node' = Node /\ \A n : Below(n)' = Below(n)
  BY DEF Node, Below
<1>2. \A n : Resolved(n)' <=> Resolved(n)
  BY <1>1 DEF Resolved
<1>3. \A n : AllFound(n)' <=> AllFound(n)
  BY DEF AllFound, AllFoundIn, FoundIn, DeclaredIn
<1> QED
  BY <1>1, <1>2, <1>3

(* Going on from a node that is found, or doomed, or none of this pass. *)
LEMMA AdvanceFound ==
  ASSUME WalkInv, FoundInv, AtNode, Advance, UNCHANGED <<ast, alive>>,
         disabled \subseteq disabled',
         Resolved(cur) /\ PassOf(ast[cur].kind) = pass =>
           \/ AllFound(cur)
           \/ optstack # <<>> /\ ast[Head(optstack)].decl \in disabled'
  PROVE  FoundInv'
<1>1. /\ Nested /\ WalkTypes /\ cur \in Node /\ cur \in alive
  BY TreeNested DEF WalkInv, WalkTypes, AtNode
<1>2. cur' = cur + 1 /\ UNCHANGED <<status, pass, changed>> /\ status = "walk"
  BY DEF Advance, AtNode
<1>3. \A i \in DOMAIN optstack : \E j \in DOMAIN optstack' : optstack'[j] = optstack[i]
  <2>1. CASE optstack' = optstack
    BY <2>1
  <2>2. CASE cur \in Optional /\ optstack' = <<cur>> \o optstack
    <3>1. \A i \in DOMAIN optstack :
             i + 1 \in DOMAIN optstack' /\ optstack'[i + 1] = optstack[i]
      BY <1>1, <2>2, Push DEF WalkTypes
    <3> QED
      BY <3>1
  <2> QED
    BY <1>1, <2>1, <2>2 DEF Advance, Optional
<1>4. ASSUME NEW n, Doomed(n) PROVE Doomed(n)'
  <2>1. PICK i \in DOMAIN optstack :
          n \in Below(optstack[i]) /\ ast[optstack[i]].decl \in disabled
    BY <1>4 DEF Doomed
  <2>2. PICK j \in DOMAIN optstack' : optstack'[j] = optstack[i]
    BY <1>3
  <2> QED
    BY <2>1, <2>2 DEF Doomed, Below
<1>5. FoundSoFar'
  <2>1. SUFFICES ASSUME ~ changed, NEW n \in alive, Resolved(n), Visited(n)'
                 PROVE  AllFound(n) \/ Doomed(n)'
    BY <1>2, SameTree DEF FoundSoFar
  <2>2. CASE Visited(n)
    BY <1>2, <1>4, <2>1, <2>2 DEF FoundInv, FoundSoFar
  <2>3. CASE ~ Visited(n)
    <3>1. n = cur /\ PassOf(ast[cur].kind) = pass
      BY <1>1, <1>2, <2>1, <2>3, PassOfType DEF Visited, WalkTypes, Node, CALL2, MISC3
    <3>2. CASE AllFound(cur)
      BY <3>1, <3>2
    <3>3. CASE optstack # <<>> /\ ast[Head(optstack)].decl \in disabled'
      <4>1. 1 \in DOMAIN optstack /\ Head(optstack) = optstack[1]
        BY <1>1, <3>3, Pop DEF WalkTypes
      <4>2. cur \in Below(optstack[1])
        BY <1>1, <4>1, StackAround DEF AtNode
      <4>3. PICK j \in DOMAIN optstack' : optstack'[j] = optstack[1]
        BY <1>3, <4>1
      <4> QED
        BY <3>1, <3>3, <4>1, <4>2, <4>3 DEF Doomed, Below
    <3> QED
      BY <2>1, <3>1, <3>2, <3>3
  <2> QED
    BY <2>2, <2>3
<1> QED
  BY <1>2, <1>5 DEF FoundInv, AllResolved

(* Steps that leave tree and stack alone and visit nothing new. *)
LEMMA QuietFound ==
  ASSUME FoundInv, UNCHANGED <<tree, optstack, changed>>, status' # "ok",
         status' \in {"walk", "orders", "endpass"} =>
           /\ status \in {"walk", "orders", "endpass"}
           /\ \A n \in alive : Resolved(n) /\ Visited(n)' => Visited(n)
  PROVE  FoundInv'
<1>1. ast' = ast /\ alive' = alive /\ disabled' = disabled
  BY DEF tree
<1>2. \A n : Doomed(n)' <=> Doomed(n)
  BY <1>1 DEF Doomed, Below
<1>3. FoundSoFar'
  BY <1>1, <1>2, SameTree DEF FoundInv, FoundSoFar
<1> QED
  BY <1>3 DEF FoundInv, AllResolved

(* Every step keeps the invariant. *)
LEMMA FoundStep == WalkInv /\ FoundInv /\ [Next]_vars => FoundInv'
<1> SUFFICES ASSUME WalkInv, FoundInv, [Next]_vars PROVE FoundInv'
  OBVIOUS
<1>1. Nested /\ WalkTypes /\ PassEnded
  BY TreeNested DEF WalkInv, WalkTypes
<1>2. CASE PassOver
  <2>1. /\ UNCHANGED <<tree, status, pass, optstack, changed>>
        /\ status = "walk" /\ cur \notin alive /\ cur' = cur + 1 /\ ast' = ast
    BY <1>2 DEF PassOver, tree
  <2>2. \A n \in alive : Visited(n)' => Visited(n)
    BY <1>1, <2>1 DEF Visited, WalkTypes, Node
  <2> QED
    BY <2>1, <2>2, QuietFound
<1>3. CASE SkipSubtree
  <2>1. /\ UNCHANGED <<tree, status, pass, optstack, changed>> /\ status = "walk"
        /\ cur \in Node /\ cur' = ast[cur].last + 1 /\ ast' = ast
        /\ ast[cur].kind \in SkippedKind
    BY <1>1, <1>3 DEF SkipSubtree, AtNode, tree, WalkTypes
  <2>2. ASSUME NEW n \in alive, Resolved(n), Visited(n)' PROVE Visited(n)
    <3>1. n # cur /\ n \notin Below(cur)
      BY <2>1, <2>2 DEF Resolved, PlainKind
    <3>2. n < cur' => n < cur
      BY <1>1, <2>1, <3>1 DEF Below, Node, Nested, WalkTypes
    <3> QED
      BY <2>1, <2>2, <3>2 DEF Visited
  <2> QED
    BY <2>1, <2>2, QuietFound
<1>4. CASE PassBy
  <2>1. /\ AtNode /\ Advance /\ UNCHANGED <<ast, alive, disabled>>
        /\ ast[cur].kind \in PlainKind \/ PassOf(ast[cur].kind) # pass
    BY <1>4 DEF PassBy, tree
  <2> QED
    BY <2>1, AdvanceFound DEF Resolved
<1>5. CASE DisableOptional
  <2>1. /\ AtNode /\ Advance /\ UNCHANGED <<ast, alive>> /\ optstack # <<>>
        /\ disabled' = disabled \cup {ast[Head(optstack)].decl}
    BY <1>5 DEF DisableOptional, AtStatement
  <2> QED
    BY <2>1, AdvanceFound
<1>6. CASE FailMissing
  BY <1>6, QuietFound DEF FailMissing, Stop
<1>7. CASE ResolveStatement
  <2>1. Handled
    BY <1>7, HandlerShape
  <2>2. CASE Advance
    BY <2>1, <2>2, AdvanceFound DEF Handled, tree
  <2>3. CASE status' \in {"err", "undefined"} /\ UNCHANGED <<pass, cur, optstack, changed>>
    BY <2>1, <2>3, QuietFound DEF Handled
  <2> QED
    BY <2>1, <2>2, <2>3 DEF Handled
<1>8. CASE LeaveOptional
  <2> DEFINE o == Head(optstack)
  <2>1. /\ UNCHANGED <<ast, disabled, status, pass, cur>> /\ status = "walk"
        /\ optstack # <<>> /\ optstack' = Tail(optstack)
        /\ \/ changed'
           \/ ast[o].decl \notin disabled /\ UNCHANGED <<alive, changed>>
    BY <1>8 DEF LeaveOptional, OptionalEnded
  <2>2. CASE changed'
    BY <2>1, <2>2 DEF FoundInv, FoundSoFar, AllResolved
  <2>3. CASE ast[o].decl \notin disabled /\ UNCHANGED <<alive, changed>>
    <3>1. ASSUME NEW n, Doomed(n) PROVE Doomed(n)'
      <4>1. PICK i \in DOMAIN optstack :
              n \in Below(optstack[i]) /\ ast[optstack[i]].decl \in disabled
        BY <3>1 DEF Doomed
      <4>2. i - 1 \in DOMAIN optstack' /\ optstack'[i - 1] = optstack[i]
        BY <1>1, <2>1, <2>3, <4>1, Pop DEF WalkTypes
      <4> QED
        BY <2>1, <4>1, <4>2 DEF Doomed, Below
    <3>2. \A n : Visited(n)' <=> Visited(n)
      BY <2>1 DEF Visited
    <3>3. FoundSoFar'
      BY <2>1, <2>3, <3>1, <3>2, SameTree DEF FoundInv, FoundSoFar
    <3> QED
      BY <2>1, <3>3 DEF FoundInv, AllResolved
  <2> QED
    BY <2>1, <2>2, <2>3
<1>9. CASE EndWalk
  BY <1>9, QuietFound DEF EndWalk, Visited, tree
<1>10. CASE MergeOrders
  <2>1. /\ status' \in {"undefined", "endpass", "err"} /\ status = "orders" /\ ast' = ast
        /\ UNCHANGED <<tree, pass, cur, optstack, changed>>
    BY <1>10 DEF MergeOrders, tree
  <2> QED
    BY <2>1, QuietFound DEF Visited
<1>11. CASE Restart
  <2>1. CASE Stop("undefined")
    BY <1>11, <2>1, QuietFound DEF Restart, Stop
  <2>2. CASE status' = "walk" /\ pass' = CALL1 + 1 /\ cur' = 1
    <3>1. ast' = ast /\ alive' = alive
      BY <1>11 DEF Restart, tree
    <3>2. ASSUME NEW n \in alive PROVE ~ Visited(n)'
      <4>1. n \in Nat /\ n >= 1 /\ PassOf(ast[n].kind) \in CALL2..MISC3
        BY <1>1, PassOfType DEF WalkTypes, Node
      <4> QED
        BY <2>2, <3>1, <4>1 DEF Visited, CALL1, CALL2, MISC3
    <3> QED
      BY <2>2, <3>1, <3>2 DEF FoundInv, FoundSoFar, AllResolved
  <2> QED
    BY <1>11, <2>1, <2>2 DEF Restart
<1>12. CASE NextPass
  <2>1. /\ status = "endpass" /\ status' = "walk" /\ pass' = pass + 1 /\ cur' = 1
        /\ UNCHANGED <<tree, changed>> /\ ast' = ast /\ alive' = alive
        /\ optstack = <<>> /\ optstack' = <<>> /\ cur = Len(ast) + 1
    BY <1>1, <1>12 DEF NextPass, tree, PassEnded
  <2>2. ASSUME NEW n \in alive, Visited(n)' PROVE Visited(n)
    <3>1. n \in Nat /\ n >= 1 /\ n < cur /\ PassOf(ast[n].kind) \in CALL2..MISC3
      BY <1>1, <2>1, PassOfType DEF WalkTypes, Node, Nested
    <3> QED
      BY <1>1, <2>1, <2>2, <3>1 DEF Visited, WalkTypes, CALL2, MISC3
  <2> QED
    BY <2>1, <2>2, QuietFound
<1>13. CASE Finish
  <2>1. /\ status' \in {"undefined", "err", "ok"} /\ status = "endpass" /\ pass = MISC3
        /\ ~ changed /\ ast' = ast /\ alive' = alive
        /\ optstack = <<>> /\ cur = Len(ast) + 1
    BY <1>1, <1>13 DEF Finish, tree, PassEnded
  <2>2. ASSUME NEW n \in alive, Resolved(n) PROVE AllFound(n)
    <3>1. n < cur /\ PassOf(ast[n].kind) \in CALL2..MISC3
      BY <1>1, <2>1, PassOfType DEF WalkTypes, Node, Nested
    <3>2. Visited(n)
      BY <2>1, <3>1 DEF Visited, CALL2, MISC3
    <3>3. ~ Doomed(n)
      BY <2>1 DEF Doomed
    <3> QED
      BY <2>1, <2>2, <3>2, <3>3 DEF FoundInv, FoundSoFar
  <2> QED
    BY <2>1, <2>2, SameTree DEF FoundInv, FoundSoFar, AllResolved
<1>14. CASE UNCHANGED vars
  <2>1. UNCHANGED <<ast, alive, disabled, status, pass, cur, optstack, changed>>
    BY <1>14 DEF vars, tree, walk
  <2>2. \A n : (Visited(n)' <=> Visited(n)) /\ (Doomed(n)' <=> Doomed(n))
    BY <2>1 DEF Visited, Doomed, Below
  <2> QED
    BY <2>1, <2>2, SameTree DEF FoundInv, FoundSoFar, AllResolved
<1> QED
  BY <1>2, <1>3, <1>4, <1>5, <1>6, <1>7, <1>8, <1>9, <1>10, <1>11, <1>12, <1>13,
     <1>14 DEF Next, Done

(* The invariant holds throughout.                                         *)
LEMMA FoundInvariant == Spec => []FoundInv
<1>1. Init => FoundInv
  <2> SUFFICES ASSUME Init PROVE FoundInv
    OBVIOUS
  <2>2. Nested
    BY TreeNested DEF Init
  <2>3. ASSUME NEW n \in alive PROVE ~ Visited(n)
    <3>1. n \in Nat /\ n >= 1 /\ PassOf(ast[n].kind) \in CALL2..MISC3
      BY <2>2, PassOfType DEF Init, Node, Nested
    <3> QED
      BY <3>1 DEF Init, Visited, CALL2, MISC3
  <2> QED
    BY <2>3 DEF Init, FoundInv, FoundSoFar, AllResolved
<1> QED
  BY <1>1, FoundStep, WalkInvariant, PTL DEF Spec

(* In a policy that cil_resolve_ast accepts, every statement that is left  *)
(* finds all its names in the tree that is left, although later passes may *)
(* have destroyed declarations that earlier passes had relied on.          *)
THEOREM AllResolvedTheorem == Spec => []AllResolved
<1>1. FoundInv => AllResolved
  BY DEF FoundInv
<1> QED
  BY <1>1, FoundInvariant, PTL
-----------------------------------------------------------------------------
(* What resolution leaves in the data.                                     *)
MaybeDatum == Datum \cup {NoDatum}

DataTypes ==
  /\ res \in [Node -> Seq(MaybeDatum)]
  /\ link \in [Datum -> [Field -> Seq(Node)]]
  /\ actual \in [Datum -> MaybeDatum]
  /\ used \subseteq Datum
  /\ value \in [Datum -> 0..(Word - 1)]
  /\ nperms \in [Datum -> 0..(Word - 1)]

(* The common of a class is known from the classcommon statement that      *)
(* bound it                                                                *)
CommonKnown ==
  \A d \in Datum : \A i \in DOMAIN link[d]["common"] :
    LET n == link[d]["common"][i]
    IN  ast[n].kind = "classcommon" /\ res[n][2] \in Datum

DataInv == DataTypes /\ CommonKnown

ChangedType == changed \in BOOLEAN

(* What is in a sequence. *)
LEMMA ElementType ==
  ASSUME NEW S, NEW s \in Seq(S), NEW k \in DOMAIN s
  PROVE  s[k] \in S
OBVIOUS

(* What cil_resolve_name returns is a datum or NULL, and it is NULL only   *)
(* for the argument of a call.                                             *)
LEMMA LookupType ==
  ASSUME WalkInv, DataTypes, cur \in Node, AllFound(cur), NEW i \in DOMAIN ast[cur].names
  PROVE  /\ Lookup(ast[cur].names[i]) \in MaybeDatum
         /\ ast[cur].names[i].call = 0 => Lookup(ast[cur].names[i]) \in Datum
<1> DEFINE name == ast[cur].names[i]
<1>1. IsTree(ast)
  BY AstAssumption DEF WalkInv, WalkTypes
<1>2. /\ name \in NameRef
      /\ name.call # 0 => name.call \in Node
  <2>1. ast[cur] \in TreeNode
    BY <1>1 DEF IsTree, Node
  <2>2. name \in NameRef
    BY <2>1 DEF TreeNode
  <2>3. name.call \in 0..(cur - 1) /\ cur \in 1..Len(ast) /\ Len(ast) \in Nat
    BY <1>1 DEF IsTree, Node
  <2> QED
    BY <2>2, <2>3 DEF Node
<1>3. \A d \in MaybeDatum : Deref(d) \in MaybeDatum
  BY DEF DataTypes, MaybeDatum, Deref
<1>4. \A d \in Datum : Deref(d) \in Datum
  BY DEF DataTypes, MaybeDatum, Deref
<1>5. CASE name.call # 0
  <2>1. res[name.call] \in Seq(MaybeDatum)
    BY <1>2, <1>5 DEF DataTypes
  <2>2. (IF name.arg \in DOMAIN res[name.call]
         THEN res[name.call][name.arg] ELSE NoDatum) \in MaybeDatum
    BY <2>1 DEF MaybeDatum
  <2> QED
    BY <1>3, <1>5, <2>2 DEF Lookup
<1>6. CASE name.call = 0
  <2> DEFINE at == {k \in DOMAIN name.scopes : Declared(name.scopes[k])}
  <2>1. name.scopes \in Seq(Datum)
    BY <1>2 DEF NameRef
  <2>2. at # {} /\ at \in SUBSET Nat
    BY <1>6, <2>1 DEF AllFound, AllFoundIn, FoundIn, Declared
  <2>3. Min(at) \in at
    BY <2>2, MinIn
  <2>4. name.scopes[Min(at)] \in Datum
    <3>1. Min(at) \in DOMAIN name.scopes
      BY <2>3
    <3> QED
      BY <2>1, <3>1, ElementType, Zenon
  <2>5. Lookup(name) = Deref(name.scopes[Min(at)])
    BY <1>6, Zenon DEF Lookup
  <2> QED
    BY <1>4, <2>4, <2>5 DEF MaybeDatum
<1> QED
  BY <1>5, <1>6

(* The names of a statement. *)
LEMMA OwnType ==
  ASSUME WalkInv, DataTypes, cur \in Node, AllFound(cur)
  PROVE  /\ Own \in Seq(MaybeDatum) /\ DOMAIN Own = DOMAIN ast[cur].names
         /\ ToSet(Own) \subseteq MaybeDatum
         /\ ast[cur].kind = "aliasactual" => Own[2] \in MaybeDatum
         /\ ast[cur].kind = "classcommon" => Own[2] \in Datum
<1>1. IsTree(ast)
  BY AstAssumption DEF WalkInv, WalkTypes
<1>2. ast[cur].names \in Seq(NameRef)
  <2>1. ast[cur] \in TreeNode
    BY <1>1 DEF IsTree, Node
  <2> QED
    BY <2>1 DEF TreeNode
<1>3. Own = [i \in DOMAIN ast[cur].names |-> Lookup(ast[cur].names[i])]
  BY DEF Own, Names
<1>4. Own \in Seq(MaybeDatum) /\ DOMAIN Own = DOMAIN ast[cur].names
  BY <1>2, <1>3, LookupType
<1>5. ToSet(Own) \subseteq MaybeDatum
  BY <1>4 DEF ToSet
<1>6. ASSUME ast[cur].kind \in {"aliasactual", "classcommon"} PROVE 2 \in DOMAIN Own
  BY <1>1, <1>4, <1>6 DEF IsTree, Node
<1>7. ast[cur].kind = "aliasactual" => Own[2] \in MaybeDatum
  BY <1>4, <1>6
<1>8. ast[cur].kind = "classcommon" => Own[2] \in Datum
  BY <1>1, <1>3, <1>4, <1>6, LookupType DEF IsTree, Node
<1> QED
  BY <1>4, <1>5, <1>7, <1>8
-----------------------------------------------------------------------------
(* The handlers *)

(* What every handler knows of the statement it is called for. *)
LEMMA AtHandler ==
  ASSUME WalkInv, DataInv, NEW k, Handle(k)
  PROVE  /\ cur \in Node /\ AllFound(cur) /\ ast[cur].kind = k
         /\ ast' = ast /\ Node' = Node
         /\ Own \in Seq(MaybeDatum) /\ ToSet(Own) \subseteq MaybeDatum
         /\ k = "aliasactual" => Own[2] \in MaybeDatum
         /\ k = "classcommon" => Own[2] \in Datum
<1>1. /\ cur \in Node /\ AllFound(cur) /\ ast[cur].kind = k /\ ast' = ast
  BY DEF Handle, AtStatement, AtNode, WalkInv, WalkTypes, tree
<1> QED
  BY <1>1, OwnType DEF DataInv, Node

(* A handler that keeps its names keeps them in the right form, also where *)
(* a class remembers the statement that gave it its common.                *)
LEMMA KeepNamesTypes ==
  ASSUME WalkInv, DataInv, NEW k, Handle(k), KeepNames
  PROVE  /\ res' \in [Node -> Seq(MaybeDatum)]
         /\ \A n \in Node : ast[n].kind = "classcommon" =>
               (res[n][2] \in Datum \/ n = cur => res'[n][2] \in Datum)
<1>1. /\ cur \in Node /\ Own \in Seq(MaybeDatum) /\ res' = [res EXCEPT ![cur] = Own]
      /\ res \in [Node -> Seq(MaybeDatum)]
      /\ ast[cur].kind = "classcommon" => Own[2] \in Datum
  BY AtHandler DEF KeepNames, DataInv, DataTypes
<1>2. res' \in [Node -> Seq(MaybeDatum)]
  BY <1>1
<1>3. ASSUME NEW n \in Node, ast[n].kind = "classcommon", res[n][2] \in Datum \/ n = cur
      PROVE  res'[n][2] \in Datum
  BY <1>1, <1>3
<1> QED
  BY <1>2, <1>3

(* The data after a handler that writes no field, and after one that       *)
(* writes a field other than the common of a class.                        *)
LEMMA PlainHandler ==
  ASSUME WalkInv, DataInv, NEW k, Handle(k), KeepNames, link' = link,
         actual' \in [Datum -> MaybeDatum], used' \subseteq Datum, UNCHANGED perms
  PROVE  DataInv'
<1>1. ast' = ast /\ Node' = Node /\ res' \in [Node -> Seq(MaybeDatum)]
      /\ value' = value /\ nperms' = nperms
  BY AtHandler, KeepNamesTypes DEF perms
<1>2. DataTypes'
  BY <1>1 DEF DataInv, DataTypes
<1>3. CommonKnown'
  <2>1. SUFFICES ASSUME NEW d \in Datum, NEW i \in DOMAIN link[d]["common"]
                 PROVE  LET n == link[d]["common"][i]
                        IN  ast[n].kind = "classcommon" /\ res'[n][2] \in Datum
    BY <1>1 DEF CommonKnown
  <2>2. link[d]["common"][i] \in Node
    BY DEF DataInv, DataTypes, Field
  <2> QED
    BY <2>2, KeepNamesTypes DEF DataInv, CommonKnown
<1> QED
  BY <1>2, <1>3 DEF DataInv

(* Attaching the statement at hand to a field keeps the fields' types.     *)
LEMMA LinkType ==
  ASSUME NEW V, link \in [Datum -> [Field -> V]], NEW d, NEW f \in Field \ {"common"}, NEW v,
         d \in Datum => v \in V, link' = [link EXCEPT ![d][f] = v]
  PROVE  /\ link' \in [Datum -> [Field -> V]]
         /\ \A e \in Datum : link'[e]["common"] = link[e]["common"]
<1>1. CASE d \in Datum
  <2>1. [link[d] EXCEPT ![f] = v] \in [Field -> V]
    BY <1>1
  <2>2. "common" \in Field
    BY DEF Field
  <2> QED
    BY <1>1, <2>1, <2>2
<1>2. CASE d \notin Datum
  <2>1. link' = link
    BY <1>2
  <2> QED
    BY <2>1
<1> QED
  BY <1>1, <1>2

(* A handler that only attaches its statement to a field other than the    *)
(* common keeps DataInv.                                                   *)
LEMMA LinkHandler ==
  ASSUME WalkInv, DataInv, NEW k, Handle(k), KeepNames,
         link' \in [Datum -> [Field -> Seq(Node)]],
         \A d \in Datum : link'[d]["common"] = link[d]["common"],
         UNCHANGED <<actual, used, orders, perms>>
  PROVE  DataInv'
<1>1. ast' = ast /\ Node' = Node /\ res' \in [Node -> Seq(MaybeDatum)]
      /\ value' = value /\ nperms' = nperms /\ actual' = actual /\ used' = used
  BY AtHandler, KeepNamesTypes DEF perms
<1>2. DataTypes'
  BY <1>1 DEF DataInv, DataTypes
<1>3. CommonKnown'
  <2>1. SUFFICES ASSUME NEW d \in Datum, NEW i \in DOMAIN link'[d]["common"]
                 PROVE  LET n == link'[d]["common"][i]
                        IN  ast'[n].kind = "classcommon" /\ res'[n][2] \in Datum
    BY Zenon DEF CommonKnown
  <2>2. link'[d]["common"] = link[d]["common"]
    OBVIOUS
  <2>3. link[d]["common"][i] \in Node /\ i \in DOMAIN link[d]["common"]
    <3>1. i \in DOMAIN link[d]["common"]
      BY <2>2, Zenon
    <3>2. link[d]["common"] \in Seq(Node)
      BY DEF DataInv, DataTypes, Field
    <3> QED
      BY <3>1, <3>2, ElementType
  <2>4. LET n == link[d]["common"][i] IN ast[n].kind = "classcommon" /\ res'[n][2] \in Datum
    BY <2>3, KeepNamesTypes DEF DataInv, CommonKnown
  <2> QED
    BY <1>1, <2>2, <2>4
<1> QED
  BY <1>2, <1>3 DEF DataInv

(* A step that leaves data and tree alone. *)
LEMMA SameData == ASSUME DataInv, UNCHANGED <<ast, data>> PROVE DataInv'
BY DEF data, perms, DataInv, DataTypes, CommonKnown, Node

(* A handler that gives up leaves the data alone.                          *)
LEMMA StopHandler ==
  ASSUME WalkInv, DataInv, NEW k, Handle(k), NEW out, Stop(out)
  PROVE  DataInv'
BY AtHandler, SameData DEF Stop

(* KeepRule keeps DataInv. *)
LEMMA KeepRuleTypes ==
  ASSUME WalkInv, DataInv, NEW k, Handle(k), NEW valid, NEW marks,
         marks \subseteq Datum, KeepRule(valid, marks)
  PROVE  DataInv'
<1>1. CASE Stop("err")
  BY <1>1, StopHandler
<1>2. CASE used' = used \cup marks /\ KeepNames /\ UNCHANGED <<link, actual, orders, perms>>
  BY <1>2, PlainHandler DEF DataInv, DataTypes
<1> QED
  BY <1>1, <1>2 DEF KeepRule

(* BindOnce, Overwrite and Attach keep DataInv for fields but the common.  *)
LEMMA FieldTypes ==
  ASSUME WalkInv, DataInv, NEW k, Handle(k), NEW d, NEW f \in Field \ {"common"},
         BindOnce(d, f) \/ Overwrite(d, f) \/ Attach(d, f)
  PROVE  DataInv'
<1>1. cur \in Node /\ link \in [Datum -> [Field -> Seq(Node)]]
  BY AtHandler DEF DataInv, DataTypes
<1>2. CASE Stop("err")
  BY <1>2, StopHandler
<1>3. CASE /\ link' = [link EXCEPT ![d][f] = <<cur>>]
           /\ KeepNames /\ UNCHANGED <<actual, used, orders, perms>>
  <2>1. /\ link' \in [Datum -> [Field -> Seq(Node)]]
        /\ \A e \in Datum : link'[e]["common"] = link[e]["common"]
    <3>1. <<cur>> \in Seq(Node)
      BY <1>1
    <3> QED
      BY <1>1, <1>3, <3>1, LinkType
  <2> QED
    BY <1>3, <2>1, LinkHandler
<1>4. CASE /\ link' = [link EXCEPT ![d][f] = Append(@, cur)]
           /\ KeepNames /\ UNCHANGED <<actual, used, orders, perms>>
  <2>1. /\ link' \in [Datum -> [Field -> Seq(Node)]]
        /\ \A e \in Datum : link'[e]["common"] = link[e]["common"]
    <3>1. d \in Datum => Append(link[d][f], cur) \in Seq(Node)
      BY <1>1
    <3> QED
      BY <1>1, <1>4, <3>1, LinkType
  <2> QED
    BY <1>4, <2>1, LinkHandler
<1> QED
  BY <1>2, <1>3, <1>4 DEF BindOnce, Overwrite, Attach

(* cil_resolve_classcommon: the values stay within the machine word, and   *)
(* the class remembers its common.                                         *)
LEMMA ClasscommonTypes == ASSUME WalkInv, DataInv, ResolveClasscommon PROVE DataInv'
<1>1. Handle("classcommon")
  BY DEF ResolveClasscommon
<1>2. CASE Stop("err")
  BY <1>1, <1>2, StopHandler
<1>3. CASE /\ link' = [link EXCEPT ![Target]["common"] = <<cur>>]
           /\ value' = [value EXCEPT ![Target] = (@ + nperms[Own[2]]) % Word]
           /\ nperms' = [nperms EXCEPT ![Target] = (@ + nperms[Own[2]]) % Word]
           /\ KeepNames /\ UNCHANGED <<actual, used, orders>>
  <2>1. /\ cur \in Node /\ ast' = ast /\ Node' = Node /\ Own[2] \in Datum
        /\ res' \in [Node -> Seq(MaybeDatum)] /\ ast[cur].kind = "classcommon"
    BY <1>1, <1>3, AtHandler, KeepNamesTypes
  <2>2. nperms[Own[2]] \in Nat /\ \A x \in Nat : (x + nperms[Own[2]]) % Word \in 0..(Word - 1)
    <3>1. nperms[Own[2]] \in Nat
      BY <2>1, WordAssumption DEF DataInv, DataTypes
    <3> QED
      BY <3>1, WordAssumption
  <2>3. /\ value' \in [Datum -> 0..(Word - 1)]
        /\ nperms' \in [Datum -> 0..(Word - 1)]
    <3>1. ASSUME NEW f, f \in [Datum -> 0..(Word - 1)]
          PROVE  [f EXCEPT ![Target] = (@ + nperms[Own[2]]) % Word]
                   \in [Datum -> 0..(Word - 1)]
      <4> DEFINE new == (f[Target] + nperms[Own[2]]) % Word
      <4>1. Target \in Datum => new \in 0..(Word - 1)
        <5>1. SUFFICES ASSUME Target \in Datum PROVE new \in 0..(Word - 1)
          OBVIOUS
        <5>2. f[Target] \in Nat
          BY <3>1, <5>1, WordAssumption
        <5> QED
          BY <2>2, <5>2
      <4> HIDE DEF new
      <4>2. [f EXCEPT ![Target] = new] \in [Datum -> 0..(Word - 1)]
        BY <3>1, <4>1
      <4> QED
        BY <4>2 DEF new
    <3> QED
      BY <1>3, <3>1 DEF DataInv, DataTypes
  <2>4. \A d \in Datum : /\ link'[d] \in [Field -> Seq(Node)]
                         /\ \/ link'[d]["common"] = link[d]["common"]
                            \/ link'[d]["common"] = <<cur>>
    <3> SUFFICES ASSUME NEW d \in Datum
                 PROVE  /\ link'[d] \in [Field -> Seq(Node)]
                        /\ \/ link'[d]["common"] = link[d]["common"]
                           \/ link'[d]["common"] = <<cur>>
      OBVIOUS
    <3>1. link \in [Datum -> [Field -> Seq(Node)]] /\ <<cur>> \in Seq(Node)
          /\ "common" \in Field
      BY <2>1 DEF DataInv, DataTypes, Field
    <3>2. CASE d = Target
      BY <1>3, <3>1, <3>2
    <3>3. CASE d # Target
      BY <1>3, <3>1, <3>3
    <3> QED
      BY <3>2, <3>3
  <2>5. link' \in [Datum -> [Field -> Seq(Node)]]
    BY <1>3, <2>4 DEF DataInv, DataTypes
  <2>6. DataTypes'
    BY <1>3, <2>1, <2>3, <2>5 DEF DataInv, DataTypes
  <2>7. CommonKnown'
    <3> SUFFICES ASSUME NEW d \in Datum, NEW i \in DOMAIN link'[d]["common"]
                 PROVE  LET n == link'[d]["common"][i]
                        IN  ast'[n].kind = "classcommon" /\ res'[n][2] \in Datum
      BY Zenon DEF CommonKnown
    <3>1. CASE link'[d]["common"] = <<cur>>
      <4>1. link'[d]["common"][i] = cur
        BY <3>1
      <4> QED
        BY <1>1, <1>3, <2>1, <4>1, KeepNamesTypes
    <3>2. CASE link'[d]["common"] = link[d]["common"]
      <4>1. i \in DOMAIN link[d]["common"]
        BY <3>2, Zenon
      <4>2. link[d]["common"] \in Seq(Node)
        BY DEF DataInv, DataTypes, Field
      <4>3. link[d]["common"][i] \in Node
        BY <4>1, <4>2, ElementType
      <4>4. LET n == link[d]["common"][i]
            IN  ast[n].kind = "classcommon" /\ res'[n][2] \in Datum
        BY <1>1, <1>3, <4>1, <4>3, KeepNamesTypes DEF DataInv, CommonKnown
      <4> QED
        BY <2>1, <3>2, <4>4
    <3> QED
      BY <2>4, <3>1, <3>2
  <2> QED
    BY <2>6, <2>7 DEF DataInv
<1> QED
  BY <1>2, <1>3 DEF ResolveClasscommon

(* cil_resolve_aliasactual and cil_resolve_alias_to_actual. *)
LEMMA AliasTypes ==
  ASSUME WalkInv, DataInv, ResolveAliasActual \/ ResolveAliasToActual
  PROVE  DataInv'
<1>1. CASE ResolveAliasActual
  <2>1. Handle("aliasactual")
    BY <1>1 DEF ResolveAliasActual
  <2>2. \/ Stop("err") \/ Stop("undefined") \/ BindOnce(Target, "bounds")
        \/ /\ actual' = [actual EXCEPT ![Target] = Own[2]]
           /\ KeepNames /\ UNCHANGED <<link, used, orders, perms>>
    BY <1>1, Zenon DEF ResolveAliasActual
  <2>3. Own[2] \in MaybeDatum
    BY <2>1, AtHandler
  <2>4. CASE /\ actual' = [actual EXCEPT ![Target] = Own[2]]
             /\ KeepNames /\ UNCHANGED <<link, used, orders, perms>>
    <3>1. actual' \in [Datum -> MaybeDatum] /\ used' \subseteq Datum
      BY <2>3, <2>4 DEF DataInv, DataTypes
    <3> QED
      BY <2>1, <2>4, <3>1, PlainHandler
  <2>5. CASE BindOnce(Target, "bounds")
    BY <2>1, <2>5, FieldTypes DEF Field
  <2> QED
    BY <2>1, <2>2, <2>4, <2>5, StopHandler
<1>2. CASE ResolveAliasToActual
  <2> DEFINE d == ast[cur].decl
             next(a) == IF a = NoDatum THEN NoDatum ELSE actual[a]
             hop[k \in Nat] == IF k = 0 THEN d ELSE next(hop[k - 1])
             types == {actual[a] : a \in Datum} \cap {t \in Datum : Flavor[t] = "type"}
             ends == {k \in 1..Cardinality(Datum) : hop[k] \in types}
  <2>1. Handle("alias")
    BY <1>2 DEF ResolveAliasToActual
  <2>2. \/ Stop("err") \/ Stop("undefined")
        \/ /\ ends # {} /\ actual' = [actual EXCEPT ![d] = hop[Min(ends)]]
           /\ KeepNames /\ UNCHANGED <<link, used, orders, perms>>
    BY <1>2, Zenon DEF ResolveAliasToActual
  <2>3. CASE /\ ends # {} /\ actual' = [actual EXCEPT ![d] = hop[Min(ends)]]
             /\ KeepNames /\ UNCHANGED <<link, used, orders, perms>>
    <3>1. Cardinality(Datum) \in Nat
      BY DatumAssumption, FS_CardinalityType
    <3> HIDE DEF hop
    <3>2. ends \in SUBSET Nat
      BY <3>1
    <3>3. Min(ends) \in ends
      BY <2>3, <3>2, MinIn
    <3>4. hop[Min(ends)] \in Datum
      BY <3>3, Zenon
    <3>5. actual' \in [Datum -> MaybeDatum] /\ used' \subseteq Datum
      BY <2>3, <3>4 DEF DataInv, DataTypes, MaybeDatum
    <3> QED
      BY <2>1, <2>3, <3>5, PlainHandler
  <2> QED
    BY <2>1, <2>2, <2>3, StopHandler
<1> QED
  BY <1>1, <1>2

(* Every handler of __cil_resolve_ast_node. *)
LEMMA HandlerTypes == ASSUME WalkInv, DataInv, ResolveStatement PROVE DataInv'
<1>1. ASSUME NEW k, Handle(k) PROVE Attributes \subseteq Datum
  BY <1>1, AtHandler DEF Attributes, MaybeDatum
<1>2. ASSUME NEW f \in OrderFlavor, ResolveOrder(f) PROVE DataInv'
  <2>1. Handle(OrderKind[f])
    BY <1>2 DEF ResolveOrder
  <2>2. CASE Stop("err")
    BY <2>1, <2>2, StopHandler
  <2>3. CASE KeepNames /\ UNCHANGED <<link, actual, used, order, ordered, perms>>
    BY <2>1, <2>3, PlainHandler DEF DataInv, DataTypes
  <2> QED
    BY <1>2, <2>2, <2>3 DEF ResolveOrder
<1>3. ASSUME NEW k, NEW flavor, ResolveAttributeSet(k, flavor) PROVE DataInv'
  BY <1>3, StopHandler, FieldTypes DEF ResolveAttributeSet, Field
<1>4. ResolveBounds \/ ResolveSidcontext => DataInv'
  BY StopHandler, FieldTypes DEF ResolveBounds, ResolveSidcontext, Field
<1>5. \/ ResolveSenscat \/ ResolveClasspermissionset \/ ResolveClassmapping
      \/ ResolveUserrole \/ ResolveUserlevel \/ ResolveUserrange
      => DataInv'
  BY FieldTypes DEF ResolveSenscat, ResolveClasspermissionset, ResolveClassmapping,
       ResolveUserrole, ResolveUserlevel, ResolveUserrange, Field
<1>6. \/ ResolveCall2 \/ ResolveBoolif \/ ResolveCatset \/ ResolveTypepermissive
      \/ ResolveRangetransition \/ ResolveContext \/ ResolveNodecon
      => DataInv'
  BY <1>1, KeepRuleTypes DEF ResolveCall2, ResolveBoolif, ResolveCatset,
       ResolveTypepermissive, ResolveRangetransition, ResolveContext, ResolveNodecon
<1>7. ASSUME NEW k,
             \/ ResolveAvrule(k) \/ ResolveTypeRule(k) \/ ResolveRoleRule(k)
             \/ ResolveConstrain(k) \/ ResolveUserRule(k) \/ ResolveLevel(k)
             \/ ResolveLabel(k) \/ ResolveDeviceLabel(k) \/ ResolveDefault(k)
      PROVE  DataInv'
  BY <1>1, <1>7, KeepRuleTypes DEF ResolveAvrule, ResolveTypeRule, ResolveRoleRule,
       ResolveConstrain, ResolveUserRule, ResolveLevel, ResolveLabel,
       ResolveDeviceLabel, ResolveDefault
<1> QED
  BY <1>2, <1>3, <1>4, <1>5, <1>6, <1>7, ClasscommonTypes, AliasTypes DEF ResolveStatement
-----------------------------------------------------------------------------
(* The reset, and the theorem *)

(* Subtraction from an unsigned number stays within the machine word. *)
LEMMA ResetType ==
  ASSUME NEW v \in 0..(Word - 1), NEW n \in 0..(Word - 1), NEW k \in Nat
  PROVE  ResetPermValues(v, n, k) \in 0..(Word - 1)
<1>1. Word - (n % Word) \in Nat
  BY WordAssumption
<1>2. k * (Word - (n % Word)) \in Nat
  BY <1>1
<1>3. \A x \in Nat : (v + x) % Word \in 0..(Word - 1)
  BY WordAssumption
<1> QED
  BY <1>2, <1>3 DEF ResetPermValues

(* cil_reset_ast leaves data of the right form. *)
LEMMA ResetTypes == ASSUME DataInv, ResetData, UNCHANGED <<ast, res>> PROVE DataInv'
<1>1. \A d \in Datum : Cardinality(ClassesOf(d)) \in Nat
  <2> SUFFICES ASSUME NEW d \in Datum PROVE Cardinality(ClassesOf(d)) \in Nat
    OBVIOUS
  <2>1. ClassesOf(d) \in SUBSET Datum
    BY DEF ClassesOf
  <2> QED
    BY <2>1, DatumAssumption, FS_Subset, FS_CardinalityType
<1>2. value' \in [Datum -> 0..(Word - 1)]
  BY <1>1, ResetType DEF ResetData, ResetClasses, DataInv, DataTypes
<1>3. ASSUME NEW d \in Datum, link[d]["common"] # <<>>
      PROVE  nperms[res[link[d]["common"][1]][2]] \in 0..(Word - 1)
  <2>1. link[d]["common"] \in Seq(Node)
    BY DEF DataInv, DataTypes, Field
  <2>2. 1 \in DOMAIN link[d]["common"]
    BY <1>3, <2>1
  <2>3. res[link[d]["common"][1]][2] \in Datum
    BY <2>2 DEF DataInv, CommonKnown
  <2> QED
    BY <2>3 DEF DataInv, DataTypes
<1>4. nperms' \in [Datum -> 0..(Word - 1)]
  BY <1>3, ResetType DEF ResetData, ResetClasses, DataInv, DataTypes
<1>5. /\ link' \in [Datum -> [Field -> Seq(Node)]]
      /\ \A d \in Datum : link'[d]["common"] = <<>>
  BY DEF ResetData, DataInv, DataTypes, Field
<1>6. actual' \in [Datum -> MaybeDatum] /\ used' = {}
  BY DEF ResetData, MaybeDatum
<1>7. DataTypes'
  BY <1>2, <1>4, <1>5, <1>6 DEF DataInv, DataTypes, Node
<1>8. CommonKnown'
  BY <1>5 DEF CommonKnown
<1> QED
  BY <1>7, <1>8 DEF DataInv

(* Every step keeps the types of the data. *)
LEMMA DataStep == WalkInv /\ DataInv /\ [Next]_vars => DataInv'
<1> SUFFICES ASSUME WalkInv, DataInv, [Next]_vars PROVE DataInv'
  OBVIOUS
<1>1. CASE UNCHANGED <<ast, data>>
  BY <1>1, SameData
<1>2. CASE ResolveStatement
  BY <1>2, HandlerTypes
<1>3. CASE Restart
  <2>1. CASE Stop("undefined")
    BY <1>1, <1>3, <2>1 DEF Restart, Stop, tree
  <2>2. CASE ResetData /\ UNCHANGED res
    BY <1>3, <2>2, ResetTypes DEF Restart, tree
  <2> QED
    BY <1>3, <2>1, <2>2 DEF Restart
<1>4. CASE MergeOrders
  BY <1>4 DEF MergeOrders, tree, perms, DataInv, DataTypes, CommonKnown, Node
<1>5. CASE \/ PassOver \/ SkipSubtree \/ PassBy \/ DisableOptional \/ FailMissing
           \/ LeaveOptional \/ EndWalk \/ NextPass \/ Finish \/ Done \/ UNCHANGED vars
  BY <1>1, <1>5 DEF PassOver, SkipSubtree, PassBy, DisableOptional, FailMissing, Stop,
       LeaveOptional, EndWalk, NextPass, Finish, Done, tree, vars
<1> QED
  BY <1>2, <1>3, <1>4, <1>5 DEF Next

(* *changed is only ever CIL_TRUE or CIL_FALSE. *)
LEMMA ChangedStep == ChangedType /\ [Next]_vars => ChangedType'
<1> SUFFICES ASSUME changed \in BOOLEAN, [Next]_vars PROVE changed' \in BOOLEAN
  BY DEF ChangedType
<1>1. CASE changed' = changed
  BY <1>1
<1>2. CASE ResolveStatement
  BY <1>1, <1>2, HandlerShape DEF Handled, Advance
<1>3. CASE LeaveOptional
  BY <1>1, <1>3 DEF LeaveOptional
<1>4. CASE Restart
  BY <1>1, <1>4 DEF Restart, Stop
<1>5. CASE \/ PassOver \/ SkipSubtree \/ PassBy \/ DisableOptional \/ FailMissing
           \/ EndWalk \/ MergeOrders \/ NextPass \/ Finish \/ Done \/ UNCHANGED vars
  BY <1>1, <1>5 DEF PassOver, SkipSubtree, PassBy, DisableOptional, FailMissing, Stop,
       Advance, EndWalk, MergeOrders, NextPass, Finish, Done, vars, walk
<1> QED
  BY <1>2, <1>3, <1>4, <1>5 DEF Next

(* The data stay in their types throughout.                                *)
LEMMA DataInvariant == Spec => [](DataInv /\ ChangedType)
<1>1. Init => DataInv /\ ChangedType
  <2> SUFFICES ASSUME Init PROVE DataInv /\ ChangedType
    OBVIOUS
  <2>1. DataTypes
    BY WordAssumption, DatumAssumption DEF Init, DataTypes, NoLinks, MaybeDatum
  <2>2. CommonKnown
    BY DEF Init, CommonKnown, NoLinks, Field
  <2>3. ChangedType
    BY DEF Init, ChangedType
  <2> QED
    BY <2>1, <2>2, <2>3 DEF DataInv
<1> QED
  BY <1>1, DataStep, ChangedStep, WalkInvariant, PTL DEF Spec

(* Whatever the tree, cil_resolve_ast keeps every variable in its type; in *)
(* particular permission values stay within the machine word and a name    *)
(* resolves to a declared datum or NULL.                                   *)
THEOREM TypeTheorem == Spec => []TypeOK
<1>1. WalkInv /\ DataInv /\ ChangedType => TypeOK
  BY Zenon DEF ChangedType, WalkInv, WalkTypes, DataInv, DataTypes, MaybeDatum, TypeOK
<1> QED
  BY <1>1, DataInvariant, WalkInvariant, PTL
-----------------------------------------------------------------------------
(* Nothing was destroyed in this round, and no open optional is disabled:  *)
(* the round may be the last one                                           *)
Quiet == /\ ~ changed /\ status \in {"walk", "orders", "endpass"}
         /\ \A i \in DOMAIN optstack : ast[optstack[i]].decl \notin disabled

(* The statements that this round has dealt with *)
Dealt == {n \in alive : Resolved(n) /\ Visited(n)}

(* An alias that is bound leads to a declared datum *)
ActualDeclared == \A d \in Datum : actual[d] # NoDatum => Declared(actual[d])

(* n holds a declared datum for each of its names *)
Whole(n) == /\ DOMAIN res[n] = DOMAIN ast[n].names
            /\ \A i \in DOMAIN res[n] : res[n][i] \in Datum /\ Declared(res[n][i])

(* Except in statements of the passes before the aliases are followed, the *)
(* names of n still mean what they meant when it was resolved              *)
Current(n) == ast[n].kind \notin {"aliasactual", "call"} => res[n] = Names(n)

RefsSoFar == Quiet => ActualDeclared /\ \A n \in Dealt : AllFound(n) /\ Whole(n) /\ Current(n)

RefsInv == RefsSoFar /\ RefsCurrent

(* The statements dealt with that write field f of d *)
WritersSoFar(d, f) == {n \in Dealt : Writes(n, d, f)}

LinksSoFar ==
  Quiet => \A d \in Datum, f \in Field \ {"classperms"} :
             IF f \in {"level", "range"} THEN LastOf(link[d][f], WritersSoFar(d, f))
             ELSE Listing(link[d][f], WritersSoFar(d, f))

UsedSoFar ==
  Quiet => used = {d \in Datum : Flavor[d] = "attribute" /\ \E n \in Dealt :
                     ast[n].kind \in UsingKind /\ d \in ToSet(res[n])}

LinksInv == LinksSoFar /\ UsedSoFar /\ LinksExact
-----------------------------------------------------------------------------
(* What handlers do to the data *)

(* The field that statement n, whose names are own, writes *)
FieldWritten(k, target) ==
  IF k = "aliasactual" THEN IF Flavor[target] = "type" THEN "bounds" ELSE "none"
  ELSE FieldOf(k)

LinkEffect ==
  LET f == FieldWritten(ast[cur].kind, Target)
  IN  /\ f = "none" => link' = link
      /\ f \in {"level", "range"} => link' = [link EXCEPT ![Target][f] = <<cur>>]
      /\ f \notin {"none", "level", "range"} =>
           link' = [link EXCEPT ![Target][f] = Append(@, cur)]
      /\ f = "bounds" => link[Target][f] = <<>>

ActualEffect ==
  \/ actual' = actual
  \/ ast[cur].kind = "aliasactual" /\ actual' = [actual EXCEPT ![Target] = Own[2]]
  \/ /\ ast[cur].kind = "alias"
     /\ \E a \in Datum : /\ actual[a] \in Datum
                         /\ actual' = [actual EXCEPT ![ast[cur].decl] = actual[a]]

UsedEffect ==
  used' = used \cup (IF ast[cur].kind \in UsingKind THEN Attributes ELSE {})

Effect == KeepNames /\ LinkEffect /\ ActualEffect /\ UsedEffect

Outcome == status' \in {"err", "undefined"} \/ Effect

(* A statement that only has to be valid. *)
LEMMA RuleEffect ==
  ASSUME NEW k, Handle(k), NEW valid, KeepRule(valid, IF k \in UsingKind THEN Attributes ELSE {}),
         FieldWritten(k, Target) = "none"
  PROVE  Outcome
<1>1. ast[cur].kind = k
  BY DEF Handle, AtStatement
<1>2. CASE Stop("err")
  BY <1>2 DEF Stop, Outcome
<1>3. CASE KeepNames /\ link' = link /\ actual' = actual /\ UsedEffect
  BY <1>1, <1>3 DEF Outcome, Effect, LinkEffect, ActualEffect
<1> QED
  BY <1>1, <1>2, <1>3 DEF KeepRule, UsedEffect

(* A statement that writes a field of the datum it names first. *)
LEMMA FieldEffect ==
  ASSUME WalkInv, DataInv, NEW k, Handle(k), k \notin UsingKind, NEW f \in Field, FieldWritten(k, Target) = f,
         \/ BindOnce(Target, f) /\ f \notin {"level", "range"}
         \/ Overwrite(Target, f) /\ f \in {"level", "range"}
         \/ Attach(Target, f) /\ f \notin {"level", "range", "bounds"}
  PROVE  Outcome
<1>1. /\ ast[cur].kind = k /\ f # "none"
      /\ link \in [Datum -> [Field -> Seq(Node)]]
  BY DEF Handle, AtStatement, Field, DataInv, DataTypes
<1>2. CASE Stop("err")
  BY <1>2 DEF Stop, Outcome
<1>3. ASSUME KeepNames, used' = used, actual' = actual, LinkEffect
      PROVE  Outcome
  BY <1>1, <1>3 DEF Outcome, Effect, UsedEffect, ActualEffect
<1>4. CASE Overwrite(Target, f) /\ f \in {"level", "range"}
  <2>1. LinkEffect
    BY <1>1, <1>4 DEF LinkEffect, Overwrite
  <2> QED
    BY <1>3, <1>4, <2>1 DEF Overwrite
<1>5. CASE Attach(Target, f) /\ f \notin {"level", "range", "bounds"}
  <2>1. LinkEffect
    BY <1>1, <1>5 DEF LinkEffect, Attach
  <2> QED
    BY <1>3, <1>5, <2>1 DEF Attach
<1>6. CASE /\ link[Target][f] = <<>> /\ f \notin {"level", "range"}
           /\ link' = [link EXCEPT ![Target][f] = <<cur>>]
           /\ KeepNames /\ actual' = actual /\ used' = used
  <2>1. Append(link[Target][f], cur) = <<cur>>
    BY <1>6
  <2>2. link' = [link EXCEPT ![Target][f] = Append(@, cur)]
    BY <1>6, <2>1
  <2>3. LinkEffect
    BY <1>1, <1>6, <2>2 DEF LinkEffect
  <2> QED
    BY <1>3, <1>6, <2>3
<1> QED
  BY <1>2, <1>4, <1>5, <1>6 DEF BindOnce

(* Where each kind of statement leaves its mark.                           *)
LEMMA FieldOfKind ==
  /\ \A k \in {"call", "alias", "sidorder", "classorder", "catorder", "sensitivityorder",
               "booleanif", "catset", "typepermissive", "rangetransition", "context",
               "nodecon", "avrule", "neverallow", "type_rule", "nametypetransition",
               "roletype", "roletransition", "roleallow", "constrain", "validatetrans",
               "userprefix", "selinuxuser", "level", "levelrange", "filecon", "portcon",
               "genfscon", "netifcon", "pirqcon", "iomemcon", "ioportcon",
               "pcidevicecon", "fsuse", "default", "defaultrange"} :
       FieldOf(k) = "none"
  /\ \A k \in {"typeattributeset", "roleattributeset"} : FieldOf(k) = "expr"
  /\ FieldOf("senscat") = "cats" /\ FieldOf("classcommon") = "common"
  /\ FieldOf("bounds") = "bounds" /\ FieldOf("sidcontext") = "context"
  /\ FieldOf("userrole") = "roles" /\ FieldOf("userlevel") = "level"
  /\ FieldOf("userrange") = "range"
  /\ \A k \in {"classpermissionset", "classmapping"} : FieldOf(k) = "classperms"
BY DEF FieldOf

(* Every handler of __cil_resolve_ast_node fails or has its effect.        *)
LEMMA HandlerEffect == ASSUME WalkInv, DataInv, ResolveStatement PROVE Outcome
<1>1. ASSUME NEW k, FieldOf(k) = "none", k # "aliasactual", Handle(k), NEW valid, NEW marks,
             KeepRule(valid, marks), marks = IF k \in UsingKind THEN Attributes ELSE {}
      PROVE  Outcome
  BY <1>1, RuleEffect DEF FieldWritten
<1>2. ASSUME NEW k, k # "aliasactual", Handle(k), k \notin UsingKind,
             NEW f \in Field, FieldOf(k) = f,
             \/ BindOnce(Target, f) /\ f \notin {"level", "range"}
             \/ Overwrite(Target, f) /\ f \in {"level", "range"}
             \/ Attach(Target, f) /\ f \notin {"level", "range", "bounds"}
      PROVE  Outcome
  BY <1>2, FieldEffect DEF FieldWritten
<1>3. ASSUME NEW out \in {"err", "undefined"}, Stop(out) PROVE Outcome
  BY <1>3 DEF Stop, Outcome
<1>4. ResolveAliasActual => Outcome
  <2>1. SUFFICES ASSUME ResolveAliasActual PROVE Outcome
    OBVIOUS
  <2>2. /\ Handle("aliasactual") /\ ast[cur].kind = "aliasactual"
        /\ "aliasactual" \notin UsingKind
    BY <2>1 DEF ResolveAliasActual, Handle, AtStatement, UsingKind
  <2>3. \/ Stop("err") \/ Stop("undefined")
        \/ Flavor[Target] = "type" /\ BindOnce(Target, "bounds")
        \/ /\ Flavor[Target] = "alias" /\ actual' = [actual EXCEPT ![Target] = Own[2]]
           /\ KeepNames /\ UNCHANGED <<link, used, orders, perms>>
    BY <2>1, Zenon DEF ResolveAliasActual
  <2>4. CASE Flavor[Target] = "type" /\ BindOnce(Target, "bounds")
    <3>1. FieldWritten("aliasactual", Target) = "bounds" /\ "bounds" \in Field
      BY <2>4 DEF FieldWritten, Field
    <3> QED
      BY <2>2, <2>4, <3>1, FieldEffect
  <2>5. CASE /\ Flavor[Target] = "alias" /\ actual' = [actual EXCEPT ![Target] = Own[2]]
             /\ KeepNames /\ UNCHANGED <<link, used, orders, perms>>
    BY <2>2, <2>5 DEF Outcome, Effect, LinkEffect, FieldWritten, ActualEffect, UsedEffect
  <2> QED
    BY <1>3, <2>3, <2>4, <2>5
<1>5. ResolveAliasToActual => Outcome
  <2>1. SUFFICES ASSUME ResolveAliasToActual PROVE Outcome
    OBVIOUS
  <2> DEFINE d == ast[cur].decl
             next(a) == IF a = NoDatum THEN NoDatum ELSE actual[a]
             hop[k \in Nat] == IF k = 0 THEN d ELSE next(hop[k - 1])
             types == {actual[a] : a \in Datum} \cap {t \in Datum : Flavor[t] = "type"}
             ends == {k \in 1..Cardinality(Datum) : hop[k] \in types}
  <2>2. Handle("alias") /\ ast[cur].kind = "alias" /\ "alias" \notin UsingKind
    BY <2>1 DEF ResolveAliasToActual, Handle, AtStatement, UsingKind
  <2>3. \/ Stop("err") \/ Stop("undefined")
        \/ /\ ends # {} /\ actual' = [actual EXCEPT ![d] = hop[Min(ends)]]
           /\ KeepNames /\ UNCHANGED <<link, used, orders, perms>>
    BY <2>1, Zenon DEF ResolveAliasToActual
  <2>4. CASE /\ ends # {} /\ actual' = [actual EXCEPT ![d] = hop[Min(ends)]]
             /\ KeepNames /\ UNCHANGED <<link, used, orders, perms>>
    <3>1. Cardinality(Datum) \in Nat
      BY DatumAssumption, FS_CardinalityType
    <3> HIDE DEF hop
    <3>2. ends \in SUBSET Nat
      BY <3>1
    <3>3. Min(ends) \in ends
      BY <2>4, <3>2, MinIn
    <3>4. hop[Min(ends)] \in types
      BY <3>3, Zenon
    <3>5. PICK a \in Datum : hop[Min(ends)] = actual[a] /\ actual[a] \in Datum
      BY <3>4
    <3>6. actual' = [actual EXCEPT ![d] = actual[a]]
      BY <2>4, <3>5, Zenon
    <3>7. ActualEffect
      BY <2>2, <3>5, <3>6 DEF ActualEffect
    <3> QED
      BY <2>2, <2>4, <3>7, FieldOfKind DEF Outcome, Effect, LinkEffect, FieldWritten, UsedEffect
  <2> QED
    BY <1>3, <2>3, <2>4
<1>6. ASSUME NEW f \in OrderFlavor, ResolveOrder(f) PROVE Outcome
  <2>1. /\ Handle(OrderKind[f]) /\ ast[cur].kind = OrderKind[f]
        /\ OrderKind[f] \in {"sidorder", "classorder", "catorder", "sensitivityorder"}
    BY <1>6 DEF ResolveOrder, Handle, AtStatement, OrderKind, OrderFlavor
  <2>2. /\ FieldWritten(ast[cur].kind, Target) = "none" /\ ast[cur].kind \notin UsingKind
    BY <2>1, FieldOfKind DEF FieldWritten, UsingKind
  <2>3. CASE KeepNames /\ UNCHANGED <<link, actual, used, order, ordered, perms>>
    BY <2>2, <2>3 DEF Outcome, Effect, LinkEffect, ActualEffect, UsedEffect
  <2> QED
    BY <1>3, <1>6, <2>3 DEF ResolveOrder
<1>7. ResolveClasscommon => Outcome
  <2>1. SUFFICES ASSUME ResolveClasscommon PROVE Outcome
    OBVIOUS
  <2>2. Handle("classcommon") /\ ast[cur].kind = "classcommon" /\ "classcommon" \notin UsingKind
    BY <2>1 DEF ResolveClasscommon, Handle, AtStatement, UsingKind
  <2>3. CASE /\ link[Target]["common"] = <<>>
             /\ link' = [link EXCEPT ![Target]["common"] = <<cur>>]
             /\ KeepNames /\ UNCHANGED <<actual, used, orders>>
    <3>1. Append(link[Target]["common"], cur) = <<cur>>
      BY <2>3
    <3>2. link' = [link EXCEPT ![Target]["common"] = Append(@, cur)]
      BY <2>3, <3>1
    <3>3. FieldWritten(ast[cur].kind, Target) = "common"
      BY <2>2, FieldOfKind DEF FieldWritten
    <3> QED
      BY <2>2, <2>3, <3>2, <3>3 DEF Outcome, Effect, LinkEffect, ActualEffect, UsedEffect
  <2> QED
    BY <1>3, <2>1, <2>3 DEF ResolveClasscommon
<1>8. ASSUME NEW k \in {"typeattributeset", "roleattributeset"}, NEW flavor,
             ResolveAttributeSet(k, flavor)
      PROVE  Outcome
  BY <1>2, <1>3, <1>8, FieldOfKind DEF ResolveAttributeSet, Field, UsingKind
<1>9. ResolveBounds \/ ResolveSidcontext => Outcome
  BY <1>2, <1>3, FieldOfKind DEF ResolveBounds, ResolveSidcontext, Field, UsingKind
<1>10. \/ ResolveSenscat \/ ResolveClasspermissionset \/ ResolveClassmapping
       \/ ResolveUserrole \/ ResolveUserlevel \/ ResolveUserrange
       => Outcome
  BY <1>2, FieldOfKind DEF ResolveSenscat, ResolveClasspermissionset, ResolveClassmapping,
       ResolveUserrole, ResolveUserlevel, ResolveUserrange, Field, UsingKind
<1>11. \/ ResolveCall2 \/ ResolveBoolif \/ ResolveCatset \/ ResolveTypepermissive
       \/ ResolveRangetransition \/ ResolveContext \/ ResolveNodecon
       => Outcome
  <2>1. ASSUME NEW k \in {"call", "booleanif", "catset", "typepermissive", "context", "nodecon"},
               Handle(k), NEW valid, KeepRule(valid, {})
        PROVE  Outcome
    <3>1. FieldOf(k) = "none" /\ k # "aliasactual" /\ k \notin UsingKind
      BY FieldOfKind DEF UsingKind
    <3> QED
      BY <1>1, <2>1, <3>1
  <2>2. \/ ResolveCall2 \/ ResolveBoolif \/ ResolveCatset \/ ResolveTypepermissive
        \/ ResolveContext \/ ResolveNodecon
        => Outcome
    BY <2>1 DEF ResolveCall2, ResolveBoolif, ResolveCatset, ResolveTypepermissive,
         ResolveContext, ResolveNodecon
  <2>3. ResolveRangetransition => Outcome
    <3>1. FieldOf("rangetransition") = "none" /\ "rangetransition" \in UsingKind
      BY FieldOfKind DEF UsingKind
    <3> QED
      BY <1>1, <3>1 DEF ResolveRangetransition
  <2> QED
    BY <2>2, <2>3
<1>12. ASSUME NEW k \in {"avrule", "neverallow"}, ResolveAvrule(k)
       PROVE  Outcome
  <2>1. FieldOf(k) = "none" /\ k # "aliasactual"
    BY FieldOfKind
  <2> QED
    BY <1>1, <1>12, <2>1 DEF ResolveAvrule, UsingKind
<1>13. ASSUME NEW k \in {"type_rule", "nametypetransition"}, ResolveTypeRule(k)
       PROVE  Outcome
  <2>1. FieldOf(k) = "none" /\ k # "aliasactual"
    BY FieldOfKind
  <2> QED
    BY <1>1, <1>13, <2>1 DEF ResolveTypeRule, UsingKind
<1>14. ASSUME NEW k \in {"roletype", "roletransition", "roleallow"}, ResolveRoleRule(k)
       PROVE  Outcome
  <2>1. FieldOf(k) = "none" /\ k # "aliasactual"
    BY FieldOfKind
  <2> QED
    BY <1>1, <1>14, <2>1 DEF ResolveRoleRule, UsingKind
<1>15. ASSUME NEW k \in {"constrain", "validatetrans"}, ResolveConstrain(k)
       PROVE  Outcome
  <2>1. FieldOf(k) = "none" /\ k # "aliasactual"
    BY FieldOfKind
  <2> QED
    BY <1>1, <1>15, <2>1 DEF ResolveConstrain, UsingKind
<1>16. ASSUME NEW k \in {"userprefix", "selinuxuser"}, ResolveUserRule(k)
       PROVE  Outcome
  <2>1. FieldOf(k) = "none" /\ k # "aliasactual"
    BY FieldOfKind
  <2> QED
    BY <1>1, <1>16, <2>1 DEF ResolveUserRule, UsingKind
<1>17. ASSUME NEW k \in {"level", "levelrange"}, ResolveLevel(k)
       PROVE  Outcome
  <2>1. FieldOf(k) = "none" /\ k # "aliasactual"
    BY FieldOfKind
  <2> QED
    BY <1>1, <1>17, <2>1 DEF ResolveLevel, UsingKind
<1>18. ASSUME NEW k \in {"filecon", "portcon", "genfscon"}, ResolveLabel(k)
       PROVE  Outcome
  <2>1. FieldOf(k) = "none" /\ k # "aliasactual"
    BY FieldOfKind
  <2> QED
    BY <1>1, <1>18, <2>1 DEF ResolveLabel, UsingKind
<1>19. ASSUME NEW k \in {"netifcon", "pirqcon", "iomemcon", "ioportcon",
                     "pcidevicecon", "fsuse"}, ResolveDeviceLabel(k)
       PROVE  Outcome
  <2>1. FieldOf(k) = "none" /\ k # "aliasactual"
    BY FieldOfKind
  <2> QED
    BY <1>1, <1>19, <2>1 DEF ResolveDeviceLabel, UsingKind
<1>20. ASSUME NEW k \in {"default", "defaultrange"}, ResolveDefault(k)
       PROVE  Outcome
  <2>1. FieldOf(k) = "none" /\ k # "aliasactual"
    BY FieldOfKind
  <2> QED
    BY <1>1, <1>20, <2>1 DEF ResolveDefault, UsingKind
<1> QED
  BY <1>4, <1>5, <1>6, <1>7, <1>8, <1>9, <1>10, <1>11, <1>12, <1>13, <1>14,
     <1>15, <1>16, <1>17, <1>18, <1>19, <1>20 DEF ResolveStatement
-----------------------------------------------------------------------------
(* The rounds *)

(* A round that may be the last one has started, goes on without a change  *)
(* to the data, or goes on with a statement that has its effect.           *)
Started == /\ Dealt' = {} /\ ast' = ast /\ ResetData /\ UNCHANGED res
GoesOn == /\ Quiet /\ Dealt' = Dealt /\ ast' = ast /\ alive' = alive
          /\ UNCHANGED <<res, link, actual, used>>
DealsWith == /\ Quiet /\ Dealt' = Dealt \cup {cur} /\ ast' = ast /\ alive' = alive
             /\ cur \in alive /\ ast[cur].kind \notin PlainKind
             /\ pass = PassOf(ast[cur].kind) /\ AllFound(cur) /\ Effect

(* At the start nothing has been dealt with.                               *)
LEMMA NothingDealt == ASSUME Init PROVE Dealt = {}
<1>1. Nested /\ alive \subseteq Node
  BY TreeNested DEF Init
<1>2. ASSUME NEW n \in alive PROVE ~ Visited(n)
  <2>1. n \in Nat /\ n >= 1 /\ PassOf(ast[n].kind) \in CALL2..MISC3
    BY <1>1, PassOfType DEF Node, Nested
  <2> QED
    BY <2>1 DEF Init, Visited, CALL2, MISC3
<1> QED
  BY <1>2 DEF Dealt

(* Going on from a node leaves what is on the stack on it.                 *)
LEMMA AdvanceStack ==
  ASSUME WalkInv, AtNode, Advance
  PROVE  \A i \in DOMAIN optstack : \E j \in DOMAIN optstack' : optstack'[j] = optstack[i]
<1>1. optstack \in Seq(Optional) /\ cur \in Node
  BY DEF WalkInv, WalkTypes, AtNode
<1>2. CASE optstack' = optstack
  BY <1>2
<1>3. CASE cur \in Optional /\ optstack' = <<cur>> \o optstack
  <2>1. \A i \in DOMAIN optstack : i + 1 \in DOMAIN optstack' /\ optstack'[i + 1] = optstack[i]
    BY <1>1, <1>3, Push
  <2> QED
    BY <2>1
<1> QED
  BY <1>1, <1>2, <1>3 DEF Advance, Optional

(* What a step adds to what this round has dealt with.                     *)
LEMMA DealtAdvance ==
  ASSUME WalkInv, AtNode, Advance, UNCHANGED <<ast, alive>>
  PROVE  Dealt' = IF ast[cur].kind \notin PlainKind /\ PassOf(ast[cur].kind) = pass
                  THEN Dealt \cup {cur} ELSE Dealt
<1>1. /\ Nested /\ WalkTypes /\ cur \in Node /\ cur \in alive /\ alive \subseteq Node
      /\ cur' = cur + 1 /\ pass' = pass /\ ast' = ast /\ alive' = alive
  BY TreeNested DEF WalkInv, WalkTypes, AtNode, Advance
<1>2. \A n \in alive : Resolved(n)' <=> Resolved(n)
  BY <1>1, SameTree
<1>3. \A n \in alive : Visited(n)' <=> Visited(n) \/ (n = cur /\ PassOf(ast[n].kind) = pass)
  BY <1>1 DEF Visited, Node, Nested
<1>4. ast[cur].kind \notin PlainKind <=> Resolved(cur)
  BY <1>1, AtResolved DEF Resolved
<1> QED
  BY <1>1, <1>2, <1>3, <1>4 DEF Dealt

(* In a quiet round a step begins it, goes on, or deals with a statement    *)
LEMMA RoundStep ==
  ASSUME WalkInv, DataInv, [Next]_vars, Quiet'
  PROVE  Started \/ GoesOn \/ DealsWith
<1>1. Nested /\ WalkTypes /\ PassEnded /\ alive \subseteq Node
  BY TreeNested DEF WalkInv, WalkTypes
<1>2. ASSUME ast' = ast, alive' = alive, \A n \in alive : Resolved(n) => (Visited(n)' <=> Visited(n))
      PROVE  Dealt' = Dealt
  BY <1>2, SameTree DEF Dealt
<1>3. ASSUME UNCHANGED <<tree, optstack, changed>>, status \in {"walk", "orders", "endpass"}
      PROVE  Quiet
  BY <1>3 DEF Quiet, tree
<1>4. CASE PassOver
  <2>1. /\ UNCHANGED <<tree, status, pass, optstack, changed, data>> /\ ast' = ast /\ alive' = alive
        /\ status = "walk" /\ cur \notin alive /\ cur' = cur + 1
    BY <1>4 DEF PassOver, tree
  <2>2. \A n \in alive : Visited(n)' <=> Visited(n)
    BY <1>1, <2>1 DEF Visited, WalkTypes, Node
  <2> QED
    BY <1>2, <1>3, <2>1, <2>2 DEF GoesOn, data
<1>5. CASE SkipSubtree
  <2>1. /\ UNCHANGED <<tree, status, pass, optstack, changed, data>> /\ status = "walk"
        /\ cur \in Node /\ cur' = ast[cur].last + 1 /\ ast' = ast /\ alive' = alive
        /\ ast[cur].kind \in SkippedKind
    BY <1>1, <1>5 DEF SkipSubtree, AtNode, tree, WalkTypes
  <2>2. ASSUME NEW n \in alive, Resolved(n) PROVE Visited(n)' <=> Visited(n)
    <3>1. n # cur /\ n \notin Below(cur)
      BY <2>1, <2>2 DEF Resolved, PlainKind
    <3>2. n < cur' <=> n < cur
      BY <1>1, <2>1, <3>1 DEF Below, Node, Nested, WalkTypes
    <3> QED
      BY <2>1, <2>2, <3>2 DEF Visited
  <2> QED
    BY <1>2, <1>3, <2>1, <2>2 DEF GoesOn, data
<1>6. ASSUME AtNode, Advance, UNCHANGED <<ast, alive, disabled>> PROVE Quiet
  <2>1. status = "walk" /\ changed' = changed
    BY <1>6 DEF AtNode, Advance
  <2> QED
    BY <1>6, <2>1, AdvanceStack DEF Quiet
<1>7. CASE PassBy
  <2>1. /\ AtNode /\ Advance /\ UNCHANGED <<ast, alive, disabled, data>>
        /\ ast[cur].kind \in PlainKind \/ PassOf(ast[cur].kind) # pass
    BY <1>7 DEF PassBy, tree
  <2> QED
    BY <1>6, <2>1, DealtAdvance DEF GoesOn, data
<1>8. CASE DisableOptional
  <2>1. /\ AtNode /\ Advance /\ ast' = ast /\ optstack # <<>>
        /\ disabled' = disabled \cup {ast[Head(optstack)].decl}
    BY <1>8 DEF DisableOptional, AtStatement
  <2>2. 1 \in DOMAIN optstack /\ Head(optstack) = optstack[1]
    BY <1>1, <2>1, Pop DEF WalkTypes
  <2>3. PICK j \in DOMAIN optstack' : optstack'[j] = optstack[1]
    BY <2>1, <2>2, AdvanceStack
  <2> QED
    BY <2>1, <2>2, <2>3 DEF Quiet
<1>9. CASE ResolveStatement
  <2>1. Handled /\ Outcome /\ status' \notin {"err", "undefined"}
    BY <1>9, HandlerShape, HandlerEffect DEF Quiet
  <2>2. /\ AtNode /\ Advance /\ UNCHANGED <<ast, alive, disabled>> /\ Effect
        /\ ast[cur].kind \notin PlainKind /\ PassOf(ast[cur].kind) = pass /\ AllFound(cur)
    BY <2>1 DEF Handled, Outcome, tree
  <2> QED
    BY <1>6, <2>2, DealtAdvance DEF DealsWith, AtNode
<1>10. CASE LeaveOptional
  <2> DEFINE o == Head(optstack)
  <2>1. /\ UNCHANGED <<ast, disabled, status, pass, cur, data>> /\ status = "walk"
        /\ optstack # <<>> /\ optstack' = Tail(optstack)
        /\ \/ changed'
           \/ ast[o].decl \notin disabled /\ UNCHANGED <<alive, changed>>
    BY <1>10 DEF LeaveOptional, OptionalEnded
  <2>2. ast[o].decl \notin disabled /\ UNCHANGED <<alive, changed>>
    BY <2>1 DEF Quiet
  <2>3. Dealt' = Dealt
    BY <1>2, <2>1, <2>2 DEF Visited
  <2>4. ASSUME NEW i \in DOMAIN optstack PROVE ast[optstack[i]].decl \notin disabled
    <3>1. CASE i = 1
      BY <1>1, <2>1, <2>2, <3>1, Pop DEF WalkTypes
    <3>2. CASE i # 1
      <4>1. i - 1 \in DOMAIN optstack' /\ optstack'[i - 1] = optstack[i]
        BY <1>1, <2>1, <3>2, Pop DEF WalkTypes
      <4> QED
        BY <2>1, <4>1 DEF Quiet
    <3> QED
      BY <3>1, <3>2
  <2>5. Quiet
    BY <2>1, <2>2, <2>4 DEF Quiet
  <2> QED
    BY <2>1, <2>2, <2>3, <2>5 DEF GoesOn, data
<1>11. CASE EndWalk
  <2>1. /\ UNCHANGED <<tree, pass, cur, optstack, changed, data>> /\ status = "walk"
        /\ ast' = ast /\ alive' = alive
    BY <1>11 DEF EndWalk, tree
  <2> QED
    BY <1>2, <1>3, <2>1 DEF GoesOn, data, Visited
<1>12. CASE MergeOrders
  <2>1. /\ UNCHANGED <<tree, pass, cur, optstack, changed, res, link, actual, used>>
        /\ status = "orders" /\ ast' = ast /\ alive' = alive
    BY <1>12 DEF MergeOrders, tree
  <2> QED
    BY <1>2, <1>3, <2>1 DEF GoesOn, Visited
<1>13. CASE Restart
  <2>1. /\ ResetData /\ UNCHANGED res /\ pass' = CALL1 + 1 /\ cur' = 1
        /\ ast' = ast /\ alive' = alive
    BY <1>13 DEF Restart, Stop, tree, Quiet
  <2>2. ASSUME NEW n \in alive PROVE ~ Visited(n)'
    <3>1. n \in Nat /\ n >= 1 /\ PassOf(ast[n].kind) \in CALL2..MISC3
      BY <1>1, PassOfType DEF WalkTypes, Node
    <3> QED
      BY <2>1, <3>1 DEF Visited, CALL1, CALL2, MISC3
  <2> QED
    BY <2>1, <2>2 DEF Started, Dealt
<1>14. CASE NextPass
  <2>1. /\ status = "endpass" /\ pass' = pass + 1 /\ cur' = 1
        /\ UNCHANGED <<tree, changed, data>> /\ ast' = ast /\ alive' = alive
        /\ optstack = <<>> /\ optstack' = <<>> /\ cur = Len(ast) + 1
    BY <1>1, <1>14 DEF NextPass, tree, PassEnded
  <2>2. ASSUME NEW n \in alive PROVE Visited(n)' <=> Visited(n)
    <3>1. n \in Nat /\ n >= 1 /\ n < cur /\ PassOf(ast[n].kind) \in CALL2..MISC3
      BY <1>1, <2>1, PassOfType DEF WalkTypes, Node, Nested
    <3> QED
      BY <1>1, <2>1, <2>2, <3>1 DEF Visited, WalkTypes, CALL2, MISC3
  <2> QED
    BY <1>2, <1>3, <2>1, <2>2 DEF GoesOn, data
<1>15. CASE FailMissing \/ Finish
  BY <1>15 DEF FailMissing, Finish, Stop, Quiet
<1>16. CASE UNCHANGED vars
  <2>1. UNCHANGED <<tree, status, pass, cur, optstack, changed, data>> /\ ast' = ast /\ alive' = alive
    BY <1>16 DEF vars, tree, walk
  <2>2. Dealt' = Dealt
    BY <1>2, <2>1 DEF Visited
  <2>3. Quiet
    BY <1>3, <2>1 DEF Quiet
  <2> QED
    BY <2>1, <2>2, <2>3 DEF GoesOn, data
<1> QED
  BY <1>4, <1>5, <1>7, <1>8, <1>9, <1>10, <1>11, <1>12, <1>13, <1>14, <1>15, <1>16 DEF Next, Done

(* A policy is accepted at the end of a round that has dealt with every    *)
(* statement that is left.                                                 *)
LEMMA AcceptStep ==
  ASSUME WalkInv, [Next]_vars, status' = "ok"
  PROVE  /\ UNCHANGED <<ast, alive, data>>
         /\ status = "ok" \/ (Quiet /\ Dealt = {n \in alive : Resolved(n)})
<1>1. CASE Finish
  <2>1. /\ Nested /\ WalkTypes /\ status = "endpass" /\ pass = MISC3 /\ ~ changed
        /\ optstack = <<>> /\ cur = Len(ast) + 1
    BY <1>1, TreeNested DEF Finish, WalkInv, WalkTypes, PassEnded
  <2>2. ASSUME NEW n \in alive PROVE Visited(n)
    <3>1. n < cur /\ PassOf(ast[n].kind) \in CALL2..MISC3
      BY <2>1, PassOfType DEF WalkTypes, Node, Nested
    <3> QED
      BY <2>1, <3>1 DEF Visited, CALL2, MISC3
  <2>3. Dealt = {n \in alive : Resolved(n)}
    BY <2>2 DEF Dealt
  <2>4. UNCHANGED <<ast, alive, data>>
    BY <1>1 DEF Finish, tree
  <2> QED
    BY <2>1, <2>3, <2>4 DEF Quiet
<1>2. CASE ResolveStatement
  BY <1>2, HandlerShape DEF Handled, AtNode, Advance
<1>3. CASE UNCHANGED vars
  BY <1>3 DEF vars, tree, walk
<1> QED
  BY <1>1, <1>2, <1>3 DEF Next, Done, PassOver, SkipSubtree, PassBy, DisableOptional,
     FailMissing, LeaveOptional, EndWalk, MergeOrders, Restart, NextPass, AtNode,
     AtStatement, Advance, Stop
-----------------------------------------------------------------------------
(* What names mean *)

(* The passes before MISC1, and what they resolve.                         *)
LEMMA EarlyPass ==
  /\ PassOf("call") = CALL2 /\ PassOf("aliasactual") = ALIAS1 /\ PassOf("alias") = ALIAS2
  /\ \A k : /\ PassOf(k) <= CALL2 => k = "call"
            /\ PassOf(k) <= ALIAS2 => k \in {"call", "aliasactual", "alias"}
BY DEF PassOf, CALL2, ALIAS1, ALIAS2, MISC1, MLS, MISC2, MISC3

(* What has been dealt with belongs to a pass that has come.               *)
LEMMA DealtPass ==
  ASSUME WalkInv, NEW n \in Dealt
  PROVE  /\ n \in Node /\ n \in alive /\ Resolved(n) /\ PassOf(ast[n].kind) <= pass
         /\ PassOf(ast[n].kind) = pass => n < cur
<1>1. PassOf(ast[n].kind) \in Nat /\ pass \in Nat
  BY PassOfType DEF WalkInv, WalkTypes, CALL2, MISC3
<1> QED
  BY <1>1 DEF Dealt, Visited, WalkInv, WalkTypes

(* The call that a macro parameter in the statement at hand stands for has *)
(* been dealt with.                                                        *)
LEMMA CallDealt ==
  ASSUME WalkInv, cur \in alive, ast[cur].kind \notin PlainKind, pass = PassOf(ast[cur].kind),
         NEW i \in DOMAIN ast[cur].names, ast[cur].names[i].call # 0
  PROVE  /\ ast[cur].names[i].call \in Dealt
         /\ ast[cur].names[i].arg \in DOMAIN ast[ast[cur].names[i].call].names
<1> DEFINE c == ast[cur].names[i].call
<1>1. Nested /\ IsTree(ast) /\ cur \in Node /\ ast \in Ast
  BY TreeNested, AstAssumption DEF WalkInv, WalkTypes
<1>2. /\ c \in 1..(cur - 1) /\ ast[c].kind = "call" /\ cur <= ast[c].last
      /\ ast[cur].names[i].arg \in DOMAIN ast[c].names
  BY <1>1 DEF IsTree, Node
<1>3. c \in Node /\ cur \in Below(c)
  BY <1>1, <1>2 DEF Node, Below, Nested
<1>4. c \in alive
  BY <1>3 DEF WalkInv, AliveClosed
<1>5. Resolved(c)
  <2>1. ASSUME NEW s \in Node, c \in Below(s) PROVE ast[s].kind \notin SkippedKind
    <3>1. cur \in Below(s) /\ s < cur
      BY <1>1, <1>2, <1>3, <2>1, BelowTransitive DEF Node, Below, Nested
    <3> QED
      BY <1>1, <2>1, <3>1 DEF WalkInv, SkipComplete, Node, Nested
  <2> QED
    BY <1>2, <2>1 DEF Resolved, PlainKind, SkippedKind
<1>6. Visited(c)
  <2>1. PassOf(ast[cur].kind) \in CALL2..MISC3
    BY PassOfType
  <2> QED
    BY <1>1, <1>2, <2>1, EarlyPass DEF Visited, CALL2, MISC3, Node, Nested
<1> QED
  BY <1>2, <1>4, <1>5, <1>6 DEF Dealt

(* Each name of the statement at hand means a declared datum.              *)
LEMMA OwnDeclared ==
  ASSUME WalkInv, DataInv, RefsSoFar, Quiet, cur \in alive, ast[cur].kind \notin PlainKind,
         pass = PassOf(ast[cur].kind), AllFound(cur), NEW i \in DOMAIN ast[cur].names
  PROVE  Lookup(ast[cur].names[i]) \in Datum /\ Declared(Lookup(ast[cur].names[i]))
<1> DEFINE name == ast[cur].names[i]
<1>1. IsTree(ast) /\ cur \in Node
  BY AstAssumption DEF WalkInv, WalkTypes
<1>2. ASSUME NEW d \in Datum, Declared(d) PROVE Deref(d) \in Datum /\ Declared(Deref(d))
  <2>1. CASE Deref(d) = d
    BY <1>2, <2>1
  <2>2. CASE Deref(d) = actual[d] /\ actual[d] # NoDatum
    <3>1. actual[d] \in Datum
      BY <2>2 DEF DataInv, DataTypes, MaybeDatum
    <3> QED
      BY <2>2, <3>1 DEF RefsSoFar, ActualDeclared
  <2> QED
    BY <2>1, <2>2 DEF Deref
<1>3. CASE name.call # 0
  <2>1. name.call \in Dealt /\ name.arg \in DOMAIN ast[name.call].names
    BY <1>3, CallDealt
  <2>2. Whole(name.call)
    BY <2>1 DEF RefsSoFar
  <2>3. /\ name.arg \in DOMAIN res[name.call]
        /\ res[name.call][name.arg] \in Datum /\ Declared(res[name.call][name.arg])
    BY <2>1, <2>2 DEF Whole
  <2>4. Lookup(name) = Deref(res[name.call][name.arg])
    BY <1>3, <2>3 DEF Lookup
  <2> QED
    BY <1>2, <2>3, <2>4
<1>4. CASE name.call = 0
  <2> DEFINE at == {k \in DOMAIN name.scopes : Declared(name.scopes[k])}
  <2>1. name.scopes \in Seq(Datum)
    <3>1. ast[cur] \in TreeNode
      BY <1>1 DEF IsTree, Node
    <3>2. name \in NameRef
      BY <3>1 DEF TreeNode
    <3> QED
      BY <3>2 DEF NameRef
  <2>2. at # {} /\ at \in SUBSET Nat
    BY <1>4, <2>1 DEF AllFound, AllFoundIn, FoundIn, Declared
  <2>3. Min(at) \in at
    BY <2>2, MinIn
  <2>4. Min(at) \in DOMAIN name.scopes /\ Declared(name.scopes[Min(at)])
    BY <2>3
  <2>5. name.scopes[Min(at)] \in Datum
    BY <2>1, <2>4, ElementType, Zenon
  <2>6. Lookup(name) = Deref(name.scopes[Min(at)])
    BY <1>4, Zenon DEF Lookup
  <2> QED
    BY <1>2, <2>4, <2>5, <2>6
<1> QED
  BY <1>3, <1>4

(* What a name means when the declarations, the argument it stands for and *)
(* the aliases are the same.                                               *)
LEMMA SameLookup ==
  ASSUME ast' = ast, alive' = alive, actual' = actual, NEW name,
         name.call # 0 => res'[name.call] = res[name.call]
  PROVE  Lookup(name)' = Lookup(name)
<1>1. \A d : Declared(d)' <=> Declared(d)
  BY DEF Declared, DeclaredIn
<1>2. \A d : Deref(d)' = Deref(d)
  BY DEF Deref
<1>3. CASE name.call # 0
  <2>1. (IF name.arg \in DOMAIN res[name.call]
         THEN res[name.call][name.arg] ELSE NoDatum)'
          = IF name.arg \in DOMAIN res[name.call]
            THEN res[name.call][name.arg] ELSE NoDatum
    BY <1>3
  <2> QED
    BY <1>2, <1>3, <2>1 DEF Lookup
<1>4. CASE name.call = 0
  <2> DEFINE at == {k \in DOMAIN name.scopes : Declared(name.scopes[k])}
  <2>1. at' = at
    BY <1>1
  <2>2. Lookup(name) = Deref(name.scopes[Min(at)])
    BY <1>4, Zenon DEF Lookup
  <2>3. Lookup(name)' = Deref(name.scopes[Min(at)])'
    BY <1>4, Zenon DEF Lookup
  <2> QED
    BY <1>2, <2>1, <2>2, <2>3, Zenon
<1> QED
  BY <1>3, <1>4

(* The names of a statement that has been dealt with still mean the same.  *)
LEMMA NamesStay ==
  ASSUME WalkInv, DataInv, DealsWith, NEW n \in Dealt \cup {cur},
         ast[n].kind \notin {"aliasactual", "call"}
  PROVE  Names(n)' = Names(n)
<1>1. /\ IsTree(ast) /\ ast' = ast /\ alive' = alive /\ cur \in Node /\ n \in Node
      /\ res' = [res EXCEPT ![cur] = Own] /\ res \in [Node -> Seq(MaybeDatum)]
      /\ PassOf(ast[n].kind) <= pass /\ pass = PassOf(ast[cur].kind)
  <2>1. PassOf(ast[cur].kind) \in Nat
    BY PassOfType DEF CALL2, MISC3
  <2> QED
    BY <2>1, AstAssumption, DealtPass DEF DealsWith, Effect, KeepNames, WalkInv, WalkTypes,
       DataInv, DataTypes
<1>2. ASSUME NEW i \in DOMAIN ast[n].names
      PROVE  Lookup(ast[n].names[i])' = Lookup(ast[n].names[i])
  <2> DEFINE name == ast[n].names[i]
  <2>1. name.call # 0 => /\ name.call \in Node /\ name.call < n
                          /\ ast[name.call].kind = "call"
    BY <1>1 DEF IsTree, Node
  <2>2. name.call # cur
    <3>1. SUFFICES ASSUME name.call = cur PROVE FALSE
      OBVIOUS
    <3>2. ast[cur].kind = "call" /\ n # cur
      BY <1>1, <2>1, <3>1 DEF Node
    <3> QED
      BY <1>1, <3>2, EarlyPass DEF CALL2
  <2>3. name.call # 0 => res'[name.call] = res[name.call]
    BY <1>1, <2>1, <2>2
  <2>4. ast[n].kind # "alias"
    BY <1>1 DEF IsTree, Node
  <2>5. ast[cur].kind \notin {"aliasactual", "alias"}
    <3>1. ASSUME ast[cur].kind \in {"aliasactual", "alias"} PROVE PassOf(ast[n].kind) <= ALIAS2
      <4>1. PassOf(ast[n].kind) \in Nat
        BY PassOfType DEF CALL2, MISC3
      <4> QED
        BY <1>1, <3>1, <4>1, EarlyPass DEF ALIAS1, ALIAS2
    <3> QED
      BY <2>4, <3>1, EarlyPass
  <2>6. actual' = actual
    BY <2>5 DEF DealsWith, Effect, ActualEffect
  <2> QED
    BY <1>1, <2>3, <2>6, SameLookup
<1> QED
  BY <1>1, <1>2 DEF Names

(* Every statement dealt with in this round holds what its names mean.     *)
LEMMA RefsStep ==
  ASSUME WalkInv, DataInv, RefsSoFar, [Next]_vars, Quiet'
  PROVE  /\ ActualDeclared'
         /\ \A n \in Dealt' : AllFound(n)' /\ Whole(n)' /\ Current(n)'
<1>1. CASE Started
  BY <1>1 DEF Started, ResetData, ActualDeclared
<1>2. CASE GoesOn
  <2>1. \A n : (AllFound(n)' <=> AllFound(n)) /\ (Whole(n)' <=> Whole(n))
    BY <1>2, SameTree DEF GoesOn, Whole, Declared, DeclaredIn
  <2>2. \A n : Names(n)' = Names(n)
    <3>1. \A name : Lookup(name)' = Lookup(name)
      BY <1>2, SameLookup DEF GoesOn
    <3> QED
      BY <1>2, <3>1 DEF Names, GoesOn
  <2>3. ActualDeclared'
    BY <1>2 DEF GoesOn, RefsSoFar, ActualDeclared, Declared, DeclaredIn
  <2> QED
    BY <1>2, <2>1, <2>2, <2>3 DEF GoesOn, RefsSoFar, Current
<1>3. CASE DealsWith
  <2>1. /\ Quiet /\ Dealt' = Dealt \cup {cur} /\ ast' = ast /\ alive' = alive
        /\ cur \in alive /\ cur \in Node /\ ast[cur].kind \notin PlainKind
        /\ pass = PassOf(ast[cur].kind) /\ AllFound(cur) /\ ActualEffect
        /\ res' = [res EXCEPT ![cur] = Own] /\ res \in [Node -> Seq(MaybeDatum)]
        /\ actual \in [Datum -> MaybeDatum] /\ IsTree(ast)
    BY <1>3, AstAssumption DEF DealsWith, Effect, KeepNames, WalkInv, WalkTypes, DataInv, DataTypes
  <2>2. \A d : Declared(d)' <=> Declared(d)
    BY <2>1 DEF Declared, DeclaredIn
  <2>3. /\ DOMAIN Own = DOMAIN ast[cur].names
        /\ \A i \in DOMAIN Own : Own[i] \in Datum /\ Declared(Own[i])
    <3>1. Own = [i \in DOMAIN ast[cur].names |-> Lookup(ast[cur].names[i])]
      BY DEF Own, Names
    <3> QED
      BY <2>1, <3>1, OwnDeclared
  <2>4. ActualDeclared'
    <3>1. \A d \in Datum : actual[d] # NoDatum => Declared(actual[d])
      BY <2>1 DEF RefsSoFar, ActualDeclared
    <3>2. CASE actual' = actual
      BY <2>2, <3>1, <3>2 DEF ActualDeclared
    <3>3. CASE ast[cur].kind = "aliasactual" /\ actual' = [actual EXCEPT ![Target] = Own[2]]
      <4>1. Declared(Own[2])
        <5>1. Len(ast[cur].names) = 2 /\ ast[cur] \in TreeNode
          BY <2>1, <3>3 DEF IsTree, Node
        <5>2. 2 \in DOMAIN ast[cur].names
          BY <5>1 DEF TreeNode
        <5> QED
          BY <2>3, <5>2
      <4>2. \A d \in Datum : actual'[d] = actual[d] \/ actual'[d] = Own[2]
        BY <2>1, <3>3
      <4> QED
        BY <2>2, <3>1, <4>1, <4>2 DEF ActualDeclared
    <3>4. CASE \E a \in Datum : /\ actual[a] \in Datum
                                /\ actual' = [actual EXCEPT ![ast[cur].decl] = actual[a]]
      <4>1. PICK a \in Datum : /\ actual[a] \in Datum
                               /\ actual' = [actual EXCEPT ![ast[cur].decl] = actual[a]]
        BY <3>4
      <4>2. \A d \in Datum : actual'[d] = actual[d] \/ actual'[d] = actual[a]
        BY <2>1, <4>1
      <4> QED
        BY <2>2, <3>1, <4>1, <4>2, DatumAssumption DEF ActualDeclared
    <3> QED
      BY <2>1, <3>2, <3>3, <3>4 DEF ActualEffect
  <2>5. ASSUME NEW n \in Dealt \cup {cur}
        PROVE  AllFound(n)' /\ Whole(n)' /\ Current(n)'
    <3>1. n \in Node /\ (n \in Dealt => AllFound(n) /\ Whole(n) /\ Current(n))
      BY <2>1, DealtPass DEF RefsSoFar
    <3>2. res'[n] = IF n = cur THEN Own ELSE res[n]
      BY <2>1, <3>1
    <3>3. AllFound(n)'
      BY <2>1, <3>1, SameTree
    <3>4. Whole(n)'
      BY <2>1, <2>2, <2>3, <3>1, <3>2 DEF Whole
    <3>5. Current(n)'
      <4>1. SUFFICES ASSUME ast[n].kind \notin {"aliasactual", "call"} PROVE res'[n] = Names(n)'
        BY <2>1 DEF Current
      <4>2. Names(n)' = Names(n)
        BY <1>3, <4>1, NamesStay
      <4> QED
        BY <3>1, <3>2, <4>1, <4>2 DEF Own, Current
    <3> QED
      BY <3>3, <3>4, <3>5
  <2> QED
    BY <2>1, <2>4, <2>5
<1> QED
  BY <1>1, <1>2, <1>3, RoundStep

(* What an accepted policy holds does not change, and is what the last     *)
(* round has left.                                                         *)
LEMMA RefsAccepted ==
  ASSUME WalkInv, RefsInv, [Next]_vars, status' = "ok"
  PROVE  RefsCurrent'
<1>1. /\ ast' = ast /\ alive' = alive /\ actual' = actual /\ res' = res
      /\ status = "ok" \/ (Quiet /\ Dealt = {n \in alive : Resolved(n)})
  BY AcceptStep DEF data
<1>2. \A n : /\ AllFound(n)' <=> AllFound(n)
             /\ Resolved(n)' <=> Resolved(n)
             /\ Names(n)' = Names(n)
             /\ Declared(n)' <=> Declared(n)
  <2>1. \A name : Lookup(name)' = Lookup(name)
    BY <1>1, SameLookup
  <2> QED
    BY <1>1, <2>1, SameTree DEF Names, Declared, DeclaredIn
<1>3. ASSUME NEW n \in alive, Resolved(n), ast[n].kind \notin {"aliasactual", "call"}
      PROVE  /\ AllFound(n) /\ res[n] = Names(n)
             /\ \A i \in DOMAIN res[n] : res[n][i] \in Datum /\ Declared(res[n][i])
  <2>1. CASE status = "ok"
    BY <1>3, <2>1 DEF RefsInv, RefsCurrent
  <2>2. CASE Quiet /\ n \in Dealt
    BY <1>3, <2>2 DEF RefsInv, RefsSoFar, Whole, Current
  <2> QED
    BY <1>1, <1>3, <2>1, <2>2
<1> QED
  BY <1>1, <1>2, <1>3 DEF RefsCurrent

(* The invariant behind RefsTheorem                                         *)
LEMMA RefsInvariant == Spec => []RefsInv
<1>1. Init => RefsInv
  <2> SUFFICES ASSUME Init PROVE RefsInv
    OBVIOUS
  <2>1. ActualDeclared
    BY DEF Init, ActualDeclared
  <2>2. Dealt = {}
    BY NothingDealt
  <2> QED
    BY <2>1, <2>2 DEF Init, RefsInv, RefsSoFar, RefsCurrent
<1>2. WalkInv /\ DataInv /\ RefsInv /\ [Next]_vars => RefsInv'
  <2> SUFFICES ASSUME WalkInv, DataInv, RefsInv, [Next]_vars PROVE RefsInv'
    OBVIOUS
  <2>1. RefsSoFar'
    BY RefsStep DEF RefsInv, RefsSoFar
  <2>2. RefsCurrent'
    BY RefsAccepted DEF RefsCurrent
  <2> QED
    BY <2>1, <2>2 DEF RefsInv
<1> QED
  BY <1>1, <1>2, WalkInvariant, DataInvariant, PTL DEF Spec

(* Whatever the tree, in a policy that cil_resolve_ast accepts every       *)
(* statement holds what its names mean in the final tree: no reference to  *)
(* a datum that an optional took along is left from an earlier round.      *)
THEOREM RefsTheorem == Spec => []RefsCurrent
<1>1. RefsInv => RefsCurrent
  BY DEF RefsInv
<1> QED
  BY <1>1, RefsInvariant, PTL
-----------------------------------------------------------------------------
(* What statements attach *)

(* The statements that write a field do so in one pass, except for bounds. *)
LEMMA FieldPass ==
  ASSUME NEW k, NEW l, NEW f \in Field \ {"bounds"}, FieldOf(k) = f, FieldOf(l) = f
  PROVE  PassOf(k) = PassOf(l)
<1>1. ASSUME NEW m, FieldOf(m) = f
      PROVE  IF f \in {"cats", "common"} THEN m \in {"senscat", "classcommon"}
             ELSE m \in {"typeattributeset", "roleattributeset", "sidcontext", "userrole",
                         "userlevel", "userrange", "classpermissionset", "classmapping"}
  BY <1>1 DEF FieldOf, Field
<1>2. /\ \A m \in {"senscat", "classcommon"} : PassOf(m) = MISC2
      /\ \A m \in {"typeattributeset", "roleattributeset", "sidcontext", "userrole",
                    "userlevel", "userrange", "classpermissionset", "classmapping"} :
            PassOf(m) = MISC3
  BY DEF PassOf
<1> QED
  BY <1>1, <1>2

(* A later statement comes last. *)
LEMMA ListingAppend ==
  ASSUME NEW S \in SUBSET Nat, NEW s \in Seq(S), NEW W, Listing(s, W), NEW c \in S,
         \A n \in W : n < c
  PROVE  Listing(Append(s, c), W \cup {c})
<1>1. DOMAIN Append(s, c) = DOMAIN s \cup {Len(s) + 1} /\ DOMAIN s = 1..Len(s) /\ Len(s) \in Nat
  OBVIOUS
<1>2. /\ \A i \in DOMAIN s : Append(s, c)[i] = s[i] /\ s[i] \in W
      /\ Append(s, c)[Len(s) + 1] = c
  BY DEF Listing, ToSet
<1>3. ToSet(Append(s, c)) = W \cup {c}
  <2>1. ASSUME NEW x \in W PROVE x \in ToSet(Append(s, c))
    <3>1. PICK i \in DOMAIN s : s[i] = x
      BY DEF Listing, ToSet
    <3> QED
      BY <1>1, <1>2, <3>1 DEF ToSet
  <2> QED
    BY <1>1, <1>2, <2>1 DEF ToSet
<1>4. ASSUME NEW i \in DOMAIN Append(s, c), NEW j \in DOMAIN Append(s, c), i < j
      PROVE  Append(s, c)[i] < Append(s, c)[j]
  <2>1. i \in DOMAIN s
    BY <1>1, <1>4
  <2>2. CASE j \in DOMAIN s
    BY <1>2, <1>4, <2>1, <2>2 DEF Listing
  <2>3. CASE j = Len(s) + 1
    BY <1>2, <2>1, <2>3
  <2> QED
    BY <1>1, <2>2, <2>3
<1> QED
  BY <1>3, <1>4 DEF Listing

(* What the statement at hand writes. *)
LEMMA WritesOwn ==
  ASSUME NEW d \in Datum, NEW f \in Field, ast' = ast, res'[cur] = Own, NEW n, n = cur
  PROVE  Writes(n, d, f)' <=> FieldWritten(ast[cur].kind, Target) = f /\ Target = d
<1>1. f # "none" /\ FieldOf("aliasactual") = "none"
  BY DEF Field, FieldOf
<1> QED
  BY <1>1 DEF Writes, FieldWritten, Target

(* The field of a datum after the statement at hand. *)
LEMMA LinkUpdate ==
  ASSUME DataInv, cur \in Node, LinkEffect, NEW d \in Datum, NEW f \in Field
  PROVE  LET writes == FieldWritten(ast[cur].kind, Target) = f /\ Target = d
         IN  /\ ~ writes => link'[d][f] = link[d][f]
             /\ writes /\ f \in {"level", "range"} => link'[d][f] = <<cur>>
             /\ writes /\ f \notin {"level", "range"} => link'[d][f] = Append(link[d][f], cur)
             /\ writes /\ f = "bounds" => link[d][f] = <<>>
<1> DEFINE g == FieldWritten(ast[cur].kind, Target)
<1>1. link \in [Datum -> [Field -> Seq(Node)]] /\ f # "none"
  BY DEF DataInv, DataTypes, Field
<1>2. CASE g = "none"
  BY <1>1, <1>2 DEF LinkEffect
<1>3. CASE g \in {"level", "range"}
  <2>1. link' = [link EXCEPT ![Target][g] = <<cur>>]
    BY <1>3 DEF LinkEffect
  <2> QED
    BY <1>1, <1>3, <2>1
<1>4. CASE g \notin {"none", "level", "range"}
  <2>1. link' = [link EXCEPT ![Target][g] = Append(@, cur)] /\ (g = "bounds" => link[Target][g] = <<>>)
    BY <1>4 DEF LinkEffect
  <2> QED
    BY <1>1, <1>4, <2>1
<1> QED
  BY <1>2, <1>3, <1>4

(* Statements write a field in document order. *)
LEMMA WritersBefore ==
  ASSUME WalkInv, cur \in Node, pass = PassOf(ast[cur].kind), NEW d \in Datum,
         NEW f \in Field \ {"bounds"}, FieldWritten(ast[cur].kind, Target) = f,
         NEW n \in WritersSoFar(d, f)
  PROVE  n \in Node /\ n < cur
<1>1. n \in Dealt /\ FieldOf(ast[n].kind) = f
  BY DEF WritersSoFar, Writes
<1>2. FieldOf(ast[cur].kind) = f
  BY DEF FieldWritten, Field
<1>3. PassOf(ast[n].kind) = pass
  BY <1>1, <1>2, FieldPass
<1> QED
  BY <1>1, <1>3, DealtPass

(* The statement at hand has not been dealt with yet. *)
LEMMA CurNotDealt ==
  ASSUME WalkInv, cur \in Node, pass = PassOf(ast[cur].kind)
  PROVE  cur \notin Dealt
<1>1. cur \in Nat
  BY DEF WalkInv, WalkTypes
<1> QED
  BY <1>1, DealtPass

(* Every field carries what this round has dealt with.                     *)
LEMMA LinksStep ==
  ASSUME WalkInv, DataInv, LinksSoFar, [Next]_vars, Quiet',
         NEW d \in Datum, NEW f \in Field \ {"classperms"}
  PROVE  IF f \in {"level", "range"} THEN LastOf(link'[d][f], WritersSoFar(d, f)')
         ELSE Listing(link'[d][f], WritersSoFar(d, f)')
<1>1. CASE Started
  <2>1. WritersSoFar(d, f)' = {} /\ link'[d][f] = <<>>
    BY <1>1 DEF Started, ResetData, WritersSoFar
  <2> QED
    BY <2>1 DEF LastOf, Listing, ToSet
<1>2. CASE GoesOn
  <2>1. \A n : Writes(n, d, f)' <=> Writes(n, d, f)
    BY <1>2 DEF GoesOn, Writes
  <2>2. WritersSoFar(d, f)' = WritersSoFar(d, f) /\ link'[d][f] = link[d][f] /\ Quiet
    BY <1>2, <2>1 DEF GoesOn, WritersSoFar
  <2> QED
    BY <2>2 DEF LinksSoFar
<1>3. CASE DealsWith
  <2> DEFINE writes == FieldWritten(ast[cur].kind, Target) = f /\ Target = d
             W == WritersSoFar(d, f)
             s == link[d][f]
  <2>1. /\ Quiet /\ Dealt' = Dealt \cup {cur} /\ ast' = ast /\ cur \in Node
        /\ pass = PassOf(ast[cur].kind) /\ LinkEffect
        /\ res' = [res EXCEPT ![cur] = Own] /\ res \in [Node -> Seq(MaybeDatum)]
        /\ Node \subseteq Nat
    BY <1>3 DEF DealsWith, Effect, KeepNames, WalkInv, WalkTypes, DataInv, DataTypes, Node
  <2>2. /\ cur \notin Dealt
        /\ \A n \in Dealt : n \in Node /\ res'[n] = res[n]
        /\ res'[cur] = Own
    BY <2>1, CurNotDealt, DealtPass
  <2>3. WritersSoFar(d, f)' = IF writes THEN W \cup {cur} ELSE W
    <3>1. \A n : n = cur => (Writes(n, d, f)' <=> writes)
      BY <2>1, <2>2, WritesOwn
    <3>2. \A n \in Dealt : Writes(n, d, f)' <=> Writes(n, d, f)
      BY <2>1, <2>2 DEF Writes
    <3>3. WritersSoFar(d, f)' = {n \in Dealt \cup {cur} : Writes(n, d, f)'}
      BY <2>1 DEF WritersSoFar
    <3>4. CASE writes
      BY <2>2, <3>1, <3>2, <3>3, <3>4 DEF WritersSoFar
    <3>5. CASE ~ writes
      BY <2>2, <3>1, <3>2, <3>3, <3>5 DEF WritersSoFar
    <3> QED
      BY <3>4, <3>5
  <2>4. /\ f \in {"level", "range"} => LastOf(s, W)
        /\ f \notin {"level", "range"} => Listing(s, W)
    BY <2>1 DEF LinksSoFar
  <2>5. s \in Seq(Node)
    BY DEF DataInv, DataTypes
  <2>6. CASE ~ writes
    <3>1. link'[d][f] = s /\ WritersSoFar(d, f)' = W
      BY <2>1, <2>3, <2>6, LinkUpdate
    <3> QED
      BY <2>4, <3>1
  <2>7. CASE writes /\ f \in {"level", "range"}
    <3>1. link'[d][f] = <<cur>> /\ WritersSoFar(d, f)' = W \cup {cur}
      BY <2>1, <2>3, <2>7, LinkUpdate
    <3>2. \A n \in W : n \in Node /\ n < cur
      BY <2>1, <2>7, WritersBefore
    <3> HIDE DEF W
    <3>3. \A n \in W \cup {cur} : n <= cur
      <4>1. cur \in Nat /\ \A n \in W : n \in Nat /\ n < cur
        BY <2>1, <3>2
      <4> QED
        BY <4>1
    <3> QED
      BY <2>7, <3>1, <3>3 DEF LastOf
  <2>8. CASE writes /\ f \notin {"level", "range"}
    <3>1. link'[d][f] = Append(s, cur) /\ WritersSoFar(d, f)' = W \cup {cur}
      BY <2>1, <2>3, <2>8, LinkUpdate
    <3>2. \A n \in W : n < cur
      <4>1. CASE f # "bounds"
        BY <2>1, <2>8, <4>1, WritersBefore
      <4>2. CASE f = "bounds"
        <5>1. s = <<>>
          BY <2>1, <2>8, <4>2, LinkUpdate
        <5> QED
          BY <2>4, <2>8, <5>1 DEF Listing, ToSet
      <4> QED
        BY <4>1, <4>2
    <3>3. Listing(s, W)
      BY <2>4, <2>8
    <3> HIDE DEF W, s
    <3>4. Listing(Append(s, cur), W \cup {cur})
      BY <2>1, <2>5, <3>2, <3>3, ListingAppend
    <3> QED
      BY <2>8, <3>1, <3>4
  <2> QED
    BY <2>6, <2>7, <2>8
<1> QED
  BY <1>1, <1>2, <1>3, RoundStep

(* The attributes that are marked as used are those that rules name.       *)
LEMMA UsedStep ==
  ASSUME WalkInv, DataInv, UsedSoFar, [Next]_vars, Quiet'
  PROVE  used' = {d \in Datum : Flavor[d] = "attribute" /\ \E n \in Dealt' :
                    ast'[n].kind \in UsingKind /\ d \in ToSet(res'[n])}
<1>1. CASE Started
  BY <1>1 DEF Started, ResetData
<1>2. CASE GoesOn
  BY <1>2 DEF GoesOn, UsedSoFar
<1>3. CASE DealsWith
  <2>1. /\ Dealt' = Dealt \cup {cur} /\ ast' = ast /\ cur \in Node
        /\ pass = PassOf(ast[cur].kind) /\ UsedEffect
        /\ res' = [res EXCEPT ![cur] = Own] /\ res \in [Node -> Seq(MaybeDatum)]
        /\ used = {d \in Datum : Flavor[d] = "attribute" /\ \E n \in Dealt :
                     ast[n].kind \in UsingKind /\ d \in ToSet(res[n])}
    BY <1>3 DEF DealsWith, Effect, KeepNames, WalkInv, WalkTypes, DataInv, DataTypes, UsedSoFar
  <2>2. /\ \A n \in Dealt : res'[n] = res[n]
        /\ res'[cur] = Own
    BY <2>1, CurNotDealt, DealtPass
  <2>3. Attributes = {d \in Datum : Flavor[d] = "attribute" /\ d \in ToSet(Own)}
    <3>1. ToSet(Own) \subseteq MaybeDatum
      BY <1>3, OwnType, <2>1 DEF DealsWith, DataInv
    <3> QED
      BY <3>1, DatumAssumption DEF Attributes, MaybeDatum
  <2>4. CASE ast[cur].kind \in UsingKind
    <3>1. used' = used \cup Attributes
      BY <2>1, <2>4 DEF UsedEffect
    <3> QED
      BY <2>1, <2>2, <2>3, <2>4, <3>1
  <2>5. CASE ast[cur].kind \notin UsingKind
    <3>1. used' = used
      BY <2>1, <2>5 DEF UsedEffect
    <3> QED
      BY <2>1, <2>2, <2>5, <3>1
  <2> QED
    BY <2>4, <2>5
<1> QED
  BY <1>1, <1>2, <1>3, RoundStep

(* What an accepted policy carries does not change, and is what the last   *)
(* round has left.                                                         *)
LEMMA LinksAccepted ==
  ASSUME WalkInv, LinksInv, [Next]_vars, status' = "ok"
  PROVE  LinksExact'
<1>1. /\ ast' = ast /\ alive' = alive /\ link' = link /\ res' = res /\ used' = used
      /\ status = "ok" \/ (Quiet /\ Dealt = {n \in alive : Resolved(n)})
  BY AcceptStep DEF data
<1>2. /\ \A n : Resolved(n)' <=> Resolved(n)
      /\ \A n, d, f : Writes(n, d, f)' <=> Writes(n, d, f)
      /\ \A d : Declared(d)' <=> Declared(d)
  BY <1>1, SameTree DEF Writes, Declared, DeclaredIn
<1>3. \A d, f : Carries(d, f)' <=> Carries(d, f)
  <2>1. SUFFICES ASSUME NEW d, NEW f PROVE Carries(d, f)' <=> Carries(d, f)
    OBVIOUS
  <2>2. {n \in alive : Resolved(n) /\ Writes(n, d, f)}'
          = {n \in alive : Resolved(n) /\ Writes(n, d, f)}
    BY <1>1, <1>2
  <2> QED
    BY <1>1, <2>2 DEF Carries
<1>4. CASE status = "ok"
  <2>1. LinksExact
    BY DEF LinksInv
  <2> QED
    BY <1>1, <1>2, <1>3, <1>4, <2>1 DEF LinksExact
<1>5. CASE Quiet /\ Dealt = {n \in alive : Resolved(n)}
  <2>1. ASSUME NEW d \in Datum, NEW f \in Field \ {"classperms"} PROVE Carries(d, f)
    <3>1. WritersSoFar(d, f) = {n \in alive : Resolved(n) /\ Writes(n, d, f)}
      BY <1>5 DEF WritersSoFar
    <3> QED
      BY <1>5, <3>1 DEF LinksInv, LinksSoFar, Carries
  <2>2. used = {d \in Datum : Flavor[d] = "attribute" /\ \E n \in alive :
                  Resolved(n) /\ ast[n].kind \in UsingKind /\ d \in ToSet(res[n])}
    BY <1>5 DEF LinksInv, UsedSoFar
  <2> QED
    BY <1>1, <1>2, <1>3, <2>1, <2>2 DEF LinksExact
<1> QED
  BY <1>1, <1>4, <1>5

(* The invariant behind LinksTheorem                                        *)
LEMMA LinksInvariant == Spec => []LinksInv
<1>1. Init => LinksInv
  <2> SUFFICES ASSUME Init PROVE LinksInv
    OBVIOUS
  <2>1. Dealt = {}
    BY NothingDealt
  <2>2. LinksSoFar
    <3>1. \A d \in Datum, f \in Field : WritersSoFar(d, f) = {} /\ link[d][f] = <<>>
      BY <2>1 DEF WritersSoFar, Init, NoLinks
    <3> QED
      BY <3>1 DEF LinksSoFar, LastOf, Listing, ToSet
  <2> QED
    BY <2>1, <2>2 DEF Init, LinksInv, UsedSoFar, LinksExact
<1>2. WalkInv /\ DataInv /\ LinksInv /\ [Next]_vars => LinksInv'
  <2> SUFFICES ASSUME WalkInv, DataInv, LinksInv, [Next]_vars PROVE LinksInv'
    OBVIOUS
  <2>1. LinksSoFar'
    BY LinksStep DEF LinksInv, LinksSoFar
  <2>2. UsedSoFar'
    BY UsedStep DEF LinksInv, UsedSoFar
  <2>3. LinksExact'
    BY LinksAccepted DEF LinksExact
  <2> QED
    BY <2>1, <2>2, <2>3 DEF LinksInv
<1> QED
  BY <1>1, <1>2, WalkInvariant, DataInvariant, PTL DEF Spec

(* Whatever the tree, in an accepted policy the fields of the data carry   *)
(* exactly what the statements of the final tree say, once each and in     *)
(* document order, and the attributes marked as used are those its rules   *)
(* name: cil_reset_ast undoes a round of resolution completely.            *)
THEOREM LinksTheorem == Spec => []LinksExact
<1>1. LinksInv => LinksExact
  BY DEF LinksInv
<1> QED
  BY <1>1, LinksInvariant, PTL

-----------------------------------------------------------------------------
(***************************************************************************)
(* Last, what resolution makes of optionals: it takes only the steps that  *)
(* CilOptionals allows, and what it accepts has the largest set of         *)
(* optionals that can be enabled together.                                 *)
(***************************************************************************)
(* n is a statement of p that lacks a name *)
Misses(p, n) == p \in Optional /\ IsInnermost(p, n) /\ n \in Node /\ Resolved(n) /\ ~ AllFound(n)

(* What is disabled has been disabled by a statement that lacks a name,    *)
(* and goes on to lack it                                                  *)
DisabledLacks ==
  \A d \in disabled : \E p \in Optional, n \in Node : ast[p].decl = d /\ Misses(p, n)

(* What is destroyed was in a disabled optional *)
DeadDisabled == \A n \in Node \ alive : \E o \in Around(n) : ast[o].decl \in disabled

(* The walk opens no optional of a macro or an abstract block *)
StackWalked == \A i \in DOMAIN optstack : ~ Template(optstack[i])

(* A disabled optional still has something in it *)
Outstanding(o) == ast[o].decl \in disabled /\ ~ Template(o) /\ Below(o) \cap alive # {}

(* The walk will come to it, or will destroy another one first *)
Pending(o) == \/ cur <= o
              \/ \E i \in DOMAIN optstack : ast[optstack[i]].decl \in disabled

(* As long as nothing was destroyed in this round, there will be a change  *)
(* if a disabled optional still has something in it                        *)
DisabledGone ==
  ~ changed /\ status \in {"walk", "orders", "endpass"} =>
    \A o \in Optional : Outstanding(o) => Pending(o)

(* Nothing is left in a disabled optional of an accepted policy *)
AcceptedWhole == status = "ok" => \A o \in Optional : ~ Outstanding(o)

OptionalInv == /\ DisabledLacks /\ DeadDisabled /\ StackWalked
               /\ DisabledGone /\ AcceptedWhole
-----------------------------------------------------------------------------
(* Whatever a step does, the tree keeps its shape, what is destroyed stays *)
(* destroyed and what is disabled stays disabled.                          *)
LEMMA StepShape ==
  ASSUME [Next]_vars
  PROVE  /\ ast' = ast /\ alive' \subseteq alive /\ disabled \subseteq disabled'
         /\ LeaveOptional \/ alive' = alive
         /\ DisableOptional \/ disabled' = disabled
<1>1. CASE ResolveStatement
  BY <1>1, HandlerShape DEF Handled, tree
<1>2. CASE LeaveOptional
  BY <1>2 DEF LeaveOptional
<1>3. CASE ~ ResolveStatement /\ ~ LeaveOptional
  BY <1>3 DEF Next, PassOver, SkipSubtree, PassBy, DisableOptional, FailMissing,
       EndWalk, MergeOrders, Restart, NextPass, Finish, Done, vars, tree
<1> QED
  BY <1>1, <1>2, <1>3

(* What the shape of the tree says does not change.                        *)
LEMMA SameAst ==
  ASSUME ast' = ast
  PROVE  /\ Node' = Node /\ Optional' = Optional
         /\ \A n : /\ Below(n)' = Below(n) /\ Around(n)' = Around(n)
                   /\ Resolved(n)' <=> Resolved(n)
                   /\ Template(n)' <=> Template(n)
         /\ \A o, n : IsInnermost(o, n)' <=> IsInnermost(o, n)
<1>1. Node' = Node /\ Optional' = Optional /\ \A n : Below(n)' = Below(n)
  BY DEF Node, Optional, Below
<1>2. \A n : Around(n)' = Around(n)
  BY <1>1 DEF Around
<1>3. \A n : (Resolved(n)' <=> Resolved(n)) /\ (Template(n)' <=> Template(n))
  BY <1>1 DEF Resolved, Template
<1>4. \A o, n : IsInnermost(o, n)' <=> IsInnermost(o, n)
  BY <1>2 DEF IsInnermost
<1> QED
  BY <1>1, <1>2, <1>3, <1>4

(* A statement that lacks a name goes on to lack it.                       *)
LEMMA MissesStays ==
  ASSUME [Next]_vars, NEW p, NEW n, Misses(p, n)
  PROVE  Misses(p, n)'
<1>1. ast' = ast /\ alive' \subseteq alive
  BY StepShape
<1>2. AllFound(n)' => AllFound(n)
  BY <1>1 DEF AllFound, AllFoundIn, FoundIn, DeclaredIn
<1> QED
  BY <1>1, <1>2, SameAst DEF Misses

(* Every disabled datum has a statement that lacks a name.                 *)
LEMMA LacksStep == WalkInv /\ DisabledLacks /\ [Next]_vars => DisabledLacks'
<1> SUFFICES ASSUME WalkInv, DisabledLacks, [Next]_vars, NEW d \in disabled'
             PROVE  \E p \in Optional', n \in Node' : ast'[p].decl = d /\ Misses(p, n)'
  BY DEF DisabledLacks
<1>1. ast' = ast /\ Node' = Node /\ Optional' = Optional
  BY StepShape, SameAst
<1>2. CASE d \in disabled
  BY <1>1, <1>2, MissesStays DEF DisabledLacks
<1>3. CASE d \notin disabled
  <2> DEFINE o == Head(optstack)
  <2>1. DisableOptional
    BY <1>3, StepShape
  <2>2. /\ AtNode /\ ast[cur].kind \notin PlainKind /\ ~ AllFound(cur) /\ optstack # <<>>
        /\ disabled' = disabled \cup {ast[o].decl}
    BY <2>1 DEF DisableOptional, AtStatement
  <2>3. IsInnermost(o, cur) /\ o \in Optional /\ Resolved(cur)
    BY <2>2, HeadIsInnermost, AtResolved
  <2>4. cur \in Node
    BY <2>2 DEF AtNode, WalkInv, WalkTypes
  <2>5. Misses(o, cur) /\ ast[o].decl = d
    BY <1>3, <2>2, <2>3, <2>4 DEF Misses
  <2> QED
    BY <1>1, <2>3, <2>4, <2>5, MissesStays
<1> QED
  BY <1>2, <1>3

(* Only what is in a disabled optional is destroyed.                       *)
LEMMA DeadStep == WalkInv /\ DeadDisabled /\ [Next]_vars => DeadDisabled'
<1> SUFFICES ASSUME WalkInv, DeadDisabled, [Next]_vars, NEW n \in Node', n \notin alive'
             PROVE  \E o \in Around(n)' : ast'[o].decl \in disabled'
  BY DEF DeadDisabled
<1>1. /\ ast' = ast /\ disabled \subseteq disabled' /\ n \in Node
      /\ Around(n)' = Around(n)
  BY StepShape, SameAst
<1>2. CASE n \notin alive
  BY <1>1, <1>2 DEF DeadDisabled
<1>3. CASE n \in alive
  <2> DEFINE o == Head(optstack)
  <2>1. LeaveOptional
    BY <1>3, StepShape
  <2>2. optstack # <<>> /\ ast[o].decl \in disabled /\ n \in Below(o)
    BY <1>3, <2>1 DEF LeaveOptional, OptionalEnded
  <2>3. o \in Optional
    BY <2>2, Pop DEF WalkInv, WalkTypes
  <2> QED
    BY <1>1, <2>2, <2>3 DEF Around
<1> QED
  BY <1>2, <1>3

(* An optional is pushed when the walk comes to it, and the walk does not  *)
(* come to what is below a skipped node.                                   *)
LEMMA WalkedStep == WalkInv /\ StackWalked /\ [Next]_vars => StackWalked'
<1> SUFFICES ASSUME WalkInv, StackWalked, [Next]_vars PROVE StackWalked'
  OBVIOUS
<1>1. Nested /\ WalkTypes /\ \A n : Template(n)' <=> Template(n)
  BY TreeNested, StepShape, SameAst DEF WalkInv, WalkTypes
<1>2. CASE optstack' = optstack
  BY <1>1, <1>2 DEF StackWalked
<1>3. CASE AtNode /\ optstack' = <<cur>> \o optstack
  <2>1. cur \in Node /\ cur \in alive
    BY <1>1, <1>3 DEF AtNode, WalkTypes
  <2>2. ~ Template(cur)
    BY <1>1, <2>1 DEF Template, WalkInv, SkipComplete, Below, Node, Nested
  <2>3. CASE cur \in Optional
    BY <1>1, <1>3, <2>2, <2>3, Push DEF StackWalked, WalkTypes
  <2>4. CASE cur \notin Optional
    <3>1. optstack \in Seq(Node) /\ cur \in Node
      BY <1>1, <2>1 DEF WalkTypes, Optional
    <3> QED
      BY <1>1, <1>3, <2>2, <3>1, Push DEF StackWalked
  <2> QED
    BY <2>3, <2>4
<1>4. CASE optstack' = <<>>
  BY <1>4 DEF StackWalked
<1>5. CASE optstack # <<>> /\ optstack' = Tail(optstack)
  BY <1>1, <1>5, Pop DEF StackWalked, WalkTypes
<1>6. CASE ResolveStatement
  <2>1. Handled
    BY <1>6, HandlerShape
  <2> QED
    BY <1>2, <1>3, <2>1 DEF Handled, Advance
<1>7. CASE LeaveOptional
  BY <1>5, <1>7 DEF LeaveOptional, OptionalEnded
<1>8. CASE PassBy \/ DisableOptional
  BY <1>2, <1>3, <1>8 DEF PassBy, DisableOptional, AtStatement, Advance
<1>9. CASE Restart
  BY <1>2, <1>4, <1>9 DEF Restart, Stop
<1>10. CASE \/ PassOver \/ SkipSubtree \/ FailMissing \/ EndWalk \/ MergeOrders
            \/ NextPass \/ Finish \/ UNCHANGED vars
  BY <1>2, <1>4, <1>10 DEF PassOver, SkipSubtree, FailMissing, EndWalk, MergeOrders,
       NextPass, Finish, Stop, vars, walk
<1> QED
  BY <1>6, <1>7, <1>8, <1>9, <1>10 DEF Next, Done

(* Going on to the next node opens an optional that has something left.    *)
LEMMA AdvanceGone ==
  ASSUME WalkInv, DisabledGone, AtNode, Advance, UNCHANGED <<ast, alive>>,
         \/ disabled' = disabled
         \/ optstack # <<>> /\ disabled' = disabled \cup {ast[Head(optstack)].decl}
  PROVE  DisabledGone'
<1>1. /\ Nested /\ WalkTypes /\ cur \in Node /\ cur \in alive
      /\ \A n : Below(n)' = Below(n) /\ (Template(n)' <=> Template(n))
      /\ Optional' = Optional
      /\ ast' = ast /\ alive' = alive
  BY TreeNested, SameAst DEF WalkInv, WalkTypes, AtNode
<1>2. cur' = cur + 1 /\ UNCHANGED <<status, pass, changed>> /\ status = "walk"
  BY DEF Advance, AtNode
<1>3. \A i \in DOMAIN optstack : \E j \in DOMAIN optstack' : optstack'[j] = optstack[i]
  <2>1. CASE optstack' = optstack
    BY <2>1
  <2>2. CASE cur \in Optional /\ optstack' = <<cur>> \o optstack
    <3>1. \A i \in DOMAIN optstack :
             i + 1 \in DOMAIN optstack' /\ optstack'[i + 1] = optstack[i]
      BY <1>1, <2>2, Push DEF WalkTypes
    <3> QED
      BY <3>1
  <2> QED
    BY <1>1, <2>1, <2>2 DEF Advance, Optional
<1>4. SUFFICES ASSUME ~ changed, NEW o \in Optional, Outstanding(o)'
               PROVE  Pending(o)'
  BY <1>1, <1>2 DEF DisabledGone
<1>5. ASSUME NEW i \in DOMAIN optstack, ast[optstack[i]].decl \in disabled'
      PROVE  Pending(o)'
  BY <1>3, <1>5 DEF Pending
<1>6. CASE ast[o].decl \notin disabled
  <2>1. optstack # <<>> /\ ast[Head(optstack)].decl \in disabled'
    BY <1>4, <1>6 DEF Outstanding
  <2>2. 1 \in DOMAIN optstack /\ Head(optstack) = optstack[1]
    BY <1>1, <2>1, Pop DEF WalkTypes
  <2> QED
    BY <1>5, <2>1, <2>2
<1>7. CASE ast[o].decl \in disabled
  <2>1. Outstanding(o)
    BY <1>1, <1>4, <1>7 DEF Outstanding
  <2>2. Pending(o)
    BY <1>2, <1>4, <2>1 DEF DisabledGone
  <2>3. CASE \E i \in DOMAIN optstack : ast[optstack[i]].decl \in disabled
    BY <1>5, <2>3
  <2>4. CASE cur < o
    BY <1>1, <1>2, <2>4 DEF Pending, Optional, Node, Nested
  <2>5. CASE cur = o
    <3>1. optstack' = <<cur>> \o optstack
      BY <2>1, <2>5 DEF Advance, Optional, Outstanding
    <3>2. 1 \in DOMAIN optstack' /\ optstack'[1] = cur
      BY <1>1, <2>5, <3>1, Push DEF WalkTypes
    <3> QED
      BY <1>7, <2>5, <3>2 DEF Pending
  <2> QED
    BY <1>1, <2>2, <2>3, <2>4, <2>5 DEF Pending, Optional, Node, Nested
<1> QED
  BY <1>6, <1>7

(* Steps that leave the tree and the stack alone and go past no optional   *)
(* that has something left in it.                                          *)
LEMMA QuietGone ==
  ASSUME DisabledGone, AcceptedWhole, UNCHANGED <<tree, optstack>>,
         status' \in {"walk", "orders", "endpass"} =>
           /\ status \in {"walk", "orders", "endpass"} /\ changed' = changed
           /\ \A o \in Optional : Outstanding(o) /\ cur <= o => cur' <= o,
         status' = "ok" => status = "ok"
  PROVE  DisabledGone' /\ AcceptedWhole'
<1>1. ast' = ast /\ alive' = alive /\ disabled' = disabled /\ optstack' = optstack
  BY DEF tree
<1>2. Optional' = Optional /\ \A o : Outstanding(o)' <=> Outstanding(o)
  BY <1>1, SameAst DEF Outstanding
<1> QED
  BY <1>1, <1>2 DEF DisabledGone, AcceptedWhole, Pending

(* At the end of the last pass nothing is left in a disabled optional.     *)
LEMMA GoneStep ==
  WalkInv /\ StackWalked /\ DisabledGone /\ AcceptedWhole /\ [Next]_vars
    => DisabledGone' /\ AcceptedWhole'
<1> SUFFICES ASSUME WalkInv, StackWalked, DisabledGone, AcceptedWhole, [Next]_vars
             PROVE  DisabledGone' /\ AcceptedWhole'
  OBVIOUS
<1>1. Nested /\ WalkTypes /\ PassEnded /\ AliveClosed
  BY TreeNested DEF WalkInv, WalkTypes
<1>2. ASSUME AtNode, Advance, UNCHANGED <<ast, alive>>,
             \/ disabled' = disabled
             \/ optstack # <<>> /\ disabled' = disabled \cup {ast[Head(optstack)].decl}
      PROVE  DisabledGone' /\ AcceptedWhole'
  <2>1. status' = "walk"
    BY <1>2 DEF Advance, AtNode
  <2> QED
    BY <1>2, <2>1, AdvanceGone DEF AcceptedWhole
<1>3. CASE PassOver
  <2>1. /\ UNCHANGED <<tree, status, pass, optstack, changed>> /\ status = "walk"
        /\ cur \in Node /\ cur \notin alive /\ cur' = cur + 1
    BY <1>3 DEF PassOver
  <2>2. Below(cur) \cap alive = {}
    BY <1>1, <2>1 DEF AliveClosed
  <2>3. ASSUME NEW o \in Optional, Outstanding(o), cur <= o PROVE cur' <= o
    BY <1>1, <2>1, <2>2, <2>3 DEF Outstanding, Optional, Node, Nested
  <2> QED
    BY <2>1, <2>3, QuietGone
<1>4. CASE SkipSubtree
  <2>1. /\ UNCHANGED <<tree, status, pass, optstack, changed>> /\ status = "walk"
        /\ cur \in Node /\ cur' = ast[cur].last + 1 /\ ast[cur].kind \in SkippedKind
    BY <1>1, <1>4 DEF SkipSubtree, AtNode, WalkTypes
  <2>2. ASSUME NEW o \in Optional, Outstanding(o), cur <= o PROVE cur' <= o
    <3>1. o # cur
      BY <2>1 DEF Optional, SkippedKind
    <3>2. o \notin Below(cur)
      BY <2>1, <2>2 DEF Outstanding, Template
    <3> QED
      BY <1>1, <2>1, <2>2, <3>1, <3>2 DEF Below, Optional, Node, Nested
  <2> QED
    BY <2>1, <2>2, QuietGone
<1>5. CASE PassBy
  BY <1>2, <1>5 DEF PassBy, tree
<1>6. CASE DisableOptional
  BY <1>2, <1>6 DEF DisableOptional, AtStatement
<1>7. CASE FailMissing
  BY <1>7, QuietGone DEF FailMissing, Stop
<1>8. CASE ResolveStatement
  <2>1. Handled
    BY <1>8, HandlerShape
  <2>2. CASE Advance
    BY <1>2, <2>1, <2>2 DEF Handled, tree
  <2>3. CASE status' \in {"err", "undefined"} /\ UNCHANGED <<pass, cur, optstack, changed>>
    BY <2>1, <2>3, QuietGone DEF Handled
  <2> QED
    BY <2>1, <2>2, <2>3 DEF Handled
<1>9. CASE LeaveOptional
  <2> DEFINE o == Head(optstack)
  <2>1. /\ UNCHANGED <<ast, disabled, status, pass, cur>> /\ status = "walk"
        /\ optstack # <<>> /\ optstack' = Tail(optstack)
        /\ \/ changed'
           \/ ast[o].decl \notin disabled /\ UNCHANGED <<alive, changed>>
    BY <1>9 DEF LeaveOptional, OptionalEnded
  <2>2. CASE changed'
    BY <2>1, <2>2 DEF DisabledGone, AcceptedWhole
  <2>3. CASE ast[o].decl \notin disabled /\ UNCHANGED <<alive, changed>>
    <3>1. SUFFICES ASSUME ~ changed, NEW p \in Optional, Outstanding(p) PROVE Pending(p)'
      <4>1. Optional' = Optional /\ \A p : Outstanding(p)' <=> Outstanding(p)
        BY <2>1, <2>3, SameAst DEF Outstanding
      <4> QED
        BY <2>1, <2>3, <4>1 DEF DisabledGone, AcceptedWhole
    <3>2. Pending(p)
      BY <2>1, <3>1 DEF DisabledGone
    <3>3. CASE cur <= p
      BY <2>1, <3>3 DEF Pending
    <3>4. ASSUME NEW i \in DOMAIN optstack, ast[optstack[i]].decl \in disabled
          PROVE  Pending(p)'
      <4>1. i - 1 \in DOMAIN optstack' /\ optstack'[i - 1] = optstack[i]
        BY <1>1, <2>1, <2>3, <3>4, Pop DEF WalkTypes
      <4> QED
        BY <2>1, <3>4, <4>1 DEF Pending
    <3> QED
      BY <3>2, <3>3, <3>4 DEF Pending
  <2> QED
    BY <2>1, <2>2, <2>3
<1>10. CASE EndWalk
  BY <1>10, QuietGone DEF EndWalk
<1>11. CASE MergeOrders
  <2>1. /\ status' \in {"undefined", "endpass", "err"} /\ status = "orders"
        /\ UNCHANGED <<tree, pass, cur, optstack, changed>>
    BY <1>11 DEF MergeOrders
  <2> QED
    BY <2>1, QuietGone
<1>12. CASE Restart \/ NextPass
  <2>1. CASE Stop("undefined")
    BY <1>12, <2>1, QuietGone DEF Restart, NextPass, Stop
  <2>2. CASE status' = "walk" /\ cur' = 1
    <3>1. ast' = ast
      BY <1>12 DEF Restart, NextPass, tree
    <3>2. \A p \in Optional : 1 <= p
      BY <1>1 DEF Optional, Node, Nested
    <3> QED
      BY <2>2, <3>1, <3>2, SameAst DEF DisabledGone, AcceptedWhole, Pending
  <2> QED
    BY <1>12, <2>1, <2>2 DEF Restart, NextPass
<1>13. CASE Finish
  <2>1. /\ status' \in {"undefined", "err", "ok"} /\ status = "endpass" /\ ~ changed
        /\ ast' = ast /\ alive' = alive /\ disabled' = disabled
        /\ optstack = <<>> /\ cur = Len(ast) + 1
    BY <1>1, <1>13 DEF Finish, tree, PassEnded
  <2>2. ASSUME NEW o \in Optional PROVE ~ Outstanding(o)
    <3>1. ~ Pending(o)
      BY <1>1, <2>1 DEF Pending, Optional, Node, Nested
    <3> QED
      BY <2>1, <3>1 DEF DisabledGone
  <2>3. \A o \in Optional' : ~ Outstanding(o)'
    BY <2>1, <2>2, SameAst DEF Outstanding
  <2> QED
    BY <2>1, <2>3 DEF DisabledGone, AcceptedWhole
<1>14. CASE UNCHANGED vars
  BY <1>14, QuietGone DEF vars, walk
<1> QED
  BY <1>3, <1>4, <1>5, <1>6, <1>7, <1>8, <1>9, <1>10, <1>11, <1>12, <1>13, <1>14
  DEF Next, Done

(* The invariant about optionals holds throughout.                         *)
LEMMA OptionalInvariant == Spec => []OptionalInv
<1>1. Init => OptionalInv
  <2> SUFFICES ASSUME Init PROVE OptionalInv
    OBVIOUS
  <2>1. StackWalked
    BY DEF Init, StackWalked
  <2> QED
    BY <2>1 DEF Init, OptionalInv, DisabledLacks, DeadDisabled, DisabledGone, AcceptedWhole,
         Outstanding
<1>2. WalkInv /\ OptionalInv /\ [Next]_vars => OptionalInv'
  BY LacksStep, DeadStep, WalkedStep, GoneStep DEF OptionalInv
<1> QED
  BY <1>1, <1>2, WalkInvariant, PTL DEF Spec
-----------------------------------------------------------------------------
(* The refinement of CilOptionals *)

(* What CilImplements reads off the tree is what CilResolve says of it.    *)
LEMMA ReadOff ==
  ASSUME ast \in Ast
  PROVE  /\ NodesIn(ast) = Node
         /\ \A n : /\ BodyIn(ast, n) = Below(n)
                   /\ TemplateIn(ast, n) <=> Template(n)
                   /\ ResolvedIn(ast, n) <=> Resolved(n)
         /\ OptionalsIn(ast) = {o \in Optional : ~ Template(o)}
<1>1. DOMAIN ast = Node
  BY AstAssumption DEF IsTree, Node
<1>2. \A n : BodyIn(ast, n) = Below(n)
  BY DEF BodyIn, Below
<1>3. \A n : TemplateIn(ast, n) <=> Template(n)
  BY <1>1, <1>2 DEF TemplateIn, Template
<1>4. \A n : ResolvedIn(ast, n) <=> Resolved(n)
  BY <1>3 DEF ResolvedIn, Resolved, Template
<1> QED
  BY <1>1, <1>2, <1>3, <1>4 DEF NodesIn, OptionalsIn, Optional

(* What is around a resolved statement is no template.                     *)
LEMMA ResolvedOutside ==
  ASSUME Nested, NEW n \in Node, Resolved(n), NEW o \in Around(n)
  PROVE  ~ Template(o)
<1> SUFFICES ASSUME NEW s \in Node, o \in Below(s), ast[s].kind \in SkippedKind
             PROVE  FALSE
  BY DEF Template
<1>1. o \in Node /\ n \in Below(o)
  BY DEF Around, Optional
<1>2. n \in Below(s)
  BY <1>1, BelowTransitive
<1> QED
  BY <1>2 DEF Resolved

(* A name that is found is one that a statement left declares.             *)
LEMMA FoundSatisfied ==
  ASSUME ast \in Ast, alive \subseteq Node, NEW n \in Node, Resolved(n)
  PROVE  /\ n \in alive /\ AllFound(n) => Abstract!Satisfied(n)
         /\ Abstract!Satisfied(n) => AllFound(n)
<1>1. /\ DOMAIN ast = Node /\ ast[n].names \in Seq(NameRef)
      /\ \A i \in DOMAIN ast[n].names : ast[n].names[i].scopes \in Seq(Datum)
  <2>1. ast \in Seq(TreeNode)
    BY AstAssumption DEF IsTree
  <2>2. DOMAIN ast = Node /\ ast[n] \in TreeNode
    BY <2>1 DEF Node
  <2>3. ast[n].names \in Seq(NameRef)
    BY <2>2 DEF TreeNode
  <2>4. \A i \in DOMAIN ast[n].names : ast[n].names[i] \in NameRef
    BY <2>3
  <2> QED
    BY <2>2, <2>3, <2>4 DEF NameRef
<1>2. NeedsIn(ast, n) = {Declaring(ast, ast[n].names[i]) : i \in DOMAIN ast[n].names}
  BY <1>1, ReadOff DEF NeedsIn, ToSet
<1>3. ASSUME NEW i \in DOMAIN ast[n].names, ast[n].names[i].call = 0
      PROVE  FoundIn(ast[n].names[i], alive)
               <=> Declaring(ast, ast[n].names[i]) \cap alive # {}
  BY <1>1, <1>3 DEF FoundIn, Declaring, DeclaredIn, ToSet
<1>4. ASSUME NEW i \in DOMAIN ast[n].names, ast[n].names[i].call # 0
      PROVE  /\ FoundIn(ast[n].names[i], alive)
             /\ n \in alive => Declaring(ast, ast[n].names[i]) \cap alive # {}
  BY <1>1, <1>4 DEF FoundIn, Declaring
<1> QED
  BY <1>2, <1>3, <1>4 DEF Abstract!Satisfied, AllFound, AllFoundIn

(* A statement that decides over an optional, in the terms of CilResolve.  *)
LEMMA OwnInnermost ==
  ASSUME ast \in Ast, NEW p \in Optional, ~ Template(p), NEW n
  PROVE  n \in OwnIn(ast, p) <=> n \in Node /\ Resolved(n) /\ IsInnermost(p, n)
<1>1. Nested
  BY TreeNested
<1>2. n \in Below(p) => n \in Node
  BY <1>1 DEF Nested, Optional, Node, Below
<1>3. ASSUME n \in Node, Resolved(n) PROVE \A q \in Optional : n \in Below(q) => ~ Template(q)
  BY <1>1, <1>3, ResolvedOutside DEF Around
<1> QED
  BY <1>2, <1>3, ReadOff DEF OwnIn, IsInnermost, Around

(* A disabled optional has, or had, a statement that lacks a name.         *)
LEMMA DisabledLacking ==
  ASSUME WalkInv, OptionalInv, NEW o \in Optional, ast[o].decl \in disabled
  PROVE  Abstract!Lacking(o)
<1>1. ast \in Ast /\ alive \subseteq Node /\ Nested
  BY TreeNested DEF WalkInv, WalkTypes
<1>2. PICK p \in Optional, n \in Node : ast[p].decl = ast[o].decl /\ Misses(p, n)
  BY DEF OptionalInv, DisabledLacks
<1>3. Resolved(n) /\ ~ AllFound(n) /\ IsInnermost(p, n) /\ ~ Template(p)
  BY <1>1, <1>2, ResolvedOutside DEF Misses, IsInnermost
<1>4. n \in OwnIn(ast, p) /\ ~ Abstract!Satisfied(n)
  BY <1>1, <1>3, OwnInnermost, FoundSatisfied
<1>5. p \in TwinsIn(ast, o)
  BY <1>1, <1>2, <1>3, ReadOff DEF TwinsIn
<1> QED
  BY <1>4, <1>5 DEF Abstract!Lacking, Abstract!Lacks

(* What is left when the last pass has ended may be accepted.              *)
LEMMA AcceptsRightly ==
  ASSUME WalkInv, DeadDisabled, NEW o \in Optional, ~ Template(o),
         \A n \in alive : Resolved(n) => AllFound(n),
         \A q \in Optional : ~ Outstanding(q),
         NEW p \in TwinsIn(ast, o) \cap alive, Abstract!Lacks(p)
  PROVE  Below(o) \cap alive = {}
<1>1. ast \in Ast /\ alive \subseteq Node /\ Nested
  BY TreeNested DEF WalkInv, WalkTypes
<1>2. p \in Optional /\ ~ Template(p) /\ ast[p].decl = ast[o].decl
  BY <1>1, ReadOff DEF TwinsIn
<1>3. PICK n \in OwnIn(ast, p) : ~ Abstract!Satisfied(n)
  BY DEF Abstract!Lacks
<1>4. n \in Node /\ Resolved(n) /\ IsInnermost(p, n)
  BY <1>1, <1>2, OwnInnermost
<1>5. n \notin alive
  BY <1>1, <1>3, <1>4, FoundSatisfied
<1>6. PICK q \in Around(n) : ast[q].decl \in disabled
  BY <1>4, <1>5 DEF DeadDisabled
<1>7. q \in Optional /\ n \in Below(q) /\ n \in Below(p) /\ q <= p /\ ~ Template(q)
  BY <1>1, <1>4, ResolvedOutside DEF IsInnermost, Around
<1>8. q = p
  <2>1. SUFFICES ASSUME q # p PROVE p \in Below(q)
    BY <1>6, <1>7 DEF Outstanding
  <2> QED
    BY <1>1, <1>2, <1>7, <2>1 DEF Below, Optional, Node, Nested
<1> QED
  BY <1>2, <1>6, <1>8 DEF Outstanding

(* A step before the verdict is taken before the verdict.                  *)
LEMMA OpenStep ==
  ASSUME Next
  PROVE  \/ Done
         \/ /\ status \notin Terminal
            /\ \/ UNCHANGED alive
               \/ LeaveOptional /\ status' = status
            /\ \/ Finish /\ status' = "ok"
               \/ status' # "ok"
<1>1. CASE ResolveStatement
  BY <1>1, HandlerShape DEF Handled, Advance, AtNode, Terminal, tree
<1>2. CASE LeaveOptional
  BY <1>2 DEF LeaveOptional, Terminal
<1>3. CASE ~ ResolveStatement /\ ~ LeaveOptional /\ ~ Done
  BY <1>3 DEF Next, PassOver, SkipSubtree, PassBy, DisableOptional, FailMissing, AtStatement,
       Advance, Stop, AtNode, EndWalk, MergeOrders, Restart, NextPass, Finish, Terminal, tree
<1> QED
  BY <1>1, <1>2, <1>3

(* Every step of resolution is a step that the meaning of optionals allows *)
(* or none at all for it.                                                  *)
LEMMA RefinementStep ==
  ASSUME WalkInv, WalkInv', OptionalInv, OptionalInv', FoundInv', [Next]_vars
  PROVE  [Abstract!Next]_(Abstract!vars)
<1>1. ast \in Ast /\ alive \subseteq Node /\ Nested /\ WalkTypes /\ status \in Status
  BY TreeNested DEF WalkInv, WalkTypes
<1>2. ast' = ast /\ status' \in Status
  BY StepShape DEF WalkInv, WalkTypes
<1>3. CASE UNCHANGED <<alive, status>>
  BY <1>2, <1>3 DEF Abstract!vars, VerdictOf
<1>4. CASE LeaveOptional /\ alive' # alive
  <2> DEFINE o == Head(optstack)
  <2>1. /\ status = "walk" /\ status' = status /\ optstack # <<>>
        /\ ast[o].decl \in disabled /\ alive' = alive \ Below(o)
    BY <1>4 DEF LeaveOptional, OptionalEnded
  <2>2. o \in Optional /\ ~ Template(o)
    BY <1>1, <2>1, Pop DEF WalkTypes, OptionalInv, StackWalked
  <2>3. Abstract!Lacking(o)
    BY <2>1, <2>2, DisabledLacking
  <2>4. o \in OptionalsIn(ast) /\ alive' = alive \ BodyIn(ast, o)
    BY <1>1, <2>1, <2>2, ReadOff
  <2>5. VerdictOf = "open" /\ VerdictOf' = "open"
    BY <2>1 DEF VerdictOf
  <2>6. Abstract!Drop(o)
    BY <1>2, <2>3, <2>4, <2>5 DEF Abstract!Drop
  <2> QED
    BY <2>4, <2>6 DEF Abstract!Next
<1>5. CASE alive' = alive /\ status \notin Terminal /\ Finish /\ status' = "ok"
  <2>1. VerdictOf = "open" /\ VerdictOf' = "accepted"
    BY <1>5 DEF VerdictOf, Terminal
  <2>2. \A n \in alive : Resolved(n) => AllFound(n)
    BY <1>2, <1>5, SameTree DEF FoundInv, AllResolved
  <2>3. \A n \in alive : Abstract!Satisfied(n)
    <3>1. ASSUME NEW n \in alive, ~ Resolved(n) PROVE Abstract!Satisfied(n)
      BY <1>1, <3>1, ReadOff DEF Abstract!Satisfied, NeedsIn
    <3> QED
      BY <1>1, <2>2, <3>1, FoundSatisfied
  <2>4. \A q \in Optional : ~ Outstanding(q)
    <3>1. disabled' = disabled
      BY <1>5 DEF Finish, tree
    <3> QED
      BY <1>2, <1>5, <3>1, SameAst DEF OptionalInv, AcceptedWhole, Outstanding
  <2>5. ASSUME NEW o \in OptionalsIn(ast),
               \E p \in TwinsIn(ast, o) \cap alive : Abstract!Lacks(p)
        PROVE  BodyIn(ast, o) \cap alive = {}
    <3>1. o \in Optional /\ ~ Template(o) /\ BodyIn(ast, o) = Below(o)
      BY <1>1, <2>5, ReadOff
    <3> QED
      BY <2>2, <2>4, <2>5, <3>1, AcceptsRightly DEF OptionalInv
  <2>6. Abstract!Accept
    BY <1>2, <1>5, <2>1, <2>3, <2>5 DEF Abstract!Accept
  <2> QED
    BY <2>6 DEF Abstract!Next
<1>6. CASE alive' = alive /\ status \notin Terminal /\ status' # "ok"
  <2>1. VerdictOf = "open" /\ VerdictOf' \in {"open", "refused"}
    BY <1>1, <1>2, <1>6 DEF VerdictOf, Terminal, Status
  <2> QED
    BY <1>2, <1>6, <2>1 DEF Abstract!Next, Abstract!Refuse, Abstract!vars
<1>7. CASE UNCHANGED vars
  BY <1>3, <1>7 DEF vars, tree, walk
<1> QED
  <2>1. CASE Next
    BY <1>3, <1>4, <1>5, <1>6, <1>7, <2>1, OpenStep DEF Done
  <2> QED
    BY <1>7, <2>1

(* Resolution, with all its passes and restarts, only ever drops an        *)
(* optional one of whose statements lacks a name, and accepts only what is *)
(* in order: the safety part of Implements, for every tree.                *)
THEOREM RefinementTheorem == Spec => Abstract!Init /\ [][Abstract!Next]_(Abstract!vars)
<1>1. Init => Abstract!Init
  <2> SUFFICES ASSUME Init PROVE Abstract!Init
    OBVIOUS
  <2> QED
    BY ReadOff DEF Init, Abstract!Init, VerdictOf
<1>2. /\ WalkInv /\ WalkInv' /\ OptionalInv /\ OptionalInv' /\ FoundInv' /\ [Next]_vars
      => [Abstract!Next]_(Abstract!vars)
  BY RefinementStep
<1> QED
  BY <1>1, <1>2, WalkInvariant, OptionalInvariant, FoundInvariant, PTL DEF Spec
-----------------------------------------------------------------------------
(* The optionals of an accepted policy *)

(* With more optionals enabled there is more of the tree.                  *)
LEMMA MoreAlive ==
  ASSUME NEW S, NEW T, S \subseteq T
  PROVE  AliveUnder(S) \subseteq AliveUnder(T)
BY DEF AliveUnder

(* Sets of optionals that support themselves support each other.           *)
LEMMA UnionSupports ==
  SelfSupporting(UNION {S \in SUBSET OptionalData : SelfSupporting(S)})
<1> DEFINE U == UNION {S \in SUBSET OptionalData : SelfSupporting(S)}
<1>1. SUFFICES ASSUME NEW o \in Optional, ast[o].decl \in U,
                      NEW n \in Below(o), IsInnermost(o, n), Resolved(n)
               PROVE  AllFoundIn(n, AliveUnder(U))
  BY DEF SelfSupporting
<1>2. PICK S \in SUBSET OptionalData : SelfSupporting(S) /\ ast[o].decl \in S
  BY <1>1
<1>3. AllFoundIn(n, AliveUnder(S))
  BY <1>1, <1>2 DEF SelfSupporting
<1>4. AliveUnder(S) \subseteq AliveUnder(U)
  BY <1>2, MoreAlive
<1> QED
  BY <1>3, <1>4, FoundInMore

(* A disabled optional is no template, nor are its twins.                  *)
LEMMA DisabledWalked ==
  ASSUME WalkInv, DisabledLacks, TwinsAlike, NEW o \in Optional, ast[o].decl \in disabled
  PROVE  ~ Template(o)
<1>1. PICK p \in Optional, n \in Node : ast[p].decl = ast[o].decl /\ Misses(p, n)
  BY DEF DisabledLacks
<1>2. ~ Template(p)
  BY <1>1, TreeNested, ResolvedOutside DEF WalkInv, WalkTypes, Misses, IsInnermost
<1> QED
  BY <1>1, <1>2 DEF TwinsAlike

(* When the last pass has ended, what is left is what the optionals that   *)
(* are left and enabled leave of the tree, and they support each other.    *)
LEMMA SurvivorsSupport ==
  ASSUME WalkInv, OptionalInv, FoundInv, status = "ok", TwinsAlike
  PROVE  \E S \in SUBSET OptionalData : SelfSupporting(S) /\ alive \subseteq AliveUnder(S)
<1> DEFINE S == {ast[o].decl : o \in {p \in Optional \cap alive : ast[p].decl \notin disabled}}
<1>1. Nested /\ alive \subseteq Node /\ AliveClosed
  BY TreeNested DEF WalkInv, WalkTypes
<1>2. ASSUME NEW o \in Optional, Below(o) \cap alive # {} PROVE ast[o].decl \notin disabled
  BY <1>2, DisabledWalked DEF OptionalInv, AcceptedWhole, Outstanding
<1>3. alive \subseteq AliveUnder(S)
  <2>1. SUFFICES ASSUME NEW n \in alive, NEW o \in Around(n) PROVE ast[o].decl \in S
    BY <1>1 DEF AliveUnder
  <2>2. o \in Optional /\ n \in Below(o) /\ o \in alive
    BY <1>1, <2>1 DEF Around, AliveClosed, Optional
  <2>3. ast[o].decl \notin disabled
    BY <1>2, <2>2
  <2> QED
    BY <2>2, <2>3
<1>4. SelfSupporting(S)
  <2>1. SUFFICES ASSUME NEW o \in Optional, ast[o].decl \in S,
                        NEW n \in Below(o), IsInnermost(o, n), Resolved(n)
                 PROVE  AllFoundIn(n, AliveUnder(S))
    BY DEF SelfSupporting
  <2>2. PICK p \in Optional \cap alive : ast[p].decl = ast[o].decl /\ ast[p].decl \notin disabled
    BY <2>1
  <2>3. n \in alive
    <3>1. SUFFICES ASSUME n \notin alive PROVE FALSE
      OBVIOUS
    <3>2. n \in Node
      BY <1>1, <2>1 DEF Nested, Optional, Node, Below
    <3>3. PICK q \in Around(n) : ast[q].decl \in disabled
      BY <3>1, <3>2 DEF OptionalInv, DeadDisabled
    <3>4. q \in Around(o)
      <4>1. q \in Optional /\ n \in Below(q) /\ q <= o /\ q # o
        BY <2>1, <2>2, <3>3 DEF IsInnermost, Around
      <4> QED
        BY <1>1, <2>1, <4>1 DEF Around, Below, Optional, Node, Nested
    <3>5. PICK r \in Around(p) : ast[r].decl = ast[q].decl
      BY <2>2, <3>4 DEF TwinsAlike
    <3>6. r \in Optional /\ p \in Below(r) \cap alive
      BY <2>2, <3>5 DEF Around
    <3> QED
      BY <1>2, <3>3, <3>5, <3>6
  <2>4. AllFoundIn(n, alive)
    BY <2>1, <2>3 DEF FoundInv, AllResolved, AllFound
  <2> QED
    BY <1>3, <2>4, FoundInMore
<1>5. S \in SUBSET OptionalData
  BY DEF OptionalData
<1> QED
  BY <1>3, <1>4, <1>5

(* "All CIL statements in the optional block must be satisfied" and no     *)
(* others are dropped: an accepted policy has the largest set of optionals *)
(* that can be enabled together, whatever the order of passes, statements  *)
(* and restarts.                                                           *)
THEOREM ExactTheorem == Spec => []OptionalsExact
<1>1. ASSUME WalkInv, OptionalInv, FoundInv, Spared PROVE OptionalsExact
  <2> DEFINE U == UNION {S \in SUBSET OptionalData : SelfSupporting(S)}
  <2>1. SUFFICES ASSUME status = "ok", TwinsAlike PROVE alive = AliveUnder(U)
    BY DEF OptionalsExact
  <2>2. PICK S \in SUBSET OptionalData : SelfSupporting(S) /\ alive \subseteq AliveUnder(S)
    BY <1>1, <2>1, SurvivorsSupport
  <2>3. alive \subseteq AliveUnder(U)
    BY <2>2, MoreAlive
  <2>4. U \in SUBSET OptionalData /\ SelfSupporting(U)
    BY UnionSupports
  <2>5. AliveUnder(U) \subseteq alive
    BY <1>1, <2>4 DEF Spared
  <2> QED
    BY <2>3, <2>5
<1> QED
  BY <1>1, WalkInvariant, OptionalInvariant, FoundInvariant, SparedInvariant, PTL
=============================================================================
