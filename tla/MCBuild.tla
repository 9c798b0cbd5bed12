------------------------------- MODULE MCBuild -------------------------------
(***************************************************************************)
(* Small texts for CilBuild.                                               *)
(***************************************************************************)
EXTENDS CilBuild

St(kw, name) == [kw |-> kw, name |-> name, perms |-> <<>>, params |-> <<>>,
                 expr |-> <<>>, ok |-> TRUE, size |-> 0]
D(kw, name) == <<St(kw, name)>>
R(kw) == D(kw, NoName)
Box(kw, name, body) == <<[St(kw, name) EXCEPT !.size = Len(body)]>> \o body
Perms(kw, ps) == <<[St(kw, "C") EXCEPT !.perms = ps]>>
Macro(ps, body) == <<[St("macro", "M") EXCEPT !.params = ps, !.size = Len(body)]>> \o body
With(kw, e, body) == <<[St(kw, NoName) EXCEPT !.expr = e, !.size = Len(body)]>> \o body
Malformed(kw, name) == <<[St(kw, name) EXCEPT !.ok = FALSE]>>

(* Expressions: a chain of n binary operators to the right or to the left, *)
(* a list, a negation                                                      *)
Leaf == <<[op |-> "leaf", size |-> 0]>>
Op(op, operands) == <<[op |-> op, size |-> Len(operands)]>> \o operands
OnRight(op, e) == Op(op, Leaf \o e)
OnLeft(op, e) == Op(op, e \o Leaf)
Last(e) == [n \in DOMAIN e |-> [op |-> e[n].op, last |-> n + e[n].size]]
Right2 == OnRight("and", OnRight("or", Leaf))
Left2 == OnLeft("xor", OnLeft("and", Leaf))
Wide == Op("none", Leaf \o Op("not", Right2) \o Left2)
Exprs == {Last(e) : e \in {Op("none", Leaf), Op("none", Op("none", Op("none", Leaf))), Op("not", Leaf),
                           Right2, Left2, Wide, OnLeft("or", Wide)}}

Number(p) ==
  [n \in DOMAIN p |->
     [kw |-> p[n].kw, name |-> p[n].name, perms |-> p[n].perms, params |-> p[n].params,
      expr |-> p[n].expr, ok |-> p[n].ok, last |-> n + p[n].size]]

Branch(b, body) == Box(b, NoName, body)
If(kw, yes, no) == With(kw, Last(Op("none", Leaf)), Branch("true", yes) \o Branch("false", no))

(* Containers around a body, each with a statement before or after it *)
In1(k, body) ==
  CASE k = "block" -> Box("block", "B", body)
    [] k = "optional" -> Box("optional", "O", body)
    [] k = "macro" -> Macro(<<[kind |-> "type", name |-> "P"]>>, body)
    [] k = "in" -> Box("in", NoName, body)
    [] k = "booleanif" -> If("booleanif", body, R("allow"))
    [] k = "tunableif" -> If("tunableif", R("allow"), body)
Kinds1 == {"block", "optional", "macro", "in", "booleanif", "tunableif"}

Leaves == {D("type", "T"), D("type", "P"), D("tunable", "N"), R("allow"), R("call")}
(* Nested three deep, with a sibling of the inner container on either side *)
Nested ==
  {In1(k1, b \o In1(k2, i) \o a) \o z :
     k1 \in Kinds1, k2 \in Kinds1, b \in {<<>>} \cup Leaves, i \in Leaves,
     a \in {<<>>} \cup Leaves, z \in {<<>>, D("type", "T"), Box("in", NoName, D("tunable", "N"))}}
Deeper ==
  {In1(k1, In1(k2, R("allow") \o In1(k3, R("allow"))) \o In1(k4, D("tunable", "N"))) :
     k1 \in Kinds1, k2 \in Kinds1, k3 \in Kinds1, k4 \in Kinds1}

(* Declarations of the same name *)
Twice ==
  {In1(k1, D(d1, "X") \o R("allow")) \o D(d2, "X") \o Box("block", "B2", D(d3, "X") \o D(d1, "Y")) :
     k1 \in {"block", "optional", "macro", "in", "tunableif"},
     d1 \in {"type", "typealias", "role", "block", "class"},
     d2 \in {"type", "roleattribute", "optional", "tunable", "bool"},
     d3 \in {"typeattribute", "user", "classmap"}}

NameX == {"X", "Y", "9"}
Details ==
  {Perms(k, ps) : k \in ClassKind, ps \in UNION {[1..n -> NameX] : n \in 0..2}}
  \cup {Macro([i \in 1..2 |-> [kind |-> k[i], name |-> n[i]]], D(d, "X")) :
          k \in [1..2 -> {"type", "class", "string", "name", "macro"}], n \in [1..2 -> NameX],
          d \in {"type", "class", "typeattribute"}}
  \cup {With("booleanif", e, Branch("true", R("allow"))) : e \in Exprs}
  \cup {With(k, e, <<>>) : k \in Constraint, e \in Exprs}
  \cup {With(k, Last(Op("none", Leaf)), b) : k \in Conditional,
          b \in {<<>>, R("allow"), Branch("true", <<>>), Branch("true", R("allow")) \o R("allow"),
                 Branch("true", R("allow")) \o Branch("true", R("allow")),
                 Branch("true", R("call")) \o Branch("false", R("call")) \o Branch("true", R("call"))}}
  \cup {In1(k, b) : k \in {"block", "optional", "in"},
          b \in {<<>>, Branch("true", R("allow")), R("unknown"), Malformed("type", "T"), D("type", "9")}}
  \cup {D(d, "X") \o D(e, "X") : d \in DOMAIN Sym \ {"macro"}, e \in DOMAIN Sym \ {"macro"}}

MCTexts == {Number(p) : p \in Nested \cup Deeper \cup Twice \cup Details}

(* Expressions that take the whole stack, and more than that *)
Chain[n \in Nat] == IF n = 0 THEN Leaf ELSE OnRight("and", Chain[n - 1])
DeepTexts ==
  {Number(With("constrain", Last(Chain[n]), <<>>)) : n \in {4, 5}}
  \cup {Number(With("booleanif", Last(Chain[n]), Branch("true", R("allow") \o R("call")))) :
          n \in 7..10}
=============================================================================
