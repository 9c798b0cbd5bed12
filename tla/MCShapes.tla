------------------------------ MODULE MCShapes ------------------------------
(***************************************************************************)
(* What surrounds statements: macro calls whose argument is resolved in an *)
(* early pass and used in a late one, bodies that are skipped, chains of   *)
(* aliases in either order, order statements inside and outside of an      *)
(* optional, and a category set.  The optional is disabled by a name that  *)
(* is missing in an early or a late pass, or stays.                        *)
(***************************************************************************)
EXTENDS MCResolve

Shadowed == Name(<<"T1", "T0">>)

Call == Box("call", NoDatum, <<Shadowed>>,
            Stmt("avrule", <<Arg(1, 1)>>)
              \o Box("call", NoDatum, <<Arg(2, 1)>>, Stmt("typepermissive", <<Arg(1, 1)>>)))

Missing == Stmt("avrule", Plain(<<"M">>))
Bodies == { Box("macro", "G", <<>>, Missing),
            Box("abstractblock", "G", <<>>, Decl("T3") \o Opt("O3", Missing)),
            Box("block", "G", <<>>, Stmt("avrule", Plain(<<"T0">>))),
            Box("booleanif", NoDatum, Plain(<<"B">>),
                Box("condblock", NoDatum, <<>>, Stmt("avrule", <<Shadowed>>))) }

Alias(d)       == <<Nd("alias", d, <<>>, 0)>>
Actual(d, e)   == Stmt("aliasactual", <<Name(<<d>>), Name(<<e>>)>>)
AliasChains ==
  { <<>>,
    Alias("L") \o Alias("L2") \o Actual("L", "L2") \o Actual("L2", "T0"),
    Alias("L") \o Alias("L2") \o Actual("L2", "T0") \o Actual("L", "L2"),
    Alias("L") \o Alias("L2") \o Actual("L", "L2") \o Actual("L2", "L"),
    Alias("L2") \o Alias("L") \o Actual("L", "L2") }

Order(items) == Stmt("catorder", Plain(items))
Lists  == {<<"K">>, <<"K2">>, <<"K", "K2">>, <<"K2", "K">>}

Triggers == { <<"call", "M">>, <<"booleanif", "M">>, <<"catset", "M">>,
              <<"avrule", "M">>, <<"avrule", "T0">> }
Trigger(t) == IF t[1] = "catset" THEN <<Nd("catset", "KS", Plain(<<t[2]>>), 0)>>
              ELSE Stmt(t[1], Plain(<<t[2]>>))

CallAst ==
  { Build(Sid \o Decl("T0") \o Decl("B") \o chain \o body
      \o Opt("O1", Decl("T1") \o Call \o Trigger(t)) \o Call
      \o (IF chain = <<>> THEN <<>> ELSE Stmt("roletype", Plain(<<"L", "L2">>)))) :
    chain \in AliasChains, body \in Bodies, t \in Triggers }

OrderAst ==
  { Build(Sid \o Decl("K") \o Decl("T0") \o Order(o1)
      \o Opt("O1", Order(o2) \o (IF inside THEN Decl("K2") ELSE <<>>) \o Trigger(t))
      \o (IF inside THEN <<>> ELSE Decl("K2"))
      \o <<Nd("catset", "KS", Plain(self), 0)>>
      \o Order(o3)) :
    o1, o2, o3 \in Lists, inside \in BOOLEAN, t \in Triggers,
    self \in {<<"K">>, <<"K", "KS">>} }

ShapeAst == CallAst \cup OrderAst
=============================================================================
