---------------------------- MODULE MCStatements ----------------------------
(***************************************************************************)
(* Every kind of statement, before, inside and after an optional that is   *)
(* disabled in an early or a late pass, or not at all.  The statement also *)
(* names <<T1, T0>>: T1 is declared in the optional and shadows the global *)
(* T0 as long as the optional is there.  Added to them are the policies of *)
(* MCShapes.                                                               *)
(***************************************************************************)
EXTENDS MCShapes

On(d)    == <<Name(<<d>>), Shadowed>>

(* The kinds, with names that suit them *)
Kinds ==
  { <<"typeattributeset", On("A")>>, <<"roleattributeset", On("RA")>>,
    <<"userrole", On("U")>>, <<"userlevel", On("U")>>, <<"userrange", On("U")>>,
    <<"bounds", On("T2")>>, <<"avrule", On("A")>>, <<"neverallow", On("A")>>,
    <<"type_rule", On("A")>>, <<"nametypetransition", On("A")>>,
    <<"typepermissive", <<Shadowed>> >>, <<"rangetransition", On("A")>>,
    <<"roletype", <<Name(<<"R">>), Name(<<"A">>), Shadowed>> >>,
    <<"roletransition", <<Shadowed, Name(<<"R">>)>> >>, <<"roleallow", On("R")>>,
    <<"constrain", On("A")>>, <<"validatetrans", On("C")>>,
    <<"userprefix", On("U")>>, <<"selinuxuser", On("U")>>,
    <<"level", On("SE")>>, <<"levelrange", On("SE")>>, <<"senscat", On("SE")>>,
    <<"context", On("U")>>, <<"nodecon", <<Name(<<"IP">>), Name(<<"IP">>), Shadowed>> >>,
    <<"default", On("C")>>, <<"defaultrange", On("C")>>,
    <<"classmapping", On("CP")>>, <<"classpermissionset", On("CP")>>,
    <<"classcommon", Plain(<<"C", "CO">>)>>,
    <<"aliasactual", <<Name(<<"L2">>), Shadowed>> >> }
  \cup { <<k, On("T2")>> : k \in {"filecon", "portcon", "genfscon", "netifcon",
            "pirqcon", "iomemcon", "ioportcon", "pcidevicecon", "fsuse"} }

Targets == Decl("T0") \o Decl("T2") \o Decl("A") \o Decl("U") \o Decl("R")
             \o Decl("RA") \o Decl("SE") \o Decl("C") \o Decl("CO") \o Decl("CP")
             \o Decl("IP")
             \o Stmt("sensitivityorder", Plain(<<"SE">>))
             \o Stmt("classorder", Plain(<<"C">>))

Enders == { <<"call", "M">>, <<"booleanif", "M">>, <<"avrule", "M">>, <<"avrule", "T0">> }
Places == { <<1, 0, 0>>, <<0, 1, 0>>, <<0, 1, 1>>, <<1, 1, 1>> }
Copies(i, s) == IF i = 0 THEN <<>> ELSE s

(* In an alias policy the alias is declared as well *)
AliasDecl(k) == IF k = "aliasactual" THEN <<Nd("alias", "L2", <<>>, 0)>> ELSE <<>>

BindingAst ==
  { Build(Sid \o Targets \o AliasDecl(k[1])
      \o Copies(p[1], Stmt(k[1], k[2]))
      \o Opt("O1", Decl("T1") \o Copies(p[2], Stmt(k[1], k[2]))
                     \o Stmt(t[1], <<Name(<<t[2]>>)>>))
      \o Copies(p[3], Stmt(k[1], k[2]))) :
    <<k, p, t>> \in Kinds \X Places \X Enders }

MCAst == BindingAst \cup ShapeAst
=============================================================================
