----------------------------- MODULE MCOptionals -----------------------------
(***************************************************************************)
(* Three optionals, one of them nested, each with a declaration and a      *)
(* statement that needs a declaration of another one, in an early or a     *)
(* late pass, or one that does not exist, or one that falls back to the    *)
(* global T0; then a statement outside.  The first may share its datum     *)
(* with the second or the nested one, as the block's own optional does     *)
(* with one that it inherits.                                              *)
(***************************************************************************)
EXTENDS MCResolve, CilImplements

Needs(t, u) == {<<Name(<<t>>)>>, <<Name(<<u>>)>>, <<Name(<<"M">>)>>, <<Name(<<u, "T0">>)>>}

MCAst ==
  { Build(Sid \o Decl("T0")
      \o Opt("O1", Decl("T1") \o Stmt(k1, n1))
      \o Opt(o[1], Decl("T2") \o Opt(o[2], Decl("T3") \o Stmt(k3, n3)) \o Stmt(k2, n2))
      \o Stmt("avrule", <<Name(o[3])>>)) :
    k1 \in {"call", "avrule"}, k2 \in {"booleanif"}, k3 \in {"call", "avrule"},
    n1 \in Needs("T2", "T3"), n2 \in Needs("T3", "T1"), n3 \in Needs("T1", "T2"),
    o \in {<<"O1", "O3", <<"T1", "T0">>>>, <<"O2", "O3", <<"T1", "T0">>>>,
           <<"O2", "O3", <<"T3">>>>, <<"O2", "O1", <<"T1", "T0">>>>} }
=============================================================================
