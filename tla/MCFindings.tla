----------------------------- MODULE MCFindings -----------------------------
(***************************************************************************)
(* The policies of the runs that show where the code departs from what its *)
(* comments, messages and documents say.                                   *)
(***************************************************************************)
EXTENDS MCResolve

Disabled == Opt("O1", Stmt("avrule", Plain(<<"M">>)))
Classes  == Decl("C") \o Stmt("classorder", Plain(<<"C">>))

(* A class with a common, and any optional that is disabled *)
CommonAst == { Build(Sid \o Classes \o Decl("CO")
                 \o Stmt("classcommon", Plain(<<"C", "CO">>)) \o Disabled) }

(* A class permission set, and any optional that is disabled *)
ClasspermsAst == { Build(Sid \o Classes \o Decl("CP")
                     \o Stmt("classpermissionset", Plain(<<"CP", "C">>)) \o Disabled) }

(* An alias that two statements bind *)
AliasAst == { Build(Sid \o Decl("T0") \o Decl("T1") \o <<Nd("alias", "L", <<>>, 0)>>
                \o Stmt("aliasactual", Plain(<<"L", "T0">>))
                \o Stmt("aliasactual", Plain(<<"L", "T1">>))) }

(* Two classorder statements that contradict each other *)
OrderAst == { Build(Sid \o Decl("C") \o Decl("C2")
                \o Stmt("classorder", Plain(<<"C", "C2">>))
                \o Stmt("classorder", Plain(<<"C2", "C">>))) }
=============================================================================
