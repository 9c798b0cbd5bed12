-------------------------- MODULE MCExpandFindings --------------------------
(***************************************************************************)
(* The policies of the runs that show where the passes up to CALL1 depart  *)
(* from what comments, messages and documents say.                         *)
(***************************************************************************)
EXTENDS MCExpand

(* A macro that calls another one, called where that name means a third *)
CallerPolicies ==
  { Build(Macro("n", Rule) \o Macro("m", Call("n"))
            \o Block("b", Macro("n", Type("t")) \o Call("m"))) }

(* A blockinherit that is inserted into a block *)
InsertPolicies == { Build(Block("a", Rule) \o Block("b", <<>>) \o In(<<"b">>, Inherit("a"))) }

(* An optional in which one blockinherit has a block and one has not *)
EarlyPolicies == { Build(Block("a", Rule) \o Opt("o", Inherit("a") \o Inherit("missing"))) }

(* An in statement that brings a macro and a call into a macro *)
MacroInMacroPolicies ==
  { Build(Macro("p", Rule) \o Macro("m", Rule) \o In(<<"m">>, Macro("n", Rule) \o Call("p"))
            \o Call("m")) }

(* Two blocks that inherit each other, and a macro that calls itself *)
EndlessPolicies == { Build(Block("a", Rule \o Inherit("b")) \o Block("b", Inherit("a"))),
                     Build(Macro("m", Call("m"))) }

(* An in statement in an optional that is disabled while in statements are *)
(* gathered, because a copy of it made by a tunableif was                  *)
FreedPolicies ==
  { Build(Tunable("x", TRUE) \o Block("a", <<>>)
            \o Opt("o", In(<<"a">>, Rule))
            \o TunableIf("x", Opt("o", TunableIf("missing", Rule, <<>>)), <<>>)) }
=============================================================================
