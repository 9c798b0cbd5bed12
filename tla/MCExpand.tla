------------------------------ MODULE MCExpand ------------------------------
(***************************************************************************)
(* Small policies for CilExpand.  A policy is written as a sequence of     *)
(* statements that say how many statements are below them; Build finds the *)
(* parents.                                                                *)
(***************************************************************************)
EXTENDS CilExpand

MCName == {"a", "b", "c", "m", "n", "p", "o", "q", "t", "u", "x", "y", "k", "missing"}

St(kind, name, ref, params, val, body) ==
  <<[kind |-> kind, name |-> name, ref |-> ref, params |-> params, val |-> val,
     size |-> Len(body)]>> \o body

Use(kind, ref)       == St(kind, NoName, ref, <<>>, FALSE, <<>>)
Decl(kind, name)     == St(kind, name, <<>>, <<>>, FALSE, <<>>)
Block(name, body)    == St("block", name, <<>>, <<>>, FALSE, body)
Opt(name, body)      == St("optional", name, <<>>, <<>>, FALSE, body)
Macro(name, body)    == St("macro", name, <<>>, <<>>, FALSE, body)
MacroT(name, body)   == St("macro", name, <<>>, <<"t">>, FALSE, body)
In(ref, body)        == St("in", NoName, ref, <<>>, FALSE, body)
Inherit(name)        == Use("blockinherit", <<name>>)
Abstract(name)       == Use("blockabstract", <<name>>)
Call(name)           == Use("call", <<name>>)
CallT(name)          == St("call", NoName, <<name>>, <<"t">>, FALSE, <<>>)
Tunable(name, v)     == St("tunable", name, <<>>, <<>>, v, <<>>)
Cond(v, body)        == St("cond", NoName, <<>>, <<>>, v, body)
TunableIf(name, yes, no) ==
  St("tunableif", NoName, <<name>>, <<>>, FALSE, Cond(TRUE, yes) \o Cond(FALSE, no))
BooleanIf(body)      == St("booleanif", NoName, <<>>, <<>>, FALSE, Cond(TRUE, body))
Type(name)           == Decl("type", name)
Rule                 == Use("rule", <<>>)

Build(body) ==
  LET p == St("root", NoName, <<>>, <<>>, FALSE, body)
      up(n) == {m \in 1..(n - 1) : n <= m + p[m].size}
  IN [n \in DOMAIN p |->
        [kind |-> p[n].kind, name |-> p[n].name, ref |-> p[n].ref,
         params |-> p[n].params, val |-> p[n].val,
         parent |-> IF n = 1 THEN 0 ELSE Max(up(n))]]

(* The parts in some order *)
Permuted(parts) ==
  {FlattenSeq([i \in DOMAIN parts |-> parts[f[i]]]) :
     f \in {g \in [DOMAIN parts -> DOMAIN parts] : Range(g) = DOMAIN parts}}
-----------------------------------------------------------------------------
(* Blocks that inherit each other in any order, also in a circle, also     *)
(* from within, whose inner blocks are merged, with a macro, a template    *)
(* and an optional that go along                                           *)
HeirsOfA == {<<>>, Inherit("b"), Inherit("c")}
HeirsOfB == {<<>>, Inherit("a"), Inherit("a") \o Inherit("c")}
HeirsOfC == {<<>>, Inherit("a"), Inherit("b") \o Inherit("a"), Inherit("a") \o Inherit("x"),
             Opt("o", Inherit("b"))}
InnerOfA == {Block("x", Type("t")), Macro("m", Rule) \o Call("m"), Abstract("a"),
             Opt("q", Abstract("missing") \o Call("missing"))}
InnerOfC == {Rule, Block("x", Type("u"))}

BlockPolicies ==
  UNION { { Build(body) : body \in Permuted(<<Block("a", Type("t") \o ia \o ha),
                                            Block("b", Rule \o hb),
                                            Block("c", hc \o ic)>>) } :
          ha \in HeirsOfA, hb \in HeirsOfB, hc \in HeirsOfC,
          ia \in InnerOfA, ic \in InnerOfC }

(* Macros that call each other in any order, in optionals and booleanifs,  *)
(* with an argument, and calls from a block that has been inherited        *)
BodiesOfM == {Rule, Call("n") \o Rule, Opt("o", Call("n")), Opt("o", Call("missing")),
              Call("n") \o Call("n"), Decl("class", "k")}
BodiesOfN == {Rule, CallT("p"), CallT("p") \o Type("u"), Opt("q", Opt("o", CallT("p")))}
BodiesOfP == {Rule, Type("u"), Call("m"), Opt("o", Call("missing"))}
Callers   == {Block("b", Call("m")) \o Block("c", Inherit("b") \o Call("n")),
              Opt("q", Type("t") \o Call("m") \o Call("n")),
              BooleanIf(Call("m") \o Rule),
              Block("a", Abstract("a") \o Call("m")) \o Call("n"),
              Block("a", Abstract("a") \o Macro("x", Call("x"))) \o Use("call", <<"a", "x">>),
              Call("m") \o Call("m")}

MacroPolicies ==
  UNION { { Build(body \o caller) :
              body \in Permuted(<<Macro("m", bm), Macro("n", bn), MacroT("p", bp)>>) } :
          bm \in BodiesOfM, bn \in BodiesOfN, bp \in BodiesOfP, caller \in Callers }

(* Bodies that move: tunableifs in each other and in other containers, and *)
(* in statements for a block, an optional, a macro and for a block that    *)
(* another in statement or a tunableif brings                              *)
Moved == {Rule, Opt("m", TunableIf("missing", Rule, <<>>)), Block("c", Type("u")),
          TunableIf("y", Type("u"), TunableIf("x", Rule, Type("t")))}
Ins   == {In(<<"a">>, Type("t")), In(<<"o">>, Rule), In(<<".", "b">>, Block("c", Rule)),
          In(<<"b", "c">>, Type("k") \o Rule), In(<<"a", "m">>, Call("m") \o Rule),
          In(<<"b", "missing">>, Rule), Block("x", In(<<"o">>, Macro("n", Rule))),
          In(<<"a">>, TunableIf("x", Macro("n", Rule) \o Call("n"), Opt("q", Rule)))}
Tunables(vx, vy) == Tunable("x", vx) \o Tunable("y", vy)

Targets(moved) == Block("a", Macro("m", Rule) \o Type("y"))
                  \o Block("b", Opt("q", moved) \o TunableIf("x", moved, Type("a")))
                  \o Opt("o", <<>>)

MovePolicies ==
  { Build(Tunables(vx, vy) \o body) :
      vx, vy \in BOOLEAN,
      body \in UNION { { i1 \o Targets(moved) \o i2, Targets(moved) \o i1 \o i2 } :
                      moved \in Moved, <<i1, i2>> \in {i \in Ins \X Ins : i[1] # i[2]} } }

(* What moves and is copied afterwards: tunableifs in optionals, in macros  *)
(* and in each other, and an in statement that brings one                  *)
Tunifs == {TunableIf("x", Opt("q", Call("m") \o Rule), Type("u")),
            TunableIf("x", TunableIf("y", Opt("q", Rule), Call("m")), Rule),
            BooleanIf(TunableIf("y", Call("m"), Rule) \o Rule),
            Opt("q", TunableIf("missing", Rule, <<>>) \o TunableIf("x", Rule, <<>>))}
MixedPolicies ==
  { Build(Tunables(vx, vy) \o Macro("m", inM) \o Block("a", Opt("o", c1 \o Rule) \o Type("t"))
            \o In(<<"a">>, c2) \o Block("b", Inherit("a"))) :
      vx, vy \in BOOLEAN, c1, c2 \in Tunifs,
      inM \in {Rule, TunableIf("y", Opt("p", Rule), Type("k"))} }

(* What is copied, and what is moved, together with the circles of blocks  *)
(* and macros that could be copied for ever                                *)
CopyPolicies == BlockPolicies \cup MacroPolicies \cup MixedPolicies
EndPolicies  == { Build(Block("a", Rule \o ha) \o Block("b", hb) \o Block("c", hc)) :
                    ha \in HeirsOfA, hb \in HeirsOfB, hc \in HeirsOfC }
                \cup { Build(Macro("m", bm) \o Macro("n", CallT("p")) \o MacroT("p", bp)
                               \o Call("m")) : bm \in BodiesOfM, bp \in BodiesOfP }
MoveOrLoopPolicies == MovePolicies \cup EndPolicies
=============================================================================
