------------------------------- MODULE MCPost -------------------------------
(* Small resolved policies for CilPost *)
EXTENDS CilPost

Nd(kind, d, refs) == [kind |-> kind, d |-> d, refs |-> refs, last |-> 0]
Box(kind, body)   == <<[kind |-> kind, d |-> NULL, refs |-> <<>>, last |-> Len(body)]>> \o body
Number(p) == [n \in DOMAIN p |-> [p[n] EXCEPT !.last = n + @]]

D(d) == [d |-> d, e |-> 0]
E(e) == [d |-> NULL, e |-> e]
Ex(op, args) == [op |-> op, args |-> args]

Empty == [nodes |-> <<>>, head |-> <<>>, flavor |-> <<>>, expr |-> <<>>, attr |-> <<>>,
          cats |-> <<>>, catset |-> <<>>, catorder |-> <<>>, list |-> <<>>, cp |-> <<>>,
          con |-> <<>>, common |-> <<>>, permsOf |-> <<>>, permValue |-> <<>>, numPerms |-> <<>>]
-----------------------------------------------------------------------------
(* Attributes that lean on each other, declared in any order; T1 and R2     *)
(* have two nodes, T0 is declared in a macro                                *)
AttrExprs ==
  <<Ex("list", <<D("T1")>>), Ex("not", <<D("T1")>>), Ex("list", <<D("A2"), E(2)>>),
    Ex("xor", <<D("A2"), E(6)>>), Ex("and", <<D("A3"), E(2)>>), Ex("list", <<D("T2"), D("A3")>>),
    Ex("all", <<>>), Ex("list", <<D("A1")>>), Ex("range", <<D("T1"), D("T2")>>),
    Ex("not", <<D("R1")>>), Ex("or", <<D("RA"), D("R1")>>)>>
AttrHead == Box("macro", <<Nd("type", "T0", <<>>)>>)
            \o <<Nd("type", "T1", <<>>), Nd("type", "T1", <<>>), Nd("role", "R2", <<>>)>>
AttrTail == <<Nd("role", "R1", <<>>), Nd("role", "R2", <<>>), Nd("type", "T2", <<>>),
              Nd("roletype", NULL, <<"RB", "T2">>), Nd("roletype", NULL, <<"RA", "A1">>),
              Nd("roletype", NULL, <<"R1", "A2">>)>>
AttrPolicies ==
  {[Empty EXCEPT
      !.nodes = Number(AttrHead \o [i \in 1..3 |-> Nd("typeattribute", o[i], <<>>)]
                       \o <<Nd("roleattribute", "RB", <<>>), Nd("roleattribute", "RA", <<>>)>> \o AttrTail),
      !.head = [d \in {"T0", "T1", "T2", "R1", "R2"} |->
                  CASE d = "T0" -> 2 [] d = "T1" -> h [] d = "R2" -> 5 [] d = "R1" -> 11 [] OTHER -> 13],
      !.flavor = [d \in {"T0", "T1", "T2", "R1", "R2", "A1", "A2", "A3", "RA", "RB"} |->
                    CASE d \in {"T0", "T1", "T2"} -> "type" [] d \in {"R1", "R2"} -> "role"
                      [] d \in {"A1", "A2", "A3"} -> "typeattribute" [] OTHER -> "roleattribute"],
      !.expr = AttrExprs,
      !.attr = [a \in {"A1", "A2", "A3", "RA", "RB"} |->
                  CASE a = "A1" -> a1 [] a = "A2" -> a2 [] a = "A3" -> a3
                    [] a = "RA" -> <<10>> [] OTHER -> <<11>>]] :
    o \in SetToSeqs({"A1", "A2", "A3"}), h \in {3, 4},
    a1 \in {<<>>, <<3>>, <<1, 4>>}, a2 \in {<<5>>, <<6, 2>>, <<8>>, <<9>>}, a3 \in {<<7>>, <<1>>}}
-----------------------------------------------------------------------------
(* Class permissions: a class with a common, sets and permissions of a map  *)
PermExprs == <<Ex("all", <<>>), Ex("not", <<D("k1")>>), Ex("list", <<D("p1"), D("k1")>>),
               Ex("xor", <<D("p2"), E(1)>>)>>
Cp(c) == [cp |-> c, to |-> NULL]
To(o) == [cp |-> NULL, to |-> o]
PermPolicies ==
  {[Empty EXCEPT
      !.nodes = Number(<<Nd("classpermission", NULL, <<"S1">>), Nd("mapclass", NULL, <<"M1", "M2">>),
                         Nd("classpermission", NULL, <<"S2">>), Nd("avrule", NULL, <<"V">>)>>),
      !.expr = PermExprs,
      !.list = [o \in {"S1", "S2", "M1", "M2", "V"} |->
                  CASE o = "S1" -> s1 [] o = "S2" -> s2 [] o = "M1" -> m1
                    [] o = "M2" -> <<Cp(4)>> [] OTHER -> v],
      !.cp = [c \in 1..4 |-> [class |-> "C", e |-> c]],
      !.common = [c \in {"C", "K"} |-> IF c = "C" THEN "K" ELSE NULL],
      !.permsOf = [c \in {"C", "K"} |-> IF c = "C" THEN {"p1", "p2"} ELSE {"k1"}],
      !.permValue = [p \in {"p1", "p2", "k1"} |-> CASE p = "k1" -> 0 [] p = "p1" -> 1 [] OTHER -> 2],
      !.numPerms = [c \in {"C", "K"} |-> IF c = "C" THEN 3 ELSE 1]] :
    s1 \in {<<Cp(1)>>, <<To("S2")>>, <<Cp(2), To("S2")>>, <<To("S2"), Cp(3)>>},
    s2 \in {<<Cp(4)>>, <<To("M1")>>, <<To("M2"), To("M1")>>, <<Cp(4), To("S1")>>, NULL},
    m1 \in {<<Cp(2)>>, <<To("S1")>>, <<To("S2")>>},
    v \in {<<To("S1")>>, <<Cp(3), To("M1"), To("M2")>>}}
LoopPolicies == {p \in PermPolicies : NULL \notin {p.list[o] : o \in DOMAIN p.list}}
-----------------------------------------------------------------------------
(* Category sets that lean on each other, and levels that use them *)
CatExprs ==
  <<Ex("list", <<D("c0")>>), Ex("list", <<D("Y")>>), Ex("range", <<D("c0"), D("c1")>>),
    Ex("not", <<D("Y")>>), Ex("list", <<D("c2"), D("c1")>>), Ex("range", <<D("c2"), D("c0")>>),
    Ex("list", <<D("X"), D("c0")>>), Ex("range", <<D("X"), D("c0")>>), Ex("and", <<D("X"), E(5)>>),
    Ex("all", <<>>)>>
CatNodes == {<<Nd("catset", "X", <<"x">>), Nd("catset", "Y", <<"y">>)>>,
             <<Nd("catset", "Y", <<"y">>), Nd("catset", "X", <<"x">>)>>}
UserPolicy(nodes, x, y, refs) ==
  [Empty EXCEPT
     !.nodes = Number(nodes \o <<Nd("user", NULL, refs), Nd("senscat", NULL, <<"w">>)>>),
     !.flavor = [d \in {"c0", "c1", "c2", "X", "Y"} |-> IF d \in {"X", "Y"} THEN "catset" ELSE "cat"],
     !.expr = CatExprs,
     !.cats = [c \in {"x", "y", "w", "v"} |->
                 CASE c = "x" -> x [] c = "y" -> y [] c = "w" -> 10 [] OTHER -> 9],
     !.catset = [d \in {"X", "Y"} |-> IF d = "X" THEN "x" ELSE "y"],
     !.catorder = <<"c0", "c1", "c2">>]
CatPolicies ==
  {UserPolicy(n, x, y, r) : n \in CatNodes, x \in {1, 2, 3, 4}, y \in {5, 6, 7, 8, 10},
                            r \in {<<"v">>, <<"w", "x", "v">>}}
UserPolicies == {UserPolicy(n, 1, 5, <<NULL, "v">>) : n \in CatNodes}
-----------------------------------------------------------------------------
(* Labelling statements; some sizes of ranges are half a word apart *)
Ranges == {[low |-> l, high |-> l + s] : l \in {0, 2}, s \in {0, 2, 7, 13}}
Paths == {<<"c", "c">>, <<"c", "m", "c">>, <<"m", "c", "c">>, <<"\\", "m", "c">>, <<"c", "c", "m">>}
Keys == {<<0, 0, 1>>, <<0, -1, 2>>, <<1, 0, 0>>}
ConPolicy(kind, s) ==
  [Empty EXCEPT
     !.nodes = Number(<<Nd("selinuxuserdefault", NULL, <<>>)>> \o [i \in DOMAIN s |-> Nd(kind, i, <<>>)]
                      \o <<Nd("selinuxuser", NULL, <<>>)>>),
     !.con = s]
ConPolicies ==
  {ConPolicy(k, <<a, b, c>>) : k \in {"portcon", "iomemcon"}, a, b, c \in Ranges}
  \cup {ConPolicy("filecon", <<[path |-> a, type |-> 1], [path |-> b, type |-> 0]>>) : a, b \in Paths}
  \cup {ConPolicy(k, <<[key |-> a], [key |-> b]>>) :
          k \in Con \ (RangeCon \cup {"filecon"}), a, b \in Keys}


(* A port in a range of more than half a word *)
FarPolicies == {ConPolicy("portcon", <<[low |-> 0, high |-> 13], [low |-> 2, high |-> 2]>>)}

PostPolicies == AttrPolicies \cup PermPolicies \cup CatPolicies \cup UserPolicies \cup ConPolicies
=============================================================================
