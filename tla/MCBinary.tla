------------------------------ MODULE MCBinary ------------------------------
(* Small post-processed policies for CilBinary *)
EXTENDS CilBinary

Sized(n, body) == <<n @@ [last |-> Len(body)]>> \o body
St(n)          == Sized(n, <<>>)
Number(p)      == [i \in DOMAIN p |-> [p[i] EXCEPT !.last = i + @]]
Decl(op, d)    == St([op |-> op, d |-> d])
Bnd(op, d, b)  == St([op |-> op, d |-> d, bounds |-> b])
Av(kind, s, t, l) == St([op |-> "avrule", kind |-> kind, src |-> s, tgt |-> t, list |-> l])
Block(a, body)    == Sized([op |-> "block", abstract |-> a], body)
If(e, t, f) ==
  Sized([op |-> "booleanif", expr |-> e],
        (IF t = <<>> THEN <<>> ELSE Sized([op |-> "condblock", branch |-> "true"], t))
        \o (IF f = <<>> THEN <<>> ELSE Sized([op |-> "condblock", branch |-> "false"], f)))
D(d) == [d |-> d, e |-> NULL]
E(e) == [d |-> NULL, e |-> e]
Ex(op, args) == [op |-> op, args |-> args, l |-> NULL, r |-> NULL, names |-> NULL]
Lf(op, l, r, ns) == [op |-> op, args |-> <<>>, l |-> l, r |-> r, names |-> ns]

TypeData == {"T1", "T2", "T3"}
RoleData == {"object_r", "R1", "R2"}
Lvl(s, cs) == [sens |-> s, cats |-> cs]
Rng(a, b)  == [low |-> a, high |-> b]
Base ==
  [flavor |-> [d \in TypeData |-> "type"] @@ [d \in RoleData |-> "role"]
              @@ [d \in {"A1", "A2", "A3"} |-> "typeattribute"] @@ [d \in {"RA"} |-> "roleattribute"]
              @@ [d \in {"C1", "C2"} |-> "class"] @@ [d \in {"M"} |-> "map"],
   value |-> [T1 |-> 0, T2 |-> 1, T3 |-> 2, object_r |-> 0, R1 |-> 1, R2 |-> 2],
   valTo |-> [type |-> <<"T1", "T2", "T3">>, role |-> <<"object_r", "R1", "R2">>],
   bits |-> [A1 |-> {0, 1}, A2 |-> {1}, A3 |-> {}, RA |-> {0, 2}],
   types |-> [object_r |-> {}, R1 |-> {2}, R2 |-> {0, 1}],
   used |-> {"A1", "A2"}, polcaps |-> {"P"}, boolValue |-> [B1 |-> TRUE, B2 |-> FALSE],
   classorder |-> <<"C2", "C1">>, common |-> [C1 |-> "K", C2 |-> NULL],
   perms |-> [C1 |-> <<"p1", "p2">>, C2 |-> <<"p2">>, K |-> <<"k1">>],
   list |-> [L1 |-> <<[class |-> "C1", perms |-> {"p1"}]>>,
             L2 |-> <<[class |-> "C1", perms |-> {"k1", "p2"}], [list |-> "L3"]>>,
             L3 |-> <<[class |-> "C2", perms |-> {"p2"}], [class |-> "C1", perms |-> {"p1"}]>>,
             L0 |-> <<[class |-> "C1", perms |-> {}]>>],
   map |-> [M |-> {"L1", "L3"}],
   expr |-> <<Ex("and", <<D("B1"), D("B2")>>), Ex("not", <<E(3)>>), Ex("list", <<D("B1"), D("B2")>>),
              Ex("and", <<D("B2"), D("B1")>>), Ex("xor", <<D("B2"), E(2)>>)>>,
   mls |-> FALSE, catorder |-> <<"c1", "c0">>, sensorder |-> <<"s0", "s1">>,
   catset |-> [cs |-> {"c0", "c1"}], sensCats |-> [s0 |-> {"c0"}, s1 |-> {"cs"}],
   disable_dontaudit |-> FALSE, disable_neverallow |-> FALSE, xen |-> FALSE,
   con |-> [k \in {"sid", "portcon", "netifcon", "nodecon", "fsuse", "genfscon",
                   "pirqcon", "iomemcon", "ioportcon", "pcidevicecon"} |-> <<>>]]

(* The first node of a name, but the second where a name has two: nodes of *)
(* a datum are listed in the order they were added, not by place           *)
WithNodes(base, body) ==
  LET Named(ns) == {i \in DOMAIN ns : "d" \in DOMAIN ns[i]}
      At2(ns, d) == {i \in Named(ns) : ns[i].d = d}
      Tree(ns) == [nodes |-> ns, head |-> [d \in {ns[i].d : i \in Named(ns)} |->
                     CHOOSE i \in At2(ns, d) : \A j \in At2(ns, d) : j <= i]] IN
  CHOOSE p \in {Tree(ns) @@ base : ns \in {Number(b) : b \in {body}}} : TRUE
Declared == Decl("typeattribute", "A1") \o Bnd("type", "T1", NULL) \o Bnd("type", "T2", NULL)
            \o Decl("typeattribute", "A2") \o Bnd("type", "T1", NULL) \o Decl("typeattribute", "A3")
            \o Decl("bool", "B2") \o Decl("bool", "B1")
            \o Bnd("type", "T3", NULL)
-----------------------------------------------------------------------------
(* Access vector rules and neverallows in either order                      *)
Nevers == {Av("neverallow", "A1", "A2", "L1"), Av("neverallow", "T2", "self", "L3"),
           Av("neverallow", "A1", "self", "L2"),
           Block(TRUE, Av("neverallow", "A1", "A1", "L2")), Av("neverallow", "A3", "A3", "L1"),
           Av("dontaudit", "T1", "A1", "L1"), Av("allow", "A3", "T1", "L0")}
Allows == {Av("allow", "T1", "T2", "L1"), Av("allow", "A1", "self", "L3"), Av("allow", "A2", "A1", "L2"),
           Av("dontaudit", "T1", "A1", "L2"), Av("auditallow", "A1", "T3", "L1"),
           Sized([op |-> "macro"], Av("allow", "T2", "T2", "L1")),
           Block(FALSE, Av("allow", "T3", "T1", "L1"))}
Conds ==  {If(1, Av("allow", "A1", "A2", "L3"), Av("dontaudit", "T1", "A1", "L1")),
           If(4, Av("allow", "T1", "T3", "L1"), <<>>),
           If(2, Sized([op |-> "call"], Av("allow", "T2", "T1", "L1")), Av("allow", "A1", "T3", "L2")),
           If(5, <<>>, Av("dontaudit", "T1", "T2", "L3") \o Av("auditallow", "T1", "T1", "L2")),
           If(3, Av("allow", "T3", "T3", "L2"), Sized([op |-> "tunableif"], Av("allow", "T3", "T2", "L1")))}
AccessPolicies ==
  {WithNodes([Base EXCEPT !.disable_dontaudit = (o = 3), !.disable_neverallow = (o = 4)],
     Declared \o (IF o = 1 THEN n \o x \o y ELSE x \o n \o y)) :
     n \in Nevers, x \in Allows \cup Conds, y \in Conds, o \in 1..2}
  \cup {WithNodes([Base EXCEPT !.disable_dontaudit = (o = 3), !.disable_neverallow = (o = 4)],
          Declared \o x \o n) : n \in Nevers, x \in Allows \cup Conds, o \in 3..4}
-----------------------------------------------------------------------------
(* Transitions that agree and disagree                                      *)
Tr(op, s, t, c, r) == St([op |-> op, src |-> s, tgt |-> t, class |-> c, result |-> r])
Nt(nm, s, t, c, r) == St([op |-> "nametypetransition", name |-> nm, src |-> s, tgt |-> t, class |-> c, result |-> r])
Ty(k, s, t, c, r) == St([op |-> "typerule", kind |-> k, src |-> s, tgt |-> t, class |-> c, result |-> r])
Rt(s, t, c, r)    == St([op |-> "rangetransition", src |-> s, tgt |-> t, class |-> c, range |-> r])
Df(w, cs, o)      == St([op |-> "default", which |-> w, classes |-> cs, object |-> o])
Range0 == Rng(Lvl("s0", {"c0"}), Lvl("s1", {"cs"}))
Range1 == Rng(Lvl("s0", {"c0"}), Lvl("s1", {"c0", "c1"}))
Range2 == Rng(Lvl("s0", {}), Lvl("s1", {"c1"}))
Transitions ==
  {Ty("transition", "A1", "T3", "C1", "T2"), Ty("transition", "T1", "T3", "M", "T2"),
   Ty("transition", "T1", "T3", "C1", "T3"), Ty("change", "T1", "T3", "C1", "T3"),
   Nt("*", "A1", "T3", "C2", "T1"), Nt("f", "A1", "A1", "C1", "T3"), Nt("f", "T2", "A2", "C1", "T2"),
   Nt("g", "T2", "A2", "C1", "T2"),
   Tr("roletransition", "RA", "A1", "C1", "R1"), Tr("roletransition", "R2", "T2", "C1", "R2"),
   Rt("A1", "T3", "C1", Range0), Rt("T2", "T3", "M", Range1), Rt("T2", "T3", "M", Range2),
   If(1, Ty("transition", "T1", "T3", "C1", "T2"), Ty("transition", "T1", "T3", "C1", "T3")),
   If(2, Nt("*", "T2", "T3", "C1", "T2"), Ty("member", "T2", "T3", "C1", "T3")),
   If(4, Ty("transition", "T1", "T3", "C1", "T2"), <<>>), If(4, Ty("transition", "T1", "T3", "C1", "T1"), <<>>), If(4, Nt("f", "T1", "T3", "C1", "T2"), <<>>),
   If(3, Ty("transition", "T1", "T3", "C1", "T1"), <<>>),
   Df("user", {"M"}, "source"), Df("user", {"C1"}, "target"), Df("range", {"C1"}, "source")}
TransPolicies ==
  {WithNodes([Base EXCEPT !.mls = TRUE],
     Bnd("role", "object_r", NULL) \o Bnd("role", "R2", NULL) \o Bnd("role", "R1", NULL) \o Declared
     \o x \o y) : x \in Transitions, y \in Transitions}
-----------------------------------------------------------------------------
(* Users, roles, levels and labels                                          *)
Usr(d, b, l, r) == St([op |-> "user", d |-> d, bounds |-> b, level |-> l, range |-> r])
Ctx(u, r, t)    == [user |-> u, role |-> r, type |-> t, range |-> Range2]
Cn(m, cs)       == [match |-> m, contexts |-> cs, family |-> m, fs |-> m]
Cns(s)          == [i \in DOMAIN s |-> Cn(s[i], <<Ctx("U2", "object_r", "T3")>>)]
PeoplePolicies ==
  {WithNodes([Base EXCEPT !.mls = mls, !.xen = xen, !.used = {"A1"},
       !.con = [k \in DOMAIN @ |->
                  CASE k = "sid" -> Cns(<<"kernel", "init">>)
                    [] k = "nodecon" -> Cns(<<"v6", "v4", "v6">>)
                    [] k = "genfscon" -> Cns(fs)
                    [] k = "netifcon" -> <<Cn("eth0", <<Ctx("U1", "R1", "T3"), Ctx("U2", "R2", "T1")>>)>>
                    [] OTHER -> Cns(<<"a">>)]],
     Bnd("role", "R2", b) \o Bnd("role", "object_r", NULL) \o Decl("typeattribute", "A1")
     \o Bnd("type", "T1", NULL) \o Bnd("type", "T2", "T1") \o Bnd("type", "T3", NULL)
     \o Usr("U2", "U1", Lvl("s1", {"cs"}), Range0) \o Usr("U1", NULL, Lvl("s0", {}), Range2)
     \o Decl("sens", "s1") \o Decl("sens", "s0") \o Decl("policycap", pc)
     \o St([op |-> "catalias", d |-> "ca", actual |-> "c0"])
     \o St([op |-> "sensalias", d |-> "sa", actual |-> "s1"])
     \o St([op |-> "typealias", d |-> "ta", actual |-> "T3"])
     \o St([op |-> "typepermissive", type |-> "T2"])
     \o St([op |-> "userrole", user |-> "U1", role |-> ur])
     \o St([op |-> "userrole", user |-> "U2", role |-> "R1"])
     \o St([op |-> "roleallow", src |-> "RA", tgt |-> ur]) \o Bnd("role", "R1", NULL)) :
     mls \in BOOLEAN, xen \in BOOLEAN, b \in {NULL, "R1"}, pc \in {"P", "Q"}, ur \in {"R1", "RA"},
     fs \in {<<"x", "x", "y">>, <<"x">>}}
-----------------------------------------------------------------------------
(* Constraints                                                              *)
ConsExprs ==
  <<Lf("eq", "t1", "t2", NULL), Lf("neq", "t1", NULL, {"A1"}), Lf("eq", "u1", NULL, {"U1"}),
    Lf("dom", "l1", "h2", NULL), Lf("domby", "h1", "h2", NULL), Lf("eq", "r2", NULL, {"RA"}),
    Ex("and", <<E(1), E(9)>>), Ex("not", <<E(10)>>), Ex("or", <<E(2), E(3)>>),
    Ex("or", <<E(4), E(11)>>), Ex("and", <<E(5), E(12)>>), Ex("not", <<E(6)>>),
    Lf("neq", "t3", NULL, {"A3", "T2"}), Lf("neq", "l2", "h2", NULL), Lf("eq", "h1", "l2", NULL)>>
Constrains == {St([op |-> "constrain", list |-> l, expr |-> e]) : l \in {"L1", "L3"}, e \in {7, 9}}
        \cup {St([op |-> "mlsconstrain", list |-> "L2", expr |-> e]) : e \in {8, 11, 14}}
        \cup {St([op |-> "validatetrans", class |-> "C1", expr |-> 13]),
              St([op |-> "mlsvalidatetrans", class |-> "M", expr |-> 15])}
ConsPolicies ==
  {WithNodes([Base EXCEPT !.expr = ConsExprs, !.mls = mls, !.used = {"A1", "A3"},
                          !.valTo = [type |-> <<"T1", "T2">>, role |-> <<"object_r", "R1">>],
                          !.bits = [A1 |-> {0}, A3 |-> {}, RA |-> {1}],
                          !.types = [object_r |-> {}, R1 |-> {1}]],
     Decl("typeattribute", "A1") \o Bnd("type", "T1", NULL) \o Decl("typeattribute", "A3")
     \o Bnd("type", "T2", NULL) \o Bnd("role", "R1", NULL)
     \o Usr("U2", NULL, Lvl("s1", {"cs"}), Range0) \o Usr("U1", NULL, Lvl("s0", {}), Range2)
     \o x \o y) : x \in Constrains, y \in Constrains, mls \in {TRUE}}

(* Names that are declared in an abstract block only                        *)
Ghosts ==
  {Av("allow", "T4", "T1", "L1"), Ty("transition", "T1", "T2", "C1", "T4"),
   Nt("f", "T1", "T2", "C1", "T4"), Tr("roletransition", "RA", "A1", "C1", "R3"), If(6, Av("allow", "T1", "T1", "L1"), <<>>),
   If(1, Av("allow", "T1", "T4", "L1"), <<>>), If(1, Ty("transition", "T1", "T2", "C1", "T4"), <<>>),
   St([op |-> "typepermissive", type |-> "T4"]), St([op |-> "typealias", d |-> "ta", actual |-> "T4"]),
   St([op |-> "userrole", user |-> "U3", role |-> "R1"]), Bnd("type", "T5", "T4"), Bnd("role", "R5", "R3"),
   Usr("U1", "U3", Lvl("s0", {}), Range2),
   St([op |-> "constrain", list |-> "L1", expr |-> 7]), St([op |-> "validatetrans", class |-> "C1", expr |-> 8])}
GhostPolicies ==
  {WithNodes([Base EXCEPT !.flavor = [d \in {"T4", "T5"} |-> "type"] @@ [d \in {"R3", "R5"} |-> "role"] @@ @,
                          !.value = [d \in {"T4", "T5", "R3", "R5"} |-> 0] @@ @,
                          !.types = [d \in {"R3", "R5"} |-> {}] @@ @,
                          !.boolValue = [B3 |-> TRUE] @@ @,
                          !.expr = @ \o <<Ex("list", <<D("B3")>>), Lf("eq", "t1", NULL, {"T4"}),
                                          Lf("eq", "u1", NULL, {"U3"})>>],
     Block(TRUE, Bnd("type", "T4", NULL) \o Bnd("role", "R3", NULL) \o Decl("bool", "B3"))
     \o Bnd("role", "object_r", NULL) \o Bnd("role", "R1", NULL) \o Bnd("role", "R2", NULL)
     \o Declared \o x) : x \in Ghosts}
  \cup {WithNodes([Base EXCEPT !.con = [k \in DOMAIN @ |->
                                IF k = "fsuse" THEN Cns(<<"a">>) ELSE <<>>]], Declared)}

(* A role that only stands in an abstract block, named from outside         *)
GhostRolePolicies ==
  {WithNodes([Base EXCEPT !.flavor = [d \in {"R3"} |-> "role"] @@ @, !.value = [d \in {"R3"} |-> 0] @@ @,
                          !.types = [d \in {"R3"} |-> {}] @@ @],
     Declared \o Block(TRUE, Bnd("role", "R3", NULL)) \o Bnd("role", "R1", NULL)
     \o Bnd("role", "object_r", NULL) \o Bnd("role", "R2", NULL) \o St([op |-> "roleallow", src |-> "R1", tgt |-> "R3"]))}

(* One expression over two booleanifs, three rules for one key              *)
CondPolicies ==
  {WithNodes(Base, Declared \o If(1, Ty("transition", "T1", "T3", "C1", x), Ty("transition", "T1", "T3", "C1", y))
                            \o If(e, Ty("transition", "T1", "T3", "C1", z), <<>>)) :
     x, y, z \in {"T1", "T2", "T3"}, e \in {3, 4}}

BinaryPolicies == GhostPolicies \cup AccessPolicies \cup TransPolicies \cup PeoplePolicies \cup ConsPolicies
=============================================================================
