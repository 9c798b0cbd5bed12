------------------------------ MODULE MCResolve ------------------------------
(***************************************************************************)
(* Small policies for CilResolve.  A policy is written as a sequence of    *)
(* nodes that say how many nodes are below them and, for a macro argument, *)
(* how far back the call is; Build numbers them.                           *)
(***************************************************************************)
EXTENDS CilResolve

MCFlavor ==
  [S |-> "sid", T0 |-> "type", T1 |-> "type", T2 |-> "type", T3 |-> "type",
   M |-> "type", O1 |-> "optional", O2 |-> "optional", O3 |-> "optional",
   A |-> "attribute", A1 |-> "attribute", L |-> "alias", L2 |-> "alias",
   U |-> "user", R |-> "role", RA |-> "roleattribute", SE |-> "sens",
   K |-> "cat", K2 |-> "cat", KS |-> "catset", C |-> "class", CO |-> "common",
   CP |-> "classpermission", IP |-> "ipv4", IP6 |-> "ipv6", B |-> "bool",
   C2 |-> "class", G |-> "block"]
MCDatum == DOMAIN MCFlavor
MCNumPerms == [d \in MCDatum |-> CASE d = "CO" -> 2 [] d \in {"C", "C2"} -> 1 [] OTHER -> 0]

Name(scopes) == [call |-> 0, arg |-> 0, scopes |-> scopes]
Arg(back, i) == [call |-> back, arg |-> i, scopes |-> <<>>]
Plain(ns)    == [i \in DOMAIN ns |-> Name(<<ns[i]>>)]

Nd(kind, decl, names, size) ==
  [kind |-> kind, decl |-> decl, names |-> names, size |-> size]
Decl(d)       == <<Nd("decl", d, <<>>, 0)>>
Stmt(k, ns)   == <<Nd(k, NoDatum, ns, 0)>>
Box(k, d, ns, body) == <<Nd(k, d, ns, Len(body))>> \o body
Opt(d, body)  == Box("optional", d, <<>>, body)

Build(p) ==
  [n \in DOMAIN p |->
     [kind |-> p[n].kind, decl |-> p[n].decl, last |-> n + p[n].size,
      names |-> [i \in DOMAIN p[n].names |->
                   [p[n].names[i] EXCEPT !.call = IF @ = 0 THEN 0 ELSE n - @]]]]

Sid == Decl("S") \o Stmt("sidorder", Plain(<<"S">>)) \o Stmt("sidcontext", Plain(<<"S">>))
=============================================================================
