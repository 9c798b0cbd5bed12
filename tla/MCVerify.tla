------------------------------ MODULE MCVerify ------------------------------
(* Small evaluated policies for CilVerify *)
EXTENDS CilVerify

Nd(kind, d) == [kind |-> kind, d |-> d, last |-> 0]
Box(kind, body) == <<[kind |-> kind, d |-> NULL, last |-> Len(body)]>> \o body
Number(p) == [n \in DOMAIN p |-> [p[n] EXCEPT !.last = n + @]]

Base == [nodes |-> <<>>, order |-> <<"s0", "s1", "s2">>,
         senscats |-> [s0 |-> NULL, s1 |-> <<{"a"}, {"b"}>>, s2 |-> <<{"a", "b"}, {}>>],
         given |-> [handleunknown |-> -1, mls |-> -1],
         bounds |-> [U |-> NULL, R |-> NULL, T |-> "R"], range |-> <<>>, user |-> <<>>,
         types |-> <<>>, context |-> <<>>]

(* A user and a port context, whose ranges and whose context have names or  *)
(* not; the context may be declared in an abstract block                    *)
Sens == {"s0", "s1", "s2"}
Rg(ls, lc, hs, hc, named) ==
  [lowSens |-> ls, lowCats |-> lc, highSens |-> hs, highCats |-> hc, named |-> named]
CatPairs == {<<NULL, NULL>>, <<NULL, {"a"}>>, <<{"a"}, {"a", "b"}>>, <<{"b"}, {"a"}>>,
             <<{"a"}, NULL>>, <<{}, {"a"}>>}
Declare(named, decl) == IF named THEN decl ELSE <<>>
ContextPolicy(ur, cr, ctxNamed, wrap, roles, types) ==
  [Base EXCEPT
     !.nodes = Number(<<Nd("avrule", NULL), Nd("portcon", <<"C">>)>>
                      \o Declare(ctxNamed, IF wrap THEN Box("abstractblock", <<Nd("context", "C")>>)
                                           ELSE <<Nd("context", "C")>>)
                      \o <<Nd("user", "U")>> \o Declare(cr.named, <<Nd("levelrange", "cr")>>)
                      \o Declare(ur.named, <<Nd("levelrange", "ur")>>) \o <<Nd("role", "R")>>),
     !.range = [r \in {"ur", "cr"} |-> IF r = "ur" THEN ur ELSE cr],
     !.user = [u \in {"U"} |-> [level |-> "l", range |-> "ur", roles |-> roles]],
     !.types = [r \in {"R", "Q"} |-> types],
     !.context = [c \in {"C"} |-> [user |-> "U", role |-> "R", type |-> 0, range |-> "cr",
                                   named |-> ctxNamed]]]
RangePolicies ==
  {ContextPolicy(Rg(ul, NULL, uh, {"a", "b"}, un), Rg(cl, c[1], ch, c[2], cn), n, w, {"R"}, {0}) :
     ul \in {"s0", "s1"}, uh \in {"s1", "s2"}, un \in BOOLEAN, cl \in Sens, ch \in Sens,
     c \in CatPairs, cn \in BOOLEAN, n \in BOOLEAN, w \in {FALSE}}
RolePolicies ==
  {ContextPolicy(Rg("s1", NULL, "s2", NULL, FALSE), Rg("s1", NULL, "s1", NULL, FALSE), n, w, r, t) :
     n \in BOOLEAN, w \in BOOLEAN, r \in {NULL, {"Q"}, {"Q", "R"}}, t \in {NULL, {1}, {0, 1}}}
NoLevelPolicies ==
  {[p EXCEPT !.user["U"].level = NULL] : p \in {q \in RolePolicies : q.user["U"].roles = {"Q"}}}

(* Bounds of four types, in every shape *)
BoundsPolicies ==
  {[Base EXCEPT !.nodes = Number([i \in 1..5 |-> IF i = 5 THEN Nd("avrule", NULL) ELSE Nd("type", i)]),
                !.bounds = b] : b \in [1..4 -> 1..4 \cup {NULL}]}

(* Any three of the other statements *)
Pieces ==
  {<<Nd("avrule", NULL)>>, <<Nd("neverallow", NULL)>>, <<Nd("mls", 1)>>, <<Nd("handleunknown", 2)>>,
   <<Nd("selinuxuserdefault", NULL)>>, <<Nd("class", FALSE)>>, <<Nd("policycap", TRUE)>>,
   Box("booleanif", <<Nd("call", NULL), Nd("avrule", NULL)>>), Box("booleanif", <<Nd("neverallow", NULL)>>),
   Box("booleanif", <<Nd("type", "T")>>), Box("macro", <<Nd("avrule", NULL)>>)}
StatementPolicies ==
  {[Base EXCEPT !.nodes = Number(a \o b \o c), !.given = [handleunknown |-> g[1], mls |-> g[2]]] :
     a, b, c \in Pieces, g \in {<<-1, -1>>, <<1, -1>>, <<-1, 0>>, <<4, 1>>}}

VerifyPolicies == RangePolicies \cup RolePolicies \cup NoLevelPolicies \cup BoundsPolicies \cup StatementPolicies
=============================================================================
