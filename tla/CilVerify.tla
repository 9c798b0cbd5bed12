----------------------------- MODULE CilVerify -----------------------------
(***************************************************************************)
(* cil_post_verify: the two walks of __cil_verify_helper over the database *)
(* that post processing has evaluated, and the settings they leave         *)
(* (src/src/cil_verify.c, cil_post_verify in src/src/cil_post.c).          *)
(*                                                                         *)
(* A policy is a sequence of nodes in document order, the nodes below n at *)
(* n+1 .. last, and the data behind them:                                  *)
(*   order     db->sensitivityorder                                        *)
(*   senscats  the list of category sets of a sensitivity, NULL for none   *)
(*   bounds    user->bounds, role->bounds, type->bounds                    *)
(*   range     level ranges: two sensitivities, two category sets, each    *)
(*             NULL if the level has none, and whether it has a name       *)
(*   user      a user's default level, range and roles, any of them NULL   *)
(*   types     role->types by role, NULL or a set                          *)
(*   context   user, role, type, range and whether it has a name           *)
(*   given     what the caller set before with cil_set_handle_unknown and   *)
(*             cil_set_mls, -1 for nothing                                  *)
(* A set of categories that was evaluated to nothing has a NULL list.      *)
(***************************************************************************)
EXTENDS Integers, Sequences, SequencesExt, FiniteSets

CONSTANTS NULL, Policies

VARIABLES policy,
          status,    \* "walk" | "bounds" | "ok" | "err" | "undefined"
          pass,      \* 0 or 1
          cur,       \* the node the walk comes to next
          u1, u2, steps, limit,   \* the search for circular bounds
          avrules,   \* avrule_cnt
          defaults,  \* nseuserdflt
          setting,   \* handleunknown and mls, -1 before a statement is met
          db         \* db->handle_unknown and db->mls

search == <<u1, u2, steps, limit>>
found  == <<avrules, defaults, setting, db>>
vars   == <<policy, status, pass, cur, search, found>>

Node == 1..Len(policy.nodes)
Here == policy.nodes[cur]
Bounded == {"user", "role", "type"}
Labelling == {"netifcon", "genfscon", "filecon", "nodecon", "portcon", "pirqcon",
              "iomemcon", "ioportcon", "pcidevicecon", "fsuse"}

(* What the parser, the builder and post processing leave behind: the nodes *)
(* below a node end with it, a bound is a datum of the same kind, and every *)
(* sensitivity is once in the order                                         *)
IsPolicy(p) ==
  /\ Len(p.nodes) \in Nat
  /\ \A n \in 1..Len(p.nodes) :
       LET here == p.nodes[n]
       IN  /\ here.last \in n..Len(p.nodes)
           /\ \A m \in n..here.last : p.nodes[m].last <= here.last
           /\ here.kind \in Bounded => here.d \in DOMAIN p.bounds
           /\ here.kind \in Labelling => here.d \in Seq(DOMAIN p.context)
           /\ here.kind \in {"handleunknown", "mls"} => here.d \in Nat
  /\ p.given \in [{"handleunknown", "mls"} -> Nat \cup {-1}]
  /\ p.bounds \in [DOMAIN p.bounds -> DOMAIN p.bounds \cup {NULL}] /\ NULL \notin DOMAIN p.bounds
  /\ Len(p.order) \in Nat /\ DOMAIN p.order = 1..Len(p.order)
  /\ \A i, j \in DOMAIN p.order : p.order[i] = p.order[j] => i = j

ASSUME PoliciesAssumption == \A p \in Policies : IsPolicy(p)

Init ==
  /\ policy \in Policies
  /\ status = "walk" /\ pass = 0 /\ cur = 1
  /\ u1 = NULL /\ u2 = NULL /\ steps = 0 /\ limit = 0
  /\ avrules = 0 /\ defaults = 0
  /\ setting = [handleunknown |-> -1, mls |-> -1] /\ db = policy.given
-----------------------------------------------------------------------------
(* The walk *)

At(p, kinds) == status = "walk" /\ pass = p /\ cur \in Node /\ Here.kind \in kinds
GoOn == status' = "walk" /\ cur' = cur + 1
Stop(outcome) == status' = outcome /\ cur' = cur
Outcome(r) == IF r = "ok" THEN GoOn ELSE Stop(r)

SkippedKind == {"macro", "abstractblock"}
Handled ==
  <<Bounded \cup {"selinuxuserdefault", "avrule", "neverallow", "handleunknown", "mls", "booleanif",
                  "levelrange", "class", "policycap"},
    Labelling \cup {"context"}>>

Skip ==
  /\ status = "walk" /\ cur \in Node /\ Here.kind \in SkippedKind
  /\ cur' = Here.last + 1
  /\ UNCHANGED <<policy, status, pass, search, found>>

PassBy ==
  /\ status = "walk" /\ cur \in Node /\ Here.kind \notin SkippedKind \cup Handled[pass + 1]
  /\ GoOn
  /\ UNCHANGED <<policy, pass, search, found>>

EndWalk ==
  /\ status = "walk" /\ pass = 0 /\ cur \notin Node
  /\ pass' = 1 /\ cur' = 1
  /\ UNCHANGED <<policy, status, search, found>>
-----------------------------------------------------------------------------
(* Level ranges *)

Position(s) == CHOOSE i \in DOMAIN policy.order : policy.order[i] = s

VerifySensitivity_Either(r) == r.lowSens \in ToSet(policy.order) /\ r.highSens \in ToSet(policy.order)

(* __cil_verify_levelrange_sensitivity *)
VerifySensitivity(r) ==
  \E i, j \in DOMAIN policy.order : i <= j /\ policy.order[i] = r.lowSens /\ policy.order[j] = r.highSens

(* __cil_verify_levelrange_cats; an empty set is a NULL list *)
VerifyCats(low, high) ==
  CASE low = NULL -> "ok"
    [] low # NULL /\ high = NULL -> "err"
    [] OTHER -> IF low = {} \/ high = {} THEN "undefined"
                ELSE IF low \subseteq high THEN "ok" ELSE "err"

(* __cil_verify_cats_associated_with_sens; the sets are looked through in   *)
(* order, up to the first that has the category, and an empty one before    *)
(* that is followed as a NULL list                                          *)
AllCats(sets) == UNION {sets[i] : i \in DOMAIN sets}
MeetsEmpty(cat, sets) ==
  \E i \in DOMAIN sets : sets[i] = {} /\ \A j \in DOMAIN sets : j < i => cat \notin sets[j]
VerifyAssociated(sens, cats) ==
  LET sets == policy.senscats[sens]
  IN  CASE cats = NULL -> "ok"
        [] cats # NULL /\ sets = NULL -> "err"
        [] OTHER -> IF cats = {} \/ \E cat \in cats : MeetsEmpty(cat, sets) THEN "undefined"
                    ELSE IF cats \subseteq AllCats(sets) THEN "ok" ELSE "err"

FirstFailure(rs) ==
  LET bad == {i \in DOMAIN rs : rs[i] # "ok"} IN IF bad = {} THEN "ok" ELSE rs[Min(bad)]

(* __cil_verify_levelrange *)
VerifyLevelrange(r) ==
  FirstFailure(<<IF VerifySensitivity(r) THEN "ok" ELSE "err",
                 VerifyCats(r.lowCats, r.highCats),
                 VerifyAssociated(r.lowSens, r.lowCats),
                 VerifyAssociated(r.highSens, r.highCats)>>)

VisitLevelrange ==
  /\ At(0, {"levelrange"})
  /\ Outcome(VerifyLevelrange(policy.range[Here.d]))
  /\ UNCHANGED <<policy, pass, search, found>>
-----------------------------------------------------------------------------
(* Users, roles and types: __cil_verify_user, _role and _type *)

(* A user's range is verified here only if it has no name *)
AfterBounds ==
  IF Here.kind = "user" /\ ~ policy.range[policy.user[Here.d].range].named
  THEN Outcome(VerifyLevelrange(policy.range[policy.user[Here.d].range]))
  ELSE GoOn

VisitBounded ==
  /\ At(0, Bounded)
  /\ IF Here.kind = "user" /\ NULL \in {policy.user[Here.d].level, policy.user[Here.d].range}
     THEN Stop("err") /\ UNCHANGED search
     ELSE /\ status' = "bounds" /\ cur' = cur
          /\ u1' = Here.d /\ u2' = policy.bounds[Here.d] /\ steps' = 0 /\ limit' = 2
  /\ UNCHANGED <<policy, pass, found>>

FollowBounds_Fixed ==
  /\ status = "bounds" /\ u2 # NULL
  /\ IF u1 = u2 THEN Stop("err") /\ UNCHANGED search
     ELSE u2' = policy.bounds[u2] /\ UNCHANGED <<status, cur, u1, steps, limit>>
  /\ UNCHANGED <<policy, pass, found>>

FollowBounds_GivesUp ==
  /\ status = "bounds" /\ u2 # NULL
  /\ IF u1 = u2 THEN Stop("err") /\ UNCHANGED search
     ELSE /\ u2' = IF steps = limit THEN NULL ELSE policy.bounds[u2]
          /\ steps' = steps + 1
          /\ UNCHANGED <<status, cur, u1, limit>>
  /\ UNCHANGED <<policy, pass, found>>

(* One round of the loop over the bounds: u1 stays behind and catches up   *)
(* with u2 every time the steps reach a limit, which is then doubled       *)
FollowBounds ==
  /\ status = "bounds" /\ u2 # NULL
  /\ IF u1 = u2 THEN Stop("err") /\ UNCHANGED search
     ELSE /\ u1' = IF steps = limit THEN u2 ELSE u1
          /\ steps' = (IF steps = limit THEN 0 ELSE steps) + 1
          /\ limit' = IF steps = limit THEN 2 * limit ELSE limit
          /\ u2' = policy.bounds[u2]
          /\ UNCHANGED <<status, cur>>
  /\ UNCHANGED <<policy, pass, found>>

EndBounds ==
  /\ status = "bounds" /\ u2 = NULL
  /\ AfterBounds
  /\ UNCHANGED <<policy, pass, search, found>>
-----------------------------------------------------------------------------
(* The other statements of the first walk *)

(* A neverallow is an avrule too *)
CountAvrule ==
  /\ At(0, {"avrule", "neverallow"})
  /\ avrules' = avrules + 1
  /\ GoOn
  /\ UNCHANGED <<policy, pass, search, defaults, setting, db>>

CountDefault ==
  /\ At(0, {"selinuxuserdefault"})
  /\ defaults' = defaults + 1
  /\ GoOn
  /\ UNCHANGED <<policy, pass, search, avrules, setting, db>>

(* handleunknown and mls: at most one of each *)
ReadSetting ==
  /\ At(0, {"handleunknown", "mls"})
  /\ IF setting[Here.kind] # -1
     THEN Stop("err") /\ UNCHANGED setting
     ELSE setting' = [setting EXCEPT ![Here.kind] = Here.d] /\ GoOn
  /\ UNCHANGED <<policy, pass, search, avrules, defaults, db>>

AllowedInBooleanif == {"avrule", "typerule", "call", "tunableif", "nametypetransition"}

VisitBooleanif_Enters ==
  /\ At(0, {"booleanif"})
  /\ IF \A n \in (cur + 1)..Here.last : policy.nodes[n].kind \in AllowedInBooleanif
     THEN GoOn
     ELSE Stop("err")
  /\ UNCHANGED <<policy, pass, search, found>>

(* __cil_verify_booleanif walks what is in the two branches, which are no   *)
(* nodes of their own here; the walk then goes on behind it, so the rules   *)
(* in it are not counted                                                    *)
VisitBooleanif ==
  /\ At(0, {"booleanif"})
  /\ IF \A n \in (cur + 1)..Here.last : policy.nodes[n].kind \in AllowedInBooleanif
     THEN status' = status /\ cur' = Here.last + 1
     ELSE Stop("err")
  /\ UNCHANGED <<policy, pass, search, found>>

(* __cil_verify_class and __cil_verify_policycap.  d is whether a class    *)
(* repeats a permission of its common, or a capability is one libsepol     *)
(* does not know                                                           *)
VisitClassOrPolicycap ==
  /\ At(0, {"class", "policycap"})
  /\ IF Here.d THEN Stop("err") ELSE GoOn
  /\ UNCHANGED <<policy, pass, search, found>>
-----------------------------------------------------------------------------
(* Contexts, in the second walk *)

(* The walk along the sensitivities in __cil_verify_context.  The context's *)
(* range fails if its low comes before the user's, or its high does not     *)
(* come up before the user's high is passed                                 *)
RangeWithinUser(user, ctx) ==
  LET ord == policy.order
      lows == {i \in DOMAIN ord : ord[i] \in {user.lowSens, ctx.lowSens}}
      start == Min(lows)
      highs == {i \in DOMAIN ord : i >= start /\ ord[i] \in {user.highSens, ctx.highSens}}
  IN  \/ lows = {}
      \/ /\ ord[start] = user.lowSens
         /\ highs = {} \/ ord[Min(highs)] = ctx.highSens

(* __cil_verify_context *)
VerifyContext(c) ==
  LET user == policy.user[c.user]
      range == policy.range[c.range]
  IN  FirstFailure(
        <<IF user.roles # NULL /\ c.role \in user.roles THEN "ok" ELSE "err",
          IF policy.types[c.role] # NULL /\ c.type \in policy.types[c.role] THEN "ok" ELSE "err",
          IF range.named THEN "ok" ELSE VerifyLevelrange(range),
          IF RangeWithinUser(policy.range[user.range], range) THEN "ok" ELSE "err">>)

(* Here.d are the contexts of the statement: two for netifcon, none for a  *)
(* filecon with an empty context.  A named one is verified where it is     *)
(* declared                                                                *)
VisitLabelling ==
  /\ At(1, Labelling)
  /\ Outcome(FirstFailure([i \in DOMAIN Here.d |->
               IF policy.context[Here.d[i]].named THEN "ok"
               ELSE VerifyContext(policy.context[Here.d[i]])]))
  /\ UNCHANGED <<policy, pass, search, found>>

VisitContext ==
  /\ At(1, {"context"})
  /\ Outcome(VerifyContext(policy.context[Here.d]))
  /\ UNCHANGED <<policy, pass, search, found>>
-----------------------------------------------------------------------------
(* The end of cil_post_verify: what the caller has set stays, what neither  *)
(* the caller nor a statement has set gets a default                        *)
Finish_IgnoresCaller ==
  /\ status = "walk" /\ pass = 1 /\ cur \notin Node
  /\ db' = [k \in DOMAIN db |-> IF setting[k] = -1 THEN 0 ELSE setting[k]]
  /\ Stop(IF avrules = 0 \/ defaults > 1 THEN "err" ELSE "ok")
  /\ UNCHANGED <<policy, pass, search, avrules, defaults, setting>>

Finish ==
  /\ status = "walk" /\ pass = 1 /\ cur \notin Node
  /\ db' = [k \in DOMAIN db |-> IF db[k] # -1 THEN db[k]
                                ELSE IF setting[k] = -1 THEN 0 ELSE setting[k]]
  /\ Stop(IF avrules = 0 \/ defaults > 1 THEN "err" ELSE "ok")
  /\ UNCHANGED <<policy, pass, search, avrules, defaults, setting>>

Terminal == status \in {"ok", "err", "undefined"} /\ UNCHANGED vars

Step ==
  \/ Skip \/ PassBy \/ EndWalk
  \/ VisitBounded \/ FollowBounds \/ EndBounds
  \/ CountAvrule \/ CountDefault \/ ReadSetting
  \/ VisitBooleanif \/ VisitLevelrange \/ VisitClassOrPolicycap
  \/ VisitLabelling \/ VisitContext
  \/ Finish
Next == Step \/ Terminal

Spec == Init /\ [][Next]_vars /\ WF_vars(Step)
-----------------------------------------------------------------------------
(* Properties *)

Live(n) == \A s \in Node : policy.nodes[s].kind \in SkippedKind
                             => n \notin s..policy.nodes[s].last
LiveNodes(kinds) == {n \in Node : Live(n) /\ policy.nodes[n].kind \in kinds}
InBooleanif == UNION {(n + 1)..policy.nodes[n].last : n \in LiveNodes({"booleanif"})}

(* What lies above d along its bounds: what is in every set that holds the  *)
(* bound of d and the bound of each of its members                          *)
Above(d) ==
  {x \in DOMAIN policy.bounds :
     \A S \in SUBSET DOMAIN policy.bounds :
       (\A y \in S \cup {d} : policy.bounds[y] \in S \cup {NULL}) => x \in S}

(* __cil_verify_user, _role and _type: "Circular bounds found" is reported  *)
(* when the bounds of what is verified lead into a circle, also one that    *)
(* does not come back to it, and never otherwise                            *)
BoundsExact ==
  /\ status = "err" /\ u2 # NULL /\ u1 = u2 => \E x \in Above(Here.d) : x \in Above(x)
  /\ status = "ok" => \A n \in LiveNodes(Bounded) : \A x \in Above(policy.nodes[n].d) : x \notin Above(x)

RangeOk(r) ==
  /\ Position(r.lowSens) <= Position(r.highSens)
  /\ r.lowCats # NULL => r.highCats # NULL /\ r.lowCats \subseteq r.highCats
  /\ \A l \in {<<r.lowSens, r.lowCats>>, <<r.highSens, r.highCats>>} :
       l[2] # NULL => policy.senscats[l[1]] # NULL /\ l[2] \subseteq AllCats(policy.senscats[l[1]])

DeclaredLive(kind, d) == \E n \in LiveNodes({kind}) : policy.nodes[n].d = d
(* The named things that context c leads to are outside every macro and     *)
(* abstract block: the walks do not come to the others                      *)
Reached(c) ==
  LET context == policy.context[c]
      ranges == {context.range, policy.user[context.user].range}
  IN  /\ DeclaredLive("user", context.user)
      /\ context.named => DeclaredLive("context", c)
      /\ \A r \in ranges : policy.range[r].named => DeclaredLive("levelrange", r)

(* __cil_verify_context: in an accepted policy every context that a         *)
(* labelling statement uses has a role of its user, a type of its role, a   *)
(* range in order with categories its sensitivities may have, and           *)
(* sensitivities within those of the user, wherever the named parts are     *)
(* declared and in whatever order                                           *)
ContextsValid ==
  status = "ok" =>
    \A n \in LiveNodes(Labelling) : \A i \in DOMAIN policy.nodes[n].d :
      LET c == policy.context[policy.nodes[n].d[i]]
          user == policy.user[c.user]
          ur == policy.range[user.range]
          cr == policy.range[c.range]
      IN  Reached(policy.nodes[n].d[i]) =>
          /\ c.role \in user.roles /\ c.type \in policy.types[c.role]
          /\ RangeOk(ur) /\ RangeOk(cr)
          /\ Position(ur.lowSens) <= Position(cr.lowSens)
          /\ Position(cr.highSens) <= Position(ur.highSens)

(* __cil_verify_booleanif and the walk around it: an accepted policy has a  *)
(* rule outside every booleanif, nothing in a booleanif that cannot be      *)
(* switched, and at most one default mapping, mls and handleunknown.  The   *)
(* caller's mls and handleunknown (secilc -M and -U) go before those of the *)
(* policy, which go before the defaults                                     *)
StatementsValid ==
  status = "ok" =>
    /\ LiveNodes({"avrule", "neverallow"}) \ InBooleanif # {}
    /\ \A n \in InBooleanif : policy.nodes[n].kind \in AllowedInBooleanif
    /\ \A k \in {"selinuxuserdefault", "mls", "handleunknown"} :
         Cardinality(LiveNodes({k}) \ InBooleanif) <= 1
    /\ \A k \in {"mls", "handleunknown"} :
         IF policy.given[k] # -1 THEN db[k] = policy.given[k]
         ELSE /\ \A n \in LiveNodes({k}) : db[k] = policy.nodes[n].d
              /\ LiveNodes({k}) = {} => db[k] = 0

(* Verification ends, whatever the bounds look like *)
Terminates == <>(status \in {"ok", "err", "undefined"})
=============================================================================
