---------------------------- MODULE CilImplements ----------------------------
(***************************************************************************)
(* CilResolve, with its passes, its stack of optionals and its restarts,   *)
(* implements CilOptionals.  The operators read the policy off the tree a. *)
(***************************************************************************)
EXTENDS CilResolve

NodesIn(a) == DOMAIN a
BodyIn(a, o) == (o + 1)..a[o].last

(* n is in a macro or an abstract block, which are only copied from *)
TemplateIn(a, n) == \E s \in DOMAIN a : n \in BodyIn(a, s) /\ a[s].kind \in SkippedKind

ResolvedIn(a, n) == a[n].kind \notin PlainKind /\ ~ TemplateIn(a, n)
OptionalsIn(a) == {n \in DOMAIN a : a[n].kind = "optional" /\ ~ TemplateIn(a, n)}
TwinsIn(a, o) == {p \in OptionalsIn(a) : a[p].decl = a[o].decl}

(* The resolved statements of which p is the innermost optional *)
OwnIn(a, p) == {n \in BodyIn(a, p) : /\ ResolvedIn(a, n)
                                     /\ \A q \in OptionalsIn(a) : n \in BodyIn(a, q) => q <= p}

(* An argument of a call is found whenever the call is *)
Declaring(a, name) ==
  IF name.call # 0 THEN DOMAIN a
  ELSE {n \in DOMAIN a : a[n].decl \in ToSet(name.scopes)}
NeedsIn(a, n) ==
  IF ResolvedIn(a, n) THEN {Declaring(a, name) : name \in ToSet(a[n].names)} ELSE {}

VerdictOf == CASE status = "ok" -> "accepted"
               [] status \in {"err", "undefined"} -> "refused"
               [] OTHER -> "open"

Abstract == INSTANCE CilOptionals
              WITH Statements <- NodesIn, Optionals <- OptionalsIn, Body <- BodyIn,
                   Twins <- TwinsIn, Own <- OwnIn, Needs <- NeedsIn,
                   policy <- ast, left <- alive, verdict <- VerdictOf

(* Resolution drops an optional only when one of its own statements lacks  *)
(* a name in the tree at that moment, destroys nothing else, accepts only  *)
(* when no statement left lacks a name and no optional that was dropped    *)
(* has a statement left, and comes to a verdict (cil_resolve_ast with its  *)
(* helpers, against the meaning of optionals).                             *)
Implements == Abstract!Spec
=============================================================================
