---------------------------- MODULE CilOptionals ----------------------------
(***************************************************************************)
(* What resolution promises about optionals, without passes, walks, stacks *)
(* or restarts.  Statements need declarations; an optional is dropped as a *)
(* whole when one of its own statements lacks one, in no particular order; *)
(* a policy is accepted when nothing that is left lacks anything.  An      *)
(* optional that was dropped with the optional around it, before its own   *)
(* statements were looked at, need not take its twins along.               *)
(***************************************************************************)
CONSTANTS Statements(_),   \* the statements of a policy
          Optionals(_),    \* its optionals
          Body(_, _),      \* the statements inside an optional
          Twins(_, _),     \* the optionals that share its datum, itself included
          Own(_, _),       \* the statements of which it is the innermost optional
          Needs(_, _)      \* the names of a statement, each as the set of the
                           \* statements that declare what it may mean

VARIABLES policy,   \* the policy
          left,     \* the statements that have not been dropped
          verdict   \* "open" | "accepted" | "refused"

vars == <<policy, left, verdict>>

Satisfied(n) == \A name \in Needs(policy, n) : name \cap left # {}
Lacks(p) == \E n \in Own(policy, p) : ~ Satisfied(n)

(* A statement decides over its innermost optional and the twins of that *)
Lacking(o) == \E p \in Twins(policy, o) : Lacks(p)

Init == left = Statements(policy) /\ verdict = "open"

Drop(o) ==
  /\ verdict = "open" /\ Lacking(o)
  /\ left' = left \ Body(policy, o)
  /\ UNCHANGED <<policy, verdict>>

Accept ==
  /\ verdict = "open"
  /\ \A n \in left : Satisfied(n)
  /\ \A o \in Optionals(policy) :
        (\E p \in Twins(policy, o) \cap left : Lacks(p)) => Body(policy, o) \cap left = {}
  /\ verdict' = "accepted" /\ UNCHANGED <<policy, left>>

(* An error of any kind *)
Refuse == verdict = "open" /\ verdict' = "refused" /\ UNCHANGED <<policy, left>>

Next == (\E o \in Optionals(policy) : Drop(o)) \/ Accept \/ Refuse

(* The computation ends with a verdict *)
Spec == Init /\ [][Next]_vars /\ <>(verdict # "open")
=============================================================================
