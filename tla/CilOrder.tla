------------------------------ MODULE CilOrder ------------------------------
(***************************************************************************)
(* A policy gains order statements one after the other, in the order in    *)
(* which the MISC1 pass meets them; then __cil_ordered_lists_merge_all     *)
(* merges them into the composite list.  Here the merge runs loop by loop, *)
(* as the code does it; OrderedLists says the same with operators.         *)
(***************************************************************************)
EXTENDS OrderedLists

CONSTANTS Item,       \* the sids (classes, categories, sensitivities)
          MaxLength,  \* bound on the items of one statement
          MaxLists,   \* bound on the number of statements
          MaxItems    \* bound on the items of all statements together

ASSUME BoundsAssumption ==
  MaxLength \in Nat \ {0} /\ MaxLists \in Nat \ {0} /\ MaxItems \in Nat

VARIABLES
  lists,      \* the ordered_lists list, in statement order
  step,       \* where the merge is: "gather" before it, "done" or "failed" after it
  composite,  \* the composite list
  merged,     \* the positions in lists whose `merged' flag is set
  changed,    \* the flag of __cil_ordered_lists_merge_all
  curr,       \* the position in lists that the round has reached
  oprev,      \* in __cil_ordered_lists_merge: the last position dealt with in
              \* the composite list (ocurr is the one behind it),
  ncurr       \* and the next position in the statement

round == <<lists, merged, changed, curr>>
vars  == <<round, step, composite, oprev, ncurr>>

Statement == UNION {[1..n -> Item] : n \in 1..MaxLength}
Steps     == {"gather", "try", "overlap", "done", "failed"}

new   == lists[curr]
ocurr == oprev + 1

(* The types, and that both pointers of a merge are inside their lists.    *)
TypeOK ==
  /\ lists \in Seq(Statement) /\ Len(lists) <= MaxLists
  /\ step \in Steps
  /\ composite \in Seq(Item)
  /\ merged \in SUBSET DOMAIN lists
  /\ changed \in BOOLEAN
  /\ curr \in 1..(Len(lists) + 1)
  /\ oprev \in 0..Len(composite)
  /\ step = "overlap" => /\ curr \in DOMAIN lists \ merged
                         /\ oprev # 0
                         /\ ncurr \in 2..(Len(new) + 1)
  /\ step # "overlap" => oprev = 0 /\ ncurr = 0

Init ==
  /\ lists = <<>> /\ step = "gather"
  /\ composite = <<>> /\ merged = {} /\ changed = FALSE /\ curr = 1
  /\ oprev = 0 /\ ncurr = 0

(* The tail of cil_resolve_sidorder and its three siblings: the resolved   *)
(* list is appended to the lists of its kind.                              *)
AddOrderStatement(s) ==
  /\ step = "gather" /\ Len(lists) < MaxLists
  /\ Len(FlattenSeq(lists)) + Len(s) <= MaxItems
  /\ lists' = Append(lists, s)
  /\ UNCHANGED <<step, composite, merged, changed, curr, oprev, ncurr>>

(* At the end of the MISC1 pass.                                           *)
StartMerge ==
  /\ step = "gather" /\ step' = "try"
  /\ UNCHANGED <<round, composite, oprev, ncurr>>

(* A call of __cil_ordered_lists_merge ends with result r.ok, the loop     *)
(* that called it goes on to the next statement.                           *)
Return(r) ==
  /\ composite' = r.list
  /\ merged'  = IF r.ok THEN merged \cup {curr} ELSE merged
  /\ changed' = (changed \/ r.ok)
  /\ curr' = curr + 1
  /\ step' = "try" /\ oprev' = 0 /\ ncurr' = 0
  /\ UNCHANGED lists

Cannot == Return([ok |-> FALSE, list |-> composite])
-----------------------------------------------------------------------------
(* The loop of __cil_ordered_lists_merge_all over the statements.          *)
SkipMerged ==
  /\ step = "try" /\ curr \in merged
  /\ curr' = curr + 1
  /\ UNCHANGED <<lists, step, composite, merged, changed, oprev, ncurr>>

Trying == step = "try" /\ curr \in DOMAIN lists \ merged

TryFirst ==
  /\ Trying /\ composite = <<>>
  /\ Return(InsertItems(composite, 0, new))

(* The positions of the first match between the statement and the          *)
(* composite list.                                                         *)
Matched == {k \in DOMAIN new : new[k] \in ToSet(composite)}
NMatch  == Min(Matched)
OMatch  == FindMatch(new[NMatch], composite, 1)
Prepended   == InsertItems(composite, 0, SubSeq(new, 1, NMatch - 1))

Mergeable_Anyhow == Matched # {}
Mergeable == Matched # {} /\ (NMatch = 1 \/ OMatch = 1)

TryInVain == Trying /\ composite # <<>> /\ ~ Mergeable /\ Cannot

TryMatch ==
  /\ Trying /\ composite # <<>> /\ Mergeable
  /\ IF Prepended.ok
       THEN /\ composite' = Prepended.list
            /\ oprev' = OMatch + NMatch - 1 /\ ncurr' = NMatch + 1
            /\ step' = "overlap" /\ UNCHANGED round
       ELSE Return(Prepended)

(* The loop of __cil_ordered_lists_merge over the overlapping portion.     *)
Overlapping ==
  step = "overlap" /\ ncurr <= Len(new) /\ ocurr <= Len(composite)

Same == Overlapping /\ new[ncurr] = composite[ocurr]
Gap  == Overlapping /\ new[ncurr] # composite[ocurr]

GapEnd  == FindMatch(composite[ocurr], new, ncurr + 1)       \* nmatch
SkipEnd == FindMatch(new[ncurr], composite, ocurr + 1)       \* omatch

Advance ==
  /\ Same
  /\ oprev' = ocurr /\ ncurr' = ncurr + 1
  /\ UNCHANGED <<round, step, composite>>

GapInOld ==
  /\ Gap /\ GapEnd # 0
  /\ LET r == InsertItems(composite, oprev, SubSeq(new, ncurr, GapEnd - 1))
     IN  IF r.ok
           THEN /\ composite' = r.list
                /\ oprev' = ocurr + (GapEnd - ncurr) /\ ncurr' = GapEnd + 1
                /\ UNCHANGED <<round, step>>
           ELSE Return(r)

GapInNew ==
  /\ Gap /\ GapEnd = 0 /\ SkipEnd # 0
  /\ oprev' = SkipEnd /\ ncurr' = ncurr + 1
  /\ UNCHANGED <<round, step, composite>>

NoMatch == Gap /\ GapEnd = 0 /\ SkipEnd = 0 /\ Cannot

(* Behind the loop: what is left of the statement goes to the end.         *)
AddRest ==
  /\ step = "overlap" /\ (ncurr > Len(new) \/ ocurr > Len(composite))
  /\ Return(InsertItems(composite, Len(composite), SubSeq(new, ncurr, Len(new))))

EndRound_NoRetry ==
  /\ step = "try" /\ curr > Len(lists)
  /\ step' = IF merged = DOMAIN lists THEN "done" ELSE "failed"
  /\ changed' = FALSE /\ curr' = 1
  /\ UNCHANGED <<lists, composite, merged, oprev, ncurr>>

(* The condition of the outer loop.                                        *)
EndRound ==
  /\ step = "try" /\ curr > Len(lists)
  /\ step' = IF merged = DOMAIN lists THEN "done"
             ELSE IF changed THEN "try" ELSE "failed"
  /\ changed' = FALSE /\ curr' = 1
  /\ UNCHANGED <<lists, composite, merged, oprev, ncurr>>

Next ==
  \/ \E s \in Statement : AddOrderStatement(s)
  \/ StartMerge
  \/ SkipMerged \/ TryFirst \/ TryInVain \/ TryMatch
  \/ Advance \/ GapInOld \/ GapInNew \/ NoMatch \/ AddRest
  \/ EndRound

Spec == Init /\ [][Next]_vars
-----------------------------------------------------------------------------
IsSubsequence(s, t) ==
  \E f \in [DOMAIN s -> DOMAIN t] :
     /\ \A i \in DOMAIN s : t[f[i]] = s[i]
     /\ \A i, j \in DOMAIN s : i < j => f[i] < f[j]

Items(ls) == UNION {ToSet(ls[k]) : k \in DOMAIN ls}

(* When the merge succeeds, the composite list holds every ordered item    *)
(* once and keeps the order of every single statement.                     *)
MergeKeepsOrders ==
  step = "done" => /\ IsInjective(composite)
                   /\ ToSet(composite) = Items(lists)
                   /\ \A k \in DOMAIN lists : IsSubsequence(lists[k], composite)

(* Every two neighbours in t are neighbours in some statement.             *)
Forced(t) ==
  \A i \in 1..(Len(t) - 1) :
    \E k \in DOMAIN lists : \E j \in 1..(Len(lists[k]) - 1) :
      lists[k][j] = t[i] /\ lists[k][j + 1] = t[i + 1]

(* Statement s wants two items in an order that t does not have.           *)
Clash(s, t) ==
  \E i, j \in DOMAIN s : \E p, q \in DOMAIN t :
    i < j /\ q <= p /\ t[p] = s[i] /\ t[q] = s[j]

(* The composite list never guesses: its neighbours are neighbours in some *)
(* statement, so no other order agrees with all the statements.  Only an   *)
(* attempt that fails in the middle leaves other neighbours behind, and    *)
(* then its statement can never be merged, so the whole merge fails.       *)
MergeIsForced ==
  \/ Forced(composite)
  \/ \E k \in DOMAIN lists \ merged : Clash(lists[k], composite)

(* The operators of OrderedLists, with which CilResolve computes orders,   *)
(* say what the loops of __cil_ordered_lists_merge_all do.                 *)
LoopsComputeMergeAll ==
  step \in {"done", "failed"} =>
    MergeAll(lists) = [ok |-> step = "done", list |-> composite]
=============================================================================
