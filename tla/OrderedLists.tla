---------------------------- MODULE OrderedLists ----------------------------
(***************************************************************************)
(* The merge of the order statements (sidorder, classorder, categoryorder, *)
(* sensitivityorder) into one list: src/src/cil_resolve_ast.c, functions    *)
(* __cil_ordered_item_insert to __cil_ordered_lists_merge_all.             *)
(*                                                                         *)
(* An order statement is a sequence of items.  The composite list is a     *)
(* sequence; a cil_list_item pointer into it is a position, and "insert    *)
(* after curr" with curr = NULL is "insert after position 0".  The         *)
(* `ordered' flag of an item is set exactly when the item is put into the  *)
(* composite list, so the flag is membership in the composite list.        *)
(***************************************************************************)
EXTENDS Naturals, Sequences, SequencesExt

InsertItems_Again(list, i, seg) ==
  [ok |-> TRUE, list |-> SubSeq(list, 1, i) \o seg \o SubSeq(list, i + 1, Len(list))]

(* __cil_ordered_list_insert: puts the items of seg one by one after       *)
(* position i; the first item that is already ordered stops it with        *)
(* SEPOL_ERR and the items before it stay inserted.                        *)
InsertItems(list, i, seg) ==
  LET fresh(k) == /\ seg[k] \notin ToSet(list)
                  /\ \A j \in 1..(k - 1) : seg[j] # seg[k]
      bad  == {k \in DOMAIN seg : ~ fresh(k)}
      n    == IF bad = {} THEN Len(seg) ELSE Min(bad) - 1
  IN  [ok   |-> bad = {},
       list |-> SubSeq(list, 1, i) \o SubSeq(seg, 1, n)
                  \o SubSeq(list, i + 1, Len(list))]

(* __cil_ordered_find_match: the first position of item at or after from,  *)
(* 0 (the NULL pointer) when there is none.                                *)
FindMatch(item, list, from) ==
  LET at == {k \in from..Len(list) : list[k] = item}
  IN  IF at = {} THEN 0 ELSE Min(at)

(* The loop of __cil_ordered_lists_merge over the overlapping portion.     *)
(* s.prev is oprev (so ocurr is s.prev + 1), s.next is ncurr.              *)
MergeOverlap(start, new) ==
  LET Positions == [list : Seq(ToSet(start.list) \cup ToSet(new)),
                    prev : Nat, next : Nat]
      go[s \in Positions] ==
        LET ocurr  == s.prev + 1
            nmatch == FindMatch(s.list[ocurr], new, s.next + 1)
            omatch == FindMatch(new[s.next], s.list, ocurr + 1)
            gap    == InsertItems(s.list, s.prev, SubSeq(new, s.next, nmatch - 1))
        IN  CASE s.next > Len(new) -> [ok |-> TRUE, list |-> s.list]
              [] s.next <= Len(new) /\ ocurr > Len(s.list) ->
                   InsertItems(s.list, Len(s.list), SubSeq(new, s.next, Len(new)))
              [] OTHER ->
                   IF new[s.next] = s.list[ocurr]
                     THEN go[[s EXCEPT !.prev = ocurr, !.next = @ + 1]]
                   ELSE IF nmatch # 0       \* gap in old
                     THEN IF gap.ok
                            THEN go[[list |-> gap.list,
                                     prev |-> ocurr + (nmatch - s.next),
                                     next |-> nmatch + 1]]
                            ELSE gap
                   ELSE IF omatch # 0       \* gap in new
                     THEN go[[s EXCEPT !.prev = omatch, !.next = @ + 1]]
                   ELSE [ok |-> FALSE, list |-> s.list]
  IN  go[start]

(* __cil_ordered_lists_merge: one attempt to merge new into old.  A failed *)
(* attempt may leave some of its items in the list.                        *)
MergeList(old, new) ==
  LET matched == {k \in DOMAIN new : new[k] \in ToSet(old)}
      nmatch  == Min(matched)
      omatch  == FindMatch(new[nmatch], old, 1)
      front   == InsertItems(old, 0, SubSeq(new, 1, nmatch - 1))
  IN  IF new = <<>> THEN [ok |-> TRUE, list |-> old]
      ELSE IF old = <<>> THEN InsertItems(old, 0, new)
      ELSE IF matched = {} \/ (nmatch # 1 /\ omatch # 1)
        THEN [ok |-> FALSE, list |-> old]
      ELSE IF ~ front.ok THEN front
      ELSE MergeOverlap([list |-> front.list,
                         prev |-> omatch + nmatch - 1,
                         next |-> nmatch + 1], new)

(* One round of the outer loop of __cil_ordered_lists_merge_all: every     *)
(* list that is not merged yet is tried in turn.                           *)
MergeRound(list, lists) ==
  LET try(s, new) == LET m == MergeList(s.list, new)
                     IN  [list    |-> m.list,
                          waiting |-> IF m.ok THEN s.waiting
                                              ELSE Append(s.waiting, new),
                          changed |-> s.changed \/ m.ok]
  IN  FoldLeft(try, [list |-> list, waiting |-> <<>>, changed |-> FALSE], lists)

(* __cil_ordered_lists_merge_all: rounds until nothing waits or a round    *)
(* merges nothing.  ok = FALSE stands for the NULL that is then returned;  *)
(* list keeps the items whose `ordered' flag has been set.                 *)
MergeAll(lists) ==
  LET rounds[r \in [list : Seq(UNION {ToSet(lists[k]) : k \in DOMAIN lists}),
                    waiting : Seq({lists[k] : k \in DOMAIN lists}),
                    changed : BOOLEAN]] ==
        IF r.waiting = <<>> THEN [ok |-> TRUE, list |-> r.list]
        ELSE IF ~ r.changed THEN [ok |-> FALSE, list |-> r.list]
        ELSE rounds[MergeRound(r.list, r.waiting)]
  IN  rounds[[list |-> <<>>, waiting |-> lists, changed |-> TRUE]]
=============================================================================
