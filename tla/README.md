# Verification of the CIL compiler

This directory holds TLA+ specifications of the SELinux CIL compiler, the TLC
models that check them and TLAPS proofs about them. Paths such as
`src/cil_resolve_ast.c` are relative to the root of the repository.
`PROJECT.json` says, definition by definition, which lines are modelled.

## 1. The system

The compiler is a sequential library (`libcil`) and a driver (`secilc`).
`cil_compile` runs its phases one after the other on one database:

    text -> parser -> parse tree -> AST builder -> AST
         -> resolution (14 passes over the AST, some repeated)
         -> qualified names -> post processing and verification
         -> binary policy (libsepol)

| Component | State it keeps | Operations | What makes it correct |
|---|---|---|---|
| Parser, lexer (`cil_parser.c`, `cil_lexer.l`) | stack of open parentheses, tree so far | one per token | parentheses balance, the tree mirrors the nesting |
| AST builder (`cil_build_ast.c`) | tree, symbol tables, the enclosing macro, `in`, optional, booleanif and tunableif | one `cil_gen_*` per statement, the three walk callbacks | every name is declared once per scope, statements only stand where they are allowed, a failed statement leaves nothing behind |
| Tree, symbol tables, lists (`cil_tree.c`, `cil_symtab.c`, `cil_list.c`, `cil_stack.c`, `cil_strpool.c`) | nodes, data with the list of nodes that declare them | walk, destroy, insert, remove, look up | a datum is in its table exactly as long as a node declares it |
| Resolution, passes TIF to CALL1 (`cil_resolve_ast.c`, `cil_copy_ast.c`) | tree, `bi_nodes`, list of `in` statements, stack of calls | `tunableif`, `in`, `blockinherit`, `blockabstract`, `call1` | bodies are copied once to each place, abstract and recursive ones are refused |
| Resolution, passes CALL2 to MISC3 (`cil_resolve_ast.c`) | pass, stack of optionals, `changed`, links between data, order lists | one handler per statement, disabling of optionals, restart | what is accepted is what a compilation of the surviving statements alone would give |
| Reset (`cil_reset_ast.c`) | none of its own | one `cil_reset_*` per kind of datum | a round of resolution is undone completely |
| Order lists (`cil_resolve_ast.c`) | order statements, composite list | merge | the composite list agrees with every statement |
| Name lookup (`cil_resolve_ast.c`), qualified names (`cil_fqn.c`) | symbol tables | `cil_resolve_name`, `cil_fqn_qualify` | the innermost declaration is found; qualified names are unique |
| Post processing (`cil_post.c`) | counters, arrays, bitmaps | count, index, sort, evaluate expressions | counts match the arrays filled, every expression is evaluated once |
| Verification (`cil_verify.c`) | none | one check per kind | no loops, every context valid |
| Binary writer (`cil_binary.c`), policy text (`cil_policy.c`) | policydb | one per kind of statement | no statement is lost, values match the orders |
| Interface (`cil.c`), driver (`secilc.c`) | the database | add file, compile, export | phases run in order |

Nothing in the program is concurrent and nothing is persisted. What is hard is
*order*: the passes share one mutable tree; optionals are destroyed in the
middle of a pass; and a destroyed optional sends the compiler back to an earlier
pass with a reset that has to undo everything the lost round did. A statement
that was resolved five passes ago may depend on a declaration that disappears
now. That is where this project starts. The hazards, each at its line, are in
`PROJECT.json`.

## 2. The modules

| Module | Models |
|---|---|
| `OrderedLists` | the merge of order statements as operators: `InsertItems`, `FindMatch`, `MergeOverlap`, `MergeList`, `MergeRound`, `MergeAll` |
| `CilOrder`, `MCOrder` | a policy that gains order statements, and their merge loop by loop |
| `CilResolve` | passes CALL2 to MISC3, optionals, reset and restart |
| `MCResolve` | how small policies are written down |
| `MCOptionals`, `MCShapes`, `MCStatements`, `MCFindings` | the sets of policies of its runs |
| `CilOptionals` | the abstract specification: what resolution promises about optionals |
| `CilImplements` | the refinement mapping from `CilResolve` to `CilOptionals` |
| `CilOrderProofs` | theorems about `CilOrder`: what the merge keeps and that it never guesses |
| `CilResolveProofs` | theorems about `CilResolve` and `CilImplements`: the walk; the types, and what statements and data hold; what survives, and the refinement |
| `CilExpandProofs` | theorems about `CilExpand`: its operators, the tree, the walk, where statements stand |
| `CilBuildProofs`, `CilPostProofs`, `CilVerifyProofs`, `CilBinaryProofs` | theorems about `CilBuild`, `CilPost`, `CilVerify` and `CilBinary` |
| `NumberLemmas` | the least and the greatest element of a set of numbers, and sets that hold a number whenever they hold all below it |
| `CilExpand` | passes TIF to CALL1, copying of subtrees, look-up of names |
| `MCExpand`, `MCExpandFindings` | the sets of policies of its runs |
| `CilBuild`, `MCBuild` | the AST builder, and the texts of its runs |
| `CilPost`, `MCPost` | the check for loops of class permissions and post processing |
| `CilVerify`, `MCVerify` | verification of the finished tree |
| `CilBinary`, `MCBinary` | the writer of the policydb |

The modules follow the phases of the compiler, and each starts from the states
the phase before can leave: `CilBuild` from texts, `CilExpand` from what the
builder accepts, `CilResolve` from grown trees, `CilPost` from resolved ones,
`CilVerify` and `CilBinary` from evaluated ones. No phase goes back to an earlier
one, so they are checked apart, each over its own small set of inputs.

`CilExpand` and `CilResolve` divide `cil_resolve_ast` between them at the point
where the tree stops growing. Each describes the tree in the way its passes need:
`CilExpand` by parents and symbol tables, `CilResolve` by extents and the data a
name can mean.

### CilExpand

The nodes are numbered in the order in which they are created. A node is always
added behind its siblings, so the children of a node are in the order of their
numbers. A node carries its statement, the node `parent`, the datum (named by the
node that created it), the scope `ns` whose symbol table holds that datum, the
block or macro `to` that it has been linked to, `copied` (of a call) and, for the
properties only, `src`, the statement of the policy it comes from. A datum is
found in its scope while one of its nodes is in the tree.

| Code | Model |
|---|---|
| `cil_tree_walk`, the first and last child helpers | `GoDown`, `GoOver`, `GoUp`, `context` |
| `__cil_resolve_ast_node_helper` | `RejectNesting`, `SkipSubtree`, `PlainNode`, `HandlerFails` |
| `cil_resolve_tunif` | `ResolveTunif` |
| `CIL_IN` in pass IN, `cil_resolve_in_list`, `cil_resolve_in` | `GatherIn`, `ResolveIn`, `EndRound` |
| `cil_resolve_blockinherit_link`, `.._copy` | `LinkInherit`, `VisitBlock`, `CopyToHeir` (one for each entry of `bi_nodes`, which the copies may extend) |
| `cil_resolve_blockabstract` | `MarkAbstract` |
| `cil_resolve_call1` | `ExpandCall` |
| the check for recursive macro calls in the first child helper | `Recursive` |
| `cil_copy_ast`, `__cil_copy_node_helper`, `cil_copy_*` | `CopyAst`, `CopyNode`, `CopyRc`, `CopyOf` |
| `cil_get_symtab`, `cil_symtab_get_datum` | `Home`, `Get` |
| `cil_resolve_name` and its helpers | `ResolveName`, `Found`, `FromNode`, `WithParents`, `NextPart` |
| the end of a pass in `cil_resolve_ast` | `EndPass` |
| following a NULL or freed pointer, or a datum of another kind | status `undefined` |
| a copy into the subtree that is being copied, which never ends | status `diverges`; `Circular` says which policies can get there |

Abstractions:

* The condition of a `tunableif` is a single tunable, all tunables have values
  (none are preserved as booleans).
* Arguments of calls are counted, not converted; parameters are types.
  The check that a declaration does not shadow a parameter is kept.
* `rule` stands for the statements that declare nothing and that these passes
  only copy, `type` for declarations that may be repeated in a copy, `class` for
  those that may not.
* `IsPolicy` states what the builder refuses, as far as nesting, duplicate
  declarations and statements without the name they need (`UsesName`) go. It is narrower than what `CilBuild` accepts: a statement that
  slips through because its container is not known yet is left out.
* A `blockabstract` that names something other than a block is accepted, as in
  the code.

### CilResolve

The tree is a sequence of nodes in document order. Node `n` has a `kind`, the
datum `decl` it declares, the number `last` of the last node below it and the
names it refers to. A destroyed node is one that is no longer in `alive`; a datum
is in its symbol table while a node that is alive declares it, so an optional
that is inherited and one that is the block's own may share a datum, as they do
after `cil_copy_ast`.

A name is the sequence of the data it can mean, innermost scope first, or a
macro parameter, which is an argument of a `call` node further up. Which data
those are depends on names and block nesting only and does not change during
the modelled passes; which of them is found does, because declarations go.

| Code | Model |
|---|---|
| `cil_tree_walk`, `cil_tree_walk_core` | `cur`, `PassOver`, `PassBy`, `SkipSubtree`, `Advance` |
| `args->optstack`, the first and last child helpers | `optstack`, `Advance`, `LeaveOptional` |
| `SEPOL_ENOENT` from a handler | `DisableOptional` in an optional, `FailMissing` outside |
| `cil_resolve_*` | one `Resolve*` action each (those that do the same to the modelled state share one) |
| what a handler keeps in its own statement | `res` |
| what it attaches to a datum (`bounds`, `context`, `expr_list`, `cats_list`, `roles`, `range`, `dftlevel`, `common`, `classperms`) | `link`, by field: one statement (`BindOnce`, an error the second time; `Overwrite`) or a list (`Attach`) |
| `alias->actual`, `attr->used`, `ordered` | `actual`, `used`, `ordered` |
| permission values, `num_perms` | `value`, `nperms`, modulo `Word` |
| the end of a pass in `cil_resolve_ast` | `EndWalk`, `MergeOrders`, `Restart`, `NextPass`, `Finish` |
| `cil_reset_ast` | `ResetData`, `ResetClasses`, part of `Restart` |
| following a NULL or a freed pointer | status `undefined` |

Abstractions:

* The tree is the one that the passes up to CALL1 leave (`CilExpand`). The checks of
  `__cil_resolve_ast_node_helper` on macros and tunables in optionals and on
  bodies of booleanifs, and the check for recursive macro calls, have met every
  node by then and cannot fail any more.
* Permissions are not names of their own; a statement with class permissions
  names its class or the permission set it uses. Of the values of the
  permissions of a class one is kept, since all are shifted alike.
* Type aliases stand for the three kinds of alias, which share their code.
* A handler that fails in the middle may have done part of its work. Its node
  is then destroyed with its optional before the data are used, or compilation
  fails.
* Flavor checks inside expressions are kept where they decide between success
  and failure; the wording of messages is not.

### CilOptionals and CilImplements

`CilOptionals` knows statements, what each of them needs, and optionals with
their bodies; no passes, no walk, no stack, no restart. An optional may be
dropped as soon as one of its own statements lacks a name; a policy may be
accepted when nothing that is left lacks one. `CilImplements` reads the policy
off the tree of `CilResolve` and maps `left` to `alive` and `verdict` to the
status: "ok" is accepted, "err" and "undefined" are refused, all else is open.
An optional lacks a name when one of its own statements does, those whose
innermost optional it is. Optionals that share a datum, as `cil_copy_ast` makes
them (`cil_copy_ast.c:1405`), are twins and are disabled together; but one that
was destroyed with the optional around it, before its own statements were looked
at, does not take its twins along. `Drop` and `Accept` allow both. The walk, the passes, links, orders and the reset are
stutters; destroying a body in `LeaveOptional` is `Drop`; the code's delay
between disabling an optional and destroying its body is where a step could lose
its justification, because other optionals go in between.

### CilBuild

A text is its statements in document order; each has a keyword, the end of its
list, a name, permissions, parameters and an expression. Tables are sets of
entries, one for each scope, table, name and datum.

| Code | Model |
|---|---|
| `cil_tree_walk` with `__cil_build_ast_node_helper` and `..last_child_helper` | `cur`, `ast`, `Closing`, `AddNode`, `LeaveList` |
| `args->macro`, `boolif`, `tunif`, `in` | the variables of these names, `Entered`, `Left`, `Forbidden` |
| `cil_gen_node`, `cil_get_symtab` | `Declare`, `Refused`, `Scope` |
| `cil_gen_class`, `cil_gen_macro`, `cil_gen_in`, `cil_gen_boolif`, `cil_gen_tunif`, `cil_gen_condblock`, `cil_gen_constrain` | `GenClass`, `GenMacro`, `GenIn`, `GenConditional`, `GenCondblock`, `GenConstraint` |
| the other `cil_gen_*` | `GenDeclaration` for those that declare something, `GenRule` for those that only keep their arguments |
| `__cil_fill_expr`, `__cil_fill_constraint_expr` | `ExprDepth`, `ConstraintDepth`: the counters as a function of the place in the expression |

Abstractions: whether the arguments have the form a statement asks for
(`__cil_verify_syntax` and the conversions of each `cil_gen_*`) is one flag of
the statement, `ok`. `IsText` says what the lists of a text look like: they
nest, and a list in an expression is one operator with its operands. Anonymous data (levels, contexts, sets inside a statement)
are part of it. A failed statement frees what it has, which is not modelled.

### CilPost

| Code | Model |
|---|---|
| the walks of `cil_post_db`, one after the other | `pass`, `cur`, `EndWalk` |
| `__cil_post_db_count_helper`, `.._array_helper` | `CountDatum`, `CountCon`, `IndexDatum`, `IndexCon`, `IndexSeuser` |
| `__evaluate_type_expression`, `.._role_..` and their recursion | `stack` with `AllocateAttribute`, `DescendIntoAttribute`, `AddAttributeExpr`, `FinishAttribute` |
| `__cil_role_assign_types` | `AssignRoleTypes` |
| `__evaluate_classperms_list` | `EvaluateClassperms`, `FollowList`, `LeaveList` |
| `__evaluate_cat_expression` and its recursion | `CatSteps`, `HeldUpBy`, `MustDescend`, `DescendIntoCatset`, `EvaluateCats`, `SkipCats` |
| `cil_verify_no_classperms_loop` | `CheckClass`, `FollowList`, `FailLoop` |
| the comparisons given to `qsort` | `ConCompare` and its parts; `Sort` is any order they allow, and any at all if they go round in a circle |
| `ebitmap` operations | sets of numbers |

Abstractions: a path is what `cil_post_fc_fill_data` finds in it (stem, length,
whether it has a pattern). Sizes of ranges are modulo `Word`. A call to an
evaluation that never returns ends in status `diverges`, a pointer that is NULL
in `undefined`. `IsPolicy` says what resolution leaves: extents nest, and the first
node of a type or role declares it and is in a macro or an abstract block
(`InTemplate`) exactly if its other nodes are, because the nodes of a datum have
one scope. The handler counts a datum at its first node, in a walk that skips
templates, so without this a type could be indexed that was never counted.

### CilVerify

One action for each kind of statement of `__cil_verify_helper`; the search for
circular bounds, the only loop whose end is not obvious, is taken step by step
(`FollowBounds`), the same code standing in the source three times. The settings the
caller made before, `secilc -M` and `-U` among them, are an input (`given`): they are in `db`
from the start, and `Finish` lets a statement decide only what they leave open. The
categories of a sensitivity are a list of sets, looked through in order up to
the first that has the category. What
`__cil_verify_class` and `__cil_verify_policycap` find is an input. `IsPolicy`
says what resolution and post processing leave: extents nest, bounds and the
parts of contexts and ranges are declared. The checks of
syntax in this file belong to the builder; `__cil_verify_rule` is never called.

### CilBinary

Data keep the numbers that post processing gave them (`value`, `valTo`, `bits`),
and a number in the policydb is the place of a name in its table (`sym`), so a
function that reads one with the other shows. `te_avtab` and the tables of
transitions are functions from keys to data, the list of conditional nodes a
sequence in which a new one is put last (the code puts it first, and no property
depends on it).

| Code | Model |
|---|---|
| the three walks of `cil_binary_create` | `pass`, `cur`, `PassBy`, `EndPass`; one `Write*` or `Declare*` action for each `cil_*_to_policydb` |
| `cil_booleanif_to_policydb` and its walk | `EnterBooleanif`, then `todo`: `CondRule`, with `AvRule` or `TypeRule` |
| `__cil_insert_avrule`, `__cil_insert_type_rule` | `Stored`, `Joined`, `InsertAvrules`; `CondConflict`, `CondDuplicate` |
| `__cil_avrule_expand`, class maps and sets | `Items`, `Rights`, `Pairs`, `Entries` |
| neverallows | `WriteNeverallow` in the second walk, `Forbidden` for every allow of the third |
| `__cil_cond_expr_to_sepol_expr`, `__cil_constrain_expr_to_sepol_expr` | `Postfix`, `ConsPostfix` |
| `__cil_contexts_to_policydb` | `WriteContexts`, `Ocontexts`, `Genfs` |
| `__cil_set_conditional_state_and_flags` | `Finish`, `EnabledRules` |
| libsepol: `cond_normalize_expr`, `cond_node_find`, `cond_evaluate_expr` | external: `Normal`, `Found`, `cond_evaluate_expr` |

`IsPolicy` says what the phases before leave: extents nest, a booleanif holds
nothing that is written of users and roles, the nodes of a datum are all inside
templates (macros and abstract blocks, `InTemplate`) or none is, and users, roles,
types and sensitivities refer to data and not to their aliases, which resolution
has followed. A role that only stands in an abstract block has the number 0
(section 5), so `RolesNumbered` says that no statement names such a role.

Abstractions: access vectors are sets of permission bits, bitmaps sets of
numbers. Failures of allocation and libsepol's own consistency checks after the
writing are left out. Of several blocks for one branch of a booleanif, which the
builder accepts, only the last counts (`BranchNodes`); the policies of the run
have at most one, since the rules of the others are lost. An unknown user of a `userrole`
ends in status `undefined`, by chance in an error (`FailUninitialised`): what is destroyed at
`exit` was never initialised (`cil_binary.c:761`).

### CilOrder

`lists` grows by one order statement at a time; the merge may start after any of
them, so every sequence of statements is merged. Then each step is one turn
of a loop of the code:

| Code | Model |
|---|---|
| the tail of `cil_resolve_sidorder` and its siblings | `AddOrderStatement` |
| `__cil_ordered_lists_merge_all`: the inner loop | `curr`, `SkipMerged`, `TryFirst`, `TryInVain`, `TryMatch`, and `Return`, with which every call ends |
| its outer loop | `changed`, `EndRound` |
| the `merged` flag of a statement | `merged` |
| `__cil_ordered_lists_merge`: the first match | `NMatch`, `OMatch`, `Mergeable`, `Prepended` |
| its loop over the overlapping portion | `oprev`, `ncurr`, `Advance`, `GapInOld`, `GapInNew`, `NoMatch` |
| what is left behind it | `AddRest` |
| `__cil_ordered_list_insert`, `__cil_ordered_find_match` | `InsertItems`, `FindMatch` of `OrderedLists` |

The `ordered` flag of an item is set exactly when the item enters the composite
list, so it is membership in that list. An insertion that meets an ordered item
stops there, and what it has inserted stays. A statement has at least one item,
which the syntax of the builder asks for.

`OrderedLists` says the same without steps, as a recursive function from statements to
a list, because `CilResolve` computes four merges in one step of its own.
`LoopsComputeMergeAll` compares the two.

## 3. The runs

Each run takes at most about two and a half minutes with two workers and the machine to itself.

| Run | States | Shows |
|---|---|---|
| `build` | 459,405 | `TreeExact`, `TablesExact`, `RefusedRightly`, `AcceptedRightly` |
| `expand_copies` | 1,140,476 | `InheritedExact`, `ContextExact`, `CallsExact`, `NestingAllowed` |
| `expand_moves` | 420,402 | `TypeOK`, `MovedOnce`, `Terminates` of the passes up to CALL1 |
| `optionals` | 189,452 | the six properties of optionals below |
| `statements` | 271,607 | `TypeOK`, `RefsCurrent`, `LinksExact`, `OrdersExact` for every kind of statement and with macro calls, skipped bodies, aliases and orders |
| `order` | 575,296 | `MergeKeepsOrders`, `MergeIsForced`, `LoopsComputeMergeAll` |
| `post` | 113,150 | `ValuesExact`, `AttributesExact`, `RolesExact`, `PermsExact`, `CatsExact`, `SpecificFirst` |
| `verify` | 51,640 | `BoundsExact`, `ContextsValid`, `StatementsValid`, `Terminates` |
| `binary` | 79,418 | `AccessExact`, `NeverallowsHold`, `TransitionsExact`, `ConstraintsExact`, `RolesAndUsersExact`, `LabelsExact` |
| `find_order`, `find_early`, `find_nesting` | | the first findings of section 5 |

The properties of optionals:

* `OptstackExact`: at every node the stack holds the optionals around it.
* `NotDisabledNeedlessly`: a set of optionals whose statements find their names
  among themselves and outside of optionals is never touched.
* `OptionalsExact`: what survives in an accepted policy is exactly the largest
  such set, with whole bodies, whatever the order of passes, if optionals that
  share a datum are inside the same optionals (`TwinsAlike`). If they are not, the
  one in another optional may go with that one before or after a statement of its
  own disables both, as the passes have it; then the refinement still says what
  may happen.
* `AllResolved`: every statement left finds its names in what is left.
* `ChangeDestroys`: every restart is paid for by a destroyed node.
* `Implements`: all of it is a behaviour of `CilOptionals`. Each destroyed body
  belongs to an optional one of whose own statements lacks a name at that very
  moment, nothing else is destroyed, and resolution comes to a verdict.

`RefsCurrent`, `LinksExact` and `OrdersExact` say that nothing of a lost round
stays: what statements refer to, what data carry and the four orders are what
the final tree alone determines. `RefsCurrent` leaves out two kinds of
statement: an `aliasactual` keeps nothing, and the arguments of a call are
resolved before aliases are followed, so they may be the alias itself.

The properties of `CilOrder`:

* `MergeKeepsOrders`: a merge that succeeds contains every item once and keeps the order
  of every statement, however often one had to wait.
* `MergeIsForced`: neighbours in the composite list are neighbours in a statement, so no
  other order would agree with all of them. An attempt that fails in the middle may leave
  other neighbours behind: after `(A)`, the statement `(X Y X A)` fails and leaves
  `X Y A`. Then a statement that is not merged contradicts the list (`Clash`) and can
  never be merged, so no such list is returned.
* `LoopsComputeMergeAll`: the loops compute what `MergeAll` says.

The properties of `CilExpand`:

* `InheritedExact`: once all blocks are copied, every linked `blockinherit` holds
  the body of its block, whole and once, whatever the order of the blocks and
  whichever of them inherit from, contain or are merged into each other. Blocks in
  a circle never get there, so it says nothing of them.
* `CallsExact`: every call holds the body of its macro, whole and once, also
  a call that was expanded before or after it was itself copied.
* `ContextExact`: the stacks of optionals and calls and the `boolif` and `macro`
  pointers describe the place of the walk although the walk changes the tree
  under itself. Only `macro` may be NULL inside of a macro, if a macro was copied
  into a macro: the end of the inner one clears it (section 5, `MCFindMacro`).
* `MovedOnce`: each statement of a selected branch or of an `in` body ends up once,
  and in the container it was meant for; each statement of a branch that was
  not selected is gone.
* `NestingAllowed`: what the builder forbids in optionals and booleanifs is not
  brought there by moving or copying either.
* `Terminates`: the rounds over `in` statements, the growing lists of inheriting
  blocks and the expansion of calls in calls come to an end, unless there
  is a circle of blocks or macros in each of which, going by the last part of the name, something
  inherits or calls the next one (`Circular`). A circle of blocks or macros can be copied for ever, before the check for
  recursion is reached (section 5, `MCFindEndless`); a copy without end in any other policy would
  violate the property.

The properties of `CilBuild`:

* `TreeExact`: the AST mirrors the text, with the permissions of a class below it.
* `TablesExact`: the tables hold the declarations of their scopes and nothing else,
  also when `preserve_tunables` makes booleanifs, whose branches have no tables,
  of tunableifs, whose branches have.
* `RefusedRightly`: a refusal has its reason in the statement it stops at and in what
  encloses that; nothing is left over from a container that has ended.
* `AcceptedRightly`: a statement that is wrong in itself is never accepted, and a
  booleanif of the source holds only what it may. (Of the other containers this
  is not true: `find_nesting`.)

The properties of `CilPost` compare what is computed bit by bit with what the
expressions select by name:

* `ValuesExact`: counting, numbering and filling agree although data have several
  nodes, some of them in macros and abstract blocks.
* `AttributesExact`, `RolesExact`, `PermsExact`, `CatsExact`: each bitmap or list
  is what its expressions mean, in whichever order they are evaluated. For
  attributes that contain each other in a circle nothing is asserted.
* `SpecificFirst`: of nested ranges of ports and memory the inner one comes first, as long
  as no two sizes are half a word (2^31) apart (beyond that the code has it wrong: section 5,
  `MCFindRange`); of two netmasks of one family the longer one comes first, of file
  contexts the one with the longer stem last.

The properties of `CilVerify`:

* `BoundsExact`, `Terminates`: the doubling search for circular bounds reports the
  circles, also those the start is not part of, and nothing else, and ends.
* `ContextsValid`: an accepted context is valid with all its named parts, wherever
  they are declared, as long as the walk gets there (`Reached`).
* `StatementsValid`: what is counted and what is looked for in booleanifs; and
  the settings of unknown permissions and MLS in the end are the caller's, if there are
  any (`secilc -U` and `-M` override the statements), else the statement's, else the default.

The properties of `CilBinary` compare the finished policydb, read as libsepol reads
it, with the statements of the tree:

* `AccessExact`: for every setting of the booleans, exactly the accesses of the
  rules are allowed, audited and not audited.
* `NeverallowsHold`: no setting grants what a neverallow forbids, and nothing is
  refused for one without a rule that touches it.
* `TransitionsExact`: exactly the transitions and type rules of the tree, and for every
  setting of the booleans one result for each key, except the keys that one condition
  has rules for in both of its branches (`BothBranches`). Such a key is added without a look at
  the rules of other conditions, and then two results may hold together (section 5, `MCFindCond`).
* `ConstraintsExact`: every class is constrained as its statements say, for all
  pairs of contexts.
* `RolesAndUsersExact`: roles, users, role allows, levels and bounds, in names, if the
  roles that statements name are numbered.
* `LabelsExact`: the labels, in names and in order.

Bounds. Order statements: up to three of up to four of four items, eight items
together. Two statements meet in every way, with a gap on either side, a conflict or
an item that is repeated; a third one waits for a second round. Four items in
a statement are the least that leave a wrong neighbour behind. Optionals: three, one nested in the second,
each needing any of the others or nothing that exists, in an early or a late
pass, is the least with cycles, chains of two restarts and an optional that is
already gone when an enclosing one is left; two of them may share a datum, side
by side or one of them inside the third. Statements: every kind of statement
before, inside and after the optional, alone and together. `Word` is 16: large
enough for the values to be right, small enough to see them wrap.
Blocks: three in every order, each
inheriting from any others, also in a circle and from a block inside, with a
macro, an inner block that is merged, an abstract block or an optional that fails
going along; 2,160 policies. Macros: three in every order that call each other,
also in a circle, in optionals, with an argument, from six kinds of caller;
3,456 policies. Moves: two `in` statements out of eight, before or after their
targets, which contain tunableifs in each other and in an optional; 1,792
policies, and 69 circles of blocks and macros for `Terminates`. 128 policies in which
tunableifs, `in` statements, booleanifs, macros and heirs meet, for the stacks and pointers of the walk. The macros'
callers declare no macro of the name of another one,
because then the further finding `MCFindCaller` applies.
Texts: two containers of each of six kinds in each other with a statement before,
inside and after the inner one and a third container behind, or three in each
other, with and without preserved tunables; every pair of declarations of one
name, in one scope and in three; all shapes of conditions up to three blocks;
expressions of seven shapes around limits of 4 and 3 (10 and 5 in the code).
Post processing: five attributes that refer to each other in any order, types
with several nodes, three labelling statements of each kind, `Word` 16, ranges of sizes
0, 2, 7 and 13, so that two are more than half a word apart.
Verification: all 625 shapes of bounds of four types (circles of one to four,
with a tail of up to three, which passes the limit of 2 twice); three
sensitivities and two categories, with and without names; any three of eleven
pieces, with the caller's settings absent, equal to and different from the statements'. Binary: four permissions to an access vector; every pair of 22
transitions and defaults and of constraint statements over 15 expressions; rules
and booleanifs in either order with the expressions that normalisation treats
apart; with and without MLS, Xen, dontaudits and neverallows.
`CHECK_DEADLOCK FALSE` is used for `CilOrder` only, where a policy may end.

Fairness. `cil_resolve_ast` is one sequential computation that is never
suspended, so weak fairness of its next step, `WF_vars(Next)`, is all that
`Terminates` and `Implements` need. In `CilExpand` the same is written as "infinitely many steps,
or the computation has ended": a step is possible in every state before the end
(deadlock is checked), so the two are equivalent, and TLC is spared evaluating
`ENABLED Next` with its copies. `CilBuild`, `CilPost` and `CilVerify` are single
computations too and assume weak fairness of their steps; `CilBinary`, whose walks
only go forward, is checked for safety and for deadlock. The abstract
specification `CilOptionals` asks for a verdict in the end, which `CilResolve`
gives by its fairness.

## 4. The proofs

All theorems hold for every value of the constants that the assumptions allow:
for every tree, text or policy, not only for those of the runs.

| Module | Theorem | Statement |
|---|---|---|
| `CilOrderProofs` | `OrderTypesTheorem` | `Spec => []TypeOK` |
| | `MergeTheorem` | `Spec => []MergeKeepsOrders` |
| | `ForcedTheorem` | `Spec => []MergeIsForced` |
| | `ResultForcedTheorem` | `Spec => [](step = "done" => Forced(composite))` |
| `CilResolveProofs` | `OptstackTheorem` | `Spec => []OptstackExact` |
| | `ChangeTheorem` | `Spec => ChangeDestroys` |
| | `SparedTheorem` | `Spec => []NotDisabledNeedlessly` |
| | `AllResolvedTheorem` | `Spec => []AllResolved` |
| | `TypeTheorem` | `Spec => []TypeOK` |
| | `RefsTheorem` | `Spec => []RefsCurrent` |
| | `LinksTheorem` | `Spec => []LinksExact` |
| | `RefinementTheorem` | `Spec => Abstract!Init /\ [][Abstract!Next]_(Abstract!vars)` |
| | `ExactTheorem` | `Spec => []OptionalsExact` |
| `CilExpandProofs` | `TreeTypesTheorem` | `Spec => []TypeOK` |
| | `ContextTheorem` | `Spec => []ContextExact` |
| | `NestingTheorem` | `Spec => []NestingAllowed` |
| `CilBuildProofs` | `TreeTheorem` | `Spec => []TreeExact` |
| | `TablesTheorem` | `Spec => []TablesExact` |
| | `RefusedTheorem` | `Spec => []RefusedRightly` |
| | `AcceptedTheorem` | `Spec => []AcceptedRightly` |
| `CilPostProofs` | `ValuesTheorem` | `Spec => []ValuesExact` |
| `CilVerifyProofs` | `BoundsTheorem` | `Spec => []BoundsExact` |
| | `ContextsTheorem` | `Spec => []ContextsValid` |
| | `StatementsTheorem` | `Spec => []StatementsValid` |
| `CilBinaryProofs` | `PeopleTheorem` | `Spec => []RolesAndUsersExact` |

The assumptions. `CilOrder`: the bounds are numbers. `CilResolve`: `Word` is a positive number; the set of data is
finite, has no NULL, and permission counts fit a word; trees are well formed
(`IsTree`: subtrees nest, an optional declares a datum, an alias has no names, a
call comes before the statements that use its arguments, a common is not a macro
argument, which holds because `cil_resolve_call2` has no case for it).
`CilExpand`: trees are what the builder leaves (`IsPolicy` of that module; the proofs
use only that the root comes first, parents come before their children and statements
that use a name have one, so that what the builder lets through by mistake is covered
too). `CilBuild`: texts are well formed (`IsText`: lists nest, permissions stand in
classes, parameters in macros, a leaf of an expression ends where it begins) and
the two limits of depth are numbers. `CilPost`: what resolution leaves is well formed
(`IsPolicy` of that module, section 2). `CilVerify`: what post processing leaves is
well formed (`IsPolicy`: lists nest, bounds and labels refer to data that exist,
no sensitivity is twice in the order, and a setting of the caller is a number or -1). `CilBinary`: `PERMS_PER_CLASS` is a positive
number and policies are what the phases before leave (`IsPolicy`, section 2). TLC checks the assumptions for the inputs
of every run.

### Order lists

`MergeKeepsOrders` speaks of the end, and most of what makes it true happened attempts
ago, while other attempts have failed and left items behind. `OrderInv` says that the
composite list has no item twice and only items of statements (`Insertion`), and that
each merged statement is a subsequence of it; an insertion anywhere keeps both
(`SubsequenceStays`), so a failed attempt does no harm. During an attempt the items before
`ncurr` are found in this order up to `oprev` (`Kept`). The two pointers move
differently in each of the three branches of the loop, but the last of those items is always
at `oprev`, so whatever goes in behind it stands next to its neighbour in the statement.

For `MergeIsForced`, an insertion is looked at from both sides: each new pair of
neighbours is either a pair of the statement or has an end of the segment in it
(`ForcedGrows`), and the ends fit if the segment went in whole. If it did not, the
item that stopped it was in the list already, either from the start or because the
statement repeats it, in a place that contradicts the statement (`Fails`). A `Clash` outlives
insertions (`ClashStays`) and excludes being merged (`NotBoth`), which
gives `ResultForcedTheorem`. The first version of the property said that all neighbours
are forced, also after a failure. The proof of `GapInOld` failed there, and with four items
in a statement TLC found the counterexample of section 3.

### Resolution

*The walk.* `OptstackExact` is not inductive: a pop can leave the right stack
only if every entry below the top still covers the walk's position, and a push
has to be undone although the body of an inner optional may vanish meanwhile.
The invariant `WalkInv` says that the dead nodes are closed under "below an
optional" (`AliveClosed`), that every optional on the stack is alive with a body
and open at `cur` (`StackOpen`), that the stack is sorted (`StackSorted`), and
that every optional with a living node still to come is on it
(`StackComplete`). The lemma `HandlerShape` reduces the handlers to the two
effects they can have on the walk, so the proof has one case for all of them.
`ChangeDestroys` follows because an optional on the stack has a living body.

*Sparing.* For a self-supporting set S, the nodes that S would leave alive are
alive and no datum of S is disabled (`Spared`); a statement in the tree of S
finds its names because the tree only has more nodes than S needs
(`FoundInMore`), and the optional disabled is the innermost one around the
statement (`HeadIsInnermost`), which is not of S.

*All resolved.* `FoundInv` says, while no restart is pending, that each
statement that is alive, has been passed in this round and is not inside a
disabled optional has its names; a step that removes declarations sets `changed`,
which a finished run does not have.

*Types.* `DataInv` adds to the types that a class's common is known from a
`classcommon` statement (`CommonKnown`), which the arithmetic of the reset needs.

*Refinement.* A step of the code that destroys a body, `LeaveOptional`, must be
justified by a name that is missing *now*, but the optional was disabled earlier.
`OptionalInv` bridges that: every disabled datum has an optional one of whose own
statements lacks a name (`DisabledLacks`; declarations only go, so it goes on to
lack it), what is dead was in a disabled optional (`DeadDisabled`), the stack holds
no optional of a macro or an abstract block (`StackWalked`), a disabled optional
with something left in it is still ahead of the walk or on the stack, unless the
round will be repeated anyway (`DisabledGone`), and in an accepted policy it is
empty (`AcceptedWhole`). The last is what `Accept` asks. The proof found that the
specification was too strong before: it had every optional of a datum dropped once
one of them lacks a name, which the code does not do for twins (section 2).

*The largest set.* With `Spared`, what is left is at least every self-supporting
set. Conversely the set of data of the optionals that survive an accepted run is
self-supporting: its statements have their names (`FoundInv`), and nothing else
was destroyed (`DeadDisabled`). Only here `TwinsAlike` is needed: an optional
with a disabled datum is then gone although its own statement was never read.

*References and links.* A round is `Quiet` while nothing was destroyed and no open
optional is disabled; only such a round can be the last. In a quiet round, each
statement the walk has dealt with (`Dealt`) holds declared data for all its names,
those that its names mean in the tree as it is (`RefsSoFar`), and what each field
of a datum holds is exactly the statements dealt with that write it, each once,
or the last of them where the code overwrites (`LinksSoFar`). A round starts
quiet because the reset has emptied what it has to. `LinksExact` leaves out the
one list that the reset forgets, `classperms` (section 5).

### Expansion

*The operators.* `Above`, `Preorder`, `Home`, `WithParents` and `CopyAst` are recursive
functions of nodes. The prover has no induction over data, but a set of numbers that
holds each number all of whose predecessors it holds is complete (`Complete`, by the
least counterexample), and that is enough for one concrete function at a time: that
the function exists (`AboveExists`, `OrderExists`, `CopiedExists`), and then what
holds of its values. `PreorderIs` shows that each node of a subtree comes after its
parent in the order of the walk, so a copy always finds the copy of the parent (`CopySeq`);
`CopyIs`, that a copy that succeeds leaves a tree (`TreeOK`) which has the old one
in it and has grown below the target only (`Grown`); `ResolveNameIs`, that what is found has a
node in the tree. The last is where the model was incomplete: a name can lead through a
block of which no node is left, which the code follows (`Found` now says
`undefined`).

*The tree and the context.* `TypeInv` are the types. `ContextInv` says of any place the walk may be at,
not only before a node is visited, that the two stacks are the optionals and the
calls around it, innermost first (`IsStack`, by counting the nodes that are at
least as deep), and that `boolif` is set exactly in a booleanif. Most
steps only change the tree below the place (`Stays`), and what is above a node depends on
parents, which never change (`KeptAbove`). A call pushed twice, or a pop of another
call, would break `IsStack` when the walk comes back up, wherever the tree has grown
meanwhile. `boolif` and `macro` are single pointers, cleared when *any* container of the kind ends, so
they are only right if containers of the kind do not nest. For booleanifs this is
`MayStand`: a booleanif in a booleanif is refused when it is looked at, and what is above the place
has been looked at. For macros it is not true, since nothing refuses a macro
that `in` moves into another; the proof failed there, which is how
`MCFindMacro` was found. What is true instead is that a cleared `macro`
has left an inner macro behind (`LeftInner`).

*Nesting.* The checks look at a statement once in each pass, and later steps
of the pass bring copies to places the walk has left. `NestingInv` is about the last
pass: whatever the walk has gone past (`Seen`) and the later passes reach
(`Reached`) may stand where it is. It holds because in CALL1 the tree only grows
below the call that is being expanded, which the walk then goes into, and blocks
no longer become abstract. At the end the walk is past everything.

### The builder

`BuildInv` relates the tree that is built to the text as it was read. Its parts:
nodes stand in the order of their statements (`Ordered`), each statement passed has
one node with its flavor, its permissions and the node of its container as parent
(`Made`), the nodes above a node are those of the statements around its statement
(`Chained`), the statements that are open are those of the nodes above `ast`
(`Placed`), nothing that was passed was wrong (`Right`), tables and declarations
correspond (`Entries`), and the four pointers to containers are NULL or point to
a container above (`Knows`). `Upwards`, a recursive function in the module, is
shown equal to a least closed set (`Closure`), about which one can reason without
induction. `StepIs` reduces the handlers to `Refuse` and `Make`. A condition that
is too deep has as many operators in each other (`DeepNesting`, by counting finite
sets). `RefusedRightly` is a part of the invariant, the other three follow from it
at the end. A consequence worth knowing: the check of the depth of constraints
(`cil_build_ast.c:2470`) never refuses anything, because the counter goes down as
often as up (`NeverTooDeep`).

### Post processing

`PostInv` compares the walk that counts with the one that fills the arrays. `Passed(p, kinds)`
are the nodes of some kinds that pass `p` has dealt with; `Outside` says that the walk
is inside nothing that it skips, so they grow by just the node at `cur`. `Numbers`: the
types whose first node was counted have the numbers up to `num`, each its own. `Back`:
`val_to_type` has room for all of them and leads back from the numbers of those that were
indexed. `Room`: a count is the number of labelling statements counted, and an array is as
long as the statements indexed and holds them all. At the end of the first walk every live
type has been counted, by its first node (`HeadIs`, `AllCounted`), so the second one never writes outside
an array. `Sort` only permutes an array (`SortStep`).

### Verification

`VerifyInv`: the walk is inside nothing that it skips (`Outside`), what either walk
has passed meets the conditions its handler checks, counters and settings describe
what was passed (`Verified`), and the search for a circle of bounds keeps both
pointers on the way up from its start with every circle of that way still above
the second (`Search`). `Above` is a least closed set, so the circle is found
without induction over its length. `Search` is why the search cannot miss a circle;
that it ends is left to TLC. `StatementsTheorem` needs one more thing of the settings, `DbInv`: until
the end `db` is what the caller set, so `Finish` finds that and not a statement's value there.

### The policydb

`PeopleInv` compares the three walks with one another: `Passed(p, ops)` are the first nodes
of the data, and the nodes of the other statements, that walk `p` has dealt with, and
each field of the policydb, read back in names, is what those nodes say (`TypesSoFar`,
`RolesSoFar`, `AllowSoFar`, `BoundsSoFar`, `UsersSoFar`, `LevelsSoFar`). A name is
looked up without a check in two places, which is right because the first walk has given
every role and user a number before the second one needs it (`HasNumber`). The tables
grow at their end only, so a number goes on to mean the same name; that a role or user
is found as itself and not under an alias is `ValueIs`. object_r is left out of
the roles of a user by its number, 1, which no other role gets (`ObjectFirst`). `StepIs`
reduces the other actions to four effects on all this, and `AllDone` says that at the
end the first nodes stand for all live ones, since the nodes of a datum
are in templates together. The proof needed one more hypothesis than the property had: that
a number of CIL leads back to the role it was given to. It does not for a role that
was never given one, and that is finding `MCFindGhost`.

### Only model-checked

* Liveness: `Terminates` of `CilExpand` and `CilVerify`, the liveness part of
  `Implements` (the prover has no fairness).
* What compares the result of one recursion with another, which the least-counterexample
  argument would have to follow through both: `InheritedExact`, `CallsExact` and
  `MovedOnce` compare whole copied bodies, `AttributesExact`, `RolesExact`, `PermsExact`
  and `CatsExact` evaluations of nested expressions, `AccessExact`, `NeverallowsHold` and
  `ConstraintsExact` the reading of the policydb with that of the tree.
* `LoopsComputeMergeAll` and `OrdersExact` speak of what the recursive function `MergeAll`
  computes for every list of statements, an induction over its arguments.
* `SpecificFirst`: the key of a file context is a fold over the characters of its path.
* `TransitionsExact` and `LabelsExact` of `CilBinary`: not attempted.

## 5. Findings

The first three are runs of `PROJECT.json`:

* **Orders that cannot be merged** (`find_order`, `OrdersFormed`). The error is
  printed and ignored. With categories or sids the missing list is followed as a
  pointer.
* **Optionals disabled early** (`find_early`, `EarlyWorkKept`). A comment says that
  what the early passes do cannot be in an optional. A blockinherit can; when its
  optional is disabled for another one, it is destroyed but stays in its block's
  list.
* **Statements where they may not stand** (`find_nesting`, `NestingRefused`). The
  builder learns of a container when its first child has been added, and forgets
  it when any container of the kind ends: `(macro m () (macro n ()))` is built.

The others are further configurations, to be run by hand
(`tlc -config MCFindX.cfg <module>`); in each, TLC finds the property violated:

| Configuration | Module | Property | What happens |
|---|---|---|---|
| `MCFindCommon` | `MCFindings` | `PermValuesExact` | `cil_reset_class` (`cil_reset_ast.c:26`) subtracts from the permissions of the common instead of those of the class; after a re-resolution the first wrap below zero and the second are shifted twice |
| `MCFindClassperms` | `MCFindings` | `ClasspermsExact` | the lists of a class permission set and of a map permission are not emptied by the reset (`cil_reset_ast.c:46`) and hold their contents twice |
| `MCFindAlias` | `MCFindings` | `AliasBindsOnce` | "Alias cannot bind more than one value" is never printed: `cil_resolve_name` follows the alias before the check (`cil_resolve_ast.c:441`) |
| `MCFindCaller` | `MCExpandFindings` | `CallersNamespaceUnchecked` | the documentation says that the caller's namespace is not checked when macros are resolved; a call inside a macro is bound anew in each expansion (`cil_resolve_ast.c:2377`), also to a macro of the caller's scopes |
| `MCFindInsert` | `MCExpandFindings` | `InsertionDefined` | `cil_copy_ast` of a blockinherit that is not linked yet, in pass IN, follows a NULL pointer (`cil_copy_ast.c:1888`) |
| `MCFindFreed` | `MCExpandFindings` | `InsertionDefined` | an `in` that stands in an optional goes on the list; the end of the optional, which was disabled in pass TIF through a copy of it that shares its datum, destroys the `in`, and `cil_resolve_in_list` follows the freed node (`cil_resolve_ast.c:2193`) |
| `MCFindMacro` | `MCExpandFindings` | `MacroKnown` | a macro that `in` copies into a macro clears `args->macro` when it ends (`cil_resolve_ast.c:3368`); the calls behind it in the outer macro are taken for calls outside of macros and not expanded in pass MACRO |
| `MCFindEndless` | `MCExpandFindings` | `CopiesEnd` | blocks that inherit each other in a circle, and the like with macros, are copied for ever: the copy goes on into what it has just added (`cil_copy_ast.c:1938`, `cil_resolve_ast.c:2094`); the README of the repository says that recursive limits are not handled |
| `MCFindLoop` | `MCPost` | `NoClasspermsLoop` | `__cil_verify_classperms` returns at the first member that is a class (`cil_verify.c:1421`), so a loop behind it is not reported and a later walk goes round it for ever |
| `MCFindRange` | `MCPost` | `RangesInnerFirst` | the comparisons of ports and memory take the difference of two unsigned sizes for a sign (`cil_post.c:160`, `:250`, `:269`): of two ranges whose sizes are 2^31 or more apart the outer one comes first and hides the inner one |
| `MCFindUser` | `MCPost` | `UserReported` | "User %s does not have a default level" comes too late: post processing follows the missing level first (`cil_post.c:1187`) |
| `MCFindCond` | `MCBinary` | `TypeRulesAgree` | two conditional type rules of one key and different results, under different conditions of which one has the key in both branches, are both enabled by some setting (`cil_binary.c:1060`), although a comment speaks of a warning (`cil_binary.c:1032`) |
| `MCFindGhost` | `MCBinary` | `UnwrittenReported` | a role that only stands in an abstract block is never numbered (`cil.c:2192`) and `__cil_expand_role` takes its 0 for a number (`cil_binary.c:181`): a `roleallow` or `userrole` that names it from outside is written for the role numbered 0, while "Failed to find role %s in sepol hashtab" (`cil_binary.c:119`) is not printed |
| `MCFindDepth` | `MCBuild` | `DepthRefused` | the depth of an expression is not counted along a chain of operators, so expressions deeper than the kernel's stack are accepted (`cil_build_ast.c:2249`, `:2470`) |

## 6. Plan

Done: `OrderedLists`, `CilOrder`, `CilResolve`, `CilExpand`, `CilBuild`, `CilPost`,
`CilVerify`, `CilBinary`, the abstract specification `CilOptionals` and the
refinement `CilImplements`; the theorems of section 4.

Next, most important first:

1. Theorems: `MovedOnce` of `CilExpand`, for which `CopyIs` would have to say what is
   copied and not only where; `TransitionsExact` of `CilBinary`; `PermsExact` of `CilPost`;
   `OrdersExact` from `LoopsComputeMergeAll`, which needs an induction over rounds.
2. `CilContainers`: tree, symbol tables and lists with the ownership of data,
   shown to implement the abstraction `DeclaredIn` of `CilResolve`.
3. `CilNames`: `cil_fqn_qualify` and the scopes that the look-up of `CilExpand`
   gives on a finished tree, shown to be those that `CilResolve` takes as given.


Not modelled:

* the parser and lexer: text to tree, with a stack of open parentheses as its only
  state;
* qualified names (`cil_fqn.c`): the building of strings, planned as item 3;
* the containers on their own: what they promise is part of the modules that use
  them;
* the policy text writer (`cil_policy.c`), which only formats what `CilBinary`
  writes to a policydb;
* the interface (`cil.c`) beyond the functions that the modules use: `cil_compile`
  calls the phases in order and stops at the first error, and the string exports
  format what post processing left;
* the driver, which reads and writes files, and libsepol.
