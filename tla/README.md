# SEL, verified: the Rust host's core in TLA+

SEL is a small expression language (`spec/SPEC.md` is normative) with seven
implementations kept equal by a conformance suite. These modules are about one
of them, the Rust host under `src/rust/src/`. In it they are about two kinds of
parts. In the first, state is shared, carried along or put back: value cells,
record shapes and the caches that trust them, the evaluator's depth and frames,
the cells assignments write to, the state a FILTER and the joins below it pass
each other. In the second, something is computed another way than it is
written, and must come out the same: joins that are hashed and filtered early,
rows built from compiled layouts, collectors that keep a heap or leave copies
out, pipelines the optimiser rewrites, programs a database answers in part.

All line numbers below are of files under `src/rust/src/`.

## Inventory

| component | state it keeps | operations | talks to | what makes it hard | what makes it correct |
|---|---|---|---|---|---|
| Value cells (`value.rs`) | kind and scalar, a shape or list flag, storage, kept list keys, entries, a hash index | constructors, `set`, `has`, `get`, `keys`, `values`, `entries`, `elems`, `eql`, `deep_copy`, `record_from_entries` | everything; `shape.rs` for the layouts | five representations of one ordered map, and one-way moves between them | every operation answers by the contents, never by the representation |
| Record shapes and inline caches (`shape.rs`, `eval_index`, `RowAlias`) | a process-wide id counter and interning cache; a slot cache in each Index node; a layout in each `RowAlias` | intern, publish, clear when full, look up a literal key, extend a row | value cells, evaluator, joins | threads between two critical sections; caches that outlive what they saw | an id names one layout, for ever |
| Evaluator (`eval.rs`, `context.rs`, `program.rs`) | `ctx.depth`, `ctx.frames`, pipelines of waiting stages | `eval_node`, `eval_call`, `eval_pipeline`, `invoke_call`, `??` | every builtin, by callback | errors unwind any number of nodes and may be caught; builtins return out of their bodies | depth and frames are at every moment those of plain nested evaluation |
| FILTER and joins: hand-over (`builtins/structure.rs`, `join_prefilter.rs`) | `join_prefilter`, `join_right_null`, `join_prefilter_report` in the Context | `filter_plan`, `filter_rows`, `link_head`, `link_hand_down`, `link_body`, `join_verdict` | the evaluator between any two of them | three slots that any other join may meet before the one they are for | what is handed over reaches its reader or is gone |
| FILTER and joins: rows (`join_plan.rs`, `link_body`) | buckets, key facts, positions, a projector | hash join, early tests, numbering | value cells, shapes | the early tests must leave results, keys and errors as written | the fused join equals FILTER over LINK as written |
| Other structure builtins (`builtins/structure.rs`) | local collectors, a heap, deferred copies | SORT, TOP, BUCKET, DISTINCT, DEDUPE, MAP, REDUCE, TAKE, DROP | evaluator, value cells | ties, copies left out, callbacks that write | each equals its definition in the specification |
| Assignment and identity (`eval_assign`) | the heap of cells under the root | resolve a target, create what is missing, copy, store | evaluator, value cells | the right side may change what the target led to | copies where spec 3.4 has them, no cell in two places |
| Optimiser (`optimizer.rs`, `math_plan.rs`) | the steps of the sweep | fold literals, reorder and fuse steps, stamp `keys_unobserved` | evaluator, joins | which rewrites keep errors and keys | a rewritten program means the same |
| Function registry (`builtins/mod.rs`) | a locked map of specs | define, register, look up, reset | parser, evaluator | a host may change it while programs run | a call finds its function or raises |
| Lexer and parser (`parser.rs`) | position, depth | precedence parsing, shapes of literal records | shapes, registry | the depth cap | E_DEPTH and not a crash |
| Decimals (`dec.rs`, `large_dec.rs`) | none | add, multiply, divide, round, format | operators | digit caps, rounding, two representations | one arithmetic |
| Text, binary, regex | none, and a compiled-pattern cache | pure functions | builtins | regular-expression dialects | conformance |
| SQL and hybrid plans (`sql/`) | plans | translate, cut, execute | a database, the evaluator | where a program may be cut | what the database and memory compute together is what memory would |
| Dependencies (`program.rs`) | a set of names | a static walk | hosts | names bound and assigned | every name read is listed |
| Command line, other hosts | -- | -- | -- | -- | conformance |

Evaluation is single-threaded and runs to completion: one `Context` belongs to
one `Program::run`. Only the shape cache, the id counter and the registry are
shared by threads. Nothing is persisted and there are no messages, retries or
timeouts, so no module has crashes. A program that is evaluated returns because
trees are finite, which no scheduling could break, and no property says so. One
loop runs until nothing changes: the optimiser's sweeps. That it ends is the one
liveness property (`OptimiserEnds`), under weak fairness of the optimiser's own
steps (`WF_vars(Rewrite)`): a single thread runs them, and nothing else is
enabled before they are over. No other specification assumes fairness.

## The modules

### `OrderedMap` and `ValueCell`: one value, five representations

`OrderedMap` is what spec 3.3 promises: a value is a scalar, a list flag and
its children in order under distinct keys. `set` overwrites in place or
appends, FILTER keeps keys, TAKE and DROP number theirs anew.

`ValueCell` is `value.rs`. A cell's record has the fields of `ValueInner` that
hold children: `shape`, `store`, `lkeys`, `ents`, `index`. `set` is the whole
of `Value::set`: the write in place, the move to entries (`Spill`), the append
and the index built when the entries reach `RECORD_INDEX_MIN` (`SetEntry`).
Readers are written per representation as in the code, among them the binary
search in kept positions. `filter_rows`, `FirstRows` and `RestRows` are
FILTER's, TAKE's and DROP's choice of keys.

- `ImplementsOrderedMap`: under the mapping that reads each cell's contents,
  every step is a step of the ordered map.
- `ReprOK`: the representations exclude each other, keys are distinct and kept
  positions ascend, so that binary search and `key_map` are right.
- `IndexExact`: an index, where there is one, names every entry at its slot.
- `ReadsAgree`: `has`, `get`, `keys`, `values`, `entries` and `elems` agree.
- `OperationsAgree`: what FILTER, TAKE, DROP and a copy make depends on the
  contents alone.
- `EqlAgrees`: `eql` is equality of contents, whichever of its paths answers.

### `RecordShapes`: ids, the cache and what trusts them

One process of threads, each with a record, an Index node with a literal key
and a `RowAlias`. `intern_record_shape` takes three steps as in the code: a
look-up under the lock, a shape made outside it, an insertion under the lock
that first clears a full cache. `pc`, `want` and `made` are a thread's place
between them. `issued` is the history of the ids given.

- `IdNamesLayout`: two shapes anyone can reach with one id have one layout.
- `CacheSound`: the cache answers a layout with a shape of that layout and is
  never over `SHAPE_CACHE_ENTRIES`.
- `RowsFitShapes`: a record's values are in the order of its shape's keys,
  extended rows included.
- `ReadsRightKey`: a literal key reads its own value, or nothing exactly when
  the record lacks it, with a slot cached by whichever run.
- `IInv`: the inductive invariant, below.

### `PlainEvaluation` and `Evaluator`: depth and frames

`PlainEvaluation` says what nesting means: nodes open and close, a body's
scope is open while the body runs, E_DEPTH is raised exactly where a node would
be opened past the limit, and an error closes nodes one by one until `??`
catches it.

`Evaluator` is `eval.rs`. `stack` holds the live Rust frames and, above the one
that runs `eval_pipeline`, the stages waiting for their source (`fused`).
`depth` and `frames` are the Context's, and an entry remembers what the code
keeps in locals: `entry` (`entry_depth`) and `frame_depth`. The program is
chosen as it runs: whatever may be asked for next is a choice, so every program
up to the depth limit is covered. ALL and ANY return out of a running body, as
in the code, and a tree the host built itself may hold a call no function is
known for (`UnknownFunction`).

- `ImplementsPlainEvaluation`: the refinement; pipelines and early returns
  change nothing anyone can tell.
- `DepthIsNesting`: the counter is the number of nodes open, waiting stages
  included; a failed pipeline and a caught error leave none charged.
- `FramesAreScopes`: the frames are those of the bodies that run, in order.

### `JoinHandOver`: what a FILTER and its joins tell each other

The three slots of the Context as variables `handed`, `right_null` and
`report`, and the tree of nodes that fill, take and clear them. A FILTER
directly over a LINK (`"over"`) leaves its conjuncts; a LINK takes them before
it evaluates anything and may hand them on to a left source that is a join;
what was done with them comes back as a report. Between any two of these steps
there may be other joins, errors, `??` and the depth limit.

Rows are abstracted: whether a side has any, whether some were dropped.
Conjuncts are abstracted to what the hand-over tells apart: whether a FILTER's
are all early tests or total, only the first ones, or not even the first.
`lost`, in a LINK that waits, is a history: it says a row was dropped below for
a conjunct this join handed down.

- `HandedOnTheWay`: conjuncts are in the slot, or in a LINK's hands, only on
  the way down from their own FILTER, and are counted past every join they
  pass; an opening IS_NULL goes to the very next LINK.
- `DeepUnobserved`: rows lose their places only where no one can tell.
- `ReportHasReader`, `OwnReportOnly`: a report is there only while its reader
  waits, and a FILTER reads its own join's or none.
- `DropsReported`: a join that has no left rows because rows were dropped below
  reads its left source again.

### `VariableTree` and `Assignment`: what is written where

`VariableTree` is spec 5.7 without references: the variables are one tree, an
assignment names a path, key by key, makes each level as it names it, and at the
end puts one value at that path of the tree as it then is and yields it.

`Assignment` is the heap the code has: cells that hold cells, under `ctx.root`.
`pending` holds what a Rust frame holds while something else is evaluated: the
path of an assignment resolved so far (`resolve_target`), the target a compound
assignment has read (`ReadTarget`), the object of an index read, a call's
arguments, what a comma has copied. `walk_create`, `set`, `get`, `deep_copy` and
`list` are functions of a heap; every action is one handler's step between two
evaluations and ends in `Leave`, where cells nothing holds go (`Rc`). Cells are
numbered in the order they are met from the root, so heaps that differ in
addresses are one state. What any operator computes is some scalar, and any
value may become the operand of whatever encloses it: the program is chosen as
it runs. Binder names cannot be assigned and do not occur here; whether a list
without children is a list or NULL is left to `ValueCell`. `deep_copy` copies each
cell it meets once, where the code copies each child it comes to: the same, as no
value has a cell twice, which is part of what is proved (`Good`).

- `ImplementsVariableTree`: whatever keys and right sides assign on the way, an
  assignment changes its own path only, and what it yields is there.
- `OnePlaceEach`: no cell has two places among the variables and what commas
  have collected, though `=`, reads, TAKE and DROP hand out the cells themselves.
- `ScalarsKept`, `CollectedKept`: what is held across an evaluation keeps its
  scalar, what a comma has collected keeps everything.
- `VariablesWithinDepth`: the variables never exceed the depth limit, by one
  level or more. (A value held by a read can: `TAKE(X, 1)` holds X one level
  deeper than the tree does, and X may grow to the limit afterwards. Copying
  that value raises E_DEPTH, as it should.)

### `Collectors`: what SORT, TOP, BUCKET, MAP, FILTER and DISTINCT yield

One call at a time over a source whose children are cells. `visit` is the loop
over the snapshot of children; a body may write into any child between any two
visits, and may yield one of the cells themselves. `items`, `groups` and `heap`
are the handlers' local collections. What is decided before the loop is a
function of the call: `may_write` (does the walk find an assignment or a host's
function below the bodies), `eager` (does a BUCKET copy at once or at its
projection), `borrowed_filter` (is a FILTER read by one more step that only
reads). `given` is a history: what each visit collected, as it then was.

- `SortedAsCollected`: SORT and TOP yield their elements in the order of their
  keys with ties as they came in, each as it was at its own visit, whether TOP
  kept a heap or sorted, copied at once or at the end.
- `HeapHoldsBest`: while TOP selects, no row outside the heap precedes one in it.
- `ListedAsCollected`: no copy MAP or a borrowed FILTER leaves out can be told.
- `GroupedAsCollected`: a BUCKET's groups are its rows' classes, and a projection
  is shown the rows as they were when grouped. (A key that is itself a cell can
  change under its group; spec 3.4 has it so, and `KeysStand` excludes it.)
- `DistinctKeepsFirsts`: comparing only elements whose hashes meet loses none.
- `DepthAtVisitOrDeferred`: E_DEPTH is raised at the element's own visit, but in
  a BUCKET that defers its copies.

### `JoinLayout` and `JoinProjector`: compiled rows

`JoinLayout` is what a joined row is: the two sides under their binders, and the
fields of either that do not meet. `JoinProjector` is the type of that name in
`join_plan.rs`: `plans` compiled per pair of shapes, `last_plan` and `last_left`
that skip a plan's checks of a left row already checked, `right_flat` that skips
those of every right row. Bodies may write into rows between two pairs.

- `ProjectedAsMade`: a row is what its two elements make, whichever plan built
  it, when no body writes; and where one does, when the checks were all made.
- `PlansTellApart`: at most one kept plan fits a pair, so that the order in
  which they are tried is of no account.

### `JoinRows`: a FILTER over joins, rows and all

`A .> LINK(B, k1) [.> FILTER] [.> LINK(C, k2)] .> FILTER`, each handler an action
and in the handlers' order: FILTERs and LINKs plan from the top down through the
slots `prefilter` and `right_null`, rows come up with `report`. `LinkRows` is
`link_body`: key classes and canonical keys, buckets, which conjuncts are asked
of which side and where, what a row dropped early still owes (its own key's
error, the key of the join above, its place in the numbering, its share of the
collection limit). `Written` is the join as spec 7.4 has it: every pair, then
the predicate.

- `FusedAsWritten`: rows, keys where something sees them, and the first error
  are those of the query as written.
- `PlacesStand`: under a FILTER that reads `_K`, the rows handed up stand under
  the places they would have had, had none been dropped.

### `PipelineSteps`, `PipelineOptimizer`, `StatementPlan`, `HybridPlan`

`PipelineSteps` is what a pipeline's steps compute in memory, errors and keys
included, and is what the three others answer to.

`PipelineOptimizer` has one action per rewrite (fuse two TAKEs, exchange a MAP
and a FILTER, ...) and one for the end of a sweep; `rounds` is how often the
sweeps are still to come to rest. `"logical"` mode prepares SQL, where a row has
every field it is asked for; `"physical"` mode memory, where it may not, and ends
by stamping FILTERs whose keys nothing sees.

- `RewritesKeepValue`: at every point inside every sweep, the steps made and
  those to come have the value, keys and first error of the pipeline as written.
- `OptimiserEnds`: the sweeps come to rest.

`StatementPlan` is `sql/statement.rs`: a SELECT as a record that each step adds a
clause to, wrapped as a derived table where the clause would act at the wrong
place, or refused; `identity_loss_before_grouping` besides. `Answered` is the
database, external: rows in no order but an ORDER BY's, groups in any order,
numbers equal and not alike.

`HybridPlan` is `sql/hybrid.rs`. `PlanWhole`, `PlanInside` (a MAP split into what
SQL has and what it has not) and, prefix after prefix, `Cut` or `Shorten` decide;
`Fetch` asks the database; `AnswerWhole`, `Continue` and `RunInMemory` answer.

- `AnswerKept`: for some order of each relation's rows, and of the rows that
  steps run by the database mix, the plan answers what `run()` answers: the
  elements in order up to equal numbers, or the same error at the same place;
  under the same keys too, unless the whole was one statement, whose rows have
  none (`docs/internals/sql-translation.md`, 12.1).
- `RowsAreTheValue`: what a continuation is given is the value the prefix has in
  memory, not only rows the rest of this program happens not to tell from it.

## Runs and bounds

| run | bounds | shows |
|---|---|---|
| `value` | 1 cell, `MaxLen` 3 children, `MaxGiven` 2 in one literal, 1 name and positions as keys, 2 atoms, `IndexMin` 2 | `ValueCell` |
| `shapes` | 2 threads, layouts over 3 keys, one of them oversized, `Capacity` 2, `MaxIds` 4 | races for ids and a cache that overflows |
| `evaluator` | `MaxDepth` 5 | every program five deep |
| `joins` | `MaxDepth` 5; conjuncts that are simple, partial or blocked; leaves, `??` and FILTERs over joins elsewhere; no `??` in a conjunct of fields | `JoinHandOver` |
| `assign` | 2 variables, `MaxDepth` 3, `MaxCells` 4 alive (`MaxAtRest` 5 between statements), `MaxPending` 2 operations waiting, `MaxItems` 2 arguments, 1 text | `Assignment` |
| `collect` | 2 to 4 children under bodies that write; 8 children for TOP's heap | `Collectors` |
| `projector` | 2 left and up to 2 right rows of two fields; records, NULLs and scalars, on the left NULLs (scalars there) under one key only; every write in a smaller case | `JoinProjector` |
| `rows` | tables A and B of up to 2 rows, C of up to 1; one join, two, and two with a FILTER between; limit 100, and 2 where the limit is the question | `JoinRows` |
| `plans` | pipelines of up to 3 of 28 steps for SQL, 2 to 3 of 20 for memory, over 3 rows | the optimiser and the planner |
| `joins_lost` | as `joins`, `??` allowed in those conjuncts | `DropsReported` is violated |
| `rows_key_lost` | a chain whose upper key is compared as a number | `FusedAsWritten` is violated |
| `linked_twice` | LINK, MAP, LINK | `AnswerKept` is violated |

Why they are enough. `IndexMin` is `RECORD_INDEX_MIN` scaled from 16 to 2 so
that a cell of three children goes from scan to index and grows past it. Three
children are the fewest that tell a first, a middle and a last one apart in a
binary search. `Capacity` 2 with four ids lets the cache fill, be cleared and
fill again while both threads hold shapes from before. Depth five holds a
FILTER over a LINK over a FILTER over a LINK and one more node, the shortest
tree in which conjuncts pass a join, a report passes a FILTER, and something
can go wrong in between. In `JoinHandOver`, `Predicates`, `Within` and
`Elsewhere` bound what conjuncts and which other nodes there are. Four cells
with paths of three hold the shortest program in which the right side removes a
level its own target has passed (`a[k][k] = (a = k)`, the root, the two levels
and the value). `VariableTree` sees one pending assignment change the tree under
another, which takes two.

TOP turns from sorting to its heap at four rows for each one kept; eight children with
a limit of two are the first where a heap of more than one is sifted. A third
element is where a write between two visits can reach one visited and one not.
Two rows a table let one row be dropped and one stay, match twice, or share a
bucket under unlike spellings; a third table's one row is what a key of the join
above can meet or raise against. Three steps hold every pair a rewrite looks at
and the one after it that must not see the keys, and every cut with a step on
either side; rows of three fields with two equal keys in two spellings are where
grouping, ties and text comparison part.

Deadlock is checked in every run but `assign`, which stops where the next level
would be a cell too many; the program itself never waits. Elsewhere a run that
is over is run again (`Again`), or says that it has ended (`Ended`).
Runs take from seconds to some two minutes with two workers.

## What is proved

`RecordShapes_proofs`, `Evaluator_proofs`, `JoinHandOver_proofs`,
`ValueCell_proofs`, `Collectors_proofs`, `JoinProjector_proofs` and
`Assignment_proofs`, checked by
TLAPS for every value of the constants the ASSUMEs allow. TLC evaluates each
ASSUME in the run of its module. Of the passing runs' properties, these seven
modules prove all but those named at the end of this section.

**Shapes.** Assumed: `CapacityAssumption`, `MaxIdsAssumption`,
`LayoutAssumption` (layouts have distinct keys, and an extended layout is a
layout), `NoneAssumption`. `IdNamesLayout` needs the history of ids: `IInv` says
that every id held anywhere (cache, record, slot cache, alias, a shape made and
not yet published) was given, to the layout it is held with. Ids are given once,
so the rest follows: `IdsNameLayouts`, `CacheIsSound`, `RowsKeepShapes`,
`ReadsAreRight`.

**Evaluator.** Assumed: the limit is a positive integer. `DepthIsNesting` and
`FramesAreScopes` are not inductive: a return restores the depth from a local,
and cuts the frames to a remembered length, so what the locals hold must be part
of the invariant. `StagesInv` says that a node's charge is its place in the
stack, that a waiting stage stands above a node that waits for it, and which
phases a kind has; `CutsInv` that the frames below an invoked call's
`frame_depth` are exactly those of calls outside it. `IInv` is these with
`TypeOK`. The proof reduces the actions to what they do to the stack (push a
node, change the top, open a scope, close one, cut back to n) with a lemma each.
Theorems: `EvaluatorInvariant`, `DepthCountsNesting`, `FramesFollowBodies`, and
`EvaluatorImplementsPlain`, the refinement: the same five changes map to a step
of `PlainEvaluation` or to none.

**The hand-over.** Assumed: the limit is a positive integer, and which
conjuncts and other nodes there may be. What a property says of the slot is true
because of what every node between the FILTER and the slot remembers, so `IInv`
speaks of them all. `Way` is the
chain of waiting nodes conjuncts are handed down: from their own FILTER, past
LINKs that are keyed and hold conjuncts themselves and FILTERs whose conjuncts
joined them, each LINK counted. `Unseen` is what a deep drop owes on that way: no
FILTER reads `_K`, and the keys of each are unobserved or those of a LINK's left
source that is read deep. `SlotsOK` says that each slot is at the end of its way,
or empty; `ReportOK` that the report's reader waits, and that once a join has
read its own, a report still there is for the node directly above or for one
below. An action keeps a way, makes it one node longer, or breaks it and empties
the slot in the same step; errors are the case where a node disappears without
its handler, and `eval_node` clears the slots there. Theorems: `Invariance`,
`HandedAlongItsWay`, `ReportReaderWaits`, `ReadsItsOwn`, `DeepIsUnobserved`.

`DropsAreReported` also assumes `~CatchingFields`: no conjunct of fields alone
holds a `??`. The run `joins_lost` shows that it is false of other programs
(below). What holds all along is in `TellsDrops`: a join that rows were dropped
for is reading its left source again, or the news is on its way to it. That is, up
to some node every node between them waits and will pass on what it is told
(`Silent`), and that node is a join that has yet to report or rereads its own left
source (`Teller`), or is on top with the report for itself or for the node above
it, or with an error, after which no rows are read (`News`). A join below the top
tells whatever happens above it, so each action has to answer for the top alone.
Only a node in a row's own test could come between the report put back and its
reader, which is where the assumption is used.

**Value cells.** Assumed: an absent field differs from any that is there
(`AbsentAssumption`), `IndexMin` is positive, and a literal gives no more
children than a cell may have (`BoundsAssumption`). `Good` is the inductive part:
the keys of a cell's children differ, wherever the representation has them;
kept positions ascend, which the binary search needs; an index answers for
exactly the entries, each at its slot, which every later write through it needs.
`CellsOK` adds that keys are those of the program and that the bound holds.
Every read is shown to be a walk of the children, the binary search by
induction over the size of its interval; every operation then has one lemma
that says what it `Makes`: a good cell whose contents are those the ordered map
has after the operation of the same name. The invariant, the agreement
properties and the refinement follow from the same lemmas: `CellsAreGood`,
`Representation`, `IndexesAreExact`, `ReadingAgrees`, `OperatingAgrees`,
`EqualityAgrees`, `CellsImplementOrderedMap`.

**Collectors.** Assumed: what a call is (`CallsAssumption`) and that DEDUPE is
given no body (`BodyAssumption`). Each property is about the end of a call, and
is true because all the while what was collected shows what its visit was given:
a call that copies at the visit holds no lent cell, so that no write reaches it,
and a call that lends runs no body that writes (`DeferredReads`, `LentIsRead`,
`GroupsStand`). There is one invariant per family (`ListInv`, `DistinctInv`,
`SortInv`, `GroupInv`, with `DepthAtVisitOrDeferred`, which is inductive as it
is); `IInv` joins them with `TypeInv`. SORT and TOP need that the comparison, by
key, direction and place, is a strict order of the places (`LessOrders`). Then
every set of places has a last one, so that the heap's `Root` exists
(`LastExists`), and the numbers of those before each place are 0 to n - 1
(`RanksAre`, both in `DataInduction`), so that `Sorted` lists each place once and in order. BUCKET needs
that groups stand in the order of their first rows under labels that differ
(`GroupsOK`): the group a key falls in, by text or by hash and EQL, is then the
class of its label. Theorems: `CollectorsInvariant`, `SortedAsCollectedAlways`,
`HeapHoldsBestAlways`, `ListedAsCollectedAlways`, `GroupedAsCollectedAlways`,
`DistinctKeepsFirstsAlways`, `DepthAtVisitOrDeferredAlways`.

**Compiled rows.** Assumed: names have a lower-case form that is its own
(`FoldAssumption`), and tables are sequences of rows with a field for each key
(`CasesAssumption`). `ProjectedAsMade` is about checks that are not made, so the
invariant says that they would pass: the left row of the row before still passes
the last plan's left checks (`SameLeftRow`); while `right_flat` stands, every
right row tested is flat (`FlatRows`) and no plan leaves a right field out for
being no scalar (`FlatPlans`); all this unless a body writes, and then only what
was checked is claimed. `PlansMade` says that each plan was compiled for two rows
that none of the plans before it fits. The proof's core is about one plan
(`LeftFitsIs`, `RightFitsIs`, `FittingPlan`): its checks, all of them made, pass
exactly on the rows that have records and promoted scalars where its own had
them, and those have the same layout. It rests on which keys `joined_layout`
gives to which operation (`SlotsAre`). Theorems: `ProjectorInvariant`,
`RowsProjectedAsMade`, `OnePlanFits`.

**Assignment.** Assumed: scalars are numbers, the limit is a positive integer, and
the marks for no cell are no addresses (`TextsAssumption`, `MaxDepthAssumption`,
`MarksAssumption`). `Inv` has four parts. `Good`: under every cell of the heap
there is a tree, each cell of it at one path (its `Layout`), so nothing leads into
a circle and a copy, which walks the cells, is the tree it copies. `Leavable`: what
waits and what was yielded are cells of the heap. `OwnedApart`: what commas have
collected shares no cell with the variables nor among itself. `Within`: the
variables are within the limit. The second is needed because cells are handed out
and held: a store puts a copy that nothing leads to yet (`Alone`) below a cell of
the root's tree, and it is the layouts of all trees that say which of them that
cell is in, and that no tree gains a cell twice.

Every handler does its work on a heap and then leaves it, dropping and numbering
cells, so the proof has two halves. `Moves` is what each action does before it
leaves: the heap it makes spares what it had (`Spares`: no scalar of a cell
changes, a tree that shares nothing with the variables stays whole), and the tree
of the variables with the targets under way goes where one of `VariableTree`'s
actions takes it (`TreeMoves`). There is one lemma per action
(`LiteralSteps` to `NewRunSteps`), resting on what the walk to a target grows
(`WalkedTo`), what a store at its end changes (`StoredAt`) and what copies are
(`Copies`). `Left` is the rest: the same cells renamed, for which `RenamedTree`
shows the same trees and `LeftFits` the invariant. `Reached` meets the cells that are in
use and no others, which is a closure found by counting (`ReachedIs`). The five
properties follow, the refinement by `TreeGrown` and `TreeStored`, where
`VariableTree`'s own operators are what the lemmas speak of: `Invariant`,
`OnePlaceHolds`, `DepthHolds`, `ScalarsHold`, `CollectedHolds`, `Implements`.

The proofs changed the models in a few places. `compare_values` and `Chosen` were
CASEs whose guards overlapped, which leaves open the arm that is taken; their
guards exclude each other now. That DEDUPE has no body was so in the runs but not
in what the module asked of its `Calls`; that tables are sequences of rows, and
the assumptions of `ValueCell`, likewise. The binary search of a cell and the
sequences of keys of `JoinLayout` are written without recursive operators. What
`Assignment` finds by following children (`Reached`, `TreeAt`, `as_text`) it finds
in as many rounds as there are cells or levels, where it was a function on sets of
cells defined by itself, which has a value only where no cell is met again.
`OnePlaceEach` and the held cells of `ScalarsKept` and `CollectedKept` range over
every place there is, not over those within the run's bounds.

`DataInduction` has what these proofs need of induction: the library's theorems
take an operator as a parameter, which the provers here cannot instantiate, so
induction is stated over sets (a set that has 0 and with each number its
successor) and a fold over a sequence by the function that gives its values on
the prefixes (`FoldExists`, `FoldRuns`), or a function defined by recursion on
numbers by its equations (`NatRecursion`). It also has what a total order says of
the places it orders, for `Sorted` and for the keys at some places in order.

Only model-checked:

- `JoinRows`, the optimiser and the plans. They compare what a bounded input
  gives in two ways, by recursive operators over rows and steps,
  and TLAPS has no SMT backend in a module that reaches one;
- liveness (`OptimiserEnds`) and ENABLED, which are beyond this prover.

## What was found

`joins_lost`. FILTER puts the join's report back for the join above before it
evaluates its own body (`builtins/structure.rs:412`). An error in that body
which `??` catches passes through `eval_node`'s error path, which clears the
report (`eval.rs:33`). The LINK above then does not know that rows were dropped
below for its conjuncts: with no left rows left it answers the empty list,
where the comment at `builtins/structure.rs:1729` has it read its left side
again, as written, and compute every right key. An example is

    FILTER(LINK(FILTER(LINK(A, B, A["id"] == B["aid"]),
                       (_["x"] ?? 0) == 0 AND _["q"] == 3),
                C, _1["k"] == C["ck"]),
           _["z"] > 5) .> MAP(1)

with a row of C that lacks `ck`: as written it raises E_NO_KEY. `joins`
shows that without `??` in a conjunct of fields the property holds.

`rows_key_lost`. Before a join drops a row for a FILTER above the next join, it
proves of that join's key that it is there and not NULL, and not that it is a
number where the join compares numbers (`join_prefilter.rs:477`, by
`join_side_any` and `join_side_present`). A row dropped that way takes its
E_NOT_NUM with it:

    A .> LINK(B, _1["id"] == _2["bid"]) .> LINK(C, _1["f"] == _2["cid"])
      .> FILTER(_["s"] $== "A") .> MAP(1)

answers a row where `A["f"]` is a text in a row FILTER drops; the same join put
into a variable first raises. `rows` compares upper keys as texts.

`linked_twice`. A LINK in the part of a program left to memory names its left
side after the pipeline's source, unless the prefix holds a LINK whose rows have
a name already (`sql/hybrid.rs:1263`). A MAP in the prefix takes that name away:

    ORDERS .> LINK(CUST, ORDERS["id"] == CUST["cid"])
      .> MAP(RECORD("id", _["id"], "nm", _["nm"]))
      .> LINK(CUST, _1["id"] == CUST["cid"]) .> MAP(COUNT(_))

counts 6 fields a row in `run()` and 8 in the plan, which has `_INPUT` beside
the others. `docs/internals/sql-translation.md:2702` says this never happens.

Met on the way, kept out of the passing runs and given none of their own:

- A SORT after a MAP that reads `_K` is exchanged with it, and the keys the MAP
  reads are then those before the sort (`KeysMoved` in `MCHybridPlan`).
- A page of sorted rows (SORT, then TAKE or DROP) under a DISTINCT, BUCKET, LINK
  or a second SORT: the statement has the page, not the order its rows came in,
  and what the next step does with ties differs (`PageMixed`).
- SELECT_COLS and FILTER are exchanged without asking what a computed column
  argument of SELECT_COLS does (`optimizer.rs:642`); columns are literals here.
- `try_plan_fallthrough` does not ask `order_is_lost`, unlike the cut; it needs a
  longer pipeline than the runs have.

## Not modelled, and the plan

Left out of what is modelled, each because no property here tells it apart or
because it would multiply the states without a new interleaving or order:

- *Value cells*: children are atoms; sharing is in `Assignment` and `Collectors`.
- *Joins*: recognising a keyed predicate (`extract_join_equi`) is an input;
  bodies that write and binders that differ only in case are in `JoinProjector`.
- *Optimiser*: folding of literals, the depth a fused FILTER may spend, a literal
  list as a source, the arithmetic plans of `math_plan.rs`; the `borrowed_filter`
  stamp is an input of `Collectors`, where it is used.
- *SQL*: how an expression is spelt in each dialect, with its guards and caveats
  (`translator.rs`, `map.rs`, `dialects/`), helpers, correlated relations,
  LINK_LEFT, groupings by several keys, the latest-member strategy, and what a
  continuation's root shares with the caller's. The database is taken to read a
  derived table cut by a LIMIT in the order of its ORDER BY, as the translation
  takes it to.

Components not modelled: the text, binary and regular-expression builtins (pure
functions, covered by the conformance suite), the function registry (a locked
map; what a missing function does to a pipeline is in `Evaluator`), the command
line, and the other six hosts. More than half of the lines of the repository's
Rust is generated test data (`dev/src/bin/sqlt/case_data.rs`) and the spelling of
SQL.

Still to come, in this order:

1. `Decimals`: caps, rounding and carries on a small base.
2. `Dependencies`, to be checked against the reads of `Assignment`; the parser's
   depth and precedence.
