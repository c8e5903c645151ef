------------------------------ MODULE HybridPlan ------------------------------
(***************************************************************************)
(* plan_hybrid and execute_hybrid (sql/hybrid.rs): how much of a pipeline  *)
(* over a relation the database answers, and what is left to the evaluator *)
(* over the rows that come back.  The optimiser's rewriting of the program *)
(* is planned: whole, if it has a statement; else split inside a MAP some  *)
(* of whose fields have none; else cut after the longest prefix that has   *)
(* one and whose rows are what the continuation would have been given;     *)
(* else not at all.                                                        *)
(*                                                                         *)
(* Helpers, correlated relations and the grouped-latest strategy (which    *)
(* needs a unique key declared) are left out.                              *)
(***************************************************************************)
EXTENDS PipelineOptimizer, StatementPlan

VARIABLES
  phase,    \* "plan", "cut", "planned", "fetched" or "done"
  count,    \* the prefix being tried, in steps
  plan,     \* what was decided: its kind, the steps of each half, the rows' name
  fetched,  \* the rows the database returned
  answer

hy_vars == <<phase, count, plan, fetched, answer>>
vars == <<opt_vars, hy_vars>>

Plan(kind, prefix, rest, name) == [kind |-> kind, prefix |-> prefix, rest |-> rest, name |-> name]
NoPlan == Plan("none", <<>>, <<>>, "")

Prefix(steps, n) == SubSeq(steps, 1, n)
Rest(steps, n) == SubSeq(steps, n + 1, Len(steps))

-----------------------------------------------------------------------------
(* Prefixes whose rows are not the value they stand for.                     *)

\* The groups of a bare BUCKET are theirs until a MAP directly after it.
NeverKeys(steps, n) == FALSE        \* mutant: groups are taken for rows
bucket_rows_are_keys(steps, n) ==
  \E m \in 1..n :
    /\ steps[m].op = "BUCKET" /\ steps[m].m = <<>>
    /\ \A k \in m+1..n : (\A j \in m+1..k-1 : steps[j].op = "FILTER") => steps[k].op # "MAP"

\* A joined row holds each side whole, which SQL has no column for.
NeverLack(steps, n) == FALSE        \* mutant: a join's columns are taken for its rows
join_rows_lack_binders(steps, n) ==
  \E m \in 1..n : steps[m].op = "LINK" /\ \A k \in m+1..n : steps[k].op \notin {"MAP", "SELECT_COLS", "BUCKET"}

SortStep(s) == s.op \in {"SORT_BY", "TOP_BY"}
\* A sort's order does not outlast a group or a join, nor a later sort's ties once
\* a projection has hidden its key.
order_is_lost(steps, n) ==
  \E m \in 1..n : SortStep(steps[m]) /\ \E k \in m+1..n :
    \/ steps[k].op \in {"BUCKET", "LINK"}
    \/ /\ SortStep(steps[k]) /\ \A j \in m+1..k-1 : ~SortStep(steps[j])
       /\ \E j \in m+1..k-1 : steps[j].op \in {"MAP", "SELECT_COLS"}

rows_are_not_the_value(steps, n) ==
  bucket_rows_are_keys(steps, n) \/ join_rows_lack_binders(steps, n) \/ order_is_lost(steps, n)

AnyBoundary(steps, n) == TRUE       \* mutant: a cut may be made after any FILTER
\* A FILTER keeps its input's keys and a statement's rows have none: after one, a
\* step must number the rows again before any key is read.
key_safe_boundary(steps, n) ==
  \/ n = 0 \/ steps[n].op # "FILTER"
  \/ \E k \in n+1..Len(steps) :
       /\ steps[k].op # "FILTER"
       /\ \A j \in n+1..k : ~opt_step_reads_key(steps[j])

-----------------------------------------------------------------------------
(* try_plan_fallthrough: the fields of a MAP that SQL has are fetched, and  *)
(* what the others read beside them.                                        *)

FirstMap(steps) == {n \in DOMAIN steps : steps[n].op = "MAP" /\ \A m \in 1..n-1 : steps[m].op # "MAP"}

contains_unsupported_sql(x) == x.e = "hard"
Pushable(m) == SelectSeq(m, LAMBDA pair : ~contains_unsupported_sql(pair.x))
Custom(m) == SelectSeq(m, LAMBDA pair : contains_unsupported_sql(pair.x))

Names_(m) == {m[n].as : n \in DOMAIN m}
OwnField(pair) == pair.x.e = "field" /\ pair.x.f = pair.as
ReadByCustom(m) == UNION {Reads(Custom(m)[n].x) : n \in DOMAIN Custom(m)}
Dependencies(m) == ReadByCustom(m) \ Names_(Pushable(m))

\* A projected name a custom pair reads must be the row's own field.
FallsThrough(m) ==
  /\ Pushable(m) # <<>> /\ Custom(m) # <<>>
  /\ \A n \in DOMAIN Pushable(m) : Pushable(m)[n].as \in ReadByCustom(m) => OwnField(Pushable(m)[n])

Downstream(s, m) ==
  s.op \in {"SORT_BY", "TOP_BY", "TAKE", "DROP"}
  /\ \A x \in Expressions(s) : Reads(x) \subseteq Names_(Pushable(m))

Field(f) == [e |-> "field", f |-> f]
Fetching(m) == Pushable(m) \o SetToSeq({[as |-> f, x |-> Field(f)] : f \in Dependencies(m)})
Continuing(m) ==
  [n \in DOMAIN m |-> IF contains_unsupported_sql(m[n].x) THEN m[n] ELSE [m[n] EXCEPT !.x = Field(m[n].as)]]

RewrittenPrefix(steps, n) == Append(Prefix(steps, n - 1), [steps[n] EXCEPT !.m = Fetching(@)])
ContinuationOf(steps, n) == <<[steps[n] EXCEPT !.m = Continuing(@)]>> \o Rest(steps, n)

FallThroughAt(steps) ==
  {n \in FirstMap(steps) :
     /\ ~bucket_rows_are_keys(steps, n - 1) /\ key_safe_boundary(steps, n - 1)
     /\ FallsThrough(steps[n].m)
     /\ \A k \in n+1..Len(steps) : Downstream(steps[k], steps[n].m)
     /\ Translates(Statement(RewrittenPrefix(steps, n)))}

-----------------------------------------------------------------------------
(* plan_hybrid.                                                             *)

identity_barrier == identity_loss_before_grouping(written, FALSE)

PureSql == ~identity_barrier /\ ~rows_are_not_the_value(current, Len(current)) /\ Translates(Statement(current))
FallThrough == IF identity_barrier THEN {} ELSE FallThroughAt(current)

Planning ==
  /\ pc = "rewritten" /\ Logical
  /\ UNCHANGED <<opt_vars, fetched, answer>>

PlanWhole ==
  /\ Planning /\ phase = "plan" /\ PureSql
  /\ plan' = Plan("pure_sql", current, <<>>, "")
  /\ phase' = "planned" /\ UNCHANGED count

PlanInside ==
  /\ Planning /\ phase = "plan" /\ ~PureSql
  /\ \E n \in FallThrough : plan' = Plan("hybrid", RewrittenPrefix(current, n), ContinuationOf(current, n), "INPUT")
  /\ phase' = "planned" /\ UNCHANGED count

StartCutting ==
  /\ Planning /\ phase = "plan" /\ ~PureSql /\ FallThrough = {}
  /\ phase' = "cut" /\ count' = Len(current) - 1 /\ UNCHANGED plan

\* LINK(list, relation, pred) in the rest names its left side after the pipeline's
\* source: the rows are fed to it under that name.
IsLink(s) == s.op = "LINK"
needs_rebind(n) ==
  /\ \A m \in 1..n : ~IsLink(current[m])
  /\ \E m \in n+1..Len(current) : IsLink(current[m]) /\ ~current[m].binders
reads_source(n) == \E m \in n+1..Len(current) : IsLink(current[m]) /\ current[m].right = "O"

CanCut(n) ==
  /\ ~rows_are_not_the_value(current, n) /\ key_safe_boundary(current, n)
  /\ identity_barrier => ~identity_loss_before_grouping(Prefix(current, n), TRUE)
  /\ Translates(Statement(Prefix(current, n)))
  /\ ~(needs_rebind(n) /\ reads_source(n))

Cut ==
  /\ Planning /\ phase = "cut" /\ count >= 1 /\ CanCut(count)
  /\ plan' = Plan("hybrid", Prefix(current, count), Rest(current, count), IF needs_rebind(count) THEN "O" ELSE "INPUT")
  /\ phase' = "planned" /\ UNCHANGED count

Shorten ==
  /\ Planning /\ phase = "cut" /\ count >= 1 /\ ~CanCut(count)
  /\ count' = count - 1 /\ UNCHANGED <<phase, plan>>

pure_memory_plan ==
  /\ Planning /\ phase = "cut" /\ count = 0
  /\ plan' = Plan("pure_memory", <<>>, written, "O")
  /\ phase' = "planned" /\ UNCHANGED count

-----------------------------------------------------------------------------
(* execute_hybrid.                                                          *)

Relations == [O |-> rows, C |-> RightRows]

\* The database may turn round the rows of its table, and of all it mixes.
Fetch ==
  /\ phase = "planned" /\ plan.kind # "pure_memory"
  /\ \E scanned, turned \in BOOLEAN :
       fetched' = Answered(Selects(Statement(plan.prefix)), Relations, scanned, turned)
  /\ phase' = "fetched" /\ UNCHANGED <<opt_vars, count, plan, answer>>

AnswerWhole ==
  /\ phase = "fetched" /\ plan.kind = "pure_sql"
  /\ answer' = Answer(Renumbered(fetched))
  /\ phase' = "done" /\ UNCHANGED <<opt_vars, count, plan, fetched>>

\* The continuation's own root: the caller's variables, and the rows under their name.
continuation_root == [Own(IF plan.name = "O" THEN fetched ELSE rows, RightRows) EXCEPT !.name = plan.name]
Continue ==
  /\ phase = "fetched" /\ plan.kind = "hybrid"
  /\ answer' = Run(plan.rest, Source(fetched), continuation_root)
  /\ phase' = "done" /\ UNCHANGED <<opt_vars, count, plan, fetched>>

RunInMemory ==
  /\ phase = "planned" /\ plan.kind = "pure_memory"
  /\ answer' = AsWritten
  /\ phase' = "done" /\ UNCHANGED <<opt_vars, count, plan, fetched>>

hy_Init ==
  /\ phase = "plan" /\ count = 0 /\ plan = NoPlan /\ fetched = <<>> /\ answer = Answer(<<>>)

execute_hybrid ==
  \/ PlanWhole \/ PlanInside \/ StartCutting \/ Cut \/ Shorten \/ pure_memory_plan
  \/ Fetch \/ AnswerWhole \/ Continue \/ RunInMemory

\* A program is answered; one for memory alone is rewritten and no more.
Ended == (phase = "done" \/ (pc = "rewritten" /\ ~Logical)) /\ UNCHANGED vars

Init == opt_Init /\ hy_Init
Rewrite == opt_logical_steps /\ UNCHANGED hy_vars
Next == Rewrite \/ execute_hybrid \/ Ended
Spec == Init /\ [][Next]_vars /\ WF_vars(Rewrite)

-----------------------------------------------------------------------------
(* Properties.                                                              *)

\* Numbers that are equal are the same answer: 1 and 1.0.
RECURSIVE Loose(_)
Loose(v) ==
  CASE v.is = "num" -> Number(Amount(v))
    [] v.is = "row" -> [v EXCEPT !.at = [f \in FieldNames |-> Loose(@[f])]]
    [] v.is = "group" -> [v EXCEPT !.rows = [n \in DOMAIN @ |-> Loose(@[n])]]
    [] OTHER -> v
LooseValues(list) == [n \in DOMAIN list |-> Loose(list[n].v)]
Keys(list) == [n \in DOMAIN list |-> list[n].k]

Same(r, s, keyed) ==
  /\ r.error = s.error /\ LooseValues(r.list) = LooseValues(s.list)
  /\ keyed => Keys(r.list) = Keys(s.list)

\* A relation's rows have no order of their own, nor have those the database mixes.
Orders == {o \in [DOMAIN rows -> DOMAIN rows] : \A m, n \in DOMAIN o : o[m] = o[n] => m = n}
Mixing(steps) == {n \in DOMAIN steps : Mixes(steps[n])}
MixedByTheDatabase ==
  {n \in Mixing(written) : Cardinality({m \in Mixing(written) : m < n}) < Cardinality(Mixing(plan.prefix))}
SomeOrder(Test(_, _)) ==
  \E o \in Orders, turned \in SUBSET MixedByTheDatabase :
    Test(At(rows, o), [Own(rows, RightRows) EXCEPT !.turned = turned])

\* What run() gives, the plan gives: the same error at the same place, or the same
\* elements in order, for some order of the rows in each relation; under the same
\* keys too, unless the database's rows are the answer (sql-translation 12.1).
AnswerKept ==
  phase = "done" => SomeOrder(LAMBDA source, own : Same(answer, Run(written, Source(source), own), plan.kind # "pure_sql"))

\* The rows a continuation is given are those it would have had in memory.
RowsAreTheValue ==
  (phase = "fetched" /\ plan.kind = "hybrid" /\ count > 0) =>
    SomeOrder(LAMBDA source, own :
      LooseValues(Run(plan.prefix, Source(source), own).list) = LooseValues(Renumbered(fetched)))
=============================================================================
