-------------------------- MODULE PipelineOptimizer --------------------------
(***************************************************************************)
(* The optimiser's rewriting of a pipeline (optimizer.rs): one sweep after *)
(* another over the steps, each fusing or exchanging neighbours, until a   *)
(* sweep changes nothing.  "logical" prepares a pipeline for SQL, where    *)
(* rows have every field they are asked for and arithmetic does not raise; *)
(* "physical" one for memory, where a field may be missing: it sweeps      *)
(* twice and then notes which FILTERs have keys that nothing reads.        *)
(*                                                                         *)
(* Folding of literals and the evaluation depth of fused steps are left    *)
(* out; a count is a literal, a sort's key and binder are of the kinds the *)
(* rewrites reason about.                                                  *)
(***************************************************************************)
EXTENDS PipelineSteps

CONSTANTS
  Programs,    \* pipelines by mode: what may be written
  Tables       \* by mode: the sequences of rows the source may hold

VARIABLES
  mode, written, rows,
  pc,          \* "sweep", or "rewritten"
  rounds,      \* how often the sweeps are still to reach their end
  current,     \* the steps before this sweep
  next,        \* those it has made of current[1 .. i-1]
  i, changed

opt_vars == <<mode, written, rows, pc, rounds, current, next, i, changed>>

Logical == mode = "logical"

-----------------------------------------------------------------------------
(* What the rewrites ask of expressions and steps.                          *)

NeverRaises(x) == TRUE          \* mutant: every expression is taken to be safe
opt_cannot_raise(x) ==
  CASE x.e \in {"true", "one", "key"} -> TRUE
    [] x.e \in {"field", "calc"} -> Logical
    [] OTHER -> FALSE

\* A conjunct that is not the literal TRUE is a comparison.
ConjunctCannotRaise(c) == c.x.e = "true" \/ (Logical /\ opt_cannot_raise(c.x))

opt_filter_predicate_cannot_raise(p) == \A n \in DOMAIN p : ConjunctCannotRaise(p[n])

opt_map_passthroughs(m) == {m[n].as : n \in {k \in DOMAIN m : m[k].x.e = "field" /\ m[k].x.f = m[k].as}}
opt_map_has_computed(m) == \E n \in DOMAIN m : m[n].as \notin opt_map_passthroughs(m)
opt_map_cannot_raise(m) == \A n \in DOMAIN m : opt_cannot_raise(m[n].x)

opt_field_refs(p) == UNION {Reads(p[n].x) : n \in DOMAIN p}
opt_reads_row_or_key(p) == \E n \in DOMAIN p : p[n].x.e \in {"key", "count"}
opt_select_fields(cols) == {cols[n].f : n \in {k \in DOMAIN cols : cols[k].e = "text"}}

Expressions(s) ==
  CASE s.op = "FILTER" -> {s.p[n].x : n \in DOMAIN s.p}
    [] s.op = "MAP" -> {s.m[n].x : n \in DOMAIN s.m}
    [] s.op \in {"SORT_BY", "TOP_BY"} -> {s.x}
    [] s.op = "BUCKET" -> {s.x} \cup {s.m[n].x : n \in DOMAIN s.m}
    [] OTHER -> {}
opt_step_reads_key(s) == \E x \in Expressions(s) : x.e = "key"

AnyButFilter(steps, n) ==       \* mutant: the step after may read keys
  n <= Len(steps) /\ steps[n].op # "FILTER"
\* The step in place n, if there is one, sees none of the keys it is given.
opt_keys_renumbered_by(steps, n) ==
  n <= Len(steps) /\ steps[n].op # "FILTER" /\ ~opt_step_reads_key(steps[n])

-----------------------------------------------------------------------------
(* opt_logical_steps: one action for each rewrite.                          *)

first == current[i]
second == current[i+1]
Pair(a, b) == i + 1 <= Len(current) /\ first.op = a /\ second.op = b

Fuse(step) == next' = Append(next, step) /\ i' = i + 2 /\ changed' = TRUE
\* mutant: the second is met again
ExchangeOnce == next' = next \o <<second, first>> /\ i' = i + 1 /\ changed' = TRUE
Exchange == next' = next \o <<second, first>> /\ i' = i + 2 /\ changed' = TRUE

Rewriting ==
  /\ pc = "sweep" /\ i <= Len(current)
  /\ UNCHANGED <<mode, written, rows, pc, rounds, current>>

LastCount(a, b) == b            \* mutant: the later TAKE decides
Smaller(a, b) == IF a < b THEN a ELSE b

TakeTakeFires == Pair("TAKE", "TAKE")
TakeTake == Rewriting /\ TakeTakeFires /\ Fuse([second EXCEPT !.n = Smaller(first.n, second.n)])

DropDropFires == Pair("DROP", "DROP")
DropDrop == Rewriting /\ DropDropFires /\ Fuse([second EXCEPT !.n = first.n + second.n])

\* The keys are evaluated, and may fail, before the count is looked at.
SortTakeFires == Pair("SORT_BY", "TAKE") /\ second.n >= 1
SortTake ==
  /\ Rewriting /\ SortTakeFires
  /\ Fuse([op |-> "TOP_BY", x |-> first.x, n |-> second.n, at |-> first.at])

MapFilterFires ==
  /\ Pair("MAP", "FILTER")
  /\ opt_field_refs(second.p) # {} /\ opt_field_refs(second.p) \subseteq opt_map_passthroughs(first.m)
  /\ ~opt_reads_row_or_key(second.p)
  /\ opt_keys_renumbered_by(current, i + 2) /\ opt_map_cannot_raise(first.m)
MapFilter == Rewriting /\ MapFilterFires /\ Exchange

SortFilterFires ==
  /\ Pair("SORT_BY", "FILTER")
  /\ ~opt_step_reads_key(second) /\ opt_keys_renumbered_by(current, i + 2)
  /\ opt_cannot_raise(first.x)
  /\ Logical \/ \A n \in DOMAIN second.p : ConjunctCannotRaise(second.p[n])
SortFilter == Rewriting /\ SortFilterFires /\ Exchange

SelectFilterFires ==
  /\ Pair("SELECT_COLS", "FILTER")
  /\ opt_field_refs(second.p) # {} /\ opt_field_refs(second.p) \subseteq opt_select_fields(first.cols)
  /\ ~opt_reads_row_or_key(second.p) /\ opt_keys_renumbered_by(current, i + 2)
SelectFilter == Rewriting /\ SelectFilterFires /\ Exchange

MapSortFires ==
  /\ Pair("MAP", "SORT_BY") \/ Pair("MAP", "TOP_BY")
  /\ opt_map_has_computed(first.m)
  /\ Reads(second.x) # {} /\ Reads(second.x) \subseteq opt_map_passthroughs(first.m)
  /\ opt_map_cannot_raise(first.m) /\ opt_cannot_raise(second.x)
MapSort == Rewriting /\ MapSortFires /\ Exchange

FilterFilterFires == Pair("FILTER", "FILTER") /\ opt_filter_predicate_cannot_raise(second.p)
FilterFilter == Rewriting /\ FilterFilterFires /\ Fuse([first EXCEPT !.p = @ \o second.p])

DistinctDistinctFires == Pair("DISTINCT", "DISTINCT")
DistinctDistinct == Rewriting /\ DistinctDistinctFires /\ Fuse(first)

\* A FILTER(TRUE) goes, unless it is all that is asked of the source.
AlwaysTrue(s) == s.op = "FILTER" /\ Len(s.p) = 1 /\ s.p[1].x.e = "true"
DropTrueFires ==
  /\ AlwaysTrue(first) /\ ~FilterFilterFires
  /\ next # <<>> \/ (i > 1 /\ i < Len(current))
DropTrue == Rewriting /\ DropTrueFires /\ i' = i + 1 /\ changed' = TRUE /\ UNCHANGED next

SomeFires ==
  \/ TakeTakeFires \/ DropDropFires \/ SortTakeFires \/ MapFilterFires \/ SortFilterFires
  \/ SelectFilterFires \/ MapSortFires \/ FilterFilterFires \/ DistinctDistinctFires \/ DropTrueFires

\* mutant: a FILTER(TRUE) that stays counts as a change
TrueChanges == changed \/ AlwaysTrue(first)
Unchanged == changed
Keep ==
  /\ Rewriting /\ ~SomeFires
  /\ next' = Append(next, first) /\ i' = i + 1 /\ changed' = Unchanged

\* opt_inmemory_steps notes, of each FILTER, whether the step after sees its keys.
Stamped(steps) ==
  [n \in DOMAIN steps |-> IF steps[n].op = "FILTER"
                          THEN [steps[n] EXCEPT !.unobserved = opt_keys_renumbered_by(steps, n + 1)]
                          ELSE steps[n]]

EndSweep ==
  /\ pc = "sweep" /\ i > Len(current)
  /\ LET over == ~changed /\ rounds = 1 IN
     /\ current' = IF over /\ ~Logical THEN Stamped(next) ELSE next
     /\ pc' = IF over THEN "rewritten" ELSE "sweep"
  /\ rounds' = IF changed THEN rounds ELSE rounds - 1
  /\ next' = <<>> /\ i' = 1 /\ changed' = FALSE
  /\ UNCHANGED <<mode, written, rows>>

opt_Init ==
  /\ mode \in {"logical", "physical"}
  /\ written \in Programs[mode] /\ rows \in Tables[mode]
  /\ pc = "sweep" /\ rounds = IF mode = "logical" THEN 1 ELSE 2
  /\ current = written /\ next = <<>> /\ i = 1 /\ changed = FALSE

opt_logical_steps ==
  \/ TakeTake \/ DropDrop \/ SortTake \/ MapFilter \/ SortFilter \/ SelectFilter
  \/ MapSort \/ FilterFilter \/ DistinctDistinct \/ DropTrue \/ Keep \/ EndSweep

-----------------------------------------------------------------------------
(* Properties.                                                              *)

OpNames == {"FILTER", "MAP", "SELECT_COLS", "SORT_BY", "TOP_BY", "TAKE", "DROP", "DISTINCT", "BUCKET", "LINK"}
TypeOK ==
  /\ pc = "sweep" => rounds \in 1..2 /\ i \in 1..Len(current) + 1
  /\ \A n \in DOMAIN next : next[n].op \in OpNames
  /\ Len(next) + Len(current) <= Len(written) + i - 1

AsWritten == Run(written, Source(rows), Own(rows, RightRows))

\* Spec 3.4 and 6.2: at every point of the rewriting, the steps made so far and
\* those still to come give what the pipeline gives as written: the elements, in
\* their order, under their keys, or the same first error at the same place.
RewritesKeepValue ==
  Run(next \o SubSeq(current, i, Len(current)), Source(rows), Own(rows, RightRows)) = AsWritten

\* The sweeps come to an end, whatever pipeline they began with.
OptimiserEnds == <>(pc = "rewritten")
=============================================================================
