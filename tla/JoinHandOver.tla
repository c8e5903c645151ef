---------------------------- MODULE JoinHandOver ----------------------------
(***************************************************************************)
(* What a FILTER and the joins below it tell each other through three      *)
(* slots of the Context (src/rust/src/builtins/structure.rs, fn_filter and *)
(* do_link; eval.rs).  A FILTER directly over a LINK leaves its conjuncts  *)
(* in join_prefilter, or an opening IS_NULL in join_right_null, for that   *)
(* LINK to take before it evaluates anything; a LINK whose left source is  *)
(* a join may hand conjuncts further down; what was done with them comes   *)
(* back through join_prefilter_report.  In between anything may run: other *)
(* joins, errors that ?? or a row's test catches, the depth limit.         *)
(*                                                                         *)
(* A conjunct of fields alone may be tested early.  A FILTER's are "simple"*)
(* if every one of them is such a test or total, "partial" if only the     *)
(* first ones are, and "blocked" if the first one is neither.              *)
(***************************************************************************)
EXTENDS Naturals, Sequences, SequencesExt

CONSTANTS
  MaxDepth,         \* MAX_DEPTH, which here also bounds the model
  CatchingFields,   \* whether a conjunct of fields alone may contain ??
  Predicates,       \* bound: what the FILTERs over joins have for conjuncts,
  Within,           \* and those in a body, an operand or a key
  Elsewhere         \* bound: the kinds of nodes in bodies, operands and keys

ASSUME MaxDepthAssumption == MaxDepth \in Nat \ {0}
ASSUME CatchingFieldsAssumption == CatchingFields \in BOOLEAN
ASSUME PredicatesAssumption == Predicates \subseteq {"simple", "partial", "blocked"}
ASSUME WithinAssumption == Within \subseteq Predicates
ASSUME ElsewhereAssumption == Elsewhere \subseteq {"guard", "over", "filter", "link", "leaf"}

VARIABLES
  stack,        \* the nodes being evaluated, outermost first
  handed,       \* ctx.join_prefilter: the stages and whether drops go deep
  right_null,   \* ctx.join_right_null: whether there is one
  report,       \* ctx.join_prefilter_report
  result        \* what the last node returned; "none" while its parent runs

vars == <<stack, handed, right_null, report, result>>

Nothing == [stages |-> <<>>, deep |-> FALSE]
\* reader: the place of the node it was made for, 0 when there is no report;
\* rest: the conjuncts of the FILTER above that were not applied.
NoReport == [reader |-> 0, dropped |-> FALSE, errored |-> FALSE, rest |-> "any"]

Caught == {"E_NO_KEY"}                  \* what ?? catches (and E_UNDEF_VAR)
Errors == Caught \cup {"E_DEPTH", "E_OTHER"}

\* "over" is a FILTER directly over a LINK, "filter" any other, "guard" is ??;
\* a "leaf" is whatever neither hands nor takes and evaluates no join.
Kinds == {"guard", "over", "filter", "link"}

Root == [kind |-> "root", phase |-> "run", fields |-> FALSE]
Top == IF stack = <<>> THEN Root ELSE stack[Len(stack)]
Here == Len(stack)
At(kind, phase) == Top.kind = kind /\ Top.phase = phase
Become(e) == stack' = [stack EXCEPT ![Here] = e]
To(p) == Become([Top EXCEPT !.phase = p])

\* Inside a conjunct of fields alone there are only operators.
InFields ==
  \/ Top.fields \/ Top.phase = "verdict"
  \/ At("over", "body") /\ Top.own \in {"simple", "total"}

\* A FILTER's plan (own .. unobserved, read: whose report it read) and a LINK's
\* state (stages .. walk); lost: a row was dropped below for what it handed down.
Node(kind) ==
  [kind |-> kind,
   phase |-> CASE kind = "guard" -> "try" [] kind = "over" -> "plan" [] OTHER -> "call",
   fields |-> InFields,
   own |-> "blocked", over |-> FALSE, had |-> FALSE, readsK |-> FALSE,
   unobserved |-> FALSE, read |-> 0,
   stages |-> <<>>, deep |-> FALSE, equi |-> FALSE, left |-> "leaf",
   err |-> "none", below |-> FALSE, lost |-> FALSE, dropped |-> FALSE,
   errored |-> FALSE, walk |-> 0]

-----------------------------------------------------------------------------
(* eval_node, from the side of whoever asks and of whoever is asked. *)

Asked ==
  IF InFields
  THEN {"leaf"} \cup (IF CatchingFields /\ ~(Top.kind = "over" /\ Top.own = "total")
                     THEN {"guard"} ELSE {})
  ELSE CASE Top.phase = "run" -> Kinds
         [] At("over", "source") -> {"link"}
         [] At("filter", "source") \/ At("filter", "piped") -> Elsewhere \ {"link"}
         [] Top.phase \in {"try", "else", "body", "right", "right_first", "rows",
                          "predicate"} \/ At("link", "piped") -> Elsewhere
         [] Top.phase \in {"left", "as_written", "down", "again"} -> {Top.left}
         [] OTHER -> {}

\* An error leaves no conjuncts and no report behind -- except at the limit,
\* where eval_node raises before anything.
ClearHanded == handed' = Nothing /\ UNCHANGED report    \* mutant
Clear == handed' = Nothing /\ report' = NoReport

eval_node(kind) ==
  /\ result = "none" /\ kind \in Asked
  /\ UNCHANGED right_null
  /\ \/ /\ Here = MaxDepth
        /\ result' = "E_DEPTH"
        /\ UNCHANGED <<stack, handed, report>>
     \/ /\ Here < MaxDepth /\ kind # "leaf"
        /\ stack' = Append(stack, Node(kind))
        /\ UNCHANGED <<handed, report, result>>
     \/ /\ Here < MaxDepth /\ kind = "leaf"
        /\ result' = "ok"
        /\ UNCHANGED <<stack, handed, report>>
     \/ /\ Here < MaxDepth /\ kind = "leaf"
        /\ \E e \in Caught \cup {"E_OTHER"} : result' = e
        /\ Clear
        /\ UNCHANGED stack

Leave(r) == stack' = Front(stack) /\ result' = r

\* join_verdict, and a deep join's right source, outlive any error below them.
Catches ==
  \/ Top.phase \in {"verdict", "right_first"}
  \/ Top.phase = "try" /\ result \in Caught

Fail ==
  /\ stack # <<>> /\ result \in Errors /\ ~Catches
  /\ Leave(result)
  /\ Clear
  /\ right_null' = (right_null /\ Top.phase # "source")     \* fn_filter

\* The next row, argument or item: what was asked for has its value.
Resume ==
  /\ result = "ok" /\ Top.phase \in {"run", "body", "rows", "predicate"}
  /\ result' = "none"
  /\ UNCHANGED <<stack, handed, right_null, report>>

\* Program::run makes a Context of its own.
NewRun ==
  /\ stack = <<>> /\ result \in Errors
  /\ Clear /\ right_null' = FALSE
  /\ result' = "none"
  /\ UNCHANGED stack

\* The nodes that are done: a body's rows, ?? with an operand's value.
Return ==
  /\ \/ result = "none" /\ Top.phase \in {"body", "predicate", "done"}
     \/ result = "ok" /\ Top.phase \in {"try", "else"}
  /\ Leave("ok")
  /\ UNCHANGED <<handed, right_null, report>>

FallBack ==
  /\ Top.phase = "try" /\ result \in {"ok"} \cup Caught
  /\ To("else") /\ result' = "none"
  /\ UNCHANGED <<handed, right_null, report>>

PipeAlways ==       \* mutant: a source runs while conjuncts lie in the slot
  /\ Top.phase = "call"
  /\ To(IF Top.kind = "link" THEN "head" ELSE "plan") \/ To("piped")
  /\ UNCHANGED <<handed, right_null, report, result>>

\* eval_call: what was handed down must be seen before a source runs, so a
\* pipeline, which has the source's value first, is only for a call without.
eval_call ==
  /\ Top.phase = "call"
  /\ \/ To(IF Top.kind = "link" THEN "head" ELSE "plan")
     \/ handed = Nothing /\ ~right_null /\ To("piped")
  /\ UNCHANGED <<handed, right_null, report, result>>

-----------------------------------------------------------------------------
(* FILTER *)

\* filter_plan, of a FILTER whose source is not a LINK: it hands nothing.  One
\* whose source a pipeline evaluated finds it there.
filter_plan(preset) ==
  /\ At("filter", IF preset THEN "piped" ELSE "plan")
  /\ result = IF preset THEN "ok" ELSE "none"
  /\ Become([Top EXCEPT !.phase = "source", !.had = handed # Nothing])
  /\ handed' = Nothing
  /\ UNCHANGED <<right_null, report, result>>

DeepWhateverIsRead(had, unobserved, readsK) == had \/ unobserved     \* mutant
Deep(had, unobserved, readsK) == (had \/ unobserved) /\ ~readsK

\* The nodes being evaluated are sources of one another.
OneChain ==
  \A p \in 1 .. Here - 1 :
    stack[p].phase \in {"source", "down", "left", "again", "as_written", "piped"}

\* filter_plan over a join.  A predicate that may write is offered to no join.
PlanOverJoin ==
  /\ At("over", "plan") /\ result = "none"
  /\ \E own \in IF OneChain THEN Predicates ELSE Within, over, readsK, unobserved \in BOOLEAN :
       LET had == handed # Nothing
           stages == <<[filter |-> Here, own |-> own, above |-> 0]>> \o handed.stages
           deep == Deep(had, unobserved, readsK)
           hands == over /\ own # "blocked"
       IN  /\ hands \/ (own = "blocked" /\ ~readsK)   \* the choices that matter
           /\ (hands /\ ~had) \/ ~unobserved
           /\ Become([Top EXCEPT !.phase = "source", !.had = had, !.own = own,
                                 !.over = over, !.readsK = readsK,
                                 !.unobserved = unobserved])
           /\ handed' = IF hands THEN [stages |-> stages, deep |-> deep] ELSE Nothing
           /\ \/ right_null' = (over /\ ~hands /\ ~had)
              \/ UNCHANGED right_null
  /\ UNCHANGED <<report, result>>

\* An invalid binder is refused once the handed conjuncts are taken.
BadBinder ==
  /\ Top.phase \in {"plan", "head"} /\ result = "none"
  /\ handed' = Nothing
  /\ right_null' = (right_null /\ Top.kind # "link")
  /\ result' = "E_OTHER"
  /\ UNCHANGED <<stack, report>>

\* The conjuncts left: those not applied below, unless a row was kept on an error.
Rest == IF Top.over /\ report.reader = Here /\ ~report.errored
        THEN report.rest ELSE "any"

FilterKeepsReport ==        \* mutant: the report it read stays in the slot
  /\ Top.kind \in {"over", "filter"} /\ Top.phase = "source" /\ result = "ok"
  /\ handed' = Nothing /\ right_null' = FALSE
  /\ Become([Node(Top.kind) EXCEPT !.phase = IF Rest = "none" THEN "done" ELSE "body",
                                   !.own = IF Rest = "total" THEN Rest ELSE Top.own,
                                   !.read = report.reader])
  /\ result' = "none"
  /\ UNCHANGED report

\* filter_rows, before its first row: the report is read, and goes up as it is
\* to a join that handed conjuncts down; with every conjunct applied below, the
\* join's list is the result.
filter_rows ==
  /\ Top.kind \in {"over", "filter"} /\ Top.phase = "source" /\ result = "ok"
  /\ handed' = Nothing /\ right_null' = FALSE
  /\ Become([Node(Top.kind) EXCEPT !.phase = IF Rest = "none" THEN "done" ELSE "body",
                                   !.own = IF Rest = "total" THEN Rest ELSE Top.own,
                                   !.read = report.reader])
  /\ report' = IF Top.had /\ report # NoReport
               THEN [report EXCEPT !.reader = Here - 1, !.rest = "any"]
               ELSE NoReport
  /\ result' = "none"

-----------------------------------------------------------------------------
(* LINK and LINK_LEFT *)

\* The conjuncts of a walk's first n stages: it ends in the first FILTER with a
\* conjunct that is neither applied nor total.
Walked(stages, n) == \A i \in 1 .. n - 1 : stages[i].own = "simple"

\* link_head: everything is taken before anything is evaluated.
link_head(preset) ==
  /\ At("link", IF preset THEN "piped" ELSE "head")
  /\ result = IF preset THEN "ok" ELSE "none"
  /\ handed' = Nothing /\ right_null' = FALSE
  /\ \E writes, equi, pure \in BOOLEAN, left \in {"link", "over", "filter", "leaf"} :
       LET pre == IF writes THEN Nothing ELSE handed
           deep_path == pre.deep /\ equi /\ pure /\ left # "leaf"
       IN  /\ writes => handed # Nothing         \* the choices that matter
           /\ pure => handed.deep /\ equi /\ ~writes /\ left # "leaf"
           /\ Become([Top EXCEPT !.phase = IF deep_path THEN "right_first" ELSE "left",
                                 !.stages = pre.stages, !.deep = pre.deep, !.equi = equi, !.left = left])
  /\ UNCHANGED <<report, result>>

HandDownAsIs ==             \* mutant: the joins conjuncts are past go uncounted
  /\ At("link", "right_first") /\ result = "ok"
  /\ \E n \in 0 .. Len(Top.stages) :
       /\ Walked(Top.stages, n)
       /\ handed' = IF n = 0 THEN Nothing
                    ELSE [stages |-> SubSeq(Top.stages, 1, n), deep |-> TRUE]
  /\ To("down") /\ result' = "none"
  /\ UNCHANGED <<right_null, report>>

\* link_hand_down: what may still be asked of the rows below goes down.
link_hand_down ==
  /\ At("link", "right_first") /\ result = "ok"
  /\ \E n \in 0 .. Len(Top.stages) :
       /\ Walked(Top.stages, n)
       /\ handed' = IF n = 0 THEN Nothing
                    ELSE [stages |-> [i \in 1 .. n |->
                                        [Top.stages[i] EXCEPT !.above = @ + 1]],
                          deep |-> TRUE]
  /\ To("down") /\ result' = "none"
  /\ UNCHANGED <<right_null, report>>

\* The right source raised: the left one goes first, as written.
LeftAsWritten ==
  /\ At("link", "right_first") /\ result \in Errors
  /\ Become([Top EXCEPT !.phase = "as_written", !.err = result])
  /\ result' = "none"
  /\ UNCHANGED <<handed, right_null, report>>

RightErrorStands ==
  /\ At("link", "as_written") /\ result = "ok"
  /\ result' = Top.err
  /\ UNCHANGED <<stack, handed, right_null, report>>

\* The sources are read; nothing handed down outlives the left one.
Sources ==
  /\ Top.kind = "link" /\ result = "ok"
  /\ \/ Top.phase = "left" /\ To("right") /\ UNCHANGED handed
     \/ Top.phase = "right" /\ To("link_body") /\ UNCHANGED handed
     \/ Top.phase = "down" /\ To("link_body") /\ handed' = Nothing
  /\ result' = "none"
  /\ UNCHANGED <<right_null, report>>

\* A node that waits for its source, and those that wait for this node's rows.
Waiting(e) == \/ e.kind = "over" /\ e.phase = "source"
              \/ e.kind = "link" /\ e.phase = "down"
Chain == {i \in 1 .. Here - 1 : \A j \in i .. Here - 1 : Waiting(stack[j])}

\* What a join goes on to with its sources' rows.
Joins == IF Top.equi THEN {"rows", "left_rows_alone", "no_right_rows"}
         ELSE {"fallback", "no_right_rows"}
\* The stages with a conjunct to test are those its walk comes to.
Walks == {n \in 0 .. Len(Top.stages) : Walked(Top.stages, n)}
GoOn(p, below, lost) ==
  [Top EXCEPT !.phase = p, !.below = below, !.lost = lost,
              !.left = "leaf", !.equi = FALSE]        \* read no more

\* From here the rows are as written: what was dropped below loses no one any.
AsWritten(e) ==
  stack' = [i \in DOMAIN stack |-> IF i = Here THEN e
                                  ELSE IF i \in Chain
                                  THEN [stack[i] EXCEPT !.lost = FALSE]
                                  ELSE stack[i]]

\* link_body: drops below that left no left rows, and the left source is read
\* again, as written.
link_body ==
  /\ At("link", "link_body") /\ result = "none"
  /\ report' = NoReport
  /\ \/ report.dropped /\ To("again")
     \/ ~report.dropped /\ Become(GoOn("no_left_rows", FALSE, Top.lost))
     \/ \E p \in Joins, n \in Walks :
          Become([GoOn(p, report.dropped, FALSE) EXCEPT !.walk = n])
  /\ UNCHANGED <<handed, right_null, result>>

ReadAgain ==
  /\ At("link", "again") /\ result = "ok"
  /\ report' = NoReport
  /\ \E p \in Joins \cup {"no_left_rows"}, n \in Walks :
       AsWritten([GoOn(p, FALSE, FALSE) EXCEPT !.walk = n])
  /\ result' = "none"
  /\ UNCHANGED <<handed, right_null>>

\* An empty side answers the empty list, and reports nothing.
NoRows ==
  /\ result = "none"
  /\ \/ Top.phase = "no_left_rows" /\ To("done")
     \/ Top.phase = "no_right_rows" /\ AsWritten([Top EXCEPT !.phase = "done"])
  /\ UNCHANGED <<handed, right_null, report, result>>

\* A row's tests, in the order the FILTERs have them, before or after its key.
Ask ==
  /\ At("link", "rows") /\ result = "none" /\ Top.walk > 0
  /\ To("verdict")
  /\ UNCHANGED <<handed, right_null, report, result>>

\* The joins between the FILTER whose conjunct drops a row and this one: what
\* they read from below is not what was written.
Losing(stage) == {i \in stage.filter + 1 .. Here - 1 : stack[i].kind = "link"}

join_verdict ==
  /\ At("link", "verdict") /\ result # "none"
  /\ \/ /\ result = "ok"
        /\ To("rows")
     \/ /\ result = "ok"
        /\ \E n \in 1 .. Top.walk :
             stack' = [i \in DOMAIN stack |->
               IF i = Here THEN [Top EXCEPT !.phase = "rows", !.dropped = TRUE]
               ELSE IF i \in Losing(Top.stages[n])
               THEN [stack[i] EXCEPT !.lost = TRUE] ELSE stack[i]]
     \/ /\ result \in Errors
        /\ Become([Top EXCEPT !.phase = "rows", !.errored = TRUE])
  /\ result' = "none"
  /\ UNCHANGED <<handed, right_null, report>>

ReportOwnDrops(rest) ==     \* mutant: the drops below are not passed on
  report' = IF Top.stages = <<>> THEN report
            ELSE [reader |-> Here - 1, dropped |-> Top.dropped,
                  errored |-> Top.errored, rest |-> rest]

Report(rest) ==
  report' = IF Top.stages = <<>> THEN report
            ELSE [reader |-> Here - 1, dropped |-> Top.dropped \/ Top.below,
                  errored |-> Top.errored, rest |-> rest]

\* The hash join is done.  Once the walk is past the FILTER directly above, the
\* only conjuncts of that one left to evaluate are total, if any.
PastOwn ==
  /\ Top.walk > 0 /\ Top.stages[1].above = 0
  /\ Top.walk > 1 \/ Top.stages[1].own = "simple"

Joined ==
  /\ At("link", "rows") /\ result = "none"
  /\ \/ PastOwn /\ \E rest \in {"total", "none"} : Report(rest)
     \/ (PastOwn => Top.walk = 1) /\ Report("any")
  /\ Leave("ok")
  /\ UNCHANGED <<handed, right_null>>

\* The nested loops: the report is left before the predicate, if there is a
\* right row to ask it of, is evaluated.
NestedLoops ==
  /\ result = "none"
  /\ \/ At("link", "fallback") /\ To("predicate")
     \/ At("link", "left_rows_alone") /\ To("done")
  /\ Report("any")
  /\ UNCHANGED <<handed, right_null, result>>

Init ==
  /\ stack = <<>>
  /\ handed = Nothing /\ right_null = FALSE /\ report = NoReport
  /\ result = "none"

Next ==
  \/ \E kind \in Kinds \cup {"leaf"} : eval_node(kind)
  \/ Fail \/ Resume \/ NewRun \/ Return \/ FallBack \/ eval_call
  \/ \E preset \in BOOLEAN : filter_plan(preset) \/ link_head(preset)
  \/ PlanOverJoin \/ BadBinder \/ filter_rows
  \/ link_hand_down \/ LeftAsWritten \/ RightErrorStands \/ Sources
  \/ link_body \/ ReadAgain \/ NoRows
  \/ Ask \/ join_verdict \/ Joined \/ NestedLoops

Spec == Init /\ [][Next]_vars

-----------------------------------------------------------------------------
LinksIn(first, last) == {i \in first .. last : stack[i].kind = "link"}

\* Each stage came from a FILTER that still waits for its source, by way of
\* FILTERs and LINKs that each wait for theirs, up to place p; nearest first.
OnTheWay(stages, p) ==
  /\ \A i \in DOMAIN stages :
       /\ stages[i].filter \in 1 .. p
       /\ stack[stages[i].filter].kind = "over"
       /\ \A j \in stages[i].filter .. p : Waiting(stack[j])
       /\ stages[i].above = Cardinality(LinksIn(stages[i].filter, p))
  /\ \A i, j \in DOMAIN stages : i < j => stages[i].filter > stages[j].filter

JustAsked == Top.phase \in {"call", "plan", "head"}
Asker == IF JustAsked THEN Here - 1 ELSE Here

\* Conjuncts are only ever in the slot, or in a LINK's hands, on the way from
\* their own FILTER through direct sources: never while another expression is
\* evaluated, never in a source read as written, and never counted past the
\* joins they are past.  An opening IS_NULL goes to the very next LINK.
HandedOnTheWay ==
  /\ OnTheWay(handed.stages, Asker)
  /\ \A p \in DOMAIN stack : OnTheWay(stack[p].stages, p - 1)
  /\ right_null => /\ Asker \in DOMAIN stack /\ stack[Asker].kind = "over"
                   /\ stack[Asker].phase = "source" /\ handed = Nothing

\* Rows are dropped without keeping their places only where no one can tell:
\* no FILTER on the way reads _K, and each one's keys are unobserved or meet a
\* join, which numbers its rows anew.
DeepUnobserved ==
  \A p \in DOMAIN stack :
    stack[p].deep =>
      \A q \in Last(stack[p].stages).filter .. p - 1 :
        stack[q].kind = "over" =>
          /\ ~stack[q].readsK
          /\ stack[q].unobserved \/ (q > 1 /\ stack[q - 1].kind = "link"
                                           /\ stack[q - 1].phase = "down")

\* A report is only there while the FILTER or LINK it was made for waits to read
\* it, and none is left at the end of an expression.
ReportHasReader ==
  report # NoReport =>
    /\ report.reader \in DOMAIN stack
    /\ \/ Waiting(stack[report.reader])
       \/ report.reader = Here /\ At("link", "link_body")

\* A FILTER over a join reads its own join's report or none: one left for
\* another node never tells it to skip its conjuncts.
OwnReportOnly ==
  \A p \in DOMAIN stack :
    stack[p].kind = "over" => stack[p].read \in {0, p}

\* A LINK answers the empty list for want of left rows only if no row was dropped
\* below for a conjunct it handed down: otherwise its left source is read again,
\* as written, and its right keys are computed (structure.rs:1729).
DropsReported ==
  \A p \in DOMAIN stack : stack[p].phase = "no_left_rows" => ~stack[p].lost
=============================================================================
