----------------------------- MODULE Evaluator -----------------------------
(***************************************************************************)
(* The tree walk of src/rust/src/eval.rs and what it keeps in the Context: *)
(* the depth counter and the binder frames.  Any program may be running:   *)
(* the model chooses, node by node, what is asked for next.                *)
(*                                                                         *)
(* A call whose first argument is itself such a call is not evaluated by   *)
(* recursion but as a pipeline: its stages wait in a list, each charged to *)
(* the depth, and are invoked from the innermost out.  An entry of the     *)
(* stack is a node whose Rust frame is live (eval_node) or a stage that    *)
(* waits (fused).                                                          *)
(***************************************************************************)
EXTENDS Naturals, Sequences, SequencesExt

CONSTANT MaxDepth     \* MAX_DEPTH
ASSUME MaxDepthAssumption == MaxDepth \in Nat \ {0}

VARIABLES
  stack,    \* the nodes being evaluated and the pipeline stages waiting
  depth,    \* ctx.depth
  frames,   \* ctx.frames: for each frame, the place in stack of its call
  result    \* what the last node returned; "none" while its parent runs

vars == <<stack, depth, frames, result>>

Kinds == {"expr", "guard", "call"}      \* guard is ??
Caught == {"E_NO_KEY"}                  \* what ?? catches (and E_UNDEF_VAR)
\* E_DEPTH is "evaluation nested too deeply"; a value copied past its own depth
\* limit raises the same code and counts among the others here.
Errors == Caught \cup {"E_DEPTH", "E_OTHER"}

Root == [kind |-> "root", phase |-> "run"]       \* Program::run, asking
Top == IF stack = <<>> THEN Root ELSE stack[Len(stack)]
Phase(p) == Top.phase = p
To(p) == stack' = [stack EXCEPT ![Len(stack)].phase = p]
FirstPhase(kind) ==
  CASE kind = "expr" -> "parts" [] kind = "guard" -> "left" [] kind = "call" -> "head"

\* entry: the depth once charged; frame_depth: the frames when it was invoked.
Node(kind, fused) ==
  [kind |-> kind, phase |-> IF fused THEN "source" ELSE FirstPhase(kind),
   fused |-> fused, chain |-> FALSE, entry |-> depth + 1,
   frame_depth |-> Len(frames)]

-----------------------------------------------------------------------------
\* Where the running code may ask for a node: a program's root, an operand, an
\* argument, a body; and the source that ends a chain of stages.
Asking ==
  /\ result = "none"
  /\ Top.phase \in {"run", "parts", "body", "left", "right", "probe", "source"}

eval_node(kind) ==
  /\ Asking
  /\ IF depth + 1 > MaxDepth
     THEN /\ result' = "E_DEPTH"
          /\ UNCHANGED <<stack, depth, frames>>
     ELSE /\ stack' = Append(stack, Node(kind, FALSE))
          /\ depth' = depth + 1
          /\ UNCHANGED <<frames, result>>

\* Operand::of, and invoke_call's skipped keys: a literal read in place, only
\* where evaluating it could not have raised.
Literal ==
  /\ Asking /\ Phase("parts")
  /\ depth < MaxDepth
  /\ result' = "ok"
  /\ UNCHANGED <<stack, depth, frames>>

Invoke(e) == [e EXCEPT !.phase = "parts", !.frame_depth = Len(frames)]

\* eval_call: a pipeline when its source is a source-first call as well.
eval_call ==
  /\ Phase("head")
  /\ \/ stack' = [stack EXCEPT ![Len(stack)] = Invoke(Top)]
     \/ stack' = [stack EXCEPT ![Len(stack)].phase = "source",
                               ![Len(stack)].chain = TRUE]
  /\ UNCHANGED <<depth, frames, result>>

FuseUnchecked ==        \* mutant: a waiting stage is charged but not limited
  /\ Phase("source") /\ result = "none"
  /\ depth' = depth + 1
  /\ stack' = Append(stack, Node("call", TRUE))
  /\ UNCHANGED <<frames, result>>

\* eval_pipeline's loop: one more stage waits.
Fuse ==
  /\ Phase("source") /\ result = "none"
  /\ depth < MaxDepth
  /\ depth' = depth + 1
  /\ stack' = Append(stack, Node("call", TRUE))
  /\ UNCHANGED <<frames, result>>

\* call_spec of a stage's source finds no function: only in a tree the host
\* built itself, for the parser stores each call's spec.
UnknownFunction ==
  /\ Phase("source") /\ result = "none" /\ Top.fused
  /\ depth < MaxDepth
  /\ result' = "E_OTHER"
  /\ UNCHANGED <<stack, depth, frames>>

\* The stage whose source has a value is invoked with it.
InvokeStage ==
  /\ Phase("source") /\ result = "ok"
  /\ stack' = [stack EXCEPT ![Len(stack)] = Invoke(Top)]
  /\ result' = "none"
  /\ UNCHANGED <<depth, frames>>

-----------------------------------------------------------------------------
\* A call that binds names pushes a frame for its body and pops it after.
push_frame ==
  /\ Phase("parts") /\ Top.kind = "call" /\ result = "none"
  /\ frames' = Append(frames, Len(stack))
  /\ To("body")
  /\ UNCHANGED <<depth, result>>

pop_frame ==
  /\ Phase("body") /\ result = "none"
  /\ frames' = SubSeq(frames, 1, Len(frames) - 1)
  /\ To("parts")
  /\ UNCHANGED <<depth, result>>

\* join_verdict asks a conjunct and keeps the row whatever it raises.
join_verdict ==
  /\ \/ /\ Phase("body") /\ result = "none"
        /\ To("probe")
        /\ UNCHANGED result
     \/ /\ Phase("probe") /\ result # "none"
        /\ To("body")
        /\ result' = "none"
  /\ UNCHANGED <<depth, frames>>

\* The part asked for has its value: on to the next.
NextPart ==
  /\ Top.phase \in {"parts", "body"} /\ result = "ok"
  /\ result' = "none"
  /\ UNCHANGED <<stack, depth, frames>>

\* ??: the right operand is asked for when the left is null or is not there.
FallBack ==
  /\ Phase("left") /\ result \in {"ok"} \cup Caught
  /\ To("right")
  /\ result' = "none"
  /\ UNCHANGED <<depth, frames>>

-----------------------------------------------------------------------------
TruncateNothing(e) == frames            \* mutant: an error keeps the frames
truncate(e) == SubSeq(frames, 1, IF Len(frames) < e.frame_depth
                                 THEN Len(frames) ELSE e.frame_depth)

RestoreOne(e) == depth - 1     \* mutant: a failed pipeline leaves stages charged

\* What leaving the innermost live Rust frame makes of depth: a pipeline puts
\* back what it had on entry, and eval_node takes its own charge away.
Restored(e) == (IF e.chain THEN e.entry ELSE depth) - 1

\* A call has its result: ALL and ANY return out of a body without popping.
Answered ==
  \/ Top.kind = "expr" /\ result = "none"
  \/ Top.kind = "guard" /\ result = "ok"
  \/ Top.kind = "call" /\ Top.phase \in {"parts", "body"} /\ result = "none"

Return ==
  /\ Answered
  /\ result' = "ok"
  /\ frames' = IF Top.kind = "call" THEN truncate(Top) ELSE frames
  /\ depth' = IF Top.fused THEN depth - 1 ELSE Restored(Top)
  /\ stack' = Front(stack)

Raise ==
  /\ result = "none" /\ Top.phase \in {"parts", "body"}
  /\ \E e \in {"E_NO_KEY", "E_OTHER"} : result' = e
  /\ UNCHANGED <<stack, depth, frames>>

Catches ==
  \/ Top.phase = "probe"
  \/ Top.phase = "left" /\ result \in Caught

\* The live Rust frame innermost: the call a pipeline began with, for a stage.
Live == CHOOSE i \in DOMAIN stack :
          ~stack[i].fused /\ \A j \in i + 1 .. Len(stack) : stack[j].fused

\* An error leaves the node, with every stage that still waits.
Fail ==
  /\ stack # <<>> /\ result \in Errors /\ ~Catches
  /\ frames' = IF Top.kind = "call" /\ Top.phase \in {"parts", "body"}
               THEN truncate(Top) ELSE frames
  /\ depth' = Restored(stack[Live])
  /\ stack' = SubSeq(stack, 1, Live - 1)
  /\ UNCHANGED result

\* Program::run makes a Context of its own.
NewRun ==
  /\ stack = <<>> /\ result # "none"
  /\ depth' = 0 /\ frames' = <<>> /\ result' = "none"
  /\ UNCHANGED stack

Init == stack = <<>> /\ depth = 0 /\ frames = <<>> /\ result = "none"

Next ==
  \/ \E kind \in Kinds : eval_node(kind)
  \/ Literal
  \/ eval_call \/ Fuse \/ UnknownFunction \/ InvokeStage
  \/ push_frame \/ pop_frame \/ join_verdict
  \/ NextPart \/ FallBack
  \/ Return \/ Raise \/ Fail
  \/ NewRun

Spec == Init /\ [][Next]_vars

-----------------------------------------------------------------------------
Plain == INSTANCE PlainEvaluation
           WITH open <- [i \in DOMAIN stack |-> stack[i].kind],
                scopes <- {frames[j] : j \in DOMAIN frames}

\* Pipelines, early returns and caught errors change nothing of what nesting
\* means: E_DEPTH is raised exactly at the limit, scopes close with their calls.
ImplementsPlainEvaluation == Plain!Spec

\* The depth counter is the nesting, a waiting stage counting as the nested call
\* it stands for; so a caught error or a failed pipeline leaves none charged.
DepthIsNesting == depth = Len(stack) /\ depth <= MaxDepth

\* The frames are those of the calls whose bodies are running, in order: no
\* name stays bound after its call, and none is lost to an error caught inside.
FramesAreScopes ==
  /\ \A i, j \in DOMAIN frames : i < j => frames[i] < frames[j]
  /\ {frames[j] : j \in DOMAIN frames} =
       {i \in DOMAIN stack : stack[i].phase \in {"body", "probe"}}

-----------------------------------------------------------------------------
(* What these rest on, proved inductive in Evaluator_proofs. *)

Phases == {"head", "source", "parts", "body", "probe", "left", "right"}
Entries ==
  [kind : Kinds, phase : Phases, fused : BOOLEAN, chain : BOOLEAN,
   entry : Nat, frame_depth : Nat]

\* The values the variables range over.
TypeOK ==
  /\ stack \in Seq(Entries)
  /\ depth \in Nat
  /\ frames \in Seq(Nat)
  /\ result \in {"none", "ok"} \cup Errors

\* A waiting stage stands right above the node that waits for it as its source,
\* and what waits so is a pipeline's; a node's charge is its place.
StagesInv ==
  \A i \in DOMAIN stack :
    /\ stack[i].entry = i
    /\ stack[i].fused => i > 1 /\ stack[i - 1].phase = "source"
    /\ stack[i].phase = "source" => stack[i].fused \/ stack[i].chain
    /\ stack[i].kind = "call" => stack[i].phase \notin {"left", "right"}
    /\ stack[i].kind = "expr" => stack[i].phase = "parts"
    /\ stack[i].kind = "guard" => stack[i].phase \in {"left", "right"}

\* A call that was invoked cuts the frames back to those of the calls outside it.
CutsInv ==
  \A i \in DOMAIN stack :
    stack[i].kind = "call" /\ stack[i].phase \in {"parts", "body", "probe"} =>
      /\ stack[i].frame_depth <= Len(frames)
      /\ \A j \in DOMAIN frames : frames[j] < i <=> j <= stack[i].frame_depth

\* The inductive invariant: what each live node will put back when it is left,
\* by a value or by an error, is right for the nodes outside it.
IInv == TypeOK /\ DepthIsNesting /\ FramesAreScopes /\ StagesInv /\ CutsInv
=============================================================================
