-------------------------- MODULE PlainEvaluation --------------------------
(***************************************************************************)
(* What evaluation promises about nesting (spec/SPEC.md 6.2-6.4), whoever  *)
(* runs the steps: every node is evaluated inside the one that asked for   *)
(* it, at most MaxDepth deep; the binder scopes in force are those of the  *)
(* calls whose bodies are running, and an error closes everything it       *)
(* passes through.  Evaluator is the program's, with its pipelines.        *)
(***************************************************************************)
EXTENDS Naturals, Sequences

CONSTANTS MaxDepth, Errors

VARIABLES
  open,     \* the kinds of the nodes being evaluated, outermost first
  scopes,   \* the positions in open of the calls that bind names
  result    \* what the node just left answered: "none" while one is running

vars == <<open, scopes, result>>

Kinds == {"expr", "guard", "call"}
Running == result = "none"
Bound(p) == p \in scopes
Within(p) == {q \in scopes : q <= p}

Enter(kind) ==
  /\ Running /\ Len(open) < MaxDepth
  /\ open' = Append(open, kind)
  /\ UNCHANGED <<scopes, result>>

TooDeep ==
  /\ Running /\ Len(open) = MaxDepth
  /\ result' = "E_DEPTH"
  /\ UNCHANGED <<open, scopes>>

Literal ==
  /\ Running /\ Len(open) < MaxDepth
  /\ result' = "ok"
  /\ UNCHANGED <<open, scopes>>

OpenScope ==
  /\ Running /\ open # <<>> /\ open[Len(open)] = "call" /\ ~Bound(Len(open))
  /\ scopes' = scopes \cup {Len(open)}
  /\ UNCHANGED <<open, result>>

CloseScope ==
  /\ Running /\ Bound(Len(open))
  /\ scopes' = Within(Len(open) - 1)
  /\ UNCHANGED <<open, result>>

\* The answer reaches the node that asked, or an error is caught there.
Resume ==
  /\ open # <<>>
  /\ \/ result = "ok"
     \/ result = "E_NO_KEY" /\ open[Len(open)] = "guard"
     \/ result \in Errors /\ Bound(Len(open))
  /\ result' = "none"
  /\ UNCHANGED <<open, scopes>>

Answer ==
  /\ open # <<>> /\ result \in {"none", "ok"}
  /\ open' = SubSeq(open, 1, Len(open) - 1)
  /\ scopes' = Within(Len(open) - 1)
  /\ result' = "ok"

Raise ==
  /\ Running /\ open # <<>>
  /\ \E e \in Errors \ {"E_DEPTH"} : result' = e
  /\ UNCHANGED <<open, scopes>>

Unwind ==
  /\ result \in Errors
  /\ \E n \in 0 .. Len(open) - 1 :
       /\ open' = SubSeq(open, 1, n)
       /\ scopes' = Within(n)
  /\ UNCHANGED result

NewRun ==
  /\ open = <<>> /\ ~Running
  /\ result' = "none"
  /\ UNCHANGED <<open, scopes>>

Init == open = <<>> /\ scopes = {} /\ result = "none"

Next ==
  \/ \E kind \in Kinds : Enter(kind)
  \/ TooDeep \/ Literal
  \/ OpenScope \/ CloseScope
  \/ Resume \/ Answer \/ Raise \/ Unwind \/ NewRun

Spec == Init /\ [][Next]_vars
=============================================================================
