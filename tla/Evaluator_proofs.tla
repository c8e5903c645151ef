-------------------------- MODULE Evaluator_proofs --------------------------
(***************************************************************************)
(* Why the evaluator's depth counter and binder frames are right for every *)
(* depth limit and every program: each action changes the top of the stack,*)
(* pushes one node, or cuts the stack back, and each keeps what the nodes  *)
(* that stay will put back when they are left.                             *)
(***************************************************************************)
EXTENDS Evaluator, WellFoundedInduction, TLAPS

-----------------------------------------------------------------------------
\* The node at the top is one of the stack's.
LEMMA TopIsLast ==
  ASSUME stack \in Seq(Entries), stack # <<>>
  PROVE  /\ Len(stack) \in DOMAIN stack /\ Len(stack) \in Nat /\ Len(stack) > 0
         /\ Top = stack[Len(stack)] /\ Top \in Entries
BY DEF Top

\* A phase other than the root's is a node's.
LEMMA PhaseOfNode ==
  ASSUME Top.phase # "run"
  PROVE  stack # <<>>
BY DEF Top, Root

\* A node where the running code may stand keeps the invariant if it changes
\* nothing but the answer.
LEMMA AnswerKeeps ==
  ASSUME IInv, UNCHANGED <<stack, depth, frames>>,
         result' \in {"none", "ok"} \cup Errors
  PROVE  IInv'
BY DEF IInv, TypeOK, DepthIsNesting, FramesAreScopes, StagesInv, CutsInv

\* A binder position in the frames is a node of the stack, in its body.
LEMMA FramesInStack ==
  ASSUME IInv
  PROVE  /\ \A j \in DOMAIN frames : /\ frames[j] \in DOMAIN stack
                                     /\ stack[frames[j]].phase \in {"body", "probe"}
         /\ \A i \in DOMAIN stack : stack[i].phase \in {"body", "probe"} =>
              \E j \in DOMAIN frames : frames[j] = i
BY DEF IInv, FramesAreScopes

-----------------------------------------------------------------------------
\* Pushing a node: it is charged one more, stands in no body, and is a waiting
\* stage only above a node that waits for its source.
LEMMA PushKeeps ==
  ASSUME IInv, NEW e \in Entries, Len(stack) < MaxDepth,
         e.entry = Len(stack) + 1,
         e.phase \in {"head", "source", "parts", "left"},
         e.kind = "expr" => e.phase = "parts",
         e.kind = "guard" => e.phase = "left",
         e.kind = "call" => e.phase \in {"head", "source"},
         e.fused => stack # <<>> /\ Top.phase = "source",
         e.phase = "source" => e.fused,
         stack' = Append(stack, e), depth' = depth + 1,
         UNCHANGED <<frames, result>>
  PROVE  IInv'
<1>. DEFINE n == Len(stack) + 1
<1>1. /\ stack' \in Seq(Entries) /\ Len(stack') = n /\ n \in Nat
      /\ DOMAIN stack' = DOMAIN stack \cup {n}
      /\ \A i \in DOMAIN stack : stack'[i] = stack[i]
      /\ stack'[n] = e /\ n \notin DOMAIN stack
  BY DEF IInv, TypeOK
<1>2. TypeOK'
  BY <1>1 DEF IInv, TypeOK
<1>3. DepthIsNesting'
  BY <1>1, MaxDepthAssumption DEF IInv, TypeOK, DepthIsNesting
<1>4. FramesAreScopes'
  <2>1. \A i \in DOMAIN stack' : stack'[i].phase \in {"body", "probe"} <=>
            i \in DOMAIN stack /\ stack[i].phase \in {"body", "probe"}
    BY <1>1
  <2>. QED  BY <2>1, <1>1 DEF IInv, FramesAreScopes
<1>5. StagesInv'
  <2>1. e.fused => n > 1 /\ stack'[n - 1].phase = "source"
    BY <1>1, TopIsLast DEF IInv, TypeOK
  <2>2. \A i \in DOMAIN stack : i > 1 => i - 1 \in DOMAIN stack
    BY DEF IInv, TypeOK
  <2>. QED  BY <1>1, <2>1, <2>2 DEF IInv, StagesInv
<1>6. CutsInv'
  BY <1>1 DEF IInv, CutsInv
<1>. QED  BY <1>2, <1>3, <1>4, <1>5, <1>6 DEF IInv

\* Changing the node at the top, and no frame: it is in a body as it was before.
LEMMA ReplaceKeeps ==
  ASSUME IInv, stack # <<>>, NEW e \in Entries,
         e.entry = Top.entry, e.kind = Top.kind, e.fused = Top.fused,
         e.phase \in {"body", "probe"} <=> Top.phase \in {"body", "probe"},
         e.phase = "source" => e.fused \/ e.chain,
         e.kind = "call" => e.phase \notin {"left", "right"},
         e.kind = "expr" => e.phase = "parts",
         e.kind = "guard" => e.phase \in {"left", "right"},
         e.kind = "call" /\ e.phase \in {"parts", "body", "probe"} =>
           \/ e.frame_depth = Top.frame_depth
                /\ Top.phase \in {"parts", "body", "probe"}
           \/ e.frame_depth = Len(frames) /\ e.phase = "parts",
         stack' = [stack EXCEPT ![Len(stack)] = e],
         result' \in {"none", "ok"} \cup Errors,
         UNCHANGED <<depth, frames>>
  PROVE  IInv'
<1>. DEFINE n == Len(stack)
<1>1. /\ stack' \in Seq(Entries) /\ Len(stack') = n /\ n \in DOMAIN stack
      /\ n \in Nat
      /\ DOMAIN stack' = DOMAIN stack
      /\ \A i \in DOMAIN stack : i # n => stack'[i] = stack[i]
      /\ stack'[n] = e /\ Top = stack[n]
      /\ \A i \in DOMAIN stack : i \in Nat /\ i > 0 /\ i <= n
  BY TopIsLast DEF IInv, TypeOK
<1>2. TypeOK' /\ DepthIsNesting'
  BY <1>1 DEF IInv, TypeOK, DepthIsNesting
<1>3. FramesAreScopes'
  <2>1. \A i \in DOMAIN stack : stack'[i].phase \in {"body", "probe"} <=>
            stack[i].phase \in {"body", "probe"}
    BY <1>1
  <2>. QED  BY <2>1, <1>1 DEF IInv, FramesAreScopes
<1>4. StagesInv'
  <2>1. \A i \in DOMAIN stack : i > 1 => i - 1 \in DOMAIN stack /\ i - 1 # n
    BY <1>1
  <2>. QED  BY <1>1, <2>1 DEF IInv, StagesInv
<1>5. CutsInv'
  <2>. SUFFICES ASSUME NEW i \in DOMAIN stack, stack'[i].kind = "call",
                       stack'[i].phase \in {"parts", "body", "probe"}
                PROVE  /\ stack'[i].frame_depth <= Len(frames)
                       /\ \A j \in DOMAIN frames :
                            frames[j] < i <=> j <= stack'[i].frame_depth
    BY <1>1 DEF CutsInv
  <2>1. CASE i # n
    BY <2>1, <1>1 DEF IInv, CutsInv
  <2>2. CASE i = n /\ e.frame_depth = Top.frame_depth
               /\ Top.phase \in {"parts", "body", "probe"}
    BY <2>2, <1>1 DEF IInv, CutsInv
  <2>3. CASE i = n /\ e.frame_depth = Len(frames) /\ e.phase = "parts"
    <3>1. \A j \in DOMAIN frames : frames[j] # n
      BY <2>3, <1>1, FramesInStack
    <3>2. \A j \in DOMAIN frames : frames[j] \in Nat /\ frames[j] <= n
                                   /\ j <= Len(frames)
      BY <1>1, FramesInStack DEF IInv, TypeOK
    <3>3. Len(frames) \in Nat
      BY DEF IInv, TypeOK
    <3>. QED  BY <2>3, <3>1, <3>2, <3>3, <1>1
  <2>. QED  BY <2>1, <2>2, <2>3, <1>1
<1>. QED  BY <1>2, <1>3, <1>4, <1>5 DEF IInv

\* A call in its body is the innermost one there: its frame is the last.
LEMMA LastFrame ==
  ASSUME IInv, stack # <<>>, Top.phase \in {"body", "probe"}
  PROVE  /\ Len(frames) \in DOMAIN frames /\ frames[Len(frames)] = Len(stack)
         /\ \A j \in DOMAIN frames : j # Len(frames) => frames[j] < Len(stack)
<1>1. /\ Len(stack) \in DOMAIN stack /\ Top = stack[Len(stack)]
      /\ \A i \in DOMAIN stack : i \in Nat /\ i <= Len(stack)
      /\ frames \in Seq(Nat)
  BY TopIsLast DEF IInv, TypeOK
<1>2. PICK j \in DOMAIN frames : frames[j] = Len(stack)
  BY <1>1, FramesInStack
<1>3. \A k \in DOMAIN frames : frames[k] \in Nat /\ frames[k] <= Len(stack)
  BY <1>1, FramesInStack
<1>4. \A k \in DOMAIN frames : ~(j < k)
  BY <1>1, <1>2, <1>3 DEF IInv, FramesAreScopes
<1>5. j = Len(frames)
  <2>1. Len(frames) \in Nat /\ DOMAIN frames = 1 .. Len(frames)
    BY <1>1
  <2>2. Len(frames) \in DOMAIN frames /\ j <= Len(frames) /\ j \in Nat
    BY <2>1
  <2>. QED  BY <2>1, <2>2, <1>4
<1>6. \A k \in DOMAIN frames : k # j => frames[k] < frames[j]
  BY <1>1, <1>5 DEF IInv, FramesAreScopes
<1>. QED  BY <1>2, <1>5, <1>6

\* To(p) changes the phase of the top and nothing else.
LEMMA Rephased ==
  ASSUME stack \in Seq(Entries), stack # <<>>, NEW p \in Phases, To(p)
  PROVE  /\ stack' \in Seq(Entries) /\ Len(stack') = Len(stack)
         /\ DOMAIN stack' = DOMAIN stack
         /\ \A i \in DOMAIN stack :
              /\ i \in Nat /\ i > 0 /\ i <= Len(stack)
              /\ i # Len(stack) => stack'[i].phase = stack[i].phase
              /\ i = Len(stack) => stack'[i].phase = p
              /\ stack'[i].kind = stack[i].kind
              /\ stack'[i].fused = stack[i].fused
              /\ stack'[i].chain = stack[i].chain
              /\ stack'[i].entry = stack[i].entry
              /\ stack'[i].frame_depth = stack[i].frame_depth
              /\ stack[i] \in Entries
<1>. DEFINE n == Len(stack)
            e == [stack[n] EXCEPT !.phase = p]
<1>1. n \in DOMAIN stack /\ stack[n] \in Entries
  BY TopIsLast
<1>2. /\ e \in Entries /\ e.phase = p
      /\ e.kind = stack[n].kind /\ e.fused = stack[n].fused
      /\ e.chain = stack[n].chain /\ e.entry = stack[n].entry
      /\ e.frame_depth = stack[n].frame_depth
  BY <1>1 DEF Entries
<1>3. stack' = [stack EXCEPT ![n] = e]
  BY DEF To
<1>. HIDE DEF e
<1>. QED  BY <1>1, <1>2, <1>3

\* Opening a scope: the call's frame is put on top, past every cut.
LEMMA OpenKeeps ==
  ASSUME IInv, push_frame
  PROVE  IInv'
<1>. DEFINE n == Len(stack)
<1>1. /\ stack # <<>> /\ n \in DOMAIN stack /\ n \in Nat /\ Top = stack[n]
      /\ Top \in Entries /\ Top.kind = "call" /\ Top.phase = "parts"
  BY TopIsLast, PhaseOfNode DEF push_frame, Phase, IInv, TypeOK
<1>2. /\ stack' \in Seq(Entries) /\ Len(stack') = n
      /\ DOMAIN stack' = DOMAIN stack
      /\ \A i \in DOMAIN stack :
           /\ i \in Nat /\ i > 0 /\ i <= n
           /\ i # n => stack'[i].phase = stack[i].phase
           /\ i = n => stack'[i].phase = "body"
           /\ stack'[i].kind = stack[i].kind
           /\ stack'[i].fused = stack[i].fused
           /\ stack'[i].chain = stack[i].chain
           /\ stack'[i].entry = stack[i].entry
           /\ stack'[i].frame_depth = stack[i].frame_depth
           /\ stack[i] \in Entries
      /\ frames' = Append(frames, n) /\ UNCHANGED <<depth, result>>
  <2>1. To("body") /\ "body" \in Phases /\ stack \in Seq(Entries)
    BY DEF push_frame, Phases, IInv, TypeOK
  <2>. QED  BY <1>1, <2>1, Rephased DEF push_frame
<1>3. /\ frames' \in Seq(Nat) /\ Len(frames') = Len(frames) + 1
      /\ Len(frames) \in Nat /\ frames \in Seq(Nat)
      /\ DOMAIN frames' = DOMAIN frames \cup {Len(frames) + 1}
      /\ \A j \in DOMAIN frames : frames'[j] = frames[j] /\ j < Len(frames) + 1
      /\ frames'[Len(frames) + 1] = n
  BY <1>1, <1>2 DEF IInv, TypeOK
<1>4. \A j \in DOMAIN frames : frames[j] \in Nat /\ frames[j] < n
  BY <1>1, <1>2, FramesInStack
<1>5. TypeOK' /\ DepthIsNesting'
  BY <1>2, <1>3 DEF IInv, TypeOK, DepthIsNesting
<1>6. FramesAreScopes'
  <2>1. \A i, j \in DOMAIN frames' : i < j => frames'[i] < frames'[j]
    <3>. SUFFICES ASSUME NEW i \in DOMAIN frames', NEW j \in DOMAIN frames', i < j
                  PROVE  frames'[i] < frames'[j]
      OBVIOUS
    <3>1. i \in DOMAIN frames
      BY <1>3
    <3>2. CASE j \in DOMAIN frames
      BY <3>1, <3>2, <1>3 DEF IInv, FramesAreScopes
    <3>3. CASE j = Len(frames) + 1
      BY <3>1, <3>3, <1>3, <1>4
    <3>. QED  BY <3>2, <3>3, <1>3
  <2>2. \A i \in DOMAIN stack : stack'[i].phase \in {"body", "probe"} <=>
            i = n \/ stack[i].phase \in {"body", "probe"}
    BY <1>1, <1>2
  <2>3. {frames'[j] : j \in DOMAIN frames'} =
          {frames[j] : j \in DOMAIN frames} \cup {n}
    BY <1>3
  <2>. QED  BY <2>1, <2>2, <2>3, <1>1, <1>2 DEF IInv, FramesAreScopes
<1>7. StagesInv'
  <2>1. \A i \in DOMAIN stack : i > 1 => i - 1 \in DOMAIN stack /\ i - 1 # n
    BY <1>1, <1>2
  <2>. QED  BY <1>1, <1>2, <2>1 DEF IInv, StagesInv
<1>8. CutsInv'
  <2>. SUFFICES ASSUME NEW i \in DOMAIN stack, stack'[i].kind = "call",
                       stack'[i].phase \in {"parts", "body", "probe"}
                PROVE  /\ stack'[i].frame_depth <= Len(frames')
                       /\ \A j \in DOMAIN frames' :
                            frames'[j] < i <=> j <= stack'[i].frame_depth
    BY <1>2 DEF CutsInv
  <2>1. /\ stack'[i].frame_depth = stack[i].frame_depth
        /\ stack[i].frame_depth \in Nat
        /\ stack[i].kind = "call" /\ stack[i].phase \in {"parts", "body", "probe"}
    BY <1>1, <1>2 DEF Entries
  <2>2. /\ stack[i].frame_depth <= Len(frames)
        /\ \A j \in DOMAIN frames : frames[j] < i <=> j <= stack[i].frame_depth
    BY <2>1 DEF IInv, CutsInv
  <2>. QED  BY <2>1, <2>2, <1>2, <1>3
<1>. QED  BY <1>5, <1>6, <1>7, <1>8 DEF IInv

\* Closing a scope takes the innermost frame, which no cut counts.
LEMMA CloseKeeps ==
  ASSUME IInv, pop_frame
  PROVE  IInv'
<1>. DEFINE n == Len(stack)
            m == Len(frames) - 1
<1>1. /\ stack # <<>> /\ n \in DOMAIN stack /\ n \in Nat /\ Top = stack[n]
      /\ Top \in Entries /\ Top.phase = "body" /\ Top.kind = "call"
  <2>1. Top.phase = "body" /\ stack # <<>>
    BY PhaseOfNode DEF pop_frame, Phase
  <2>2. n \in DOMAIN stack /\ n \in Nat /\ Top = stack[n] /\ Top \in Entries
    BY <2>1, TopIsLast DEF IInv, TypeOK
  <2>3. Top.kind \in {"expr", "guard", "call"}
    BY <2>2 DEF Entries, Kinds
  <2>. QED  BY <2>1, <2>2, <2>3 DEF IInv, StagesInv
<1>2. /\ stack' \in Seq(Entries) /\ Len(stack') = n
      /\ DOMAIN stack' = DOMAIN stack
      /\ \A i \in DOMAIN stack :
           /\ i \in Nat /\ i > 0 /\ i <= n
           /\ i # n => stack'[i].phase = stack[i].phase
           /\ i = n => stack'[i].phase = "parts"
           /\ stack'[i].kind = stack[i].kind
           /\ stack'[i].fused = stack[i].fused
           /\ stack'[i].chain = stack[i].chain
           /\ stack'[i].entry = stack[i].entry
           /\ stack'[i].frame_depth = stack[i].frame_depth
           /\ stack[i] \in Entries
      /\ frames' = SubSeq(frames, 1, m) /\ UNCHANGED <<depth, result>>
  <2>1. To("parts") /\ "parts" \in Phases /\ stack \in Seq(Entries)
    BY DEF pop_frame, Phases, IInv, TypeOK
  <2>. QED  BY <1>1, <2>1, Rephased DEF pop_frame
<1>3. /\ Len(frames) \in DOMAIN frames /\ frames[Len(frames)] = n
      /\ \A j \in DOMAIN frames : j # Len(frames) => frames[j] < n
  BY <1>1, LastFrame
<1>4. /\ frames' \in Seq(Nat) /\ Len(frames') = m /\ m \in Nat
      /\ frames \in Seq(Nat)
      /\ DOMAIN frames = DOMAIN frames' \cup {m + 1} /\ m + 1 = Len(frames)
      /\ \A j \in DOMAIN frames' : j \in DOMAIN frames /\ frames'[j] = frames[j]
                                   /\ j # Len(frames)
  <2>1. frames \in Seq(Nat) /\ Len(frames) \in Nat \ {0}
    BY <1>3 DEF IInv, TypeOK
  <2>2. m \in Nat /\ m + 1 = Len(frames) /\ m <= Len(frames)
    BY <2>1
  <2>. QED  BY <2>1, <2>2, <1>2
<1>5. TypeOK' /\ DepthIsNesting'
  BY <1>2, <1>4 DEF IInv, TypeOK, DepthIsNesting
<1>6. FramesAreScopes'
  <2>1. \A i, j \in DOMAIN frames' : i < j => frames'[i] < frames'[j]
    BY <1>4 DEF IInv, FramesAreScopes
  <2>2. \A i \in DOMAIN stack : stack'[i].phase \in {"body", "probe"} <=>
            i # n /\ stack[i].phase \in {"body", "probe"}
    BY <1>1, <1>2
  <2>3. {frames'[j] : j \in DOMAIN frames'} =
          {frames[j] : j \in DOMAIN frames} \ {n}
    <3>1. \A j \in DOMAIN frames : frames[j] # n => j \in DOMAIN frames'
      BY <1>3, <1>4
    <3>2. \A j \in DOMAIN frames' : frames'[j] # n
      BY <1>1, <1>3, <1>4 DEF IInv, TypeOK
    <3>. QED  BY <3>1, <3>2, <1>4
  <2>. QED  BY <2>1, <2>2, <2>3, <1>1, <1>2 DEF IInv, FramesAreScopes
<1>7. StagesInv'
  <2>1. \A i \in DOMAIN stack : i > 1 => i - 1 \in DOMAIN stack /\ i - 1 # n
    BY <1>1, <1>2
  <2>. QED  BY <1>1, <1>2, <2>1 DEF IInv, StagesInv
<1>8. CutsInv'
  <2>. SUFFICES ASSUME NEW i \in DOMAIN stack, stack'[i].kind = "call",
                       stack'[i].phase \in {"parts", "body", "probe"}
                PROVE  /\ stack'[i].frame_depth <= Len(frames')
                       /\ \A j \in DOMAIN frames' :
                            frames'[j] < i <=> j <= stack'[i].frame_depth
    BY <1>2 DEF CutsInv
  <2>1. /\ stack'[i].frame_depth = stack[i].frame_depth
        /\ stack[i].frame_depth \in Nat
        /\ stack[i].kind = "call" /\ stack[i].phase \in {"parts", "body", "probe"}
    BY <1>1, <1>2 DEF Entries
  <2>2. /\ stack[i].frame_depth <= Len(frames)
        /\ \A j \in DOMAIN frames : frames[j] < i <=> j <= stack[i].frame_depth
    BY <2>1 DEF IInv, CutsInv
  <2>3. stack[i].frame_depth # Len(frames)
    BY <2>2, <1>2, <1>3
  <2>. QED  BY <2>1, <2>2, <2>3, <1>4
<1>. QED  BY <1>5, <1>6, <1>7, <1>8 DEF IInv

-----------------------------------------------------------------------------
\* Leaving nodes: the stack is cut back to n, and the frames to those of the
\* calls that stay.
LEMMA CutKeeps ==
  ASSUME IInv, NEW n \in Nat, n < Len(stack),
         NEW m \in Nat, m <= Len(frames),
         \A j \in DOMAIN frames : frames[j] <= n <=> j <= m,
         stack' = SubSeq(stack, 1, n), depth' = n,
         frames' \in Seq(Nat), Len(frames') = m,
         \A j \in 1 .. m : frames'[j] = frames[j],
         result' \in {"none", "ok"} \cup Errors
  PROVE  IInv'
<1>1. /\ stack' \in Seq(Entries) /\ Len(stack') = n /\ Len(stack) \in Nat
      /\ \A i \in DOMAIN stack' : i \in DOMAIN stack /\ stack'[i] = stack[i]
                                  /\ i <= n /\ i \in Nat
      /\ \A i \in DOMAIN stack : i <= n => i \in DOMAIN stack'
  BY DEF IInv, TypeOK
<1>2. /\ frames' \in Seq(Nat) /\ Len(frames') = m /\ frames \in Seq(Nat)
      /\ \A j \in DOMAIN frames' : j \in DOMAIN frames /\ frames'[j] = frames[j]
                                   /\ j <= m /\ j \in Nat
      /\ \A j \in DOMAIN frames : j <= m => j \in DOMAIN frames'
  BY DEF IInv, TypeOK
<1>3. TypeOK' /\ DepthIsNesting'
  BY <1>1, <1>2, MaxDepthAssumption DEF IInv, TypeOK, DepthIsNesting
<1>4. FramesAreScopes'
  <2>1. \A i, j \in DOMAIN frames' : i < j => frames'[i] < frames'[j]
    BY <1>2 DEF IInv, FramesAreScopes
  <2>2. ASSUME NEW j \in DOMAIN frames'
        PROVE  /\ frames'[j] \in DOMAIN stack'
               /\ stack'[frames'[j]].phase \in {"body", "probe"}
    BY <1>1, <1>2, FramesInStack
  <2>4. {frames'[j] : j \in DOMAIN frames'} \subseteq
          {i \in DOMAIN stack' : stack'[i].phase \in {"body", "probe"}}
    BY <2>2
  <2>5. {i \in DOMAIN stack' : stack'[i].phase \in {"body", "probe"}} \subseteq
          {frames'[j] : j \in DOMAIN frames'}
    <3>. SUFFICES ASSUME NEW i \in DOMAIN stack',
                         stack'[i].phase \in {"body", "probe"}
                  PROVE  \E j \in DOMAIN frames' : frames'[j] = i
      OBVIOUS
    <3>. QED  BY <1>1, <1>2, FramesInStack
  <2>. QED  BY <2>1, <2>4, <2>5 DEF FramesAreScopes
<1>5. StagesInv'
  <2>1. \A i \in DOMAIN stack' : i > 1 => i - 1 \in DOMAIN stack'
    BY <1>1
  <2>. QED  BY <1>1, <2>1 DEF IInv, StagesInv
<1>6. CutsInv'
  <2>. SUFFICES ASSUME NEW i \in DOMAIN stack', stack'[i].kind = "call",
                       stack'[i].phase \in {"parts", "body", "probe"}
                PROVE  /\ stack'[i].frame_depth <= Len(frames')
                       /\ \A j \in DOMAIN frames' :
                            frames'[j] < i <=> j <= stack'[i].frame_depth
    BY DEF CutsInv
  <2>0. /\ stack[i] \in Entries /\ stack[i].kind = "call" /\ i \in DOMAIN stack
        /\ stack[i].phase \in {"parts", "body", "probe"}
    BY <1>1 DEF IInv, TypeOK
  <2>1. /\ stack[i].frame_depth <= Len(frames) /\ stack[i].frame_depth \in Nat
        /\ \A j \in DOMAIN frames : frames[j] < i <=> j <= stack[i].frame_depth
    BY <2>0 DEF IInv, CutsInv, Entries
  <2>2. stack[i].frame_depth <= m
    <3>1. CASE stack[i].frame_depth = 0
      BY <3>1
    <3>2. CASE stack[i].frame_depth # 0
      <4>1. stack[i].frame_depth \in DOMAIN frames
        BY <3>2, <2>1, <1>2
      <4>2. frames[stack[i].frame_depth] < i
        BY <4>1, <2>1
      <4>3. frames[stack[i].frame_depth] <= n
        BY <4>1, <4>2, <1>1, <1>2
      <4>. QED  BY <4>1, <4>3
    <3>. QED  BY <3>1, <3>2
  <2>. QED  BY <2>1, <2>2, <1>1, <1>2
<1>. QED  BY <1>3, <1>4, <1>5, <1>6 DEF IInv

-----------------------------------------------------------------------------
\* A set of naturals that is not empty has a least one.
LEMMA LeastNatural ==
  ASSUME NEW T \in SUBSET Nat, T # {}
  PROVE  \E k \in T : \A l \in T : k <= l
<1>1. PICK R : /\ IsWellFoundedOn(R, Nat)
               /\ \A k, l \in Nat : l < k => <<l, k>> \in R
  <2>. DEFINE R == OpToRel(<, Nat)
  <2>1. \A k, l \in Nat : l < k => <<l, k>> \in R
    BY DEF OpToRel
  <2>2. IsWellFoundedOn(R, Nat)
    BY NatLessThanWellFounded
  <2>. HIDE DEF R
  <2>. QED  BY <2>1, <2>2
<1>2. PICK k \in T : \A l \in T : ~(<<l, k>> \in R)
  BY <1>1, WFMin
<1>3. ASSUME NEW l \in T PROVE k <= l
  <2>1. k \in Nat /\ l \in Nat /\ ~(l < k)
    BY <1>1, <1>2
  <2>. QED  BY <2>1
<1>. QED  BY <1>3

\* The innermost live Rust frame: the stages above it wait, each for its source.
LEMMA LiveIsLive ==
  ASSUME IInv, stack # <<>>
  PROVE  /\ Live \in DOMAIN stack /\ ~stack[Live].fused
         /\ \A j \in Live + 1 .. Len(stack) : stack[j].fused
<1>. DEFINE n == Len(stack)
            T == {k \in 0 .. n - 1 : ~stack[n - k].fused}
<1>1. /\ n \in Nat /\ n > 0 /\ 1 \in DOMAIN stack /\ DOMAIN stack = 1 .. n
      /\ ~stack[1].fused
  BY DEF IInv, TypeOK, StagesInv
<1>2. T \in SUBSET Nat /\ n - 1 \in T
  BY <1>1
<1>3. PICK k \in T : \A l \in T : k <= l
  BY <1>2, LeastNatural
<1>4. /\ n - k \in DOMAIN stack /\ ~stack[n - k].fused
      /\ \A j \in n - k + 1 .. n : stack[j].fused
  <2>1. k \in 0 .. n - 1 /\ ~stack[n - k].fused
    BY <1>3
  <2>2. ASSUME NEW j \in n - k + 1 .. n, ~stack[j].fused PROVE FALSE
    <3>1. n - j \in 0 .. n - 1 /\ n - (n - j) = j /\ n - j < k
      BY <2>1, <2>2, <1>1
    <3>2. n - j \in T
      BY <3>1, <2>2
    <3>3. k <= n - j
      BY <3>2, <1>3
    <3>. QED  BY <3>1, <3>3, <2>1, <1>1
  <2>. QED  BY <2>1, <2>2, <1>1
<1>. QED  BY <1>4 DEF Live

\* Below the top, those stages and the live frame stand at their sources, and it
\* began a pipeline; so what it puts back is the depth outside it.
LEMMA LiveRestores ==
  ASSUME IInv, stack # <<>>
  PROVE  /\ Restored(stack[Live]) = Live - 1
         /\ \A i \in Live .. Len(stack) - 1 : stack[i].phase = "source"
<1>. DEFINE n == Len(stack)
<1>1. /\ Live \in DOMAIN stack /\ ~stack[Live].fused /\ Live \in 1 .. n
      /\ \A j \in Live + 1 .. n : j \in DOMAIN stack /\ stack[j].fused
      /\ n \in Nat
  BY LiveIsLive DEF IInv, TypeOK
<1>2. ASSUME NEW i \in Live .. n - 1 PROVE stack[i].phase = "source"
  <2>1. i + 1 \in Live + 1 .. n /\ (i + 1) - 1 = i
    BY <1>1
  <2>2. i + 1 \in DOMAIN stack /\ stack[i + 1].fused
    BY <1>1, <2>1
  <2>. QED  BY <2>1, <2>2 DEF IInv, StagesInv
<1>3. CASE stack[Live].chain
  BY <1>3, <1>1 DEF Restored, IInv, StagesInv
<1>4. CASE ~stack[Live].chain
  <2>1. stack[Live].phase # "source"
    BY <1>4, <1>1 DEF IInv, StagesInv
  <2>2. ~(Live \in Live .. n - 1)
    BY <2>1, <1>2
  <2>3. Live = n
    BY <2>2, <1>1
  <2>. QED  BY <2>3, <1>2, <1>4, <1>1 DEF Restored, IInv, DepthIsNesting
<1>. QED  BY <1>2, <1>3, <1>4

-----------------------------------------------------------------------------
(* The actions, by what they do to the stack. *)

\* Asking for a node pushes it, or fails at the limit and changes nothing else.
LEMMA EnterKeeps ==
  ASSUME IInv, NEW kind \in Kinds, eval_node(kind)
  PROVE  IInv'
<1>1. CASE /\ depth + 1 > MaxDepth /\ result' = "E_DEPTH"
           /\ UNCHANGED <<stack, depth, frames>>
  BY <1>1, AnswerKeeps DEF Errors
<1>2. CASE /\ ~(depth + 1 > MaxDepth) /\ stack' = Append(stack, Node(kind, FALSE))
           /\ depth' = depth + 1 /\ UNCHANGED <<frames, result>>
  <2>. DEFINE e == Node(kind, FALSE)
  <2>1. /\ e \in Entries /\ e.entry = depth + 1 /\ ~e.fused /\ e.kind = kind
        /\ e.phase = FirstPhase(kind)
    BY DEF Node, Entries, Phases, FirstPhase, Kinds, IInv, TypeOK
  <2>2. /\ depth = Len(stack) /\ Len(stack) < MaxDepth
    BY <1>2, MaxDepthAssumption DEF IInv, DepthIsNesting, TypeOK
  <2>3. /\ e.phase \in {"head", "parts", "left"}
        /\ kind = "expr" => e.phase = "parts"
        /\ kind = "guard" => e.phase = "left"
        /\ kind = "call" => e.phase = "head"
    BY <2>1 DEF FirstPhase, Kinds
  <2>. HIDE DEF e
  <2>. QED  BY <1>2, <2>1, <2>2, <2>3, PushKeeps DEF e
<1>. QED  BY <1>1, <1>2 DEF eval_node

\* One more waiting stage is pushed above a node that waits for its source.
LEMMA FuseKeeps ==
  ASSUME IInv, Fuse
  PROVE  IInv'
<1>. DEFINE e == Node("call", TRUE)
<1>1. /\ e \in Entries /\ e.entry = depth + 1 /\ e.fused /\ e.kind = "call"
      /\ e.phase = "source"
  BY DEF Node, Entries, Phases, Kinds, IInv, TypeOK
<1>2. depth = Len(stack) /\ Len(stack) < MaxDepth
  BY DEF Fuse, IInv, DepthIsNesting
<1>3. Top.phase = "source" /\ stack # <<>>
  BY PhaseOfNode DEF Fuse, Phase
<1>4. /\ stack' = Append(stack, e) /\ depth' = depth + 1
      /\ UNCHANGED <<frames, result>>
  BY DEF Fuse
<1>. HIDE DEF e
<1>. QED  BY <1>1, <1>2, <1>3, <1>4, PushKeeps

\* What the record of the top and its changes have for fields.
LEMMA TopFields ==
  ASSUME IInv, stack # <<>>
  PROVE  /\ Top \in Entries /\ Top = stack[Len(stack)]
         /\ Top.kind \in Kinds /\ Top.phase \in Phases
         /\ Top.phase = "source" => Top.fused \/ Top.chain
         /\ Top.kind = "call" => Top.phase \notin {"left", "right"}
         /\ Top.kind = "expr" => Top.phase = "parts"
         /\ Top.kind = "guard" => Top.phase \in {"left", "right"}
         /\ \A p \in Phases :
              LET e == [Top EXCEPT !.phase = p]
              IN  /\ e \in Entries /\ e.phase = p
                  /\ e.entry = Top.entry /\ e.kind = Top.kind
                  /\ e.fused = Top.fused /\ e.chain = Top.chain
                  /\ e.frame_depth = Top.frame_depth
         /\ LET e == Invoke(Top)
            IN  /\ e \in Entries /\ e.phase = "parts"
                /\ e.entry = Top.entry /\ e.kind = Top.kind
                /\ e.fused = Top.fused /\ e.chain = Top.chain
                /\ e.frame_depth = Len(frames)
<1>1. /\ Len(stack) \in DOMAIN stack /\ Top = stack[Len(stack)] /\ Top \in Entries
  BY TopIsLast DEF IInv, TypeOK
<1>2. Top.kind \in Kinds /\ Top.phase \in Phases
  BY <1>1 DEF Entries
<1>3. /\ Top.phase = "source" => Top.fused \/ Top.chain
      /\ Top.kind = "call" => Top.phase \notin {"left", "right"}
      /\ Top.kind = "expr" => Top.phase = "parts"
      /\ Top.kind = "guard" => Top.phase \in {"left", "right"}
  BY <1>1 DEF IInv, StagesInv
<1>4. ASSUME NEW p \in Phases
      PROVE  LET e == [Top EXCEPT !.phase = p]
             IN  /\ e \in Entries /\ e.phase = p
                 /\ e.entry = Top.entry /\ e.kind = Top.kind
                 /\ e.fused = Top.fused /\ e.chain = Top.chain
                 /\ e.frame_depth = Top.frame_depth
  BY <1>1 DEF Entries
<1>5. Len(frames) \in Nat
  BY DEF IInv, TypeOK
<1>6. LET e == Invoke(Top)
      IN  /\ e \in Entries /\ e.phase = "parts"
          /\ e.entry = Top.entry /\ e.kind = Top.kind
          /\ e.fused = Top.fused /\ e.chain = Top.chain
          /\ e.frame_depth = Len(frames)
  BY <1>1, <1>5 DEF Entries, Invoke, Phases
<1>. QED  BY <1>1, <1>2, <1>3, <1>4, <1>6

\* A call begins its parts, or a pipeline: either way no frame is touched.
LEMMA CallKeeps ==
  ASSUME IInv, eval_call
  PROVE  IInv'
<1>1. /\ Top.phase = "head" /\ stack # <<>> /\ UNCHANGED <<depth, frames, result>>
      /\ result \in {"none", "ok"} \cup Errors /\ Len(stack) \in DOMAIN stack
  BY PhaseOfNode, TopIsLast DEF eval_call, Phase, IInv, TypeOK
<1>2. Top.kind = "call"
  BY <1>1, TopFields DEF Kinds
<1>3. CASE stack' = [stack EXCEPT ![Len(stack)] = Invoke(Top)]
  <2>. DEFINE e == Invoke(Top)
  <2>1. /\ e \in Entries /\ e.phase = "parts" /\ e.entry = Top.entry
        /\ e.kind = Top.kind /\ e.fused = Top.fused
        /\ e.frame_depth = Len(frames)
    BY <1>1, TopFields
  <2>. HIDE DEF e
  <2>. QED  BY <2>1, <1>1, <1>2, <1>3, ReplaceKeeps DEF e
<1>4. CASE stack' = [stack EXCEPT ![Len(stack)].phase = "source",
                                  ![Len(stack)].chain = TRUE]
  <2>. DEFINE e == [Top EXCEPT !.phase = "source", !.chain = TRUE]
  <2>1. Top = stack[Len(stack)] /\ Top \in Entries
    BY <1>1, TopFields
  <2>2. /\ e \in Entries /\ e.phase = "source" /\ e.entry = Top.entry
        /\ e.kind = Top.kind /\ e.fused = Top.fused /\ e.chain
    BY <2>1 DEF Entries, Phases
  <2>3. stack' = [stack EXCEPT ![Len(stack)] = e]
    BY <1>1, <1>4, <2>1 DEF IInv, TypeOK
  <2>. HIDE DEF e
  <2>. QED  BY <2>2, <2>3, <1>1, <1>2, ReplaceKeeps
<1>. QED  BY <1>3, <1>4 DEF eval_call

\* A stage invoked with its source's value opens no body of its own yet.
LEMMA InvokeKeeps ==
  ASSUME IInv, InvokeStage
  PROVE  IInv'
<1>. DEFINE e == Invoke(Top)
<1>1. /\ Top.phase = "source" /\ stack # <<>> /\ UNCHANGED <<depth, frames>>
      /\ result' = "none" /\ stack' = [stack EXCEPT ![Len(stack)] = e]
  BY PhaseOfNode DEF InvokeStage, Phase
<1>2. Top.kind = "call"
  BY <1>1, TopFields DEF Kinds
<1>3. /\ e \in Entries /\ e.phase = "parts" /\ e.entry = Top.entry
      /\ e.kind = Top.kind /\ e.fused = Top.fused
      /\ e.frame_depth = Len(frames)
  BY <1>1, TopFields
<1>. HIDE DEF e
<1>. QED  BY <1>1, <1>2, <1>3, ReplaceKeeps

\* A change of phase alone, within a body or outside it.
LEMMA PhaseKeeps ==
  ASSUME IInv, stack # <<>>, NEW p \in Phases \ {"source"}, To(p),
         p \in {"body", "probe"} <=> Top.phase \in {"body", "probe"},
         Top.kind = "call" => p \in {"body", "probe"},
         Top.kind = "guard" => p \in {"left", "right"},
         Top.kind # "expr",
         result' \in {"none", "ok"} \cup Errors,
         UNCHANGED <<depth, frames>>
  PROVE  IInv'
<1>. DEFINE e == [Top EXCEPT !.phase = p]
<1>1. /\ e \in Entries /\ e.phase = p /\ e.entry = Top.entry
      /\ e.kind = Top.kind /\ e.fused = Top.fused
      /\ e.frame_depth = Top.frame_depth /\ Top = stack[Len(stack)]
      /\ Len(stack) \in DOMAIN stack
  BY TopFields, TopIsLast DEF IInv, TypeOK
<1>2. stack' = [stack EXCEPT ![Len(stack)] = e]
  BY <1>1 DEF To, IInv, TypeOK
<1>. HIDE DEF e
<1>. QED  BY <1>1, <1>2, ReplaceKeeps

\* Asking a conjunct, and being answered, stay inside the same body.
LEMMA VerdictKeeps ==
  ASSUME IInv, join_verdict
  PROVE  IInv'
<1>1. CASE Phase("body") /\ result = "none" /\ To("probe") /\ UNCHANGED result
  <2>1. Top.phase = "body" /\ stack # <<>>
    BY <1>1, PhaseOfNode DEF Phase
  <2>2. Top.kind = "call"
    BY <2>1, TopFields DEF Kinds
  <2>. QED  BY <1>1, <2>1, <2>2, PhaseKeeps DEF join_verdict, Phases
<1>2. CASE Phase("probe") /\ To("body") /\ result' = "none"
  <2>1. Top.phase = "probe" /\ stack # <<>>
    BY <1>2, PhaseOfNode DEF Phase
  <2>2. Top.kind = "call"
    BY <2>1, TopFields DEF Kinds
  <2>. QED  BY <1>2, <2>1, <2>2, PhaseKeeps DEF join_verdict, Phases
<1>. QED  BY <1>1, <1>2 DEF join_verdict

\* ?? going on to its right operand changes its phase and cuts the frames.
LEMMA FallBackKeeps ==
  ASSUME IInv, FallBack
  PROVE  IInv'
<1>1. Top.phase = "left" /\ stack # <<>>
  BY PhaseOfNode DEF FallBack, Phase
<1>2. Top.kind = "guard"
  BY <1>1, TopFields DEF Kinds
<1>. QED  BY <1>1, <1>2, PhaseKeeps DEF FallBack, Phases

\* Cutting the frames at a call in its body leaves those of the calls outside it.
LEMMA TruncateCuts ==
  ASSUME IInv, stack # <<>>, Top.kind = "call",
         Top.phase \in {"parts", "body", "probe"}
  PROVE  /\ truncate(Top) \in Seq(Nat)
         /\ Len(truncate(Top)) = Top.frame_depth
         /\ \A j \in 1 .. Top.frame_depth : truncate(Top)[j] = frames[j]
         /\ Top.frame_depth \in Nat /\ Top.frame_depth <= Len(frames)
         /\ \A j \in DOMAIN frames :
              frames[j] < Len(stack) <=> j <= Top.frame_depth
<1>1. /\ Len(stack) \in DOMAIN stack /\ Top = stack[Len(stack)] /\ Top \in Entries
      /\ Top.frame_depth \in Nat
  BY TopIsLast DEF IInv, TypeOK, Entries
<1>2. /\ Top.frame_depth <= Len(frames)
      /\ \A j \in DOMAIN frames :
           frames[j] < Len(stack) <=> j <= Top.frame_depth
  BY <1>1 DEF IInv, CutsInv
<1>3. truncate(Top) = SubSeq(frames, 1, Top.frame_depth)
  BY <1>1, <1>2 DEF truncate, IInv, TypeOK
<1>. QED  BY <1>1, <1>2, <1>3 DEF IInv, TypeOK

\* With no body running from place n + 1 on, every frame is one of the first n's.
LEMMA NoneToCut ==
  ASSUME IInv, NEW n \in Nat,
         \A i \in DOMAIN stack : i > n => stack[i].phase \notin {"body", "probe"}
  PROVE  /\ frames \in Seq(Nat) /\ Len(frames) \in Nat
         /\ \A j \in DOMAIN frames : frames[j] <= n <=> j <= Len(frames)
<1>1. frames \in Seq(Nat) /\ stack \in Seq(Entries)
  BY DEF IInv, TypeOK
<1>2. ASSUME NEW j \in DOMAIN frames PROVE frames[j] <= n /\ j <= Len(frames)
  <2>1. frames[j] \in DOMAIN stack /\ ~(frames[j] > n)
    BY FramesInStack
  <2>. QED  BY <2>1, <1>1
<1>. QED  BY <1>1, <1>2

\* A node that is done is left with the depth and frames outside it.
LEMMA ReturnKeeps ==
  ASSUME IInv, Return
  PROVE  IInv'
<1>. DEFINE n == Len(stack) - 1
<1>1. stack # <<>>
  BY PhaseOfNode DEF Return, Answered, Top, Root
<1>2. /\ Top = stack[Len(stack)] /\ Len(stack) \in DOMAIN stack
      /\ n \in Nat /\ n < Len(stack) /\ n + 1 = Len(stack)
      /\ depth = Len(stack) /\ Top \in Entries
  BY <1>1, TopIsLast DEF IInv, TypeOK, DepthIsNesting
<1>3. stack' = SubSeq(stack, 1, n) /\ result' = "ok"
  BY DEF Return, Front
<1>4. depth' = n
  <2>1. Top.entry = Len(stack)
    BY <1>2 DEF IInv, StagesInv
  <2>. QED  BY <2>1, <1>2 DEF Return, Restored
<1>5. CASE Top.kind = "call"
  <2>1. Top.phase \in {"parts", "body"}
    BY <1>5 DEF Return, Answered
  <2>2. /\ frames' \in Seq(Nat) /\ Len(frames') = Top.frame_depth
        /\ \A j \in 1 .. Top.frame_depth : frames'[j] = frames[j]
        /\ Top.frame_depth \in Nat /\ Top.frame_depth <= Len(frames)
        /\ \A j \in DOMAIN frames :
             frames[j] < Len(stack) <=> j <= Top.frame_depth
    BY <1>1, <1>5, <2>1, TruncateCuts DEF Return
  <2>3. \A j \in DOMAIN frames : frames[j] <= n <=> j <= Top.frame_depth
    <3>. TAKE j \in DOMAIN frames
    <3>1. frames[j] \in Nat /\ Len(stack) \in Nat
      BY <1>2 DEF IInv, TypeOK
    <3>. QED  BY <3>1, <2>2, <1>2
  <2>. QED  BY <1>2, <1>3, <1>4, <2>2, <2>3, CutKeeps
<1>6. CASE Top.kind # "call"
  <2>1. Top.phase \notin {"body", "probe"}
    BY <1>1, <1>6, TopFields DEF Kinds
  <2>2. \A i \in DOMAIN stack : i > n => i = Len(stack)
    BY <1>2 DEF IInv, TypeOK
  <2>3. frames' = frames
    BY <1>6 DEF Return
  <2>4. /\ frames \in Seq(Nat) /\ Len(frames) \in Nat
        /\ \A j \in DOMAIN frames : frames[j] <= n <=> j <= Len(frames)
    BY <1>2, <2>1, <2>2, NoneToCut
  <2>5. /\ n \in Nat /\ n < Len(stack) /\ stack' = SubSeq(stack, 1, n)
        /\ result' \in {"none", "ok"} \cup Errors
    BY <1>2, <1>3
  <2>. HIDE DEF n
  <2>. QED  BY <1>4, <2>3, <2>4, <2>5, CutKeeps
<1>. QED  BY <1>5, <1>6

\* An error leaves the innermost live node and the stages above it.
LEMMA FailKeeps ==
  ASSUME IInv, Fail
  PROVE  IInv'
<1>. DEFINE n == Live - 1
<1>1. /\ stack # <<>> /\ result' \in Errors /\ depth' = Restored(stack[Live])
      /\ stack' = SubSeq(stack, 1, n) /\ Top.phase # "probe"
  BY DEF Fail, Catches
<1>2. /\ Live \in DOMAIN stack /\ depth' = n
      /\ \A i \in Live .. Len(stack) - 1 : stack[i].phase = "source"
  BY <1>1, LiveIsLive, LiveRestores
<1>3. /\ Top = stack[Len(stack)] /\ Len(stack) \in Nat
      /\ n \in Nat /\ n < Len(stack) /\ n + 1 = Live
      /\ DOMAIN stack = 1 .. Len(stack)
  BY <1>1, <1>2, TopIsLast DEF IInv, TypeOK
<1>4. ASSUME NEW i \in DOMAIN stack, i > n, i # Len(stack)
      PROVE  stack[i].phase = "source"
  BY <1>4, <1>2, <1>3
<1>5. CASE Top.kind = "call" /\ Top.phase \in {"parts", "body"}
  <2>1. /\ frames' \in Seq(Nat) /\ Len(frames') = Top.frame_depth
        /\ \A j \in 1 .. Top.frame_depth : frames'[j] = frames[j]
        /\ Top.frame_depth \in Nat /\ Top.frame_depth <= Len(frames)
        /\ \A j \in DOMAIN frames :
             frames[j] < Len(stack) <=> j <= Top.frame_depth
    BY <1>1, <1>5, TruncateCuts DEF Fail
  <2>2. \A j \in DOMAIN frames : frames[j] <= n <=> j <= Top.frame_depth
    <3>. TAKE j \in DOMAIN frames
    <3>1. /\ frames[j] \in DOMAIN stack /\ frames[j] \in Nat
          /\ stack[frames[j]].phase # "source"
      BY SMTT(30), FramesInStack DEF IInv, TypeOK
    <3>2. frames[j] < Len(stack) <=> frames[j] <= n
      BY <3>1, <1>3, <1>4
    <3>. QED  BY <3>2, <2>1
  <2>. QED  BY <1>1, <1>2, <1>3, <2>1, <2>2, CutKeeps
<1>6. CASE ~(Top.kind = "call" /\ Top.phase \in {"parts", "body"})
  <2>1. Top.phase \notin {"body", "probe"}
    BY <1>1, <1>6, TopFields DEF Kinds
  <2>2. frames' = frames
    BY <1>6 DEF Fail
  <2>3. /\ frames \in Seq(Nat) /\ Len(frames) \in Nat
        /\ \A j \in DOMAIN frames : frames[j] <= n <=> j <= Len(frames)
    BY <1>3, <1>4, <2>1, NoneToCut
  <2>. QED  BY <1>1, <1>2, <1>3, <2>2, <2>3, CutKeeps
<1>. QED  BY <1>5, <1>6

\* A new run begins with nothing open.
LEMMA NewRunKeeps ==
  ASSUME IInv, NewRun
  PROVE  IInv'
BY MaxDepthAssumption
   DEF NewRun, IInv, TypeOK, DepthIsNesting, FramesAreScopes, StagesInv, CutsInv

-----------------------------------------------------------------------------
\* Whatever is evaluated, at whatever limit, the live nodes hold what is needed
\* to put the depth and the frames back.
THEOREM EvaluatorInvariant == Spec => []IInv
<1>1. Init => IInv
  BY MaxDepthAssumption
     DEF Init, IInv, TypeOK, DepthIsNesting, FramesAreScopes, StagesInv, CutsInv
<1>2. IInv /\ [Next]_vars => IInv'
  <2>. SUFFICES ASSUME IInv, [Next]_vars PROVE IInv'
    OBVIOUS
  <2>1. CASE \E kind \in Kinds : eval_node(kind)
    BY <2>1, EnterKeeps
  <2>2. CASE Literal \/ UnknownFunction \/ NextPart \/ Raise
    BY <2>2, AnswerKeeps DEF Literal, UnknownFunction, NextPart, Raise, Errors,
       Caught
  <2>3. CASE eval_call
    BY <2>3, CallKeeps
  <2>4. CASE Fuse
    BY <2>4, FuseKeeps
  <2>5. CASE InvokeStage
    BY <2>5, InvokeKeeps
  <2>6. CASE push_frame
    BY <2>6, OpenKeeps
  <2>7. CASE pop_frame
    BY <2>7, CloseKeeps
  <2>8. CASE join_verdict
    BY <2>8, VerdictKeeps
  <2>9. CASE FallBack
    BY <2>9, FallBackKeeps
  <2>10. CASE Return
    BY <2>10, ReturnKeeps
  <2>11. CASE Fail
    BY <2>11, FailKeeps
  <2>12. CASE NewRun
    BY <2>12, NewRunKeeps
  <2>13. CASE UNCHANGED vars
    BY <2>13, AnswerKeeps DEF vars, IInv, TypeOK
  <2>. QED  BY <2>1, <2>2, <2>3, <2>4, <2>5, <2>6, <2>7, <2>8, <2>9, <2>10,
               <2>11, <2>12, <2>13 DEF Next
<1>. QED  BY <1>1, <1>2, PTL DEF Spec

\* The depth counter is the nesting, for every limit.
THEOREM DepthCountsNesting == Spec => []DepthIsNesting
<1>1. IInv => DepthIsNesting
  BY DEF IInv
<1>. QED  BY <1>1, EvaluatorInvariant, PTL

\* The binder frames are those of the running bodies, for every limit.
THEOREM FramesFollowBodies == Spec => []FramesAreScopes
<1>1. IInv => FramesAreScopes
  BY DEF IInv
<1>. QED  BY <1>1, EvaluatorInvariant, PTL

-----------------------------------------------------------------------------
(* The plain nesting that the stack and the frames stand for. *)

Open == [i \in DOMAIN stack |-> stack[i].kind]
Scopes == {frames[j] : j \in DOMAIN frames}
Bodies == {i \in DOMAIN stack : stack[i].phase \in {"body", "probe"}}

\* The scopes in force are the positions of the running bodies.
LEMMA ScopesAreBodies ==
  ASSUME IInv
  PROVE  Scopes = Bodies
BY DEF IInv, FramesAreScopes, Scopes, Bodies

\* The nodes open are as many as the stack's, and of the same kinds.
LEMMA OpenIsStack ==
  ASSUME IInv
  PROVE  /\ Open \in Seq(Kinds) /\ Len(Open) = Len(stack) /\ Len(Open) \in Nat
         /\ Open = <<>> <=> stack = <<>>
         /\ stack # <<>> => Top.kind = Open[Len(Open)] /\ Top.phase \in Phases
                            /\ (Len(Open) \in Scopes <=>
                                  Top.phase \in {"body", "probe"})
<1>1. /\ stack \in Seq(Entries) /\ Len(stack) \in Nat
      /\ \A i \in DOMAIN stack : stack[i].kind \in Kinds
  <2>1. stack \in Seq(Entries) /\ Len(stack) \in Nat
    BY DEF IInv, TypeOK
  <2>2. \A i \in DOMAIN stack : stack[i] \in Entries
    BY <2>1
  <2>. QED  BY <2>1, <2>2 DEF Entries
<1>2. Open \in Seq(Kinds) /\ Len(Open) = Len(stack) /\ DOMAIN Open = DOMAIN stack
  BY <1>1 DEF Open
<1>3. Open = <<>> <=> stack = <<>>
  BY <1>1, <1>2
<1>4. ASSUME stack # <<>>
      PROVE  /\ Top.kind = Open[Len(Open)] /\ Top.phase \in Phases
             /\ Len(Open) \in Scopes <=> Top.phase \in {"body", "probe"}
  <2>1. Len(stack) \in DOMAIN stack /\ Top = stack[Len(stack)] /\ Top \in Entries
    BY <1>4, <1>1, TopIsLast
  <2>. QED  BY <2>1, <1>2, ScopesAreBodies DEF Open, Bodies, Entries
<1>. QED  BY <1>1, <1>2, <1>3, <1>4

\* Nothing is opened or closed when the stack and the frames stay.
LEMMA SameNesting ==
  ASSUME UNCHANGED <<stack, frames>>
  PROVE  Open' = Open /\ Scopes' = Scopes
BY DEF Open, Scopes

\* Changing the top but not whether it runs a body opens and closes nothing.
LEMMA TopNesting ==
  ASSUME IInv, IInv', stack # <<>>, NEW e,
         e.kind = Top.kind,
         e.phase \in {"body", "probe"} <=> Top.phase \in {"body", "probe"},
         stack' = [stack EXCEPT ![Len(stack)] = e]
  PROVE  Open' = Open /\ Scopes' = Scopes
<1>1. /\ Len(stack) \in DOMAIN stack /\ Top = stack[Len(stack)]
      /\ DOMAIN stack' = DOMAIN stack
      /\ \A i \in DOMAIN stack : i # Len(stack) => stack'[i] = stack[i]
      /\ stack'[Len(stack)] = e
  BY TopIsLast DEF IInv, TypeOK
<1>2. Open' = Open
  BY <1>1 DEF Open
<1>3. Bodies' = Bodies
  BY <1>1 DEF Bodies
<1>4. Scopes' = Bodies'
  BY DEF IInv, FramesAreScopes, Scopes, Bodies
<1>. QED  BY <1>2, <1>3, <1>4, ScopesAreBodies

\* One more node opens nothing else.
LEMMA PushNesting ==
  ASSUME IInv, IInv', NEW e, e.phase \notin {"body", "probe"},
         stack' = Append(stack, e)
  PROVE  Open' = Append(Open, e.kind) /\ Scopes' = Scopes
<1>. DEFINE n == Len(stack) + 1
<1>1. /\ Len(stack') = n /\ n \in Nat /\ n \notin DOMAIN stack
      /\ DOMAIN stack' = DOMAIN stack \cup {n}
      /\ \A i \in DOMAIN stack : stack'[i] = stack[i]
      /\ stack'[n] = e
  BY DEF IInv, TypeOK
<1>2. Open' = Append(Open, e.kind)
  <2>1. /\ Open \in Seq(Kinds) /\ Len(Open) = Len(stack)
        /\ DOMAIN Open = DOMAIN stack
    BY OpenIsStack DEF Open
  <2>2. Open' = [i \in DOMAIN stack \cup {n} |->
                   IF i = n THEN e.kind ELSE stack[i].kind]
    BY <1>1 DEF Open
  <2>3. Append(Open, e.kind) = [i \in DOMAIN stack \cup {n} |->
                                  IF i = n THEN e.kind ELSE Open[i]]
    BY <2>1, <1>1
  <2>. QED  BY <2>2, <2>3 DEF Open
<1>3. Bodies' = Bodies
  BY <1>1 DEF Bodies
<1>4. Scopes' = Bodies'
  BY DEF IInv, FramesAreScopes, Scopes, Bodies
<1>. QED  BY <1>2, <1>3, <1>4, ScopesAreBodies

\* Cutting the stack back to n closes what was opened after its first n.
LEMMA CutNesting ==
  ASSUME IInv, IInv', NEW n \in Nat, n < Len(stack),
         stack' = SubSeq(stack, 1, n)
  PROVE  Open' = SubSeq(Open, 1, n) /\ Scopes' = {q \in Scopes : q <= n}
<1>1. /\ Len(stack') = n /\ DOMAIN stack' = 1 .. n
      /\ \A i \in 1 .. n : stack'[i] = stack[i] /\ i \in DOMAIN stack
      /\ DOMAIN stack = 1 .. Len(stack) /\ Len(stack) \in Nat
  BY DEF IInv, TypeOK
<1>2. Open' = SubSeq(Open, 1, n)
  <2>1. Open \in Seq(Kinds) /\ Len(Open) = Len(stack)
    BY OpenIsStack
  <2>2. Open' = [i \in 1 .. n |-> stack[i].kind]
    BY <1>1 DEF Open
  <2>3. SubSeq(Open, 1, n) = [i \in 1 .. n |-> Open[i]]
    BY <2>1
  <2>. QED  BY <2>2, <2>3, <1>1 DEF Open
<1>3. Bodies' = {q \in Bodies : q <= n}
  BY <1>1 DEF Bodies
<1>4. Scopes' = Bodies'
  BY DEF IInv, FramesAreScopes, Scopes, Bodies
<1>. QED  BY <1>2, <1>3, <1>4, ScopesAreBodies

\* Every step of the evaluator is one of plain nested evaluation, or none.
LEMMA StepIsPlain ==
  ASSUME IInv, IInv', [Next]_vars
  PROVE  [Plain!Next]_(Plain!vars)
<1>. DEFINE N == Len(stack)
<1>1. /\ Plain!vars = <<Open, Scopes, result>>
      /\ Plain!vars' = <<Open', Scopes', result'>>
  BY DEF Plain!vars, Open, Scopes
<1>2. /\ Open \in Seq(Kinds) /\ Len(Open) = N /\ N \in Nat
      /\ Open = <<>> <=> stack = <<>>
      /\ stack # <<>> => Top.kind = Open[N] /\ Top.phase \in Phases
                         /\ (N \in Scopes <=> Top.phase \in {"body", "probe"})
      /\ depth = N /\ N <= MaxDepth
      /\ result \in {"none", "ok"} \cup Errors
      /\ MaxDepth \in Nat
  BY OpenIsStack, MaxDepthAssumption DEF IInv, DepthIsNesting, TypeOK
<1>3. ASSUME NEW kind \in Kinds, eval_node(kind)
      PROVE  Plain!Enter(kind) \/ Plain!TooDeep
  <2>1. result = "none"
    BY <1>3 DEF eval_node, Asking
  <2>2. CASE depth + 1 > MaxDepth /\ result' = "E_DEPTH"
             /\ UNCHANGED <<stack, depth, frames>>
    BY <2>1, <2>2, <1>2, SameNesting
       DEF Plain!TooDeep, Plain!Running, Open, Scopes
  <2>3. CASE /\ ~(depth + 1 > MaxDepth)
             /\ stack' = Append(stack, Node(kind, FALSE))
             /\ UNCHANGED <<frames, result>>
    <3>1. /\ Node(kind, FALSE).kind = kind
          /\ Node(kind, FALSE).phase \notin {"body", "probe"}
      BY DEF Node, FirstPhase, Kinds
    <3>2. Open' = Append(Open, kind) /\ Scopes' = Scopes
      BY <3>1, <2>3, PushNesting
    <3>3. Len(Open) < MaxDepth
      BY <2>3, <1>2
    <3>4. UNCHANGED result
      BY <2>3
    <3>. QED  BY <2>1, <3>2, <3>3, <3>4
              DEF Plain!Enter, Plain!Running, Open, Scopes
  <2>. QED  BY <1>3, <2>2, <2>3 DEF eval_node
<1>4. ASSUME Literal PROVE Plain!Literal
  BY <1>4, <1>2, SameNesting
     DEF Literal, Asking, Plain!Literal, Plain!Running, Open, Scopes
<1>5. ASSUME eval_call PROVE UNCHANGED Plain!vars
  <2>1. Top.phase = "head" /\ stack # <<>>
    BY <1>5, PhaseOfNode DEF eval_call, Phase
  <2>2. Top = stack[N] /\ Top \in Entries
    BY <2>1, TopFields
  <2>3. CASE stack' = [stack EXCEPT ![N] = Invoke(Top)]
    <3>. DEFINE e == Invoke(Top)
    <3>1. e.kind = Top.kind /\ e.phase = "parts"
      BY <2>1, TopFields
    <3>. HIDE DEF e
    <3>2. stack' = [stack EXCEPT ![N] = e]
      BY <2>3 DEF e
    <3>3. Open' = Open /\ Scopes' = Scopes
      BY <3>1, <3>2, <2>1, TopNesting
    <3>. QED  BY <3>3, <1>1, <1>5 DEF eval_call
  <2>4. CASE stack' = [stack EXCEPT ![N].phase = "source", ![N].chain = TRUE]
    <3>. DEFINE e == [Top EXCEPT !.phase = "source", !.chain = TRUE]
    <3>1. e.kind = Top.kind /\ e.phase = "source"
      BY <2>2 DEF Entries
    <3>2. stack' = [stack EXCEPT ![N] = e]
      BY <2>2, <2>4 DEF IInv, TypeOK
    <3>. HIDE DEF e
    <3>3. Open' = Open /\ Scopes' = Scopes
      BY <3>1, <3>2, <2>1, TopNesting
    <3>. QED  BY <3>3, <1>1, <1>5 DEF eval_call
  <2>. QED  BY <1>5, <2>3, <2>4 DEF eval_call
<1>6. ASSUME Fuse PROVE Plain!Enter("call")
  <2>1. /\ Node("call", TRUE).kind = "call"
        /\ Node("call", TRUE).phase \notin {"body", "probe"}
    BY DEF Node
  <2>2. Open' = Append(Open, "call") /\ Scopes' = Scopes
    BY <1>6, <2>1, PushNesting DEF Fuse
  <2>. QED  BY <1>6, <2>2, <1>2 DEF Fuse, Plain!Enter, Plain!Running, Open, Scopes
<1>7. ASSUME UnknownFunction PROVE Plain!Raise
  <2>1. stack # <<>>
    BY <1>7, PhaseOfNode DEF UnknownFunction, Phase
  <2>. QED  BY <1>7, <2>1, <1>2, SameNesting
            DEF UnknownFunction, Plain!Raise, Plain!Running, Open, Scopes, Errors
<1>8. ASSUME InvokeStage PROVE Plain!Resume
  <2>1. Top.phase = "source" /\ stack # <<>>
    BY <1>8, PhaseOfNode DEF InvokeStage, Phase
  <2>. DEFINE e == Invoke(Top)
  <2>2. e.kind = Top.kind /\ e.phase = "parts"
    BY <2>1, TopFields
  <2>3. stack' = [stack EXCEPT ![N] = e]
    BY <1>8 DEF InvokeStage
  <2>. HIDE DEF e
  <2>4. Open' = Open /\ Scopes' = Scopes
    BY <2>1, <2>2, <2>3, TopNesting
  <2>. QED  BY <1>8, <2>1, <2>4, <1>2 DEF InvokeStage, Plain!Resume, Open, Scopes
<1>9. ASSUME push_frame PROVE Plain!OpenScope
  <2>1. /\ stack # <<>> /\ Top.phase = "parts" /\ Top.kind = "call"
        /\ result = "none"
    BY <1>9, PhaseOfNode DEF push_frame, Phase
  <2>2. To("body") /\ "body" \in Phases /\ stack \in Seq(Entries)
    BY <1>9 DEF push_frame, Phases, IInv, TypeOK
  <2>3. Open' = Open
    BY <2>1, <2>2, Rephased DEF Open
  <2>4. Scopes' = Scopes \cup {N}
    <3>1. /\ frames \in Seq(Nat) /\ frames' = Append(frames, N)
      BY <1>9 DEF push_frame, IInv, TypeOK
    <3>2. /\ DOMAIN frames' = DOMAIN frames \cup {Len(frames) + 1}
          /\ \A j \in DOMAIN frames : frames'[j] = frames[j]
          /\ frames'[Len(frames) + 1] = N
      BY <3>1
    <3>. QED  BY <3>2 DEF Scopes
  <2>. QED  BY <1>9, <2>1, <2>3, <2>4, <1>2
            DEF push_frame, Plain!OpenScope, Plain!Running, Plain!Bound, Open, Scopes
<1>10. ASSUME pop_frame PROVE Plain!CloseScope
  <2>1. /\ stack # <<>> /\ Top.phase = "body" /\ result = "none"
    BY <1>10, PhaseOfNode DEF pop_frame, Phase
  <2>2. To("parts") /\ "parts" \in Phases /\ stack \in Seq(Entries)
    BY <1>10 DEF pop_frame, Phases, IInv, TypeOK
  <2>3. /\ DOMAIN stack' = DOMAIN stack
        /\ \A k \in DOMAIN stack :
             /\ k \in Nat /\ k <= N
             /\ k # N => stack'[k].phase = stack[k].phase
             /\ k = N => stack'[k].phase = "parts"
             /\ stack'[k].kind = stack[k].kind
    BY <2>1, <2>2, Rephased
  <2>4. Open' = Open
    BY <2>3 DEF Open
  <2>5. Scopes' = {q \in Scopes : q <= N - 1}
    <3>1. Bodies' = {q \in Bodies : q <= N - 1}
      BY <2>3, <1>2 DEF Bodies
    <3>2. Scopes' = Bodies'
      BY DEF IInv, FramesAreScopes, Scopes, Bodies
    <3>. QED  BY <3>1, <3>2, ScopesAreBodies
  <2>. QED  BY <1>10, <2>1, <2>4, <2>5, <1>2
            DEF pop_frame, Plain!CloseScope, Plain!Running, Plain!Bound,
                Plain!Within, Open, Scopes
<1>11. ASSUME join_verdict PROVE Plain!Resume \/ UNCHANGED Plain!vars
  <2>1. ASSUME NEW p \in Phases, To(p), stack # <<>>,
               p \in {"body", "probe"}, Top.phase \in {"body", "probe"}
        PROVE  Open' = Open /\ Scopes' = Scopes
    <3>. DEFINE e == [Top EXCEPT !.phase = p]
    <3>1. e.kind = Top.kind /\ e.phase = p
      BY <2>1, TopFields
    <3>2. stack' = [stack EXCEPT ![N] = e]
      BY <2>1, TopFields DEF To, IInv, TypeOK
    <3>. HIDE DEF e
    <3>. QED  BY <3>1, <3>2, <2>1, TopNesting
  <2>2. CASE Phase("body") /\ To("probe") /\ UNCHANGED result
    BY <2>2, <2>1, <1>1, PhaseOfNode DEF Phase, Phases
  <2>3. CASE Phase("probe") /\ result # "none" /\ To("body") /\ result' = "none"
    <3>1. Top.phase = "probe" /\ stack # <<>>
      BY <2>3, PhaseOfNode DEF Phase
    <3>2. Open' = Open /\ Scopes' = Scopes
      BY <3>1, <2>3, <2>1 DEF Phases
    <3>. QED  BY <3>1, <3>2, <2>3, <1>2
              DEF Plain!Resume, Plain!Bound, Open, Scopes
  <2>. QED  BY <1>11, <2>2, <2>3 DEF join_verdict
<1>12. ASSUME NextPart PROVE Plain!Resume
  <2>1. stack # <<>>
    BY <1>12, PhaseOfNode DEF NextPart
  <2>. QED  BY <1>12, <2>1, <1>2, SameNesting
            DEF NextPart, Plain!Resume, Open, Scopes
<1>13. ASSUME FallBack PROVE Plain!Resume
  <2>1. /\ Top.phase = "left" /\ stack # <<>> /\ result' = "none"
        /\ result \in {"ok", "E_NO_KEY"}
    BY <1>13, PhaseOfNode DEF FallBack, Phase, Caught
  <2>2. Top.kind = "guard"
    BY <2>1, TopFields DEF Kinds
  <2>. DEFINE e == [Top EXCEPT !.phase = "right"]
  <2>3. e.kind = Top.kind /\ e.phase = "right"
    BY <2>1, TopFields DEF Phases
  <2>4. stack' = [stack EXCEPT ![N] = e]
    BY <1>13, <2>1, TopFields DEF FallBack, To, IInv, TypeOK
  <2>. HIDE DEF e
  <2>5. Open' = Open /\ Scopes' = Scopes
    BY <2>1, <2>3, <2>4, TopNesting
  <2>. QED  BY <2>1, <2>2, <2>5, <1>2 DEF Plain!Resume, Open, Scopes
<1>14. ASSUME Return PROVE Plain!Answer
  <2>1. /\ stack # <<>> /\ result \in {"none", "ok"} /\ result' = "ok"
        /\ stack' = SubSeq(stack, 1, N - 1)
    BY <1>14, PhaseOfNode DEF Return, Answered, Top, Root, Front
  <2>2. N - 1 \in Nat /\ N - 1 < N
    BY <2>1, <1>2
  <2>3. Open' = SubSeq(Open, 1, N - 1) /\ Scopes' = {q \in Scopes : q <= N - 1}
    BY <2>1, <2>2, CutNesting
  <2>. QED  BY <2>1, <2>3, <1>2 DEF Plain!Answer, Plain!Within, Open, Scopes
<1>15. ASSUME Raise PROVE Plain!Raise
  <2>1. stack # <<>>
    BY <1>15, PhaseOfNode DEF Raise
  <2>. QED  BY <1>15, <2>1, <1>2, SameNesting
            DEF Raise, Plain!Raise, Plain!Running, Open, Scopes, Errors, Caught
<1>16. ASSUME Fail PROVE Plain!Unwind
  <2>. DEFINE n == Live - 1
  <2>1. /\ stack # <<>> /\ result \in Errors /\ result' = result
        /\ stack' = SubSeq(stack, 1, n)
    BY <1>16 DEF Fail
  <2>2. n \in 0 .. N - 1 /\ n \in Nat /\ n < N
    BY <2>1, <1>2, LiveIsLive DEF IInv, TypeOK
  <2>3. Open' = SubSeq(Open, 1, n) /\ Scopes' = {q \in Scopes : q <= n}
    BY <2>1, <2>2, CutNesting
  <2>. HIDE DEF n
  <2>. QED  BY <2>1, <2>2, <2>3, <1>2 DEF Plain!Unwind, Plain!Within, Open, Scopes
<1>17. ASSUME NewRun PROVE Plain!NewRun
  <2>1. stack = <<>> /\ stack' = stack
    BY <1>17 DEF NewRun
  <2>2. Scopes = {} /\ Scopes' = {}
    BY <2>1 DEF IInv, FramesAreScopes, Scopes
  <2>3. Open' = Open /\ Open = <<>>
    BY <2>1, <1>2 DEF Open
  <2>. QED  BY <1>17, <2>2, <2>3 DEF NewRun, Plain!NewRun, Plain!Running, Open, Scopes
<1>18. ASSUME UNCHANGED vars PROVE UNCHANGED Plain!vars
  BY <1>18, <1>1, SameNesting DEF vars
<1>. QED  BY <1>3, <1>4, <1>5, <1>6, <1>7, <1>8, <1>9, <1>10, <1>11, <1>12,
             <1>13, <1>14, <1>15, <1>16, <1>17, <1>18
          DEF Next, Plain!Next, Plain!Kinds, Kinds

\* The evaluator, with its pipelines and its caught errors, is an implementation
\* of plain nested evaluation for every depth limit.
THEOREM EvaluatorImplementsPlain == Spec => ImplementsPlainEvaluation
<1>1. Init => Plain!Init
  <2>. SUFFICES ASSUME Init PROVE Plain!Init
    OBVIOUS
  <2>1. stack = <<>> /\ frames = <<>> /\ result = "none"
    BY DEF Init
  <2>. QED  BY <2>1 DEF Plain!Init
<1>2. IInv /\ IInv' /\ [Next]_vars => [Plain!Next]_(Plain!vars)
  BY StepIsPlain
<1>. QED  BY <1>1, <1>2, EvaluatorInvariant, PTL
          DEF Spec, ImplementsPlainEvaluation, Plain!Spec
=============================================================================
